----------------------------- MODULE ToolServers -----------------------------
(***************************************************************************)
(* The tool servers (iquantum-daemon/src/mcp-client.ts): processes the daemon   *)
(* starts when they are first wanted and speaks MCP with, each behind a client   *)
(* with a #connected flag, and the registry that lists their tools under           *)
(* server__tool and routes a call by that name.  Every conversation uses the       *)
(* one registry.                                                               *)
(*                                                                         *)
(* The client of the MCP SDK is external: it takes one connection at a time,        *)
(* rejects what is asked of a closed one, and notices when the process ends.        *)
(* Arguments and results are not represented; a name is a sequence of letters.       *)
(***************************************************************************)
EXTENDS Integers, Sequences, FiniteSetsExt

CONSTANTS
  NameLetters,     \* the letters of names
  ServerNames,     \* sequence: the names of mcpServers
  ServerTools,     \* sequence: the names of each one's tools
  McpCalls,        \* calls of the registry
  MaxServerFaults  \* bound: ends of servers nobody asked for

Servers    == DOMAIN ServerNames
Underscore == "_"
ASSUME ToolServersAssumption ==
  /\ ServerNames \in Seq(Seq(NameLetters)) /\ ServerNames # <<>>
  /\ Servers = DOMAIN ServerTools /\ \A i \in Servers : ServerTools[i] \subseteq Seq(NameLetters)
  /\ Underscore \in NameLetters
  /\ MaxServerFaults \in Nat

VARIABLES
  sdk,        \* [server -> its connection]
  connected,  \* [server -> #connected]
  mcpCall,    \* [call -> what it asks and how far it is]
  endedServers, \* the servers that ended by themselves, in that order
  trouble,    \* history: <<call, server>>: it would not start or answer, or was
              \* just being started for another call
  closedAll   \* closeAll was called

toolServerVars == <<sdk, connected, mcpCall, endedServers, trouble, closedAll>>

NoMcpCall == [kind |-> "none", name |-> <<>>, at |-> 0, tool |-> <<>>, step |-> "idle", listed |-> {}]

ToolServersRest ==
  /\ sdk = [i \in Servers |-> "closed"]
  /\ connected = [i \in Servers |-> FALSE]
  /\ mcpCall = [c \in McpCalls |-> NoMcpCall]
  /\ endedServers = <<>> /\ trouble = {} /\ closedAll = FALSE
ToolServersInit == ToolServersRest

-----------------------------------------------------------------------------
(* Names. *)

Underscores == <<Underscore, Underscore>>
Namespaced(i, tool) == ServerNames[i] \o Underscores \o tool
Separators(name) == {k \in 1..Len(name) - 1 : SubSeq(name, k, k + 1) = Underscores}

\* The client and the tool a name means, by its first separator; nobody, if there
\* is no separator or no server of that name.
SplitName(name) ==
  LET k == Min(Separators(name))
      named == {i \in Servers : ServerNames[i] = SubSeq(name, 1, k - 1)}
  IN IF Separators(name) = {} \/ named = {} THEN <<0, <<>>>>
     ELSE <<Min(named), SubSeq(name, k + 2, Len(name))>>

-----------------------------------------------------------------------------
(* What becomes of a call. *)

CallAt(c, step) == mcpCall[c].step = step
CallIs(c, call) == mcpCall' = [mcpCall EXCEPT ![c] = call]
AtNow(c) == mcpCall[c].at

\* A list goes on to the next server, past one that answered or failed; a call of a
\* tool is at its end.
OnToNext(call) ==
  IF call.at = Len(ServerNames) THEN [call EXCEPT !.step = "listed"]
  ELSE [call EXCEPT !.at = @ + 1, !.step = "connect"]
Served(call) ==
  IF call.kind = "list" THEN OnToNext([call EXCEPT !.listed = @ \cup {call.at}])
  ELSE [call EXCEPT !.step = "served"]
Unserved(call) ==
  IF call.kind = "list" THEN OnToNext(call) ELSE [call EXCEPT !.step = "failed"]

ListTools(c) ==
  /\ CallAt(c, "idle")
  /\ CallIs(c, [NoMcpCall EXCEPT !.kind = "list", !.at = 1, !.step = "connect"])
  /\ UNCHANGED <<sdk, connected, endedServers, trouble, closedAll>>

\* A model asks for a tool it was told of, or for one that is not there.
KnownNames == UNION {{Namespaced(i, t) : t \in ServerTools[i]} : i \in Servers}
CallTool(c) ==
  /\ CallAt(c, "idle")
  /\ \E name \in KnownNames \cup {<<"?">>, <<"?">> \o Underscores \o <<"?">>} :
       LET split == SplitName(name) IN
       CallIs(c, [NoMcpCall EXCEPT !.kind = "call", !.name = name, !.at = split[1], !.tool = split[2],
                                  !.step = IF split[1] = 0 THEN "failed" ELSE "connect"])
  /\ UNCHANGED <<sdk, connected, endedServers, trouble, closedAll>>

\* connect: the flag is down and nobody else is connecting.
BeginConnect(c) ==
  LET i == AtNow(c) IN
  /\ CallAt(c, "connect") /\ ~connected[i] /\ sdk[i] = "closed"
  /\ sdk' = [sdk EXCEPT ![i] = "opening"]
  /\ CallIs(c, [mcpCall[c] EXCEPT !.step = "opening"])
  /\ UNCHANGED <<connected, endedServers, trouble, closedAll>>

\* The SDK rejects a second connection, and any use of a connection that is gone.
ConnectRejects(c) ==
  LET i == AtNow(c) IN
  /\ CallAt(c, "connect") /\ sdk[i] # (IF connected[i] THEN "open" ELSE "closed")
  /\ CallIs(c, Unserved(mcpCall[c]))
  /\ trouble' = IF sdk[i] = "opening" THEN trouble \cup {<<c, i>>} ELSE trouble
  /\ UNCHANGED <<sdk, connected, endedServers, closedAll>>

AskServer(c) ==
  /\ CallAt(c, "connect") /\ connected[AtNow(c)] /\ sdk[AtNow(c)] = "open"
  /\ CallIs(c, [mcpCall[c] EXCEPT !.step = "asking"])
  /\ UNCHANGED <<sdk, connected, endedServers, trouble, closedAll>>

Opened(c) ==
  /\ CallAt(c, "opening")
  /\ sdk' = [sdk EXCEPT ![AtNow(c)] = "open"]
  /\ connected' = [connected EXCEPT ![AtNow(c)] = TRUE]
  /\ CallIs(c, [mcpCall[c] EXCEPT !.step = "asking"])
  /\ UNCHANGED <<endedServers, trouble, closedAll>>

\* The process does not start, or does not speak MCP.
OpenFails(c) ==
  /\ CallAt(c, "opening")
  /\ sdk' = [sdk EXCEPT ![AtNow(c)] = "closed"]
  /\ CallIs(c, Unserved(mcpCall[c]))
  /\ trouble' = trouble \cup {<<c, AtNow(c)>>}
  /\ UNCHANGED <<connected, endedServers, closedAll>>

AnswerTools(c) ==
  /\ CallAt(c, "asking") /\ sdk[AtNow(c)] = "open"
  /\ CallIs(c, Served(mcpCall[c]))
  /\ UNCHANGED <<sdk, connected, endedServers, trouble, closedAll>>

\* An error, or no answer in time: the connection stays, and so does the server's work.
TimeOut(c) ==
  /\ CallAt(c, "asking")
  /\ CallIs(c, Unserved(mcpCall[c]))
  /\ trouble' = trouble \cup {<<c, AtNow(c)>>}
  /\ UNCHANGED <<sdk, connected, endedServers, closedAll>>

\* A connection closes: what was asked over it is rejected.
RejectPending(i) ==
  mcpCall' = [c \in McpCalls |->
    IF CallAt(c, "asking") /\ AtNow(c) = i THEN Unserved(mcpCall[c]) ELSE mcpCall[c]]

\* The process ends.  The flag is not told.
ServerEnds(i) ==
  /\ sdk[i] = "open" /\ Len(endedServers) < MaxServerFaults
  /\ sdk' = [sdk EXCEPT ![i] = "closed"]
  /\ RejectPending(i)
  /\ endedServers' = Append(endedServers, i)
  /\ UNCHANGED <<connected, trouble, closedAll>>

\* closeAll, at the daemon's shutdown: the clients whose flag is up.
CloseAll ==
  /\ ~closedAll /\ closedAll' = TRUE
  /\ sdk' = [i \in Servers |-> IF connected[i] THEN "closing" ELSE sdk[i]]
  /\ UNCHANGED <<connected, mcpCall, endedServers, trouble>>

ClientClosed(i) ==
  /\ sdk[i] = "closing"
  /\ sdk' = [sdk EXCEPT ![i] = "closed"]
  /\ connected' = [connected EXCEPT ![i] = FALSE]
  /\ RejectPending(i)
  /\ UNCHANGED <<endedServers, trouble, closedAll>>

ToolServersNext ==
  \/ \E c \in McpCalls :
       \/ ListTools(c) \/ CallTool(c) \/ BeginConnect(c) \/ ConnectRejects(c) \/ AskServer(c)
       \/ Opened(c) \/ OpenFails(c) \/ AnswerTools(c) \/ TimeOut(c)
  \/ \E i \in Servers : ServerEnds(i) \/ ClientClosed(i)
  \/ CloseAll

-----------------------------------------------------------------------------
\* A tool's name, as listed to the model, leads back to the server and the tool it was
\* made of, also when the tool's own name holds a separator; a server's name must hold
\* none, not end in half of one, and be the first of its kind.
Routable(i) ==
  /\ Separators(ServerNames[i] \o <<Underscore>>) = {}
  /\ \A j \in Servers : ServerNames[j] = ServerNames[i] => i <= j
NamesLeadBack ==
  \A c \in McpCalls : mcpCall[c].kind = "call" =>
    \A i \in Servers : \A tool \in ServerTools[i] :
      Routable(i) /\ mcpCall[c].name = Namespaced(i, tool) => mcpCall[c].at = i /\ mcpCall[c].tool = tool

\* The flag of a client is up while its connection is open and, until closeAll, only then,
\* however many calls race for the first connection and however often it fails; but the
\* flag of a server that ended by itself stays up for good.
FlagTells ==
  \A i \in Servers :
    /\ sdk[i] = "open" => connected[i]
    /\ connected[i] => sdk[i] \in {"open", "closing"} \/ \E k \in DOMAIN endedServers : endedServers[k] = i

\* A list silently lacks a server only for a cause: it would not start or answer, it was
\* just being started for another call, it ended once, or the daemon is stopping.
ListsWhatIsUp ==
  \A c \in McpCalls : CallAt(c, "listed") =>
    \A i \in Servers \ mcpCall[c].listed :
      <<c, i>> \in trouble \/ closedAll \/ \E k \in DOMAIN endedServers : endedServers[k] = i

ServersTrue == NamesLeadBack /\ FlagTells /\ ListsWhatIsUp
=============================================================================
