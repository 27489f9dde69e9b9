---------------------------- MODULE Conversation ----------------------------
(***************************************************************************)
(* The chat of a session: addMessage, cancel and clear                      *)
(* (iquantum-daemon/src/conversation-controller.ts) with the compaction they *)
(* await (compaction-service.ts, packages/compaction) and the forced one of  *)
(* POST /sessions/:id/compact.                                              *)
(*                                                                         *)
(* A posted message is a process named by the message, a forced compaction  *)
(* one named by its request; at[r] is the await process r is suspended at,  *)
(* and an action is the code up to the next one.  All sessions share one    *)
(* abort controller, `current`: posting a message aborts the turn at work,  *)
(* whatever its session, and so does a cancel.                              *)
(*                                                                         *)
(* Texts, tokens and memory blocks are not represented: whether a list is   *)
(* over a threshold is any answer, and a log holds who wrote what, in the   *)
(* order in which the rows landed.                                          *)
(*                                                                         *)
(* That is not the order they are read in.  Every row carries the           *)
(* millisecond its message was made in, which may be long before it lands,  *)
(* and on both databases the store lists rows by this stamp, those of one   *)
(* millisecond by their random ids, so in any order.  The clock of the      *)
(* daemon does not run backwards.                                           *)
(***************************************************************************)
EXTENDS Integers, FiniteSets, Sequences

CONSTANTS
  MaxNow,       \* bound: milliseconds the clock counts (not of the code)
  MaxRequests,  \* bound: requests that are ever sent (not of the code)
  Calls,        \* posted messages, each one call of addMessage
  Squeezes,     \* requests for a forced compaction
  Sessions,
  KeepTurns,    \* keepTurns
  MaxTurns,     \* #maxToolTurns
  MaxUses       \* bound: tools a model asks for in a first turn, one less in each
                \* later one (not of the code)

ASSUME RequestsAssumption == Calls \cap Squeezes = {}
ASSUME LimitsAssumption ==
  /\ MaxNow \in Nat
  /\ MaxRequests \in Nat
  /\ KeepTurns \in Nat
  /\ MaxTurns \in Nat \ {0}
  /\ MaxUses \in Nat

VARIABLES
  log,              \* the rows of messages, per session
  now, since,       \* the clock; requests: when the row on its way was stamped, for
                    \* a summary at the earliest
  current, aborted, \* #abortController: at most one call; the calls it aborted
  at, home,         \* requests: the await, the session
  loop, turn, todo, \* the loop chosen, its turn, the tool uses left in the turn
  told,             \* how a call ended for its client: frames, or a log line only
  wiped, late       \* history: calls a clear passed, messages added once aborted

callVars == <<loop, turn, todo>>
vars == <<log, now, since, current, aborted, at, home, callVars, told, wiped, late>>

Requests == Calls \cup Squeezes
Kinds    == {"user", "answer", "uses", "result", "summary"}
Messages == [kind : Kinds, by : Requests, turn : Nat, n : Nat, ms : Nat]

\* Where a call may be suspended before its message is stored, and after.
Unstored == {"pre", "preSummary", "insert"}
AtModel  == {"listTools", "load", "stream"}
AtTools  == {"insertUses", "gate", "execute", "insertResult"}
AtAnswer == {"answer", "post", "postSummary"}
Suspended == Unstored \cup AtModel \cup AtTools \cup AtAnswer
Labels   == {"idle", "forceSummary", "end"} \cup Suspended

\* Where the row of a message that is already made awaits its INSERT, and where a
\* summary is awaited.
Pending == {"insert", "answer", "insertUses", "insertResult"}
Stamped == Pending \cup {"preSummary", "postSummary", "forceSummary"}

Init ==
  /\ log = [s \in Sessions |-> <<>>]
  /\ now = 0 /\ since = [r \in Requests |-> 0]
  /\ current = {} /\ aborted = {}
  /\ at = [r \in Requests |-> "idle"]
  /\ home \in [Requests -> Sessions]
  /\ loop = [c \in Calls |-> "text"]
  /\ turn = [c \in Calls |-> 0]
  /\ todo = [c \in Calls |-> 0]
  /\ told = [c \in Calls |-> "nothing"]
  /\ wiped = {}
  /\ late = [c \in Calls |-> 0]

-----------------------------------------------------------------------------
(* Lists of messages. *)

Boundaries(l) == {i \in DOMAIN l : l[i].kind = "summary"}
Others(l)     == DOMAIN l \ Boundaries(l)

\* What a compaction works on begins after the last summary the list shows.  A row
\* stamped later than all summaries is listed after them, one of the same
\* millisecond may be.
SurelyActive(l) == {i \in Others(l) : \A j \in Boundaries(l) : l[j].ms < l[i].ms}
MaybeActive(l)  == {i \in Others(l) : \A j \in Boundaries(l) : l[j].ms <= l[i].ms}

\* selectRange leaves out the first and the last KeepTurns of a list; something of
\* n messages is left.
Replaces(n) == n > KeepTurns + 1

\* The messages of a call in the log of its session.
Said(c, kind) == {i \in DOMAIN log[home[c]] :
  log[home[c]][i].kind = kind /\ log[home[c]][i].by = c}

-----------------------------------------------------------------------------
(* Shared steps. *)

At(r, label) == at[r] = label

\* The process runs to its next await; a message it inserts there is made just before.
Goto(r, label) ==
  /\ at' = [at EXCEPT ![r] = label]
  /\ since' = [since EXCEPT ![r] = IF label \in Stamped THEN now ELSE 0]

\* The call returns; what its client was told last, unless it stays silent.
Return(c, frame) ==
  /\ Goto(c, "end")
  /\ told' = [told EXCEPT ![c] = IF frame = "silent" THEN @ ELSE frame]

\* One request more may be sent.
MaySend == Cardinality({r \in Requests : at[r] # "idle"}) < MaxRequests

AtWork == {c \in Calls : at[c] \in Suspended}

\* The signal of a call that returned is read by nobody.
Abort == aborted' = aborted \cup (current \cap AtWork)

\* The row of a message of call c lands, with the stamp of the message.
Store(c, kind, n) ==
  /\ log' = [log EXCEPT ![home[c]] =
       Append(@, [kind |-> kind, by |-> c, turn |-> turn[c], n |-> n, ms |-> since[c]])]
  /\ late' = [late EXCEPT ![c] = IF c \in aborted THEN @ + 1 ELSE @]

-----------------------------------------------------------------------------
(* addMessage *)

Post(c) ==
  /\ At(c, "idle") /\ MaySend
  /\ Abort
  /\ current' = {c}
  /\ Goto(c, "pre")
  /\ UNCHANGED <<log, home, callVars, told, wiped, late>>

\* maybeCompact read the active messages: one of the compactors applies and has
\* something to replace, and its summary is awaited.
Summarise(c) ==
  /\ at[c] \in {"pre", "post"}
  /\ Replaces(Cardinality(MaybeActive(log[home[c]])))
  /\ Goto(c, IF At(c, "pre") THEN "preSummary" ELSE "postSummary")
  /\ UNCHANGED <<log, current, aborted, home, callVars, told, wiped, late>>

\* Mutated form: the message was made before the compaction was awaited.
AfterCompactionMade(c) ==
  \/ /\ at[c] \in {"pre", "preSummary"}
     /\ at' = [at EXCEPT ![c] = "insert"]
     /\ UNCHANGED <<since, told>>
  \/ /\ at[c] \in {"post", "postSummary"}
     /\ Return(c, "done")

\* The end of addMessage's compactions: the message is inserted after the first,
\* and after the second the turn is done, aborted meanwhile or not.
AfterCompaction(c) ==
  \/ /\ at[c] \in {"pre", "preSummary"}
     /\ Goto(c, "insert")
     /\ UNCHANGED told
  \/ /\ at[c] \in {"post", "postSummary"}
     /\ Return(c, "done")

\* No compactor applies.
Skip(c) ==
  /\ at[c] \in {"pre", "post"}
  /\ AfterCompaction(c)
  /\ UNCHANGED <<log, current, aborted, home, callVars, wiped, late>>

\* persistResult: the summary is a row like any other.  The snip compactor stamps it
\* at once, the full one when the model has written it.
Persist(r) ==
  \E ms \in since[r]..now :
    log' = [log EXCEPT ![home[r]] =
      Append(@, [kind |-> "summary", by |-> r, turn |-> 0, n |-> 0, ms |-> ms])]

PersistSummary(c) ==
  /\ at[c] \in {"preSummary", "postSummary"}
  /\ Persist(c)
  /\ AfterCompaction(c)
  /\ UNCHANGED <<current, aborted, home, callVars, wiped, late>>

InsertUser(c) ==
  /\ At(c, "insert")
  /\ Store(c, "user", 0)
  /\ Goto(c, "listTools")
  /\ UNCHANGED <<current, aborted, home, callVars, told, wiped>>

\* The tool loop looks at the signal before it reads the messages, the text loop
\* does not.
ListTools(c) ==
  /\ At(c, "listTools")
  /\ \E chosen \in {"text", "tools"} :
       /\ loop' = [loop EXCEPT ![c] = chosen]
       /\ IF chosen = "tools" /\ c \in aborted
          THEN Return(c, "silent")
          ELSE Goto(c, "load") /\ UNCHANGED told
  /\ UNCHANGED <<log, current, aborted, home, turn, todo, wiped, late>>

\* The prompt is the log as it is listed now, from its last summary on.
Load(c) ==
  /\ At(c, "load")
  /\ Goto(c, "stream")
  /\ UNCHANGED <<log, current, aborted, home, callVars, told, wiped, late>>

\* The stream brings its next event, or its end, to an aborted call.
StopStream(c) ==
  /\ At(c, "stream")
  /\ c \in aborted
  /\ Return(c, "silent")
  /\ UNCHANGED <<log, current, aborted, home, callVars, wiped, late>>

EndStream(c) ==
  /\ At(c, "stream")
  /\ c \notin aborted
  /\ Goto(c, "answer")
  /\ UNCHANGED <<log, current, aborted, home, callVars, told, wiped, late>>

AskForTools(c) ==
  /\ At(c, "stream")
  /\ c \notin aborted
  /\ loop[c] = "tools"
  /\ \E n \in 1..(MaxUses - turn[c]) : todo' = [todo EXCEPT ![c] = n]
  /\ Goto(c, "insertUses")
  /\ UNCHANGED <<log, current, aborted, home, loop, turn, told, wiped, late>>

InsertAnswer(c) ==
  /\ At(c, "answer")
  /\ Store(c, "answer", 0)
  /\ Goto(c, "post")
  /\ UNCHANGED <<current, aborted, home, callVars, told, wiped>>

InsertUses(c) ==
  /\ At(c, "insertUses")
  /\ Store(c, "uses", todo[c])
  /\ IF c \in aborted
     THEN Return(c, "silent")
     ELSE Goto(c, "gate") /\ UNCHANGED told
  /\ UNCHANGED <<current, aborted, home, callVars, wiped>>

-----------------------------------------------------------------------------
(* executeToolUse *)

\* Mutation: reads the signal before the awaits only.
ApproveUnchecked(c) ==
  /\ At(c, "gate")
  /\ Goto(c, "execute")
  /\ UNCHANGED <<log, current, aborted, home, callVars, told, wiped, late>>

\* The hook and the user answered; an aborted call takes it for a refusal.
Approve(c) ==
  /\ At(c, "gate")
  /\ c \notin aborted
  /\ Goto(c, "execute")
  /\ UNCHANGED <<log, current, aborted, home, callVars, told, wiped, late>>

Refuse(c) ==
  /\ At(c, "gate")
  /\ Goto(c, "insertResult")
  /\ UNCHANGED <<log, current, aborted, home, callVars, told, wiped, late>>

\* The tool answered or failed; its error is the result.
EndTool(c) ==
  /\ At(c, "execute")
  /\ Goto(c, "insertResult")
  /\ UNCHANGED <<log, current, aborted, home, callVars, told, wiped, late>>

\* The end of a turn that nobody aborted.
EndTurn(c) ==
  /\ turn' = [turn EXCEPT ![c] = @ + 1]
  /\ IF turn[c] + 1 < MaxTurns
     THEN Goto(c, "load") /\ UNCHANGED told
     ELSE Return(c, "done")

NextTool(c) == Goto(c, "gate") /\ UNCHANGED <<told, turn>>
Stop(c)     == Return(c, "silent") /\ UNCHANGED turn

\* Mutated form: the signal is not looked at at the head of the next turn.
AfterResultNextTurn(c) ==
  \/ c \in aborted /\ EndTurn(c)
  \/ c \notin aborted /\ todo[c] > 1 /\ NextTool(c)
  \/ c \notin aborted /\ todo[c] = 1 /\ EndTurn(c)

\* The next tool, the next turn, or the end of the loop.
AfterResult(c) ==
  \/ c \in aborted /\ Stop(c)
  \/ c \notin aborted /\ todo[c] > 1 /\ NextTool(c)
  \/ c \notin aborted /\ todo[c] = 1 /\ EndTurn(c)

InsertResult(c) ==
  /\ At(c, "insertResult")
  /\ Store(c, "result", todo[c])
  /\ todo' = [todo EXCEPT ![c] = @ - 1]
  /\ AfterResult(c)
  /\ UNCHANGED <<current, aborted, home, loop, wiped>>

-----------------------------------------------------------------------------
(* Failures *)

\* Outside the try: the rejection is logged by the route, which has answered.
Lose(c) ==
  /\ at[c] \in Unstored
  /\ Return(c, "lost")
  /\ UNCHANGED <<log, current, aborted, home, callVars, wiped, late>>

\* Mutation: the tools are listed outside the try.
ThrowUncaught(c) ==
  /\ at[c] \in (AtModel \cup AtTools \cup AtAnswer) \ {"execute"}
  /\ Return(c, IF c \in aborted THEN "silent"
               ELSE IF At(c, "listTools") THEN "lost" ELSE "error")
  /\ UNCHANGED <<log, current, aborted, home, callVars, wiped, late>>

\* Inside it: an error frame, unless the call is aborted.
Throw(c) ==
  /\ at[c] \in (AtModel \cup AtTools \cup AtAnswer) \ {"execute"}
  /\ Return(c, IF c \in aborted THEN "silent" ELSE "error")
  /\ UNCHANGED <<log, current, aborted, home, callVars, wiped, late>>

-----------------------------------------------------------------------------
(* Requests beside addMessage *)

\* cancel(sessionId) aborts the one controller; the session only gets a frame.
\* With nobody at work that frame is all it does.
Cancel ==
  /\ current \cap AtWork # {}
  /\ Abort
  /\ current' = {}
  /\ UNCHANGED <<log, since, at, home, callVars, told, wiped, late>>

Clear(s) ==
  /\ log[s] # <<>>
  /\ log' = [log EXCEPT ![s] = <<>>]
  /\ wiped' = wiped \cup {c \in AtWork : home[c] = s}
  /\ UNCHANGED <<since, current, aborted, at, home, callVars, told, late>>

\* forceCompact summarises any list but the empty one, and persists what the full
\* compactor makes of it also when there was nothing to replace.
BeginForced(q) ==
  /\ At(q, "idle") /\ MaySend
  /\ \/ SurelyActive(log[home[q]]) = {} /\ Goto(q, "end")
     \/ MaybeActive(log[home[q]]) # {} /\ Goto(q, "forceSummary")
  /\ UNCHANGED <<log, current, aborted, home, callVars, told, wiped, late>>

PersistForced(q) ==
  /\ At(q, "forceSummary")
  /\ Persist(q)
  /\ Goto(q, "end")
  /\ UNCHANGED <<current, aborted, home, callVars, told, wiped, late>>

ForceFails(q) ==
  /\ At(q, "forceSummary")
  /\ Goto(q, "end")
  /\ UNCHANGED <<log, current, aborted, home, callVars, told, wiped, late>>

-----------------------------------------------------------------------------
\* The clock goes on; what happens between two ticks has one stamp.
Tick ==
  /\ now < MaxNow
  /\ now' = now + 1
  /\ UNCHANGED <<log, since, current, aborted, at, home, callVars, told, wiped, late>>

Compaction(c) == Summarise(c) \/ Skip(c) \/ PersistSummary(c)
Model(c)      == ListTools(c) \/ Load(c) \/ StopStream(c) \/ EndStream(c) \/ AskForTools(c)
Rows(c)       == InsertUser(c) \/ InsertAnswer(c) \/ InsertUses(c) \/ InsertResult(c)
ToolUse(c)    == Approve(c) \/ Refuse(c) \/ EndTool(c)
Failure(c)    == Lose(c) \/ Throw(c)
Forcing(q)    == BeginForced(q) \/ PersistForced(q) \/ ForceFails(q)

Timed ==
  \/ \E c \in Calls :
       Post(c) \/ Compaction(c) \/ Model(c) \/ Rows(c) \/ ToolUse(c) \/ Failure(c)
  \/ \E q \in Squeezes : Forcing(q)
  \/ Cancel
  \/ \E s \in Sessions : Clear(s)

Next == Tick \/ (Timed /\ UNCHANGED now)

Spec == Init /\ [][Next]_vars

-----------------------------------------------------------------------------
(* Properties *)

\* Every variable has its type, and no call is ever told two endings: what it was
\* told stays "nothing" until it returns.
TypeOK ==
  /\ log \in [Sessions -> Seq(Messages)]
  /\ now \in Nat
  /\ since \in [Requests -> Nat]
  /\ current \subseteq Calls
  /\ aborted \subseteq Calls
  /\ at \in [Requests -> Labels]
  /\ home \in [Requests -> Sessions]
  /\ loop \in [Calls -> {"text", "tools"}]
  /\ turn \in [Calls -> 0..MaxTurns]
  /\ todo \in [Calls -> 0..MaxUses]
  /\ told \in [Calls -> {"nothing", "done", "error", "lost"}]
  /\ wiped \subseteq Calls
  /\ late \in [Calls -> Nat]
  /\ \A c \in Calls : told[c] # "nothing" => At(c, "end")

\* A tool is started only for the message posted last, in any session, and only
\* while nobody cancelled it: a permission that comes late starts nothing
\* (executeToolUse looks at the signal after its awaits, addMessage aborts the
\* call before it).
ToolsForCurrent ==
  [][\A c \in Calls : At(c, "gate") /\ at'[c] = "execute" =>
       current = {c} /\ c \notin aborted]_vars

\* A call that was superseded or cancelled adds at most one more message, the
\* one it was writing or about to store; none of its awaits leads on to another
\* (the checks of the signal in both loops and between the tools).
AbortedAddsOne == \A c \in Calls : late[c] <= 1

\* Whenever a call reads its prompt its own message is in the log, unless the
\* history was cleared meanwhile, and no summary the call itself awaited is stamped
\* later, so that only one of the very same millisecond may hide it (addMessage
\* compacts before it makes its message, and again only after its answer).
OwnMessageSeen ==
  \A c \in Calls : At(c, "load") /\ c \notin wiped =>
    \E i \in Said(c, "user") : \A j \in Said(c, "summary") :
      log[home[c]][j].ms <= log[home[c]][i].ms

\* Whenever a call reads its prompt every tool use of its own turns that is still
\* in the log has its result there, stamped no earlier, although others append,
\* summarise and clear between them: it is listed after the use unless both are of
\* one millisecond (runToolLoop starts no turn with a use unanswered).
UsesAnswered ==
  \A c \in Calls : At(c, "load") =>
    LET l == log[home[c]] IN
    \A i \in Said(c, "uses") : \A k \in 1..l[i].n :
      \E j \in Said(c, "result") :
        l[j].ms >= l[i].ms /\ l[j].turn = l[i].turn /\ l[j].n = k

\* A call nobody aborted never returns without a word: its client gets done or
\* error, but for one that failed before its message was stored (the catch of
\* addMessage, the ends of both loops).
EndAnnounced ==
  \A c \in Calls : At(c, "end") =>
    /\ c \notin aborted => told[c] # "nothing"
    /\ told[c] = "lost" => Said(c, "user") = {}
=============================================================================
