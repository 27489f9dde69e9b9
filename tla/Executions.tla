----------------------------- MODULE Executions -----------------------------
(***************************************************************************)
(* Commands run in the sandbox of one session, and what their callers are     *)
(* told of them.  The local manager (packages/sandbox) runs them in one        *)
(* container, which a command over its time kills with everything in it; the   *)
(* cloud one (cloud-sandbox-manager.ts) runs them in an ECS task and reads     *)
(* their output, and an appended line with their exit code, from a terminal    *)
(* over a socket.  Any call to Docker or to AWS may fail.                      *)
(*                                                                         *)
(* Frames of a session arrive once and in order; a text is a sequence of       *)
(* symbols, and a frame may be cut between any two of them.                    *)
(***************************************************************************)
EXTENDS Integers, Sequences, SequencesExt, FiniteSetsExt, Functions

CONSTANTS
  Execs,      \* calls of exec, each made at most once
  Ways,       \* the managers looked at: {"local", "cloud"}
  Commands    \* [writes: sequence of <<stream, symbol>>, code: its digits, appends]

Digits == {"0", "1", "2", "3", "4", "5", "6", "7", "8", "9"}
Writes == {"stdout", "stderr"} \X STRING

\* appends is FALSE of a command that leaves the shell, as `exit 1` does.
ASSUME CommandsAssumption ==
  /\ Ways \subseteq {"local", "cloud"}
  /\ \A c \in Commands : /\ c = [writes |-> c.writes, code |-> c.code, appends |-> c.appends]
                         /\ c.writes \in Seq(Writes)
                         /\ c.code \in Seq(Digits) \ {<<>>}
                         /\ c.appends \in BOOLEAN

\* Symbols of a terminal: the two halves of an escape sequence and of EXIT_SENTINEL.
Escape1 == "esc["    Escape2 == "m"
Sentinel1 == "__IQ"  Sentinel2 == "EXIT_CODE__"
Colon == ":"         NewLine == "nl"

Zero == <<"0">>
Sigkill == <<"1", "3", "7">>
Running == <<>>
NotStarted == <<"-">>

VARIABLES
  way,
  up,        \* the container, or the task, is running
  task,      \* #tasks has the session's
  stopping,  \* a stop waits for StopTask
  kills,     \* container.kill requests under way
  cmd,       \* of each call
  pc,        \* the step of each call
  left,      \* what its command wrote, or will, and nobody has read yet
  taken,     \* what was read of it
  ended,     \* how its command ended, NotStarted or Running
  told,      \* what its caller is told
  lost       \* history: its connection closed before its command's end was read

executionVars ==
  <<way, up, task, stopping, kills, cmd, pc, left, taken, ended, told, lost>>

sandboxVars == <<way, up, task, stopping, kills>>
commandVars == <<cmd, left, taken, ended, told, lost>>

NothingGiven == [code |-> <<>>, stdout |-> <<>>, stderr |-> <<>>]
NoCommand == [writes |-> <<>>, code |-> Zero, appends |-> TRUE]

AtRest ==
  /\ stopping = FALSE /\ kills = 0
  /\ pc = [e \in Execs |-> "idle"]
  /\ left = [e \in Execs |-> <<>>] /\ taken = [e \in Execs |-> <<>>]
  /\ ended = [e \in Execs |-> NotStarted]
  /\ told = [e \in Execs |-> NothingGiven]
  /\ lost = [e \in Execs |-> FALSE]

ExecutionsRest ==
  /\ way = "local" /\ up = FALSE /\ task = FALSE
  /\ cmd = [e \in Execs |-> NoCommand]
  /\ AtRest

\* A container may be found stopped, as after a restart of Docker.
ExecutionsInit ==
  /\ way \in Ways
  /\ up \in IF way = "local" THEN BOOLEAN ELSE {TRUE}
  /\ task = (way = "cloud")
  /\ cmd \in [Execs -> Commands]
  /\ AtRest

Goto(e, label) == pc' = [pc EXCEPT ![e] = label]
ExecFails(e) == Goto(e, "rejected") /\ UNCHANGED <<sandboxVars, commandVars>>
SymbolsOf(writes) == [i \in DOMAIN writes |-> writes[i][2]]

\* The elements of a sequence at some places, in order.
Keep(s, where) ==
  LET sorted == AntiFunction([i \in where |-> Cardinality({j \in where : j < i}) + 1])
  IN [k \in 1..Cardinality(where) |-> s[sorted[k]]]

OfStream(writes, stream) ==
  SymbolsOf(Keep(writes, {i \in DOMAIN writes : writes[i][1] = stream}))

\* The container or the task stops: its commands end, and write no more than they had.
Stop ==
  LET hit == {e \in Execs : ended[e] = Running}
  IN /\ up' = FALSE
     /\ ended' = [e \in Execs |-> IF e \in hit THEN Sigkill ELSE ended[e]]
     /\ \E written \in [hit -> 0..Max({0} \cup {Len(left[e]) : e \in hit})] :
          /\ \A e \in hit : written[e] <= Len(left[e])
          /\ left' = [e \in Execs |-> IF e \in hit THEN SubSeq(left[e], 1, written[e]) ELSE left[e]]

\* A command starts once its caller is attached to it.
StartCommand(e) ==
  /\ ended' = [ended EXCEPT ![e] = Running]
  /\ left' = [left EXCEPT ![e] = cmd[e].writes]
  /\ Goto(e, "running")

\* The line the cloud manager has the shell write after the command.
ExitLine(code) ==
  [i \in 1..Len(code) + 4 |->
     <<"stdout", (<<Sentinel1, Sentinel2, Colon>> \o code \o <<NewLine>>)[i]>>]

\* A command ends by itself, at any time after its last write.
EndCommand(e) ==
  /\ ended[e] = Running /\ up
  /\ ended' = [ended EXCEPT ![e] = cmd[e].code]
  /\ left' = IF way = "cloud" /\ cmd[e].appends
             THEN [left EXCEPT ![e] = @ \o ExitLine(cmd[e].code)] ELSE left
  /\ UNCHANGED <<sandboxVars, cmd, pc, taken, told, lost>>

\* The caller has drained the output, and is told the exit code.
Report(e, code, output) ==
  /\ told' = [told EXCEPT ![e] = [code |-> code, stdout |-> OfStream(output, "stdout"),
                                    stderr |-> OfStream(output, "stderr")]]
  /\ Goto(e, "reported")

-----------------------------------------------------------------------------
(* The local manager. *)

\* #getContainer: the container is looked at, and started if it does not run.
FindContainer(e) ==
  /\ way = "local" /\ pc[e] = "idle"
  /\ \/ Goto(e, IF up THEN "creating" ELSE "starting") /\ UNCHANGED <<sandboxVars, commandVars>>
     \/ ExecFails(e)

StartContainer(e) ==
  /\ pc[e] = "starting"
  /\ \/ up' = TRUE /\ Goto(e, "creating")
        /\ UNCHANGED <<way, task, stopping, kills, commandVars>>
     \/ ExecFails(e)

CreateExec(e) ==
  /\ pc[e] = "creating"
  /\ \/ up /\ Goto(e, "attaching") /\ UNCHANGED <<sandboxVars, commandVars>>
     \/ ExecFails(e)

StartExec(e) ==
  /\ pc[e] = "attaching"
  /\ \/ up /\ StartCommand(e) /\ UNCHANGED <<sandboxVars, cmd, taken, told, lost>>
     \/ ExecFails(e)

\* A chunk arrives and is demultiplexed.
ReadChunk(e, n) ==
  /\ way = "local" /\ pc[e] = "running" /\ n \in 1..Len(left[e])
  /\ taken' = [taken EXCEPT ![e] = @ \o SubSeq(left[e], 1, n)]
  /\ left' = [left EXCEPT ![e] = SubSeq(@, n + 1, Len(@))]
  /\ UNCHANGED <<sandboxVars, cmd, pc, ended, told, lost>>

\* The stream ends after the command, or closes before; or it fails.
StreamCloses(e) ==
  /\ way = "local" /\ pc[e] = "running"
  /\ \/ ended[e] # Running /\ left[e] = <<>> /\ Goto(e, "closed") /\ UNCHANGED lost
     \/ Goto(e, "closed") /\ lost' = [lost EXCEPT ![e] = TRUE]
     \/ Goto(e, "rejected") /\ UNCHANGED lost
  /\ UNCHANGED <<sandboxVars, cmd, left, taken, ended, told>>

\* Docker has no exit code of a command that is still running.
InspectedCode(e) == IF ended[e] = Running THEN Zero ELSE ended[e]

InspectExec(e) ==
  /\ pc[e] = "closed"
  /\ \/ Report(e, InspectedCode(e), taken[e])
        /\ UNCHANGED <<sandboxVars, cmd, left, taken, ended, lost>>
     \/ ExecFails(e)

\* Mutated form: the stream is closed and the race is left to what it then gives.
TimeOutCloses(e) ==
  /\ way = "local" /\ pc[e] \in {"running", "closed"}
  /\ Goto(e, "closed")
  /\ kills' = kills + 1
  /\ UNCHANGED <<way, up, task, stopping, commandVars>>

\* The time of a command is over: its caller is told so, and the container is to die.
ExecTimesOut(e) ==
  /\ way = "local" /\ pc[e] \in {"running", "closed"}
  /\ Goto(e, "rejected")
  /\ kills' = kills + 1
  /\ UNCHANGED <<way, up, task, stopping, commandVars>>

\* SIGKILL reaches the container, or the request fails.
KillContainer ==
  /\ kills > 0
  /\ kills' = kills - 1
  /\ \/ up /\ Stop
     \/ UNCHANGED <<up, left, ended>>
  /\ UNCHANGED <<way, task, stopping, cmd, pc, taken, told, lost>>

-----------------------------------------------------------------------------
(* The cloud manager. *)

ExecuteCommand(e) ==
  /\ way = "cloud" /\ pc[e] = "idle"
  /\ \/ task /\ up /\ StartCommand(e) /\ UNCHANGED <<sandboxVars, cmd, taken, told, lost>>
     \/ ExecFails(e)

\* stripAnsi, of the text of one frame.
stripAnsi(output) ==
  LET escapes == {i \in 1..Len(output) - 1 : /\ output[i][2] = Escape1
                                            /\ output[i + 1][2] = Escape2}
  IN Keep(output, {i \in DOMAIN output : i \notin escapes /\ i - 1 \notin escapes})

SentinelsIn(output) ==
  {i \in 1..Len(output) - 1 : output[i][2] = Sentinel1 /\ output[i + 1][2] = Sentinel2}

\* The digits after ":" that have arrived, or 0.
CodeAfter(output, i) ==
  LET last == Max({j \in i + 2..Len(output) : \A k \in i + 3..j : output[k][2] \in Digits})
  IN IF i + 3 <= Len(output) /\ output[i + 2][2] = Colon /\ output[i + 3][2] \in Digits
     THEN SymbolsOf(SubSeq(output, i + 3, last)) ELSE Zero

\* A frame: the buffer is searched for the sentinel, and the socket closed at it.
ReadFrame(e, n) ==
  /\ way = "cloud" /\ pc[e] = "running" /\ n \in 1..Len(left[e])
  /\ LET buffer == taken[e] \o stripAnsi(SubSeq(left[e], 1, n))
         at == Min(SentinelsIn(buffer))
     IN /\ taken' = [taken EXCEPT ![e] = buffer]
        /\ left' = [left EXCEPT ![e] = SubSeq(@, n + 1, Len(@))]
        /\ IF SentinelsIn(buffer) = {} THEN UNCHANGED <<pc, told>>
           ELSE Report(e, CodeAfter(buffer, at), SubSeq(buffer, 1, at - 1))
  /\ UNCHANGED <<sandboxVars, cmd, ended, lost>>

\* channel_closed, once the command and its output are over: no sentinel was seen.
ChannelCloses(e) ==
  /\ way = "cloud" /\ pc[e] = "running" /\ ended[e] # Running /\ left[e] = <<>>
  /\ Report(e, Zero, taken[e])
  /\ UNCHANGED <<sandboxVars, cmd, left, taken, ended, lost>>

\* The socket closes without a word, fails, or the time is over.
SocketCloses(e) ==
  /\ way = "cloud" /\ pc[e] = "running"
  /\ \/ Report(e, Zero, <<>>) /\ lost' = [lost EXCEPT ![e] = TRUE]
     \/ Goto(e, "rejected") /\ UNCHANGED <<told, lost>>
  /\ UNCHANGED <<sandboxVars, cmd, left, taken, ended>>

\* stop, of a session that is destroyed; it is called once for each DELETE.
BeginStop ==
  /\ way = "cloud" /\ task /\ ~stopping
  /\ stopping' = TRUE
  /\ UNCHANGED <<way, up, task, kills, pc, commandVars>>

StopTask ==
  /\ stopping /\ stopping' = FALSE
  /\ \/ up /\ Stop /\ task' = FALSE
     \/ ~up /\ task' = FALSE /\ UNCHANGED <<up, left, ended>>
     \/ UNCHANGED <<up, task, left, ended>>
  /\ UNCHANGED <<way, kills, cmd, pc, taken, told, lost>>

\* The task ends by itself: it is out of memory, or taken away.
TaskEnds ==
  /\ way = "cloud" /\ up /\ Stop
  /\ UNCHANGED <<way, task, stopping, kills, cmd, pc, taken, told, lost>>

-----------------------------------------------------------------------------
ExecutionsNext ==
  \/ \E e \in Execs :
       \/ EndCommand(e)
       \/ FindContainer(e) \/ StartContainer(e) \/ CreateExec(e) \/ StartExec(e)
       \/ \E n \in DOMAIN left[e] : ReadChunk(e, n) \/ ReadFrame(e, n)
       \/ StreamCloses(e) \/ InspectExec(e) \/ ExecTimesOut(e)
       \/ ExecuteCommand(e) \/ ChannelCloses(e) \/ SocketCloses(e)
  \/ KillContainer \/ BeginStop \/ StopTask \/ TaskEnds

ExecutionsSpec == ExecutionsInit /\ [][ExecutionsNext]_executionVars

-----------------------------------------------------------------------------
Reported == {e \in Execs : pc[e] = "reported"}

\* A command that writes the sentinel, with nothing in it but what may be taken out.
Mentions(c) ==
  \E i, j \in DOMAIN c.writes :
    /\ i < j /\ c.writes[i][2] = Sentinel1 /\ c.writes[j][2] = Sentinel2
    /\ \A k \in i + 1..j - 1 : c.writes[k][2] \in {Escape1, Escape2}

\* A caller of the local manager is told the code its command ended with and all it
\* wrote, in the order of each stream, whatever was done to the container meanwhile;
\* but for a connection lost before the end, after which the code may be 0 and the
\* output short.  Of a command that ended with the code of one that is killed it is
\* not told which it was.
LocalResultsTrue ==
  way = "local" => \A e \in Reported :
    /\ IsPrefix(told[e].stdout, OfStream(cmd[e].writes, "stdout"))
    /\ IsPrefix(told[e].stderr, OfStream(cmd[e].writes, "stderr"))
    /\ ~lost[e] => /\ told[e].code = ended[e]
                   /\ ended[e] = cmd[e].code /\ ended[e] # Sigkill =>
                        /\ told[e].stdout = OfStream(cmd[e].writes, "stdout")
                        /\ told[e].stderr = OfStream(cmd[e].writes, "stderr")

\* A caller of the cloud manager is told a code other than 0 only of a command that
\* ended so, the digits of its code that came in one frame at least; and a 0 after a
\* failure only of a command that did not come to the exit line, or whose line was cut
\* right after the sentinel.  Who writes the sentinel is believed whatever follows it.
CloudCodesExplained ==
  way = "cloud" => \A e \in Reported :
    \/ IsPrefix(told[e].code, ended[e])
    \/ Mentions(cmd[e])
    \/ /\ told[e].code = Zero
       /\ \/ lost[e]
          \/ ended[e] = Sigkill
          \/ ~cmd[e].appends
          \/ Last(taken[e])[2] \in {Sentinel2, Colon}

\* exec: what a caller is told of its command, by either manager.
ExecutionsTrue == LocalResultsTrue /\ CloudCodesExplained

\* "Sentinel appended to every command so we can reliably extract the exit code from PTY
\* output without relying on the SSM close event" (cloud-sandbox-manager.ts:23): who
\* is told 0, over a connection that was not lost, ran a command that ended with 0.
ExitCodeReliable ==
  way = "cloud" => \A e \in Reported : told[e].code = Zero /\ ~lost[e] => ended[e] = Zero
=============================================================================
