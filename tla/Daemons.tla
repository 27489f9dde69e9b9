------------------------------- MODULE Daemons -------------------------------
(***************************************************************************)
(* The daemon as a process: what iquantum-daemon/src/index.ts does from its     *)
(* start to its end with the socket, the TCP port and the pid file, and the       *)
(* programs that start, look for and stop it (iq, iq daemon start, iq daemon      *)
(* stop, the editor extension).  The files are shared by every daemon that was    *)
(* ever started on one state directory; nothing locks the directory.              *)
(*                                                                         *)
(* A daemon is named by its pid.  Abstract: what it does between its clean-up      *)
(* and its binding (the database, the hooks) happens or kills it; requests          *)
(* are those for its health only, and each is answered or cut in one step.         *)
(***************************************************************************)
EXTENDS Integers, Sequences, FiniteSetsExt

CONSTANTS
  Pids,          \* bound: the daemons that are ever started
  Lookers,       \* [who -> "cli", "editor" or "start": a program that wants a daemon]
  Stops,         \* uses of iq daemon stop
  MaxPolls       \* the polls of a program that started a daemon

NoPid == 0
ASSUME DaemonsAssumption == Pids \subseteq Nat \ {NoPid} /\ MaxPolls \in Nat

VARIABLES
  daemonStep,    \* [pid -> how far it is]
  socketPath,    \* the daemon the file at socketPath was bound by
  tcpPort,       \* the daemon that listens on it
  pidFile,
  looker,        \* [who -> [step, polls]]
  stopStep,      \* [use -> [step, pid]]
  met,           \* history: two daemons were alive at once
  wiped          \* history: a stop removed the pid file of a daemon it did not signal

daemonsVars == <<daemonStep, socketPath, tcpPort, pidFile, looker, stopStep, met, wiped>>

\* Before the handlers of signals are there, with them, and on the way out.
Starting == {"spawned", "booting", "bound", "written"}
Ending   == {"stopping", "socketClosed", "portClosed", "socketRemoved"}
Serving  == {"bound", "written", "up", "stopping"}
Alive    == Starting \cup {"up"} \cup Ending
AliveNow == {d \in Pids : daemonStep[d] \in Alive}

DaemonsRest ==
  /\ daemonStep = [d \in Pids |-> "none"]
  /\ socketPath = NoPid /\ tcpPort = NoPid /\ pidFile = NoPid
  /\ looker = [w \in DOMAIN Lookers |-> [step |-> "idle", polls |-> 0]]
  /\ stopStep = [s \in Stops |-> [step |-> "idle", pid |-> NoPid]]
  /\ met = FALSE /\ wiped = FALSE
DaemonsInit == DaemonsRest

Programs == UNCHANGED <<looker, stopStep, met, wiped>>
To(d, step) == daemonStep' = [daemonStep EXCEPT ![d] = step]

-----------------------------------------------------------------------------
(* A daemon. *)

\* Its end at once, by a signal without handler, an error or a fault: the port is
\* free, the files stay.
Dies(d) ==
  /\ To(d, "gone")
  /\ tcpPort' = IF tcpPort = d THEN NoPid ELSE tcpPort
  /\ UNCHANGED <<socketPath, pidFile>>

Faults(d) == daemonStep[d] \in Alive /\ Dies(d) /\ Programs

\* The first thing it does: the file at socketPath is removed, whoever listens on it.
RemoveStale(d) ==
  /\ daemonStep[d] = "spawned"
  /\ To(d, "booting")
  /\ socketPath' = NoPid
  /\ UNCHANGED <<tcpPort, pidFile>> /\ Programs

\* Mutated form: what the path held is removed after the binding instead.
BindThenClean(d) ==
  /\ daemonStep[d] = "booting" /\ tcpPort = NoPid
  /\ To(d, "bound") /\ tcpPort' = d /\ socketPath' = NoPid
  /\ UNCHANGED pidFile /\ Programs

\* createDaemonServer and createTcpDaemonServer, without an await between them.  A
\* file that came meanwhile is taken over or in the way; a port that is taken is the
\* end, with the socket left behind.
Bind(d) ==
  /\ daemonStep[d] = "booting"
  /\ \/ /\ socketPath' = d
        /\ IF tcpPort = NoPid
           THEN To(d, "bound") /\ tcpPort' = d
           ELSE To(d, "gone") /\ UNCHANGED tcpPort
     \/ /\ socketPath # NoPid
        /\ To(d, "gone")
        /\ UNCHANGED <<socketPath, tcpPort>>
  /\ UNCHANGED pidFile /\ Programs

WritePid(d) ==
  /\ daemonStep[d] = "bound"
  /\ To(d, "written") /\ pidFile' = d
  /\ UNCHANGED <<socketPath, tcpPort>> /\ Programs

\* The handlers of SIGTERM and of unhandled rejections.
HandleSignals(d) ==
  /\ daemonStep[d] = "written"
  /\ To(d, "up")
  /\ UNCHANGED <<socketPath, tcpPort, pidFile>> /\ Programs

\* shutdown, after an unhandled rejection here, after a signal in Signal; it still
\* serves while it awaits the tool servers and the error reporter.
Reject(d) ==
  /\ daemonStep[d] = "up"
  /\ To(d, "stopping")
  /\ UNCHANGED <<socketPath, tcpPort, pidFile>> /\ Programs

CloseSocket(d) ==
  /\ daemonStep[d] = "stopping"
  /\ To(d, "socketClosed")
  /\ UNCHANGED <<socketPath, tcpPort, pidFile>> /\ Programs

ClosePort(d) ==
  /\ daemonStep[d] = "socketClosed"
  /\ To(d, "portClosed") /\ tcpPort' = NoPid
  /\ UNCHANGED <<socketPath, pidFile>> /\ Programs

\* After the database is closed, both files are removed, whosever they are by then.
RemoveSocket(d) ==
  /\ daemonStep[d] = "portClosed"
  /\ To(d, "socketRemoved") /\ socketPath' = NoPid
  /\ UNCHANGED <<tcpPort, pidFile>> /\ Programs

RemovePid(d) ==
  /\ daemonStep[d] = "socketRemoved"
  /\ To(d, "gone") /\ pidFile' = NoPid
  /\ UNCHANGED <<socketPath, tcpPort>> /\ Programs

-----------------------------------------------------------------------------
(* The programs. *)

\* health through the socket, or the port for the editor: who answers it.
Via(w) == IF Lookers[w] = "editor" THEN tcpPort ELSE socketPath
Replies(w) ==
  /\ Via(w) # NoPid
  /\ \/ daemonStep[Via(w)] \in Serving
     \/ daemonStep[Via(w)] = "socketClosed" /\ Lookers[w] = "editor"

LookerTo(w, step) == looker' = [looker EXCEPT ![w].step = step]

\* startDaemon: a process, started and not looked after.
Spawn ==
  LET unused == {d \in Pids : daemonStep[d] = "none"} IN
  /\ unused # {} /\ To(Min(unused), "spawned")
  /\ met' = (met \/ AliveNow # {})
  /\ UNCHANGED <<socketPath, tcpPort, pidFile, stopStep, wiped>>

\* What a look may see: an answer that all is well, an answer 503 (no database, no
\* Docker) or a connection that is cut, or nobody to connect to.
Looks(w) == IF Replies(w) THEN {"well", "broken"} ELSE {"nobody"}
Quiet == UNCHANGED <<daemonStep, socketPath, tcpPort, pidFile, stopStep, met, wiped>>

\* ensureDaemonReady, ensureDaemon: one look, and a daemon if nobody answers; what is
\* broken ends iq, while the editor starts a daemon for it as well.  iq daemon start
\* does not look.
LookFor(w) ==
  /\ looker[w].step = "idle"
  /\ \/ /\ Lookers[w] = "start"
        /\ LookerTo(w, "ready") /\ Spawn
     \/ /\ Lookers[w] # "start"
        /\ \E look \in Looks(w) :
             \/ look = "well" /\ LookerTo(w, "ready") /\ Quiet
             \/ look = "broken" /\ Lookers[w] = "cli" /\ LookerTo(w, "failed") /\ Quiet
             \/ /\ look = "nobody" \/ (look = "broken" /\ Lookers[w] = "editor")
                /\ LookerTo(w, "polling") /\ Spawn

\* One poll after a pause: all is well, or not yet, or not for the last time.
Poll(w) ==
  /\ looker[w].step = "polling"
  /\ \E look \in Looks(w) :
       \/ look = "well" /\ LookerTo(w, "ready")
       \/ look = "broken" /\ Lookers[w] = "cli" /\ LookerTo(w, "failed")
       \/ /\ look = "nobody" \/ (look = "broken" /\ Lookers[w] = "editor")
          /\ looker' = [looker EXCEPT
               ![w] = [step  |-> IF @.polls + 1 = MaxPolls THEN "failed" ELSE "polling",
                       polls |-> @.polls + 1]]
  /\ Quiet

\* stopDaemon: the pid is read, ...
ReadPid(s) ==
  /\ stopStep[s].step = "idle"
  /\ stopStep' = [stopStep EXCEPT ![s] =
       [step |-> IF pidFile = NoPid THEN "notRunning" ELSE "read", pid |-> pidFile]]
  /\ UNCHANGED <<daemonStep, socketPath, tcpPort, pidFile, looker, met, wiped>>

\* ... the process signalled: it starts to shut down, dies if it has no handler, as
\* after the first signal of two, or is not there; ...
Signal(s) ==
  LET d == stopStep[s].pid IN
  /\ stopStep[s].step = "read"
  /\ stopStep' = [stopStep EXCEPT ![s].step = IF daemonStep[d] \in Alive THEN "signalled" ELSE "missed"]
  /\ \/ daemonStep[d] \in Starting \cup Ending /\ Dies(d)
     \/ /\ daemonStep[d] = "up" /\ To(d, "stopping")
        /\ UNCHANGED <<socketPath, tcpPort, pidFile>>
     \/ /\ daemonStep[d] \in Ending \cup {"gone"}
        /\ UNCHANGED <<daemonStep, socketPath, tcpPort, pidFile>>
  /\ UNCHANGED <<looker, met, wiped>>

\* ... and the pid file removed, whatever daemon's it is by then.
RemovePidFile(s) ==
  /\ stopStep[s].step \in {"signalled", "missed"}
  /\ pidFile' = NoPid
  /\ wiped' = (wiped \/ pidFile \notin {NoPid, stopStep[s].pid})
  /\ stopStep' = [stopStep EXCEPT ![s].step = IF @ = "signalled" THEN "stopped" ELSE "notRunning"]
  /\ UNCHANGED <<daemonStep, socketPath, tcpPort, looker, met>>

DaemonsNext ==
  \/ \E d \in Pids :
       \/ Faults(d) \/ RemoveStale(d) \/ Bind(d) \/ WritePid(d)
       \/ HandleSignals(d) \/ Reject(d)
       \/ CloseSocket(d) \/ ClosePort(d) \/ RemoveSocket(d) \/ RemovePid(d)
  \/ \E w \in DOMAIN Lookers : LookFor(w) \/ Poll(w)
  \/ \E s \in Stops : ReadPid(s) \/ Signal(s) \/ RemovePidFile(s)

-----------------------------------------------------------------------------
\* Whatever was started at the same time, one daemon serves the state directory: the
\* TCP port, which each binds before it serves and keeps until it stops, decides.
OneServes ==
  \A d, e \in Pids :
    daemonStep[d] \in Serving /\ daemonStep[e] \in Serving => d = e

\* Daemons that never met are found and can be stopped: the socket's path leads to the
\* one that serves, through the crashes of those before it, and so does the pid file,
\* unless a stop of the one before came to remove it that late.
Findable ==
  ~met => \A d \in Pids :
    /\ daemonStep[d] \in Serving => socketPath = d
    /\ daemonStep[d] \in {"written", "up"} /\ ~wiped => pidFile = d

\* stopDaemon: whoever is told that the daemon stopped has sent it a signal, on which
\* it ended or is about to; it may not have ended yet.
StoppedEnds ==
  \A s \in Stops : stopStep[s].step = "stopped" => daemonStep[stopStep[s].pid] \in Ending \cup {"gone"}

DaemonsTrue == OneServes /\ Findable /\ StoppedEnds
=============================================================================
