------------------------------ MODULE AgentTeam ------------------------------
(***************************************************************************)
(* The child agents of one coordinator session: CoordinatorEngine.execute   *)
(* (packages/coordinator/src/index.ts), AgentSpawner and AgentRegistry      *)
(* (packages/agent/src), AgentWaiter (iquantum-daemon/src/agent-waiter.ts)  *)
(* and what they use of SessionController.                                  *)
(*                                                                         *)
(* Workers are the workers of the manifest execute runs, Others the agents  *)
(* clients spawn for the same coordinator meanwhile.  Each spawn, each      *)
(* wait, each child's task and each kill is a process of its own; an action *)
(* is the code between two of its awaits.  The daemon may crash and restart:*)
(* the registry, the pending counter and the live sessions are memory, the  *)
(* session rows are not.                                                    *)
(***************************************************************************)
EXTENDS Naturals, FiniteSets

CONSTANTS
  Workers,      \* the names in the worker manifest
  Others,       \* agents spawned besides; to a manifest, unknown names
  MaxAgents,    \* options.maxAgents
  MaxCrashes    \* bound: crashes of the daemon (not of the code)

Agents == Workers \cup Others

ASSUME AgentsAssumption == IsFiniteSet(Workers) /\ IsFiniteSet(Others) /\ Workers \cap Others = {}
ASSUME BoundsAssumption == MaxAgents \in Nat /\ MaxCrashes \in Nat

VARIABLES
  dependsOn,                            \* the manifest
  cpc, pending, running, completed,     \* locals of execute
  handled,                              \* waits with a rejection handler
  spawn, pendingCount,                  \* spawn calls, #pendingByCoordinator
  registry,                             \* AgentRegistry #entries
  row, live,                            \* session rows, #liveSessions
  task,                                 \* startTask(..).then(approve).then(..)
  destroy,                              \* kill and destroySession calls
  waiter, seen, result,                 \* AgentWaiter.wait and its WorkerResult
  daemon, crashes,
  finished                              \* history: children whose approve resolved

executeVars  == <<dependsOn, cpc, pending, running, completed, handled>>
spawnVars    == <<spawn, pendingCount>>
sessionVars  == <<row, live>>
waitVars     == <<waiter, seen, result>>
daemonVars   == <<daemon, crashes>>
vars == <<executeVars, spawnVars, registry, sessionVars, task, destroy, waitVars,
          daemonVars, finished>>

AgentStatus == {"running", "done", "failed", "killed"}
Ended == AgentStatus \ {"running"}

Registered == {a \in Agents : registry[a] # "absent"}
InCreation == {a \in Agents : spawn[a] \in {"creating", "created"}}
Children   == {a \in Agents : row[a] # "absent"}

Init ==
  /\ dependsOn \in [Workers -> SUBSET Agents]
  /\ cpc = "validating" /\ pending = Workers /\ running = {} /\ completed = {}
  /\ handled = {}
  /\ spawn = [a \in Agents |-> "ready"] /\ pendingCount = 0
  /\ registry = [a \in Agents |-> "absent"]
  /\ row = [a \in Agents |-> "absent"] /\ live = {}
  /\ task = [a \in Agents |-> "none"]
  /\ destroy = [a \in Agents |-> "none"]
  /\ waiter = [w \in Workers |-> "none"] /\ seen = [w \in Workers |-> "none"]
  /\ result = [w \in Workers |-> "none"]
  /\ daemon = "up" /\ crashes = 0
  /\ finished = {}

-----------------------------------------------------------------------------
\* CoordinatorEngine.execute.

\* "Mutated form" marks what a plausible bug would make of the definition that
\* follows it: PROJECT.json names the property each of them violates.

\* Mutated form: only a worker that depends on itself is refused.
NoSelfLoop == \A w \in Workers : w \notin dependsOn[w]

\* visit() of validateWorkerManifest throws on exactly the manifests with a
\* cycle: some workers each of which depends on another of them.
Acyclic ==
  \A S \in SUBSET Workers : S # {} => \E w \in S : dependsOn[w] \cap S = {}

ValidManifest ==
  /\ Cardinality(Workers) >= 2 /\ Cardinality(Workers) <= MaxAgents
  /\ \A w \in Workers : dependsOn[w] \subseteq Workers
  /\ Acyclic

Validate ==
  /\ cpc = "validating"
  /\ cpc' = IF ValidManifest THEN "scanning" ELSE "failed"
  /\ UNCHANGED <<dependsOn, pending, running, completed, handled, spawnVars,
                 registry, sessionVars, task, destroy, waitVars, daemonVars, finished>>

Runnable(w) == w \in pending /\ dependsOn[w] \subseteq completed

\* spawn() up to its first await: the limit counts every agent ever registered
\* and every creation in flight.
LimitReached == Cardinality(Registered) + pendingCount >= MaxAgents

BeginSpawn(a) ==
  /\ spawn[a] = "ready"
  /\ IF LimitReached
       THEN spawn' = [spawn EXCEPT ![a] = "refused"] /\ UNCHANGED pendingCount
       ELSE /\ spawn' = [spawn EXCEPT ![a] = "creating"]
            /\ pendingCount' = pendingCount + 1

\* execute spawns the next runnable worker and awaits it; AgentLimitError
\* rejects execute.
StartWorker(w) ==
  /\ cpc = "scanning" /\ Runnable(w)
  /\ BeginSpawn(w)
  /\ pending' = pending \ {w}
  /\ cpc' = IF LimitReached THEN "failed" ELSE "spawning"
  /\ UNCHANGED <<dependsOn, running, completed, handled, registry, sessionVars,
                 task, destroy, waitVars, daemonVars, finished>>

\* POST /sessions/:id/agents or the agent_spawn tool.
SpawnOther(a) ==
  /\ a \in Others
  /\ BeginSpawn(a)
  /\ UNCHANGED <<executeVars, registry, sessionVars, task, destroy, waitVars,
                 daemonVars, finished>>

\* Nothing more to start: the waits race, and have handlers from here on.
EndScan ==
  /\ cpc = "scanning" /\ \A w \in Workers : ~Runnable(w)
  /\ cpc' = IF running = {} THEN "stalled" ELSE "racing"
  /\ handled' = handled \cup running
  /\ UNCHANGED <<dependsOn, pending, running, completed, spawnVars, registry,
                 sessionVars, task, destroy, waitVars, daemonVars, finished>>

\* Promise.race settles with worker w.
Race(w) ==
  /\ cpc = "racing" /\ w \in running
  /\ \/ /\ waiter[w] = "returned"
        /\ running' = running \ {w} /\ completed' = completed \cup {w}
        /\ cpc' = IF completed' = Workers THEN "merging" ELSE "scanning"
     \/ /\ waiter[w] = "rejected"
        /\ cpc' = "failed" /\ UNCHANGED <<running, completed>>
  /\ UNCHANGED <<dependsOn, pending, handled, spawnVars, registry, sessionVars,
                 task, destroy, waitVars, daemonVars, finished>>

\* Mutated form: the status of the results is not looked at.
MergeAnyResults(integrated) ==
  /\ cpc = "merging"
  /\ integrated => \A w \in Workers : row[w] # "absent"
  /\ cpc' = IF integrated THEN "merged" ELSE "failed"
  /\ UNCHANGED <<dependsOn, pending, running, completed, handled, spawnVars,
                 registry, sessionVars, task, destroy, waitVars, daemonVars, finished>>

\* integrateWorkerResults: failed workers and workers without a session row are
\* refused; a patch or the test command may fail too (integrated = FALSE).
Merge(integrated) ==
  /\ cpc = "merging"
  /\ integrated => \A w \in Workers : result[w] = "done" /\ row[w] # "absent"
  /\ cpc' = IF integrated THEN "merged" ELSE "failed"
  /\ UNCHANGED <<dependsOn, pending, running, completed, handled, spawnVars,
                 registry, sessionVars, task, destroy, waitVars, daemonVars, finished>>

-----------------------------------------------------------------------------
\* AgentSpawner.spawn after its first await, and the child's task.

\* createSession has created the worktree and the sandbox and inserted the row;
\* the session is live.
CreateSession(a) ==
  /\ spawn[a] = "creating"
  /\ spawn' = [spawn EXCEPT ![a] = "created"]
  /\ row' = [row EXCEPT ![a] = "open"] /\ live' = live \cup {a}
  /\ UNCHANGED <<executeVars, pendingCount, registry, task, destroy, waitVars,
                 daemonVars, finished>>

\* #decrementPending: an entry at zero is deleted.
DecrementPending == pendingCount' = IF pendingCount = 0 THEN 0 ELSE pendingCount - 1

\* Mutated form: the catch of spawn() does not give the slot back.
CreateFailsLeaking(a) ==
  /\ spawn[a] = "creating"
  /\ spawn' = [spawn EXCEPT ![a] = "failed"]
  /\ cpc' = IF a \in Workers THEN "failed" ELSE cpc
  /\ UNCHANGED <<dependsOn, pending, running, completed, handled, pendingCount,
                 registry, sessionVars, task, destroy, waitVars, daemonVars, finished>>

\* getSession, serializeForSession or createSession rejects; so does the spawn,
\* and execute if it awaits it.
CreateFails(a) ==
  /\ spawn[a] = "creating"
  /\ spawn' = [spawn EXCEPT ![a] = "failed"]
  /\ DecrementPending
  /\ cpc' = IF a \in Workers THEN "failed" ELSE cpc
  /\ UNCHANGED <<dependsOn, pending, running, completed, handled, registry,
                 sessionVars, task, destroy, waitVars, daemonVars, finished>>

\* The agent is registered, its slot passes from pending to registered, and its
\* task starts; for a worker execute calls wait() and scans on.  getEngine throws
\* when the session was destroyed meanwhile: the agent stays registered.
Register(a) ==
  /\ spawn[a] = "created"
  /\ registry' = [registry EXCEPT ![a] = "running"]
  /\ DecrementPending
  /\ IF a \in live
       THEN /\ spawn' = [spawn EXCEPT ![a] = "spawned"]
            /\ task' = [task EXCEPT ![a] = "working"]
            /\ IF a \in Workers
                 THEN /\ running' = running \cup {a} /\ cpc' = "scanning"
                      /\ waiter' = [waiter EXCEPT ![a] = "polling"]
                 ELSE UNCHANGED <<running, cpc, waiter>>
       ELSE /\ spawn' = [spawn EXCEPT ![a] = "failed"]
            /\ cpc' = IF a \in Workers THEN "failed" ELSE cpc
            /\ UNCHANGED <<task, running, waiter>>
  /\ UNCHANGED <<dependsOn, pending, completed, handled, sessionVars, destroy,
                 seen, result, daemonVars, finished>>

\* The status an engine leaves in its row, if the row is still there.
LeaveRow(a, status) == row' = [row EXCEPT ![a] = IF @ = "absent" THEN @ ELSE status]

\* startTask and approve have resolved; the checkpoint is read next.
FinishTask(a) ==
  /\ task[a] = "working"
  /\ task' = [task EXCEPT ![a] = "finishing"]
  /\ finished' = finished \cup {a}
  /\ LeaveRow(a, "completed")
  /\ UNCHANGED <<executeVars, spawnVars, registry, live, destroy, waitVars, daemonVars>>

\* listCheckpoints has settled either way: done, whatever the entry said.
ReportDone(a) ==
  /\ task[a] = "finishing"
  /\ task' = [task EXCEPT ![a] = "ended"]
  /\ registry' = [registry EXCEPT ![a] = "done"]
  /\ UNCHANGED <<executeVars, spawnVars, sessionVars, destroy, waitVars,
                 daemonVars, finished>>

\* startTask or approve rejects, in the engine (status error) or before it.
FailTask(a, status) ==
  /\ task[a] = "working"
  /\ task' = [task EXCEPT ![a] = "ended"]
  /\ registry' = [registry EXCEPT ![a] = IF @ = "killed" THEN @ ELSE "failed"]
  /\ LeaveRow(a, status)
  /\ UNCHANGED <<executeVars, spawnVars, live, destroy, waitVars, daemonVars, finished>>

-----------------------------------------------------------------------------
\* AgentSpawner.kill and DELETE /sessions/:id.

\* kill of a registered agent: destroySession, or nothing left to destroy.
Kill(a) ==
  /\ destroy[a] = "none" /\ a \in Registered
  /\ destroy' = [destroy EXCEPT ![a] = IF a \in Children THEN "killing" ELSE "killed"]
  /\ UNCHANGED <<executeVars, spawnVars, registry, sessionVars, task, waitVars,
                 daemonVars, finished>>

DeleteSession(a) ==
  /\ destroy[a] = "none" /\ a \in Children
  /\ destroy' = [destroy EXCEPT ![a] = "deleting"]
  /\ UNCHANGED <<executeVars, spawnVars, registry, sessionVars, task, waitVars,
                 daemonVars, finished>>

\* destroySession ends by deleting the row and the live session; it rejects
\* before that when the sandbox cannot be destroyed.
DestroySession(a) ==
  /\ destroy[a] \in {"killing", "deleting"}
  /\ \/ /\ row' = [row EXCEPT ![a] = "absent"] /\ live' = live \ {a}
        /\ destroy' = [destroy EXCEPT ![a] = IF @ = "killing" THEN "killed" ELSE "none"]
     \/ destroy' = [destroy EXCEPT ![a] = "none"] /\ UNCHANGED sessionVars
  /\ UNCHANGED <<executeVars, spawnVars, registry, task, waitVars, daemonVars, finished>>

MarkKilled(a) ==
  /\ destroy[a] = "killed"
  /\ destroy' = [destroy EXCEPT ![a] = "none"]
  /\ registry' = [registry EXCEPT ![a] = "killed"]
  /\ UNCHANGED <<executeVars, spawnVars, sessionVars, task, waitVars, daemonVars, finished>>

-----------------------------------------------------------------------------
\* AgentWaiter.wait.

\* A poll sees the agent ended and goes on to read its checkpoint.
SeeEnded(w) ==
  /\ waiter[w] = "polling" /\ registry[w] \in Ended
  /\ waiter' = [waiter EXCEPT ![w] = "reading"]
  /\ seen' = [seen EXCEPT ![w] = registry[w]]
  /\ UNCHANGED <<executeVars, spawnVars, registry, sessionVars, task, destroy,
                 result, daemonVars, finished>>

Return(w, status) ==
  /\ waiter' = [waiter EXCEPT ![w] = "returned"]
  /\ result' = [result EXCEPT ![w] = status]
  /\ UNCHANGED daemonVars

\* A rejection nobody handles shuts the daemon down (index.ts, unhandledRejection).
Reject(w) ==
  /\ waiter' = [waiter EXCEPT ![w] = "rejected"]
  /\ daemon' = IF w \in handled THEN daemon ELSE "stopping"
  /\ UNCHANGED <<result, crashes>>

\* listCheckpoints needs the row and a live session; it may fail in a worktree
\* that is being removed.
ReadCheckpoint(w) ==
  /\ waiter[w] = "reading"
  /\ \/ /\ w \in Children /\ w \in live
        /\ Return(w, IF seen[w] = "done" THEN "done" ELSE "failed")
     \/ /\ w \notin Children \/ w \notin live \/ destroy[w] # "none"
        /\ Reject(w)
  /\ UNCHANGED <<executeVars, spawnVars, registry, sessionVars, task, destroy,
                 seen, finished>>

\* Mutated form: a running agent is polled for ever.
TimeOutUnlessRunning(w) ==
  /\ waiter[w] = "polling" /\ registry[w] # "running"
  /\ Return(w, "failed")
  /\ UNCHANGED <<executeVars, spawnVars, registry, sessionVars, task, destroy,
                 seen, finished>>

\* The deadline passes.
TimeOut(w) ==
  /\ waiter[w] = "polling"
  /\ Return(w, "failed")
  /\ UNCHANGED <<executeVars, spawnVars, registry, sessionVars, task, destroy,
                 seen, finished>>

-----------------------------------------------------------------------------
\* The daemon process.

\* Everything in memory is gone; suspended code never resumes.
Stop ==
  /\ daemon # "down" /\ (daemon = "stopping" \/ crashes < MaxCrashes)
  /\ daemon' = "down"
  /\ crashes' = IF daemon = "stopping" THEN crashes ELSE crashes + 1
  /\ cpc' = IF cpc \in {"merged", "failed", "stalled"} THEN cpc ELSE "lost"
  /\ spawn' = [a \in Agents |-> IF a \in InCreation THEN "lost" ELSE spawn[a]]
  /\ pendingCount' = 0
  /\ registry' = [a \in Agents |-> "absent"]
  /\ live' = {}
  /\ task' = [a \in Agents |-> IF task[a] \in {"working", "finishing"} THEN "lost" ELSE task[a]]
  /\ destroy' = [a \in Agents |-> "none"]
  /\ waiter' = [w \in Workers |-> IF waiter[w] \in {"polling", "reading"} THEN "lost" ELSE waiter[w]]
  /\ UNCHANGED <<dependsOn, pending, running, completed, handled, row, seen, result, finished>>

\* rebuildFromDb gives every child session in the store an entry.
RebuiltStatus(a) ==
  CASE row[a] = "absent"    -> "absent"
    [] row[a] = "completed" -> "done"
    [] row[a] = "error"     -> "failed"
    [] OTHER                -> "running"

Restart ==
  /\ daemon = "down"
  /\ daemon' = "up"
  /\ registry' = [a \in Agents |-> RebuiltStatus(a)]
  /\ UNCHANGED <<executeVars, spawnVars, sessionVars, task, destroy, waitVars,
                 crashes, finished>>

-----------------------------------------------------------------------------
ExecuteStep ==
  \/ Validate \/ EndScan
  \/ \E w \in Workers : StartWorker(w) \/ Race(w)
  \/ \E integrated \in BOOLEAN : Merge(integrated)

SpawnStep(a) == CreateSession(a) \/ CreateFails(a) \/ Register(a)

TaskStep(a) ==
  \/ FinishTask(a) \/ ReportDone(a)
  \/ \E status \in {"open", "error"} : FailTask(a, status)

DestroyStep(a) == Kill(a) \/ DeleteSession(a) \/ DestroySession(a) \/ MarkKilled(a)

WaitStep(w) == SeeEnded(w) \/ ReadCheckpoint(w) \/ TimeOut(w)

Running ==
  \/ ExecuteStep
  \/ \E a \in Agents : SpawnOther(a) \/ SpawnStep(a) \/ TaskStep(a) \/ DestroyStep(a)
  \/ \E w \in Workers : WaitStep(w)

Next == (daemon = "up" /\ Running) \/ Stop \/ Restart

Spec == Init /\ [][Next]_vars

\* createSession, the merge and the store settle; a wait has a deadline.  No
\* fairness for the children: they may work forever.
Up(A) == daemon = "up" /\ A
Fairness ==
  /\ WF_vars(Up(ExecuteStep))
  /\ \A a \in Agents : WF_vars(Up(SpawnStep(a)))
  /\ \A w \in Workers : WF_vars(Up(WaitStep(w)))
  /\ WF_vars(daemon = "stopping" /\ Stop)
FairSpec == Spec /\ Fairness
-----------------------------------------------------------------------------
\* Properties.

\* Every variable keeps the shape its field, row or local has in the code.
TypeOK ==
  /\ dependsOn \in [Workers -> SUBSET Agents]
  /\ cpc \in {"validating", "scanning", "spawning", "racing", "merging", "merged",
              "failed", "stalled", "lost"}
  /\ pending \subseteq Workers /\ running \subseteq Workers
  /\ completed \subseteq Workers /\ handled \subseteq Workers
  /\ spawn \in [Agents -> {"ready", "refused", "creating", "created", "spawned", "failed", "lost"}]
  /\ pendingCount \in Nat
  /\ registry \in [Agents -> AgentStatus \cup {"absent"}]
  /\ row \in [Agents -> {"absent", "open", "completed", "error"}] /\ live \subseteq Agents
  /\ task \in [Agents -> {"none", "working", "finishing", "ended", "lost"}]
  /\ destroy \in [Agents -> {"none", "killing", "deleting", "killed"}]
  /\ waiter \in [Workers -> {"none", "polling", "reading", "returned", "rejected", "lost"}]
  /\ seen \in [Workers -> Ended \cup {"none"}]
  /\ result \in [Workers -> {"none", "done", "failed"}]
  /\ daemon \in {"up", "stopping", "down"} /\ crashes \in Nat
  /\ finished \subseteq Agents

\* "Maximum number of child agents allowed per coordinator session": the child
\* sessions that exist never outnumber maxAgents, although spawns overlap, fail
\* half way or are cut off by a crash, and the registry is rebuilt after it.
ChildrenBounded == Cardinality(Children) <= MaxAgents

\* No slot leaks and none is given back twice: the pending counter counts
\* exactly the creations in flight.
SlotsAccounted == pendingCount = Cardinality(InCreation)

\* The limit of children and the accounting it rests on, in every order of spawns,
\* failures, kills and restarts.
SlotsBounded == ChildrenBounded /\ SlotsAccounted

\* A manifest that passed validation never runs into "Worker execution stalled"
\* or "no runnable workers", in whatever order its workers end.
NeverStalls == cpc # "stalled"

\* A worker is spawned only after the wait for each worker it depends on has
\* returned, and a returned wait is never repeated.
DependenciesEnded ==
  \A w \in Workers : spawn[w] # "ready" =>
    \A d \in dependsOn[w] : d \in Workers /\ waiter[d] = "returned"

\* execute merges only the work of children whose approved plan was carried out
\* to the end: no timeout, kill, failure or stale registry entry passes for it.
MergedWorkFinished == cpc = "merged" => Workers \subseteq finished

\* execute settles although children may hang: every wait has a deadline.
ExecuteEnds == <>(cpc \in {"merged", "failed", "stalled", "lost"})
=============================================================================
