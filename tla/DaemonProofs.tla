---------------------------- MODULE DaemonProofs ----------------------------
(***************************************************************************)
(* Theorems about AgentTeam and SessionLifecycle, the two controllers of    *)
(* the daemon below the engine: for every finite set of workers and of      *)
(* other agents and every limit, for every set of sessions and of           *)
(* destructions, and for every number of crashes.                           *)
(***************************************************************************)
EXTENDS AgentTeam, SessionLifecycle, FiniteSetTheorems, TLAPS

-----------------------------------------------------------------------------
\* Type correctness.

LEMMA ExecuteTyped == ASSUME TypeOK, ExecuteStep PROVE TypeOK'
<1> USE DEF TypeOK, executeVars, spawnVars, sessionVars, waitVars, daemonVars, Agents
<1>1. CASE Validate BY <1>1 DEF Validate
<1>2. CASE EndScan BY <1>2 DEF EndScan
<1>3. ASSUME NEW w \in Workers, StartWorker(w) PROVE TypeOK'
  BY <1>3 DEF StartWorker, BeginSpawn
<1>4. ASSUME NEW w \in Workers, Race(w) PROVE TypeOK'
  BY <1>4 DEF Race
<1>5. ASSUME NEW integrated \in BOOLEAN, Merge(integrated) PROVE TypeOK'
  BY <1>5 DEF Merge
<1>6. QED BY <1>1, <1>2, <1>3, <1>4, <1>5 DEF ExecuteStep

LEMMA AgentStepTyped ==
  ASSUME TypeOK, NEW a \in Agents,
         SpawnOther(a) \/ SpawnStep(a) \/ TaskStep(a) \/ DestroyStep(a)
  PROVE  TypeOK'
<1> USE DEF TypeOK, executeVars, spawnVars, sessionVars, waitVars, daemonVars,
            AgentStatus, DecrementPending, LeaveRow
<1>1. CASE SpawnOther(a) BY <1>1 DEF SpawnOther, BeginSpawn
<1>2. CASE CreateSession(a) BY <1>2 DEF CreateSession
<1>3. CASE CreateFails(a) BY <1>3 DEF CreateFails
<1>4. CASE Register(a) BY <1>4 DEF Register
<1>5. CASE FinishTask(a) BY <1>5 DEF FinishTask
<1>6. CASE ReportDone(a) BY <1>6 DEF ReportDone
<1>7. ASSUME NEW status \in {"open", "error"}, FailTask(a, status) PROVE TypeOK'
  BY <1>7 DEF FailTask
<1>8. CASE Kill(a) BY <1>8 DEF Kill
<1>9. CASE DeleteSession(a) BY <1>9 DEF DeleteSession
<1>10. CASE DestroySession(a) BY <1>10 DEF DestroySession
<1>11. CASE MarkKilled(a) BY <1>11 DEF MarkKilled
<1>12. QED
  BY <1>1, <1>2, <1>3, <1>4, <1>5, <1>6, <1>7, <1>8, <1>9, <1>10, <1>11
  DEF SpawnStep, TaskStep, DestroyStep

LEMMA WaitTyped == ASSUME TypeOK, NEW w \in Workers, WaitStep(w) PROVE TypeOK'
<1> USE DEF TypeOK, executeVars, spawnVars, sessionVars, daemonVars, Ended, AgentStatus
<1>1. CASE SeeEnded(w) BY <1>1 DEF SeeEnded
<1>2. CASE ReadCheckpoint(w) BY <1>2 DEF ReadCheckpoint, Return, Reject
<1>3. CASE TimeOut(w) BY <1>3 DEF TimeOut, Return
<1>4. QED BY <1>1, <1>2, <1>3 DEF WaitStep

LEMMA DaemonTyped == ASSUME TypeOK, Stop \/ Restart PROVE TypeOK'
<1> USE DEF TypeOK, executeVars, spawnVars, sessionVars, waitVars, AgentStatus
<1>1. CASE Stop BY <1>1 DEF Stop
<1>2. CASE Restart BY <1>2 DEF Restart, RebuiltStatus
<1>3. QED BY <1>1, <1>2

LEMMA StepTyped == TypeOK /\ [Next]_vars => TypeOK'
<1> SUFFICES ASSUME TypeOK, [Next]_vars PROVE TypeOK' OBVIOUS
<1>1. CASE UNCHANGED vars
  BY <1>1 DEF vars, executeVars, spawnVars, sessionVars, waitVars, daemonVars, TypeOK
<1>2. CASE Next
  BY <1>2, ExecuteTyped, AgentStepTyped, WaitTyped, DaemonTyped DEF Next, Running
<1>3. QED BY <1>1, <1>2

\* Every variable keeps its type, whatever spawns, kills, waits and crashes
\* interleave.
THEOREM TypesHold == Spec => []TypeOK
<1>1. Init => TypeOK BY DEF Init, TypeOK, Agents
<1>2. QED BY <1>1, StepTyped, PTL DEF Spec

-----------------------------------------------------------------------------
\* The limit.  An agent passes from creation to registration without leaving
\* either: Placed says where the spawn of an agent with a row or an entry is.
Placed ==
  /\ \A a \in Agents : registry[a] # "absent" => spawn[a] \in {"spawned", "failed", "lost"}
  /\ \A a \in Agents : row[a] # "absent" => spawn[a] \in {"created", "spawned", "failed", "lost"}
  /\ daemon # "down" => Children \subseteq Registered \cup InCreation
  /\ daemon = "down" => InCreation = {} /\ Registered = {}
  /\ \A a \in Agents : destroy[a] \in {"killing", "killed"} => registry[a] # "absent"
  /\ \A a \in Agents : task[a] \in {"working", "finishing"} => registry[a] # "absent"

LEMMA BeginSpawnPlaced ==
  ASSUME TypeOK, Placed, NEW a \in Agents, BeginSpawn(a), daemon # "down",
         UNCHANGED <<registry, sessionVars, task, destroy, daemonVars>>
  PROVE  Placed'
BY DEF TypeOK, Placed, BeginSpawn, Children, Registered, InCreation, sessionVars, daemonVars

LEMMA SpawnPlaced ==
  ASSUME TypeOK, Placed, NEW a \in Agents, SpawnStep(a), daemon # "down"
  PROVE  Placed'
<1> USE DEF TypeOK, Placed, Children, Registered, InCreation, sessionVars, daemonVars, executeVars
<1>1. CASE CreateSession(a) BY <1>1 DEF CreateSession
<1>2. CASE CreateFails(a) BY <1>2 DEF CreateFails
<1>3. CASE Register(a) BY <1>3 DEF Register
<1>4. QED BY <1>1, <1>2, <1>3 DEF SpawnStep

LEMMA TaskPlaced ==
  ASSUME TypeOK, Placed, NEW a \in Agents, TaskStep(a), daemon # "down"
  PROVE  Placed'
<1> USE DEF TypeOK, Placed, Children, Registered, InCreation, spawnVars, sessionVars,
            daemonVars, LeaveRow
<1>1. CASE FinishTask(a) BY <1>1 DEF FinishTask
<1>2. CASE ReportDone(a) BY <1>2 DEF ReportDone
<1>3. ASSUME NEW status \in {"open", "error"}, FailTask(a, status) PROVE Placed'
  BY <1>3 DEF FailTask
<1>4. QED BY <1>1, <1>2, <1>3 DEF TaskStep

LEMMA DestroyPlaced ==
  ASSUME TypeOK, Placed, NEW a \in Agents, DestroyStep(a), daemon # "down"
  PROVE  Placed'
<1> USE DEF TypeOK, Placed, Children, Registered, InCreation, spawnVars, sessionVars, daemonVars
<1>1. CASE Kill(a) BY <1>1 DEF Kill
<1>2. CASE DeleteSession(a) BY <1>2 DEF DeleteSession
<1>3. CASE DestroySession(a) BY <1>3 DEF DestroySession
<1>4. CASE MarkKilled(a) BY <1>4 DEF MarkKilled
<1>5. QED BY <1>1, <1>2, <1>3, <1>4 DEF DestroyStep

LEMMA ExecutePlaced ==
  ASSUME TypeOK, Placed, ExecuteStep, daemon # "down"
  PROVE  Placed'
<1> USE DEF Agents, sessionVars, daemonVars
<1>1. CASE \E w \in Workers : StartWorker(w)
  BY <1>1, BeginSpawnPlaced DEF StartWorker
<1>2. CASE UNCHANGED <<spawnVars, registry, sessionVars, task, destroy, daemonVars>>
  BY <1>2 DEF Placed, Children, Registered, InCreation, spawnVars
<1>3. QED
  BY <1>1, <1>2 DEF ExecuteStep, Validate, EndScan, Race, Merge

LEMMA WaitPlaced ==
  ASSUME TypeOK, Placed, NEW w \in Workers, WaitStep(w), daemon = "up"
  PROVE  Placed'
<1>1. daemon' \in {"up", "stopping"}
  BY DEF WaitStep, SeeEnded, ReadCheckpoint, TimeOut, Return, Reject, daemonVars
<1>2. UNCHANGED <<spawnVars, registry, sessionVars, task, destroy>>
  BY DEF WaitStep, SeeEnded, ReadCheckpoint, TimeOut
<1>3. QED
  BY <1>1, <1>2 DEF Placed, Children, Registered, InCreation, spawnVars, sessionVars

LEMMA DaemonPlaced == ASSUME TypeOK, Placed, Stop \/ Restart PROVE Placed'
<1> USE DEF TypeOK, Placed, Children, Registered, InCreation, spawnVars, sessionVars
<1>1. CASE Stop BY <1>1 DEF Stop
<1>2. CASE Restart
  <2>1. \A a \in Agents : registry'[a] # "absent" <=> row[a] # "absent"
    BY <1>2 DEF Restart, RebuiltStatus
  <2>2. Registered = {} /\ InCreation = {} /\ InCreation' = {} BY <1>2 DEF Restart
  <2>3. QED BY <1>2, <2>1, <2>2 DEF Restart
<1>3. QED BY <1>1, <1>2

LEMMA StepPlaced == TypeOK /\ Placed /\ [Next]_vars => Placed'
<1> SUFFICES ASSUME TypeOK, Placed, [Next]_vars PROVE Placed' OBVIOUS
<1>1. CASE UNCHANGED vars
  BY <1>1 DEF vars, spawnVars, sessionVars, daemonVars, Placed, Children, Registered, InCreation
<1>2. ASSUME NEW a \in Agents, SpawnOther(a), daemon = "up" PROVE Placed'
  BY <1>2, BeginSpawnPlaced DEF SpawnOther
<1>3. CASE Next
  BY <1>2, <1>3, ExecutePlaced, SpawnPlaced, TaskPlaced, DestroyPlaced, WaitPlaced,
     DaemonPlaced DEF Next, Running
<1>4. QED BY <1>1, <1>3

\* The counter is exact, and the agents that count never exceed the limit; while
\* the daemon is down only the rows are left to be counted.
Counted ==
  /\ pendingCount = Cardinality(InCreation)
  /\ IF daemon = "down" THEN Cardinality(Children) <= MaxAgents
     ELSE Cardinality(Registered) + Cardinality(InCreation) <= MaxAgents

LEMMA Finite ==
  /\ IsFiniteSet(Agents)
  /\ \A S \in SUBSET Agents : IsFiniteSet(S) /\ Cardinality(S) \in Nat
  /\ \A S, T \in SUBSET Agents : S \subseteq T => Cardinality(S) <= Cardinality(T)
<1>1. IsFiniteSet(Agents) BY AgentsAssumption, FS_Union DEF Agents
<1>2. \A S \in SUBSET Agents : IsFiniteSet(S) BY <1>1, FS_Subset
<1>3. QED BY <1>1, <1>2, FS_Subset, FS_CardinalityType

LEMMA Subsets ==
  /\ Registered \in SUBSET Agents /\ Registered' \in SUBSET Agents
  /\ InCreation \in SUBSET Agents /\ InCreation' \in SUBSET Agents
  /\ Children \in SUBSET Agents /\ Children' \in SUBSET Agents
BY DEF Registered, InCreation, Children

\* A row is always counted.
LEMMA CountedBounds ==
  ASSUME Placed, Counted
  PROVE  Cardinality(Children) <= MaxAgents
<1>1. CASE daemon = "down" BY <1>1 DEF Counted
<1>2. CASE daemon # "down"
  <2>1. Cardinality(Children) <= Cardinality(Registered \cup InCreation)
    BY <1>2, Finite, Subsets DEF Placed
  <2>2. Cardinality(Registered \cup InCreation) <= Cardinality(Registered) + Cardinality(InCreation)
    <3>1. Registered \cap InCreation \in SUBSET Agents BY Subsets
    <3>2. Cardinality(Registered \cap InCreation) \in Nat BY <3>1, Finite
    <3>3. /\ IsFiniteSet(Registered) /\ IsFiniteSet(InCreation)
          /\ Cardinality(Registered) \in Nat /\ Cardinality(InCreation) \in Nat
      BY Finite, Subsets
    <3>4. Cardinality(Registered \cup InCreation) =
            Cardinality(Registered) + Cardinality(InCreation)
              - Cardinality(Registered \cap InCreation)
      BY <3>3, FS_Union
    <3>5. QED BY <3>2, <3>3, <3>4
  <2>3. QED
    BY <1>2, <2>1, <2>2, Finite, Subsets, BoundsAssumption DEF Counted
<1>3. QED BY <1>1, <1>2

\* A spawn that passes the limit takes one slot.
LEMMA BeginSpawnCounted ==
  ASSUME TypeOK, Counted, NEW a \in Agents, BeginSpawn(a), daemon # "down",
         UNCHANGED <<registry, daemonVars>>
  PROVE  Counted'
<1>0. Registered' = Registered /\ daemon' # "down" BY DEF Registered, daemonVars
<1>1. CASE LimitReached
  <2>1. InCreation' = InCreation BY <1>1 DEF BeginSpawn, InCreation, TypeOK
  <2>2. QED BY <1>0, <1>1, <2>1 DEF Counted, BeginSpawn
<1>2. CASE ~LimitReached
  <2>1. a \notin InCreation /\ InCreation' = InCreation \cup {a}
    BY <1>2 DEF BeginSpawn, InCreation, TypeOK
  <2>2. Cardinality(InCreation') = Cardinality(InCreation) + 1
    BY <2>1, Finite, Subsets, FS_AddElement
  <2>3. QED
    BY <1>0, <1>2, <2>2, Finite, Subsets, BoundsAssumption DEF Counted, BeginSpawn, LimitReached
<1>3. QED BY <1>1, <1>2

\* A spawn that ends gives its slot back, to the registry if it registers.
LEMMA SpawnCounted ==
  ASSUME TypeOK, Placed, Counted, NEW a \in Agents, SpawnStep(a), daemon # "down"
  PROVE  Counted'
<1> USE DEF daemonVars
<1>1. CASE CreateSession(a)
  <2>1. InCreation' = InCreation BY <1>1 DEF CreateSession, InCreation, TypeOK
  <2>2. Registered' = Registered BY <1>1 DEF CreateSession, Registered
  <2>3. QED BY <1>1, <2>1, <2>2 DEF CreateSession, Counted
<1>2. ASSUME spawn[a] \in {"creating", "created"}, InCreation' = InCreation \ {a}, DecrementPending
      PROVE  /\ pendingCount' = Cardinality(InCreation')
             /\ Cardinality(InCreation') = Cardinality(InCreation) - 1
  <2>1. a \in InCreation BY <1>2 DEF InCreation
  <2>2. Cardinality(InCreation') = Cardinality(InCreation) - 1
    BY <1>2, <2>1, Finite, Subsets, FS_RemoveElement
  <2>3. Cardinality(InCreation) # 0
    BY <2>1, Finite, Subsets, FS_EmptySet
  <2>4. QED BY <1>2, <2>2, <2>3 DEF Counted, DecrementPending
<1>3. CASE CreateFails(a)
  <2>1. InCreation' = InCreation \ {a} BY <1>3 DEF CreateFails, InCreation, TypeOK
  <2>2. Registered' = Registered /\ daemon' = daemon BY <1>3 DEF CreateFails, Registered
  <2>3. QED
    BY <1>2, <1>3, <2>1, <2>2, Finite, Subsets, BoundsAssumption DEF CreateFails, Counted
<1>4. CASE Register(a)
  <2>1. InCreation' = InCreation \ {a} BY <1>4 DEF Register, InCreation, TypeOK
  <2>2. Registered' = Registered \cup {a} /\ daemon' = daemon
    BY <1>4 DEF Register, Registered, TypeOK
  <2>3. a \notin Registered BY <1>4 DEF Register, Registered, Placed
  <2>4. Cardinality(Registered') = Cardinality(Registered) + 1
    BY <2>2, <2>3, Finite, Subsets, FS_AddElement
  <2>5. QED
    BY <1>2, <1>4, <2>1, <2>2, <2>4, Finite, Subsets, BoundsAssumption DEF Register, Counted
<1>5. QED BY <1>1, <1>3, <1>4 DEF SpawnStep

\* No other step creates, registers or forgets an agent.
LEMMA QuietCounted ==
  ASSUME Counted, daemon # "down", daemon' # "down", UNCHANGED spawnVars,
         Registered' = Registered
  PROVE  Counted'
<1>1. InCreation' = InCreation BY DEF InCreation, spawnVars
<1>2. QED BY <1>1 DEF Counted, spawnVars

LEMMA TaskCounted ==
  ASSUME TypeOK, Placed, Counted, NEW a \in Agents, TaskStep(a) \/ DestroyStep(a), daemon # "down"
  PROVE  Counted'
<1>1. daemon' = daemon /\ UNCHANGED spawnVars
  BY DEF TaskStep, FinishTask, ReportDone, FailTask, DestroyStep, Kill, DeleteSession,
         DestroySession, MarkKilled, daemonVars
<1>2. Registered' = Registered
  BY DEF TaskStep, FinishTask, ReportDone, FailTask, DestroyStep, Kill, DeleteSession,
         DestroySession, MarkKilled, Registered, Placed, TypeOK
<1>3. QED BY <1>1, <1>2, QuietCounted

LEMMA DaemonCounted ==
  ASSUME TypeOK, Placed, Counted, Stop \/ Restart
  PROVE  Counted'
<1>1. CASE Stop
  <2>1. InCreation' = {} BY <1>1 DEF Stop, InCreation, TypeOK
  <2>2. Children' = Children BY <1>1 DEF Stop, Children
  <2>3. QED BY <1>1, <2>1, <2>2, CountedBounds, FS_EmptySet DEF Stop, Counted
<1>2. CASE Restart
  <2>1. InCreation = {} /\ InCreation' = {} /\ pendingCount' = pendingCount
    BY <1>2 DEF Restart, InCreation, Placed, spawnVars
  <2>2. Registered' = Children
    BY <1>2 DEF Restart, Registered, RebuiltStatus, Children, TypeOK
  <2>3. QED
    BY <1>2, <2>1, <2>2, FS_EmptySet, Finite, Subsets, BoundsAssumption DEF Restart, Counted
<1>3. QED BY <1>1, <1>2

LEMMA StepCounted == TypeOK /\ Placed /\ Counted /\ [Next]_vars => Counted'
<1> SUFFICES ASSUME TypeOK, Placed, Counted, [Next]_vars PROVE Counted' OBVIOUS
<1>1. CASE UNCHANGED vars
  BY <1>1 DEF vars, spawnVars, sessionVars, daemonVars, Counted, Children, Registered, InCreation
<1>2. ASSUME NEW a \in Agents, SpawnOther(a), daemon = "up" PROVE Counted'
  BY <1>2, BeginSpawnCounted DEF SpawnOther
<1>3. ASSUME NEW w \in Workers, StartWorker(w), daemon = "up" PROVE Counted'
  BY <1>3, BeginSpawnCounted DEF StartWorker, Agents
<1>4. CASE /\ daemon = "up"
           /\ \/ Validate \/ EndScan \/ \E w \in Workers : Race(w) \/ WaitStep(w)
              \/ \E integrated \in BOOLEAN : Merge(integrated)
  <2>1. daemon' # "down" /\ UNCHANGED <<spawnVars, registry>>
    BY <1>4 DEF Validate, EndScan, Race, Merge, WaitStep, SeeEnded, ReadCheckpoint,
                TimeOut, Return, Reject, daemonVars
  <2>2. QED BY <1>4, <2>1, QuietCounted DEF Registered
<1>5. CASE Next
  BY <1>2, <1>3, <1>4, <1>5, SpawnCounted, TaskCounted, DaemonCounted
  DEF Next, Running, ExecuteStep
<1>6. QED BY <1>1, <1>5

LEMMA InitCounted == Init => Placed /\ Counted
<1> SUFFICES ASSUME Init PROVE Placed /\ Counted OBVIOUS
<1>1. Registered = {} /\ InCreation = {} /\ Children = {}
  BY DEF Init, Registered, InCreation, Children
<1>2. Placed BY <1>1 DEF Init, Placed
<1>3. Counted BY <1>1, FS_EmptySet, BoundsAssumption DEF Init, Counted
<1>4. QED BY <1>2, <1>3

LEMMA CountedHolds == Spec => [](Placed /\ Counted)
BY InitCounted, StepPlaced, StepCounted, TypesHold, PTL DEF Spec

\* The child sessions of a coordinator never outnumber maxAgents.
THEOREM ChildrenBoundedHolds == Spec => []ChildrenBounded
<1>1. Placed /\ Counted => ChildrenBounded BY CountedBounds DEF ChildrenBounded
<1>2. QED BY <1>1, CountedHolds, PTL

\* The pending counter counts exactly the creations in flight.
THEOREM SlotsAccountedHolds == Spec => []SlotsAccounted
<1>1. Counted => SlotsAccounted BY DEF Counted, SlotsAccounted
<1>2. QED BY <1>1, CountedHolds, PTL

\* The children stay within the limit and every slot is accounted for.
THEOREM SlotsBoundedHolds == Spec => []SlotsBounded
BY ChildrenBoundedHolds, SlotsAccountedHolds, PTL DEF SlotsBounded

-----------------------------------------------------------------------------
\* CoordinatorEngine.execute: the manifest's dependencies, and what a merge is
\* worth.

\* The schedule.  While execute works every worker is pending, being spawned,
\* running or completed, and at most one is being spawned.
AtWork == {"scanning", "spawning", "racing"}

Scheduled ==
  /\ cpc \in AtWork =>
       /\ ValidManifest /\ completed # Workers
       /\ Workers \subseteq pending \cup running \cup completed \cup InCreation
  /\ cpc = "validating" => pending = Workers /\ completed = {}
  /\ \A w \in Workers : w \in InCreation =>
       cpc = "spawning" /\ \A v \in Workers : v \in InCreation => v = w
  /\ \A w \in Workers : spawn[w] # "ready" => dependsOn[w] \subseteq completed
  /\ \A w \in Workers : waiter[w] # "none" => spawn[w] = "spawned"
  /\ \A w \in completed : waiter[w] = "returned"
  /\ cpc # "stalled"

\* Some pending worker's dependencies have completed when nothing else is left.
LEMMA SomeRunnable ==
  ASSUME TypeOK, ValidManifest, completed # Workers, Workers \subseteq pending \cup completed
  PROVE  \E w \in Workers : Runnable(w)
<1> DEFINE S == Workers \ completed
<1>1. S # {} /\ S \in SUBSET Workers BY DEF TypeOK
<1>2. PICK w \in S : dependsOn[w] \cap S = {} BY <1>1 DEF ValidManifest, Acyclic
<1>3. dependsOn[w] \subseteq Workers BY DEF ValidManifest
<1>4. dependsOn[w] \subseteq completed BY <1>2, <1>3
<1>5. QED BY <1>4 DEF Runnable

\* What a step of execute leaves alone.
ManifestFixed == dependsOn' = dependsOn /\ (ValidManifest => ValidManifest')

LEMMA ManifestLemma == ASSUME UNCHANGED dependsOn PROVE ManifestFixed
BY DEF ManifestFixed, ValidManifest, Acyclic

LEMMA ExecuteScheduled ==
  ASSUME TypeOK, Scheduled, ExecuteStep
  PROVE  Scheduled'
<1>0. ManifestFixed
  BY ManifestLemma DEF ExecuteStep, Validate, EndScan, StartWorker, Race, Merge
<1> USE DEF ManifestFixed, spawnVars, waitVars
<1>1. CASE Validate
  <2>1. InCreation' = InCreation BY <1>1 DEF Validate, InCreation
  <2>2. ValidManifest => Workers # {}
    BY FS_EmptySet DEF ValidManifest
  <2>3. QED BY <1>0, <1>1, <2>1, <2>2 DEF Validate, Scheduled, AtWork
<1>2. CASE EndScan
  <2>1. InCreation' = InCreation BY <1>2 DEF EndScan, InCreation
  <2>2. InCreation \cap Workers = {} BY <1>2 DEF EndScan, Scheduled
  <2>3. running # {}
    <3>1. SUFFICES ASSUME running = {} PROVE FALSE OBVIOUS
    <3>2. Workers \subseteq pending \cup completed BY <1>2, <2>2, <3>1 DEF EndScan, Scheduled, AtWork
    <3>3. QED BY <1>2, <3>2, SomeRunnable DEF EndScan, Scheduled, AtWork
  <2>4. QED BY <1>0, <1>2, <2>1, <2>3 DEF EndScan, Scheduled, AtWork
<1>3. ASSUME NEW w \in Workers, StartWorker(w) PROVE Scheduled'
  <2>1. cpc = "scanning" /\ InCreation \cap Workers = {} BY <1>3 DEF StartWorker, Scheduled
  <2>2. dependsOn[w] \subseteq completed BY <1>3 DEF StartWorker, Runnable
  <2>3. CASE LimitReached
    <3>1. InCreation' = InCreation
      BY <1>3, <2>3 DEF StartWorker, BeginSpawn, InCreation, TypeOK, Agents
    <3>2. QED
      BY <1>0, <1>3, <2>1, <2>2, <2>3, <3>1
      DEF StartWorker, BeginSpawn, Scheduled, AtWork, TypeOK, Agents
  <2>4. CASE ~LimitReached
    <3>1. InCreation' = InCreation \cup {w}
      BY <1>3, <2>4 DEF StartWorker, BeginSpawn, InCreation, TypeOK, Agents
    <3>2. QED
      BY <1>0, <1>3, <2>1, <2>2, <2>4, <3>1
      DEF StartWorker, BeginSpawn, Scheduled, AtWork, TypeOK, Agents
  <2>5. QED BY <2>3, <2>4
<1>4. ASSUME NEW w \in Workers, Race(w) PROVE Scheduled'
  <2>1. InCreation' = InCreation BY <1>4 DEF Race, InCreation
  <2>2. QED BY <1>0, <1>4, <2>1 DEF Race, Scheduled, AtWork, TypeOK
<1>5. ASSUME NEW integrated \in BOOLEAN, Merge(integrated) PROVE Scheduled'
  <2>1. InCreation' = InCreation BY <1>5 DEF Merge, InCreation
  <2>2. QED BY <1>0, <1>5, <2>1 DEF Merge, Scheduled, AtWork
<1>6. QED BY <1>1, <1>2, <1>3, <1>4, <1>5 DEF ExecuteStep

\* Spawns of other agents leave the workers alone.
LEMMA OtherScheduled ==
  ASSUME TypeOK, Scheduled, NEW a \in Others, BeginSpawn(a), UNCHANGED <<executeVars, waitVars>>
  PROVE  Scheduled'
<1>1. a \notin Workers BY AgentsAssumption
<1>2. \A w \in Workers : spawn'[w] = spawn[w] BY <1>1 DEF BeginSpawn, TypeOK, Agents
<1>3. \A w \in Workers : w \in InCreation' <=> w \in InCreation BY <1>2 DEF InCreation, Agents
<1>4. ManifestFixed BY ManifestLemma DEF executeVars
<1>5. QED BY <1>2, <1>3, <1>4 DEF Scheduled, ManifestFixed, executeVars, waitVars

LEMMA SpawnScheduled ==
  ASSUME TypeOK, Scheduled, NEW a \in Agents, SpawnStep(a)
  PROVE  Scheduled'
<1>0. ManifestFixed
  BY ManifestLemma DEF SpawnStep, CreateSession, CreateFails, Register, executeVars
<1>1. CASE CreateSession(a)
  <2>1. InCreation' = InCreation BY <1>1 DEF CreateSession, InCreation, TypeOK
  <2>2. \A w \in Workers : spawn'[w] = spawn[w] \/ (w = a /\ spawn[w] = "creating" /\ spawn'[w] = "created")
    BY <1>1 DEF CreateSession, TypeOK, Agents
  <2>3. QED
    BY <1>0, <1>1, <2>1, <2>2 DEF CreateSession, Scheduled, ManifestFixed, executeVars, waitVars
<1>2. CASE CreateFails(a)
  <2>1. InCreation' = InCreation \ {a} BY <1>2 DEF CreateFails, InCreation, TypeOK
  <2>2. a \in InCreation BY <1>2 DEF CreateFails, InCreation
  <2>3. \A w \in Workers : spawn'[w] = IF w = a THEN "failed" ELSE spawn[w]
    BY <1>2 DEF CreateFails, TypeOK, Agents
  <2>4. QED
    BY <1>0, <1>2, <2>1, <2>2, <2>3
    DEF CreateFails, Scheduled, ManifestFixed, waitVars, AtWork
<1>3. CASE Register(a)
  <2>1. InCreation' = InCreation \ {a}
    BY <1>3 DEF Register, InCreation, TypeOK
  <2>2. a \in InCreation BY <1>3 DEF Register, InCreation
  <2>3. \A w \in Workers : spawn'[w] = IF w = a THEN IF a \in live THEN "spawned" ELSE "failed" ELSE spawn[w]
    BY <1>3 DEF Register, TypeOK, Agents
  <2>4. a \in Workers => waiter[a] = "none" /\ a \notin completed
    BY <1>3 DEF Register, Scheduled
  <2>5. QED
    BY <1>0, <1>3, <2>1, <2>2, <2>3, <2>4
    DEF Register, Scheduled, ManifestFixed, TypeOK, AtWork
<1>4. QED BY <1>1, <1>2, <1>3 DEF SpawnStep

LEMMA WaitScheduled ==
  ASSUME TypeOK, Scheduled, NEW w \in Workers, WaitStep(w)
  PROVE  Scheduled'
<1>1. UNCHANGED <<executeVars, spawnVars>>
  BY DEF WaitStep, SeeEnded, ReadCheckpoint, TimeOut
<1>2. \A v \in Workers : waiter'[v] # waiter[v] => v = w /\ waiter[v] \in {"polling", "reading"}
  BY DEF WaitStep, SeeEnded, ReadCheckpoint, TimeOut, Return, Reject, TypeOK
<1>3. ManifestFixed /\ InCreation' = InCreation
  BY <1>1, ManifestLemma DEF executeVars, spawnVars, InCreation
<1>4. QED BY <1>1, <1>2, <1>3 DEF Scheduled, ManifestFixed, executeVars, spawnVars, TypeOK

LEMMA StopScheduled == ASSUME TypeOK, Scheduled, Stop PROVE Scheduled'
<1>1. InCreation' = {} BY DEF Stop, InCreation, TypeOK
<1>2. ManifestFixed BY ManifestLemma DEF Stop
<1>3. cpc' \notin AtWork \cup {"validating", "stalled"} BY DEF Stop, AtWork, Scheduled
<1>4. \A w \in Workers : /\ spawn'[w] # "ready" => spawn[w] # "ready"
                         /\ spawn[w] = "spawned" => spawn'[w] = "spawned"
                         /\ waiter'[w] # "none" => waiter[w] # "none"
                         /\ waiter[w] = "returned" => waiter'[w] = "returned"
  BY DEF Stop, InCreation, Agents, TypeOK
<1>5. QED BY <1>1, <1>2, <1>3, <1>4 DEF Stop, Scheduled, ManifestFixed, TypeOK

LEMMA StepScheduled == TypeOK /\ Scheduled /\ [Next]_vars => Scheduled'
<1> SUFFICES ASSUME TypeOK, Scheduled, [Next]_vars PROVE Scheduled' OBVIOUS
<1>1. CASE UNCHANGED <<executeVars, spawnVars, waiter>>
  <2>1. InCreation' = InCreation /\ ManifestFixed
    BY <1>1, ManifestLemma DEF InCreation, spawnVars, executeVars
  <2>2. QED BY <1>1, <2>1 DEF Scheduled, ManifestFixed, spawnVars, executeVars
<1>2. ASSUME NEW a \in Agents, SpawnOther(a) PROVE Scheduled'
  BY <1>2, OtherScheduled DEF SpawnOther
<1>3. ASSUME NEW a \in Agents, TaskStep(a) \/ DestroyStep(a) PROVE Scheduled'
  BY <1>1, <1>3 DEF TaskStep, FinishTask, ReportDone, FailTask, DestroyStep, Kill,
     DeleteSession, DestroySession, MarkKilled, waitVars
<1>4. CASE Restart BY <1>1, <1>4 DEF Restart, waitVars
<1>5. CASE Next
  BY <1>2, <1>3, <1>4, <1>5, ExecuteScheduled, SpawnScheduled, WaitScheduled, StopScheduled
  DEF Next, Running
<1>6. CASE UNCHANGED vars BY <1>1, <1>6 DEF vars, waitVars
<1>7. QED BY <1>5, <1>6

LEMMA ScheduledHolds == Spec => []Scheduled
<1>1. Init => Scheduled BY DEF Init, Scheduled, AtWork, InCreation, Agents
<1>2. QED BY <1>1, StepScheduled, TypesHold, PTL DEF Spec

\* A manifest that passed validation never stalls.
THEOREM NeverStallsHolds == Spec => []NeverStalls
<1>1. Scheduled => NeverStalls BY DEF Scheduled, NeverStalls
<1>2. QED BY <1>1, ScheduledHolds, PTL

\* No worker is spawned before the waits for its dependencies have returned.
THEOREM DependenciesEndedHolds == Spec => []DependenciesEnded
<1>1. TypeOK /\ Scheduled => DependenciesEnded BY DEF Scheduled, DependenciesEnded, TypeOK
<1>2. QED BY <1>1, TypesHold, ScheduledHolds, PTL

-----------------------------------------------------------------------------
\* Done means done: every trace an agent's success leaves, in memory or in its
\* row, is left by a task that finished.
Truthful ==
  /\ \A a \in Agents : task[a] = "finishing" => a \in finished
  /\ \A a \in Agents : registry[a] = "done" => a \in finished
  /\ \A a \in Agents : row[a] = "completed" => a \in finished
  /\ \A w \in Workers : seen[w] = "done" => w \in finished
  /\ \A w \in Workers : result[w] = "done" => w \in finished
  /\ MergedWorkFinished

LEMMA AgentsTruthful ==
  ASSUME TypeOK, Truthful, NEW a \in Agents,
         SpawnOther(a) \/ SpawnStep(a) \/ TaskStep(a) \/ DestroyStep(a)
  PROVE  Truthful'
<1> USE DEF TypeOK, Truthful, MergedWorkFinished, executeVars, spawnVars, sessionVars,
            waitVars, LeaveRow
<1>1. CASE SpawnOther(a) BY <1>1 DEF SpawnOther
<1>2. CASE SpawnStep(a) BY <1>2 DEF SpawnStep, CreateSession, CreateFails, Register
<1>3. CASE FinishTask(a) BY <1>3 DEF FinishTask
<1>4. CASE ReportDone(a) BY <1>4 DEF ReportDone
<1>5. ASSUME NEW status \in {"open", "error"}, FailTask(a, status) PROVE Truthful'
  BY <1>5 DEF FailTask
<1>6. CASE DestroyStep(a)
  BY <1>6 DEF DestroyStep, Kill, DeleteSession, DestroySession, MarkKilled
<1>7. QED BY <1>1, <1>2, <1>3, <1>4, <1>5, <1>6 DEF TaskStep

LEMMA ExecuteTruthful == ASSUME TypeOK, Truthful, ExecuteStep PROVE Truthful'
<1> USE DEF TypeOK, Truthful, MergedWorkFinished, sessionVars, waitVars
<1>1. ASSUME NEW integrated \in BOOLEAN, Merge(integrated) PROVE Truthful'
  BY <1>1 DEF Merge
<1>2. CASE Validate \/ EndScan \/ \E w \in Workers : StartWorker(w) \/ Race(w)
  BY <1>2 DEF Validate, EndScan, StartWorker, Race
<1>3. QED BY <1>1, <1>2 DEF ExecuteStep

LEMMA WaitTruthful == ASSUME TypeOK, Truthful, NEW w \in Workers, WaitStep(w) PROVE Truthful'
<1> USE DEF TypeOK, Truthful, MergedWorkFinished, sessionVars, executeVars, Agents
<1>1. CASE SeeEnded(w) BY <1>1 DEF SeeEnded
<1>2. CASE ReadCheckpoint(w) BY <1>2 DEF ReadCheckpoint, Return, Reject
<1>3. CASE TimeOut(w) BY <1>3 DEF TimeOut, Return
<1>4. QED BY <1>1, <1>2, <1>3 DEF WaitStep

LEMMA DaemonTruthful == ASSUME TypeOK, Truthful, Stop \/ Restart PROVE Truthful'
<1> USE DEF TypeOK, Truthful, MergedWorkFinished, sessionVars, executeVars, waitVars
<1>1. CASE Stop BY <1>1 DEF Stop
<1>2. CASE Restart
  <2>1. \A a \in Agents : registry'[a] = "done" => row[a] = "completed"
    BY <1>2 DEF Restart, RebuiltStatus
  <2>2. QED BY <1>2, <2>1 DEF Restart
<1>3. QED BY <1>1, <1>2

LEMMA StepTruthful == TypeOK /\ Truthful /\ [Next]_vars => Truthful'
<1> SUFFICES ASSUME TypeOK, Truthful, [Next]_vars PROVE Truthful' OBVIOUS
<1>1. CASE UNCHANGED vars
  BY <1>1 DEF vars, Truthful, MergedWorkFinished, sessionVars, executeVars, waitVars
<1>2. CASE Next
  BY <1>2, AgentsTruthful, ExecuteTruthful, WaitTruthful, DaemonTruthful DEF Next, Running
<1>3. QED BY <1>1, <1>2

\* execute merges only work of children that carried their plan out to the end.
THEOREM MergedWorkFinishedHolds == Spec => []MergedWorkFinished
<1>1. Init => Truthful BY DEF Init, Truthful, MergedWorkFinished
<1>2. Truthful => MergedWorkFinished BY DEF Truthful
<1>3. QED BY <1>1, <1>2, StepTruthful, TypesHold, PTL DEF Spec

-----------------------------------------------------------------------------
\* SessionLifecycle: what a session is made of.

\* A destruction that began has a session.
Named == \A d \in Destroys : pc[d] # "ready" => of[d] \in Sessions

\* A row, and whatever asks for one, belongs to a session that was inserted; an
\* inserted session is past its clean-ups, one not yet begun owns nothing, and a
\* creation with a sandbox to remove has it on the manager's map.
Owned ==
  /\ \A s \in Sessions : pc[s] = "ready" =>
       /\ s \notin dirs \cup branches \cup containers \cup volumes \cup known
       /\ s \notin wanted \cup inserted
  /\ rows \cup liveSessions \subseteq inserted
  /\ \A s \in inserted : pc[s] \in {"bill", "created", "lost"}
  /\ \A d \in Destroys : of[d] \in inserted \cup {None}
  /\ \A d \in Destroys : pc[d] = "ready" => of[d] = None
  /\ \A s \in Sessions :
       pc[s] \in {"insert", "worktree", "branch", "sandbox"} => s \in known

\* How far a destruction got with the sandbox, and that only it deletes the row.
\* A cloud manager that never restarted knows every sandbox there is.
Gone ==
  /\ \A d \in Destroys : pc[d] = "volume" => of[d] \notin containers
  /\ (cloud => restarts = 0) =>
       /\ \A d \in Destroys : pc[d] \in {"evict", "row", "clear", "done"} =>
            of[d] \notin containers \cup volumes
       /\ SandboxGone
  /\ cloud /\ restarts = 0 => inserted \cap (containers \cup volumes) \subseteq known

\* What a session is made of, from the call that made it on.
HasWorktree(s) == s \in wanted => s \in dirs \cap branches
HasSandbox(s)  == s \in containers \cap volumes
Whole ==
  /\ \A s \in Sessions : pc[s] \in {"createSandbox", "insert"} => HasWorktree(s)
  /\ \A s \in Sessions : pc[s] = "insert" => HasSandbox(s)
  /\ \A s \in rows : (\A d \in Destroys : of[d] # s) => HasWorktree(s) /\ HasSandbox(s)

\* What a creation whose clean-up did not fail has left to remove.
Undone ==
  /\ dirs \cup branches \subseteq wanted
  /\ \A s \in Sessions : pc[s] = "addWorktree" => s \in wanted \ (dirs \cup branches)
  /\ \A s \in Sessions \ uncleaned :
       /\ pc[s] \in {"addWorktree", "createSandbox", "undoWorktree", "undoBranch",
                    "failed"} =>
            s \notin containers \cup volumes \cup known
       /\ pc[s] \in {"undoBranch", "branch"} => s \notin dirs
       /\ pc[s] \in {"sandbox", "container", "volume", "failed"} =>
            s \notin dirs \cup branches
       /\ pc[s] = "volume" => s \notin containers

-----------------------------------------------------------------------------
\* Type correctness.

LEMMA CreateTyped ==
  ASSUME SessionTypeOK, Named, NEW s \in Sessions, CreateStep(s) PROVE SessionTypeOK' /\ Named'
<1> USE NamesAssumption
    DEF SessionTypeOK, Named, Procs, Labels, Waiting, CreateLabels, UndoLabels, RemoveLabels,
        DestroyLabels, diskVars, sandboxVars, dbVars, memoryVars, historyVars, Goto
<1>1. ASSUME NEW p \in Sessions \cup {None}, NEW worktree \in BOOLEAN,
             BeginCreate(s, p, worktree)
      PROVE  SessionTypeOK' /\ Named'
  BY <1>1 DEF BeginCreate
<1>2. CASE AddWorktree(s) BY <1>2 DEF AddWorktree
<1>3. CASE CreateSandbox(s) BY <1>3 DEF CreateSandbox, SandboxBuilt, SandboxHalfBuilt
<1>4. CASE Insert(s) BY <1>4 DEF Insert
<1>5. CASE StartBilling(s) BY <1>5 DEF StartBilling
<1>6. QED BY <1>1, <1>2, <1>3, <1>4, <1>5 DEF CreateStep

LEMMA RemoveTyped ==
  ASSUME SessionTypeOK, Named, NEW x \in Procs, RemoveStep(x) PROVE SessionTypeOK' /\ Named'
<1> USE NamesAssumption
    DEF SessionTypeOK, Named, Procs, Labels, Waiting, CreateLabels, UndoLabels, RemoveLabels,
        DestroyLabels, diskVars, sandboxVars, dbVars, memoryVars, historyVars, Goto,
        Subject, AfterWorktree, AfterSandbox, NotCleaned
<1>1. CASE RemoveWorktree(x) BY <1>1 DEF RemoveWorktree
<1>2. CASE RemoveBranch(x) BY <1>2 DEF RemoveBranch
<1>3. CASE FindSandbox(x) BY <1>3 DEF FindSandbox
<1>4. CASE RemoveContainer(x) BY <1>4 DEF RemoveContainer
<1>5. CASE RemoveVolume(x) BY <1>5 DEF RemoveVolume
<1>6. CASE SandboxFails(x) BY <1>6 DEF SandboxFails
<1>7. QED BY <1>1, <1>2, <1>3, <1>4, <1>5, <1>6 DEF RemoveStep

LEMMA DestroyTyped ==
  ASSUME SessionTypeOK, Named, NEW d \in Destroys, DestructionStep(d) PROVE SessionTypeOK' /\ Named'
<1> USE NamesAssumption
    DEF SessionTypeOK, Named, Procs, Labels, Waiting, CreateLabels, UndoLabels, RemoveLabels,
        DestroyLabels, diskVars, sandboxVars, dbVars, memoryVars, historyVars, Goto
<1>1. ASSUME NEW s \in Sessions, BeginDestroy(d, s) PROVE SessionTypeOK' /\ Named'
  BY <1>1 DEF BeginDestroy
<1>2. CASE Evict(d) BY <1>2 DEF Evict
<1>3. CASE DeleteRow(d) BY <1>3 DEF DeleteRow
<1>4. CASE Clear(d) BY <1>4 DEF Clear
<1>5. QED BY <1>1, <1>2, <1>3, <1>4 DEF DestructionStep

LEMMA RestartTyped == ASSUME SessionTypeOK, Named, RestartDaemon PROVE SessionTypeOK' /\ Named'
BY NamesAssumption
DEF SessionTypeOK, Named, RestartDaemon, Procs, Labels, Waiting, CreateLabels, UndoLabels, RemoveLabels,
    DestroyLabels, diskVars, dbVars, historyVars

LEMMA SessionStepTyped == SessionTypeOK /\ Named /\ [SessionNext]_lifecycleVars => SessionTypeOK' /\ Named'
<1> SUFFICES ASSUME SessionTypeOK, Named, [SessionNext]_lifecycleVars PROVE SessionTypeOK' /\ Named' OBVIOUS
<1>1. CASE UNCHANGED lifecycleVars
  BY <1>1 DEF lifecycleVars, diskVars, sandboxVars, dbVars, memoryVars, historyVars, SessionTypeOK, Named
<1>2. CASE SessionNext
  BY <1>2, CreateTyped, RemoveTyped, DestroyTyped, RestartTyped DEF SessionNext
<1>3. QED BY <1>1, <1>2

LEMMA SessionInitTyped == SessionInit => SessionTypeOK /\ Named
BY NamesAssumption DEF SessionInit, SessionTypeOK, Named, Labels, Waiting, Procs

\* Every variable keeps its type, whatever creations, destructions and crashes
\* interleave.
THEOREM SessionTypesHold == SessionSpec => []SessionTypeOK
BY SessionInitTyped, SessionStepTyped, PTL DEF SessionSpec

-----------------------------------------------------------------------------
\* Who owns what.

LEMMA CreateOwned ==
  ASSUME SessionTypeOK, Named, Owned,
         NEW s \in Sessions, CreateStep(s)
  PROVE  Owned'
<1> USE NamesAssumption
    DEF SessionTypeOK, Named, Owned, Procs, diskVars, sandboxVars, dbVars, memoryVars,
        historyVars, Goto
<1>1. ASSUME NEW p \in Sessions \cup {None}, NEW worktree \in BOOLEAN,
             BeginCreate(s, p, worktree)
      PROVE  Owned'
  BY <1>1 DEF BeginCreate
<1>2. CASE AddWorktree(s) BY <1>2 DEF AddWorktree
<1>3. CASE CreateSandbox(s) BY <1>3 DEF CreateSandbox, SandboxBuilt, SandboxHalfBuilt
<1>4. CASE Insert(s) BY <1>4 DEF Insert
<1>5. CASE StartBilling(s) BY <1>5 DEF StartBilling
<1>6. QED BY <1>1, <1>2, <1>3, <1>4, <1>5 DEF CreateStep

LEMMA RemoveOwned ==
  ASSUME SessionTypeOK, Named, Owned,
         NEW x \in Procs, RemoveStep(x)
  PROVE  Owned'
<1> USE NamesAssumption
    DEF SessionTypeOK, Named, Owned, Procs, diskVars, sandboxVars, dbVars, memoryVars,
        historyVars, Goto, Subject, AfterWorktree, UndoLabels, AfterSandbox,
        NotCleaned
<1>1. CASE RemoveWorktree(x) BY <1>1 DEF RemoveWorktree
<1>2. CASE RemoveBranch(x) BY <1>2 DEF RemoveBranch
<1>3. CASE FindSandbox(x) BY <1>3 DEF FindSandbox
<1>4. CASE RemoveContainer(x) BY <1>4 DEF RemoveContainer
<1>5. CASE RemoveVolume(x) BY <1>5 DEF RemoveVolume
<1>6. CASE SandboxFails(x) BY <1>6 DEF SandboxFails
<1>7. QED BY <1>1, <1>2, <1>3, <1>4, <1>5, <1>6 DEF RemoveStep

LEMMA DestroyOwned ==
  ASSUME SessionTypeOK, Named, Owned,
         NEW d \in Destroys, DestructionStep(d)
  PROVE  Owned'
<1> USE NamesAssumption
    DEF SessionTypeOK, Named, Owned, Procs, diskVars, sandboxVars, dbVars, memoryVars,
        historyVars, Goto
<1>1. ASSUME NEW s \in Sessions, BeginDestroy(d, s) PROVE Owned'
  BY <1>1 DEF BeginDestroy
<1>2. CASE Evict(d) BY <1>2 DEF Evict
<1>3. CASE DeleteRow(d) BY <1>3 DEF DeleteRow
<1>4. CASE Clear(d) BY <1>4 DEF Clear
<1>5. QED BY <1>1, <1>2, <1>3, <1>4 DEF DestructionStep

LEMMA RestartOwned == ASSUME SessionTypeOK, Named, Owned, RestartDaemon PROVE Owned'
BY NamesAssumption
DEF RestartDaemon, SessionTypeOK, Named, Owned, Procs, Waiting, CreateLabels, UndoLabels,
    RemoveLabels, DestroyLabels, diskVars, dbVars, historyVars

LEMMA StepOwned == ASSUME SessionTypeOK, Named, Owned, [SessionNext]_lifecycleVars PROVE Owned'
<1>1. CASE UNCHANGED lifecycleVars
  BY <1>1 DEF lifecycleVars, Owned, diskVars, sandboxVars, dbVars, memoryVars, historyVars
<1>2. QED BY <1>1, CreateOwned, RemoveOwned, DestroyOwned, RestartOwned DEF SessionNext

-----------------------------------------------------------------------------
\* A sandbox that was removed stays removed.

LEMMA CreateGone ==
  ASSUME SessionTypeOK, Named, Owned, Gone,
         NEW s \in Sessions, CreateStep(s)
  PROVE  Gone'
<1> USE NamesAssumption
    DEF SessionTypeOK, Named, Owned, Gone, SandboxGone, Procs, diskVars, sandboxVars,
        dbVars, memoryVars, historyVars, Goto
<1>1. ASSUME NEW p \in Sessions \cup {None}, NEW worktree \in BOOLEAN,
             BeginCreate(s, p, worktree)
      PROVE  Gone'
  BY <1>1 DEF BeginCreate
<1>2. CASE AddWorktree(s) BY <1>2 DEF AddWorktree
<1>3. CASE CreateSandbox(s) BY <1>3 DEF CreateSandbox, SandboxBuilt, SandboxHalfBuilt
<1>4. CASE Insert(s) BY <1>4 DEF Insert
<1>5. CASE StartBilling(s) BY <1>5 DEF StartBilling
<1>6. QED BY <1>1, <1>2, <1>3, <1>4, <1>5 DEF CreateStep

LEMMA RemoveGone ==
  ASSUME SessionTypeOK, Named, Owned, Gone,
         NEW x \in Procs, RemoveStep(x)
  PROVE  Gone'
<1> USE NamesAssumption
    DEF SessionTypeOK, Named, Owned, Gone, SandboxGone, Procs, diskVars, sandboxVars,
        dbVars, memoryVars, historyVars, Goto, Subject, AfterWorktree,
        AfterSandbox, NotCleaned
<1>1. CASE RemoveWorktree(x) BY <1>1 DEF RemoveWorktree
<1>2. CASE RemoveBranch(x) BY <1>2 DEF RemoveBranch
<1>3. CASE FindSandbox(x) BY <1>3 DEF FindSandbox
<1>4. CASE RemoveContainer(x) BY <1>4 DEF RemoveContainer
<1>5. CASE RemoveVolume(x) BY <1>5 DEF RemoveVolume
<1>6. CASE SandboxFails(x) BY <1>6 DEF SandboxFails
<1>7. QED BY <1>1, <1>2, <1>3, <1>4, <1>5, <1>6 DEF RemoveStep

LEMMA DestroyGone ==
  ASSUME SessionTypeOK, Named, Owned, Gone,
         NEW d \in Destroys, DestructionStep(d)
  PROVE  Gone'
<1> USE NamesAssumption
    DEF SessionTypeOK, Named, Owned, Gone, SandboxGone, Procs, diskVars, sandboxVars,
        dbVars, memoryVars, historyVars, Goto
<1>1. ASSUME NEW s \in Sessions, BeginDestroy(d, s) PROVE Gone'
  BY <1>1 DEF BeginDestroy
<1>2. CASE Evict(d) BY <1>2 DEF Evict
<1>3. CASE DeleteRow(d) BY <1>3 DEF DeleteRow
<1>4. CASE Clear(d) BY <1>4 DEF Clear
<1>5. QED BY <1>1, <1>2, <1>3, <1>4 DEF DestructionStep

LEMMA RestartGone == ASSUME SessionTypeOK, Named, Owned, Gone, RestartDaemon PROVE Gone'
BY NamesAssumption
DEF RestartDaemon, SessionTypeOK, Named, Owned, Gone, SandboxGone, Procs, Waiting,
    CreateLabels, UndoLabels, RemoveLabels, DestroyLabels, diskVars, dbVars,
    historyVars

LEMMA StepGone == ASSUME SessionTypeOK, Named, Owned, Gone, [SessionNext]_lifecycleVars PROVE Gone'
<1>1. CASE UNCHANGED lifecycleVars
  BY <1>1 DEF lifecycleVars, Owned, Gone, SandboxGone, diskVars, sandboxVars, dbVars, memoryVars,
      historyVars
<1>2. QED BY <1>1, CreateGone, RemoveGone, DestroyGone, RestartGone DEF SessionNext

-----------------------------------------------------------------------------
\* The live entry goes after the row and before its destruction ends.

LEMMA CreateLive ==
  ASSUME SessionTypeOK, Named, Owned, LiveHasRow,
         NEW s \in Sessions, CreateStep(s)
  PROVE  LiveHasRow'
<1> USE NamesAssumption
    DEF SessionTypeOK, Named, Owned, LiveHasRow, Procs, diskVars, sandboxVars, dbVars,
        memoryVars, historyVars, Goto
<1>1. ASSUME NEW p \in Sessions \cup {None}, NEW worktree \in BOOLEAN,
             BeginCreate(s, p, worktree)
      PROVE  LiveHasRow'
  BY <1>1 DEF BeginCreate
<1>2. CASE AddWorktree(s) BY <1>2 DEF AddWorktree
<1>3. CASE CreateSandbox(s) BY <1>3 DEF CreateSandbox, SandboxBuilt, SandboxHalfBuilt
<1>4. CASE Insert(s) BY <1>4 DEF Insert
<1>5. CASE StartBilling(s) BY <1>5 DEF StartBilling
<1>6. QED BY <1>1, <1>2, <1>3, <1>4, <1>5 DEF CreateStep

LEMMA RemoveLive ==
  ASSUME SessionTypeOK, Named, Owned, LiveHasRow,
         NEW x \in Procs, RemoveStep(x)
  PROVE  LiveHasRow'
<1> USE NamesAssumption
    DEF SessionTypeOK, Named, Owned, LiveHasRow, Procs, diskVars, sandboxVars, dbVars,
        memoryVars, historyVars, Goto, Subject, AfterWorktree, AfterSandbox,
        NotCleaned
<1>1. CASE RemoveWorktree(x) BY <1>1 DEF RemoveWorktree
<1>2. CASE RemoveBranch(x) BY <1>2 DEF RemoveBranch
<1>3. CASE FindSandbox(x) BY <1>3 DEF FindSandbox
<1>4. CASE RemoveContainer(x) BY <1>4 DEF RemoveContainer
<1>5. CASE RemoveVolume(x) BY <1>5 DEF RemoveVolume
<1>6. CASE SandboxFails(x) BY <1>6 DEF SandboxFails
<1>7. QED BY <1>1, <1>2, <1>3, <1>4, <1>5, <1>6 DEF RemoveStep

LEMMA DestroyLive ==
  ASSUME SessionTypeOK, Named, Owned, LiveHasRow,
         NEW d \in Destroys, DestructionStep(d)
  PROVE  LiveHasRow'
<1> USE NamesAssumption
    DEF SessionTypeOK, Named, Owned, LiveHasRow, Procs, diskVars, sandboxVars, dbVars,
        memoryVars, historyVars, Goto
<1>1. ASSUME NEW s \in Sessions, BeginDestroy(d, s) PROVE LiveHasRow'
  BY <1>1 DEF BeginDestroy
<1>2. CASE Evict(d) BY <1>2 DEF Evict
<1>3. CASE DeleteRow(d) BY <1>3 DEF DeleteRow
<1>4. CASE Clear(d) BY <1>4 DEF Clear
<1>5. QED BY <1>1, <1>2, <1>3, <1>4 DEF DestructionStep

LEMMA RestartLive == ASSUME SessionTypeOK, Named, Owned, LiveHasRow, RestartDaemon PROVE LiveHasRow'
BY NamesAssumption
DEF RestartDaemon, SessionTypeOK, Named, Owned, LiveHasRow, Procs, Waiting, CreateLabels,
    UndoLabels, RemoveLabels, DestroyLabels, diskVars, dbVars, historyVars

LEMMA StepLive == ASSUME SessionTypeOK, Named, Owned, LiveHasRow, [SessionNext]_lifecycleVars PROVE LiveHasRow'
<1>1. CASE UNCHANGED lifecycleVars
  BY <1>1 DEF lifecycleVars, Owned, LiveHasRow, diskVars, sandboxVars, dbVars, memoryVars,
      historyVars
<1>2. QED BY <1>1, CreateLive, RemoveLive, DestroyLive, RestartLive DEF SessionNext

-----------------------------------------------------------------------------
\* Only a destruction of the session takes anything from it.

LEMMA CreateWhole ==
  ASSUME SessionTypeOK, Named, Owned, Whole,
         NEW s \in Sessions, CreateStep(s)
  PROVE  Whole'
<1> USE NamesAssumption
    DEF SessionTypeOK, Named, Owned, Whole, HasWorktree, HasSandbox, Procs, diskVars,
        sandboxVars, dbVars, memoryVars, historyVars, Goto
<1>1. ASSUME NEW p \in Sessions \cup {None}, NEW worktree \in BOOLEAN,
             BeginCreate(s, p, worktree)
      PROVE  Whole'
  BY <1>1 DEF BeginCreate
<1>2. CASE AddWorktree(s) BY <1>2 DEF AddWorktree
<1>3. CASE CreateSandbox(s) BY <1>3 DEF CreateSandbox, SandboxBuilt, SandboxHalfBuilt
<1>4. CASE Insert(s) BY <1>4 DEF Insert
<1>5. CASE StartBilling(s) BY <1>5 DEF StartBilling
<1>6. QED BY <1>1, <1>2, <1>3, <1>4, <1>5 DEF CreateStep

LEMMA RemoveWhole ==
  ASSUME SessionTypeOK, Named, Owned, Whole,
         NEW x \in Procs, RemoveStep(x)
  PROVE  Whole'
<1> USE NamesAssumption
    DEF SessionTypeOK, Named, Owned, Whole, HasWorktree, HasSandbox, Procs, diskVars,
        sandboxVars, dbVars, memoryVars, historyVars, Goto, Subject,
        AfterWorktree, AfterSandbox, NotCleaned
<1>1. CASE RemoveWorktree(x) BY <1>1 DEF RemoveWorktree
<1>2. CASE RemoveBranch(x) BY <1>2 DEF RemoveBranch
<1>3. CASE FindSandbox(x) BY <1>3 DEF FindSandbox
<1>4. CASE RemoveContainer(x) BY <1>4 DEF RemoveContainer
<1>5. CASE RemoveVolume(x) BY <1>5 DEF RemoveVolume
<1>6. CASE SandboxFails(x) BY <1>6 DEF SandboxFails
<1>7. QED BY <1>1, <1>2, <1>3, <1>4, <1>5, <1>6 DEF RemoveStep

LEMMA DestroyWhole ==
  ASSUME SessionTypeOK, Named, Owned, Whole,
         NEW d \in Destroys, DestructionStep(d)
  PROVE  Whole'
<1> USE NamesAssumption
    DEF SessionTypeOK, Named, Owned, Whole, HasWorktree, HasSandbox, Procs, diskVars,
        sandboxVars, dbVars, memoryVars, historyVars, Goto
<1>1. ASSUME NEW s \in Sessions, BeginDestroy(d, s) PROVE Whole'
  BY <1>1 DEF BeginDestroy
<1>2. CASE Evict(d) BY <1>2 DEF Evict
<1>3. CASE DeleteRow(d) BY <1>3 DEF DeleteRow
<1>4. CASE Clear(d) BY <1>4 DEF Clear
<1>5. QED BY <1>1, <1>2, <1>3, <1>4 DEF DestructionStep

LEMMA RestartWhole == ASSUME SessionTypeOK, Named, Owned, Whole, RestartDaemon PROVE Whole'
BY NamesAssumption
DEF RestartDaemon, SessionTypeOK, Named, Owned, Whole, HasWorktree, HasSandbox, Procs, Waiting,
    CreateLabels, UndoLabels, RemoveLabels, DestroyLabels, diskVars, dbVars,
    historyVars

LEMMA StepWhole == ASSUME SessionTypeOK, Named, Owned, Whole, [SessionNext]_lifecycleVars PROVE Whole'
<1>1. CASE UNCHANGED lifecycleVars
  BY <1>1 DEF lifecycleVars, Owned, Whole, HasWorktree, HasSandbox, diskVars, sandboxVars, dbVars,
      memoryVars, historyVars
<1>2. QED BY <1>1, CreateWhole, RemoveWhole, DestroyWhole, RestartWhole DEF SessionNext

-----------------------------------------------------------------------------
\* A clean-up leaves what it still has to remove.

LEMMA CreateUndone ==
  ASSUME SessionTypeOK, Named, Owned, Undone,
         NEW s \in Sessions, CreateStep(s)
  PROVE  Undone'
<1> USE NamesAssumption
    DEF SessionTypeOK, Named, Owned, Undone, Procs, diskVars, sandboxVars, dbVars,
        memoryVars, historyVars, Goto
<1>1. ASSUME NEW p \in Sessions \cup {None}, NEW worktree \in BOOLEAN,
             BeginCreate(s, p, worktree)
      PROVE  Undone'
  BY <1>1 DEF BeginCreate
<1>2. CASE AddWorktree(s) BY <1>2 DEF AddWorktree
<1>3. CASE CreateSandbox(s) BY <1>3 DEF CreateSandbox, SandboxBuilt, SandboxHalfBuilt
<1>4. CASE Insert(s) BY <1>4 DEF Insert
<1>5. CASE StartBilling(s) BY <1>5 DEF StartBilling
<1>6. QED BY <1>1, <1>2, <1>3, <1>4, <1>5 DEF CreateStep

LEMMA RemoveUndone ==
  ASSUME SessionTypeOK, Named, Owned, Undone,
         NEW x \in Procs, RemoveStep(x)
  PROVE  Undone'
<1> USE NamesAssumption
    DEF SessionTypeOK, Named, Owned, Undone, Procs, diskVars, sandboxVars, dbVars,
        memoryVars, historyVars, Goto, Subject, AfterWorktree, AfterSandbox,
        UndoLabels, NotCleaned
<1>1. CASE RemoveWorktree(x) BY <1>1 DEF RemoveWorktree
<1>2. CASE RemoveBranch(x) BY <1>2 DEF RemoveBranch
<1>3. CASE FindSandbox(x) BY <1>3 DEF FindSandbox
<1>4. CASE RemoveContainer(x) BY <1>4 DEF RemoveContainer
<1>5. CASE RemoveVolume(x) BY <1>5 DEF RemoveVolume
<1>6. CASE SandboxFails(x) BY <1>6 DEF SandboxFails
<1>7. QED BY <1>1, <1>2, <1>3, <1>4, <1>5, <1>6 DEF RemoveStep

LEMMA DestroyUndone ==
  ASSUME SessionTypeOK, Named, Owned, Undone,
         NEW d \in Destroys, DestructionStep(d)
  PROVE  Undone'
<1> USE NamesAssumption
    DEF SessionTypeOK, Named, Owned, Undone, Procs, diskVars, sandboxVars, dbVars,
        memoryVars, historyVars, Goto
<1>1. ASSUME NEW s \in Sessions, BeginDestroy(d, s) PROVE Undone'
  BY <1>1 DEF BeginDestroy
<1>2. CASE Evict(d) BY <1>2 DEF Evict
<1>3. CASE DeleteRow(d) BY <1>3 DEF DeleteRow
<1>4. CASE Clear(d) BY <1>4 DEF Clear
<1>5. QED BY <1>1, <1>2, <1>3, <1>4 DEF DestructionStep

LEMMA RestartUndone == ASSUME SessionTypeOK, Named, Owned, Undone, RestartDaemon PROVE Undone'
BY NamesAssumption
DEF RestartDaemon, SessionTypeOK, Named, Owned, Undone, Procs, Waiting, CreateLabels,
    UndoLabels, RemoveLabels, DestroyLabels, diskVars, dbVars, historyVars

LEMMA StepUndone == ASSUME SessionTypeOK, Named, Owned, Undone, [SessionNext]_lifecycleVars PROVE Undone'
<1>1. CASE UNCHANGED lifecycleVars
  BY <1>1 DEF lifecycleVars, Owned, Undone, diskVars, sandboxVars, dbVars, memoryVars, historyVars
<1>2. QED BY <1>1, CreateUndone, RemoveUndone, DestroyUndone, RestartUndone DEF SessionNext

-----------------------------------------------------------------------------
\* The inductive invariant.
SessionInv == SessionTypeOK /\ Named /\ Owned /\ Gone /\ LiveHasRow /\ Whole /\ Undone

LEMMA InitSessionInv == SessionInit => SessionInv
<1> SUFFICES ASSUME SessionInit PROVE SessionInv OBVIOUS
<1>1. SessionTypeOK /\ Named BY SessionInitTyped
<1>2. Owned /\ Gone /\ LiveHasRow /\ Undone
  BY NamesAssumption DEF SessionInit, Owned, Gone, SandboxGone, LiveHasRow, Undone, Procs
<1>3. Whole BY NamesAssumption DEF SessionInit, Whole, Procs
<1>4. QED BY <1>1, <1>2, <1>3 DEF SessionInv

LEMMA NextSessionInv == SessionInv /\ [SessionNext]_lifecycleVars => SessionInv'
BY SessionStepTyped, StepOwned, StepGone, StepLive, StepWhole, StepUndone DEF SessionInv

\* Where a session's row, live entry, worktree and sandbox are, and whose it is to
\* remove them, at every point of creations, destructions and restarts.
THEOREM SessionInvHolds == SessionSpec => []SessionInv
BY InitSessionInv, NextSessionInv, PTL DEF SessionSpec

\* A live session has a row, but for the moment its last destruction takes.
THEOREM LiveSessionsHaveRows == SessionSpec => []LiveHasRow
<1>1. SessionInv => LiveHasRow BY DEF SessionInv
<1>2. QED BY <1>1, SessionInvHolds, PTL

\* A session nobody began to destroy has its sandbox and its worktree.
THEOREM RowsAreIntact == SessionSpec => []RowIntact
<1>1. SessionInv => RowIntact
  BY DEF SessionInv, Whole, HasWorktree, HasSandbox, RowIntact
<1>2. QED BY <1>1, SessionInvHolds, PTL

\* The row of a session outlives its container and its volume; with the cloud
\* manager, until the daemon restarts.
THEOREM RowsOutliveSandboxes == SessionSpec => []RowOutlivesSandbox
<1>1. SessionInv => RowOutlivesSandbox BY DEF SessionInv, Gone, RowOutlivesSandbox
<1>2. QED BY <1>1, SessionInvHolds, PTL

\* A creation that failed left nothing, unless a clean-up call failed itself.
THEOREM RollbacksAreComplete == SessionSpec => []RollbackComplete
<1>1. SessionInv => RollbackComplete
  BY DEF SessionInv, SessionTypeOK, Owned, Undone, RollbackComplete
<1>2. QED BY <1>1, SessionInvHolds, PTL
=============================================================================
