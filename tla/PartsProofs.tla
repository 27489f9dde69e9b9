---------------------------- MODULE PartsProofs -----------------------------
(***************************************************************************)
(* Theorems about the parts: the file snapshots, the programs around a        *)
(* daemon, the hooks and the tool servers, the workspaces, the listings and   *)
(* the commands of a sandbox.                                                 *)
(***************************************************************************)
EXTENDS Parts, SequenceTheorems, FiniteSetTheorems, TLAPS

-----------------------------------------------------------------------------
(* Snapshots. *)

\* The keys of the rows, and the texts by key.
Keyed(f) == /\ DOMAIN f \in SUBSET ((0..MaxTurns) \X Paths)
            /\ \A k \in DOMAIN f : f[k] \in Texts
ByPath(f) == /\ DOMAIN f \in SUBSET Paths
             /\ \A p \in DOMAIN f : f[p] \in Texts

SnapshotsTyped ==
  /\ SnapshotsTypeOK
  /\ Keyed(snapshots) /\ Keyed(read)
  /\ ByPath(saving.found) /\ ByPath(saving.existing)
  /\ saving = [step |-> saving.step, turn |-> saving.turn, todo |-> saving.todo,
               found |-> saving.found, existing |-> saving.existing]
  /\ saving.todo \in SUBSET Paths /\ saving.turn \in 0..MaxTurns
  /\ restoring = [step |-> restoring.step, turn |-> restoring.turn, todo |-> restoring.todo,
                  expected |-> restoring.expected, alone |-> restoring.alone]
  /\ ByPath(restoring.todo) /\ ByPath(restoring.expected) /\ restoring.alone \in BOOLEAN

\* A row holds what the last save of its turn read; while a save stores, what it
\* found in the rows is what they hold, where they have not been evicted.
RowsRead ==
  /\ \A k \in DOMAIN snapshots : k \in DOMAIN read /\ snapshots[k] = read[k]
  /\ saving.step = "storing" =>
       /\ saving.todo \subseteq DOMAIN saving.found
       /\ \A p \in saving.todo : p \in DOMAIN saving.existing /\ <<saving.turn, p>> \in DOMAIN snapshots =>
            saving.existing[p] = snapshots[<<saving.turn, p>>]

\* What a restore has yet to write is what was read, and so is what it has written
\* if nothing wrote beside it.
Restored ==
  /\ \A p \in DOMAIN restoring.todo :
       p \in DOMAIN restoring.expected /\ restoring.todo[p] = restoring.expected[p]
  /\ restoring.step # "none" /\ restoring.alone =>
       \A p \in DOMAIN restoring.expected \ DOMAIN restoring.todo : files[p] = restoring.expected[p]
  /\ restoring.step = "done" => DOMAIN restoring.todo = {}

\* A finite set of integers that is not empty has a largest element.
LEMMA HasMax ==
  ASSUME NEW S \in SUBSET Int, IsFiniteSet(S), S # {}
  PROVE  Max(S) \in S /\ \A y \in S : Max(S) >= y
<1> DEFINE HasLargest(T) == \E x \in T : \A y \in T : x >= y
           Bad == {T \in FiniteSubsetsOf(Int) : T # {} /\ ~HasLargest(T)}
<1>1. ASSUME Bad # {} PROVE FALSE
  <2>1. IsWellFoundedOn(StrictSubsetOrdering(Int), FiniteSubsetsOf(Int))
    BY FS_StrictSubsetOrderingWellFounded
  <2>2. PICK T \in Bad : \A U \in Bad : <<U, T>> \notin StrictSubsetOrdering(Int)
    <3> HIDE DEF Bad
    <3>1. Bad \subseteq FiniteSubsetsOf(Int) BY DEF Bad
    <3>2. QED BY <1>1, <2>1, <3>1, WFMin
  <2>3. T \in SUBSET Int /\ IsFiniteSet(T) /\ T # {} BY DEF FiniteSubsetsOf
  <2>4. PICK x \in T : TRUE BY <2>3
  <2> DEFINE U == T \ {x}
  <2>5. U \in SUBSET Int /\ IsFiniteSet(U) BY <2>3, FS_RemoveElement
  <2>6. <<U, T>> \in StrictSubsetOrdering(Int) BY <2>3, <2>4, <2>5 DEF StrictSubsetOrdering
  <2>7. U = {} \/ HasLargest(U) BY <2>2, <2>5, <2>6 DEF FiniteSubsetsOf
  <2>8. HasLargest(T) BY <2>3, <2>4, <2>7
  <2>9. QED BY <2>8
<1>2. HasLargest(S) BY <1>1 DEF FiniteSubsetsOf
<1>3. QED BY <1>2 DEF Max

\* The latest turn of the rows is one that a save may have numbered.
LEMMA LatestTurn ==
  ASSUME SnapshotsTyped
  PROVE  MaxTurn \in -1..MaxTurns
<1> DEFINE S == listTurns \cup {0 - 1}
<1>1. MaxTurns \in Nat BY SnapshotBounds
<1>2. S \in SUBSET (-1..MaxTurns)
  <2>1. \A k \in DOMAIN snapshots : k[1] \in 0..MaxTurns BY DEF SnapshotsTyped, Keyed
  <2>2. QED BY <1>1, <2>1 DEF listTurns
<1>3. IsFiniteSet(S)
  <2>1. IsFiniteSet(-1..MaxTurns) BY <1>1, FS_Interval
  <2> HIDE DEF S
  <2>2. QED BY <1>2, <2>1, FS_Subset
<1> HIDE DEF S
<1>4. Max(S) \in S
  <2>1. S # {} BY DEF S
  <2>2. S \in SUBSET Int BY <1>1, <1>2
  <2>3. QED BY <1>3, <2>1, <2>2, HasMax
<1>5. QED BY <1>2, <1>4 DEF MaxTurn, S

\* The rows of a turn are texts by path.
LEMMA RowsByPath ==
  ASSUME SnapshotsTyped, NEW t
  PROVE  /\ ByPath(RestoreRows(t))
         /\ \A p \in DOMAIN RestoreRows(t) :
              <<t, p>> \in DOMAIN snapshots /\ RestoreRows(t)[p] = snapshots[<<t, p>>]
         /\ \A p \in Paths : <<t, p>> \in DOMAIN snapshots => p \in DOMAIN RestoreRows(t)
<1> DEFINE saved == {key[2] : key \in {k \in DOMAIN snapshots : k[1] = t}}
<1>1. RestoreRows(t) = [p \in saved |-> snapshots[<<t, p>>]] BY DEF RestoreRows
<1>2. \A k \in DOMAIN snapshots : k = <<k[1], k[2]>> /\ k[2] \in Paths BY DEF SnapshotsTyped, Keyed
<1>3. \A p \in saved : p \in Paths /\ <<t, p>> \in DOMAIN snapshots BY <1>2
<1>4. \A p \in Paths : <<t, p>> \in DOMAIN snapshots => p \in saved
  <2>1. \A p : <<t, p>>[1] = t /\ <<t, p>>[2] = p OBVIOUS
  <2>2. QED BY <2>1
<1> HIDE DEF saved
<1>5. \A k \in DOMAIN snapshots : snapshots[k] \in Texts BY DEF SnapshotsTyped, Keyed
<1>6. QED BY <1>1, <1>3, <1>4, <1>5 DEF ByPath

\* What the sandbox, the rows and the two calls at work may become, one at a time.
LEMMA SnapshotFrame ==
  ASSUME SnapshotsTyped, NEW p \in Paths, NEW v \in Texts
  PROVE  /\ \A f : ByPath(f) => ByPath(With(f, p, v))
         /\ \A f : \A t \in 0..MaxTurns : Keyed(f) => Keyed(With(f, <<t, p>>, v))
BY DEF ByPath, Keyed, With

LEMMA NothingAtWork ==
  /\ ByPath(<<>>) /\ Keyed(<<>>)
  /\ NoSave.found = <<>> /\ NoSave.existing = <<>> /\ NoSave.todo = {} /\ NoSave.step = "none"
  /\ NoSave.turn = 0 /\ NoRestore.turn = 0 /\ NoRestore.alone = FALSE
  /\ NoRestore.todo = <<>> /\ NoRestore.expected = <<>> /\ NoRestore.step = "none"
<1>1. DOMAIN <<>> = {} OBVIOUS
<1>2. ByPath(<<>>) /\ Keyed(<<>>) BY <1>1 DEF ByPath, Keyed
<1>3. QED BY <1>2 DEF NoSave, NoRestore

LEMMA SnapshotsAtRest == SnapshotsRest \/ SnapshotsInit => SnapshotsTyped /\ RowsRead /\ Restored
<1> SUFFICES ASSUME SnapshotsRest \/ SnapshotsInit PROVE SnapshotsTyped /\ RowsRead /\ Restored
  OBVIOUS
<1>1. /\ snapshots = <<>> /\ read = <<>> /\ turn = 0 /\ writes = 0 /\ restarts = 0
      /\ saving = NoSave /\ restoring = NoRestore /\ evicting = NotEvicting
  BY DEF SnapshotsRest, SnapshotsInit
<1>2. files \in [Paths -> Contents]
  BY SnapshotBounds DEF SnapshotsRest, SnapshotsInit, Contents
<1>3. MaxTurns \in Nat /\ KeepTurns \in Nat /\ MaxWrites \in Nat /\ MaxRestarts \in Nat
  BY SnapshotBounds
<1>4. SnapshotsTypeOK
  <2>1. DOMAIN snapshots = {} BY <1>1
  <2>2. Range(snapshots) = {} BY <2>1 DEF Range
  <2>3. saving.step = "none" /\ restoring.step = "none" BY <1>1, NothingAtWork
  <2>4. evicting \in NotEvicting..MaxTurns BY <1>1, <1>3 DEF NotEvicting
  <2>5. QED BY <1>1, <1>2, <1>3, <2>1, <2>2, <2>3, <2>4 DEF SnapshotsTypeOK
<1>5. SnapshotsTyped
  <2>2. saving = [step |-> saving.step, turn |-> saving.turn, todo |-> saving.todo,
               found |-> saving.found, existing |-> saving.existing]
    BY <1>1 DEF NoSave
  <2>3. restoring = [step |-> restoring.step, turn |-> restoring.turn, todo |-> restoring.todo,
                  expected |-> restoring.expected, alone |-> restoring.alone]
    BY <1>1 DEF NoRestore
  <2>4. /\ ByPath(saving.found) /\ ByPath(saving.existing) /\ saving.todo = {} /\ saving.turn = 0
        /\ ByPath(restoring.todo) /\ ByPath(restoring.expected) /\ restoring.alone \in BOOLEAN
    BY <1>1, NothingAtWork
  <2>5. Keyed(snapshots) /\ Keyed(read) BY <1>1, NothingAtWork
  <2>6. QED BY <1>3, <1>4, <2>2, <2>3, <2>4, <2>5 DEF SnapshotsTyped
<1>6. RowsRead
  <2>1. DOMAIN snapshots = {} BY <1>1
  <2>2. QED BY <1>1, <2>1, NothingAtWork DEF RowsRead
<1>7. Restored
  <2>1. DOMAIN restoring.todo = {} BY <1>1, NothingAtWork
  <2>2. QED BY <1>1, <2>1, NothingAtWork DEF Restored
<1>8. QED BY <1>5, <1>6, <1>7

LEMMA SnapshotsStep ==
  ASSUME SnapshotsTyped, RowsRead, Restored, SnapshotsNext
  PROVE  SnapshotsTyped' /\ RowsRead' /\ Restored'
<1> USE SnapshotBounds, NothingAtWork
<1>1. ASSUME NEW p \in Paths, NEW content \in Contents, WriteFile(p, content)
      PROVE  SnapshotsTyped' /\ RowsRead' /\ Restored'
  <2> DEFINE r == restoring
  <2>0. restoring' = [step |-> r.step, turn |-> r.turn, todo |-> r.todo, expected |-> r.expected,
                      alone |-> FALSE]
    BY <1>1 DEF WriteFile, SnapshotsTyped
  <2>4. files' \in [Paths -> Contents] /\ writes' \in 0..MaxWrites
    BY <1>1 DEF WriteFile, SnapshotsTyped, SnapshotsTypeOK
  <2>5. UNCHANGED <<answers, snapshots, turn, saving, evicting, restarts, read>>
    BY <1>1 DEF WriteFile
  <2>1. SnapshotsTyped' BY <2>0, <2>4, <2>5 DEF SnapshotsTyped, SnapshotsTypeOK
  <2>2. Restored' BY <1>1 DEF WriteFile, SnapshotsTyped, Restored
  <2>3. QED BY <1>1, <2>1, <2>2 DEF WriteFile, RowsRead
<1>2. ASSUME NEW paths \in SUBSET (Paths \cup {Outside}), BeginSave(paths)
      PROVE  SnapshotsTyped' /\ RowsRead' /\ Restored'
  <2>1. saving' = [step |-> "reading", turn |-> turn, todo |-> paths \cap Paths, found |-> <<>>,
                   existing |-> <<>>]
    BY <1>2 DEF BeginSave, NoSave
  <2>4. turn' \in 0..MaxTurns /\ turn \in 0..MaxTurns
    BY <1>2 DEF BeginSave, SnapshotsTyped, SnapshotsTypeOK
  <2>5. UNCHANGED <<answers, files, restoring, evicting, writes, restarts, snapshots, read>>
    BY <1>2 DEF BeginSave, Saver
  <2>2. SnapshotsTyped' BY <2>1, <2>4, <2>5 DEF SnapshotsTyped, SnapshotsTypeOK
  <2>3. QED BY <1>2, <2>1, <2>2 DEF BeginSave, Saver, RowsRead, Restored
<1>3. ASSUME NEW p \in Paths, ReadFile(p)
      PROVE  SnapshotsTyped' /\ RowsRead' /\ Restored'
  <2>1. Stdout(p) = Empty \/ Stdout(p) \in Texts BY DEF Stdout
  <2>2. ByPath(saving'.found)
    BY <1>3, <2>1, SnapshotFrame DEF ReadFile, SnapshotsTyped
  <2>3. QED
    BY <1>3, <2>2 DEF ReadFile, Saver, SnapshotsTyped, SnapshotsTypeOK, RowsRead, Restored
<1>4. ASSUME NEW p \in Paths, StoreFile(p)
      PROVE  SnapshotsTyped' /\ RowsRead' /\ Restored'
  <2> DEFINE key == <<saving.turn, p>>
  <2>1. /\ p \in DOMAIN saving.found /\ saving.found[p] \in Texts /\ saving.turn \in 0..MaxTurns
        /\ saving.step = "storing"
    BY <1>4 DEF StoreFile, RowsRead, SnapshotsTyped, ByPath
  <2>2. Keyed(snapshots') /\ Keyed(read')
    <3>1. \A f : Keyed(f) => Keyed(With(f, key, saving.found[p])) BY <2>1, SnapshotFrame
    <3>2. Keyed(snapshots) /\ Keyed(read) BY DEF SnapshotsTyped
    <3> HIDE DEF key
    <3>3. QED BY <1>4, <3>1, <3>2 DEF StoreFile, key
  <2>3. SnapshotsTyped'
    <3>1. Range(snapshots') \subseteq Texts BY <2>2 DEF Range, Keyed
    <3>2. DOMAIN snapshots' \subseteq (0..MaxTurns) \X Paths BY <2>2 DEF Keyed
    <3>3. QED
      <4>1. saving' = NoSave \/ saving' = [saving EXCEPT !.todo = @ \ {p}]
        BY <1>4 DEF StoreFile
      <4>2. UNCHANGED <<files, restoring, evicting, writes, restarts, turn>>
        BY <1>4 DEF StoreFile, Saver
      <4>3. QED
        BY <2>2, <3>1, <3>2, <4>1, <4>2 DEF NoSave, SnapshotsTyped, SnapshotsTypeOK
  <2>4. \A k \in DOMAIN snapshots' : k \in DOMAIN read' /\ snapshots'[k] = read'[k]
    BY <1>4, <2>1 DEF StoreFile, Unchanged, With, RowsRead
  <2>5. RowsRead'
    BY <1>4, <2>1, <2>4 DEF StoreFile, With, RowsRead, SnapshotsTyped
  <2>6. QED BY <1>4, <2>3, <2>5 DEF StoreFile, Saver, Restored
<1>5. ASSUME NEW p \in Paths, RestoreFile(p)
      PROVE  SnapshotsTyped' /\ RowsRead' /\ Restored'
  <2>1. restoring.todo[p] \in Contents BY <1>5 DEF RestoreFile, SnapshotsTyped, ByPath, Contents
  <2>2. ByPath(restoring'.todo) /\ DOMAIN restoring'.todo = DOMAIN restoring.todo \ {p}
        /\ \A q \in DOMAIN restoring'.todo : restoring'.todo[q] = restoring.todo[q]
    BY <1>5 DEF RestoreFile, Restrict, SnapshotsTyped, ByPath
  <2>3. SnapshotsTyped'
    BY <1>5, <2>1, <2>2 DEF RestoreFile, Restorer, SnapshotsTyped, SnapshotsTypeOK
  <2>4. Restored'
    <3>1. /\ restoring'.expected = restoring.expected /\ restoring'.alone = restoring.alone
          /\ restoring'.step = "writing" /\ restoring.step = "writing"
          /\ files' = [files EXCEPT ![p] = restoring.todo[p]] /\ p \in DOMAIN restoring.todo
      BY <1>5 DEF RestoreFile, SnapshotsTyped
    <3>2. files \in [Paths -> Contents] BY DEF SnapshotsTyped, SnapshotsTypeOK
    <3>3. QED BY <2>2, <3>1, <3>2 DEF Restored
  <2>5. QED BY <1>5, <2>3, <2>4 DEF RestoreFile, Restorer, RowsRead
<1>6. ASSUME ReadExisting
      PROVE  SnapshotsTyped' /\ RowsRead' /\ Restored'
  <2>1. CASE saving.found = <<>>
    BY <1>6, <2>1 DEF ReadExisting, Saver, NoSave, SnapshotsTyped, SnapshotsTypeOK, RowsRead, Restored
  <2>2. CASE saving.found # <<>>
    <3>1. saving' = [saving EXCEPT !.step = "storing", !.todo = DOMAIN saving.found,
                                   !.existing = RestoreRows(saving.turn)]
      BY <1>6, <2>2 DEF ReadExisting
    <3>2. SnapshotsTyped'
      BY <1>6, <3>1, RowsByPath DEF ReadExisting, Saver, SnapshotsTyped, SnapshotsTypeOK, ByPath
    <3>3. RowsRead'
      BY <1>6, <3>1, RowsByPath DEF ReadExisting, Saver, SnapshotsTyped, RowsRead
    <3>4. QED BY <1>6, <3>2, <3>3 DEF ReadExisting, Saver, Restored
  <2>3. QED BY <2>1, <2>2
<1>7. ASSUME SaveFails
      PROVE  SnapshotsTyped' /\ RowsRead' /\ Restored'
  BY <1>7 DEF SaveFails, Saver, NoSave, SnapshotsTyped, SnapshotsTypeOK, RowsRead, Restored
<1>8. ASSUME NEW t \in 0..MaxTurns, BeginRestore(t)
      PROVE  SnapshotsTyped' /\ RowsRead' /\ Restored'
  <2>1. /\ ByPath(restoring'.todo) /\ ByPath(restoring'.expected)
        /\ DOMAIN restoring'.expected = DOMAIN restoring'.todo
        /\ \A p \in DOMAIN restoring'.todo : restoring'.todo[p] = restoring'.expected[p]
    <3>1. \A p \in DOMAIN RestoreRows(t) : RestoreRows(t)[p] = read[<<t, p>>]
      BY RowsByPath DEF RowsRead
    <3>2. QED BY <1>8, <3>1, RowsByPath DEF BeginRestore, ByPath
  <2>2. QED
    BY <1>8, <2>1 DEF BeginRestore, Restorer, SnapshotsTyped, SnapshotsTypeOK, RowsRead, Restored
<1>9. ASSUME EndRestore
      PROVE  SnapshotsTyped' /\ RowsRead' /\ Restored'
  <2>1. CASE restoring' = NoRestore
    BY <1>9, <2>1 DEF EndRestore, Restorer, NoRestore, SnapshotsTyped, SnapshotsTypeOK, RowsRead, Restored
  <2>2. CASE /\ restoring.step = "writing" /\ restoring.todo = <<>>
             /\ restoring' = [restoring EXCEPT !.step = "done"]
    <3>1. DOMAIN restoring.todo = {} BY <2>2
    <3>2. SnapshotsTyped' BY <1>9, <2>2 DEF EndRestore, Restorer, SnapshotsTyped, SnapshotsTypeOK
    <3>3. QED BY <1>9, <2>2, <3>1, <3>2 DEF EndRestore, Restorer, SnapshotsTyped, RowsRead, Restored
  <2>3. QED BY <1>9, <2>1, <2>2 DEF EndRestore
<1>10. ASSUME ReadMax
       PROVE  SnapshotsTyped' /\ RowsRead' /\ Restored'
  <2>1. evicting' \in NotEvicting..MaxTurns
    BY <1>10, LatestTurn DEF ReadMax, NotEvicting
  <2>2. QED BY <1>10, <2>1 DEF ReadMax, SnapshotsTyped, SnapshotsTypeOK, RowsRead, Restored
<1>11. ASSUME DeleteOld
       PROVE  SnapshotsTyped' /\ RowsRead' /\ Restored'
  <2>1. /\ DOMAIN snapshots' \subseteq DOMAIN snapshots
        /\ snapshots' = [k \in DOMAIN snapshots' |-> snapshots[k]]
    BY <1>11 DEF DeleteOld, Restrict
  <2>2. Keyed(snapshots') BY <2>1 DEF SnapshotsTyped, Keyed
  <2>3. Range(snapshots') \subseteq Texts BY <2>2 DEF Range, Keyed
  <2>4. DOMAIN snapshots' \subseteq (0..MaxTurns) \X Paths BY <2>2 DEF Keyed
  <2>5. NotEvicting \in NotEvicting..MaxTurns BY DEF NotEvicting
  <2>6. SnapshotsTyped'
    BY <1>11, <2>2, <2>3, <2>4, <2>5 DEF DeleteOld, SnapshotsTyped, SnapshotsTypeOK
  <2>7. RowsRead' BY <1>11, <2>1 DEF DeleteOld, RowsRead
  <2>8. QED BY <1>11, <2>6, <2>7 DEF DeleteOld, Restored
<1>12. ASSUME Restart
       PROVE  SnapshotsTyped' /\ RowsRead' /\ Restored'
  <2>1. NotEvicting \in NotEvicting..MaxTurns BY DEF NotEvicting
  <2>2. QED
    BY <1>12, <2>1 DEF Restart, NoSave, NoRestore, SnapshotsTyped, SnapshotsTypeOK, RowsRead, Restored
<1>13. QED
  BY <1>1, <1>2, <1>3, <1>4, <1>5, <1>6, <1>7, <1>8, <1>9, <1>10, <1>11, <1>12 DEF SnapshotsNext

\* A restore that nothing wrote beside leaves every file of its turn as the last
\* save of that turn had read it: for any paths, texts, saves, evictions and
\* restarts (SnapshotController.restoreToSandbox).
THEOREM RestoresWhatWasReadHolds == Spec => []RestoresWhatWasRead
<1> DEFINE I == SnapshotsTyped /\ RowsRead /\ Restored
<1>1. Init => I BY SnapshotsAtRest DEF Init, RestBut
<1>2. I /\ [Next]_partsVars => I'
  <2> SUFFICES ASSUME I, [Next]_partsVars PROVE I' OBVIOUS
  <2>1. CASE SnapshotsNext BY <2>1, SnapshotsStep
  <2>2. CASE UNCHANGED snapshotVars
    BY <2>2 DEF snapshotVars, SnapshotsTyped, SnapshotsTypeOK, RowsRead, Restored, Keyed, ByPath
  <2>3. QED BY <2>1, <2>2 DEF Next, StillBut, partsVars
<1>3. I => RestoresWhatWasRead BY DEF SnapshotsTyped, Restored, RestoresWhatWasRead
<1> HIDE DEF I
<1>4. QED BY <1>1, <1>2, <1>3, PTL DEF Spec

-----------------------------------------------------------------------------
(* Daemons. *)

DaemonLabels == {"none", "gone"} \cup Alive
HasBeenUp == {"written", "up", "gone"} \cup Ending
StopLabels == {"idle", "notRunning", "read", "signalled", "missed", "stopped"}

\* The pid file and the pid a stop has read are of daemons that came to write it.
DaemonsTyped ==
  /\ daemonStep \in [Pids -> DaemonLabels]
  /\ {socketPath, tcpPort, pidFile} \subseteq Pids \cup {NoPid}
  /\ stopStep \in [Stops -> [step : StopLabels, pid : Pids \cup {NoPid}]]
  /\ pidFile # NoPid => daemonStep[pidFile] \in HasBeenUp
  /\ \A s \in Stops : stopStep[s].step \notin {"idle", "notRunning"} =>
       stopStep[s].pid # NoPid /\ daemonStep[stopStep[s].pid] \in HasBeenUp

\* Who listens holds the port; what was signalled is ending, what was missed gone.
PortHeld == \A d \in Pids : daemonStep[d] \in Serving \cup {"socketClosed"} => tcpPort = d
Signalled == \A s \in Stops :
  stopStep[s].step \in {"signalled", "missed", "stopped"} =>
    daemonStep[stopStep[s].pid] \in Ending \cup {"gone"}

\* Daemons that never met are alive one at a time.
OneAlive == ~met => \A d, e \in AliveNow : d = e

DaemonsInv == DaemonsTyped /\ PortHeld /\ Signalled /\ OneAlive /\ Findable

\* What one step of daemon d may do to its files and its port.
LEMMA DaemonFrame ==
  ASSUME DaemonsInv, NEW d \in Pids, NEW step \in DaemonLabels \ {"none", "spawned"},
         To(d, step), UNCHANGED <<stopStep, met>>, daemonStep[d] \in Alive,
         {socketPath', tcpPort', pidFile'} \subseteq Pids \cup {NoPid},
         pidFile' \in {pidFile, NoPid} \/ (pidFile' = d /\ step \in HasBeenUp),
         daemonStep[d] \in HasBeenUp => step \in HasBeenUp,
         daemonStep[d] \in Ending => step \in Ending \cup {"gone"},
         step \in Serving \cup {"socketClosed"} => tcpPort' = d,
         \A e \in Pids : e # d /\ tcpPort = e => tcpPort' = e,
         ~met /\ step \in Serving => socketPath' = d,
         ~met /\ step \in {"written", "up"} /\ ~wiped' => pidFile' = d
  PROVE  DaemonsInv'
<1> USE DaemonsAssumption
<1>1. /\ daemonStep' = [daemonStep EXCEPT ![d] = step]
      /\ daemonStep' \in [Pids -> DaemonLabels]
  BY DEF To, DaemonsInv, DaemonsTyped
<1>2. DaemonsTyped'
  BY <1>1 DEF DaemonsInv, DaemonsTyped
<1>3. PortHeld' BY <1>1 DEF DaemonsInv, PortHeld
<1>4. Signalled'
  <2>1. \A s \in Stops : stopStep[s].pid \in Pids \cup {NoPid} BY DEF DaemonsInv, DaemonsTyped
  <2>2. SUFFICES ASSUME NEW s \in Stops, stopStep[s].step \in {"signalled", "missed", "stopped"}
                 PROVE  daemonStep'[stopStep[s].pid] \in Ending \cup {"gone"}
    BY DEF Signalled
  <2>3. daemonStep[stopStep[s].pid] \in Ending \cup {"gone"} BY <2>2 DEF DaemonsInv, Signalled
  <2>4. stopStep[s].pid \in Pids BY <2>1, <2>2 DEF DaemonsInv, DaemonsTyped
  <2>5. QED BY <1>1, <2>3, <2>4 DEF DaemonsInv, DaemonsTyped, Alive, Starting, Ending
<1>5. AliveNow' \subseteq AliveNow BY <1>1 DEF AliveNow
<1>6. OneAlive' BY <1>5 DEF DaemonsInv, OneAlive
<1>7. Findable'
  <2>1. SUFFICES ASSUME ~met, NEW e \in Pids, daemonStep'[e] \in Serving PROVE
      /\ socketPath' = e
      /\ daemonStep'[e] \in {"written", "up"} /\ ~wiped' => pidFile' = e
    BY DEF Findable, Serving
  <2>2. e \in AliveNow' BY <2>1 DEF AliveNow, Serving, Alive, Starting, Ending
  <2>3. d \in AliveNow BY DEF AliveNow
  <2>4. e = d BY <1>5, <2>1, <2>2, <2>3 DEF DaemonsInv, OneAlive
  <2>5. QED BY <1>1, <2>1, <2>4 DEF DaemonsInv, DaemonsTyped
<1>8. QED BY <1>2, <1>3, <1>4, <1>6, <1>7 DEF DaemonsInv

\* A daemon that ends at once, by itself or by a signal.
LEMMA DeathKeeps ==
  ASSUME DaemonsInv, NEW d \in Pids, Dies(d), daemonStep[d] \in Alive,
         UNCHANGED <<looker, stopStep, met, wiped>>
  PROVE  DaemonsInv'
<1>1. /\ To(d, "gone") /\ UNCHANGED <<socketPath, pidFile>>
      /\ tcpPort' = IF tcpPort = d THEN NoPid ELSE tcpPort
  BY DEF Dies
<1>2. "gone" \in DaemonLabels \ {"none", "spawned"} /\ "gone" \in HasBeenUp
      /\ "gone" \notin Serving \cup {"socketClosed", "written", "up"}
  BY DEF DaemonLabels, HasBeenUp, Serving
<1>3. {socketPath', tcpPort', pidFile'} \subseteq Pids \cup {NoPid}
  BY <1>1 DEF DaemonsInv, DaemonsTyped
<1>4. QED BY <1>1, <1>2, <1>3, DaemonFrame

LEMMA DaemonKeeps ==
  ASSUME DaemonsInv, NEW d \in Pids,
         \/ Faults(d) \/ RemoveStale(d) \/ Bind(d) \/ WritePid(d) \/ HandleSignals(d)
         \/ Reject(d) \/ CloseSocket(d) \/ ClosePort(d) \/ RemoveSocket(d) \/ RemovePid(d)
  PROVE  DaemonsInv'
<1> USE DaemonsAssumption
    DEF Programs, DaemonLabels, HasBeenUp, Serving, Alive, Starting, Ending
<1>0. {socketPath, tcpPort, pidFile} \subseteq Pids \cup {NoPid} BY DEF DaemonsInv, DaemonsTyped
<1>p. \A e \in Pids : daemonStep[e] \in Serving \cup {"socketClosed"} => tcpPort = e
  BY DEF DaemonsInv, PortHeld
<1>q. ~met /\ daemonStep[d] \in Alive => \A e \in Pids : daemonStep[e] \in Alive => e = d
  BY DEF DaemonsInv, OneAlive, AliveNow
<1>r. ~met => /\ daemonStep[d] \in Serving => socketPath = d
              /\ daemonStep[d] \in {"written", "up"} /\ ~wiped => pidFile = d
  BY DEF DaemonsInv, Findable
<1>1. CASE Faults(d) BY <1>1, DeathKeeps DEF Faults
<1>2. CASE RemoveStale(d) BY <1>0, <1>2, DaemonFrame DEF RemoveStale
<1>3. CASE Bind(d) /\ To(d, "bound")
  BY <1>0, <1>3, DaemonFrame DEF Bind
<1>4. CASE Bind(d) /\ To(d, "gone")
  BY <1>0, <1>4, DaemonFrame DEF Bind
<1>5. CASE WritePid(d) BY <1>0, <1>p, <1>r, <1>5, DaemonFrame DEF WritePid
<1>6. CASE HandleSignals(d) BY <1>0, <1>p, <1>r, <1>6, DaemonFrame DEF HandleSignals
<1>7. CASE Reject(d) BY <1>0, <1>p, <1>r, <1>7, DaemonFrame DEF Reject
<1>8. CASE CloseSocket(d) BY <1>0, <1>p, <1>r, <1>8, DaemonFrame DEF CloseSocket
<1>9. CASE ClosePort(d) BY <1>0, <1>p, <1>9, DaemonFrame DEF ClosePort
<1>10. CASE RemoveSocket(d) BY <1>0, <1>10, DaemonFrame DEF RemoveSocket
<1>11. CASE RemovePid(d) BY <1>0, <1>11, DaemonFrame DEF RemovePid
<1>12. QED
  BY <1>1, <1>2, <1>3, <1>4, <1>5, <1>6, <1>7, <1>8, <1>9, <1>10, <1>11 DEF Bind

\* A set of naturals that is not empty has a smallest element.
LEMMA HasMin ==
  ASSUME NEW S \in SUBSET Nat, S # {}
  PROVE  Min(S) \in S /\ \A y \in S : Min(S) <= y
<1>1. PICK x \in S : TRUE OBVIOUS
<1> DEFINE D == {z \in -x..0 : -z \in S}
<1>2. D \in SUBSET Int /\ IsFiniteSet(D)
  <2>1. IsFiniteSet(-x..0) BY FS_Interval
  <2>2. QED BY <2>1, FS_Subset
<1>3. D # {}
  <2>1. -x \in D OBVIOUS
  <2>2. QED BY <2>1
<1>4. Max(D) \in D /\ \A y \in D : Max(D) >= y
  <2> HIDE DEF D
  <2>1. QED BY <1>2, <1>3, HasMax
<1>5. PICK z \in D : \A y \in D : z >= y BY <1>4
<1>6. -z \in S /\ \A y \in S : -z <= y
  <2>1. -z \in S /\ z \in -x..0 BY <1>5
  <2>2. ASSUME NEW y \in S, y < -z PROVE FALSE
    <3>1. -y \in D BY <2>1, <2>2
    <3>2. z >= -y BY <1>5, <3>1
    <3>3. QED BY <2>1, <2>2, <3>2
  <2>3. QED BY <2>1, <2>2
<1>7. QED BY <1>6 DEF Min

\* A daemon is started: it is the only one alive, or daemons have met.
LEMMA SpawnKeeps ==
  ASSUME DaemonsInv, Spawn
  PROVE  DaemonsInv'
<1> USE DaemonsAssumption
<1> DEFINE unused == {d \in Pids : daemonStep[d] = "none"}
           d == Min(unused)
<1>1. d \in Pids /\ daemonStep[d] = "none"
  <2>1. unused \in SUBSET Nat /\ unused # {} BY DEF Spawn
  <2> HIDE DEF unused
  <2>2. d \in unused BY <2>1, HasMin
  <2>3. QED BY <2>2 DEF unused
<1>2. /\ daemonStep' = [daemonStep EXCEPT ![d] = "spawned"]
      /\ UNCHANGED <<socketPath, tcpPort, pidFile, stopStep, wiped>>
      /\ met' = (met \/ AliveNow # {})
  BY DEF Spawn, To
<1> HIDE DEF d
<1>3. daemonStep' \in [Pids -> DaemonLabels]
  BY <1>1, <1>2 DEF DaemonsInv, DaemonsTyped, DaemonLabels, Alive, Starting
<1>4. \A e \in Pids : e # d => daemonStep'[e] = daemonStep[e]
  BY <1>2 DEF DaemonsInv, DaemonsTyped
<1>5. daemonStep'[d] = "spawned" BY <1>1, <1>2 DEF DaemonsInv, DaemonsTyped
<1>6. /\ "none" \notin HasBeenUp /\ "spawned" \notin Serving \cup {"socketClosed"}
      /\ "none" \notin Ending \cup {"gone"}
  BY DEF HasBeenUp, Serving, Ending
<1>7. DaemonsTyped'
  <2>1. pidFile # NoPid => pidFile # d BY <1>1, <1>6 DEF DaemonsInv, DaemonsTyped
  <2>2. \A s \in Stops : stopStep[s].step \notin {"idle", "notRunning"} => stopStep[s].pid # d
    BY <1>1, <1>6 DEF DaemonsInv, DaemonsTyped
  <2>3. \A s \in Stops : stopStep[s].pid \in Pids \cup {NoPid} BY DEF DaemonsInv, DaemonsTyped
  <2>4. QED BY <1>2, <1>3, <1>4, <2>1, <2>2, <2>3 DEF DaemonsInv, DaemonsTyped
<1>8. PortHeld' BY <1>2, <1>4, <1>5, <1>6 DEF DaemonsInv, PortHeld
<1>9. Signalled'
  <2>1. \A s \in Stops : stopStep[s].pid \in Pids \cup {NoPid} BY DEF DaemonsInv, DaemonsTyped
  <2>2. \A s \in Stops : stopStep[s].step \in {"signalled", "missed", "stopped"} =>
          stopStep[s].pid # d /\ stopStep[s].pid # NoPid
    BY <1>1, <1>6 DEF DaemonsInv, DaemonsTyped, Signalled
  <2>3. QED BY <1>2, <1>4, <2>1, <2>2 DEF DaemonsInv, Signalled
<1>10. AliveNow' \subseteq AliveNow \cup {d} BY <1>4 DEF AliveNow
<1>11. OneAlive' BY <1>2, <1>10 DEF OneAlive
<1>12. Findable'
  <2>1. SUFFICES ASSUME ~met', NEW e \in Pids, daemonStep'[e] \in Serving
                 PROVE  FALSE
    BY DEF Findable, Serving
  <2>2. e # d BY <1>5, <1>6, <2>1
  <2>3. e \in AliveNow
    BY <1>4, <2>1, <2>2 DEF AliveNow, Serving, Alive, Starting, Ending
  <2>4. QED BY <1>2, <2>1, <2>3
<1>13. QED BY <1>7, <1>8, <1>9, <1>11, <1>12 DEF DaemonsInv

\* iq daemon stop.
LEMMA StopKeeps ==
  ASSUME DaemonsInv, NEW s \in Stops, ReadPid(s) \/ Signal(s) \/ RemovePidFile(s)
  PROVE  DaemonsInv'
<1> USE DaemonsAssumption
<1>1. CASE ReadPid(s)
  <2>1. DaemonsTyped' BY <1>1 DEF ReadPid, DaemonsInv, DaemonsTyped, StopLabels
  <2>2. Signalled' BY <1>1 DEF ReadPid, DaemonsInv, DaemonsTyped, Signalled
  <2>3. QED
    BY <1>1, <2>1, <2>2 DEF ReadPid, DaemonsInv, PortHeld, OneAlive, AliveNow, Findable
<1>2. CASE Signal(s)
  <2> DEFINE d == stopStep[s].pid
             word == IF daemonStep[d] \in Alive THEN "signalled" ELSE "missed"
  <2>1. d \in Pids /\ daemonStep[d] \in HasBeenUp
    BY <1>2 DEF Signal, DaemonsInv, DaemonsTyped
  <2>2. /\ stopStep' = [stopStep EXCEPT ![s].step = word]
        /\ UNCHANGED <<looker, met, wiped>>
    BY <1>2 DEF Signal
  <2>3. \/ daemonStep[d] \in Starting \cup Ending /\ Dies(d)
        \/ /\ daemonStep[d] = "up" /\ To(d, "stopping")
           /\ UNCHANGED <<socketPath, tcpPort, pidFile>>
        \/ /\ daemonStep[d] \in Ending \cup {"gone"}
           /\ UNCHANGED <<daemonStep, socketPath, tcpPort, pidFile>>
    BY <1>2 DEF Signal
  <2> HIDE DEF d, word
  <2>4. /\ daemonStep'[d] \in Ending \cup {"gone"}
        /\ \A e \in Pids : e # d => daemonStep'[e] = daemonStep[e]
        /\ daemonStep' \in [Pids -> DaemonLabels]
    BY <2>1, <2>3 DEF Dies, To, DaemonsInv, DaemonsTyped, DaemonLabels, Alive, Ending
  <2>5. /\ tcpPort' \in Pids \cup {NoPid} /\ UNCHANGED <<socketPath, pidFile>>
        /\ \A e \in Pids : e # d /\ tcpPort = e => tcpPort' = e
        /\ daemonStep'[d] \in Serving \cup {"socketClosed"} => tcpPort' = d
        /\ daemonStep'[d] \in Alive => daemonStep[d] \in Alive
        /\ daemonStep'[d] \in Serving => daemonStep[d] \in Serving
    BY <2>1, <2>3 DEF Dies, To, DaemonsInv, DaemonsTyped, PortHeld, Serving, Alive, Starting, Ending
  <2>6. /\ \A r \in Stops : stopStep'[r].pid = stopStep[r].pid
        /\ \A r \in Stops : r # s => stopStep'[r] = stopStep[r]
        /\ stopStep'[s].step \in {"signalled", "missed"}
        /\ stopStep' \in [Stops -> [step : StopLabels, pid : Pids \cup {NoPid}]]
    BY <2>2 DEF word, DaemonsInv, DaemonsTyped, StopLabels
  <2>7. Ending \cup {"gone"} \subseteq HasBeenUp BY DEF HasBeenUp
  <2>8. DaemonsTyped'
    <3>1. pidFile' # NoPid => daemonStep'[pidFile'] \in HasBeenUp
      BY <2>4, <2>5, <2>7 DEF DaemonsInv, DaemonsTyped
    <3>2. \A r \in Stops : stopStep[r].pid \in Pids \cup {NoPid} BY DEF DaemonsInv, DaemonsTyped
    <3>3. \A r \in Stops : stopStep'[r].step \notin {"idle", "notRunning"} =>
            stopStep[r].pid # NoPid /\ daemonStep'[stopStep[r].pid] \in HasBeenUp
      BY <2>1, <2>4, <2>6, <2>7, <3>2 DEF DaemonsInv, DaemonsTyped, d
    <3>4. QED BY <2>4, <2>5, <2>6, <3>1, <3>3 DEF DaemonsInv, DaemonsTyped
  <2>9. PortHeld' BY <2>4, <2>5 DEF DaemonsInv, PortHeld
  <2>10. Signalled'
    <3>1. \A r \in Stops : stopStep[r].pid \in Pids \cup {NoPid} BY DEF DaemonsInv, DaemonsTyped
    <3>2. \A r \in Stops : stopStep'[r].step \in {"signalled", "missed", "stopped"} =>
            stopStep[r].pid \in Pids /\ daemonStep'[stopStep[r].pid] \in Ending \cup {"gone"}
      BY <2>1, <2>4, <2>6, <3>1 DEF DaemonsInv, DaemonsTyped, Signalled, d
    <3>3. QED BY <2>6, <3>2 DEF Signalled
  <2>11. OneAlive'
    <3>1. AliveNow' \subseteq AliveNow BY <2>4, <2>5 DEF AliveNow
    <3>2. QED BY <2>2, <3>1 DEF DaemonsInv, OneAlive
  <2>12. Findable'
    <3>1. daemonStep'[d] \notin {"written", "up"} BY <2>4 DEF Ending
    <3>2. QED BY <2>2, <2>4, <2>5, <3>1 DEF DaemonsInv, Findable
  <2>13. QED BY <2>8, <2>9, <2>10, <2>11, <2>12 DEF DaemonsInv
<1>3. CASE RemovePidFile(s)
  <2>1. /\ pidFile' = NoPid /\ wiped' = (wiped \/ pidFile \notin {NoPid, stopStep[s].pid})
        /\ stopStep[s].step \in {"signalled", "missed"}
        /\ UNCHANGED <<daemonStep, socketPath, tcpPort, looker, met>>
        /\ stopStep' = [stopStep EXCEPT ![s].step =
             IF stopStep[s].step = "signalled" THEN "stopped" ELSE "notRunning"]
    BY <1>3 DEF RemovePidFile, DaemonsInv, DaemonsTyped
  <2>2. DaemonsTyped' BY <2>1 DEF DaemonsInv, DaemonsTyped, StopLabels
  <2>3. Signalled' BY <2>1 DEF DaemonsInv, DaemonsTyped, Signalled
  <2>4. Findable'
    <3>1. SUFFICES ASSUME ~met, ~wiped', NEW e \in Pids, daemonStep[e] \in {"written", "up"}
                   PROVE  FALSE
      BY <2>1 DEF DaemonsInv, Findable
    <3>2. pidFile = e BY <2>1, <3>1 DEF DaemonsInv, Findable
    <3>3. stopStep[s].pid = e BY <2>1, <3>1, <3>2
    <3>4. QED BY <2>1, <3>1, <3>3 DEF DaemonsInv, Signalled, Ending
  <2>5. QED BY <2>1, <2>2, <2>3, <2>4 DEF DaemonsInv, PortHeld, OneAlive, AliveNow
<1>4. QED BY <1>1, <1>2, <1>3

LEMMA DaemonsStep == DaemonsInv /\ DaemonsNext => DaemonsInv'
<1> SUFFICES ASSUME DaemonsInv, DaemonsNext PROVE DaemonsInv' OBVIOUS
<1>1. ASSUME Quiet PROVE DaemonsInv'
  BY <1>1 DEF Quiet, DaemonsInv, DaemonsTyped, PortHeld, Signalled, OneAlive, AliveNow, Findable
<1>2. ASSUME NEW w \in DOMAIN Lookers, LookFor(w) \/ Poll(w)
      PROVE  DaemonsInv'
  BY <1>1, <1>2, SpawnKeeps DEF LookFor, Poll
<1>3. QED BY <1>2, DaemonKeeps, StopKeeps DEF DaemonsNext

LEMMA DaemonsAtRest == DaemonsRest => DaemonsInv
<1> SUFFICES ASSUME DaemonsRest PROVE DaemonsInv OBVIOUS
<1>1. DaemonsTyped BY DEF DaemonsRest, DaemonsTyped, DaemonLabels, StopLabels
<1>2. QED
  BY <1>1 DEF DaemonsRest, DaemonsInv, PortHeld, Signalled, OneAlive, AliveNow, Findable,
              Serving, Alive, Starting, Ending

LEMMA DaemonsInvTells == DaemonsInv => DaemonsTrue
BY DEF DaemonsInv, PortHeld, Signalled, DaemonsTrue, OneServes, StoppedEnds

-----------------------------------------------------------------------------
(* iq task. *)

Among(x, s) == \E i \in 1..Len(s) : s[i] = x
AtMostOnce(x, s) == \A i, j \in 1..Len(s) : s[i] = x /\ s[j] = x => i = j

Frames == {"plan_ready", "checkpoint", "done", "end", "error"}
Going == {"reading", "awaitPlan", "asking"}
Services == {"none", "sent", "working", "answered", "refused", "lost"}
Statuses ==
  {"idle", "planning", "awaiting_approval", "implementing", "committed", "coordinating", "merged",
   "completed", "error"}
Engines == [status : Statuses, plan : Nat, retries : Nat]
Knowledge == [is : {"none", "waiting", "failed", "plan"}, plan : Nat]

TaskTyped ==
  /\ iq = [coordinator |-> iq.coordinator, step |-> iq.step, pendingPlan |-> iq.pendingPlan,
           printed |-> iq.printed]
  /\ iq.step \in Over \cup Going \cup {"created"}
  /\ iq.coordinator \in BOOLEAN /\ iq.pendingPlan \in PlanPosts
  /\ stream \in {"none", "sent", "attached", "refused"}
  /\ frames \in Seq(Frames) /\ missed \subseteq Frames
  /\ served \in [Posts -> Services]
  /\ seen \in [Posts -> Knowledge]
  /\ engine \in Engines
  /\ daemonUp \in BOOLEAN

Pending == served[iq.pendingPlan]

\* What the program has posted: the plans before the one it waits for are there, and it
\* approves the last of them.
PostsInTurn ==
  /\ \A p \in PlanPosts : /\ p < iq.pendingPlan => served[p] = "answered"
                          /\ p > iq.pendingPlan => served[p] = "none"
  /\ iq.step = "created" <=> Pending = "none"
  /\ iq.step = "created" => stream = "none" /\ iq.pendingPlan = 0 /\ engine.status = "idle"
  /\ iq.step \in Going => stream \in {"sent", "attached"}
  /\ iq.step \in {"awaitPlan", "asking"} =>
       Pending = "answered" /\ served[Approval] = "none" /\ stream = "attached"
  /\ served[Approval] # "none" =>
       Pending = "answered" /\ stream = "attached" /\ iq.printed = engine.plan

\* Of a plan the program is told once, before it decides on it.
ToldOnce ==
  /\ frames # <<>> => stream = "attached"
  /\ AtMostOnce("plan_ready", frames)
  /\ Among("plan_ready", frames) =>
       Pending = "answered" /\ served[Approval] = "none" /\ iq.step \notin {"awaitPlan", "asking"}

\* The plan it has is the engine's.
PlanIsTheEngines ==
  /\ seen[iq.pendingPlan].is = "plan" =>
       Pending = "answered" /\ seen[iq.pendingPlan].plan = engine.plan
  /\ iq.step = "asking" => iq.printed = engine.plan

\* The engine is at what is posted, and what it says it has done is done.
EngineAtPost ==
  /\ \A p \in Posts : served[p] = "working" =>
       engine.status \in IF p = Approval THEN {"implementing", "committed"} ELSE {"planning"}
  /\ Among("checkpoint", frames) \/ iq.step = "committed" =>
       engine.status \in {"committed", "merged", "completed"}
  /\ Among("done", frames) \/ iq.step = "coordinated" => engine.status = "completed"

\* Nothing the program waits for is forgotten.
EndIsTold ==
  /\ \A p \in Posts : served[p] = "lost" => ~daemonUp
  /\ iq.step \in Going /\ stream = "attached" /\ ~daemonUp => Among("end", frames)
PlanIsTold ==
  ~iq.coordinator =>
    /\ iq.step \in Going => seen[iq.pendingPlan] = Waiting \/ seen[iq.pendingPlan].is = "plan"
    /\ iq.step = "reading" /\ served[Approval] = "none" /\ Pending = "answered" =>
         "plan_ready" \in missed \/ Among("plan_ready", frames)
    /\ /\ iq.step = "reading"
       /\ \/ served[Approval] = "answered"
          \/ served[Approval] = "working" /\ engine.status = "committed"
       => Among("checkpoint", frames)
CoordinatorIsTold ==
  iq.coordinator =>
    /\ iq.step \notin {"awaitPlan", "asking"} /\ iq.pendingPlan = 0 /\ served[Approval] = "none"
    /\ ~Among("plan_ready", frames) /\ \A p \in Posts : served[p] # "working"
    /\ engine.status \in {"idle", "coordinating", "merged", "completed", "error"}
    /\ served[0] = "answered" => engine.status # "idle"
    /\ iq.step = "reading" /\ engine.status \in {"completed", "error"} =>
         missed \cap {"done", "error"} # {} \/ Among("done", frames) \/ Among("error", frames)

TaskInv == TaskTyped /\ PostsInTurn /\ ToldOnce /\ PlanIsTheEngines /\ EngineAtPost
           /\ EndIsTold /\ PlanIsTold /\ CoordinatorIsTold

\* What is among the elements of a sequence with one more at its end, 
LEMMA AmongAppended ==
  ASSUME NEW S, NEW s \in Seq(S), NEW e \in S
  PROVE  /\ Append(s, e) \in Seq(S) /\ Append(s, e) # <<>>
         /\ \A x : Among(x, Append(s, e)) <=> Among(x, s) \/ x = e
         /\ \A x : AtMostOnce(x, s) /\ (x = e => ~Among(x, s)) => AtMostOnce(x, Append(s, e))
<1>1. /\ Append(s, e) \in Seq(S) /\ Len(s) \in Nat /\ Len(Append(s, e)) = Len(s) + 1
      /\ Append(s, e)[Len(s) + 1] = e
      /\ \A i \in 1..Len(s) : Append(s, e)[i] = s[i]
  OBVIOUS
<1>2. Append(s, e) # <<>> BY <1>1
<1>3. ASSUME NEW x PROVE Among(x, Append(s, e)) <=> Among(x, s) \/ x = e
  <2>1. Among(x, Append(s, e)) => Among(x, s) \/ x = e BY <1>1 DEF Among
  <2>2. Among(x, s) => Among(x, Append(s, e)) BY <1>1 DEF Among
  <2>3. x = e => Among(x, Append(s, e))
    <3>1. Len(s) + 1 \in 1..Len(Append(s, e)) BY <1>1
    <3>2. QED BY <1>1, <3>1 DEF Among
  <2>4. QED BY <2>1, <2>2, <2>3
<1>4. ASSUME NEW x, AtMostOnce(x, s), x = e => ~Among(x, s) PROVE AtMostOnce(x, Append(s, e))
  BY <1>1, <1>4 DEF AtMostOnce, Among
<1>5. QED BY <1>1, <1>2, <1>3, <1>4

\* What is among the elements of a sequence without its first.
LEMMA AmongTail ==
  ASSUME NEW S, NEW s \in Seq(S), s # <<>>
  PROVE  /\ Tail(s) \in Seq(S) /\ Head(s) \in S
         /\ \A x : Among(x, s) <=> x = Head(s) \/ Among(x, Tail(s))
         /\ \A x : AtMostOnce(x, s) => AtMostOnce(x, Tail(s))
         /\ AtMostOnce(Head(s), s) => ~Among(Head(s), Tail(s))
<1>1. /\ Tail(s) \in Seq(S) /\ Head(s) \in S /\ Len(s) \in Nat /\ Len(s) > 0
      /\ Len(Tail(s)) = Len(s) - 1 /\ Head(s) = s[1]
      /\ \A i \in 1..Len(Tail(s)) : Tail(s)[i] = s[i + 1]
  OBVIOUS
<1>2. ASSUME NEW x PROVE Among(x, s) <=> x = Head(s) \/ Among(x, Tail(s))
  <2>1. Among(x, s) => x = Head(s) \/ Among(x, Tail(s))
    <3>1. SUFFICES ASSUME NEW i \in 1..Len(s), s[i] = x, i # 1 PROVE Among(x, Tail(s))
      BY <1>1 DEF Among
    <3>2. i - 1 \in 1..Len(Tail(s)) /\ Tail(s)[i - 1] = x BY <1>1, <3>1
    <3>3. QED BY <3>2 DEF Among
  <2>2. x = Head(s) => Among(x, s) BY <1>1 DEF Among
  <2>3. Among(x, Tail(s)) => Among(x, s)
    <3>1. SUFFICES ASSUME NEW i \in 1..Len(Tail(s)), Tail(s)[i] = x PROVE Among(x, s) BY DEF Among
    <3>2. i + 1 \in 1..Len(s) /\ s[i + 1] = x BY <1>1, <3>1
    <3>3. QED BY <3>2 DEF Among
  <2>4. QED BY <2>1, <2>2, <2>3
<1>3. ASSUME NEW x, AtMostOnce(x, s) PROVE AtMostOnce(x, Tail(s))
  <2>1. SUFFICES ASSUME NEW i \in 1..Len(Tail(s)), NEW j \in 1..Len(Tail(s)),
                        Tail(s)[i] = x, Tail(s)[j] = x
                 PROVE  i = j
    BY DEF AtMostOnce
  <2>2. i + 1 \in 1..Len(s) /\ j + 1 \in 1..Len(s) /\ s[i + 1] = x /\ s[j + 1] = x BY <1>1, <2>1
  <2>3. i + 1 = j + 1 BY <1>3, <2>2 DEF AtMostOnce
  <2>4. QED BY <2>3
<1>4. ASSUME AtMostOnce(Head(s), s), Among(Head(s), Tail(s)) PROVE FALSE
  <2>1. PICK i \in 1..Len(Tail(s)) : Tail(s)[i] = Head(s) BY <1>4 DEF Among
  <2>2. i + 1 \in 1..Len(s) /\ s[i + 1] = Head(s) /\ 1 \in 1..Len(s) /\ s[1] = Head(s)
    BY <1>1, <2>1
  <2>3. i + 1 = 1 BY <1>4, <2>2 DEF AtMostOnce
  <2>4. QED BY <2>3
<1>5. QED BY <1>1, <1>2, <1>3, <1>4

\* A frame goes to a stream that is attached; of one that is not yet it is noted.
Told(frame) ==
  /\ frames' \in Seq(Frames) /\ missed' \subseteq Frames /\ missed \subseteq missed'
  /\ Attached => frames' # <<>>
  /\ ~Attached => frames' = frames
  /\ \A x : Among(x, frames') <=> Among(x, frames) \/ (Attached /\ x = frame)
  /\ stream = "sent" => frame \in missed'
  /\ \A x : AtMostOnce(x, frames) /\ (x = frame => ~Among(x, frames)) => AtMostOnce(x, frames')

\* What is published reaches a stream that is attached, and is noted of one that is not.
LEMMA Published ==
  ASSUME frames \in Seq(Frames), missed \subseteq Frames, NEW frame \in Frames, Publish(frame)
  PROVE  Told(frame)
<1>1. missed' \subseteq Frames /\ missed \subseteq missed' /\ (stream = "sent" => frame \in missed')
  BY DEF Publish
<1>2. CASE Attached
  <2>1. frames' = Append(frames, frame) BY <1>2 DEF Publish
  <2>2. QED BY <1>1, <1>2, <2>1, AmongAppended DEF Told
<1>3. CASE ~Attached
  <2>1. frames' = frames BY <1>3 DEF Publish
  <2>2. QED BY <1>1, <1>3, <2>1 DEF Told
<1>4. QED BY <1>2, <1>3

\* The posts: the plans' and the approval.
LEMMA PostsAre ==
  /\ Approval \in Posts /\ Approval \notin PlanPosts /\ 0 \in PlanPosts
  /\ Posts = PlanPosts \cup {Approval} /\ PlanPosts \subseteq Nat
  /\ \A p \in PlanPosts : p # Approval
BY TaskRunAssumption DEF Posts, PlanPosts, Approval

\* A post is on its way, or lost with the daemon, and the program waits.
LEMMA Posted ==
  ASSUME TaskTyped, NEW p \in Posts, PostIt(p)
  PROVE  /\ served' \in [Posts -> Services] /\ seen' \in [Posts -> Knowledge]
         /\ served'[p] = (IF daemonUp THEN "sent" ELSE "lost") /\ seen'[p] = Waiting
         /\ \A r \in Posts : r # p => served'[r] = served[r] /\ seen'[r] = seen[r]
<1>1. Waiting \in Knowledge BY DEF Waiting, Knowledge, NoPlan
<1>2. served' = [served EXCEPT ![p] = IF daemonUp THEN "sent" ELSE "lost"]
      /\ seen' = [seen EXCEPT ![p] = Waiting]
  BY DEF PostIt
<1>3. served \in [Posts -> Services] /\ seen \in [Posts -> Knowledge]
  BY DEF TaskTyped
<1>4. QED BY <1>1, <1>2, <1>3 DEF Services

\* A post has failed, and no other; the program may be over, and learns nothing else.
LEMMA Failing ==
  ASSUME TaskTyped, NEW p \in Posts, FailsFor(p)
  PROVE  /\ seen' \in [Posts -> Knowledge] /\ seen'[p] = Failed
         /\ \A r \in Posts : r # p => seen'[r] = seen[r]
         /\ iq' = [coordinator |-> iq.coordinator, step |-> iq'.step,
                   pendingPlan |-> iq.pendingPlan, printed |-> iq.printed]
         /\ \/ iq'.step \in {"threw", "died"}
            \/ iq'.step = iq.step /\ (p = Approval \/ iq.coordinator \/ iq.step \in Over)
<1>1. Failed \in Knowledge BY DEF Failed, Knowledge, NoPlan
<1>2. seen' = [seen EXCEPT ![p] = Failed] BY DEF FailsFor
<1>3. seen \in [Posts -> Knowledge] BY DEF TaskTyped
<1>4. \/ iq' = iq /\ (p = Approval \/ iq.coordinator \/ iq.step \in Over)
      \/ iq' = [iq EXCEPT !.step = "threw"] \/ iq' = [iq EXCEPT !.step = "died"]
  BY DEF FailsFor, ThrowTask, StepTo
<1>5. QED BY <1>1, <1>2, <1>3, <1>4 DEF TaskTyped

\* The task is posted, and the stream asked for.
LEMMA PostTaskKeeps ==
  ASSUME TaskInv, PostTask
  PROVE  TaskInv'
<1> USE PostsAre
<1>1. /\ served' \in [Posts -> Services] /\ seen' \in [Posts -> Knowledge]
      /\ served'[0] = (IF daemonUp THEN "sent" ELSE "lost") /\ seen'[0] = Waiting
      /\ \A r \in Posts : r # 0 => served'[r] = served[r] /\ seen'[r] = seen[r]
  BY Posted DEF PostTask, TaskInv
<1>2. TaskTyped' BY <1>1 DEF PostTask, StepTo, TaskInv, TaskTyped, Going
<1>3. PostsInTurn' BY <1>1 DEF PostTask, StepTo, TaskInv, TaskTyped, PostsInTurn, Pending
<1>4. ToldOnce' BY <1>1 DEF PostTask, StepTo, TaskInv, TaskTyped, PostsInTurn, ToldOnce
<1>5. PlanIsTheEngines'
  BY <1>1 DEF PostTask, StepTo, TaskInv, TaskTyped, PostsInTurn, PlanIsTheEngines, Waiting
<1>6. EngineAtPost' BY <1>1 DEF PostTask, StepTo, TaskInv, TaskTyped, EngineAtPost
<1>7. EndIsTold' BY <1>1 DEF PostTask, StepTo, TaskInv, TaskTyped, EndIsTold
<1>8. PlanIsTold' BY <1>1 DEF PostTask, StepTo, TaskInv, TaskTyped, PostsInTurn, PlanIsTold, Pending
<1>9. CoordinatorIsTold'
  BY <1>1 DEF PostTask, StepTo, TaskInv, TaskTyped, PostsInTurn, CoordinatorIsTold
<1>10. QED BY <1>2, <1>3, <1>4, <1>5, <1>6, <1>7, <1>8, <1>9 DEF TaskInv

\* A frame is read: the plan is to be looked at, or the program is over.
LEMMA ReadTaskFrameKeeps ==
  ASSUME TaskInv, ReadTaskFrame
  PROVE  TaskInv'
<1> USE PostsAre
<1>1. frames \in Seq(Frames) BY DEF TaskInv, TaskTyped
<1>2. frames # <<>> BY DEF ReadTaskFrame
<1>3. AtMostOnce("plan_ready", frames) BY DEF TaskInv, ToldOnce
<1>4. /\ frames' \in Seq(Frames)
      /\ (\A x : Among(x, frames) <=> x = Head(frames) \/ Among(x, frames'))
      /\ AtMostOnce("plan_ready", frames')
      /\ (Head(frames) = "plan_ready" => ~Among("plan_ready", frames'))
  BY <1>1, <1>2, <1>3, AmongTail DEF ReadTaskFrame
<1>5. TaskTyped' BY <1>2, <1>4 DEF ReadTaskFrame, StepTo, ThrowTask, TaskInv, TaskTyped, Over, Going
<1>6. PostsInTurn'
  BY <1>2, <1>4 DEF ReadTaskFrame, StepTo, ThrowTask, TaskInv, TaskTyped, PostsInTurn, ToldOnce,
                    Pending
<1>7. ToldOnce'
  BY <1>2, <1>4 DEF ReadTaskFrame, StepTo, ThrowTask, TaskInv, TaskTyped, ToldOnce, Pending
<1>8. PlanIsTheEngines'
  BY <1>2, <1>4 DEF ReadTaskFrame, StepTo, ThrowTask, TaskInv, TaskTyped, PlanIsTheEngines, Pending
<1>9. EngineAtPost'
  BY <1>2, <1>4 DEF ReadTaskFrame, StepTo, ThrowTask, TaskInv, TaskTyped, EngineAtPost
<1>10. EndIsTold' BY <1>2, <1>4 DEF ReadTaskFrame, StepTo, TaskInv, TaskTyped, EndIsTold, Going
<1>11. PlanIsTold'
  BY <1>2, <1>4 DEF ReadTaskFrame, StepTo, ThrowTask, TaskInv, TaskTyped, PlanIsTold, Going
<1>12. CoordinatorIsTold'
  BY <1>2, <1>4 DEF ReadTaskFrame, StepTo, ThrowTask, TaskInv, TaskTyped, CoordinatorIsTold
<1>13. QED BY <1>5, <1>6, <1>7, <1>8, <1>9, <1>10, <1>11, <1>12 DEF TaskInv

\* The plan is printed as it came.
LEMMA PrintPlanKeeps ==
  ASSUME TaskInv, PrintPlan
  PROVE  TaskInv'
<1> USE PostsAre
<1>1. TaskTyped' BY DEF PrintPlan, TaskInv, TaskTyped, Going
<1>2. PostsInTurn' BY DEF PrintPlan, TaskInv, TaskTyped, PostsInTurn, Pending
<1>3. ToldOnce' BY DEF PrintPlan, TaskInv, TaskTyped, ToldOnce
<1>4. PlanIsTheEngines' BY DEF PrintPlan, TaskInv, TaskTyped, PlanIsTheEngines, Pending
<1>5. EngineAtPost' BY DEF PrintPlan, TaskInv, TaskTyped, EngineAtPost
<1>6. EndIsTold' BY DEF PrintPlan, TaskInv, TaskTyped, EndIsTold, Going
<1>7. PlanIsTold' BY DEF PrintPlan, TaskInv, TaskTyped, PlanIsTold
<1>8. CoordinatorIsTold' BY DEF PrintPlan, TaskInv, TaskTyped, CoordinatorIsTold
<1>9. QED BY <1>1, <1>2, <1>3, <1>4, <1>5, <1>6, <1>7, <1>8 DEF TaskInv

\* The user gives up.
LEMMA QuitKeeps ==
  ASSUME TaskInv, Quit
  PROVE  TaskInv'
<1> USE PostsAre
<1>1. TaskTyped' BY DEF Quit, StepTo, TaskInv, TaskTyped, Over
<1>2. PostsInTurn' BY DEF Quit, StepTo, TaskInv, TaskTyped, PostsInTurn, Pending
<1>3. ToldOnce' BY DEF Quit, StepTo, TaskInv, TaskTyped, ToldOnce
<1>4. PlanIsTheEngines' BY DEF Quit, StepTo, TaskInv, TaskTyped, PlanIsTheEngines, Pending
<1>5. EngineAtPost' BY DEF Quit, StepTo, TaskInv, TaskTyped, EngineAtPost
<1>6. EndIsTold' BY DEF Quit, StepTo, TaskInv, TaskTyped, EndIsTold, Going
<1>7. PlanIsTold' BY DEF Quit, StepTo, TaskInv, TaskTyped, PlanIsTold, Going
<1>8. CoordinatorIsTold' BY DEF Quit, StepTo, TaskInv, TaskTyped, CoordinatorIsTold
<1>9. QED BY <1>1, <1>2, <1>3, <1>4, <1>5, <1>6, <1>7, <1>8 DEF TaskInv

\* The plan printed is approved, once and as the last post.
LEMMA ApprovePlanKeeps ==
  ASSUME TaskInv, ApprovePlan
  PROVE  TaskInv'
<1> USE PostsAre
<1>1. /\ served' \in [Posts -> Services] /\ seen' \in [Posts -> Knowledge]
      /\ served'[Approval] = (IF daemonUp THEN "sent" ELSE "lost") /\ seen'[Approval] = Waiting
      /\ \A r \in Posts : r # Approval => served'[r] = served[r] /\ seen'[r] = seen[r]
  BY Posted DEF ApprovePlan, TaskInv
<1>2. TaskTyped' BY <1>1 DEF ApprovePlan, StepTo, TaskInv, TaskTyped, Going
<1>3. PostsInTurn'
  BY <1>1 DEF ApprovePlan, StepTo, TaskInv, TaskTyped, PostsInTurn, PlanIsTheEngines, Pending
<1>4. ToldOnce' BY <1>1 DEF ApprovePlan, StepTo, TaskInv, TaskTyped, ToldOnce
<1>5. PlanIsTheEngines'
  BY <1>1 DEF ApprovePlan, StepTo, TaskInv, TaskTyped, PlanIsTheEngines, Pending
<1>6. EngineAtPost' BY <1>1 DEF ApprovePlan, StepTo, TaskInv, TaskTyped, EngineAtPost
<1>7. EndIsTold' BY <1>1 DEF ApprovePlan, StepTo, TaskInv, TaskTyped, EndIsTold, Going
<1>8. PlanIsTold' BY <1>1 DEF ApprovePlan, StepTo, TaskInv, TaskTyped, PlanIsTold, Going
<1>9. CoordinatorIsTold' BY <1>1 DEF ApprovePlan, StepTo, TaskInv, TaskTyped, CoordinatorIsTold
<1>10. QED BY <1>2, <1>3, <1>4, <1>5, <1>6, <1>7, <1>8, <1>9 DEF TaskInv

\* The plan printed is rejected: the next post is for another.
LEMMA RejectPlanKeeps ==
  ASSUME TaskInv, RejectPlan
  PROVE  TaskInv'
<1> USE PostsAre
<1>1. /\ served' \in [Posts -> Services] /\ seen' \in [Posts -> Knowledge]
      /\ served'[iq.pendingPlan + 1] = (IF daemonUp THEN "sent" ELSE "lost")
      /\ seen'[iq.pendingPlan + 1] = Waiting
      /\ \A r \in Posts : r # (iq.pendingPlan + 1) => served'[r] = served[r] /\ seen'[r] = seen[r]
  BY Posted DEF RejectPlan, TaskInv
<1>2. TaskTyped' BY <1>1 DEF RejectPlan, TaskInv, TaskTyped, Going
<1>3. PostsInTurn'
  <2>1. /\ iq'.pendingPlan = iq.pendingPlan + 1
        /\ iq'.pendingPlan \in PlanPosts /\ iq.pendingPlan \in PlanPosts
        /\ iq'.step = "reading"
    BY DEF RejectPlan, TaskInv, TaskTyped
  <2>2. served[iq.pendingPlan] = "answered" /\ served[Approval] = "none" /\ stream = "attached"
    BY DEF RejectPlan, TaskInv, PostsInTurn, Pending
  <2>3. ASSUME NEW p \in PlanPosts
        PROVE  /\ p < iq'.pendingPlan => served'[p] = "answered"
               /\ p > iq'.pendingPlan => served'[p] = "none"
    <3>0. p \in Nat /\ iq.pendingPlan \in Nat BY <2>1
    <3>1. /\ p < iq'.pendingPlan => p < iq.pendingPlan \/ p = iq.pendingPlan
          /\ p > iq'.pendingPlan => p > iq.pendingPlan
          /\ p < iq'.pendingPlan \/ p > iq'.pendingPlan => p # iq.pendingPlan + 1
      BY <2>1, <3>0
    <3>2. p # iq.pendingPlan + 1 => served'[p] = served[p] BY <1>1
    <3>3. /\ p < iq.pendingPlan => served[p] = "answered"
          /\ p > iq.pendingPlan => served[p] = "none"
      BY DEF TaskInv, PostsInTurn
    <3>4. QED BY <2>2, <3>1, <3>2, <3>3
  <2>4. Pending' \in {"sent", "lost"} BY <1>1, <2>1 DEF Pending
  <2>5. served'[Approval] = "none" BY <1>1, <2>1, <2>2
  <2>6. stream' = stream BY DEF RejectPlan
  <2>7. QED BY <2>1, <2>2, <2>3, <2>4, <2>5, <2>6 DEF PostsInTurn
<1>4. ToldOnce' BY <1>1 DEF RejectPlan, TaskInv, TaskTyped, ToldOnce
<1>5. PlanIsTheEngines' BY <1>1 DEF RejectPlan, TaskInv, TaskTyped, PlanIsTheEngines, Waiting
<1>6. EngineAtPost' BY <1>1 DEF RejectPlan, TaskInv, TaskTyped, EngineAtPost
<1>7. EndIsTold' BY <1>1 DEF RejectPlan, TaskInv, TaskTyped, EndIsTold, Going
<1>8. PlanIsTold' BY <1>1 DEF RejectPlan, TaskInv, TaskTyped, PostsInTurn, PlanIsTold, Pending
<1>9. CoordinatorIsTold' BY <1>1 DEF RejectPlan, TaskInv, TaskTyped, CoordinatorIsTold
<1>10. QED BY <1>2, <1>3, <1>4, <1>5, <1>6, <1>7, <1>8, <1>9 DEF TaskInv

\* A post is answered: a plan is the engine's, or the post has failed.
LEMMA ReadAnswerKeeps ==
  ASSUME TaskInv, NEW p \in Posts, ReadAnswer(p)
  PROVE  TaskInv'
<1> USE PostsAre
<1>1. FailsFor(p) =>
        /\ seen' \in [Posts -> Knowledge] /\ seen'[p] = Failed
        /\ \A r \in Posts : r # p => seen'[r] = seen[r]
        /\ iq' = [coordinator |-> iq.coordinator, step |-> iq'.step,
                  pendingPlan |-> iq.pendingPlan, printed |-> iq.printed]
        /\ \/ iq'.step \in {"threw", "died"}
           \/ iq'.step = iq.step /\ (p = Approval \/ iq.coordinator \/ iq.step \in Over)
  BY Failing DEF TaskInv
<1>2. TaskTyped'
  <2>1. [is |-> "plan", plan |-> engine.plan] \in Knowledge
    BY DEF Knowledge, TaskInv, TaskTyped, Engines
  <2>2. seen' \in [Posts -> Knowledge] BY <1>1, <2>1 DEF ReadAnswer, TaskInv, TaskTyped
  <2>3. QED BY <1>1, <2>2 DEF ReadAnswer, TaskInv, TaskTyped, Over
<1>3. PostsInTurn' BY <1>1 DEF ReadAnswer, TaskInv, TaskTyped, PostsInTurn, Pending, Going
<1>4. ToldOnce' BY <1>1 DEF ReadAnswer, TaskInv, TaskTyped, ToldOnce, Pending
<1>5. PlanIsTheEngines'
  BY <1>1 DEF ReadAnswer, TaskInv, TaskTyped, PlanIsTheEngines, Pending, Going, Failed
<1>6. EngineAtPost' BY <1>1 DEF ReadAnswer, TaskInv, TaskTyped, EngineAtPost
<1>7. EndIsTold' BY <1>1 DEF ReadAnswer, TaskInv, TaskTyped, EndIsTold, Going
<1>8. PlanIsTold' BY <1>1 DEF ReadAnswer, TaskInv, TaskTyped, PlanIsTold, Pending, Going, Over
<1>9. CoordinatorIsTold' BY <1>1 DEF ReadAnswer, TaskInv, TaskTyped, CoordinatorIsTold
<1>10. QED BY <1>2, <1>3, <1>4, <1>5, <1>6, <1>7, <1>8, <1>9 DEF TaskInv

\* No answer for too long, while the daemon goes on.
LEMMA RequestTimesOutKeeps ==
  ASSUME TaskInv, NEW p \in Posts, RequestTimesOut(p)
  PROVE  TaskInv'
<1> USE PostsAre
<1>1. FailsFor(p) =>
        /\ seen' \in [Posts -> Knowledge] /\ seen'[p] = Failed
        /\ \A r \in Posts : r # p => seen'[r] = seen[r]
        /\ iq' = [coordinator |-> iq.coordinator, step |-> iq'.step,
                  pendingPlan |-> iq.pendingPlan, printed |-> iq.printed]
        /\ \/ iq'.step \in {"threw", "died"}
           \/ iq'.step = iq.step /\ (p = Approval \/ iq.coordinator \/ iq.step \in Over)
  BY Failing DEF TaskInv
<1>2. TaskTyped' BY <1>1 DEF RequestTimesOut, TaskInv, TaskTyped, Over
<1>3. PostsInTurn' BY <1>1 DEF RequestTimesOut, TaskInv, TaskTyped, PostsInTurn, Pending, Going
<1>4. ToldOnce' BY <1>1 DEF RequestTimesOut, TaskInv, TaskTyped, ToldOnce, Pending
<1>5. PlanIsTheEngines'
  BY <1>1 DEF RequestTimesOut, TaskInv, TaskTyped, PlanIsTheEngines, Pending, Failed
<1>6. EngineAtPost' BY <1>1 DEF RequestTimesOut, TaskInv, TaskTyped, EngineAtPost
<1>7. EndIsTold' BY <1>1 DEF RequestTimesOut, TaskInv, TaskTyped, EndIsTold, Going
<1>8. PlanIsTold' BY <1>1 DEF RequestTimesOut, TaskInv, TaskTyped, PlanIsTold, Going, Over
<1>9. CoordinatorIsTold' BY <1>1 DEF RequestTimesOut, TaskInv, TaskTyped, CoordinatorIsTold
<1>10. QED BY <1>2, <1>3, <1>4, <1>5, <1>6, <1>7, <1>8, <1>9 DEF TaskInv

\* The daemon refuses a post and publishes nothing.
LEMMA RefusePostKeeps ==
  ASSUME TaskInv, NEW p \in Posts, RefusePost(p)
  PROVE  TaskInv'
<1> USE PostsAre
<1> USE DEF AfterFailure
<1>1. TaskTyped' BY DEF RefusePost, TaskInv, TaskTyped, Engines, Statuses, Services
<1>2. PostsInTurn' BY DEF RefusePost, TaskInv, TaskTyped, PostsInTurn, Pending
<1>3. ToldOnce' BY DEF RefusePost, TaskInv, TaskTyped, ToldOnce, Pending
<1>4. PlanIsTheEngines' BY DEF RefusePost, TaskInv, TaskTyped, PlanIsTheEngines, Pending
<1>5. EngineAtPost' BY DEF RefusePost, TaskInv, TaskTyped, PostsInTurn, EngineAtPost
<1>6. EndIsTold' BY DEF RefusePost, TaskInv, TaskTyped, EndIsTold
<1>7. PlanIsTold' BY DEF RefusePost, TaskInv, TaskTyped, PlanIsTold, Pending
<1>8. CoordinatorIsTold' BY DEF RefusePost, TaskInv, TaskTyped, CoordinatorIsTold
<1>9. QED BY <1>1, <1>2, <1>3, <1>4, <1>5, <1>6, <1>7, <1>8 DEF TaskInv

\* The engine begins with a post: nothing else is under way, by its status.
LEMMA BeginPostKeeps ==
  ASSUME TaskInv, NEW p \in Posts, BeginPost(p)
  PROVE  TaskInv'
<1> USE PostsAre
<1>1. \A frame \in Frames : Publish(frame) => Told(frame)
  BY Published DEF TaskInv, TaskTyped
<1>2. TaskTyped'
  <2>1. served' \in [Posts -> Services] BY DEF BeginPost, TaskInv, TaskTyped, Services
  <2>2. engine' \in Engines
    <3>1. engine \in Engines BY DEF TaskInv, TaskTyped
    <3>2. engine' = [status |-> engine'.status, plan |-> engine.plan, retries |-> engine'.retries]
      BY <3>1 DEF BeginPost, Engines
    <3>3. engine'.status \in Statuses BY <3>1 DEF BeginPost, Engines, Statuses
    <3>4. engine'.retries \in {engine.retries, engine.retries + 1} BY <3>1 DEF BeginPost, Engines
    <3>5. QED BY <3>1, <3>2, <3>3, <3>4 DEF Engines
  <2>3. frames' \in Seq(Frames) /\ missed' \subseteq Frames
    BY <1>1 DEF BeginPost, TaskInv, TaskTyped, Told, Frames
  <2>4. QED BY <2>1, <2>2, <2>3 DEF BeginPost, TaskInv, TaskTyped
<1>3. PostsInTurn' BY <1>1 DEF BeginPost, TaskInv, TaskTyped, PostsInTurn, Pending, Engines
<1>4. ToldOnce' BY <1>1 DEF BeginPost, TaskInv, TaskTyped, ToldOnce, Pending, Frames, Told, Attached
<1>5. PlanIsTheEngines'
  BY <1>1 DEF BeginPost, TaskInv, TaskTyped, PlanIsTheEngines, Pending, Engines
<1>6. EngineAtPost'
  <2>1. \A r \in Posts : served[r] # "working"
    BY DEF BeginPost, Expected, TaskInv, EngineAtPost
  <2>2. \A r \in Posts : served'[r] = "working" => r = p
    BY <2>1 DEF BeginPost, TaskInv, TaskTyped
  <2>3. served'[p] = "working" =>
          engine'.status \in IF p = Approval THEN {"implementing"} ELSE {"planning"}
    BY DEF BeginPost, TaskInv, TaskTyped, Engines
  <2>4. engine.status \notin {"committed", "merged", "completed"} BY DEF BeginPost, Expected
  <2>5. /\ ~Among("checkpoint", frames) /\ ~Among("done", frames)
        /\ iq.step \notin {"committed", "coordinated"}
    BY <2>4 DEF TaskInv, EngineAtPost
  <2>6. /\ ~Among("checkpoint", frames') /\ ~Among("done", frames')
        /\ iq'.step \notin {"committed", "coordinated"}
    BY <1>1, <2>5 DEF BeginPost, Told, Frames
  <2>7. QED BY <2>2, <2>3, <2>6 DEF EngineAtPost
<1>7. EndIsTold' BY <1>1 DEF BeginPost, TaskInv, TaskTyped, EndIsTold
<1>8. PlanIsTold'
  <2>1. engine'.status # "committed" BY DEF BeginPost, Expected, TaskInv, TaskTyped, Engines
  <2>2. QED BY <1>1, <2>1 DEF BeginPost, TaskInv, TaskTyped, PostsInTurn, PlanIsTold, Pending
<1>9. CoordinatorIsTold'
  BY <1>1 DEF BeginPost, Expected, TaskInv, TaskTyped, CoordinatorIsTold, Engines
<1>10. QED BY <1>2, <1>3, <1>4, <1>5, <1>6, <1>7, <1>8, <1>9 DEF TaskInv

\* The engine is done with a post and says so.
LEMMA FinishPostKeeps ==
  ASSUME TaskInv, NEW p \in Posts, FinishPost(p)
  PROVE  TaskInv'
<1> USE PostsAre
<1>1. \A frame \in Frames : Publish(frame) => Told(frame)
  BY Published DEF TaskInv, TaskTyped
<1>2. TaskTyped'
  <2>1. served' \in [Posts -> Services] BY DEF FinishPost, TaskInv, TaskTyped, Services
  <2>2. engine' \in Engines
    <3>1. engine \in Engines BY DEF TaskInv, TaskTyped
    <3>2. engine' = [status |-> engine'.status, plan |-> engine'.plan, retries |-> engine.retries]
      BY <3>1 DEF FinishPost, Engines
    <3>3. engine'.status \in Statuses BY <3>1 DEF FinishPost, Engines, Statuses
    <3>4. engine'.plan \in {engine.plan, engine.plan + 1} BY <3>1 DEF FinishPost, Engines
    <3>5. QED BY <3>1, <3>2, <3>3, <3>4 DEF Engines
  <2>3. frames' \in Seq(Frames) /\ missed' \subseteq Frames
    BY <1>1 DEF FinishPost, TaskInv, TaskTyped, Told, Frames
  <2>4. QED BY <2>1, <2>2, <2>3 DEF FinishPost, TaskInv, TaskTyped
<1>3. PostsInTurn' BY <1>1 DEF FinishPost, TaskInv, TaskTyped, PostsInTurn, Pending, Engines
<1>4. ToldOnce'
  BY <1>1 DEF FinishPost, TaskInv, TaskTyped, PostsInTurn, ToldOnce, Pending, Frames, Told, Attached
<1>5. PlanIsTheEngines'
  BY <1>1 DEF FinishPost, TaskInv, TaskTyped, PostsInTurn, PlanIsTheEngines, Pending, Engines
<1>6. EngineAtPost'
  BY <1>1 DEF FinishPost, TaskInv, TaskTyped, PostsInTurn, EngineAtPost, Frames, Engines, Told
<1>7. EndIsTold' BY <1>1 DEF FinishPost, TaskInv, TaskTyped, EndIsTold
<1>8. PlanIsTold'
  <2>1. engine'.status # "committed" /\ (engine.status = "committed" => p = Approval)
    BY DEF FinishPost, TaskInv, TaskTyped, EngineAtPost, Engines
  <2>2. \A x : Among(x, frames) => Among(x, frames')
    BY <1>1 DEF FinishPost, Frames, Told
  <2>3. QED
    BY <1>1, <2>1, <2>2 DEF FinishPost, TaskInv, TaskTyped, PostsInTurn, PlanIsTold, Pending, Over,
                            Frames, Told, Attached
<1>9. CoordinatorIsTold' BY <1>1 DEF FinishPost, TaskInv, TaskTyped, CoordinatorIsTold
<1>10. QED BY <1>2, <1>3, <1>4, <1>5, <1>6, <1>7, <1>8, <1>9 DEF TaskInv

\* The work is committed, and the stream, attached since the plan, is told.
LEMMA CommitTaskKeeps ==
  ASSUME TaskInv, NEW p \in Posts, CommitTask(p)
  PROVE  TaskInv'
<1> USE PostsAre
<1>1. Told("checkpoint") BY Published DEF CommitTask, TaskInv, TaskTyped, Frames
<1>2. engine' \in Engines /\ engine'.status = "committed" /\ engine'.plan = engine.plan
  BY DEF CommitTask, TaskInv, TaskTyped, Engines, Statuses
<1>3. p = Approval /\ served[Approval] = "working" /\ Pending = "answered" /\ Attached
  BY DEF CommitTask, TaskInv, PostsInTurn, Attached
<1>4. TaskTyped' BY <1>1, <1>2 DEF CommitTask, TaskInv, TaskTyped, Told
<1>5. PostsInTurn' BY <1>2, <1>3 DEF CommitTask, TaskInv, PostsInTurn, Pending
<1>6. ToldOnce' BY <1>1, <1>3 DEF CommitTask, TaskInv, ToldOnce, Pending, Told, Attached
<1>7. PlanIsTheEngines' BY <1>2 DEF CommitTask, TaskInv, PlanIsTheEngines, Pending
<1>8. EngineAtPost' BY <1>1, <1>2, <1>3 DEF CommitTask, TaskInv, EngineAtPost, Told
<1>9. EndIsTold' BY <1>1 DEF CommitTask, TaskInv, EndIsTold, Told
<1>10. PlanIsTold' BY <1>1, <1>3 DEF CommitTask, TaskInv, PlanIsTold, Pending, Told
<1>11. CoordinatorIsTold' BY <1>3 DEF CommitTask, TaskInv, CoordinatorIsTold
<1>12. QED BY <1>4, <1>5, <1>6, <1>7, <1>8, <1>9, <1>10, <1>11 DEF TaskInv

\* The merge is committed, and the coordinator's stream told.
LEMMA CommitMergeKeeps ==
  ASSUME TaskInv, CommitMerge
  PROVE  TaskInv'
<1> USE PostsAre
<1>1. Told("checkpoint") BY Published DEF CommitMerge, TaskInv, TaskTyped, Frames
<1>2. engine' \in Engines /\ engine'.status = "merged" /\ engine'.plan = engine.plan
  BY DEF CommitMerge, TaskInv, TaskTyped, Engines, Statuses
<1>3. TaskTyped' BY <1>1, <1>2 DEF CommitMerge, TaskInv, TaskTyped, Told
<1>4. PostsInTurn' BY <1>2 DEF CommitMerge, TaskInv, PostsInTurn, Pending
<1>5. ToldOnce' BY <1>1 DEF CommitMerge, TaskInv, ToldOnce, Pending, Told, Attached
<1>6. PlanIsTheEngines' BY <1>2 DEF CommitMerge, TaskInv, PlanIsTheEngines, Pending
<1>7. EngineAtPost' BY <1>1, <1>2 DEF CommitMerge, TaskInv, EngineAtPost, Told
<1>8. EndIsTold' BY <1>1 DEF CommitMerge, TaskInv, EndIsTold, Told
<1>9. PlanIsTold' BY <1>1, <1>2 DEF CommitMerge, TaskInv, PlanIsTold, Pending, Told
<1>10. CoordinatorIsTold' BY <1>1, <1>2 DEF CommitMerge, TaskInv, CoordinatorIsTold, Told
<1>11. QED BY <1>3, <1>4, <1>5, <1>6, <1>7, <1>8, <1>9, <1>10 DEF TaskInv

\* The coordinator ends.
LEMMA EndCoordinatorKeeps ==
  ASSUME TaskInv, EndCoordinator
  PROVE  TaskInv'
<1> USE PostsAre
<1>1. \A frame \in Frames : Publish(frame) => Told(frame)
  BY Published DEF TaskInv, TaskTyped
<1>2. TaskTyped' BY <1>1 DEF EndCoordinator, TaskInv, TaskTyped, Frames, Engines, Statuses, Told
<1>3. PostsInTurn' BY <1>1 DEF EndCoordinator, TaskInv, TaskTyped, PostsInTurn, Pending, Engines
<1>4. ToldOnce'
  BY <1>1 DEF EndCoordinator, TaskInv, TaskTyped, ToldOnce, Pending, Frames, Told, Attached
<1>5. PlanIsTheEngines'
  BY <1>1 DEF EndCoordinator, TaskInv, TaskTyped, PlanIsTheEngines, Pending, Engines
<1>6. EngineAtPost'
  BY <1>1 DEF EndCoordinator, TaskInv, TaskTyped, EngineAtPost, Frames, Engines, Told
<1>7. EndIsTold' BY <1>1 DEF EndCoordinator, TaskInv, TaskTyped, EndIsTold
<1>8. PlanIsTold'
  <2>1. engine'.status # "committed" BY DEF EndCoordinator, TaskInv, TaskTyped, Engines
  <2>2. QED BY <1>1, <2>1 DEF EndCoordinator, TaskInv, TaskTyped, PlanIsTold, Pending, Frames, Told
<1>9. CoordinatorIsTold'
  BY <1>1 DEF EndCoordinator, TaskInv, TaskTyped, PostsInTurn, CoordinatorIsTold, Over, Frames,
              Engines, Told, Attached
<1>10. QED BY <1>2, <1>3, <1>4, <1>5, <1>6, <1>7, <1>8, <1>9 DEF TaskInv

\* The stream is attached: what was published before is missed.
LEMMA AttachKeeps ==
  ASSUME TaskInv, Attach
  PROVE  TaskInv'
<1> USE PostsAre
<1>1. TaskTyped' BY DEF Attach, TaskInv, TaskTyped
<1>2. PostsInTurn' BY DEF Attach, TaskInv, TaskTyped, PostsInTurn, Pending
<1>3. ToldOnce' BY DEF Attach, TaskInv, TaskTyped, ToldOnce, Pending
<1>4. PlanIsTheEngines' BY DEF Attach, TaskInv, TaskTyped, PlanIsTheEngines, Pending
<1>5. EngineAtPost' BY DEF Attach, TaskInv, TaskTyped, EngineAtPost
<1>6. EndIsTold' BY DEF Attach, TaskInv, TaskTyped, EndIsTold
<1>7. PlanIsTold' BY DEF Attach, TaskInv, TaskTyped, PlanIsTold, Pending
<1>8. CoordinatorIsTold' BY DEF Attach, TaskInv, TaskTyped, CoordinatorIsTold
<1>9. QED BY <1>1, <1>2, <1>3, <1>4, <1>5, <1>6, <1>7, <1>8 DEF TaskInv

\* The session is deleted.
LEMMA DestroyKeeps ==
  ASSUME TaskInv, Destroy
  PROVE  TaskInv'
<1> USE PostsAre
<1>1. TaskTyped' BY DEF Destroy, TaskInv, TaskTyped
<1>2. PostsInTurn' BY DEF Destroy, TaskInv, TaskTyped, PostsInTurn, Pending
<1>3. ToldOnce' BY DEF Destroy, TaskInv, TaskTyped, ToldOnce, Pending
<1>4. PlanIsTheEngines' BY DEF Destroy, TaskInv, TaskTyped, PlanIsTheEngines, Pending
<1>5. EngineAtPost' BY DEF Destroy, TaskInv, TaskTyped, EngineAtPost
<1>6. EndIsTold' BY DEF Destroy, TaskInv, TaskTyped, EndIsTold
<1>7. PlanIsTold' BY DEF Destroy, TaskInv, TaskTyped, PlanIsTold, Pending
<1>8. CoordinatorIsTold' BY DEF Destroy, TaskInv, TaskTyped, CoordinatorIsTold
<1>9. QED BY <1>1, <1>2, <1>3, <1>4, <1>5, <1>6, <1>7, <1>8 DEF TaskInv

\* The daemon stops: the stream ends, the posts under way are lost.
LEMMA StopDaemonKeeps ==
  ASSUME TaskInv, StopDaemon
  PROVE  TaskInv'
<1> USE PostsAre
<1>1. frames \in Seq(Frames) /\ "end" \in Frames BY DEF TaskInv, TaskTyped, Frames
<1>2. /\ frames' \in Seq(Frames)
      /\ (\A x : Among(x, frames') <=> Among(x, frames) \/ (stream = "attached" /\ x = "end"))
      /\ (AtMostOnce("plan_ready", frames) => AtMostOnce("plan_ready", frames'))
  BY <1>1, AmongAppended DEF StopDaemon
<1>3. TaskTyped' BY <1>2 DEF StopDaemon, TaskInv, TaskTyped, Services
<1>4. PostsInTurn' BY <1>2 DEF StopDaemon, TaskInv, TaskTyped, PostsInTurn, Pending
<1>5. ToldOnce' BY <1>2 DEF StopDaemon, TaskInv, TaskTyped, ToldOnce, Pending
<1>6. PlanIsTheEngines' BY <1>2 DEF StopDaemon, TaskInv, TaskTyped, PlanIsTheEngines, Pending
<1>7. EngineAtPost' BY <1>2 DEF StopDaemon, TaskInv, TaskTyped, EngineAtPost
<1>8. EndIsTold' BY <1>2 DEF StopDaemon, TaskInv, TaskTyped, EndIsTold
<1>9. PlanIsTold' BY <1>2 DEF StopDaemon, TaskInv, TaskTyped, PlanIsTold, Pending
<1>10. CoordinatorIsTold' BY <1>2 DEF StopDaemon, TaskInv, TaskTyped, CoordinatorIsTold
<1>11. QED BY <1>3, <1>4, <1>5, <1>6, <1>7, <1>8, <1>9, <1>10 DEF TaskInv

\* A stream that cannot be opened throws.
LEMMA StreamFailsKeeps ==
  ASSUME TaskInv, StreamFails
  PROVE  TaskInv'
<1> USE PostsAre
<1>1. TaskTyped' BY DEF StreamFails, StepTo, ThrowTask, TaskInv, TaskTyped, Over
<1>2. PostsInTurn'
  BY DEF StreamFails, StepTo, ThrowTask, TaskInv, TaskTyped, PostsInTurn, Pending, Going
<1>3. ToldOnce' BY DEF StreamFails, StepTo, ThrowTask, TaskInv, TaskTyped, ToldOnce, Pending
<1>4. PlanIsTheEngines'
  BY DEF StreamFails, StepTo, ThrowTask, TaskInv, TaskTyped, PlanIsTheEngines, Pending
<1>5. EngineAtPost' BY DEF StreamFails, StepTo, ThrowTask, TaskInv, TaskTyped, EngineAtPost
<1>6. EndIsTold' BY DEF StreamFails, StepTo, TaskInv, TaskTyped, EndIsTold
<1>7. PlanIsTold' BY DEF StreamFails, StepTo, ThrowTask, TaskInv, TaskTyped, PlanIsTold, Going
<1>8. CoordinatorIsTold'
  BY DEF StreamFails, StepTo, ThrowTask, TaskInv, TaskTyped, CoordinatorIsTold
<1>9. QED BY <1>1, <1>2, <1>3, <1>4, <1>5, <1>6, <1>7, <1>8 DEF TaskInv

\* No step of the program or of the daemon breaks the invariant.
LEMMA TasksStep ==
  ASSUME TaskInv, TaskNext
  PROVE  TaskInv'
BY PostTaskKeeps, ReadTaskFrameKeeps, PrintPlanKeeps, QuitKeeps, ApprovePlanKeeps,
   RejectPlanKeeps, ReadAnswerKeeps, RequestTimesOutKeeps, RefusePostKeeps, BeginPostKeeps,
   CommitTaskKeeps, FinishPostKeeps, CommitMergeKeeps, EndCoordinatorKeeps, AttachKeeps,
   DestroyKeeps, StopDaemonKeeps, StreamFailsKeeps
DEF TaskNext

\* It holds in the initial states.
LEMMA TasksAtRest ==
  ASSUME TaskInit
  PROVE  TaskInv
<1> USE PostsAre
<1>1. NotSeen \in Knowledge /\ frames = <<>> BY DEF TaskInit, TaskStart, NotSeen, Knowledge, NoPlan
<1>2. TaskTyped
  <2>1. served \in [Posts -> Services] BY DEF TaskInit, TaskStart, Services
  <2>2. seen \in [Posts -> Knowledge] BY <1>1 DEF TaskInit, TaskStart
  <2>3. engine \in Engines BY DEF TaskInit, TaskStart, Engines, Statuses, NoPlan
  <2>4. frames \in Seq(Frames) BY <1>1
  <2>5. PICK c \in BOOLEAN :
          iq = [coordinator |-> c, step |-> "created", pendingPlan |-> 0, printed |-> NoPlan]
    BY DEF TaskInit, TaskStart
  <2>6. iq.coordinator = c /\ iq.step = "created" /\ iq.pendingPlan = 0 /\ iq.printed = NoPlan
    BY <2>5
  <2>7. iq = [coordinator |-> iq.coordinator, step |-> iq.step, pendingPlan |-> iq.pendingPlan,
              printed |-> iq.printed]
    BY <2>5, <2>6
  <2>8. stream = "none" /\ missed = {} /\ daemonUp = TRUE BY DEF TaskInit, TaskStart
  <2>9. QED BY <2>1, <2>2, <2>3, <2>4, <2>5, <2>6, <2>7, <2>8 DEF TaskTyped
<1>3. PostsInTurn
  <2>1. iq.step = "created" /\ iq.pendingPlan = 0 /\ stream = "none" /\ engine.status = "idle"
    BY DEF TaskInit, TaskStart
  <2>2. \A p \in Posts : served[p] = "none" BY DEF TaskInit, TaskStart
  <2>3. Pending = "none" /\ served[Approval] = "none" BY <2>1, <2>2 DEF Pending
  <2>4. \A p \in PlanPosts : served[p] = "none" /\ ~(p < 0) BY <2>2
  <2>5. iq.step \notin Going /\ iq.step \notin {"awaitPlan", "asking"} BY <2>1 DEF Going
  <2>6. QED BY <2>1, <2>3, <2>4, <2>5 DEF PostsInTurn
<1>4. ToldOnce BY <1>1 DEF ToldOnce, Among, AtMostOnce
<1>5. PlanIsTheEngines BY <1>1 DEF TaskInit, TaskStart, PlanIsTheEngines, NotSeen
<1>6. EngineAtPost BY <1>1 DEF TaskInit, TaskStart, EngineAtPost, Among
<1>7. EndIsTold BY <1>1 DEF TaskInit, TaskStart, EndIsTold
<1>8. PlanIsTold BY <1>1 DEF TaskInit, TaskStart, PlanIsTold, Going
<1>9. CoordinatorIsTold BY <1>1 DEF TaskInit, TaskStart, CoordinatorIsTold, Among
<1>10. QED BY <1>2, <1>3, <1>4, <1>5, <1>6, <1>7, <1>8, <1>9 DEF TaskInv

\* It is what makes iq task true.
LEMMA TaskInvTells ==
  ASSUME TaskInv
  PROVE  TasksTrue
<1> USE PostsAre
<1>1. ImplementsWhatWasPrinted BY DEF TaskInv, PostsInTurn, ImplementsWhatWasPrinted
<1>2. CommittedStands BY DEF TaskInv, EngineAtPost, CommittedStands
<1>3. WaitsForCause
  <2>1. SUFFICES ASSUME iq.step = "reading", NothingUnderWay
                 PROVE  \/ missed \cap (IF iq.coordinator THEN {"done", "error"}
                                      ELSE {"plan_ready"}) # {}
                        \/ served[IF iq.coordinator THEN 0 ELSE Approval] = "refused"
    BY DEF WaitsForCause
  <2>2. \A x : ~Among(x, frames) BY <2>1 DEF NothingUnderWay, Among
  <2>3. daemonUp /\ \A p \in Posts : served[p] \in {"none", "answered", "refused"}
    BY <2>1, <2>2 DEF NothingUnderWay, TaskInv, TaskTyped, EndIsTold, Going, Services
  <2>4. CASE iq.coordinator
    <3>1. served[0] # "none" BY <2>1, <2>4 DEF TaskInv, PostsInTurn, CoordinatorIsTold, Pending
    <3>2. served[0] = "answered" => engine.status \in {"completed", "error"}
      BY <2>1, <2>4 DEF TaskInv, CoordinatorIsTold, NothingUnderWay
    <3>3. engine.status \in {"completed", "error"} => missed \cap {"done", "error"} # {}
      BY <2>1, <2>2, <2>4 DEF TaskInv, CoordinatorIsTold
    <3>4. QED BY <2>3, <2>4, <3>1, <3>2, <3>3
  <2>5. CASE ~iq.coordinator
    <3>1. Pending = "answered"
      <4>1. iq.pendingPlan \in Posts BY DEF TaskInv, TaskTyped
      <4>2. seen[iq.pendingPlan].is = "plan"
        BY <2>1, <2>5, <4>1 DEF TaskInv, PlanIsTold, NothingUnderWay, Going
      <4>3. QED BY <4>2 DEF TaskInv, PlanIsTheEngines
    <3>2. served[Approval] = "none" => "plan_ready" \in missed
      BY <2>1, <2>2, <2>5, <3>1 DEF TaskInv, PlanIsTold
    <3>3. served[Approval] # "answered" BY <2>1, <2>2, <2>5 DEF TaskInv, PlanIsTold
    <3>4. QED BY <2>3, <2>5, <3>2, <3>3
  <2>6. QED BY <2>4, <2>5
<1>4. QED BY <1>1, <1>2, <1>3 DEF TasksTrue

-----------------------------------------------------------------------------
(* The hooks. *)

\* A function that puts the sequences of a sequence together, one after the other, up to
\* the n-th (FlattenSeq of the community modules).
Flattens(f, ss, n) ==
  f = [i \in 1..n |-> IF i = 1 THEN ss[i] ELSE f[i - 1] \o ss[i]]

\* Two such functions agree as far as their sequences do.
LEMMA FlattensAlike ==
  ASSUME NEW f, NEW g, NEW ss, NEW tt, NEW m \in Nat, NEW n \in Nat, m <= n,
         Flattens(f, ss, m), Flattens(g, tt, n), \A i \in 1..m : ss[i] = tt[i]
  PROVE  \A i \in 1..m : f[i] = g[i]
<1> DEFINE Bad == {i \in 1..m : f[i] # g[i]}
<1>1. SUFFICES ASSUME Bad # {} PROVE FALSE OBVIOUS
<1>2. Bad \in SUBSET Nat OBVIOUS
<1>3. PICK i \in Bad : \A j \in Bad : i <= j BY <1>1, <1>2, HasMin
<1>4. i \in 1..m /\ f[i] # g[i] /\ i \in 1..n BY <1>3
<1>5. f[i] = (IF i = 1 THEN ss[i] ELSE f[i - 1] \o ss[i]) BY <1>4 DEF Flattens
<1>6. g[i] = (IF i = 1 THEN tt[i] ELSE g[i - 1] \o tt[i]) BY <1>4 DEF Flattens
<1>7. CASE i = 1 BY <1>4, <1>5, <1>6, <1>7
<1>8. CASE i # 1
  <2>1. i - 1 \in 1..m BY <1>4, <1>8
  <2>2. i - 1 \notin Bad
    <3>1. SUFFICES ASSUME i - 1 \in Bad PROVE FALSE OBVIOUS
    <3>2. i <= i - 1 BY <1>3, <3>1
    <3>3. QED BY <1>4, <3>2
  <2>3. f[i - 1] = g[i - 1] BY <2>1, <2>2
  <2>4. QED BY <1>4, <1>5, <1>6, <1>8, <2>3
<1>9. QED BY <1>7, <1>8

\* There is one, for sequences of sequences.
LEMMA FlattensThere ==
  ASSUME NEW S, NEW ss \in Seq(Seq(S)), NEW m \in 0..Len(ss)
  PROVE  \E f : Flattens(f, ss, m) /\ \A i \in 1..m : f[i] \in Seq(S)
<1> DEFINE There(n) == \E f : Flattens(f, ss, n) /\ \A i \in 1..n : f[i] \in Seq(S)
           Bad == {n \in 0..Len(ss) : ~There(n)}
<1>1. SUFFICES ASSUME Bad # {} PROVE FALSE OBVIOUS
<1>2. Len(ss) \in Nat /\ \A i \in 1..Len(ss) : ss[i] \in Seq(S) OBVIOUS
<1>3. Bad \in SUBSET Nat BY <1>2
<1>4. PICK n \in Bad : \A j \in Bad : n <= j
  <2> HIDE DEF Bad
  <2>1. QED BY <1>1, <1>3, HasMin
<1>5. n \in 0..Len(ss) /\ ~There(n) BY <1>4
<1>6. CASE n = 0
  <2> DEFINE f == [i \in 1..0 |-> IF i = 1 THEN ss[i] ELSE <<>>]
  <2>1. Flattens(f, ss, 0) BY DEF Flattens
  <2>2. \A i \in 1..0 : f[i] \in Seq(S) OBVIOUS
  <2>3. There(0) BY <2>1, <2>2
  <2>4. QED BY <1>5, <1>6, <2>3
<1>7. CASE n # 0
  <2>1. n - 1 \in 0..Len(ss) /\ n \in 1..Len(ss) BY <1>2, <1>5, <1>7
  <2>2. n - 1 \notin Bad
    <3>1. SUFFICES ASSUME n - 1 \in Bad PROVE FALSE OBVIOUS
    <3>2. n <= n - 1 BY <1>4, <3>1
    <3>3. QED BY <1>5, <3>2, <1>2
  <2>3. There(n - 1) BY <2>1, <2>2
  <2>4. PICK f : Flattens(f, ss, n - 1) /\ \A i \in 1..(n - 1) : f[i] \in Seq(S) BY <2>3
  <2> DEFINE last == IF n = 1 THEN ss[n] ELSE f[n - 1] \o ss[n]
             g == [i \in 1..n |-> IF i = n THEN last ELSE f[i]]
  <2>5. last \in Seq(S)
    <3>1. CASE n = 1 BY <1>2, <2>1, <3>1
    <3>2. CASE n # 1
      <4>1. n - 1 \in 1..(n - 1) BY <2>1, <3>2, <1>2
      <4>2. f[n - 1] \in Seq(S) /\ ss[n] \in Seq(S) BY <1>2, <2>1, <2>4, <4>1
      <4>3. QED BY <3>2, <4>2
    <3>3. QED BY <3>1, <3>2
  <2>6. \A i \in 1..n : g[i] \in Seq(S)
    <3>1. ASSUME NEW i \in 1..n PROVE g[i] \in Seq(S)
      <4>1. CASE i = n BY <2>5, <4>1
      <4>2. CASE i # n
        <5>1. i \in 1..(n - 1) BY <4>2, <2>1, <1>2
        <5>2. QED BY <2>4, <4>2, <5>1
      <4>3. QED BY <4>1, <4>2
    <3>2. QED BY <3>1
  <2>7. Flattens(g, ss, n)
    <3>1. ASSUME NEW i \in 1..n PROVE g[i] = IF i = 1 THEN ss[i] ELSE g[i - 1] \o ss[i]
      <4>1. CASE i = n
        <5>1. CASE n = 1 BY <4>1, <5>1
        <5>2. CASE n # 1
          <6>1. n - 1 \in 1..n /\ n - 1 # n BY <5>2, <2>1, <1>2
          <6>2. g[n - 1] = f[n - 1] BY <6>1
          <6>3. QED BY <4>1, <5>2, <6>2
        <5>3. QED BY <5>1, <5>2
      <4>2. CASE i # n
        <5>1. i \in 1..(n - 1) BY <4>2, <2>1, <1>2
        <5>2. f[i] = IF i = 1 THEN ss[i] ELSE f[i - 1] \o ss[i] BY <2>4, <5>1 DEF Flattens
        <5>3. i # 1 => i - 1 \in 1..n /\ i - 1 # n BY <5>1, <2>1, <1>2
        <5>4. i # 1 => g[i - 1] = f[i - 1] BY <5>3
        <5>5. g[i] = f[i] BY <4>2
        <5>6. QED BY <5>2, <5>4, <5>5
      <4>3. QED BY <4>1, <4>2
    <3> DEFINE h == [i \in 1..n |-> IF i = 1 THEN ss[i] ELSE g[i - 1] \o ss[i]]
    <3>2. \A i \in 1..n : g[i] = h[i] BY <3>1
    <3>3. DOMAIN g = 1..n /\ DOMAIN h = 1..n /\ g = [i \in 1..n |-> g[i]] /\ h = [i \in 1..n |-> h[i]]
      OBVIOUS
    <3> HIDE DEF g
    <3>4. g = h
      <4> HIDE DEF h
      <4>1. QED BY <3>2, <3>3
    <3>5. QED BY <3>4 DEF Flattens
  <2>8. There(n)
    <3> HIDE DEF g
    <3>1. QED BY <2>6, <2>7
  <2>9. QED BY <1>5, <2>8
<1>8. QED BY <1>6, <1>7

\* With one more sequence, FlattenSeq puts that one after the others.
LEMMA FlattenAppended ==
  ASSUME NEW S, NEW ss \in Seq(Seq(S)), NEW s \in Seq(S)
  PROVE  FlattenSeq(ss) \in Seq(S) /\ FlattenSeq(Append(ss, s)) = FlattenSeq(ss) \o s
<1> DEFINE n == Len(ss)
           flat(tt) == CHOOSE f : Flattens(f, tt, Len(tt))
<1>1. ASSUME NEW tt \in Seq(Seq(S)), Len(tt) > 0
      PROVE  /\ FlattenSeq(tt) = flat(tt)[Len(tt)] /\ Flattens(flat(tt), tt, Len(tt))
             /\ \A i \in 1..Len(tt) : flat(tt)[i] \in Seq(S)
  <2>1. Len(tt) \in Nat /\ Len(tt) \in 0..Len(tt) OBVIOUS
  <2>2. PICK f : Flattens(f, tt, Len(tt)) /\ \A i \in 1..Len(tt) : f[i] \in Seq(S)
    BY <2>1, FlattensThere
  <2>3. Flattens(flat(tt), tt, Len(tt)) BY <2>2
  <2>4. \A i \in 1..Len(tt) : flat(tt)[i] = f[i]
    <3> HIDE DEF flat
    <3>1. QED BY <2>1, <2>2, <2>3, FlattensAlike
  <2>5. FlattenSeq(tt) = flat(tt)[Len(tt)]
    BY <1>1, <2>1 DEF FlattenSeq, Flattens
  <2>6. QED
    <3> HIDE DEF flat
    <3>1. QED BY <2>2, <2>3, <2>4, <2>5
<1> HIDE DEF flat
<1>2. n \in Nat /\ \A i \in 1..n : ss[i] \in Seq(S) OBVIOUS
<1>3. /\ Append(ss, s) \in Seq(Seq(S)) /\ Len(Append(ss, s)) = n + 1 /\ Append(ss, s)[n + 1] = s
      /\ \A i \in 1..n : ss[i] = Append(ss, s)[i]
  OBVIOUS
<1> DEFINE tt == Append(ss, s)
           k == n + 1
<1> HIDE DEF tt, n
<1>4. k \in Nat /\ k \in 1..k /\ k > 0 /\ k - 1 = n /\ n <= k BY <1>2
<1> HIDE DEF k
<1>5. tt \in Seq(Seq(S)) /\ Len(tt) = k /\ tt[k] = s /\ \A i \in 1..n : ss[i] = tt[i]
  BY <1>3 DEF tt, k
<1>6. FlattenSeq(tt) = flat(tt)[k] /\ Flattens(flat(tt), tt, k)
  <2>1. FlattenSeq(tt) = flat(tt)[Len(tt)] /\ Flattens(flat(tt), tt, Len(tt)) BY <1>1, <1>4, <1>5
  <2>2. QED BY <1>5, <2>1
<1>7. flat(tt)[k] = IF k = 1 THEN s ELSE flat(tt)[k - 1] \o s
  <2> DEFINE g == flat(tt)
  <2>1. Flattens(g, tt, k) BY <1>6
  <2> HIDE DEF g
  <2>2. g[k] = IF k = 1 THEN tt[k] ELSE g[k - 1] \o tt[k] BY <1>4, <2>1 DEF Flattens
  <2>3. g[k] = IF k = 1 THEN s ELSE g[k - 1] \o s BY <1>5, <2>2
  <2>4. QED BY <2>3 DEF g
<1>8. CASE n = 0
  <2>1. FlattenSeq(ss) = <<>> BY <1>8 DEF FlattenSeq, n
  <2>2. FlattenSeq(tt) = s BY <1>4, <1>6, <1>7, <1>8
  <2>3. <<>> \o s = s OBVIOUS
  <2>4. QED BY <2>1, <2>2, <2>3 DEF tt
<1>9. CASE n # 0
  <2>1. n > 0 /\ n \in 1..n /\ k # 1 BY <1>2, <1>4, <1>9
  <2>2. FlattenSeq(ss) = flat(ss)[n] /\ Flattens(flat(ss), ss, n) /\ flat(ss)[n] \in Seq(S)
    BY <1>1, <2>1 DEF n
  <2>3. flat(ss)[n] = flat(tt)[n]
    <3> DEFINE f == flat(ss)
               g == flat(tt)
    <3>1. Flattens(f, ss, n) /\ Flattens(g, tt, k) BY <1>6, <2>2
    <3> HIDE DEF f, g
    <3>2. n \in Nat /\ k \in Nat /\ n <= k /\ \A i \in 1..n : ss[i] = tt[i] BY <1>2, <1>4, <1>5
    <3>3. \A i \in 1..n : f[i] = g[i] BY <3>1, <3>2, FlattensAlike, ZenonT(30)
    <3>4. f[n] = g[n] BY <2>1, <3>3
    <3>5. QED BY <3>4 DEF f, g
  <2>4. FlattenSeq(tt) = flat(tt)[n] \o s BY <1>4, <1>6, <1>7, <2>1
  <2>5. QED BY <2>2, <2>3, <2>4 DEF tt
<1>10. QED BY <1>8, <1>9

\* Of a load at work alone, with nothing changed since it began: what it has found is
\* what the files it has read hold.
LoadsSoFar ==
  /\ \E S : loads \in Seq(S)
  /\ ~overlapped => Len(loads) <= 1
  /\ watched /\ ~overlapped /\ ~unseen /\ ~armed =>
       /\ loads = <<>> => hooks = LoadAll(hooksDir)
       /\ loads # <<>> =>
            /\ loads[1].entries = Entries(hooksDir)
            /\ loads[1].read \in Nat /\ loads[1].read <= Len(loads[1].entries)
            /\ loads[1].found = FirstHooks(hooksDir, loads[1].entries, loads[1].read)

RunSteps == {"waiting", "running", "blocks", "passes", "throws", "late", "over"}

\* A call of gate runs its hooks one after the other, and is over with the last that runs.
AskedTyped(a) ==
  /\ a = [kind |-> a.kind, hooks |-> a.hooks, runs |-> a.runs, verdict |-> a.verdict]
  /\ a.kind \in {"none", "gate", "fire"} /\ a.verdict \in {"none", "allowed", "blocked", "settled"}
  /\ a.kind = "none" => Len(a.hooks) = 0
  /\ Len(a.hooks) \in Nat /\ a.runs \in [1..Len(a.hooks) -> RunSteps]
InOrder(a) ==
  /\ a.kind = "gate" =>
       \A i, j \in 1..Len(a.hooks) : i < j /\ a.runs[j] # "waiting" => a.runs[i] = "over"
  /\ a.verdict # "none" => \A i \in 1..Len(a.hooks) : a.runs[i] \in {"over", "waiting"}
  /\ a.verdict \in {"allowed", "settled"} => \A i \in 1..Len(a.hooks) : a.runs[i] = "over"
AskedInv ==
  /\ asking = [c \in HookCalls |-> asking[c]]
  /\ \A c \in HookCalls : AskedTyped(asking[c]) /\ InOrder(asking[c])

\* What is over is recorded, once, and what blocked is the last of a gate's.
Recorded ==
  /\ \A r \in hookRuns : /\ r.call \in HookCalls /\ r.hook \in 1..Len(asking[r.call].hooks)
                         /\ asking[r.call].runs[r.hook] = "over" /\ r.blocked \in BOOLEAN
  /\ \A c \in HookCalls : \A i \in 1..Len(asking[c].hooks) :
       asking[c].runs[i] = "over" => \E r \in hookRuns : r.call = c /\ r.hook = i
  /\ \A r, q \in hookRuns : r.call = q.call /\ r.hook = q.hook => r = q
BlockedAt(c, k) ==
  /\ k \in 1..Len(asking[c].hooks) /\ asking[c].runs[k] = "over"
  /\ \A j \in 1..Len(asking[c].hooks) : j > k => asking[c].runs[j] = "waiting"
  /\ \A r \in hookRuns : r.call = c => (r.blocked = TRUE <=> r.hook = k)
BlockedLast ==
  \A c \in HookCalls : asking[c].kind = "gate" =>
    /\ asking[c].verdict # "blocked" => \A r \in hookRuns : r.call = c => r.blocked = FALSE
    /\ asking[c].verdict = "blocked" => \E k \in Nat : BlockedAt(c, k)

HooksInv == LoadsSoFar /\ AskedInv /\ Recorded /\ BlockedLast

\* What one more file adds to what a load has found.
LEMMA FirstHooksNext ==
  ASSUME NEW dir, NEW entries, NEW k \in Nat
  PROVE  /\ FirstHooks(dir, entries, 0) = <<>>
         /\ FirstHooks(dir, entries, k + 1) =
              FirstHooks(dir, entries, k) \o Loaded(entries[k + 1], dir[entries[k + 1]])
<1> DEFINE hook(i) == [file |-> entries[i], events |-> dir[entries[i]].events,
                       version |-> dir[entries[i]].version]
           S == {hook(i) : i \in 1..(k + 1)}
           piece(i) == Loaded(entries[i], dir[entries[i]])
           ss == [i \in 1..k |-> piece(i)]
           tt == [i \in 1..(k + 1) |-> piece(i)]
<1>1. FirstHooks(dir, entries, 0) = <<>>
  <2>1. [i \in 1..0 |-> piece(i)] = <<>> OBVIOUS
  <2>2. Len([i \in 1..0 |-> piece(i)]) = 0 BY <2>1
  <2> HIDE DEF piece
  <2>3. FlattenSeq([i \in 1..0 |-> piece(i)]) = <<>> BY <2>1, <2>2 DEF FlattenSeq
  <2>4. QED BY <2>3 DEF FirstHooks, piece
<1>2. ASSUME NEW i \in 1..(k + 1) PROVE piece(i) \in Seq(S)
  <2>1. hook(i) \in S OBVIOUS
  <2>2. piece(i) = <<hook(i)>> \/ piece(i) = <<>> BY DEF Loaded
  <2> HIDE DEF hook, S, piece
  <2>3. <<hook(i)>> \in Seq(S) /\ <<>> \in Seq(S) BY <2>1
  <2>4. QED BY <2>2, <2>3
<1>3. k \in Nat /\ k + 1 \in 1..(k + 1) /\ \A i \in 1..k : i \in 1..(k + 1) /\ i # k + 1 OBVIOUS
<1> HIDE DEF S, piece
<1>4. ss \in Seq(Seq(S)) /\ Len(ss) = k BY <1>2, <1>3
<1>5. tt = Append(ss, piece(k + 1))
  <2> DEFINE uu == Append(ss, piece(k + 1))
  <2>1. uu \in Seq(Seq(S)) /\ Len(uu) = k + 1 /\ uu[k + 1] = piece(k + 1) /\ \A i \in 1..k : uu[i] = ss[i]
    BY <1>2, <1>3, <1>4
  <2>2. \A i \in 1..(k + 1) : i = k + 1 \/ i \in 1..k BY <1>3
  <2>3. \A i \in 1..k : ss[i] = piece(i) OBVIOUS
  <2> HIDE DEF uu, ss
  <2>4. \A i \in 1..(k + 1) : uu[i] = piece(i) BY <2>1, <2>2, <2>3
  <2>5. uu = [i \in 1..(k + 1) |-> uu[i]] BY <2>1
  <2>6. uu = tt BY <2>4, <2>5
  <2>7. QED BY <2>6 DEF uu
<1> HIDE DEF ss, tt
<1>6. FlattenSeq(tt) = FlattenSeq(ss) \o piece(k + 1) BY <1>2, <1>3, <1>4, <1>5, FlattenAppended
<1>7. FirstHooks(dir, entries, k) = FlattenSeq(ss) /\ FirstHooks(dir, entries, k + 1) = FlattenSeq(tt)
  BY DEF FirstHooks, ss, tt, piece
<1>8. QED BY <1>1, <1>6, <1>7 DEF piece

\* Of a load that begins, nothing has been found, which is what no file holds; of one
\* that reads a file, what the files before hold and what this one does; and one that has
\* read them all has found what the directory holds.  A change that the watcher has not
\* told yet, or has, ends the claim until the next load begins.
LEMMA LoadingKeeps ==
  ASSUME LoadsSoFar,
         \/ \E f \in FileSet, file \in {NoFile, Broken} \cup {Good(events) : events \in SUBSET Events} :
              ChangeFile(f, file)
         \/ Reload \/ StartLoad
         \/ \E l \in DOMAIN loads : LoadFile(l) \/ EndLoad(l)
  PROVE  LoadsSoFar'
<1> DEFINE Claim == watched /\ ~overlapped /\ ~unseen /\ ~armed
<1>1. PICK S : loads \in Seq(S) BY DEF LoadsSoFar
<1>2. Len(loads) \in Nat /\ DOMAIN loads = 1..Len(loads) BY <1>1
<1>3. CASE \E f \in FileSet, file \in {NoFile, Broken} \cup {Good(events) : events \in SUBSET Events} :
              ChangeFile(f, file)
  <2>1. PICK f, file : ChangeFile(f, file) BY <1>3
  <2>2. /\ unseen' = watched /\ watched' = watched /\ loads' = loads /\ overlapped' = overlapped
    BY <2>1 DEF ChangeFile
  <2>3. QED BY <2>2 DEF LoadsSoFar
<1>4. CASE Reload
  <2>1. armed' = TRUE /\ loads' = loads /\ overlapped' = overlapped BY <1>4 DEF Reload
  <2>2. QED BY <2>1 DEF LoadsSoFar
<1>5. CASE StartLoad
  <2> DEFINE new == [entries |-> Entries(hooksDir), read |-> 0, found |-> <<>>]
  <2>1. /\ loads' = Append(loads, new) /\ overlapped' = (overlapped \/ loads # <<>>)
        /\ hooksDir' = hooksDir
    BY <1>5 DEF StartLoad
  <2>2. new.entries = Entries(hooksDir) /\ new.read = 0 /\ new.found = <<>> OBVIOUS
  <2>3. Len(Entries(hooksDir)) \in Nat OBVIOUS
  <2>4. FirstHooks(hooksDir, new.entries, 0) = <<>> BY FirstHooksNext
  <2>5. Entries(hooksDir)' = Entries(hooksDir) BY <2>1
  <2>6. FirstHooks(hooksDir, new.entries, 0)' = FirstHooks(hooksDir, new.entries, 0)
    BY <2>1 DEF FirstHooks, Entries
  <2> HIDE DEF new
  <2>7. loads' \in Seq(S \cup {new}) /\ loads' # <<>> BY <1>1, <2>1
  <2>8. loads = <<>> => Len(loads') = 1 /\ loads'[1] = new BY <1>1, <2>1
  <2>9. QED
    <3>1. ~overlapped' => loads = <<>> BY <2>1
    <3>2. ~overlapped' => Len(loads') <= 1
      <4>1. SUFFICES ASSUME ~overlapped' PROVE Len(loads') <= 1 OBVIOUS
      <4>2. Len(loads') = 1 BY <3>1, <2>8, <4>1
      <4>3. QED BY <4>2
    <3>3. ASSUME ~overlapped'
          PROVE /\ loads'[1].entries = Entries(hooksDir)'
                /\ loads'[1].read \in Nat /\ loads'[1].read <= Len(loads'[1].entries)
                /\ loads'[1].found = FirstHooks(hooksDir, loads[1].entries, loads[1].read)'
      <4>1. loads'[1] = new BY <3>1, <3>3, <2>8
      <4>2. FirstHooks(hooksDir, loads[1].entries, loads[1].read)' = FirstHooks(hooksDir, new.entries, 0)
        <5>1. loads'[1].entries = new.entries /\ loads'[1].read = 0 BY <4>1, <2>2
        <5>2. FirstHooks(hooksDir, loads[1].entries, loads[1].read)' =
                FirstHooks(hooksDir', loads'[1].entries, loads'[1].read)
          BY DEF FirstHooks
        <5>3. QED BY <5>1, <5>2, <2>1
      <4>3. QED BY <4>1, <4>2, <2>2, <2>3, <2>4, <2>5
    <3>4. QED BY <2>7, <3>2, <3>3 DEF LoadsSoFar
<1>6. ASSUME NEW l \in DOMAIN loads, LoadFile(l) PROVE LoadsSoFar'
  <2> DEFINE e == loads[l].entries
             k == loads[l].read
             next == [entries |-> e, read |-> k + 1,
                      found |-> loads[l].found \o Loaded(e[k + 1], hooksDir[e[k + 1]])]
  <2>1. /\ k < Len(e) /\ loads' = [loads EXCEPT ![l] = next]
        /\ UNCHANGED <<hooksDir, dirChanges, watched, unseen, armed, hooks, asking, hookRuns, overlapped>>
    BY <1>6 DEF LoadFile
  <2>2. next.entries = e /\ next.read = k + 1
        /\ next.found = loads[l].found \o Loaded(e[k + 1], hooksDir[e[k + 1]])
    OBVIOUS
  <2> HIDE DEF next
  <2>3. loads' \in Seq(S \cup {next}) /\ Len(loads') = Len(loads) /\ loads'[l] = next /\ loads' # <<>>
    BY <1>1, <1>2, <1>6, <2>1
  <2>4. l \in Nat /\ l >= 1 /\ l <= Len(loads) BY <1>2, <1>6
  <2>5. ~overlapped' => Len(loads') <= 1 /\ l = 1
    BY <2>1, <2>3, <2>4, <1>2 DEF LoadsSoFar
  <2>6. ASSUME Claim'
        PROVE /\ loads'[1].entries = Entries(hooksDir)'
              /\ loads'[1].read \in Nat /\ loads'[1].read <= Len(loads'[1].entries)
              /\ loads'[1].found = FirstHooks(hooksDir, loads[1].entries, loads[1].read)'
    <3>1. l = 1 /\ loads'[1] = next /\ loads # <<>> BY <2>3, <2>5, <2>6, <1>2, <2>4
    <3>2. Claim BY <2>1, <2>6
    <3>3. /\ e = Entries(hooksDir) /\ k \in Nat /\ loads[l].found = FirstHooks(hooksDir, e, k)
      BY <3>1, <3>2 DEF LoadsSoFar
    <3>4. Len(e) \in Nat OBVIOUS
    <3> HIDE DEF e, k
    <3>5. k + 1 \in Nat /\ k + 1 <= Len(e) BY <3>3, <3>4, <2>1
    <3>6. FirstHooks(hooksDir, e, k + 1) =
            FirstHooks(hooksDir, e, k) \o Loaded(e[k + 1], hooksDir[e[k + 1]])
      BY <3>3, FirstHooksNext
    <3>7. next.found = FirstHooks(hooksDir, e, k + 1) BY <3>3, <3>6, <2>2
    <3>8. Entries(hooksDir)' = Entries(hooksDir) BY <2>1
    <3>9. FirstHooks(hooksDir, loads[1].entries, loads[1].read)' = FirstHooks(hooksDir, e, k + 1)
      <4>1. loads'[1].entries = e /\ loads'[1].read = k + 1 BY <3>1, <2>2
      <4>2. FirstHooks(hooksDir, loads[1].entries, loads[1].read)' =
              FirstHooks(hooksDir', loads'[1].entries, loads'[1].read)
        BY DEF FirstHooks
      <4>3. QED BY <4>1, <4>2, <2>1
    <3>10. QED BY <3>1, <3>3, <3>5, <3>7, <3>8, <3>9, <2>2
  <2>7. QED BY <2>3, <2>5, <2>6 DEF LoadsSoFar
<1>7. ASSUME NEW l \in DOMAIN loads, EndLoad(l) PROVE LoadsSoFar'
  <2>1. /\ loads[l].read = Len(loads[l].entries) /\ hooks' = loads[l].found /\ loads' = RemoveAt(loads, l)
        /\ UNCHANGED <<hooksDir, dirChanges, watched, unseen, armed, asking, hookRuns, overlapped>>
    BY <1>7 DEF EndLoad
  <2>2. l \in Nat /\ l >= 1 /\ l <= Len(loads) /\ loads # <<>> BY <1>1, <1>2, <1>7
  <2>3. loads' = SubSeq(loads, 1, l - 1) \o SubSeq(loads, l + 1, Len(loads)) BY <2>1 DEF RemoveAt
  <2>4. /\ SubSeq(loads, 1, l - 1) \in Seq(S) /\ Len(SubSeq(loads, 1, l - 1)) = l - 1
        /\ SubSeq(loads, l + 1, Len(loads)) \in Seq(S)
        /\ Len(SubSeq(loads, l + 1, Len(loads))) = Len(loads) - l
    BY <1>1, <1>2, <2>2
  <2>5. loads' \in Seq(S) /\ Len(loads') = Len(loads) - 1
    <3> DEFINE s == SubSeq(loads, 1, l - 1)
               t == SubSeq(loads, l + 1, Len(loads))
    <3>1. s \in Seq(S) /\ t \in Seq(S) /\ Len(s) = l - 1 /\ Len(t) = Len(loads) - l /\ loads' = s \o t
      BY <2>3, <2>4
    <3> HIDE DEF s, t
    <3>2. s \o t \in Seq(S) BY <3>1, ConcatProperties, Zenon
    <3>3. Len(s \o t) = Len(s) + Len(t) BY <3>1, ConcatProperties, Zenon
    <3>4. QED BY <3>1, <3>2, <3>3, <1>2, <2>2
  <2>6. ~overlapped' => Len(loads) <= 1 BY <2>1 DEF LoadsSoFar
  <2>7. ~overlapped' => l = 1 /\ loads' = <<>>
    <3>1. SUFFICES ASSUME ~overlapped' PROVE l = 1 /\ loads' = <<>> OBVIOUS
    <3>2. l = 1 /\ Len(loads') = 0 BY <3>1, <2>2, <2>5, <2>6, <1>2
    <3>3. QED BY <3>2, <2>5
  <2>8. ASSUME Claim' PROVE hooks' = LoadAll(hooksDir)'
    <3>1. l = 1 /\ Claim BY <2>1, <2>7, <2>8
    <3>2. /\ loads[l].entries = Entries(hooksDir) 
          /\ loads[l].found = FirstHooks(hooksDir, loads[l].entries, loads[l].read)
      BY <3>1, <2>2 DEF LoadsSoFar
    <3>3. hooks' = FirstHooks(hooksDir, Entries(hooksDir), Len(Entries(hooksDir))) BY <2>1, <3>2
    <3>4. LoadAll(hooksDir)' = LoadAll(hooksDir) BY <2>1
    <3>5. QED BY <3>3, <3>4 DEF LoadAll
  <2>9. QED BY <2>1, <2>5, <2>7, <2>8 DEF LoadsSoFar
<1>8. QED BY <1>3, <1>4, <1>5, <1>6, <1>7

\* What holds of the other calls goes on to.
LEMMA AskedOthers ==
  ASSUME AskedInv, NEW c \in HookCalls, NEW b, AskedTyped(b), InOrder(b),
         asking' = [asking EXCEPT ![c] = b]
  PROVE  AskedInv' /\ asking'[c] = b /\ \A d \in HookCalls \ {c} : asking'[d] = asking[d]
<1>1. asking' = [d \in HookCalls |-> IF d = c THEN b ELSE asking[d]] BY DEF AskedInv
<1>2. asking'[c] = b /\ \A d \in HookCalls \ {c} : asking'[d] = asking[d] BY <1>1
<1>3. asking' = [d \in HookCalls |-> asking'[d]] BY <1>1
<1>4. ASSUME NEW d \in HookCalls PROVE AskedTyped(asking'[d]) /\ InOrder(asking'[d])
  <2>1. asking'[d] = b \/ asking'[d] = asking[d] BY <1>2
  <2>2. AskedTyped(asking[d]) /\ InOrder(asking[d]) BY DEF AskedInv
  <2>3. CASE asking'[d] = b BY <2>3
  <2>4. CASE asking'[d] = asking[d] BY <2>2, <2>4
  <2>5. QED BY <2>1, <2>3, <2>4
<1>5. AskedInv'
  <2>1. \A d \in HookCalls : (AskedTyped(asking[d]) /\ InOrder(asking[d]))'
    BY <1>4 DEF AskedTyped, InOrder
  <2>2. QED BY <1>3, <2>1 DEF AskedInv
<1>6. QED BY <1>2, <1>5

\* A call that asks has no run recorded, and its first is started or waits.
LEMMA AskingKeeps ==
  ASSUME AskedInv, Recorded, BlockedLast, NEW c \in HookCalls, NEW kind \in {"gate", "fire"},
         NEW event \in Events, AskHooks(c, kind, event)
  PROVE  AskedInv' /\ Recorded' /\ BlockedLast'
<1> DEFINE m == Matching(event)
           first(i) == IF kind = "fire" \/ i = 1 THEN Started(m[i]) ELSE "waiting"
           v == IF m # <<>> THEN "none" ELSE IF kind = "gate" THEN "allowed" ELSE "settled"
           b == [kind |-> kind, hooks |-> m, runs |-> [i \in 1..Len(m) |-> first(i)], verdict |-> v]
<1>1. asking[c] = NotAsked /\ asking' = [asking EXCEPT ![c] = b] /\ hookRuns' = hookRuns
  BY DEF AskHooks
<1>2. Len(m) \in Nat OBVIOUS
<1>3. ASSUME NEW h PROVE Started(h) \in {"throws", "running"} BY DEF Started
<1>4. ASSUME NEW i PROVE first(i) \in {"throws", "running", "waiting"} BY <1>3
<1>5. kind = "gate" => \A i : i # 1 => first(i) = "waiting" OBVIOUS
<1> HIDE DEF m, first
<1>6. /\ b.kind = kind /\ b.hooks = m /\ b.verdict = v /\ b.runs = [i \in 1..Len(m) |-> first(i)]
      /\ b = [kind |-> b.kind, hooks |-> b.hooks, runs |-> b.runs, verdict |-> b.verdict]
  OBVIOUS
<1>7. v \in {"none", "allowed", "settled"} /\ (v # "none" => m = <<>>) OBVIOUS
<1>8. m = <<>> => Len(m) = 0 OBVIOUS
<1> HIDE DEF b, v
<1>9. \A i \in 1..Len(m) : b.runs[i] = first(i) BY <1>6
<1>10. AskedTyped(b)
  <2>1. b.runs \in [1..Len(b.hooks) -> RunSteps] BY <1>4, <1>6 DEF RunSteps
  <2>2. b.kind # "none" BY <1>6
  <2>3. b.kind \in {"none", "gate", "fire"} BY <1>6
  <2>4. b.verdict \in {"none", "allowed", "blocked", "settled"} BY <1>6, <1>7
  <2>5. QED BY <1>2, <1>6, <2>1, <2>2, <2>3, <2>4 DEF AskedTyped
<1>11. InOrder(b)
  <2>1. ASSUME b.kind = "gate", NEW i \in 1..Len(m), NEW j \in 1..Len(m), i < j, b.runs[j] # "waiting"
        PROVE FALSE
    <3>1. j # 1 BY <1>2, <2>1
    <3>2. first(j) = "waiting" BY <1>5, <1>6, <2>1, <3>1
    <3>3. QED BY <1>9, <2>1, <3>2
  <2>2. b.verdict # "none" => \A i \in 1..Len(m) : FALSE BY <1>6, <1>7, <1>8
  <2>3. QED BY <1>6, <2>1, <2>2 DEF InOrder
<1>12. AskedInv' /\ asking'[c] = b /\ \A d \in HookCalls \ {c} : asking'[d] = asking[d]
  BY <1>1, <1>10, <1>11, AskedOthers
<1>13. ASSUME NEW r \in hookRuns PROVE r.call # c
  <2>1. asking[c].hooks = <<>> BY <1>1 DEF NotAsked
  <2>2. Len(asking[c].hooks) = 0 BY <2>1
  <2>3. r.hook \in 1..Len(asking[r.call].hooks) BY DEF Recorded
  <2>4. QED BY <2>2, <2>3
<1>14. Recorded'
  <2>1. ASSUME NEW r \in hookRuns
        PROVE /\ r.call \in HookCalls /\ r.hook \in 1..Len(asking'[r.call].hooks)
              /\ asking'[r.call].runs[r.hook] = "over" /\ r.blocked \in BOOLEAN
    <3>1. r.call \in HookCalls \ {c} BY <1>13 DEF Recorded
    <3>2. asking'[r.call] = asking[r.call] BY <1>12, <3>1
    <3>3. QED BY <3>1, <3>2 DEF Recorded
  <2>2. ASSUME NEW d \in HookCalls, NEW i \in 1..Len(asking'[d].hooks), asking'[d].runs[i] = "over"
        PROVE \E r \in hookRuns : r.call = d /\ r.hook = i
    <3>1. CASE d = c
      <4>1. i \in 1..Len(m) /\ b.runs[i] = "over" BY <1>6, <1>12, <2>2, <3>1
      <4>2. first(i) = "over" BY <1>9, <4>1
      <4>3. QED BY <1>4, <4>2
    <3>2. CASE d # c
      <4>1. asking'[d] = asking[d] BY <1>12, <3>2
      <4>2. QED BY <2>2, <4>1 DEF Recorded
    <3>3. QED BY <3>1, <3>2
  <2>3. \A r, q \in hookRuns : r.call = q.call /\ r.hook = q.hook => r = q BY DEF Recorded
  <2>4. QED BY <1>1, <2>1, <2>2, <2>3 DEF Recorded
<1>15. BlockedLast'
  <2>1. ASSUME NEW d \in HookCalls, asking'[d].kind = "gate"
        PROVE /\ asking'[d].verdict # "blocked" => \A r \in hookRuns : r.call = d => r.blocked = FALSE
              /\ asking'[d].verdict = "blocked" => \E k \in Nat : BlockedAt(d, k)'
    <3>1. CASE d = c
      <4>1. asking'[d].verdict # "blocked" BY <1>6, <1>7, <1>12, <3>1
      <4>2. QED BY <1>13, <3>1, <4>1
    <3>2. CASE d # c
      <4>1. asking'[d] = asking[d] BY <1>12, <3>2
      <4>2. /\ asking[d].verdict # "blocked" => \A r \in hookRuns : r.call = d => r.blocked = FALSE
            /\ asking[d].verdict = "blocked" => \E k \in Nat : BlockedAt(d, k)
        BY <2>1, <4>1 DEF BlockedLast
      <4>3. ASSUME NEW k \in Nat, BlockedAt(d, k) PROVE BlockedAt(d, k)'
        BY <1>1, <4>1, <4>3 DEF BlockedAt
      <4>4. QED BY <4>1, <4>2, <4>3
    <3>3. QED BY <3>1, <3>2
  <2>2. QED BY <1>1, <2>1 DEF BlockedLast
<1>16. QED BY <1>12, <1>14, <1>15

\* An answer of a hook that runs leaves what is over, and what waits, as it was.
LEMMA AnswerKeeps ==
  ASSUME AskedInv, Recorded, BlockedLast, NEW c \in HookCalls, NEW i \in DOMAIN asking[c].runs,
         NEW answer \in {"blocks", "passes", "throws", "late"}, HookAnswers(c, i, answer)
  PROVE  AskedInv' /\ Recorded' /\ BlockedLast'
<1> DEFINE a == asking[c]
           runs == [a.runs EXCEPT ![i] = answer]
           b == [kind |-> a.kind, hooks |-> a.hooks, runs |-> runs, verdict |-> a.verdict]
<1>1. AskedTyped(a) /\ InOrder(a) /\ a.runs[i] = "running" /\ hookRuns' = hookRuns
  BY DEF AskedInv, HookAnswers
<1>2. asking' = [asking EXCEPT ![c] = b]
  <2>1. asking' = [asking EXCEPT ![c] = [a EXCEPT !.runs = runs]] BY DEF HookAnswers
  <2>2. a = [kind |-> a.kind, hooks |-> a.hooks, runs |-> a.runs, verdict |-> a.verdict]
    BY <1>1 DEF AskedTyped
  <2> HIDE DEF a, runs
  <2>3. [a EXCEPT !.runs = runs] = b BY <2>2
  <2>4. QED BY <2>1, <2>3
<1>3. /\ a.kind \in {"none", "gate", "fire"} /\ a.verdict \in {"none", "allowed", "blocked", "settled"}
      /\ a.kind = "none" => Len(a.hooks) = 0
      /\ Len(a.hooks) \in Nat /\ a.runs \in [1..Len(a.hooks) -> RunSteps]
  BY <1>1 DEF AskedTyped
<1>4. i \in 1..Len(a.hooks) BY <1>3
<1> DEFINE n == Len(a.hooks)
<1>5. a.verdict = "none"
  <2>1. a.verdict # "none" => a.runs[i] \in {"over", "waiting"} BY <1>1, <1>4 DEF InOrder
  <2>2. QED BY <1>1, <2>1
<1>6. /\ runs \in [1..n -> RunSteps] /\ runs[i] = answer
      /\ \A j \in 1..n : j # i => runs[j] = a.runs[j]
  BY <1>3, <1>4 DEF RunSteps
<1>7. a.kind = "gate" => \A j, k \in 1..n : j < k /\ a.runs[k] # "waiting" => a.runs[j] = "over"
  BY <1>1 DEF InOrder
<1>8. /\ b.kind = a.kind /\ b.hooks = a.hooks /\ b.verdict = a.verdict /\ b.runs = runs
      /\ b = [kind |-> b.kind, hooks |-> b.hooks, runs |-> b.runs, verdict |-> b.verdict]
  OBVIOUS
<1> HIDE DEF b, runs
<1>9. AskedTyped(b) BY <1>3, <1>6, <1>8 DEF AskedTyped
<1>10. InOrder(b)
  <2>1. ASSUME a.kind = "gate", NEW j \in 1..n, NEW k \in 1..n, j < k, runs[k] # "waiting"
        PROVE runs[j] = "over"
    <3>1. CASE k = i
      <4>1. a.runs[j] = "over" BY <1>1, <1>7, <2>1, <3>1
      <4>2. j # i BY <1>1, <4>1
      <4>3. QED BY <1>6, <4>1, <4>2
    <3>2. CASE k # i
      <4>1. a.runs[j] = "over" BY <1>6, <1>7, <2>1, <3>2
      <4>2. j # i BY <1>1, <4>1
      <4>3. QED BY <1>6, <4>1, <4>2
    <3>3. QED BY <3>1, <3>2
  <2>2. QED BY <1>5, <1>8, <2>1 DEF InOrder
<1>11. AskedInv' /\ asking'[c] = b /\ \A d \in HookCalls \ {c} : asking'[d] = asking[d]
  BY <1>2, <1>9, <1>10, AskedOthers
<1>12. ASSUME NEW d \in HookCalls
       PROVE /\ asking'[d].kind = asking[d].kind /\ asking'[d].hooks = asking[d].hooks
             /\ asking'[d].verdict = asking[d].verdict
             /\ \A j \in 1..Len(asking[d].hooks) :
                  (asking'[d].runs[j] = "over" <=> asking[d].runs[j] = "over")
                  /\ (asking'[d].runs[j] = "waiting" <=> asking[d].runs[j] = "waiting")
  <2>1. CASE d = c
    <3>1. asking'[d] = b BY <1>11, <2>1
    <3>2. ASSUME NEW j \in 1..n
          PROVE (runs[j] = "over" <=> a.runs[j] = "over") /\ (runs[j] = "waiting" <=> a.runs[j] = "waiting")
      <4>1. CASE j = i BY <1>1, <1>6, <4>1
      <4>2. CASE j # i BY <1>6, <4>2
      <4>3. QED BY <4>1, <4>2
    <3>3. QED BY <1>8, <2>1, <3>1, <3>2
  <2>2. CASE d # c
    <3>1. asking'[d] = asking[d] BY <1>11, <2>2
    <3>2. QED BY <3>1
  <2>3. QED BY <2>1, <2>2
<1>13. Recorded'
  <2>1. ASSUME NEW r \in hookRuns
        PROVE /\ r.call \in HookCalls /\ r.hook \in 1..Len(asking'[r.call].hooks)
              /\ asking'[r.call].runs[r.hook] = "over" /\ r.blocked \in BOOLEAN
    BY <1>12 DEF Recorded
  <2>2. ASSUME NEW d \in HookCalls, NEW j \in 1..Len(asking'[d].hooks), asking'[d].runs[j] = "over"
        PROVE \E r \in hookRuns : r.call = d /\ r.hook = j
    BY <1>12, <2>2 DEF Recorded
  <2>3. \A r, q \in hookRuns : r.call = q.call /\ r.hook = q.hook => r = q BY DEF Recorded
  <2>4. QED BY <1>1, <2>1, <2>2, <2>3 DEF Recorded
<1>14. BlockedLast'
  <2>1. ASSUME NEW d \in HookCalls, NEW k \in Nat, BlockedAt(d, k) PROVE BlockedAt(d, k)'
    <3>1. /\ k \in 1..Len(asking[d].hooks) /\ asking[d].runs[k] = "over"
          /\ \A j \in 1..Len(asking[d].hooks) : j > k => asking[d].runs[j] = "waiting"
          /\ \A r \in hookRuns : r.call = d => (r.blocked = TRUE <=> r.hook = k)
      BY <2>1 DEF BlockedAt
    <3>2. k \in 1..Len(asking'[d].hooks) /\ asking'[d].runs[k] = "over" BY <1>12, <3>1
    <3>3. \A j \in 1..Len(asking'[d].hooks) : j > k => asking'[d].runs[j] = "waiting" BY <1>12, <3>1
    <3>4. QED BY <1>1, <3>1, <3>2, <3>3 DEF BlockedAt
  <2>2. ASSUME NEW d \in HookCalls, asking'[d].kind = "gate"
        PROVE /\ asking'[d].verdict # "blocked" => \A r \in hookRuns : r.call = d => r.blocked = FALSE
              /\ asking'[d].verdict = "blocked" => \E k \in Nat : BlockedAt(d, k)'
    <3>1. asking[d].kind = "gate" /\ asking'[d].verdict = asking[d].verdict BY <1>12, <2>2
    <3>2. /\ asking[d].verdict # "blocked" => \A r \in hookRuns : r.call = d => r.blocked = FALSE
          /\ asking[d].verdict = "blocked" => \E k \in Nat : BlockedAt(d, k)
      BY <3>1 DEF BlockedLast
    <3>3. QED BY <2>1, <3>1, <3>2
  <2>3. QED BY <1>1, <2>2 DEF BlockedLast
<1>15. QED BY <1>11, <1>13, <1>14

\* A run that is over is recorded; gate goes on to the next, or is over with what blocked.
LEMMA RecordKeeps ==
  ASSUME AskedInv, Recorded, BlockedLast, NEW c \in HookCalls, NEW i \in DOMAIN asking[c].runs,
         RecordRun(c, i)
  PROVE  AskedInv' /\ Recorded' /\ BlockedLast'
<1> DEFINE a == asking[c]
           n == Len(a.hooks)
           over == {j \in DOMAIN a.runs : a.runs[j] = "over"} \cup {i}
           next(j) == IF j = i THEN "over"
                      ELSE IF j = i + 1 /\ a.kind = "gate" /\ a.runs[i] # "blocks"
                      THEN Started(a.hooks[j]) ELSE a.runs[j]
           runs == [j \in DOMAIN a.runs |-> next(j)]
           v == IF a.kind = "fire" THEN IF over = DOMAIN a.runs THEN "settled" ELSE a.verdict
                ELSE IF a.runs[i] = "blocks" THEN "blocked"
                ELSE IF i = Len(a.runs) THEN "allowed" ELSE a.verdict
           b == [kind |-> a.kind, hooks |-> a.hooks, runs |-> runs, verdict |-> v]
           new == [call |-> c, hook |-> i, blocked |-> a.runs[i] = "blocks"]
<1>1. AskedTyped(a) /\ InOrder(a) BY DEF AskedInv
<1>2. /\ a.kind \in {"none", "gate", "fire"} /\ a.verdict \in {"none", "allowed", "blocked", "settled"}
      /\ a.kind = "none" => Len(a.hooks) = 0
      /\ Len(a.hooks) \in Nat /\ a.runs \in [1..Len(a.hooks) -> RunSteps]
      /\ a = [kind |-> a.kind, hooks |-> a.hooks, runs |-> a.runs, verdict |-> a.verdict]
  BY <1>1 DEF AskedTyped
<1>3. i \in 1..n /\ n \in Nat /\ DOMAIN a.runs = 1..n /\ a.kind \in {"gate", "fire"} BY <1>2
<1>4. Len(a.runs) = n
  <2>1. a.runs \in Seq(RunSteps) BY <1>2
  <2>2. Len(a.runs) \in Nat /\ DOMAIN a.runs = 1..Len(a.runs) BY <2>1
  <2>3. QED BY <1>3, <2>2
<1>5. a.runs[i] \in {"blocks", "passes", "throws", "late"} /\ hookRuns' = hookRuns \cup {new}
  BY DEF RecordRun
<1>6. asking' = [asking EXCEPT ![c] = b]
  <2>1. asking' = [asking EXCEPT ![c].runs = runs, ![c].verdict = v] BY DEF RecordRun
  <2> HIDE DEF runs, v
  <2> DEFINE first == [asking EXCEPT ![c].runs = runs]
             kept == [kind |-> a.kind, hooks |-> a.hooks, runs |-> runs, verdict |-> a.verdict]
  <2>2. first = [asking EXCEPT ![c] = [a EXCEPT !.runs = runs]] OBVIOUS
  <2>3. first = [asking EXCEPT ![c] = kept]
    <3> HIDE DEF a
    <3>1. [a EXCEPT !.runs = runs] = kept BY <1>2
    <3>2. QED BY <2>2, <3>1 DEF a
  <2>4. asking = [d \in HookCalls |-> asking[d]] BY DEF AskedInv
  <2>5. first = [d \in HookCalls |-> IF d = c THEN kept ELSE asking[d]] BY <2>3, <2>4
  <2>6. asking' = [first EXCEPT ![c].verdict = v] BY <2>1
  <2>7. asking' = [first EXCEPT ![c] = [first[c] EXCEPT !.verdict = v]] BY <2>6
  <2> HIDE DEF first
  <2>8. first[c] = kept BY <2>5
  <2>9. [kept EXCEPT !.verdict = v] = b
    <3> HIDE DEF a
    <3>1. QED OBVIOUS
  <2> HIDE DEF kept, b
  <2>10. asking' = [first EXCEPT ![c] = b] BY <2>7, <2>8, <2>9
  <2>11. asking' = [d \in HookCalls |-> IF d = c THEN b ELSE asking[d]] BY <2>5, <2>10
  <2>12. [asking EXCEPT ![c] = b] = [d \in HookCalls |-> IF d = c THEN b ELSE asking[d]] BY <2>4
  <2>13. QED BY <2>11, <2>12
<1>7. a.verdict = "none"
  <2>1. a.verdict # "none" => a.runs[i] \in {"over", "waiting"} BY <1>1, <1>3 DEF InOrder
  <2>2. QED BY <1>5, <2>1
<1>8. a.kind = "gate" => \A j, k \in 1..n : j < k /\ a.runs[k] # "waiting" => a.runs[j] = "over"
  BY <1>1 DEF InOrder
<1>9. ASSUME a.kind = "gate", NEW j \in 1..n
      PROVE (j < i => a.runs[j] = "over") /\ (j > i => a.runs[j] = "waiting")
  <2>1. j < i => a.runs[j] = "over" BY <1>3, <1>5, <1>8, <1>9
  <2>2. ASSUME j > i, a.runs[j] # "waiting" PROVE FALSE
    <3>1. a.runs[i] = "over" BY <1>3, <1>8, <1>9, <2>2
    <3>2. QED BY <1>5, <3>1
  <2>3. QED BY <2>1, <2>2
<1>10. ASSUME NEW j \in 1..n PROVE next(j) \in RunSteps /\ (next(j) = "over" <=> j = i \/ a.runs[j] = "over")
  <2>1. Started(a.hooks[j]) \in {"throws", "running"} BY DEF Started
  <2>2. a.runs[j] \in RunSteps BY <1>2
  <2>3. CASE j = i BY <2>3 DEF RunSteps
  <2>4. CASE j # i /\ ~(j = i + 1 /\ a.kind = "gate" /\ a.runs[i] # "blocks") BY <2>2, <2>4
  <2>5. CASE j # i /\ j = i + 1 /\ a.kind = "gate" /\ a.runs[i] # "blocks"
    <3>1. next(j) = Started(a.hooks[j]) BY <2>5
    <3>2. a.runs[j] = "waiting" BY <1>3, <1>9, <2>5
    <3>3. QED BY <2>1, <2>5, <3>1, <3>2 DEF RunSteps
  <2>6. QED BY <2>3, <2>4, <2>5
<1>11. ASSUME a.kind = "gate", NEW j \in 1..n
       PROVE /\ j <= i => next(j) = "over"
             /\ j > i + 1 => next(j) = "waiting"
             /\ j > i /\ a.runs[i] = "blocks" => next(j) = "waiting"
  <2>1. i \in Nat /\ j \in Nat BY <1>3
  <2>2. CASE j <= i BY <1>3, <1>9, <1>10, <1>11, <2>1, <2>2
  <2>3. CASE j > i BY <1>9, <1>11, <2>1, <2>3
  <2>4. QED BY <2>1, <2>2, <2>3
<1>12. /\ a.kind = "fire" => v \in {"none", "settled"} /\ (v # "none" => over = DOMAIN a.runs)
       /\ a.kind = "gate" => /\ v \in {"none", "blocked", "allowed"}
                             /\ v = "blocked" <=> a.runs[i] = "blocks"
                             /\ v = "allowed" => i = n
  BY <1>4, <1>7
<1>13. /\ b.kind = a.kind /\ b.hooks = a.hooks /\ b.verdict = v /\ b.runs = [j \in 1..n |-> next(j)]
       /\ b = [kind |-> b.kind, hooks |-> b.hooks, runs |-> b.runs, verdict |-> b.verdict]
  BY <1>3
<1>14. over = DOMAIN a.runs => \A j \in 1..n : j = i \/ a.runs[j] = "over" BY <1>3
<1> HIDE DEF next, v, b, runs, over
<1>15. \A j \in 1..n : b.runs[j] = next(j) BY <1>13
<1>16. AskedTyped(b)
  <2>1. b.runs \in [1..n -> RunSteps] BY <1>10, <1>13
  <2>2. b.verdict \in {"none", "allowed", "blocked", "settled"} BY <1>3, <1>12, <1>13
  <2>3. QED BY <1>2, <1>13, <2>1, <2>2 DEF AskedTyped
<1>17. InOrder(b)
  <2>1. ASSUME b.kind = "gate", NEW j \in 1..n, NEW k \in 1..n, j < k, b.runs[k] # "waiting"
        PROVE b.runs[j] = "over"
    <3>1. a.kind = "gate" /\ next(k) # "waiting" BY <1>13, <1>15, <2>1
    <3>2. ~(k > i + 1) BY <1>11, <3>1
    <3>3. j <= i BY <1>3, <2>1, <3>2
    <3>4. QED BY <1>11, <1>15, <3>1, <3>3
  <2>2. ASSUME b.verdict # "none", NEW j \in 1..n PROVE b.runs[j] \in {"over", "waiting"}
    <3>1. CASE a.kind = "fire"
      <4>1. j = i \/ a.runs[j] = "over" BY <1>12, <1>13, <1>14, <2>2, <3>1
      <4>2. QED BY <1>10, <1>15, <4>1
    <3>2. CASE a.kind = "gate"
      <4>1. a.runs[i] = "blocks" \/ i = n BY <1>12, <1>13, <2>2, <3>2
      <4>2. next(j) \in {"over", "waiting"} BY <1>3, <1>11, <3>2, <4>1
      <4>3. QED BY <1>15, <4>2
    <3>3. QED BY <1>3, <3>1, <3>2
  <2>3. ASSUME b.verdict \in {"allowed", "settled"}, NEW j \in 1..n PROVE b.runs[j] = "over"
    <3>1. CASE a.kind = "fire"
      <4>1. j = i \/ a.runs[j] = "over" BY <1>12, <1>13, <1>14, <2>3, <3>1
      <4>2. QED BY <1>10, <1>15, <4>1
    <3>2. CASE a.kind = "gate"
      <4>1. i = n BY <1>12, <1>13, <2>3, <3>2
      <4>2. next(j) = "over" BY <1>3, <1>11, <3>2, <4>1
      <4>3. QED BY <1>15, <4>2
    <3>3. QED BY <1>3, <3>1, <3>2
  <2>4. QED BY <1>13, <2>1, <2>2, <2>3 DEF InOrder
<1>18. AskedInv' /\ asking'[c] = b /\ \A d \in HookCalls \ {c} : asking'[d] = asking[d]
  BY <1>6, <1>16, <1>17, AskedOthers
<1>19. new.call = c /\ new.hook = i /\ new.blocked \in BOOLEAN /\ (new.blocked = TRUE <=> a.runs[i] = "blocks")
  OBVIOUS
<1> HIDE DEF new
<1>20. ASSUME NEW r \in hookRuns PROVE r.call = c => r.hook # i
  <2>1. asking[r.call].runs[r.hook] = "over" BY DEF Recorded
  <2>2. QED BY <1>5, <2>1
<1>21. Recorded'
  <2>1. ASSUME NEW r \in hookRuns'
        PROVE /\ r.call \in HookCalls /\ r.hook \in 1..Len(asking'[r.call].hooks)
              /\ asking'[r.call].runs[r.hook] = "over" /\ r.blocked \in BOOLEAN
    <3>1. CASE r = new
      <4>1. asking'[r.call] = b /\ r.hook = i /\ r.blocked \in BOOLEAN /\ r.call \in HookCalls
        BY <1>18, <1>19, <3>1
      <4>2. b.runs[i] = "over" BY <1>3, <1>10, <1>15
      <4>3. QED BY <1>3, <1>13, <4>1, <4>2
    <3>2. CASE r \in hookRuns
      <4>1. /\ r.call \in HookCalls /\ r.hook \in 1..Len(asking[r.call].hooks)
            /\ asking[r.call].runs[r.hook] = "over" /\ r.blocked \in BOOLEAN
        BY <3>2 DEF Recorded
      <4>2. CASE r.call = c
        <5>1. b.runs[r.hook] = "over" BY <1>10, <1>15, <4>1, <4>2
        <5>2. QED BY <1>13, <1>18, <4>1, <4>2, <5>1
      <4>3. CASE r.call # c
        <5>1. asking'[r.call] = asking[r.call] BY <1>18, <4>1, <4>3
        <5>2. QED BY <4>1, <5>1
      <4>4. QED BY <4>2, <4>3
    <3>3. QED BY <1>5, <3>1, <3>2
  <2>2. ASSUME NEW d \in HookCalls, NEW j \in 1..Len(asking'[d].hooks), asking'[d].runs[j] = "over"
        PROVE \E r \in hookRuns' : r.call = d /\ r.hook = j
    <3>1. CASE d = c
      <4>1. j \in 1..n /\ b.runs[j] = "over" BY <1>13, <1>18, <2>2, <3>1
      <4>2. j = i \/ a.runs[j] = "over" BY <1>10, <1>15, <4>1
      <4>3. CASE j = i BY <1>5, <1>19, <3>1, <4>3
      <4>4. CASE a.runs[j] = "over"
        <5>1. \E r \in hookRuns : r.call = d /\ r.hook = j BY <3>1, <4>1, <4>4 DEF Recorded
        <5>2. QED BY <1>5, <5>1
      <4>5. QED BY <4>2, <4>3, <4>4
    <3>2. CASE d # c
      <4>1. asking'[d] = asking[d] BY <1>18, <3>2
      <4>2. \E r \in hookRuns : r.call = d /\ r.hook = j BY <2>2, <4>1 DEF Recorded
      <4>3. QED BY <1>5, <4>2
    <3>3. QED BY <3>1, <3>2
  <2>3. ASSUME NEW r \in hookRuns', NEW q \in hookRuns', r.call = q.call, r.hook = q.hook PROVE r = q
    <3>1. CASE r \in hookRuns /\ q \in hookRuns BY <2>3, <3>1 DEF Recorded
    <3>2. CASE r = new \/ q = new
      <4>1. ~(r \in hookRuns /\ q = new) /\ ~(r = new /\ q \in hookRuns) BY <1>19, <1>20, <2>3
      <4>2. QED BY <1>5, <2>3, <3>2, <4>1
    <3>3. QED BY <1>5, <3>1, <3>2
  <2>4. QED BY <2>1, <2>2, <2>3 DEF Recorded
<1>22. BlockedLast'
  <2>1. ASSUME NEW d \in HookCalls, asking'[d].kind = "gate"
        PROVE /\ asking'[d].verdict # "blocked" => \A r \in hookRuns' : r.call = d => r.blocked = FALSE
              /\ asking'[d].verdict = "blocked" => \E k \in Nat : BlockedAt(d, k)'
    <3>1. CASE d = c
      <4>1. a.kind = "gate" /\ asking'[d] = b /\ asking'[d].verdict = v BY <1>13, <1>18, <2>1, <3>1
      <4>2. \A r \in hookRuns : r.call = c => r.blocked = FALSE BY <1>7, <4>1 DEF BlockedLast
      <4>3. CASE a.runs[i] = "blocks"
        <5>1. i \in Nat /\ i \in 1..Len(asking'[c].hooks) /\ asking'[c].runs[i] = "over"
          BY <1>3, <1>10, <1>13, <1>15, <1>18
        <5>2. ASSUME NEW j \in 1..Len(asking'[c].hooks), j > i PROVE asking'[c].runs[j] = "waiting"
          <6>1. j \in 1..n BY <1>13, <1>18
          <6>2. next(j) = "waiting" BY <1>11, <4>1, <4>3, <5>2, <6>1
          <6>3. QED BY <1>15, <1>18, <6>1, <6>2
        <5>3. ASSUME NEW r \in hookRuns', r.call = c PROVE r.blocked = TRUE <=> r.hook = i
          <6>1. CASE r = new BY <1>19, <4>3, <6>1
          <6>2. CASE r \in hookRuns BY <1>20, <4>2, <5>3, <6>2
          <6>3. QED BY <1>5, <6>1, <6>2
        <5>4. BlockedAt(c, i)'
          <6>1. \A k : k = i => BlockedAt(c, k)' BY <5>1, <5>2, <5>3 DEF BlockedAt
          <6>2. QED BY <6>1
        <5>5. asking'[d].verdict = "blocked" BY <1>12, <4>1, <4>3
        <5>6. QED BY <3>1, <5>1, <5>4, <5>5
      <4>4. CASE a.runs[i] # "blocks"
        <5>1. asking'[d].verdict # "blocked" BY <1>12, <4>1, <4>4
        <5>2. new.blocked = FALSE BY <1>19, <4>4
        <5>3. QED BY <1>5, <3>1, <4>2, <5>1, <5>2
      <4>5. QED BY <4>3, <4>4
    <3>2. CASE d # c
      <4>1. asking'[d] = asking[d] BY <1>18, <3>2
      <4>2. \A r \in hookRuns' : r.call = d => r \in hookRuns BY <1>5, <1>19, <3>2
      <4>3. /\ asking[d].verdict # "blocked" => \A r \in hookRuns : r.call = d => r.blocked = FALSE
            /\ asking[d].verdict = "blocked" => \E k \in Nat : BlockedAt(d, k)
        BY <2>1, <4>1 DEF BlockedLast
      <4>4. ASSUME NEW k \in Nat, BlockedAt(d, k) PROVE BlockedAt(d, k)'
        <5>1. /\ k \in 1..Len(asking[d].hooks) /\ asking[d].runs[k] = "over"
              /\ \A j \in 1..Len(asking[d].hooks) : j > k => asking[d].runs[j] = "waiting"
              /\ \A r \in hookRuns : r.call = d => (r.blocked = TRUE <=> r.hook = k)
          BY <4>4 DEF BlockedAt
        <5>2. \A r \in hookRuns' : r.call = d => (r.blocked = TRUE <=> r.hook = k) BY <4>2, <5>1
        <5>3. QED BY <4>1, <5>1, <5>2 DEF BlockedAt
      <4>5. QED BY <4>1, <4>2, <4>3, <4>4
    <3>3. QED BY <3>1, <3>2
  <2>2. QED BY <2>1 DEF BlockedLast
<1>23. QED BY <1>18, <1>21, <1>22

\* It holds at rest, and as the daemon has loaded the directory.
LEMMA HooksAtRest ==
  ASSUME HooksRest \/ HooksInit
  PROVE  HooksInv
<1>1. /\ loads = <<>> /\ overlapped = FALSE /\ asking = [c \in HookCalls |-> NotAsked] /\ hookRuns = {}
  BY DEF HooksRest, HooksInit
<1>2. watched => hooks = LoadAll(hooksDir) BY DEF HooksRest, HooksInit
<1>3. LoadsSoFar
  <2>1. loads \in Seq({}) /\ Len(loads) = 0 BY <1>1
  <2>2. Len(loads) <= 1 BY <2>1
  <2>3. QED BY <1>1, <1>2, <2>1, <2>2 DEF LoadsSoFar
<1> DEFINE empty == <<>>
           a == [kind |-> "none", hooks |-> empty, runs |-> empty, verdict |-> "none"]
<1>4. NotAsked = a BY DEF NotAsked
<1>5. Len(empty) = 0 /\ empty \in [1..0 -> RunSteps] OBVIOUS
<1> HIDE DEF empty
<1>6. a.kind = "none" /\ a.hooks = empty /\ a.runs = empty /\ a.verdict = "none" OBVIOUS
<1>7. AskedTyped(a)
  <2>1. Len(a.hooks) = 0 /\ a.runs \in [1..Len(a.hooks) -> RunSteps] BY <1>5, <1>6
  <2>2. a = [kind |-> a.kind, hooks |-> a.hooks, runs |-> a.runs, verdict |-> a.verdict] BY <1>6
  <2> HIDE DEF a
  <2>3. QED BY <1>6, <2>1, <2>2 DEF AskedTyped
<1>8. InOrder(a) BY <1>6 DEF InOrder
<1> HIDE DEF a
<1>9. AskedInv BY <1>1, <1>4, <1>7, <1>8 DEF AskedInv
<1>10. Recorded
  <2>1. ASSUME NEW c \in HookCalls PROVE \A i \in 1..Len(asking[c].hooks) : FALSE
    <3>1. asking[c].hooks = empty BY <1>1, <1>4, <1>6
    <3>2. Len(asking[c].hooks) = 0 BY <1>5, <3>1
    <3>3. QED BY <3>2
  <2>2. QED BY <1>1, <2>1 DEF Recorded
<1>11. BlockedLast
  <2>1. ASSUME NEW c \in HookCalls PROVE asking[c].verdict # "blocked" BY <1>1, <1>4, <1>6
  <2>2. QED BY <1>1, <2>1 DEF BlockedLast
<1>12. QED BY <1>3, <1>9, <1>10, <1>11 DEF HooksInv

\* No step of a load or of a call breaks the invariant.
LEMMA HooksStep ==
  ASSUME HooksInv, HooksNext
  PROVE  HooksInv'
<1> USE DEF HooksInv
<1> DEFINE Asking == /\ UNCHANGED loadingVars
                     /\ AskedInv' /\ Recorded' /\ BlockedLast'
<1>1. CASE \/ \E f \in FileSet, file \in {NoFile, Broken} \cup {Good(events) : events \in SUBSET Events} :
                ChangeFile(f, file)
           \/ Reload \/ StartLoad
           \/ \E l \in DOMAIN loads : LoadFile(l) \/ EndLoad(l)
  <2>1. LoadsSoFar' BY <1>1, LoadingKeeps
  <2>2. asking' = asking /\ hookRuns' = hookRuns
    BY <1>1 DEF ChangeFile, Reload, StartLoad, LoadFile, EndLoad
  <2>3. AskedInv' /\ Recorded' BY <2>2 DEF AskedInv, AskedTyped, InOrder, Recorded
  <2>4. BlockedLast' BY <2>2 DEF BlockedLast, BlockedAt
  <2>5. QED BY <2>1, <2>3, <2>4
<1>2. ASSUME NEW c \in HookCalls, NEW kind \in {"gate", "fire"}, NEW event \in Events,
             AskHooks(c, kind, event)
      PROVE Asking
  <2>1. UNCHANGED loadingVars BY <1>2 DEF AskHooks
  <2>2. QED BY <1>2, <2>1, AskingKeeps
<1>3. ASSUME NEW c \in HookCalls, NEW i \in DOMAIN asking[c].runs,
             NEW answer \in {"blocks", "passes", "throws", "late"}, HookAnswers(c, i, answer)
      PROVE Asking
  <2>1. UNCHANGED loadingVars BY <1>3 DEF HookAnswers
  <2>2. QED BY <1>3, <2>1, AnswerKeeps
<1>4. ASSUME NEW c \in HookCalls, NEW i \in DOMAIN asking[c].runs, RecordRun(c, i)
      PROVE Asking
  <2>1. UNCHANGED loadingVars BY <1>4 DEF RecordRun
  <2>2. QED BY <1>4, <2>1, RecordKeeps
<1>5. ASSUME Asking PROVE HooksInv'
  <2>1. LoadsSoFar' BY <1>5 DEF LoadsSoFar, loadingVars
  <2>2. QED BY <1>5, <2>1
<1> HIDE DEF Asking, HooksInv
<1>6. QED BY <1>1, <1>2, <1>3, <1>4, <1>5 DEF HooksNext

\* What leaves the hooks alone keeps it.
LEMMA HooksStay ==
  ASSUME HooksInv, UNCHANGED hookVars
  PROVE  HooksInv'
<1>1. UNCHANGED loadingVars /\ asking' = asking /\ hookRuns' = hookRuns BY DEF hookVars, loadingVars
<1>2. LoadsSoFar' BY <1>1 DEF HooksInv, LoadsSoFar, loadingVars
<1>3. AskedInv' /\ Recorded' BY <1>1 DEF HooksInv, AskedInv, AskedTyped, InOrder, Recorded
<1>4. BlockedLast' BY <1>1 DEF HooksInv, BlockedLast, BlockedAt
<1>5. QED BY <1>2, <1>3, <1>4 DEF HooksInv

\* It is what makes the hooks' properties true.
LEMMA HooksInvTells ==
  ASSUME HooksInv
  PROVE  HooksTrue
<1>1. AskedInv /\ Recorded /\ BlockedLast /\ LoadsSoFar BY DEF HooksInv
<1>2. ASSUME NEW c \in HookCalls
      PROVE /\ AskedTyped(asking[c]) /\ InOrder(asking[c])
            /\ \A i : i \in {r.hook : r \in RunsOf(c)} <=>
                        i \in 1..Len(asking[c].hooks) /\ asking[c].runs[i] = "over"
  <2>1. AskedTyped(asking[c]) /\ InOrder(asking[c]) BY <1>1 DEF AskedInv
  <2>2. ASSUME NEW r \in RunsOf(c)
        PROVE r.hook \in 1..Len(asking[c].hooks) /\ asking[c].runs[r.hook] = "over"
    BY <1>1 DEF RunsOf, Recorded
  <2>3. ASSUME NEW i \in 1..Len(asking[c].hooks), asking[c].runs[i] = "over"
        PROVE i \in {r.hook : r \in RunsOf(c)}
    <3>1. PICK r \in hookRuns : r.call = c /\ r.hook = i BY <1>1, <2>3 DEF Recorded
    <3>2. r \in RunsOf(c) BY <3>1 DEF RunsOf
    <3>3. QED BY <3>1, <3>2
  <2>4. QED BY <2>1, <2>2, <2>3
<1>3. GatesTrue
  <2>1. SUFFICES ASSUME NEW c \in HookCalls, asking[c].kind = "gate"
        PROVE LET blocking == {r.hook : r \in {q \in RunsOf(c) : q.blocked}}
                  run      == {r.hook : r \in RunsOf(c)}
              IN /\ asking[c].verdict = "blocked" => \E i \in run : blocking = {i} /\ run = 1..i
                 /\ asking[c].verdict = "allowed" => blocking = {} /\ run = 1..Len(asking[c].hooks)
    BY DEF GatesTrue
  <2> DEFINE blocking == {r.hook : r \in {q \in RunsOf(c) : q.blocked}}
             run      == {r.hook : r \in RunsOf(c)}
             n        == Len(asking[c].hooks)
  <2>2. n \in Nat BY <1>2 DEF AskedTyped
  <2>3. \A i : i \in run <=> i \in 1..n /\ asking[c].runs[i] = "over" BY <1>2
  <2>4. ASSUME asking[c].verdict = "blocked" PROVE \E i \in run : blocking = {i} /\ run = 1..i
    <3>1. PICK k \in Nat : BlockedAt(c, k) BY <1>1, <2>1, <2>4 DEF BlockedLast
    <3>2. /\ k \in 1..n /\ asking[c].runs[k] = "over"
          /\ \A j \in 1..n : j > k => asking[c].runs[j] = "waiting"
          /\ \A r \in hookRuns : r.call = c => (r.blocked = TRUE <=> r.hook = k)
      BY <3>1 DEF BlockedAt
    <3>3. k \in run BY <2>3, <3>2
    <3>4. run = 1..k
      <4>1. ASSUME NEW i \in run PROVE i \in 1..k
        <5>1. i \in 1..n /\ asking[c].runs[i] = "over" BY <2>3
        <5>2. ~(i > k) BY <3>2, <5>1
        <5>3. QED BY <5>1, <5>2
      <4>2. ASSUME NEW i \in 1..k PROVE i \in run
        <5>1. i \in 1..n BY <2>2, <3>2
        <5>2. \A j, m \in 1..n : j < m /\ asking[c].runs[m] # "waiting" => asking[c].runs[j] = "over"
          BY <1>2, <2>1 DEF InOrder
        <5>3. asking[c].runs[i] = "over"
          <6>1. CASE i = k BY <3>2, <6>1
          <6>2. CASE i < k BY <3>2, <5>1, <5>2, <6>2
          <6>3. QED BY <6>1, <6>2
        <5>4. QED BY <2>3, <5>1, <5>3
      <4> HIDE DEF run
      <4>3. QED BY <4>1, <4>2
    <3>5. blocking = {k}
      <4>1. ASSUME NEW r \in RunsOf(c) PROVE r.blocked = TRUE <=> r.hook = k BY <3>2 DEF RunsOf
      <4>2. PICK r \in RunsOf(c) : r.hook = k BY <3>3
      <4>3. r.blocked BY <4>1, <4>2
      <4>4. k \in blocking BY <4>2, <4>3
      <4>5. ASSUME NEW i \in blocking PROVE i = k
        <5>1. PICK q \in RunsOf(c) : q.blocked /\ i = q.hook OBVIOUS
        <5>2. q.blocked \in BOOLEAN BY <1>1 DEF RunsOf, Recorded
        <5>3. q.blocked = TRUE BY <5>1, <5>2
        <5>4. QED BY <4>1, <5>1, <5>3
      <4> HIDE DEF blocking
      <4>6. QED BY <4>4, <4>5
    <3>6. QED BY <3>3, <3>4, <3>5
  <2>5. ASSUME asking[c].verdict = "allowed" PROVE blocking = {} /\ run = 1..n
    <3>1. \A r \in hookRuns : r.call = c => r.blocked = FALSE BY <1>1, <2>1, <2>5 DEF BlockedLast
    <3>2. blocking = {} BY <3>1 DEF RunsOf
    <3>3. \A i \in 1..n : asking[c].runs[i] = "over" BY <1>2, <2>5 DEF InOrder
    <3> HIDE DEF run
    <3>4. run = 1..n BY <2>3, <3>3
    <3>5. QED BY <3>2, <3>4
  <2>6. QED BY <2>4, <2>5
<1>4. FiresTrue
  <2>1. SUFFICES ASSUME NEW c \in HookCalls, asking[c].kind = "fire"
        PROVE /\ asking[c].verdict = "settled" => {r.hook : r \in RunsOf(c)} = 1..Len(asking[c].hooks)
              /\ \A r, q \in RunsOf(c) : r.hook = q.hook => r = q
    BY DEF FiresTrue
  <2>2. \A r, q \in RunsOf(c) : r.hook = q.hook => r = q BY <1>1 DEF RunsOf, Recorded
  <2>3. ASSUME asking[c].verdict = "settled"
        PROVE {r.hook : r \in RunsOf(c)} = 1..Len(asking[c].hooks)
    <3> DEFINE run == {r.hook : r \in RunsOf(c)}
    <3>1. \A i : i \in run <=> i \in 1..Len(asking[c].hooks) /\ asking[c].runs[i] = "over" BY <1>2
    <3>2. \A i \in 1..Len(asking[c].hooks) : asking[c].runs[i] = "over" BY <1>2, <2>3 DEF InOrder
    <3> HIDE DEF run
    <3>3. run = 1..Len(asking[c].hooks) BY <3>1, <3>2
    <3>4. QED BY <3>3 DEF run
  <2>4. QED BY <2>2, <2>3
<1>5. HooksCurrent BY <1>1 DEF HooksCurrent, LoadsSoFar
<1>6. QED BY <1>3, <1>4, <1>5 DEF HooksTrue

-----------------------------------------------------------------------------
(* The tool servers. *)

McpSteps == {"idle", "connect", "opening", "asking", "listed", "served", "failed"}
Letters == Seq(NameLetters)

Call(call, gathered) ==
  call = [kind |-> call.kind, name |-> call.name, at |-> call.at, tool |-> call.tool,
          step |-> call.step, listed |-> gathered]

CallTyped(call) ==
  /\ Call(call, call.listed)
  /\ call.kind \in {"none", "list", "call"} /\ call.step \in McpSteps
  /\ call.at \in Nat /\ call.listed \subseteq Servers
  /\ call.step \in {"connect", "opening", "asking"} => call.at \in Servers
  /\ call.step = "idle" <=> call.kind = "none"
  /\ call.step = "listed" => call.kind = "list"

ServersTyped ==
  /\ sdk \in [Servers -> {"closed", "opening", "open", "closing"}]
  /\ connected \in [Servers -> BOOLEAN]
  /\ mcpCall = [c \in McpCalls |-> mcpCall[c]]
  /\ \A c \in McpCalls : CallTyped(mcpCall[c])
  /\ endedServers \in Seq(Servers)

\* Servers that ended by themselves; why a list may lack a server.
HasEnded(i) == \E k \in DOMAIN endedServers : endedServers[k] = i
Excused(c, i) == <<c, i>> \in trouble \/ closedAll \/ HasEnded(i)

\* One call opens a connection, while the flag is down, and closing is for closeAll.
OneOpens ==
  /\ \A c \in McpCalls : CallAt(c, "opening") => sdk[AtNow(c)] = "opening"
  /\ \A c, d \in McpCalls : CallAt(c, "opening") /\ CallAt(d, "opening") /\ AtNow(c) = AtNow(d) => c = d
  /\ \A i \in Servers : /\ sdk[i] = "opening" => ~connected[i]
                        /\ sdk[i] = "closing" => closedAll

\* A list has been with the servers before the one it is at, and with all at its end.
ListsSoFar ==
  \A c \in McpCalls : mcpCall[c].kind = "list" =>
    \A i \in Servers : i < AtNow(c) \/ CallAt(c, "listed") => i \in mcpCall[c].listed \/ Excused(c, i)

\* A call of a tool is for what its name means.
CallsAsNamed ==
  \A c \in McpCalls : mcpCall[c].kind = "call" =>
    mcpCall[c].at = SplitName(mcpCall[c].name)[1] /\ mcpCall[c].tool = SplitName(mcpCall[c].name)[2]

ServersInv == ServersTyped /\ FlagTells /\ OneOpens /\ ListsSoFar /\ CallsAsNamed


\* Where the separators of a name are.
LEMMA SeparatorAt ==
  ASSUME NEW s \in Letters, NEW k \in 1..(Len(s) - 1)
  PROVE  k \in Separators(s) <=> s[k] = Underscore /\ s[k + 1] = Underscore
<1> USE ToolServersAssumption
<1> DEFINE t == SubSeq(s, k, k + 1)
<1>1. Len(s) \in Nat /\ k \in 1..Len(s) /\ k + 1 \in 1..Len(s) /\ k <= k + 1 BY DEF Letters
<1>2. t \in Seq(NameLetters) /\ Len(t) = 2 /\ t[1] = s[k] /\ t[2] = s[k + 1]
  <2>1. /\ t \in Seq(NameLetters) /\ Len(t) = (k + 1) - k + 1
        /\ \A i \in 1..((k + 1) - k + 1) : t[i] = s[k + i - 1]
    BY <1>1, SubSeqProperties DEF Letters
  <2>2. (k + 1) - k + 1 = 2 /\ k + 1 - 1 = k /\ k + 2 - 1 = k + 1 BY <1>1
  <2>3. QED BY <2>1, <2>2
<1> HIDE DEF t
<1>3. t = <<Underscore, Underscore>> <=> t[1] = Underscore /\ t[2] = Underscore
  <2>1. t = <<Underscore, Underscore>> => t[1] = Underscore /\ t[2] = Underscore OBVIOUS
  <2>2. ASSUME t[1] = Underscore /\ t[2] = Underscore PROVE t = <<Underscore, Underscore>>
    <3> DEFINE u == <<Underscore, Underscore>>
    <3>1. u \in Seq(NameLetters) /\ Len(u) = 2 /\ u[1] = Underscore /\ u[2] = Underscore OBVIOUS
    <3> HIDE DEF u
    <3>2. \A i \in 1..Len(t) : t[i] = u[i] BY <1>2, <2>2, <3>1
    <3>3. t = u BY <1>2, <3>1, <3>2, SeqEqual
    <3>4. QED BY <3>3 DEF u
  <2>3. QED BY <2>1, <2>2
<1>4. k \in Separators(s) <=> t = <<Underscore, Underscore>> BY DEF Separators, Underscores, t
<1>5. QED BY <1>2, <1>3, <1>4

\* A sequence that agrees with a stretch of a name is that stretch.
LEMMA PieceIs ==
  ASSUME NEW s \in Letters, NEW t \in Letters, NEW m \in Nat, NEW n \in Nat,
         m >= 1, n <= Len(s), Len(t) = n - m + 1, \A i \in 1..Len(t) : s[m + i - 1] = t[i]
  PROVE  SubSeq(s, m, n) = t
<1> DEFINE p == SubSeq(s, m, n)
<1>1. Len(s) \in Nat /\ Len(t) \in Nat /\ t \in Seq(NameLetters) /\ s \in Seq(NameLetters) BY DEF Letters
<1>2. \A i \in m..n : s[i] \in NameLetters BY <1>1
<1>3. /\ p \in Seq(NameLetters) /\ Len(p) = IF m <= n THEN n - m + 1 ELSE 0
      /\ \A i \in 1..(n - m + 1) : p[i] = s[m + i - 1]
  BY <1>2, SubSeqProperties
<1> HIDE DEF p
<1>4. Len(p) = Len(t) /\ \A i \in 1..Len(p) : p[i] = t[i] BY <1>1, <1>3
<1>5. p = t BY <1>1, <1>3, <1>4, SeqEqual
<1>6. QED BY <1>5 DEF p

\* A name leads back to the server and the tool it was made of.
LEMMA SplitsBack ==
  ASSUME NEW i \in Servers, Routable(i), NEW tool \in ServerTools[i]
  PROVE  SplitName(Namespaced(i, tool)) = <<i, tool>>
<1> USE ToolServersAssumption
<1> DEFINE server == ServerNames[i]
           l == Len(server)
           start == server \o Underscores
           name == Namespaced(i, tool)
           half == server \o <<Underscore>>
<1>1. server \in Letters /\ tool \in Letters BY ToolServersAssumption DEF Servers, Letters
<1>2. l \in Nat /\ Len(tool) \in Nat BY <1>1 DEF Letters
<1>3. /\ Underscores \in Letters /\ Len(Underscores) = 2
      /\ Underscores[1] = Underscore /\ Underscores[2] = Underscore
  BY ToolServersAssumption DEF Underscores, Letters
<1>4. name = start \o tool BY DEF Namespaced
<1>5. /\ start \in Letters /\ Len(start) = l + 2
      /\ \A k \in 1..l : start[k] = server[k]
      /\ start[l + 1] = Underscore /\ start[l + 2] = Underscore
  <2> HIDE DEF server
  <2>1. /\ start \in Seq(NameLetters) /\ Len(start) = l + Len(Underscores)
        /\ \A k \in 1..(l + Len(Underscores)) :
             start[k] = IF k <= l THEN server[k] ELSE Underscores[k - l]
    BY <1>1, <1>3, ConcatProperties, Zenon DEF Letters
  <2> HIDE DEF start, l
  <2>2. (l + 1) - l = 1 /\ (l + 2) - l = 2 /\ l + 1 \in 1..(l + 2) /\ l + 2 \in 1..(l + 2)
    BY <1>2
  <2>3. QED BY <1>2, <1>3, <2>1, <2>2 DEF Letters
<1>6. /\ name \in Letters /\ Len(name) = l + 2 + Len(tool)
      /\ \A k \in 1..(l + 2) : name[k] = start[k]
      /\ \A k \in 1..Len(tool) : name[l + 2 + k] = tool[k]
  <2> HIDE DEF start, l, name
  <2>1. /\ name \in Seq(NameLetters) /\ Len(name) = Len(start) + Len(tool)
        /\ \A k \in 1..(Len(start) + Len(tool)) :
             name[k] = IF k <= Len(start) THEN start[k] ELSE tool[k - Len(start)]
    BY <1>1, <1>4, <1>5, ConcatProperties, Zenon DEF Letters
  <2>2. \A k \in 1..Len(tool) : /\ l + 2 + k \in 1..(l + 2 + Len(tool)) /\ ~(l + 2 + k <= l + 2)
                                /\ (l + 2 + k) - (l + 2) = k
    BY <1>2
  <2>3. QED BY <1>2, <1>5, <2>1, <2>2 DEF Letters
<1>7. /\ half \in Letters /\ Len(half) = l + 1
      /\ \A k \in 1..l : half[k] = server[k]
      /\ half[l + 1] = Underscore
  <2> DEFINE one == <<Underscore>>
  <2>0. one \in Seq(NameLetters) /\ Len(one) = 1 /\ one[1] = Underscore OBVIOUS
  <2> HIDE DEF server, one
  <2>1. /\ server \o one \in Seq(NameLetters) /\ Len(server \o one) = l + Len(one)
        /\ \A k \in 1..(l + Len(one)) :
             (server \o one)[k] = IF k <= l THEN server[k] ELSE one[k - l]
    BY <1>1, <2>0, ConcatProperties, Zenon DEF Letters
  <2>2. half = server \o one BY DEF one
  <2>3. half \in Letters /\ Len(half) = l + 1 BY <2>0, <2>1, <2>2 DEF Letters
  <2>4. \A k \in 1..(l + 1) : half[k] = IF k <= l THEN server[k] ELSE one[k - l]
    BY <2>0, <2>1, <2>2
  <2> HIDE DEF l, half
  <2>5. (l + 1) - l = 1 /\ l + 1 \in 1..(l + 1) /\ ~(l + 1 <= l) BY <1>2
  <2>6. half[l + 1] = one[1] BY <2>4, <2>5
  <2>7. \A k \in 1..l : k \in 1..(l + 1) /\ k <= l BY <1>2
  <2>8. \A k \in 1..l : half[k] = server[k] BY <2>4, <2>7
  <2>9. QED BY <2>0, <2>3, <2>6, <2>8
<1> HIDE DEF server, l, start, name, half
<1>8. l + 1 \in Separators(name)
  <2>1. l + 1 \in 1..(Len(name) - 1) /\ l + 1 \in 1..(l + 2) /\ (l + 1) + 1 = l + 2 /\ l + 2 \in 1..(l + 2)
    BY <1>2, <1>6
  <2>2. name[l + 1] = Underscore /\ name[(l + 1) + 1] = Underscore BY <1>5, <1>6, <2>1
  <2>3. QED BY <1>6, <2>1, <2>2, SeparatorAt
<1>9. \A k \in Separators(name) : k >= l + 1
  <2>1. SUFFICES ASSUME NEW k \in Separators(name), k < l + 1 PROVE FALSE
    <3>1. \A k \in Separators(name) : k \in Int BY DEF Separators
    <3>2. QED BY <1>2, <3>1
  <2>2. k \in 1..(Len(name) - 1) BY DEF Separators
  <2>3. k \in 1..l /\ (k + 1 \in 1..l \/ k + 1 = l + 1) /\ k \in 1..(l + 2) /\ k + 1 \in 1..(l + 2)
    BY <1>2, <1>6, <2>1, <2>2
  <2>4. name[k] = Underscore /\ name[k + 1] = Underscore BY <1>6, <2>2, SeparatorAt
  <2>5. half[k] = Underscore /\ half[k + 1] = Underscore BY <1>5, <1>6, <1>7, <2>3, <2>4
  <2>6. k \in 1..(Len(half) - 1) BY <1>2, <1>7, <2>3
  <2>7. k \in Separators(half) BY <1>7, <2>5, <2>6, SeparatorAt
  <2>8. Separators(half) = {} BY DEF Routable, half, server
  <2>9. QED BY <2>7, <2>8
<1>10. Min(Separators(name)) = l + 1
  <2>1. \A k \in Separators(name) : k \in Int BY <1>6 DEF Separators, Letters
  <2>2. PICK k \in Separators(name) : /\ k = Min(Separators(name)) /\ \A j \in Separators(name) : k <= j
    BY <1>8, <1>9, <1>2, <2>1 DEF Min
  <2>3. QED BY <1>2, <1>8, <1>9, <2>1, <2>2
<1>11. SubSeq(name, 1, l) = server
  <2>1. /\ l = l - 1 + 1 /\ l <= Len(name) /\ 1 \in Nat /\ 1 >= 1
    BY <1>2, <1>6
  <2>2. \A k \in 1..l : 1 + k - 1 = k /\ k \in 1..(l + 2) BY <1>2
  <2>3. \A k \in 1..l : name[1 + k - 1] = server[k] BY <1>5, <1>6, <2>2
  <2>4. l = Len(server) BY DEF l
  <2>5. QED BY <1>1, <1>2, <1>6, <2>1, <2>3, <2>4, PieceIs
<1>12. SubSeq(name, l + 3, Len(name)) = tool
  <2> DEFINE from == l + 3
  <2>1. /\ from \in Nat /\ Len(name) \in Nat /\ from >= 1 /\ Len(tool) = Len(name) - from + 1
        /\ Len(name) <= Len(name)
    BY <1>2, <1>6
  <2>2. \A k \in 1..Len(tool) : from + k - 1 = l + 2 + k BY <1>2
  <2>3. \A k \in 1..Len(tool) : name[from + k - 1] = tool[k] BY <1>6, <2>2
  <2> HIDE DEF from
  <2>4. SubSeq(name, from, Len(name)) = tool BY <1>1, <1>6, <2>1, <2>3, PieceIs
  <2>5. QED BY <2>4 DEF from
<1>13. Min({j \in Servers : ServerNames[j] = server}) = i
  <2> DEFINE named == {j \in Servers : ServerNames[j] = server}
  <2>1. i \in named /\ \A j \in named : i <= j BY DEF server, Routable
  <2>2. named \subseteq Nat BY ToolServersAssumption DEF Servers
  <2> HIDE DEF named
  <2>3. PICK k \in named : /\ k = Min(named) /\ \A j \in named : k <= j BY <2>1 DEF Min
  <2>4. i \in Nat /\ k \in Nat /\ i <= k /\ k <= i BY <2>1, <2>2, <2>3, Zenon
  <2>5. k = i BY <2>4
  <2>6. QED BY <2>3, <2>5 DEF named
<1>14. (l + 1) - 1 = l /\ (l + 1) + 2 = l + 3 BY <1>2
<1>15. Separators(name) # {} /\ {j \in Servers : ServerNames[j] = server} # {}
  BY <1>8 DEF server
<1>16. SplitName(name) = <<i, tool>>
  BY <1>10, <1>11, <1>12, <1>13, <1>14, <1>15 DEF SplitName
<1>17. QED BY <1>16 DEF name


\* Where a call goes from a server: on to the next, or to its end; what a list has seen.
Onward(call, new, gathered) ==
  /\ new.kind = call.kind /\ new.name = call.name /\ new.tool = call.tool
  /\ Call(new, gathered)
  /\ call.kind = "call" => new.at = call.at /\ new.step \in {"served", "failed"}
  /\ call.kind = "list" =>
       \/ call.at = Len(ServerNames) /\ new.at = call.at /\ new.step = "listed"
       \/ call.at + 1 \in Servers /\ new.at = call.at + 1 /\ new.step = "connect"

\* The servers are numbered from 1, and there is one.
LEMMA ServersAre == Servers = 1..Len(ServerNames) /\ Len(ServerNames) \in Nat /\ 1 \in Servers
BY ToolServersAssumption DEF Servers

\* What a step makes of a call whose server failed it, or answered it.
LEMMA GoesOnward ==
  ASSUME NEW call, CallTyped(call), call.kind \in {"list", "call"}, call.at \in Servers
  PROVE  /\ Onward(call, Unserved(call), call.listed)
         /\ \E gathered \in {call.listed, call.listed \cup {call.at}} :
              Onward(call, Served(call), gathered) /\ (call.kind = "list" => call.at \in gathered)
<1>1. call = [kind |-> call.kind, name |-> call.name, at |-> call.at, tool |-> call.tool,
              step |-> call.step, listed |-> call.listed]
  BY DEF CallTyped, Call
<1>2. call.at = Len(ServerNames) \/ call.at + 1 \in Servers
  <2> DEFINE n == Len(ServerNames)
  <2>1. n \in Nat /\ Servers = 1..n BY ServersAre
  <2> HIDE DEF n
  <2>2. call.at \in 1..n BY <2>1
  <2>3. call.at = n \/ call.at + 1 \in 1..n BY <2>1, <2>2
  <2>4. QED BY <2>1, <2>3 DEF n
<1>3. Onward(call, Unserved(call), call.listed)
  <2>1. CASE call.kind = "call"
    <3>1. Unserved(call) = [kind |-> call.kind, name |-> call.name, at |-> call.at, tool |-> call.tool,
                            step |-> "failed", listed |-> call.listed]
      BY <1>1, <2>1 DEF Unserved
    <3>2. QED BY <2>1, <3>1 DEF Onward, Call
  <2>2. CASE call.kind = "list"
    <3>1. CASE call.at = Len(ServerNames)
      <4>1. Unserved(call) = [kind |-> call.kind, name |-> call.name, at |-> call.at, tool |-> call.tool,
                              step |-> "listed", listed |-> call.listed]
        BY <1>1, <2>2, <3>1 DEF Unserved, OnToNext
      <4>2. QED BY <2>2, <3>1, <4>1 DEF Onward, Call
    <3>2. CASE call.at # Len(ServerNames)
      <4>1. Unserved(call) = [kind |-> call.kind, name |-> call.name, at |-> call.at + 1, tool |-> call.tool,
                              step |-> "connect", listed |-> call.listed]
        BY <1>1, <2>2, <3>2 DEF Unserved, OnToNext
      <4>2. QED BY <1>2, <2>2, <3>2, <4>1 DEF Onward, Call
    <3>3. QED BY <3>1, <3>2
  <2>3. QED BY <2>1, <2>2
<1>4. ASSUME call.kind = "call" PROVE Onward(call, Served(call), call.listed)
  <2>1. Served(call) = [kind |-> call.kind, name |-> call.name, at |-> call.at, tool |-> call.tool,
                        step |-> "served", listed |-> call.listed]
    BY <1>1, <1>4 DEF Served
  <2>2. QED BY <1>4, <2>1 DEF Onward, Call
<1>5. ASSUME call.kind = "list" PROVE Onward(call, Served(call), call.listed \cup {call.at})
  <2> DEFINE tried == [call EXCEPT !.listed = @ \cup {call.at}]
  <2>1. tried = [kind |-> call.kind, name |-> call.name, at |-> call.at, tool |-> call.tool,
                step |-> call.step, listed |-> call.listed \cup {call.at}]
    BY <1>1
  <2>2. Served(call) = OnToNext(tried) BY <1>5 DEF Served
  <2> HIDE DEF tried
  <2>3. CASE call.at = Len(ServerNames)
    <3>1. OnToNext(tried) = [kind |-> call.kind, name |-> call.name, at |-> call.at, tool |-> call.tool,
                            step |-> "listed", listed |-> call.listed \cup {call.at}]
      BY <2>1, <2>3 DEF OnToNext
    <3>2. QED BY <1>5, <2>2, <2>3, <3>1 DEF Onward, Call
  <2>4. CASE call.at # Len(ServerNames)
    <3>1. OnToNext(tried) = [kind |-> call.kind, name |-> call.name, at |-> call.at + 1, tool |-> call.tool,
                            step |-> "connect", listed |-> call.listed \cup {call.at}]
      BY <2>1, <2>4 DEF OnToNext
    <3>2. QED BY <1>2, <1>5, <2>2, <2>4, <3>1 DEF Onward, Call
  <2>5. QED BY <2>3, <2>4
<1>6. QED BY <1>3, <1>4, <1>5

\* What a step may make of a call: it starts, or is with a server and goes on there, or
\* onward, past one that answered or failed for a cause.
Moves(c) ==
  \/ mcpCall'[c] = mcpCall[c]
  \/ /\ CallTyped(mcpCall'[c]) /\ mcpCall'[c].step \in {"connect", "failed"}
     /\ mcpCall'[c].kind = "list" => mcpCall'[c].at = 1
     /\ mcpCall'[c].kind = "call" =>
          /\ mcpCall'[c].at = SplitName(mcpCall'[c].name)[1]
          /\ mcpCall'[c].tool = SplitName(mcpCall'[c].name)[2]
  \/ /\ mcpCall[c].step \in {"connect", "opening", "asking"}
     /\ \/ /\ mcpCall'[c].step \in {"opening", "asking"}
           /\ mcpCall'[c] = [mcpCall[c] EXCEPT !.step = mcpCall'[c].step]
        \/ \E gathered \in {mcpCall[c].listed, mcpCall[c].listed \cup {AtNow(c)}} :
             /\ Onward(mcpCall[c], mcpCall'[c], gathered)
             /\ mcpCall[c].kind = "list" =>
                  \A i \in Servers : i = AtNow(c) => i \in gathered \/ Excused(c, i)'

\* Calls that move so stay what they may be: a list lacks what it has passed for a cause
\* only, and a call of a tool stays with the server and the tool its name means.
LEMMA CallsMove ==
  ASSUME ServersInv, mcpCall' = [c \in McpCalls |-> mcpCall'[c]], \A c \in McpCalls : Moves(c),
         \A c \in McpCalls, i \in Servers : Excused(c, i) => Excused(c, i)'
  PROVE  /\ \A c \in McpCalls : CallTyped(mcpCall'[c])
         /\ ListsSoFar' /\ CallsAsNamed'
<1>1. ASSUME NEW c \in McpCalls
      PROVE  /\ CallTyped(mcpCall'[c])
             /\ mcpCall'[c].kind = "list" =>
                  \A i \in Servers : i < mcpCall'[c].at \/ mcpCall'[c].step = "listed" =>
                    i \in mcpCall'[c].listed \/ Excused(c, i)'
             /\ mcpCall'[c].kind = "call" =>
                  /\ mcpCall'[c].at = SplitName(mcpCall'[c].name)[1]
                  /\ mcpCall'[c].tool = SplitName(mcpCall'[c].name)[2]
  <2> DEFINE old == mcpCall[c]
             new == mcpCall'[c]
  <2>1. CallTyped(old) BY DEF ServersInv, ServersTyped
  <2>2. old.kind = "list" =>
          \A i \in Servers : i < old.at \/ old.step = "listed" => i \in old.listed \/ Excused(c, i)'
    <3>1. ASSUME old.kind = "list", NEW i \in Servers, i < old.at \/ old.step = "listed"
          PROVE  i \in old.listed \/ Excused(c, i)
      BY <3>1 DEF ServersInv, ListsSoFar, CallAt, AtNow
    <3>2. ASSUME NEW i \in Servers, Excused(c, i) PROVE Excused(c, i)' BY <3>2
    <3>3. QED BY <3>1, <3>2
  <2>3. old.kind = "call" => old.at = SplitName(old.name)[1] /\ old.tool = SplitName(old.name)[2]
    BY DEF ServersInv, CallsAsNamed
  <2>4. Moves(c) OBVIOUS
  <2> HIDE DEF old, new
  <2>5. CASE new = old BY <2>1, <2>2, <2>3, <2>5 DEF new
  <2>6. CASE /\ old.step \in {"connect", "opening", "asking"} /\ new.step \in {"opening", "asking"}
             /\ new = [old EXCEPT !.step = new.step]
    <3>1. new = [kind |-> old.kind, name |-> old.name, at |-> old.at, tool |-> old.tool,
                 step |-> new.step, listed |-> old.listed]
      BY <2>1, <2>6 DEF CallTyped, Call
    <3>2. /\ new.kind = old.kind /\ new.name = old.name /\ new.at = old.at /\ new.tool = old.tool
          /\ new.listed = old.listed
      BY <3>1
    <3>3. CallTyped(new) BY <2>1, <2>6, <3>1, <3>2 DEF CallTyped, Call, McpSteps
    <3>4. QED BY <2>2, <2>3, <2>6, <3>2, <3>3 DEF new
  <2>7. ASSUME old.step \in {"connect", "opening", "asking"},
               NEW gathered \in {old.listed, old.listed \cup {old.at}}, Onward(old, new, gathered),
               old.kind = "list" => \A i \in Servers : i = old.at => i \in gathered \/ Excused(c, i)'
        PROVE  /\ CallTyped(new)
               /\ new.kind = "list" =>
                    \A i \in Servers : i < new.at \/ new.step = "listed" =>
                      i \in new.listed \/ Excused(c, i)'
               /\ new.kind = "call" =>
                    new.at = SplitName(new.name)[1] /\ new.tool = SplitName(new.name)[2]
    <3>1. /\ new.kind = old.kind /\ new.name = old.name /\ new.tool = old.tool /\ new.listed = gathered
          /\ Call(new, new.listed)
      BY <2>7 DEF Onward, Call
    <3>2. old.at \in Servers /\ gathered \subseteq Servers /\ old.listed \subseteq gathered
      BY <2>1, <2>7 DEF CallTyped
    <3>3. old.kind \in {"list", "call"} BY <2>1, <2>7 DEF CallTyped
    <3>4. CASE old.kind = "call"
      <4>1. new.at = old.at /\ new.step \in {"served", "failed"} BY <2>7, <3>4 DEF Onward
      <4>2. CallTyped(new) BY <2>1, <3>1, <3>2, <3>4, <4>1 DEF CallTyped, McpSteps
      <4>3. QED BY <2>3, <3>1, <3>4, <4>1, <4>2
    <3>5. CASE old.kind = "list"
      <4>1. \/ old.at = Len(ServerNames) /\ new.at = old.at /\ new.step = "listed"
            \/ old.at + 1 \in Servers /\ new.at = old.at + 1 /\ new.step = "connect"
        BY <2>7, <3>5 DEF Onward
      <4>2. CallTyped(new) BY <2>1, <3>1, <3>2, <3>5, <4>1, ServersAre DEF CallTyped, McpSteps
      <4>3. ASSUME NEW i \in Servers, i < new.at \/ new.step = "listed" PROVE i < old.at \/ i = old.at
        BY <3>2, <4>1, <4>3, ServersAre
      <4>4. \A i \in Servers : i = old.at => i \in gathered \/ Excused(c, i)' BY <2>7, <3>5
      <4>5. ASSUME NEW i \in Servers, i < new.at \/ new.step = "listed"
            PROVE  i \in new.listed \/ Excused(c, i)'
        <5>1. CASE i < old.at
          <6>1. i \in old.listed \/ Excused(c, i)' BY <2>2, <3>5, <5>1
          <6>2. QED BY <3>1, <3>2, <6>1
        <5>2. CASE i = old.at BY <3>1, <4>4, <5>2
        <5>3. QED BY <4>3, <4>5, <5>1, <5>2
      <4>6. QED BY <3>1, <3>5, <4>2, <4>5
    <3>6. QED BY <3>3, <3>4, <3>5
  <2>8. ASSUME CallTyped(new), new.step \in {"connect", "failed"}, new.kind = "list" => new.at = 1,
               new.kind = "call" =>
                 new.at = SplitName(new.name)[1] /\ new.tool = SplitName(new.name)[2]
        PROVE  new.kind = "list" =>
                 \A i \in Servers : i < new.at \/ new.step = "listed" =>
                   i \in new.listed \/ Excused(c, i)'
    <3>1. \A i \in Servers : ~(i < 1) BY ServersAre
    <3>2. QED BY <2>8, <3>1
  <2>9. QED BY <2>4, <2>5, <2>6, <2>7, <2>8 DEF Moves, old, new, AtNow
<1>2. ListsSoFar' BY <1>1 DEF ListsSoFar, CallAt, AtNow
<1>3. CallsAsNamed' BY <1>1 DEF CallsAsNamed
<1>4. QED BY <1>1, <1>2, <1>3


\* A name means a server there is, or nobody.
LEMMA SplitsToServer ==
  ASSUME NEW name
  PROVE  SplitName(name)[1] \in {0} \cup Servers
<1> DEFINE k == Min(Separators(name))
           named == {i \in Servers : ServerNames[i] = SubSeq(name, 1, k - 1)}
           rest == SubSeq(name, k + 2, Len(name))
<1>1. SplitName(name) = IF Separators(name) = {} \/ named = {} THEN <<0, <<>>>> ELSE <<Min(named), rest>>
  BY DEF SplitName
<1>2. named # {} => Min(named) \in Servers
  <2>1. named \in SUBSET Nat /\ named \subseteq Servers BY ServersAre
  <2> HIDE DEF named
  <2>2. QED BY <2>1, HasMin
<1> HIDE DEF named, rest
<1>3. CASE Separators(name) = {} \/ named = {}
  <2>1. SplitName(name) = <<0, <<>>>> BY <1>1, <1>3
  <2>2. QED BY <2>1
<1>4. CASE ~(Separators(name) = {} \/ named = {})
  <2>1. SplitName(name) = <<Min(named), rest>> BY <1>1, <1>4
  <2> DEFINE first == Min(named)
  <2>2. first \in Servers BY <1>2, <1>4
  <2>3. SplitName(name) = <<first, rest>> BY <2>1
  <2> HIDE DEF first
  <2>4. SplitName(name)[1] = first BY <2>3
  <2>5. QED BY <2>2, <2>4
<1>5. QED BY <1>3, <1>4


\* A record of a call with another field, and a call as it starts.
LEMMA CallWith ==
  ASSUME NEW kind, NEW name, NEW at, NEW tool, NEW step, NEW listed, NEW new, NEW call,
         call = [kind |-> kind, name |-> name, at |-> at, tool |-> tool, step |-> step, listed |-> listed]
  PROVE  /\ [call EXCEPT !.kind = new] =
              [kind |-> new, name |-> name, at |-> at, tool |-> tool, step |-> step, listed |-> listed]
         /\ [call EXCEPT !.name = new] =
              [kind |-> kind, name |-> new, at |-> at, tool |-> tool, step |-> step, listed |-> listed]
         /\ [call EXCEPT !.at = new] =
              [kind |-> kind, name |-> name, at |-> new, tool |-> tool, step |-> step, listed |-> listed]
         /\ [call EXCEPT !.tool = new] =
              [kind |-> kind, name |-> name, at |-> at, tool |-> new, step |-> step, listed |-> listed]
         /\ [call EXCEPT !.step = new] =
              [kind |-> kind, name |-> name, at |-> at, tool |-> tool, step |-> new, listed |-> listed]
<1>1. /\ call.kind = kind /\ call.name = name /\ call.at = at /\ call.tool = tool /\ call.step = step
      /\ call.listed = listed
  OBVIOUS
<1>2. [call EXCEPT !.kind = new] =
        [kind |-> new, name |-> name, at |-> at, tool |-> tool, step |-> step, listed |-> listed]
  OBVIOUS
<1>3. [call EXCEPT !.name = new] =
        [kind |-> kind, name |-> new, at |-> at, tool |-> tool, step |-> step, listed |-> listed]
  OBVIOUS
<1>4. [call EXCEPT !.at = new] =
        [kind |-> kind, name |-> name, at |-> new, tool |-> tool, step |-> step, listed |-> listed]
  OBVIOUS
<1>5. [call EXCEPT !.tool = new] =
        [kind |-> kind, name |-> name, at |-> at, tool |-> new, step |-> step, listed |-> listed]
  OBVIOUS
<1>6. [call EXCEPT !.step = new] =
        [kind |-> kind, name |-> name, at |-> at, tool |-> tool, step |-> new, listed |-> listed]
  OBVIOUS
<1>7. QED BY <1>2, <1>3, <1>4, <1>5, <1>6

\* A call that lists, as it starts.
LEMMA NewList ==
  ASSUME NEW kind, NEW at, NEW step
  PROVE  [NoMcpCall EXCEPT !.kind = kind, !.at = at, !.step = step] =
           [kind |-> kind, name |-> <<>>, at |-> at, tool |-> <<>>, step |-> step, listed |-> {}]
<1> DEFINE none == <<>>
           nobody == {}
           idle == "idle"
           first == [NoMcpCall EXCEPT !.kind = kind]
           sited == [first EXCEPT !.at = at]
<1>1. NoMcpCall = [kind |-> "none", name |-> none, at |-> 0, tool |-> none, step |-> idle, listed |-> nobody]
  BY DEF NoMcpCall
<1>2. [NoMcpCall EXCEPT !.kind = kind, !.at = at, !.step = step] = [sited EXCEPT !.step = step]
  OBVIOUS
<1> HIDE DEF none, nobody, idle
<1>3. first = [kind |-> kind, name |-> none, at |-> 0, tool |-> none, step |-> idle, listed |-> nobody]
  BY <1>1, CallWith
<1> HIDE DEF first
<1>4. sited = [kind |-> kind, name |-> none, at |-> at, tool |-> none, step |-> idle, listed |-> nobody]
  BY <1>3, CallWith
<1> HIDE DEF sited
<1>5. [sited EXCEPT !.step = step] =
        [kind |-> kind, name |-> none, at |-> at, tool |-> none, step |-> step, listed |-> nobody]
  BY <1>4, CallWith
<1>6. QED BY <1>2, <1>5 DEF none, nobody

\* A call that has just begun.
Begun(kind, name, at, tool, step) ==
  [NoMcpCall EXCEPT !.kind = kind, !.name = name, !.at = at, !.tool = tool, !.step = step]

\* A call of a tool, as it starts.
LEMMA NewCall ==
  ASSUME NEW kind, NEW name, NEW at, NEW tool, NEW step
  PROVE  Begun(kind, name, at, tool, step) =
           [kind |-> kind, name |-> name, at |-> at, tool |-> tool, step |-> step, listed |-> {}]
<1> DEFINE none == <<>>
           nobody == {}
           idle == "idle"
           first == [NoMcpCall EXCEPT !.kind = kind]
           named == [first EXCEPT !.name = name]
           sought == [named EXCEPT !.at = at]
           tooled == [sought EXCEPT !.tool = tool]
<1>1. NoMcpCall = [kind |-> "none", name |-> none, at |-> 0, tool |-> none, step |-> idle, listed |-> nobody]
  BY DEF NoMcpCall
<1>2. Begun(kind, name, at, tool, step) = [tooled EXCEPT !.step = step] BY DEF Begun
<1> HIDE DEF none, nobody, idle
<1>3. first = [kind |-> kind, name |-> none, at |-> 0, tool |-> none, step |-> idle, listed |-> nobody]
  BY <1>1, CallWith
<1> HIDE DEF first
<1>4. named = [kind |-> kind, name |-> name, at |-> 0, tool |-> none, step |-> idle, listed |-> nobody]
  BY <1>3, CallWith
<1> HIDE DEF named
<1>5. sought = [kind |-> kind, name |-> name, at |-> at, tool |-> none, step |-> idle, listed |-> nobody]
  BY <1>4, CallWith
<1> HIDE DEF sought
<1>6. tooled = [kind |-> kind, name |-> name, at |-> at, tool |-> tool, step |-> idle, listed |-> nobody]
  BY <1>5, CallWith
<1> HIDE DEF tooled
<1>7. [tooled EXCEPT !.step = step] =
        [kind |-> kind, name |-> name, at |-> at, tool |-> tool, step |-> step, listed |-> nobody]
  BY <1>6, CallWith
<1>8. QED BY <1>2, <1>7 DEF nobody


\* Together with what becomes of the connections.
LEMMA MovesKeep ==
  ASSUME ServersInv, mcpCall' = [c \in McpCalls |-> mcpCall'[c]], \A c \in McpCalls : Moves(c),
         \A c \in McpCalls, i \in Servers : Excused(c, i) => Excused(c, i)',
         sdk' \in [Servers -> {"closed", "opening", "open", "closing"}],
         connected' \in [Servers -> BOOLEAN], endedServers' \in Seq(Servers),
         FlagTells', OneOpens'
  PROVE  ServersInv'
<1>1. (\A c \in McpCalls : CallTyped(mcpCall'[c])) /\ ListsSoFar' /\ CallsAsNamed' BY CallsMove
<1>2. ServersTyped' BY <1>1 DEF ServersTyped
<1>3. QED BY <1>1, <1>2 DEF ServersInv

\* A step of one call leaves the others.
LEMMA CallBecomes ==
  ASSUME ServersInv, NEW c \in McpCalls, NEW call, CallIs(c, call)
  PROVE  /\ mcpCall' = [d \in McpCalls |-> mcpCall'[d]]
         /\ mcpCall'[c] = call
         /\ \A d \in McpCalls : d # c => mcpCall'[d] = mcpCall[d]
<1>1. mcpCall = [d \in McpCalls |-> mcpCall[d]] BY DEF ServersInv, ServersTyped
<1>2. mcpCall' = [mcpCall EXCEPT ![c] = call] BY DEF CallIs
<1>3. QED BY <1>1, <1>2

\* A cause stays one.
LEMMA CausesStay ==
  ASSUME trouble \subseteq trouble', closedAll => closedAll', endedServers' = endedServers
  PROVE  \A c \in McpCalls, i \in Servers : Excused(c, i) => Excused(c, i)'
BY DEF Excused, HasEnded

\* A call is past a server that did not answer, for a cause, or that did.
LEMMA FailsAt ==
  ASSUME ServersInv, NEW c \in McpCalls, mcpCall[c].step \in {"connect", "opening", "asking"},
         mcpCall'[c] = Unserved(mcpCall[c]), \A i \in Servers : i = AtNow(c) => Excused(c, i)'
  PROVE  Moves(c) /\ mcpCall'[c].step \notin {"opening", "asking"}
<1> DEFINE call == mcpCall[c]
           new == mcpCall'[c]
<1>1. CallTyped(call) BY DEF ServersInv, ServersTyped
<1>2. call.kind \in {"list", "call"} /\ call.at \in Servers BY <1>1 DEF CallTyped
<1>3. Onward(call, new, call.listed) BY <1>1, <1>2, GoesOnward
<1>4. call.step \in {"connect", "opening", "asking"} OBVIOUS
<1> HIDE DEF call, new
<1>5. new.step \notin {"opening", "asking"} BY <1>2, <1>3 DEF Onward
<1>6. QED BY <1>3, <1>4, <1>5 DEF Moves, AtNow, call, new

\* And when it did answer.
LEMMA ServedAt ==
  ASSUME ServersInv, NEW c \in McpCalls, mcpCall[c].step \in {"connect", "opening", "asking"},
         mcpCall'[c] = Served(mcpCall[c])
  PROVE  Moves(c) /\ mcpCall'[c].step \notin {"opening", "asking"}
<1> DEFINE call == mcpCall[c]
           new == mcpCall'[c]
<1>1. CallTyped(call) BY DEF ServersInv, ServersTyped
<1>2. call.kind \in {"list", "call"} /\ call.at \in Servers BY <1>1 DEF CallTyped
<1>3. PICK gathered \in {call.listed, call.listed \cup {call.at}} :
        Onward(call, new, gathered) /\ (call.kind = "list" => call.at \in gathered)
  BY <1>1, <1>2, GoesOnward
<1>4. call.step \in {"connect", "opening", "asking"} OBVIOUS
<1> HIDE DEF call, new
<1>5. new.step \notin {"opening", "asking"} BY <1>2, <1>3 DEF Onward
<1>6. QED BY <1>3, <1>4, <1>5 DEF Moves, AtNow, call, new

\* The steps of a call that open and close nothing.
LEMMA OpensNothing ==
  ASSUME ServersInv, NEW c \in McpCalls, Moves(c), mcpCall'[c].step # "opening",
         mcpCall' = [d \in McpCalls |-> mcpCall'[d]],
         \A d \in McpCalls : d # c => mcpCall'[d] = mcpCall[d],
         trouble \subseteq trouble', UNCHANGED <<sdk, connected, endedServers, closedAll>>
  PROVE  ServersInv'
<1>1. \A d \in McpCalls : Moves(d) BY DEF Moves
<1>2. \A d \in McpCalls, i \in Servers : Excused(d, i) => Excused(d, i)' BY CausesStay
<1>3. FlagTells' BY DEF ServersInv, FlagTells
<1>4. OneOpens' BY DEF ServersInv, OneOpens, CallAt, AtNow
<1>5. QED BY <1>1, <1>2, <1>3, <1>4, MovesKeep DEF ServersInv, ServersTyped

\* listTools: the call starts at the first server.
LEMMA ListToolsKeeps ==
  ASSUME ServersInv, NEW c \in McpCalls, ListTools(c)
  PROVE  ServersInv'
<1> DEFINE new == [kind |-> "list", name |-> <<>>, at |-> 1, tool |-> <<>>, step |-> "connect", listed |-> {}]
<1>1. CallIs(c, new)
  <2>1. CallIs(c, [NoMcpCall EXCEPT !.kind = "list", !.at = 1, !.step = "connect"]) BY DEF ListTools
  <2>2. [NoMcpCall EXCEPT !.kind = "list", !.at = 1, !.step = "connect"] = new BY NewList, Zenon
  <2>3. QED BY <2>1, <2>2
<1>2. CallTyped(new) BY ServersAre DEF CallTyped, Call, McpSteps
<1>3. new.kind = "list" /\ new.at = 1 /\ new.step = "connect" OBVIOUS
<1> HIDE DEF new
<1>4. /\ mcpCall' = [d \in McpCalls |-> mcpCall'[d]] /\ mcpCall'[c] = new
      /\ \A d \in McpCalls : d # c => mcpCall'[d] = mcpCall[d]
  BY <1>1, CallBecomes
<1>5. Moves(c) BY <1>2, <1>3, <1>4 DEF Moves
<1>6. QED BY <1>3, <1>4, <1>5, OpensNothing DEF ListTools

\* callTool: the call starts at the server that its name means, or fails.
LEMMA CallToolKeeps ==
  ASSUME ServersInv, NEW c \in McpCalls, CallTool(c)
  PROVE  ServersInv'
<1>1. PICK name : CallIs(c, [NoMcpCall EXCEPT !.kind = "call", !.name = name,
                    !.at = SplitName(name)[1], !.tool = SplitName(name)[2],
                    !.step = IF SplitName(name)[1] = 0 THEN "failed" ELSE "connect"])
  BY DEF CallTool
<1> DEFINE at == SplitName(name)[1]
           tool == SplitName(name)[2]
           step == IF at = 0 THEN "failed" ELSE "connect"
           begun == Begun("call", name, at, tool, step)
           new == [kind |-> "call", name |-> name, at |-> at, tool |-> tool, step |-> step, listed |-> {}]
<1>2. CallIs(c, begun) BY <1>1 DEF Begun
<1>3. at \in {0} \cup Servers BY SplitsToServer
<1>4. step \in {"failed", "connect"} /\ (step = "connect" => at \in Servers) BY <1>3
<1> HIDE DEF at, tool, step
<1>5. begun = new BY NewCall
<1> HIDE DEF begun
<1>6. CallTyped(new) BY <1>3, <1>4, ServersAre DEF CallTyped, Call, McpSteps
<1>7. /\ new.kind = "call" /\ new.name = name /\ new.at = at /\ new.tool = tool
      /\ new.step = step
  OBVIOUS
<1> HIDE DEF new
<1>8. /\ mcpCall' = [d \in McpCalls |-> mcpCall'[d]] /\ mcpCall'[c] = new
      /\ \A d \in McpCalls : d # c => mcpCall'[d] = mcpCall[d]
  BY <1>2, <1>5, CallBecomes
<1>9. Moves(c) BY <1>4, <1>6, <1>7, <1>8 DEF Moves, at, tool
<1>10. mcpCall'[c].step # "opening" BY <1>4, <1>7, <1>8
<1>11. QED BY <1>8, <1>9, <1>10, OpensNothing DEF CallTool

\* connect: nobody else is opening a connection that is closed.
LEMMA BeginConnectKeeps ==
  ASSUME ServersInv, NEW c \in McpCalls, BeginConnect(c)
  PROVE  ServersInv'
<1> DEFINE i == AtNow(c)
           new == [mcpCall[c] EXCEPT !.step = "opening"]
<1>1. CallIs(c, new) BY DEF BeginConnect
<1>2. CallTyped(mcpCall[c]) BY DEF ServersInv, ServersTyped
<1>3. i \in Servers /\ sdk[i] = "closed" /\ ~connected[i] /\ mcpCall[c].step = "connect"
  BY <1>2 DEF BeginConnect, CallTyped, CallAt, AtNow
<1>4. new.at = i /\ new.step = "opening" BY <1>2 DEF CallTyped, Call, AtNow
<1>5. /\ mcpCall' = [d \in McpCalls |-> mcpCall'[d]] /\ mcpCall'[c] = new
      /\ \A d \in McpCalls : d # c => mcpCall'[d] = mcpCall[d]
  BY <1>1, CallBecomes
<1>6. \A d \in McpCalls : Moves(d) BY <1>3, <1>4, <1>5 DEF Moves
<1> HIDE DEF new
<1>7. sdk' = [sdk EXCEPT ![i] = "opening"] /\ UNCHANGED <<connected, endedServers, trouble, closedAll>>
  BY DEF BeginConnect
<1> HIDE DEF i
<1>8. /\ sdk' \in [Servers -> {"closed", "opening", "open", "closing"}] /\ sdk'[i] = "opening"
      /\ \A j \in Servers : j # i => sdk'[j] = sdk[j]
  BY <1>3, <1>7 DEF ServersInv, ServersTyped
<1>9. \A d \in McpCalls, j \in Servers : Excused(d, j) => Excused(d, j)' BY <1>7, CausesStay
<1>10. FlagTells' BY <1>3, <1>7, <1>8 DEF ServersInv, FlagTells
<1>11. OneOpens'
  <2>1. mcpCall'[c].step = "opening" /\ mcpCall'[c].at = i BY <1>4, <1>5
  <2>2. ASSUME NEW d \in McpCalls, d # c, mcpCall'[d].step = "opening"
        PROVE  mcpCall'[d].at \in Servers /\ sdk'[mcpCall'[d].at] = "opening" /\ mcpCall'[d].at # i
    <3>1. CallTyped(mcpCall[d]) BY DEF ServersInv, ServersTyped
    <3>2. mcpCall[d].step = "opening" /\ mcpCall'[d].at = mcpCall[d].at BY <1>5, <2>2
    <3>3. mcpCall[d].at \in Servers BY <3>1, <3>2 DEF CallTyped
    <3>4. sdk[mcpCall[d].at] = "opening" BY <3>2 DEF ServersInv, OneOpens, CallAt, AtNow
    <3>5. QED BY <1>3, <1>8, <3>2, <3>3, <3>4
  <2>3. \A d \in McpCalls : mcpCall'[d].step = "opening" => sdk'[mcpCall'[d].at] = "opening"
    BY <1>8, <2>1, <2>2
  <2>4. \A d, e \in McpCalls : mcpCall'[d].step = "opening" /\ mcpCall'[e].step = "opening"
                                 /\ mcpCall'[d].at = mcpCall'[e].at => d = e
    <3>1. SUFFICES ASSUME NEW d \in McpCalls, NEW e \in McpCalls, mcpCall'[d].step = "opening",
                          mcpCall'[e].step = "opening", mcpCall'[d].at = mcpCall'[e].at, d # e
                   PROVE  FALSE
      OBVIOUS
    <3>2. d # c /\ e # c BY <2>1, <2>2, <3>1
    <3>3. mcpCall[d].step = "opening" /\ mcpCall[e].step = "opening" /\ mcpCall[d].at = mcpCall[e].at
      BY <1>5, <3>1, <3>2
    <3>4. QED BY <3>1, <3>3 DEF ServersInv, OneOpens, CallAt, AtNow
  <2>5. \A j \in Servers : (sdk'[j] = "opening" => ~connected'[j]) /\ (sdk'[j] = "closing" => closedAll')
    BY <1>3, <1>7, <1>8 DEF ServersInv, OneOpens
  <2>6. QED BY <2>3, <2>4, <2>5 DEF OneOpens, CallAt, AtNow
<1>12. QED BY <1>5, <1>6, <1>7, <1>8, <1>9, <1>10, <1>11, MovesKeep DEF ServersInv, ServersTyped


\* The connection a call was opening is there, or is not.
LEMMA OpeningEnds ==
  ASSUME ServersInv, NEW c \in McpCalls, CallAt(c, "opening"), Moves(c), mcpCall'[c].step # "opening",
         mcpCall' = [d \in McpCalls |-> mcpCall'[d]],
         \A d \in McpCalls : d # c => mcpCall'[d] = mcpCall[d],
         trouble \subseteq trouble', UNCHANGED <<endedServers, closedAll>>,
         NEW isUp \in BOOLEAN,
         sdk' = [sdk EXCEPT ![AtNow(c)] = IF isUp THEN "open" ELSE "closed"],
         connected' = [connected EXCEPT ![AtNow(c)] = isUp]
  PROVE  ServersInv'
<1> DEFINE i == AtNow(c)
<1>1. CallTyped(mcpCall[c]) BY DEF ServersInv, ServersTyped
<1>2. i \in Servers BY <1>1 DEF CallTyped, CallAt, AtNow
<1>3. \A d \in McpCalls : Moves(d) BY DEF Moves
<1>4. \A d \in McpCalls, j \in Servers : Excused(d, j) => Excused(d, j)' BY CausesStay
<1> HIDE DEF i
<1>5. /\ sdk' = [sdk EXCEPT ![i] = IF isUp THEN "open" ELSE "closed"]
      /\ connected' = [connected EXCEPT ![i] = isUp]
  BY DEF i
<1>6. /\ sdk' \in [Servers -> {"closed", "opening", "open", "closing"}]
      /\ sdk'[i] = (IF isUp THEN "open" ELSE "closed")
      /\ \A j \in Servers : j # i => sdk'[j] = sdk[j]
  BY <1>2, <1>5 DEF ServersInv, ServersTyped
<1>7. /\ connected' \in [Servers -> BOOLEAN] /\ connected'[i] = isUp
      /\ \A j \in Servers : j # i => connected'[j] = connected[j]
  BY <1>2, <1>5 DEF ServersInv, ServersTyped
<1>8. FlagTells'
  <2>1. \A j \in Servers : j # i =>
          /\ sdk'[j] = "open" => connected'[j]
          /\ connected'[j] => sdk'[j] \in {"open", "closing"}
                              \/ \E k \in DOMAIN endedServers' : endedServers'[k] = j
    BY <1>6, <1>7 DEF ServersInv, FlagTells
  <2>2. (sdk'[i] = "open" => connected'[i]) /\ (connected'[i] => sdk'[i] = "open") BY <1>6, <1>7
  <2>3. QED BY <2>1, <2>2 DEF FlagTells
<1>9. OneOpens'
  <2>1. ASSUME NEW d \in McpCalls, mcpCall'[d].step = "opening"
        PROVE  /\ d # c /\ mcpCall[d].step = "opening" /\ mcpCall'[d].at = mcpCall[d].at
               /\ mcpCall[d].at \in Servers /\ mcpCall[d].at # i
    <3>1. d # c /\ mcpCall'[d] = mcpCall[d] BY <2>1
    <3>2. mcpCall[d].step = "opening" BY <2>1, <3>1
    <3>3. CallTyped(mcpCall[d]) BY DEF ServersInv, ServersTyped
    <3>4. mcpCall[d].at \in Servers BY <3>2, <3>3 DEF CallTyped
    <3>5. mcpCall[d].at # i BY <3>1, <3>2 DEF ServersInv, OneOpens, CallAt, AtNow, i
    <3>6. QED BY <3>1, <3>2, <3>4, <3>5
  <2>2. \A d \in McpCalls : mcpCall'[d].step = "opening" => sdk'[mcpCall'[d].at] = "opening"
    <3>1. SUFFICES ASSUME NEW d \in McpCalls, mcpCall'[d].step = "opening"
                   PROVE  sdk'[mcpCall'[d].at] = "opening"
      OBVIOUS
    <3>2. mcpCall[d].step = "opening" /\ mcpCall'[d].at = mcpCall[d].at
          /\ mcpCall[d].at \in Servers /\ mcpCall[d].at # i
      BY <2>1, <3>1
    <3>3. sdk[mcpCall[d].at] = "opening" BY <3>2 DEF ServersInv, OneOpens, CallAt, AtNow
    <3>4. QED BY <1>6, <3>2, <3>3
  <2>3. \A d, e \in McpCalls : mcpCall'[d].step = "opening" /\ mcpCall'[e].step = "opening"
                                 /\ mcpCall'[d].at = mcpCall'[e].at => d = e
    <3>1. SUFFICES ASSUME NEW d \in McpCalls, NEW e \in McpCalls, mcpCall'[d].step = "opening",
                          mcpCall'[e].step = "opening", mcpCall'[d].at = mcpCall'[e].at
                   PROVE  d = e
      OBVIOUS
    <3>2. mcpCall[d].step = "opening" /\ mcpCall[e].step = "opening" /\ mcpCall[d].at = mcpCall[e].at
      BY <2>1, <3>1
    <3>3. QED BY <3>2 DEF ServersInv, OneOpens, CallAt, AtNow
  <2>4. \A j \in Servers : (sdk'[j] = "opening" => ~connected'[j]) /\ (sdk'[j] = "closing" => closedAll')
    <3>1. \A j \in Servers : j # i =>
            (sdk'[j] = "opening" => ~connected'[j]) /\ (sdk'[j] = "closing" => closedAll')
      BY <1>6, <1>7 DEF ServersInv, OneOpens
    <3>2. sdk'[i] \notin {"opening", "closing"} BY <1>6
    <3>3. QED BY <3>1, <3>2
  <2>5. QED BY <2>2, <2>3, <2>4 DEF OneOpens, CallAt, AtNow
<1>10. endedServers' \in Seq(Servers) BY DEF ServersInv, ServersTyped
<1>11. QED BY <1>3, <1>4, <1>6, <1>7, <1>8, <1>9, <1>10, MovesKeep

\* What else a call does by itself.
LEMMA CallKeeps ==
  ASSUME ServersInv, NEW c \in McpCalls,
         ConnectRejects(c) \/ AskServer(c) \/ Opened(c) \/ OpenFails(c) \/ AnswerTools(c) \/ TimeOut(c)
  PROVE  ServersInv'
<1> DEFINE i == AtNow(c)
           sought == [mcpCall[c] EXCEPT !.step = "asking"]
<1>1. CallTyped(mcpCall[c]) BY DEF ServersInv, ServersTyped
<1>2. mcpCall[c].step \in {"connect", "opening", "asking"} /\ i \in Servers
  BY <1>1 DEF ConnectRejects, AskServer, Opened, OpenFails, AnswerTools, TimeOut, CallTyped, CallAt, AtNow
<1>3. ASSUME CallIs(c, Unserved(mcpCall[c])), Excused(c, i) \/ <<c, i>> \in trouble',
             trouble \subseteq trouble', closedAll => closedAll', endedServers' = endedServers
      PROVE  Moves(c) /\ mcpCall'[c].step # "opening"
  <2>1. mcpCall'[c] = Unserved(mcpCall[c]) BY <1>3, CallBecomes
  <2>2. \A j \in Servers : j = AtNow(c) => Excused(c, j)' BY <1>3 DEF Excused, HasEnded
  <2>3. QED BY <1>2, <2>1, <2>2, FailsAt
<1>4. ASSUME CallIs(c, sought) PROVE Moves(c) /\ mcpCall'[c].step # "opening"
  <2>1. mcpCall'[c] = sought BY <1>4, CallBecomes
  <2>2. sought.step = "asking" BY <1>1 DEF CallTyped, Call
  <2>3. QED BY <1>2, <2>1, <2>2 DEF Moves
<1>5. CASE ConnectRejects(c)
  <2>1. CallIs(c, Unserved(mcpCall[c])) /\ trouble \subseteq trouble'
        /\ UNCHANGED <<sdk, connected, endedServers, closedAll>>
    BY <1>5 DEF ConnectRejects
  <2>2. Excused(c, i) \/ <<c, i>> \in trouble'
    <3>1. sdk[i] # (IF connected[i] THEN "open" ELSE "closed")
          /\ (sdk[i] = "opening" => <<c, i>> \in trouble')
      BY <1>5 DEF ConnectRejects
    <3>2. sdk[i] \in {"closed", "opening", "open", "closing"} /\ connected[i] \in BOOLEAN
      BY <1>2 DEF ServersInv, ServersTyped
    <3>3. /\ sdk[i] = "open" => connected[i]
          /\ connected[i] => sdk[i] \in {"open", "closing"} \/ HasEnded(i)
          /\ sdk[i] = "closing" => closedAll
      BY <1>2 DEF ServersInv, FlagTells, OneOpens, HasEnded
    <3>4. QED BY <3>1, <3>2, <3>3 DEF Excused
  <2>3. Moves(c) /\ mcpCall'[c].step # "opening" BY <1>3, <2>1, <2>2
  <2>4. QED BY <2>1, <2>3, CallBecomes, OpensNothing
<1>6. CASE AskServer(c)
  <2>1. CallIs(c, sought) BY <1>6 DEF AskServer
  <2>2. QED BY <1>4, <1>6, <2>1, CallBecomes, OpensNothing DEF AskServer
<1>7. CASE Opened(c)
  <2>1. CallIs(c, sought) BY <1>7 DEF Opened
  <2>2. Moves(c) /\ mcpCall'[c].step # "opening" BY <1>4, <2>1
  <2>3. /\ CallAt(c, "opening") /\ sdk' = [sdk EXCEPT ![AtNow(c)] = IF TRUE THEN "open" ELSE "closed"]
        /\ connected' = [connected EXCEPT ![AtNow(c)] = TRUE]
        /\ UNCHANGED <<endedServers, trouble, closedAll>>
    BY <1>7 DEF Opened
  <2>4. /\ mcpCall' = [d \in McpCalls |-> mcpCall'[d]]
        /\ \A d \in McpCalls : d # c => mcpCall'[d] = mcpCall[d]
    BY <2>1, CallBecomes
  <2>5. QED BY <2>2, <2>3, <2>4, OpeningEnds
<1>8. CASE OpenFails(c)
  <2>1. CallIs(c, Unserved(mcpCall[c])) /\ <<c, i>> \in trouble' /\ trouble \subseteq trouble'
        /\ UNCHANGED <<connected, endedServers, closedAll>>
    BY <1>8 DEF OpenFails
  <2>2. Moves(c) /\ mcpCall'[c].step # "opening" BY <1>3, <2>1
  <2>3. CallAt(c, "opening") /\ sdk' = [sdk EXCEPT ![AtNow(c)] = IF FALSE THEN "open" ELSE "closed"]
    BY <1>8 DEF OpenFails
  <2>4. connected' = [connected EXCEPT ![AtNow(c)] = FALSE]
    <3>1. ~connected[i] /\ connected \in [Servers -> BOOLEAN]
      BY <1>2, <2>3 DEF ServersInv, ServersTyped, OneOpens
    <3> HIDE DEF i
    <3>2. connected = [connected EXCEPT ![i] = FALSE] BY <1>2, <3>1
    <3>3. QED BY <2>1, <3>2 DEF i
  <2>5. /\ mcpCall' = [d \in McpCalls |-> mcpCall'[d]]
        /\ \A d \in McpCalls : d # c => mcpCall'[d] = mcpCall[d]
    BY <2>1, CallBecomes
  <2>6. QED BY <2>1, <2>2, <2>3, <2>4, <2>5, OpeningEnds
<1>9. CASE AnswerTools(c)
  <2>1. CallIs(c, Served(mcpCall[c])) BY <1>9 DEF AnswerTools
  <2>2. mcpCall'[c] = Served(mcpCall[c]) BY <2>1, CallBecomes
  <2>3. Moves(c) /\ mcpCall'[c].step # "opening" BY <1>2, <2>2, ServedAt
  <2>4. QED BY <1>9, <2>1, <2>3, CallBecomes, OpensNothing DEF AnswerTools
<1>10. CASE TimeOut(c)
  <2>1. CallIs(c, Unserved(mcpCall[c])) /\ <<c, i>> \in trouble' /\ trouble \subseteq trouble'
        /\ UNCHANGED <<sdk, connected, endedServers, closedAll>>
    BY <1>10 DEF TimeOut
  <2>2. Moves(c) /\ mcpCall'[c].step # "opening" BY <1>3, <2>1
  <2>3. QED BY <2>1, <2>2, CallBecomes, OpensNothing
<1>11. QED BY <1>5, <1>6, <1>7, <1>8, <1>9, <1>10


\* A connection closes: what was asked over it fails, for the cause that it did.
LEMMA ServerKeeps ==
  ASSUME ServersInv, NEW i \in Servers, ServerEnds(i) \/ ClientClosed(i)
  PROVE  ServersInv'
<1>1. /\ RejectPending(i) /\ sdk[i] \in {"open", "closing"} /\ sdk' = [sdk EXCEPT ![i] = "closed"]
      /\ UNCHANGED <<trouble, closedAll>>
  BY DEF ServerEnds, ClientClosed
<1>2. sdk \in [Servers -> {"closed", "opening", "open", "closing"}] /\ connected \in [Servers -> BOOLEAN]
      /\ endedServers \in Seq(Servers)
  BY DEF ServersInv, ServersTyped
<1>3. /\ sdk' \in [Servers -> {"closed", "opening", "open", "closing"}] /\ sdk'[i] = "closed"
      /\ \A j \in Servers : j # i => sdk'[j] = sdk[j]
  BY <1>1, <1>2
<1>4. endedServers' \in Seq(Servers) /\ \A j \in Servers : HasEnded(j) => HasEnded(j)'
  <2>1. CASE endedServers' = Append(endedServers, i) BY <1>2, <2>1 DEF HasEnded
  <2>2. CASE endedServers' = endedServers BY <1>2, <2>2 DEF HasEnded
  <2>3. QED BY <2>1, <2>2 DEF ServerEnds, ClientClosed
<1>5. closedAll \/ HasEnded(i)'
  <2>1. CASE ServerEnds(i)
    <3>1. endedServers' = Append(endedServers, i) BY <2>1 DEF ServerEnds
    <3>2. Len(endedServers) + 1 \in DOMAIN endedServers' /\ endedServers'[Len(endedServers) + 1] = i
      BY <1>2, <3>1
    <3>3. QED BY <3>2 DEF HasEnded
  <2>2. CASE ClientClosed(i) BY <2>2 DEF ClientClosed, ServersInv, OneOpens
  <2>3. QED BY <2>1, <2>2
<1>6. /\ connected' \in [Servers -> BOOLEAN]
      /\ \A j \in Servers : j # i => connected'[j] = connected[j]
      /\ connected'[i] => HasEnded(i)'
  <2>1. CASE ServerEnds(i)
    <3>1. connected' = connected /\ endedServers' = Append(endedServers, i) BY <2>1 DEF ServerEnds
    <3>2. Len(endedServers) + 1 \in DOMAIN endedServers' /\ endedServers'[Len(endedServers) + 1] = i
      BY <1>2, <3>1
    <3>3. QED BY <1>2, <3>1, <3>2 DEF HasEnded
  <2>2. CASE ClientClosed(i)
    <3>1. connected' = [connected EXCEPT ![i] = FALSE] BY <2>2 DEF ClientClosed
    <3>2. QED BY <1>2, <3>1
  <2>3. QED BY <2>1, <2>2
<1>7. \A d \in McpCalls, j \in Servers : Excused(d, j) => Excused(d, j)'
  BY <1>1, <1>4 DEF Excused
<1>8. /\ mcpCall' = [c \in McpCalls |-> mcpCall'[c]]
      /\ \A c \in McpCalls : mcpCall'[c] =
           IF CallAt(c, "asking") /\ AtNow(c) = i THEN Unserved(mcpCall[c]) ELSE mcpCall[c]
  BY <1>1 DEF RejectPending
<1>9. ASSUME NEW c \in McpCalls
      PROVE  Moves(c) /\ (mcpCall'[c].step = "opening" => mcpCall'[c] = mcpCall[c])
  <2>1. CASE CallAt(c, "asking") /\ AtNow(c) = i
    <3>1. mcpCall'[c] = Unserved(mcpCall[c]) /\ mcpCall[c].step = "asking" BY <1>8, <2>1 DEF CallAt
    <3>2. \A j \in Servers : j = AtNow(c) => Excused(c, j)' BY <1>1, <1>5, <2>1 DEF Excused
    <3>3. QED BY <3>1, <3>2, FailsAt
  <2>2. CASE ~(CallAt(c, "asking") /\ AtNow(c) = i)
    <3>1. mcpCall'[c] = mcpCall[c] BY <1>8, <2>2
    <3>2. QED BY <3>1 DEF Moves
  <2>3. QED BY <2>1, <2>2
<1>10. FlagTells'
  <2>1. \A j \in Servers : j # i =>
          /\ sdk'[j] = "open" => connected'[j]
          /\ connected'[j] => sdk'[j] \in {"open", "closing"} \/ HasEnded(j)'
    BY <1>3, <1>4, <1>6 DEF ServersInv, FlagTells, HasEnded
  <2>2. (sdk'[i] = "open" => connected'[i]) /\ (connected'[i] => HasEnded(i)') BY <1>3, <1>6
  <2>3. QED BY <2>1, <2>2 DEF FlagTells, HasEnded
<1>11. OneOpens'
  <2>1. ASSUME NEW d \in McpCalls, mcpCall'[d].step = "opening"
        PROVE  /\ mcpCall'[d] = mcpCall[d] /\ mcpCall[d].at \in Servers
               /\ sdk[mcpCall[d].at] = "opening" /\ mcpCall[d].at # i
    <3>1. mcpCall'[d] = mcpCall[d] BY <1>9, <2>1
    <3>2. CallTyped(mcpCall[d]) BY DEF ServersInv, ServersTyped
    <3>3. mcpCall[d].at \in Servers BY <2>1, <3>1, <3>2 DEF CallTyped
    <3>4. sdk[mcpCall[d].at] = "opening" BY <2>1, <3>1 DEF ServersInv, OneOpens, CallAt, AtNow
    <3>5. mcpCall[d].at # i BY <1>1, <3>4
    <3>6. QED BY <3>1, <3>3, <3>4, <3>5
  <2>2. \A d \in McpCalls : mcpCall'[d].step = "opening" => sdk'[mcpCall'[d].at] = "opening"
    BY <1>3, <2>1
  <2>3. \A d, e \in McpCalls : mcpCall'[d].step = "opening" /\ mcpCall'[e].step = "opening"
                                 /\ mcpCall'[d].at = mcpCall'[e].at => d = e
    <3>1. SUFFICES ASSUME NEW d \in McpCalls, NEW e \in McpCalls, mcpCall'[d].step = "opening",
                          mcpCall'[e].step = "opening", mcpCall'[d].at = mcpCall'[e].at
                   PROVE  d = e
      OBVIOUS
    <3>2. mcpCall'[d] = mcpCall[d] /\ mcpCall'[e] = mcpCall[e] BY <2>1, <3>1
    <3>3. QED BY <3>1, <3>2 DEF ServersInv, OneOpens, CallAt, AtNow
  <2>4. \A j \in Servers : (sdk'[j] = "opening" => ~connected'[j]) /\ (sdk'[j] = "closing" => closedAll')
    <3>1. \A j \in Servers : j # i =>
            (sdk'[j] = "opening" => ~connected'[j]) /\ (sdk'[j] = "closing" => closedAll')
      BY <1>1, <1>3, <1>6 DEF ServersInv, OneOpens
    <3>2. QED BY <1>3, <3>1
  <2>5. QED BY <2>2, <2>3, <2>4 DEF OneOpens, CallAt, AtNow
<1>12. QED BY <1>3, <1>4, <1>6, <1>7, <1>8, <1>9, <1>10, <1>11, MovesKeep

\* closeAll: of the connections whose flag is up none is being opened.
LEMMA CloseAllKeeps ==
  ASSUME ServersInv, CloseAll
  PROVE  ServersInv'
<1>1. /\ closedAll' = TRUE /\ sdk' = [i \in Servers |-> IF connected[i] THEN "closing" ELSE sdk[i]]
      /\ UNCHANGED <<connected, mcpCall, endedServers, trouble>>
  BY DEF CloseAll
<1>2. sdk' \in [Servers -> {"closed", "opening", "open", "closing"}]
      /\ \A i \in Servers : sdk'[i] = IF connected[i] THEN "closing" ELSE sdk[i]
  BY <1>1 DEF ServersInv, ServersTyped
<1>3. \A d \in McpCalls, j \in Servers : Excused(d, j) => Excused(d, j)' BY <1>1 DEF Excused, HasEnded
<1>4. \A c \in McpCalls : Moves(c) BY <1>1 DEF Moves
<1>5. FlagTells' BY <1>1, <1>2 DEF ServersInv, FlagTells
<1>6. OneOpens'
  <2>1. ASSUME NEW d \in McpCalls, mcpCall[d].step = "opening" PROVE sdk'[mcpCall[d].at] = "opening"
    <3>1. CallTyped(mcpCall[d]) BY DEF ServersInv, ServersTyped
    <3>2. mcpCall[d].at \in Servers BY <2>1, <3>1 DEF CallTyped
    <3>3. sdk[mcpCall[d].at] = "opening" BY <2>1 DEF ServersInv, OneOpens, CallAt, AtNow
    <3>4. ~connected[mcpCall[d].at] BY <3>2, <3>3 DEF ServersInv, OneOpens
    <3>5. QED BY <1>2, <3>2, <3>3, <3>4
  <2>2. \A d, e \in McpCalls : mcpCall[d].step = "opening" /\ mcpCall[e].step = "opening"
                                 /\ mcpCall[d].at = mcpCall[e].at => d = e
    BY DEF ServersInv, OneOpens, CallAt, AtNow
  <2>3. \A j \in Servers : (sdk'[j] = "opening" => ~connected'[j]) /\ (sdk'[j] = "closing" => closedAll')
    BY <1>1, <1>2 DEF ServersInv, OneOpens
  <2>4. QED BY <1>1, <2>1, <2>2, <2>3 DEF OneOpens, CallAt, AtNow
<1>7. mcpCall' = [c \in McpCalls |-> mcpCall'[c]] /\ connected' \in [Servers -> BOOLEAN]
      /\ endedServers' \in Seq(Servers)
  BY <1>1 DEF ServersInv, ServersTyped
<1>8. QED BY <1>2, <1>3, <1>4, <1>5, <1>6, <1>7, MovesKeep

\* No step of a call, a server or the daemon breaks the invariant.
LEMMA ServersStep ==
  ASSUME ServersInv, ToolServersNext
  PROVE  ServersInv'
BY ListToolsKeeps, CallToolKeeps, BeginConnectKeeps, CallKeeps, ServerKeeps, CloseAllKeeps
DEF ToolServersNext

\* It holds in the initial state.
LEMMA ServersAtRest ==
  ASSUME ToolServersRest
  PROVE  ServersInv
<1>1. endedServers = <<>> BY DEF ToolServersRest
<1>2. CallTyped(NoMcpCall) /\ NoMcpCall.kind = "none" /\ NoMcpCall.step = "idle"
  BY DEF NoMcpCall, CallTyped, Call, McpSteps
<1>3. \A c \in McpCalls : mcpCall[c] = NoMcpCall BY DEF ToolServersRest
<1>4. ServersTyped
  <2>1. mcpCall = [c \in McpCalls |-> mcpCall[c]] BY DEF ToolServersRest
  <2>2. sdk \in [Servers -> {"closed", "opening", "open", "closing"}] /\ connected \in [Servers -> BOOLEAN]
    BY DEF ToolServersRest
  <2>3. QED BY <1>1, <1>2, <1>3, <2>1, <2>2 DEF ServersTyped
<1>5. FlagTells BY DEF ToolServersRest, FlagTells
<1>6. OneOpens BY <1>2, <1>3 DEF ToolServersRest, OneOpens, CallAt
<1>7. ListsSoFar BY <1>2, <1>3 DEF ListsSoFar
<1>8. CallsAsNamed BY <1>2, <1>3 DEF CallsAsNamed
<1>9. QED BY <1>4, <1>5, <1>6, <1>7, <1>8 DEF ServersInv

\* It is what makes the servers' properties true: a name that was made of a server and a
\* tool is split into them.
LEMMA ServersInvTells ==
  ASSUME ServersInv
  PROVE  ServersTrue
<1>1. NamesLeadBack
  <2>1. SUFFICES ASSUME NEW c \in McpCalls, mcpCall[c].kind = "call", NEW i \in Servers,
                        NEW tool \in ServerTools[i], Routable(i),
                        mcpCall[c].name = Namespaced(i, tool)
                 PROVE  mcpCall[c].at = i /\ mcpCall[c].tool = tool
    BY DEF NamesLeadBack
  <2> DEFINE split == SplitName(mcpCall[c].name)
  <2>2. split = <<i, tool>> BY <2>1, SplitsBack
  <2>3. mcpCall[c].at = split[1] /\ mcpCall[c].tool = split[2] BY <2>1 DEF ServersInv, CallsAsNamed
  <2> HIDE DEF split
  <2>4. QED BY <2>2, <2>3
<1>2. ListsWhatIsUp
  <2>1. SUFFICES ASSUME NEW c \in McpCalls, CallAt(c, "listed"), NEW i \in Servers \ mcpCall[c].listed
                 PROVE  Excused(c, i)
    BY DEF ListsWhatIsUp, Excused, HasEnded
  <2>2. CallTyped(mcpCall[c]) BY DEF ServersInv, ServersTyped
  <2>3. mcpCall[c].kind = "list" BY <2>1, <2>2 DEF CallTyped, CallAt
  <2>4. QED BY <2>1, <2>3 DEF ServersInv, ListsSoFar
<1>3. QED BY <1>1, <1>2 DEF ServersInv, ServersTrue

\* What leaves the servers alone keeps it.
LEMMA ServersStay ==
  ASSUME ServersInv, UNCHANGED toolServerVars
  PROVE  ServersInv'
<1>1. ServersTyped' /\ FlagTells' BY DEF ServersInv, toolServerVars, ServersTyped, FlagTells, CallTyped, Call
<1>2. OneOpens' BY DEF ServersInv, toolServerVars, OneOpens, CallAt, AtNow
<1>3. ListsSoFar' /\ CallsAsNamed'
  BY DEF ServersInv, toolServerVars, ListsSoFar, CallsAsNamed, CallAt, AtNow, Excused, HasEnded
<1>4. QED BY <1>1, <1>2, <1>3 DEF ServersInv

-----------------------------------------------------------------------------
(* What others plug in. *)

ExtensionsInv == HooksInv /\ ServersInv

\* What others plug in does what it should (Parts), however many files, servers and calls
\* there are: a gate refuses for the one hook that blocked it and allows once every hook of
\* its list was run, a fire is over with the last of them, the hooks in force are those of
\* the directory; a tool's name leads back to it, a client's flag tells of its connection,
\* and a list lacks a server for a cause.
THEOREM ExtensionsTrueHolds == Spec => []ExtensionsTrue
<1>1. Init => ExtensionsInv
  <2>1. SUFFICES ASSUME Init PROVE ExtensionsInv OBVIOUS
  <2>2. HooksRest \/ HooksInit BY <2>1 DEF Init, RestBut
  <2>3. ToolServersRest BY <2>1 DEF Init, RestBut, ToolServersInit
  <2>4. QED BY <2>2, <2>3, HooksAtRest, ServersAtRest DEF ExtensionsInv
<1>2. ExtensionsInv /\ [Next]_partsVars => ExtensionsInv'
  <2>1. SUFFICES ASSUME ExtensionsInv, [Next]_partsVars PROVE ExtensionsInv' OBVIOUS
  <2>2. HooksNext \/ UNCHANGED hookVars BY <2>1 DEF Next, StillBut, partsVars
  <2>3. ToolServersNext \/ UNCHANGED toolServerVars BY <2>1 DEF Next, StillBut, partsVars
  <2>4. HooksInv' BY <2>1, <2>2, HooksStep, HooksStay DEF ExtensionsInv
  <2>5. ServersInv' BY <2>1, <2>3, ServersStep, ServersStay DEF ExtensionsInv
  <2>6. QED BY <2>4, <2>5 DEF ExtensionsInv
<1>3. ExtensionsInv => ExtensionsTrue
  BY HooksInvTells, ServersInvTells DEF ExtensionsInv, ExtensionsTrue
<1>4. QED BY <1>1, <1>2, <1>3, PTL DEF Spec

-----------------------------------------------------------------------------
(* The programs around a daemon. *)

ProgramsInv == DaemonsInv /\ TaskInv

\* The programs do what they should (Parts), however many are started on a directory,
\* and however long a task's plans are rejected: of the daemons one serves, is found and
\* ends when it is told; iq task implements what it printed, says that the work is
\* committed when it is, and waits for no frame that will not come, but for a cause.
THEOREM ProgramsTrueHolds == Spec => []ProgramsTrue
<1>1. Init => ProgramsInv
  <2>1. SUFFICES ASSUME Init PROVE ProgramsInv OBVIOUS
  <2>2. DaemonsRest BY <2>1 DEF Init, RestBut, DaemonsInit
  <2>3. TaskInit BY <2>1 DEF Init, RestBut, TaskRest, TaskInit
  <2>4. QED BY <2>2, <2>3, DaemonsAtRest, TasksAtRest DEF ProgramsInv
<1>2. ProgramsInv /\ [Next]_partsVars => ProgramsInv'
  <2>1. SUFFICES ASSUME ProgramsInv, [Next]_partsVars PROVE ProgramsInv' OBVIOUS
  <2>2. DaemonsNext \/ UNCHANGED daemonsVars BY <2>1 DEF Next, StillBut, partsVars
  <2>3. TaskNext \/ UNCHANGED taskVars BY <2>1 DEF Next, StillBut, partsVars
  <2>4. ASSUME UNCHANGED daemonsVars PROVE DaemonsInv'
    BY <2>1, <2>4
    DEF ProgramsInv, daemonsVars, DaemonsInv, DaemonsTyped, PortHeld, Signalled, OneAlive, AliveNow,
        Findable
  <2>5. ASSUME UNCHANGED taskVars PROVE TaskInv'
    BY <2>1, <2>5
    DEF ProgramsInv, taskVars, TaskInv, TaskTyped, PostsInTurn, Pending, ToldOnce,
        PlanIsTheEngines, EngineAtPost, EndIsTold, PlanIsTold, CoordinatorIsTold
  <2>6. QED BY <2>1, <2>2, <2>3, <2>4, <2>5, DaemonsStep, TasksStep DEF ProgramsInv
<1>3. ProgramsInv => ProgramsTrue
  BY DaemonsInvTells, TaskInvTells DEF ProgramsInv, ProgramsTrue
<1>4. QED BY <1>1, <1>2, <1>3, PTL DEF Spec
-----------------------------------------------------------------------------
(* The workspaces. *)

\* A fold over a sequence of length n, by its steps: there is one for every sequence and
\* every operation, here as a function, that stays within a set.
FoldStep(g, f, base, s) == IF s = {} THEN base ELSE f[<<g[s \ {Max(s)}], Max(s)>>]

Folding(n, St, f, base) == n \in Nat /\ f \in [St \X (1..n) -> St] /\ base \in St
Folds(n, St, f, base, g) ==
  g \in [SUBSET (1..n) -> St] /\ \A s \in SUBSET (1..n) : g[s] = FoldStep(g, f, base, s)

\* Such a fold is there.
LEMMA FoldThere ==
  ASSUME NEW n, NEW St, NEW f, NEW base, Folding(n, St, f, base)
  PROVE  \E g : Folds(n, St, f, base, g)
<1> DEFINE Sets(m) == {s \in SUBSET (1..n) : Cardinality(s) <= m}
           There(m) == \E g \in [Sets(m) -> St] : \A s \in Sets(m) : g[s] = FoldStep(g, f, base, s)
           Bad == {m \in Nat : ~There(m)}
<1>0. n \in Nat /\ f \in [St \X (1..n) -> St] /\ base \in St BY DEF Folding
<1>1. \A s \in SUBSET (1..n) : IsFiniteSet(s) /\ Cardinality(s) \in 0..n
  <2>1. ASSUME NEW s \in SUBSET (1..n) PROVE IsFiniteSet(s) /\ Cardinality(s) \in 0..n
    <3>1. IsFiniteSet(1..n) /\ Cardinality(1..n) = n BY <1>0, FS_Interval
    <3> DEFINE N == 1..n
    <3>2. IsFiniteSet(s) /\ Cardinality(s) <= n
      <4>1. IsFiniteSet(N) /\ Cardinality(N) = n /\ s \in SUBSET N BY <3>1
      <4> HIDE DEF N
      <4>2. QED BY <4>1, FS_Subset
    <3>3. QED BY <1>0, <3>2, FS_CardinalityType
  <2>2. QED BY <2>1
<1>2. ASSUME NEW s \in SUBSET (1..n), s # {}
      PROVE  /\ Max(s) \in s /\ s \ {Max(s)} \in SUBSET (1..n)
             /\ Cardinality(s \ {Max(s)}) = Cardinality(s) - 1
  <2>1. IsFiniteSet(s) /\ s \in SUBSET Int BY <1>1
  <2>2. Max(s) \in s BY <1>2, <2>1, HasMax
  <2>3. QED BY <2>1, <2>2, FS_RemoveElement
<1>3. Bad = {}
  <2>1. SUFFICES ASSUME Bad # {} PROVE FALSE OBVIOUS
  <2>2. PICK m \in Bad : \A k \in Bad : m <= k
    <3> HIDE DEF Bad
    <3>1. Bad \in SUBSET Nat BY DEF Bad
    <3>2. QED BY <2>1, <3>1, HasMin
  <2>3. m \in Nat /\ ~There(m) BY <2>2
  <2>4. CASE m = 0
    <3>1. \A s \in Sets(0) : s = {}
      <4>1. ASSUME NEW s \in Sets(0) PROVE s = {}
        <5>1. Cardinality(s) = 0 BY <1>1
        <5>2. QED BY <1>1, <5>1, FS_EmptySet
      <4>2. QED BY <4>1
    <3> DEFINE g == [s \in Sets(0) |-> base]
    <3>2. g \in [Sets(0) -> St] BY <1>0
    <3>3. \A s \in Sets(0) : g[s] = FoldStep(g, f, base, s) BY <3>1 DEF FoldStep
    <3> HIDE DEF g, Sets
    <3>4. There(0) BY <3>2, <3>3
    <3>5. QED BY <2>3, <2>4, <3>4
  <2>5. CASE m # 0
    <3>1. m - 1 \in Nat /\ m - 1 \notin Bad
      <4>1. m - 1 \in Nat /\ ~(m <= m - 1) BY <2>3, <2>5
      <4> HIDE DEF Bad
      <4>2. QED BY <2>2, <4>1
    <3>2. There(m - 1) BY <3>1
    <3>3. PICK g \in [Sets(m - 1) -> St] : \A s \in Sets(m - 1) : g[s] = FoldStep(g, f, base, s) BY <3>2
    <3> DEFINE h == [s \in Sets(m) |-> FoldStep(g, f, base, s)]
    <3>4. \A s \in Sets(m) : s # {} => s \ {Max(s)} \in Sets(m - 1) /\ Max(s) \in 1..n
      <4>1. ASSUME NEW s \in Sets(m), s # {} PROVE s \ {Max(s)} \in Sets(m - 1) /\ Max(s) \in 1..n
        <5>1. s \in SUBSET (1..n) /\ Cardinality(s) <= m /\ Cardinality(s) \in Nat BY <1>1
        <5>2. Cardinality(s \ {Max(s)}) <= m - 1 BY <1>2, <2>3, <4>1, <5>1
        <5>3. QED BY <1>2, <4>1, <5>1, <5>2
      <4>2. QED BY <4>1
    <3>5. \A s \in Sets(m - 1) : s \in Sets(m)
      <4>1. ASSUME NEW s \in Sets(m - 1) PROVE Cardinality(s) <= m
        <5>1. Cardinality(s) <= m - 1 /\ Cardinality(s) \in Nat BY <1>1
        <5>2. QED BY <2>3, <5>1
      <4>2. QED BY <4>1
    <3> HIDE DEF Sets
    <3>6. \A s \in Sets(m - 1) : h[s] = g[s] BY <3>3, <3>5
    <3>7. ASSUME NEW s \in Sets(m) PROVE h[s] = FoldStep(h, f, base, s)
      <4>1. CASE s = {} BY <4>1 DEF FoldStep
      <4>2. CASE s # {}
        <5>1. h[s \ {Max(s)}] = g[s \ {Max(s)}] BY <3>4, <3>6, <4>2
        <5>2. h[s] = FoldStep(g, f, base, s) OBVIOUS
        <5> HIDE DEF h
        <5>3. QED BY <4>2, <5>1, <5>2 DEF FoldStep
      <4>3. QED BY <4>1, <4>2
    <3>8. \A s \in Sets(m) : h[s] \in St
      <4>1. ASSUME NEW s \in Sets(m) PROVE FoldStep(g, f, base, s) \in St
        <5>1. CASE s = {} BY <1>0, <5>1 DEF FoldStep
        <5>2. CASE s # {}
          <6>1. g[s \ {Max(s)}] \in St /\ Max(s) \in 1..n BY <3>4, <5>2
          <6>2. f[<<g[s \ {Max(s)}], Max(s)>>] \in St BY <1>0, <6>1
          <6>3. QED BY <5>2, <6>2 DEF FoldStep
        <5>3. QED BY <5>1, <5>2
      <4>2. QED BY <4>1
    <3>9. h \in [Sets(m) -> St] BY <3>8
    <3> HIDE DEF h
    <3>10. There(m) BY <3>7, <3>9
    <3>11. QED BY <2>3, <3>10
  <2>6. QED BY <2>4, <2>5
<1>4. There(n)
  <2> HIDE DEF There
  <2>1. QED BY <1>0, <1>3
<1>5. Sets(n) = SUBSET (1..n) BY <1>0, <1>1
<1>6. PICK g : g \in [Sets(n) -> St] /\ \A s \in Sets(n) : g[s] = FoldStep(g, f, base, s) BY <1>4
<1> HIDE DEF Sets
<1>7. Folds(n, St, f, base, g) BY <1>5, <1>6 DEF Folds
<1>8. QED BY <1>7

\* The largest number of a range, and the range without it.
LEMMA MaxOfRange ==
  ASSUME NEW i \in Nat, i # 0
  PROVE  Max(1..i) = i /\ (1..i) \ {i} = 1..(i - 1) /\ 1..i # {}
<1>1. IsFiniteSet(1..i) /\ 1..i \in SUBSET Int /\ i \in 1..i BY FS_Interval
<1>2. Max(1..i) \in 1..i /\ \A y \in 1..i : Max(1..i) >= y BY <1>1, HasMax
<1> DEFINE m == Max(1..i)
<1>3. m \in 1..i /\ m >= i BY <1>1, <1>2
<1> HIDE DEF m
<1>4. m = i BY <1>3
<1>5. QED BY <1>1, <1>4 DEF m

FileTrees == [Regions -> SUBSET Int]
Patches == UNION {[D -> [old : SUBSET Int, new : SUBSET Int]] : D \in SUBSET Regions}
Applying == [box : FileTrees, failed : BOOLEAN]

\* What a patch makes of files is files.
LEMMA PatchedFiles ==
  ASSUME NEW b \in FileTrees, NEW p \in Patches
  PROVE  Patched(b, p) \in FileTrees
<1>1. PICK D \in SUBSET Regions : p \in [D -> [old : SUBSET Int, new : SUBSET Int]] BY DEF Patches
<1>2. ASSUME NEW r \in Regions PROVE Patched(b, p)[r] \in SUBSET Int
  <2>1. b[r] \in SUBSET Int BY DEF FileTrees
  <2>2. r \in DOMAIN p => Written(p[r]) \in SUBSET Int BY <1>1 DEF Written, Emptied
  <2>3. QED BY <2>1, <2>2 DEF Patched
<1>3. Patched(b, p) \in FileTrees BY <1>2 DEF Patched, FileTrees
<1>4. QED BY <1>3

\* ApplyAll by its steps.
LEMMA AppliesInSteps ==
  ASSUME NEW b \in FileTrees, NEW ps \in Seq(Patches)
  PROVE  \E h \in [0..Len(ps) -> Applying] :
           /\ h[0] = [box |-> b, failed |-> FALSE]
           /\ \A i \in 1..Len(ps) : h[i] = ApplyOne(h[i - 1], ps[i])
           /\ ApplyAll(b, ps) = h[Len(ps)]
<1> DEFINE n == Len(ps)
           base == [box |-> b, failed |-> FALSE]
           f == [x \in Applying \X (1..n) |-> ApplyOne(x[1], ps[x[2]])]
           Body(g, s) == IF s = {} THEN base ELSE ApplyOne(g[s \ {Max(s)}], ps[Max(s)])
           Recurs(g) == g = [s \in SUBSET (1..n) |-> Body(g, s)]
           iter == CHOOSE g : Recurs(g)
<1>1. n \in Nat /\ DOMAIN ps = 1..n /\ \A i \in 1..n : ps[i] \in Patches OBVIOUS
<1>2. ApplyAll(b, ps) = iter[1..n]
  <2>1. DOMAIN ps = 1..n BY <1>1
  <2> HIDE DEF n
  <2>2. ApplyAll(b, ps) = FoldLeft(ApplyOne, base, ps) BY DEF ApplyAll
  <2>3. FoldLeft(ApplyOne, base, ps) = iter[DOMAIN ps]
    <3> HIDE DEF base
    <3>1. QED BY <2>1 DEF FoldLeft, MapThenFoldSet
  <2>4. QED BY <2>1, <2>2, <2>3
<1>3. base \in Applying BY DEF Applying
<1>4. \A a \in Applying, i \in 1..n : ApplyOne(a, ps[i]) \in Applying
  <2>1. ASSUME NEW a \in Applying, NEW i \in 1..n PROVE ApplyOne(a, ps[i]) \in Applying
    <3>1. a.box \in FileTrees /\ a.failed \in BOOLEAN /\ ps[i] \in Patches BY <1>1 DEF Applying
    <3>2. Patched(a.box, ps[i]) \in FileTrees BY <3>1, PatchedFiles
    <3>3. QED BY <3>1, <3>2 DEF ApplyOne, Applying
  <2>2. QED BY <2>1
<1>5. f \in [Applying \X (1..n) -> Applying] BY <1>4
<1> HIDE DEF n, base
<1>6. PICK g : g \in [SUBSET (1..n) -> Applying] /\ \A s \in SUBSET (1..n) : g[s] = FoldStep(g, f, base, s)
  <2>1. Folding(n, Applying, f, base) BY <1>1, <1>3, <1>5 DEF Folding
  <2>2. PICK g : Folds(n, Applying, f, base, g)
    <3> HIDE DEF f
    <3>1. QED BY <2>1, FoldThere, Zenon
  <2>3. QED BY <2>2 DEF Folds
<1>7. ASSUME NEW s \in SUBSET (1..n), s # {} PROVE Max(s) \in 1..n /\ s \ {Max(s)} \in SUBSET (1..n)
  <2>1. IsFiniteSet(1..n) BY <1>1, FS_Interval
  <2>2. IsFiniteSet(s)
    <3> DEFINE N == 1..n
    <3>1. s \in SUBSET N /\ IsFiniteSet(N) BY <2>1
    <3> HIDE DEF N
    <3>2. QED BY <3>1, FS_Subset
  <2>3. s \in SUBSET Int OBVIOUS
  <2>4. Max(s) \in s BY <1>7, <2>2, <2>3, HasMax
  <2>5. QED BY <2>4
<1>8. Recurs(g)
  <2>1. ASSUME NEW s \in SUBSET (1..n) PROVE g[s] = Body(g, s)
    <3>1. CASE s = {} BY <1>6, <3>1 DEF FoldStep
    <3>2. CASE s # {}
      <4>1. g[s \ {Max(s)}] \in Applying /\ Max(s) \in 1..n BY <1>6, <1>7, <3>2
      <4>2. f[<<g[s \ {Max(s)}], Max(s)>>] = ApplyOne(g[s \ {Max(s)}], ps[Max(s)]) BY <4>1
      <4>3. QED BY <1>6, <3>2, <4>2 DEF FoldStep
    <3>3. QED BY <3>1, <3>2
  <2> DEFINE k == [s \in SUBSET (1..n) |-> Body(g, s)]
  <2>2. \A s \in SUBSET (1..n) : k[s] = g[s] BY <2>1
  <2>3. g = [s \in SUBSET (1..n) |-> g[s]] /\ k = [s \in SUBSET (1..n) |-> k[s]] BY <1>6
  <2>4. g = k
    <3> HIDE DEF k
    <3>1. QED BY <2>2, <2>3
  <2>5. QED BY <2>4
<1>9. Recurs(iter)
  <2> HIDE DEF Body
  <2>1. QED BY <1>8
<1>10. \A s \in SUBSET (1..n) : iter[s] = Body(iter, s)
  <2> HIDE DEF iter, Body
  <2>1. QED BY <1>9
<1> HIDE DEF iter
<1>11. iter[{}] = base BY <1>10
<1>12. ASSUME NEW i \in 1..n PROVE iter[1..i] = ApplyOne(iter[1..(i - 1)], ps[i])
  <2>1. i \in Nat /\ i # 0 /\ 1..i \in SUBSET (1..n) BY <1>1
  <2>2. Max(1..i) = i /\ (1..i) \ {i} = 1..(i - 1) /\ 1..i # {} BY <2>1, MaxOfRange
  <2>3. iter[1..i] = Body(iter, 1..i) BY <1>10, <2>1
  <2>4. QED BY <2>2, <2>3
<1> DEFINE h == [i \in 0..n |-> iter[1..i]]
<1>13. h[0] = base /\ \A i \in 1..n : h[i] = ApplyOne(h[i - 1], ps[i])
  <2>1. 1..0 = {} /\ 0 \in 0..n BY <1>1
  <2>2. h[0] = base BY <1>11, <2>1
  <2>3. ASSUME NEW i \in 1..n PROVE h[i] = ApplyOne(h[i - 1], ps[i])
    <3>1. i \in 0..n /\ i - 1 \in 0..n BY <1>1
    <3>2. QED BY <1>12, <3>1
  <2>4. QED BY <2>2, <2>3
<1>14. ApplyAll(b, ps) = h[n] BY <1>1, <1>2
<1> HIDE DEF h
<1>15. \A i \in 0..n : h[i] \in Applying
  <2> DEFINE Bad == {i \in 0..n : h[i] \notin Applying}
  <2>1. SUFFICES ASSUME Bad # {} PROVE FALSE OBVIOUS
  <2>2. PICK i \in Bad : \A k \in Bad : i <= k
    <3>1. Bad \in SUBSET Nat BY <1>1
    <3> HIDE DEF Bad
    <3>2. QED BY <2>1, <3>1, HasMin
  <2>3. i \in 0..n /\ h[i] \notin Applying BY <2>2
  <2>4. i # 0 BY <1>3, <1>13, <2>3
  <2>5. i \in 1..n /\ i - 1 \in 0..n /\ ~(i <= i - 1) BY <1>1, <2>3, <2>4
  <2>6. h[i - 1] \in Applying BY <2>2, <2>5
  <2>7. h[i] \in Applying BY <1>4, <1>13, <2>5, <2>6
  <2>8. QED BY <2>3, <2>7
<1>16. h \in [0..n -> Applying]
  <2>1. h = [i \in 0..n |-> h[i]] BY DEF h
  <2>2. QED BY <1>15, <2>1
<1>17. QED BY <1>13, <1>14, <1>16 DEF n, base

\* What the first i patches made of the files b.
Upto(b, ps, i, x) == \A r \in Regions :
  /\ (\A k \in 1..i : r \notin DOMAIN ps[k]) => x[r] = b[r]
  /\ \A k \in 1..i : r \in DOMAIN ps[k] /\ (\A j \in 1..i : j > k => r \notin DOMAIN ps[j]) =>
       x[r] = Written(ps[k][r])

\* One patch more, each hunk of which is found.
LEMMA AppliesOne ==
  ASSUME NEW b \in FileTrees, NEW ps \in Seq(Patches), NEW i \in 1..Len(ps), NEW a \in Applying,
         Upto(b, ps, i - 1, a.box), ~ApplyOne(a, ps[i]).failed
  PROVE  ~a.failed /\ Upto(b, ps, i, ApplyOne(a, ps[i]).box)
<1> DEFINE p == ps[i]
           x == a.box
           y == ApplyOne(a, ps[i]).box
<1>1. ~a.failed /\ \A r \in DOMAIN p : Applies(x, p, r[1]) BY DEF ApplyOne
<1>2. y = Patched(x, p) BY DEF ApplyOne
<1>3. i \in Nat /\ Len(ps) \in Nat /\ \A k \in 1..i : k \in 1..(i - 1) \/ k = i OBVIOUS
<1>4. ASSUME NEW r \in Regions
      PROVE  /\ r \notin DOMAIN p => y[r] = x[r]
             /\ r \in DOMAIN p => y[r] = Written(p[r])
  BY <1>1, <1>2 DEF Patched
<1> HIDE DEF x, y, p
<1>5. \A k \in 1..(i - 1) : k \in 1..i /\ k # i /\ i > k BY <1>3
<1>6. i \in 1..i BY <1>3
<1>7. ASSUME NEW r \in Regions, \A k \in 1..i : r \notin DOMAIN ps[k] PROVE y[r] = b[r]
  <2>1. x[r] = b[r] BY <1>5, <1>7 DEF Upto, x
  <2>2. r \notin DOMAIN p BY <1>6, <1>7 DEF p
  <2>3. QED BY <1>4, <2>1, <2>2
<1>8. ASSUME NEW r \in Regions, NEW k \in 1..i, r \in DOMAIN ps[k],
             \A j \in 1..i : j > k => r \notin DOMAIN ps[j]
      PROVE  y[r] = Written(ps[k][r])
  <2>1. CASE k = i BY <1>4, <1>8, <2>1 DEF p
  <2>2. CASE k # i
    <3>1. k \in 1..(i - 1) BY <1>3, <2>2
    <3>2. \A j \in 1..(i - 1) : j > k => r \notin DOMAIN ps[j] BY <1>5, <1>8
    <3>3. x[r] = Written(ps[k][r]) BY <1>8, <3>1, <3>2 DEF Upto, x
    <3>4. r \notin DOMAIN p BY <1>5, <1>6, <1>8, <3>1 DEF p
    <3>5. QED BY <1>4, <3>3, <3>4
  <2>3. QED BY <2>1, <2>2
<1>9. Upto(b, ps, i, y) BY <1>7, <1>8 DEF Upto
<1>10. QED BY <1>1, <1>9 DEF y

\* What all of them made of it, when none failed.
LEMMA AppliesAll ==
  ASSUME NEW b \in FileTrees, NEW ps \in Seq(Patches)
  PROVE  /\ ApplyAll(b, ps) \in Applying
         /\ ~ApplyAll(b, ps).failed => Upto(b, ps, Len(ps), ApplyAll(b, ps).box)
<1> DEFINE n == Len(ps)
<1>1. n \in Nat OBVIOUS
<1>2. PICK h \in [0..n -> Applying] :
           /\ h[0] = [box |-> b, failed |-> FALSE]
           /\ \A i \in 1..n : h[i] = ApplyOne(h[i - 1], ps[i])
           /\ ApplyAll(b, ps) = h[n]
  BY AppliesInSteps
<1> DEFINE Bad == {i \in 0..n : ~h[i].failed /\ ~Upto(b, ps, i, h[i].box)}
<1>3. ASSUME Bad # {} PROVE FALSE
  <2>1. PICK i \in Bad : \A k \in Bad : i <= k
    <3>1. Bad \in SUBSET Nat BY <1>1
    <3> HIDE DEF Bad
    <3>2. QED BY <1>3, <3>1, HasMin
  <2>2. i \in 0..n /\ ~h[i].failed /\ ~Upto(b, ps, i, h[i].box) BY <2>1
  <2>3. i # 0
    <3>1. 1..0 = {} OBVIOUS
    <3>2. h[0].box = b BY <1>2
    <3>3. Upto(b, ps, 0, h[0].box) BY <3>1, <3>2 DEF Upto
    <3>4. QED BY <2>2, <3>3
  <2>4. i \in 1..n /\ i - 1 \in 0..n /\ ~(i <= i - 1) BY <1>1, <2>2, <2>3
  <2>5. i - 1 \notin Bad
    <3> HIDE DEF Bad
    <3>1. QED BY <2>1, <2>4
  <2>6. h[i] = ApplyOne(h[i - 1], ps[i]) /\ h[i - 1] \in Applying BY <1>2, <2>4
  <2>7. ~h[i - 1].failed
    <3>1. ASSUME h[i - 1].failed PROVE ApplyOne(h[i - 1], ps[i]).failed BY <3>1 DEF ApplyOne
    <3>2. QED BY <2>2, <2>6, <3>1
  <2>8. Upto(b, ps, i - 1, h[i - 1].box) BY <2>4, <2>5, <2>7
  <2>9. Upto(b, ps, i, h[i].box) BY <2>2, <2>4, <2>6, <2>8, AppliesOne
  <2>10. QED BY <2>2, <2>9
<1>4. n \in 0..n BY <1>1
<1>5. h[n] \in Applying BY <1>2, <1>4
<1>6. ~h[n].failed => Upto(b, ps, n, h[n].box) BY <1>3, <1>4
<1>7. QED BY <1>2, <1>5, <1>6

TaskSteps == {"none", "applying", "testing", "syncing", "committing", "reading"}
Tasks == [step : TaskSteps, merges : SUBSET WorkSessions, patches : Seq(Patches),
          files : SUBSET FilesOf(Regions), before : FileTrees, tested : FileTrees, touched : BOOLEAN]
CheckpointRows == [session : WorkSessions, hash : Nat, conflicts : SUBSET FilesOf(Regions), work : Tasks]

WorkspacesTyped ==
  /\ place \in [WorkSessions -> Places \cup {"none"}]
  /\ \A s \in WorkSessions : place[s] \in {"none", "repo", s}
  /\ startHash \in [WorkSessions -> Nat] /\ lines \in Nat
  /\ commits \in Seq(FileTrees)
  /\ dirs \in [Places -> FileTrees] /\ staged \in [Places -> FileTrees] /\ tip \in [Places -> Nat]
  /\ box \in [WorkSessions -> FileTrees] /\ work \in [WorkSessions -> Tasks]
  /\ checkpoints \in Seq(CheckpointRows)

\* Hashes are of commits there are; only sessions that have a place work or are recorded.
HashesThere ==
  /\ \A p \in Places : tip[p] \in DOMAIN commits
  /\ \A s \in WorkSessions :
       /\ startHash[s] # 0 => startHash[s] \in DOMAIN commits
       /\ place[s] # "none" => startHash[s] # 0
       /\ work[s].step # "none" => place[s] # "none"
  /\ \A i \in DOMAIN checkpoints :
       checkpoints[i].hash \in DOMAIN commits /\ place[checkpoints[i].session] # "none"

\* The files x have every file there is in y.
HoldsAll(x, y) == \A r \in Regions : y[r] # {} => x[r] = y[r]

\* A task t that nothing else has touched, with its sandbox b, its directory d, its index
\* g and the files h of the commit it is at: what the tests saw is what the patches made
\* of the sandbox, and step by step it arrives in the commit.
AtWork(t, b, d, g, h) == ~t.touched =>
  /\ t.step = "applying" => b = t.before
  /\ t.step = "testing" => Upto(t.before, t.patches, Len(t.patches), b)
  /\ t.step \in {"syncing", "committing", "reading"} =>
       t.tested = b /\ Upto(t.before, t.patches, Len(t.patches), t.tested)
  /\ t.step = "syncing" => \A r \in Regions : t.tested[r] # {} /\ r[1] \notin t.files => d[r] = t.tested[r]
  /\ t.step \in {"committing", "reading"} => HoldsAll(d, t.tested)
  /\ t.step = "committing" => HoldsAll(g, t.tested)
  /\ t.step = "reading" => HoldsAll(h, t.tested)

TasksInOrder == \A s \in WorkSessions :
  AtWork(work[s], box[s], dirs[place[s]], staged[place[s]], commits[tip[place[s]]])

RecordedRight(c, h) == ~c.work.touched =>
  /\ Upto(c.work.before, c.work.patches, Len(c.work.patches), c.work.tested)
  /\ HoldsAll(h, c.work.tested)
  /\ c.conflicts = {f \in FilesOf(Regions) : SeveralChange(c.work.patches, f)}

RecordsRight == \A i \in DOMAIN checkpoints : RecordedRight(checkpoints[i], commits[checkpoints[i].hash])

WorkspacesInv == WorkspacesTyped /\ HashesThere /\ TasksInOrder /\ RecordsRight

\* What the assumption on the constants says.
LEMMA WorkGround ==
  /\ "repo" \notin WorkSessions /\ "none" \notin WorkSessions /\ IsFiniteSet(WorkSessions)
  /\ MaxLines \in Nat /\ WorkSessions # {} /\ WorkSessions \subseteq Places /\ "repo" \in Places
  /\ "none" \notin Places
BY WorkspacesAssumption DEF Places

\* The task that is none, and the files at first.
LEMMA NoTaskTyped == NoTask \in Tasks /\ NoTask.step = "none" /\ Nothing \in FileTrees /\ First \in FileTrees
<1>1. Nothing \in FileTrees BY DEF Nothing, FileTrees
<1>2. First \in FileTrees BY DEF First, FileTrees
<1>3. <<>> \in Seq(Patches) OBVIOUS
<1>4. QED BY <1>1, <1>2, <1>3 DEF NoTask, Tasks, TaskSteps

\* Where the commits grow, what they held they hold.
LEMMA RecordsStay ==
  ASSUME WorkspacesInv, UNCHANGED checkpoints,
         commits' \in Seq(FileTrees), \A i \in DOMAIN commits : i \in DOMAIN commits' /\ commits'[i] = commits[i]
  PROVE  RecordsRight'
<1>1. \A i \in DOMAIN checkpoints : checkpoints[i].hash \in DOMAIN commits BY DEF WorkspacesInv, HashesThere
<1>2. \A i \in DOMAIN checkpoints : commits'[checkpoints[i].hash] = commits[checkpoints[i].hash] BY <1>1
<1>3. QED BY <1>2 DEF WorkspacesInv, RecordsRight

\* A task that is touched, is none or sees nothing change is in order.
Unmoved(s) ==
  \/ work'[s].touched \/ work'[s].step = "none"
  \/ /\ work'[s] = work[s] /\ box'[s] = box[s] /\ place'[s] = place[s]
     /\ dirs'[place[s]] = dirs[place[s]] /\ staged'[place[s]] = staged[place[s]]
     /\ commits'[tip'[place[s]]] = commits[tip[place[s]]]

AtWorkNext(s) ==
  AtWork(work'[s], box'[s], dirs'[place'[s]], staged'[place'[s]], commits'[tip'[place'[s]]])

\* What does not move stays in order.
LEMMA UnmovedInOrder ==
  ASSUME WorkspacesInv, NEW s \in WorkSessions, Unmoved(s)
  PROVE  AtWorkNext(s)
<1>1. CASE work'[s].touched BY <1>1 DEF AtWorkNext, AtWork
<1>2. CASE work'[s].step = "none" BY <1>2 DEF AtWorkNext, AtWork
<1>3. CASE /\ work'[s] = work[s] /\ box'[s] = box[s] /\ place'[s] = place[s]
           /\ dirs'[place[s]] = dirs[place[s]] /\ staged'[place[s]] = staged[place[s]]
           /\ commits'[tip'[place[s]]] = commits[tip[place[s]]]
  <2>1. AtWork(work[s], box[s], dirs[place[s]], staged[place[s]], commits[tip[place[s]]])
    BY DEF WorkspacesInv, TasksInOrder
  <2>2. QED BY <1>3, <2>1 DEF AtWorkNext
<1>4. QED BY <1>1, <1>2, <1>3 DEF Unmoved

\* The tasks, one by one.
LEMMA TasksNext ==
  ASSUME \A s \in WorkSessions : AtWorkNext(s)
  PROVE  TasksInOrder'
BY DEF TasksInOrder, AtWorkNext

\* Touching a task.
LEMMA TouchedTasks ==
  ASSUME work \in [WorkSessions -> Tasks], NEW S \in SUBSET WorkSessions
  PROVE  /\ Touched(S, work) \in [WorkSessions -> Tasks]
         /\ \A s \in WorkSessions :
              /\ Touched(S, work)[s].step = work[s].step
              /\ s \in S => Touched(S, work)[s].touched \/ Touched(S, work)[s].step = "none"
              /\ s \notin S => Touched(S, work)[s] = work[s]
<1>1. ASSUME NEW s \in WorkSessions
      PROVE  /\ Touched(S, work)[s] \in Tasks
             /\ Touched(S, work)[s].step = work[s].step
             /\ s \in S => Touched(S, work)[s].touched \/ Touched(S, work)[s].step = "none"
             /\ s \notin S => Touched(S, work)[s] = work[s]
  <2> DEFINE t == work[s]
             u == [t EXCEPT !.touched = TRUE]
  <2>1. t \in Tasks OBVIOUS
  <2>2. Touched(S, work)[s] = IF s \in S /\ t.step # "none" THEN u ELSE t BY DEF Touched
  <2> HIDE DEF t
  <2>3. u \in Tasks /\ u.step = t.step /\ u.touched BY <2>1 DEF Tasks
  <2> HIDE DEF u
  <2>4. QED BY <2>1, <2>2, <2>3 DEF t
<1>2. Touched(S, work) = [s \in WorkSessions |-> Touched(S, work)[s]] BY DEF Touched
<1>3. QED BY <1>1, <1>2

\* Where no task moves.
LEMMA AllUnmoved ==
  ASSUME WorkspacesInv, \A s \in WorkSessions : Unmoved(s)
  PROVE  TasksInOrder'
<1>1. \A s \in WorkSessions : AtWorkNext(s) BY UnmovedInOrder
<1>2. QED BY <1>1, TasksNext

\* Where neither commits nor checkpoints change.
LEMMA SameRecords ==
  ASSUME WorkspacesInv, UNCHANGED <<commits, checkpoints>>
  PROVE  RecordsRight'
<1>1. commits \in Seq(FileTrees) BY DEF WorkspacesInv, WorkspacesTyped
<1>2. QED BY <1>1, RecordsStay

\* The hash a session starts from.
LEMMA ReadStartKeeps ==
  ASSUME WorkspacesInv, NEW s \in WorkSessions, ReadStart(s)
  PROVE  WorkspacesInv'
<1> USE DEF ReadStart, hostVars
<1>1. WorkspacesTyped' BY WorkGround DEF WorkspacesInv, WorkspacesTyped
<1>2. HashesThere' BY WorkGround DEF WorkspacesInv, WorkspacesTyped, HashesThere
<1>3. TasksInOrder'
  <2>1. \A t \in WorkSessions : Unmoved(t) BY DEF Unmoved
  <2>2. QED BY <2>1, AllUnmoved
<1>4. RecordsRight' BY SameRecords
<1>5. QED BY <1>1, <1>2, <1>3, <1>4 DEF WorkspacesInv

\* The workspace of a session, which nothing was at work in.
LEMMA CreateWorkspaceKeeps ==
  ASSUME WorkspacesInv, NEW s \in WorkSessions, NEW worktree \in BOOLEAN, CreateWorkspace(s, worktree)
  PROVE  WorkspacesInv'
<1>0. place[s] = "none" /\ startHash[s] # 0 /\ UNCHANGED <<startHash, commits, work, checkpoints, lines>>
  BY DEF CreateWorkspace
<1>1. work[s].step = "none" BY <1>0 DEF WorkspacesInv, HashesThere
<1>2. tip["repo"] \in DOMAIN commits /\ commits[tip["repo"]] \in FileTrees /\ dirs["repo"] \in FileTrees
      /\ tip["repo"] \in Nat
  BY WorkGround DEF WorkspacesInv, WorkspacesTyped, HashesThere
<1>a. \A t \in WorkSessions : t # s => place[t] # s BY WorkGround DEF WorkspacesInv, WorkspacesTyped
<1>3. CASE worktree
  <2>1. /\ place' = [place EXCEPT ![s] = s] /\ tip' = [tip EXCEPT ![s] = tip["repo"]]
        /\ dirs' = [dirs EXCEPT ![s] = commits[tip["repo"]]]
        /\ staged' = [staged EXCEPT ![s] = commits[tip["repo"]]]
        /\ box' = [box EXCEPT ![s] = commits[tip["repo"]]] BY <1>3 DEF CreateWorkspace
  <2>2. WorkspacesTyped' BY <1>0, <1>2, <2>1, WorkGround DEF WorkspacesInv, WorkspacesTyped
  <2>3. HashesThere' BY <1>0, <1>2, <2>1, WorkGround DEF WorkspacesInv, WorkspacesTyped, HashesThere
  <2>4. \A t \in WorkSessions : Unmoved(t)
    <3>1. ASSUME NEW t \in WorkSessions PROVE Unmoved(t)
      <4>1. CASE t = s BY <1>0, <1>1, <4>1 DEF Unmoved
      <4>2. CASE t # s
        <5>1. place'[t] = place[t] /\ box'[t] = box[t]
          BY <2>1, <4>2, WorkGround DEF WorkspacesInv, WorkspacesTyped
        <5>2. /\ dirs'[place[t]] = dirs[place[t]] /\ staged'[place[t]] = staged[place[t]]
              /\ tip'[place[t]] = tip[place[t]]
          BY <1>a, <2>1, <4>2 DEF WorkspacesInv, WorkspacesTyped
        <5>3. QED BY <1>0, <5>1, <5>2 DEF Unmoved
      <4>3. QED BY <4>1, <4>2
    <3>2. QED BY <3>1
  <2>5. QED BY <1>0, <2>2, <2>3, <2>4, AllUnmoved, SameRecords DEF WorkspacesInv
<1>4. CASE ~worktree
  <2>1. /\ place' = [place EXCEPT ![s] = "repo"] /\ box' = [box EXCEPT ![s] = dirs["repo"]]
        /\ UNCHANGED <<dirs, staged, tip>> BY <1>4 DEF CreateWorkspace
  <2>2. WorkspacesTyped' BY <1>0, <1>2, <2>1, WorkGround DEF WorkspacesInv, WorkspacesTyped
  <2>3. HashesThere' BY <1>0, <1>2, <2>1, WorkGround DEF WorkspacesInv, WorkspacesTyped, HashesThere
  <2>4. \A t \in WorkSessions : Unmoved(t)
    <3>1. ASSUME NEW t \in WorkSessions PROVE Unmoved(t)
      <4>1. CASE t = s BY <1>0, <1>1, <4>1 DEF Unmoved
      <4>2. CASE t # s
        <5>1. place'[t] = place[t] /\ box'[t] = box[t]
          BY <2>1, <4>2, WorkGround DEF WorkspacesInv, WorkspacesTyped
        <5>2. QED BY <1>0, <2>1, <5>1 DEF Unmoved
      <4>3. QED BY <4>1, <4>2
    <3>2. QED BY <3>1
  <2>5. QED BY <1>0, <2>2, <2>3, <2>4, AllUnmoved, SameRecords DEF WorkspacesInv
<1>5. QED BY <1>3, <1>4

\* What is written to a sandbox touches the task in it.
LEMMA BoxWritten ==
  ASSUME WorkspacesInv, NEW s \in WorkSessions, box' \in [WorkSessions -> FileTrees], lines' \in Nat,
         \A t \in WorkSessions : t # s => box'[t] = box[t],
         work' = Touched({s}, work), UNCHANGED <<place, startHash, hostVars, checkpoints>>
  PROVE  WorkspacesInv'
<1> USE DEF hostVars
<1>1. /\ work' \in [WorkSessions -> Tasks]
      /\ \A t \in WorkSessions :
           /\ work'[t].step = work[t].step
           /\ t \in {s} => work'[t].touched \/ work'[t].step = "none"
           /\ t \notin {s} => work'[t] = work[t]
  <2>1. work \in [WorkSessions -> Tasks] /\ {s} \in SUBSET WorkSessions BY DEF WorkspacesInv, WorkspacesTyped
  <2>2. QED BY <2>1, TouchedTasks, Zenon
<1>2. WorkspacesTyped' BY <1>1 DEF WorkspacesInv, WorkspacesTyped
<1>3. HashesThere' BY <1>1 DEF WorkspacesInv, HashesThere
<1>4. \A t \in WorkSessions : Unmoved(t) BY <1>1 DEF Unmoved
<1>5. QED BY <1>2, <1>3, <1>4, AllUnmoved, SameRecords DEF WorkspacesInv

\* An agent or a user writes to a sandbox.
LEMMA WriteSandboxKeeps ==
  ASSUME WorkspacesInv, NEW s \in WorkSessions, NEW r \in Regions, WriteSandbox(s, r)
  PROVE  WorkspacesInv'
<1>1. box \in [WorkSessions -> FileTrees] /\ lines \in Nat BY DEF WorkspacesInv, WorkspacesTyped
<1>2. box' = [box EXCEPT ![s] = [box[s] EXCEPT ![r] = {lines + 1}]] BY DEF WriteSandbox
<1>3. [box[s] EXCEPT ![r] = {lines + 1}] \in FileTrees BY <1>1 DEF FileTrees
<1>4. box' \in [WorkSessions -> FileTrees] /\ \A t \in WorkSessions : t # s => box'[t] = box[t]
  BY <1>1, <1>2, <1>3
<1>5. lines' = lines + 1 /\ work' = Touched({s}, work)
      /\ UNCHANGED <<place, startHash, hostVars, checkpoints>> BY DEF WriteSandbox
<1>6. lines' \in Nat BY <1>1, <1>5
<1>7. QED BY <1>4, <1>5, <1>6, BoxWritten, Zenon

\* A command removes a file of it.
LEMMA RemoveInSandboxKeeps ==
  ASSUME WorkspacesInv, NEW s \in WorkSessions, NEW file, RemoveInSandbox(s, file)
  PROVE  WorkspacesInv'
<1>1. box \in [WorkSessions -> FileTrees] /\ lines \in Nat BY DEF WorkspacesInv, WorkspacesTyped
<1> DEFINE b == [r \in Regions |-> IF r[1] = file THEN {} ELSE box[s][r]]
<1>2. box' = [box EXCEPT ![s] = b] BY DEF RemoveInSandbox
<1>3. b \in FileTrees BY <1>1 DEF FileTrees
<1> HIDE DEF b
<1>4. box' \in [WorkSessions -> FileTrees] /\ \A t \in WorkSessions : t # s => box'[t] = box[t]
  BY <1>1, <1>2, <1>3
<1>5. QED BY <1>1, <1>4, BoxWritten DEF RemoveInSandbox

\* What is done to a directory touches the tasks of those that have it.
LEMMA DirectoryWritten ==
  ASSUME WorkspacesInv, NEW p \in Places, NEW S \in SUBSET WorkSessions,
         \A t \in WorkSessions : place[t] = p => t \in S,
         dirs' \in [Places -> FileTrees], staged' \in [Places -> FileTrees], tip' \in [Places -> Nat],
         tip'[p] \in DOMAIN commits, lines' \in Nat,
         \A q \in Places : q # p => dirs'[q] = dirs[q] /\ staged'[q] = staged[q] /\ tip'[q] = tip[q],
         work' = Touched(S, work), UNCHANGED <<place, startHash, commits, box, checkpoints>>
  PROVE  WorkspacesInv'
<1>1. /\ work' \in [WorkSessions -> Tasks]
      /\ \A t \in WorkSessions :
           /\ work'[t].step = work[t].step
           /\ t \in S => work'[t].touched \/ work'[t].step = "none"
           /\ t \notin S => work'[t] = work[t]
  <2>1. work \in [WorkSessions -> Tasks] BY DEF WorkspacesInv, WorkspacesTyped
  <2>2. QED BY <2>1, TouchedTasks, Zenon
<1>2. WorkspacesTyped' BY <1>1 DEF WorkspacesInv, WorkspacesTyped
<1>3. HashesThere' BY <1>1 DEF WorkspacesInv, HashesThere
<1>4. ASSUME NEW t \in WorkSessions PROVE Unmoved(t)
  <2>1. CASE t \in S BY <1>1, <2>1 DEF Unmoved
  <2>2. CASE t \notin S
    <3>1. place[t] # p /\ work'[t] = work[t] BY <1>1, <2>2
    <3>2. CASE place[t] = "none"
      <4>1. work'[t].step = "none" BY <3>1, <3>2 DEF WorkspacesInv, HashesThere
      <4>2. QED BY <4>1 DEF Unmoved
    <3>3. CASE place[t] # "none"
      <4>1. place[t] \in Places BY <3>3 DEF WorkspacesInv, WorkspacesTyped
      <4>2. QED BY <3>1, <4>1 DEF Unmoved
    <3>4. QED BY <3>2, <3>3
  <2>3. QED BY <2>1, <2>2
<1>5. QED BY <1>2, <1>3, <1>4, AllUnmoved, SameRecords DEF WorkspacesInv

\* The user edits the repository.
LEMMA EditHostKeeps ==
  ASSUME WorkspacesInv, NEW r \in Regions, EditHost(r)
  PROVE  WorkspacesInv'
<1>1. dirs \in [Places -> FileTrees] /\ lines \in Nat /\ staged \in [Places -> FileTrees]
      /\ tip \in [Places -> Nat] /\ tip["repo"] \in DOMAIN commits
  BY WorkGround DEF WorkspacesInv, WorkspacesTyped, HashesThere
<1>2. dirs' = [dirs EXCEPT !["repo"] = [dirs["repo"] EXCEPT ![r] = {lines + 1}]] BY DEF EditHost
<1>3. [dirs["repo"] EXCEPT ![r] = {lines + 1}] \in FileTrees BY <1>1, WorkGround DEF FileTrees
<1>4. dirs' \in [Places -> FileTrees] /\ \A q \in Places : q # "repo" => dirs'[q] = dirs[q]
  BY <1>1, <1>2, <1>3
<1> DEFINE S == {t \in WorkSessions : place[t] = "repo"}
<1>5. S \in SUBSET WorkSessions /\ \A t \in WorkSessions : place[t] = "repo" => t \in S OBVIOUS
<1>6. work' = Touched(S, work) /\ lines' = lines + 1
      /\ UNCHANGED <<place, startHash, commits, box, checkpoints, staged, tip>> BY DEF EditHost
<1> HIDE DEF S
<1>7. QED BY <1>1, <1>4, <1>5, <1>6, WorkGround, DirectoryWritten

\* A checkpoint is restored.
LEMMA RestoreKeeps ==
  ASSUME WorkspacesInv, NEW s \in WorkSessions, NEW hash \in DOMAIN commits, Restore(s, hash)
  PROVE  WorkspacesInv'
<1> DEFINE p == place[s]
           d == [r \in Regions |-> IF commits[hash][r] # {} \/ staged[p][r] # {} THEN commits[hash][r] ELSE dirs[p][r]]
           S == {s} \cup Sharing(s)
<1>1. /\ p \in Places /\ dirs \in [Places -> FileTrees] /\ staged \in [Places -> FileTrees]
      /\ tip \in [Places -> Nat] /\ commits[hash] \in FileTrees /\ hash \in Nat /\ lines \in Nat
  BY DEF WorkspacesInv, WorkspacesTyped, Restore
<1>2. /\ dirs' = [dirs EXCEPT ![p] = d] /\ staged' = [staged EXCEPT ![p] = commits[hash]]
      /\ tip' = [tip EXCEPT ![p] = hash]
      /\ UNCHANGED <<place, startHash, commits, box, checkpoints, lines>>
  BY DEF Restore
<1>a. work' = Touched(S, work) BY DEF Restore
<1>3. d \in FileTrees BY <1>1 DEF FileTrees
<1> HIDE DEF d
<1>4. S \in SUBSET WorkSessions /\ \A t \in WorkSessions : place[t] = p => t \in S BY DEF Sharing
<1> HIDE DEF p, S
<1>5. /\ dirs' \in [Places -> FileTrees] /\ staged' \in [Places -> FileTrees] /\ tip' \in [Places -> Nat]
      /\ tip'[p] = hash
      /\ \A q \in Places : q # p => dirs'[q] = dirs[q] /\ staged'[q] = staged[q] /\ tip'[q] = tip[q]
  BY <1>1, <1>2, <1>3
<1>6. QED BY <1>1, <1>2, <1>a, <1>4, <1>5, DirectoryWritten

\* A step of the task of s, where only it and its sandbox change.
LEMMA TaskMoves ==
  ASSUME WorkspacesInv, NEW s \in WorkSessions, NEW t \in Tasks, NEW b \in FileTrees,
         work' = [work EXCEPT ![s] = t], box' = [box EXCEPT ![s] = b],
         t.step # "none" => place[s] # "none",
         AtWork(t, b, dirs[place[s]], staged[place[s]], commits[tip[place[s]]]),
         UNCHANGED <<place, startHash, hostVars, checkpoints, lines>>
  PROVE  WorkspacesInv'
<1> USE DEF hostVars
<1>1. work \in [WorkSessions -> Tasks] /\ box \in [WorkSessions -> FileTrees] BY DEF WorkspacesInv, WorkspacesTyped
<1>2. work'[s] = t /\ box'[s] = b /\ \A u \in WorkSessions : u # s => work'[u] = work[u] /\ box'[u] = box[u]
  BY <1>1
<1>3. work' \in [WorkSessions -> Tasks] /\ box' \in [WorkSessions -> FileTrees] BY <1>1
<1>4. WorkspacesTyped' BY <1>3 DEF WorkspacesInv, WorkspacesTyped
<1>5. HashesThere' BY <1>2 DEF WorkspacesInv, HashesThere
<1>6. ASSUME NEW u \in WorkSessions PROVE AtWorkNext(u)
  <2>1. CASE u = s BY <1>2, <2>1 DEF AtWorkNext
  <2>2. CASE u # s
    <3>1. Unmoved(u) BY <1>2, <2>2 DEF Unmoved
    <3>2. QED BY <3>1, UnmovedInOrder
  <2>3. QED BY <2>1, <2>2
<1>7. QED BY <1>4, <1>5, <1>6, TasksNext, SameRecords DEF WorkspacesInv

\* A task that fails is none.
LEMMA TaskFailsKeeps ==
  ASSUME WorkspacesInv, NEW s \in WorkSessions, TaskFails(s)
  PROVE  WorkspacesInv'
<1>1. box \in [WorkSessions -> FileTrees] /\ box = [box EXCEPT ![s] = box[s]] /\ box[s] \in FileTrees
  BY DEF WorkspacesInv, WorkspacesTyped
<1>2. AtWork(NoTask, box[s], dirs[place[s]], staged[place[s]], commits[tip[place[s]]])
  BY NoTaskTyped DEF AtWork
<1>3. box' = [box EXCEPT ![s] = box[s]] BY <1>1 DEF TaskFails
<1>4. QED BY <1>1, <1>2, <1>3, NoTaskTyped, TaskMoves DEF TaskFails

\* A finite set as a sequence.
LEMMA SetAsSequence ==
  ASSUME NEW S, IsFiniteSet(S)
  PROVE  /\ SetToSeq(S) \in Seq(S) /\ Cardinality(S) \in Nat
         /\ DOMAIN SetToSeq(S) = 1..Cardinality(S) /\ Len(SetToSeq(S)) = Cardinality(S)
<1> DEFINE n == Cardinality(S)
<1>1. n \in Nat /\ ExistsBijection(1..n, S) BY FS_CardinalityType
<1>2. PICK f \in [1..n -> S] : IsInjective(f)
  BY <1>1 DEF ExistsBijection, Bijection, Injection
<1>3. SetToSeq(S) \in [1..n -> S] BY <1>2 DEF SetToSeq
<1> HIDE DEF n
<1>4. QED BY <1>1, <1>3 DEF n

\* What a worker changed is a patch.
LEMMA WorkerPatchIs ==
  ASSUME WorkspacesInv, NEW w \in WorkSessions, HasCheckpoint(w)
  PROVE  WorkerPatch(w) \in Patches
<1> DEFINE Own == OwnCheckpoints(w)
<1>1. Len(checkpoints) \in Nat /\ DOMAIN checkpoints = 1..Len(checkpoints) BY DEF WorkspacesInv, WorkspacesTyped
<1>2. Own # {} /\ Own \in SUBSET (1..Len(checkpoints)) BY <1>1 DEF HasCheckpoint, OwnCheckpoints
<1>3. Own \in SUBSET Nat BY <1>1, <1>2
<1>4. Min(Own) \in Own
  <2> HIDE DEF Own
  <2>1. PICK m \in Own : \A y \in Own : m <= y BY <1>2, <1>3, HasMin
  <2>2. QED BY <2>1 DEF Min
<1> DEFINE i == Min(Own)
           from == commits[startHash[w]]
           to == commits[FirstHash(w)]
<1>5. i \in DOMAIN checkpoints /\ checkpoints[i].session = w BY <1>4 DEF OwnCheckpoints
<1>6. FirstHash(w) = checkpoints[i].hash BY DEF FirstHash
<1> HIDE DEF i, Own
<1>7. FirstHash(w) \in DOMAIN commits /\ startHash[w] \in DOMAIN commits
  BY <1>5, <1>6 DEF WorkspacesInv, HashesThere
<1>8. from \in FileTrees /\ to \in FileTrees BY <1>7 DEF WorkspacesInv, WorkspacesTyped
<1> DEFINE D == {q \in Regions : from[q] # to[q]}
<1>9. WorkerPatch(w) = [r \in D |-> [old |-> from[r], new |-> to[r]]] BY DEF WorkerPatch
<1>10. D \in SUBSET Regions OBVIOUS
<1> HIDE DEF D, from, to
<1>11. WorkerPatch(w) \in [D -> [old : SUBSET Int, new : SUBSET Int]] BY <1>8, <1>9, <1>10 DEF FileTrees
<1>12. QED BY <1>10, <1>11 DEF Patches

\* A task begins on the sandbox as it is.
LEMMA BeginValidateKeeps ==
  ASSUME WorkspacesInv, NEW s \in WorkSessions, BeginValidate(s)
  PROVE  WorkspacesInv'
<1> DEFINE t == [NoTask EXCEPT !.step = "testing", !.before = box[s]]
<1>1. box \in [WorkSessions -> FileTrees] /\ box[s] \in FileTrees BY DEF WorkspacesInv, WorkspacesTyped
<1>2. /\ t \in Tasks /\ t.step = "testing" /\ t.before = box[s] /\ t.patches = <<>>
  BY <1>1, NoTaskTyped DEF NoTask, Tasks, TaskSteps
<1>3. place[s] # "none" /\ work' = [work EXCEPT ![s] = t] /\ box' = box
      /\ UNCHANGED <<place, startHash, hostVars, checkpoints, lines>>
  BY DEF BeginValidate, BeginWork
<1> HIDE DEF t
<1>4. Upto(t.before, t.patches, Len(t.patches), box[s])
  <2>1. Len(t.patches) = 0 /\ 1..0 = {} BY <1>2
  <2>2. QED BY <1>2, <2>1 DEF Upto
<1>5. AtWork(t, box[s], dirs[place[s]], staged[place[s]], commits[tip[place[s]]])
  BY <1>2, <1>4 DEF AtWork
<1>6. box' = [box EXCEPT ![s] = box[s]] BY <1>1, <1>3
<1>7. QED BY <1>1, <1>2, <1>3, <1>5, <1>6, TaskMoves

\* The merge of the workers begins with their patches.
LEMMA BeginMergeKeeps ==
  ASSUME WorkspacesInv, NEW s \in WorkSessions, NEW workers \in SUBSET WorkSessions, BeginMerge(s, workers)
  PROVE  WorkspacesInv'
<1> DEFINE order == SetToSeq(workers)
           ps == [i \in DOMAIN order |-> WorkerPatch(order[i])]
           t == [NoTask EXCEPT !.step = "applying", !.merges = workers, !.before = box[s], !.patches = ps]
<1>1. box \in [WorkSessions -> FileTrees] /\ box[s] \in FileTrees BY DEF WorkspacesInv, WorkspacesTyped
<1>2. place[s] # "none" /\ work' = [work EXCEPT ![s] = t] /\ box' = box
      /\ UNCHANGED <<place, startHash, hostVars, checkpoints, lines>>
      /\ \A w \in workers : HasCheckpoint(w)
  BY DEF BeginMerge, BeginWork
<1>3. IsFiniteSet(workers) BY WorkGround, FS_Subset
<1>4. order \in Seq(workers) /\ DOMAIN order = 1..Cardinality(workers) /\ Cardinality(workers) \in Nat
  BY <1>3, SetAsSequence
<1> HIDE DEF order
<1>5. \A i \in DOMAIN order : WorkerPatch(order[i]) \in Patches
  <2>1. \A i \in DOMAIN order : order[i] \in workers BY <1>4
  <2>2. QED BY <1>2, <2>1, WorkerPatchIs
<1>6. ps \in [1..Cardinality(workers) -> Patches] BY <1>4, <1>5
<1> HIDE DEF ps
<1>7. ps \in Seq(Patches) BY <1>4, <1>6
<1>8. t \in Tasks /\ t.step = "applying" /\ t.before = box[s]
  BY <1>1, <1>7, NoTaskTyped DEF NoTask, Tasks, TaskSteps
<1> HIDE DEF t
<1>9. AtWork(t, box[s], dirs[place[s]], staged[place[s]], commits[tip[place[s]]]) BY <1>8 DEF AtWork
<1>10. box' = [box EXCEPT ![s] = box[s]] BY <1>1, <1>2
<1>11. QED BY <1>1, <1>2, <1>8, <1>9, <1>10, TaskMoves

\* What the task of s tells of itself.
LEMMA TaskOf ==
  ASSUME WorkspacesInv, NEW s \in WorkSessions
  PROVE  /\ work[s] \in Tasks /\ work[s].patches \in Seq(Patches) /\ box[s] \in FileTrees
         /\ work[s].step # "none" => place[s] # "none" /\ place[s] \in Places
         /\ AtWork(work[s], box[s], dirs[place[s]], staged[place[s]], commits[tip[place[s]]])
<1>1. work[s] \in Tasks /\ box[s] \in FileTrees BY DEF WorkspacesInv, WorkspacesTyped
<1>2. work[s].patches \in Seq(Patches) BY <1>1 DEF Tasks
<1>3. work[s].step # "none" => place[s] # "none" /\ place[s] \in Places
  BY DEF WorkspacesInv, WorkspacesTyped, HashesThere
<1>4. QED BY <1>1, <1>2, <1>3 DEF WorkspacesInv, TasksInOrder

\* A task at another step.
LEMMA SteppedTask ==
  ASSUME NEW t \in Tasks, NEW step \in TaskSteps, NEW u, u = [t EXCEPT !.step = step]
  PROVE  /\ u \in Tasks /\ u.step = step /\ u.patches = t.patches /\ u.before = t.before
         /\ u.tested = t.tested /\ u.files = t.files /\ u.touched = t.touched
BY DEF Tasks

\* The patches are applied: they all are, or the merge fails.
LEMMA ApplyPatchesKeeps ==
  ASSUME WorkspacesInv, NEW s \in WorkSessions, ApplyPatches(s)
  PROVE  WorkspacesInv'
<1> DEFINE t == work[s]
           done == ApplyAll(box[s], t.patches)
           u == [t EXCEPT !.step = "testing"]
<1>1. t \in Tasks /\ t.patches \in Seq(Patches) /\ box[s] \in FileTrees /\ place[s] # "none"
  BY TaskOf DEF ApplyPatches
<1>2. t.step = "applying" /\ box' = [box EXCEPT ![s] = done.box]
      /\ work' = [work EXCEPT ![s] = IF done.failed THEN NoTask ELSE u]
      /\ UNCHANGED <<place, startHash, hostVars, checkpoints, lines>>
  BY DEF ApplyPatches, AtStep
<1>3. done \in Applying /\ (~done.failed => Upto(box[s], t.patches, Len(t.patches), done.box))
  BY <1>1, AppliesAll
<1>4. ~t.touched => box[s] = t.before BY <1>2, TaskOf DEF AtWork
<1>5. u \in Tasks /\ u.step = "testing" /\ u.patches = t.patches /\ u.before = t.before /\ u.touched = t.touched
  BY <1>1, SteppedTask DEF TaskSteps
<1> HIDE DEF done, u, t
<1>6. done.box \in FileTrees BY <1>3 DEF Applying
<1>7. CASE done.failed
  <2>1. AtWork(NoTask, done.box, dirs[place[s]], staged[place[s]], commits[tip[place[s]]])
    BY NoTaskTyped DEF AtWork
  <2>2. work' = [work EXCEPT ![s] = NoTask] BY <1>2, <1>7
  <2>3. QED BY <1>1, <1>2, <1>6, <2>1, <2>2, NoTaskTyped, TaskMoves
<1>8. CASE ~done.failed
  <2>1. AtWork(u, done.box, dirs[place[s]], staged[place[s]], commits[tip[place[s]]])
    BY <1>3, <1>4, <1>5, <1>8 DEF AtWork
  <2>2. work' = [work EXCEPT ![s] = u] BY <1>2, <1>8
  <2>3. QED BY <1>1, <1>2, <1>5, <1>6, <2>1, <2>2, TaskMoves
<1>9. QED BY <1>7, <1>8

\* What the tests saw is the sandbox as it is.
LEMMA TestsPassKeeps ==
  ASSUME WorkspacesInv, NEW s \in WorkSessions, TestsPass(s)
  PROVE  WorkspacesInv'
<1> DEFINE t == work[s]
           b == box[s]
           fs == FilesOf({r \in Regions : b[r] # {}})
           u == [t EXCEPT !.step = "syncing"]
           v == [u EXCEPT !.tested = b, !.files = fs]
<1>1. t \in Tasks /\ b \in FileTrees /\ place[s] # "none" /\ t.step = "testing"
      /\ AtWork(t, b, dirs[place[s]], staged[place[s]], commits[tip[place[s]]])
  BY TaskOf DEF TestsPass
<1>2. work' = [work EXCEPT ![s] = v] /\ box' = box
      /\ UNCHANGED <<place, startHash, hostVars, checkpoints, lines>>
  BY DEF TestsPass, AtStep
<1>3. u \in Tasks /\ u.step = "syncing" /\ u.patches = t.patches /\ u.before = t.before /\ u.touched = t.touched
  BY <1>1, SteppedTask DEF TaskSteps
<1>4. fs \in SUBSET FilesOf(Regions) /\ \A r \in Regions : b[r] # {} => r[1] \in fs BY DEF FilesOf
<1> HIDE DEF u, fs
<1>5. /\ v \in Tasks /\ v.step = "syncing" /\ v.patches = t.patches /\ v.before = t.before
      /\ v.touched = t.touched /\ v.tested = b /\ v.files = fs
  BY <1>1, <1>3, <1>4 DEF Tasks
<1> HIDE DEF v, t
<1>6. ~t.touched => Upto(t.before, t.patches, Len(t.patches), b) BY <1>1 DEF AtWork
<1>7. AtWork(v, b, dirs[place[s]], staged[place[s]], commits[tip[place[s]]])
  BY <1>4, <1>5, <1>6 DEF AtWork
<1>8. box' = [box EXCEPT ![s] = b] BY <1>2 DEF WorkspacesInv, WorkspacesTyped
<1>9. QED BY <1>1, <1>2, <1>5, <1>7, <1>8, TaskMoves

\* A step in a directory p: those elsewhere do not see it, those in it are in order.
LEMMA DirectoryMoves ==
  ASSUME WorkspacesInv, NEW p \in Places, work' \in [WorkSessions -> Tasks],
         dirs' \in [Places -> FileTrees], staged' \in [Places -> FileTrees], tip' \in [Places -> Nat],
         commits' \in Seq(FileTrees), \A i \in DOMAIN commits : i \in DOMAIN commits' /\ commits'[i] = commits[i],
         tip'[p] \in DOMAIN commits',
         \A q \in Places : q # p => dirs'[q] = dirs[q] /\ staged'[q] = staged[q] /\ tip'[q] = tip[q],
         \A u \in WorkSessions : work'[u].step # "none" => work[u].step # "none",
         \A u \in WorkSessions : place[u] # p => work'[u] = work[u],
         \A u \in WorkSessions : place[u] = p => AtWorkNext(u),
         UNCHANGED <<place, startHash, box, checkpoints, lines>>
  PROVE  WorkspacesInv'
<1>1. WorkspacesTyped' BY DEF WorkspacesInv, WorkspacesTyped
<1>2. \A q \in Places : tip'[q] \in DOMAIN commits' BY DEF WorkspacesInv, HashesThere
<1>3. HashesThere' BY <1>2 DEF WorkspacesInv, HashesThere
<1>4. ASSUME NEW u \in WorkSessions, place[u] # p PROVE AtWorkNext(u)
  <2>1. work'[u] = work[u] BY <1>4
  <2>2. CASE place[u] = "none"
    <3>1. work'[u].step = "none" BY <2>1, <2>2 DEF WorkspacesInv, HashesThere
    <3>2. Unmoved(u) BY <3>1 DEF Unmoved
    <3>3. QED BY <3>2, UnmovedInOrder
  <2>3. CASE place[u] # "none"
    <3>1. place[u] \in Places BY <2>3 DEF WorkspacesInv, WorkspacesTyped
    <3>2. tip[place[u]] \in DOMAIN commits BY <3>1 DEF WorkspacesInv, HashesThere
    <3>3. tip'[place[u]] = tip[place[u]] /\ dirs'[place[u]] = dirs[place[u]] /\ staged'[place[u]] = staged[place[u]]
      BY <1>4, <3>1
    <3>4. commits'[tip'[place[u]]] = commits[tip[place[u]]] BY <3>2, <3>3
    <3>5. Unmoved(u) BY <2>1, <3>3, <3>4 DEF Unmoved
    <3>6. QED BY <3>5, UnmovedInOrder
  <2>4. QED BY <2>2, <2>3
<1>5. \A u \in WorkSessions : AtWorkNext(u) BY <1>4
<1>6. RecordsRight' BY RecordsStay
<1>7. QED BY <1>1, <1>3, <1>5, <1>6, TasksNext DEF WorkspacesInv

\* Those that share a directory are touched, and the task of s itself becomes v.
LEMMA SharersTouched ==
  ASSUME WorkspacesInv, NEW s \in WorkSessions, NEW v \in Tasks, work[s].step # "none",
         work' = [Touched(Sharing(s), work) EXCEPT ![s] = v]
  PROVE  /\ work' \in [WorkSessions -> Tasks] /\ work'[s] = v
         /\ \A u \in WorkSessions : work'[u].step # "none" => work[u].step # "none"
         /\ \A u \in WorkSessions : place[u] # place[s] => work'[u] = work[u]
         /\ \A u \in WorkSessions : u # s /\ place[u] = place[s] => AtWorkNext(u)
         /\ Touched(Sharing(s), work)[s] = work[s]
<1> DEFINE S == Sharing(s)
           f == Touched(S, work)
<1>1. S \in SUBSET WorkSessions /\ s \notin S
      /\ \A u \in WorkSessions : (u \in S <=> place[u] = place[s] /\ u # s) BY DEF Sharing
<1>2. work \in [WorkSessions -> Tasks] BY DEF WorkspacesInv, WorkspacesTyped
<1> HIDE DEF S
<1>3. /\ f \in [WorkSessions -> Tasks]
      /\ \A u \in WorkSessions :
           /\ f[u].step = work[u].step
           /\ u \in S => f[u].touched \/ f[u].step = "none"
           /\ u \notin S => f[u] = work[u]
  BY <1>1, <1>2, TouchedTasks, Zenon
<1>4. work' = [f EXCEPT ![s] = v] BY DEF S
<1> HIDE DEF f
<1>5. work' \in [WorkSessions -> Tasks] /\ work'[s] = v /\ \A u \in WorkSessions : u # s => work'[u] = f[u]
  BY <1>3, <1>4
<1>6. ASSUME NEW u \in WorkSessions, u # s, place[u] = place[s] PROVE AtWorkNext(u)
  <2>1. u \in S BY <1>1, <1>6
  <2>2. Unmoved(u) BY <1>3, <1>5, <1>6, <2>1 DEF Unmoved
  <2>3. QED BY <2>2, UnmovedInOrder
<1>7. \A u \in WorkSessions : place[u] # place[s] => work'[u] = work[u]
  <2>1. \A u \in WorkSessions : place[u] # place[s] => u # s /\ u \notin S BY <1>1
  <2>2. QED BY <1>3, <1>5, <2>1
<1>8. \A u \in WorkSessions : work'[u].step # "none" => work[u].step # "none"
  <2>1. ASSUME NEW u \in WorkSessions, work'[u].step # "none" PROVE work[u].step # "none"
    <3>1. CASE u = s BY <3>1
    <3>2. CASE u # s BY <1>3, <1>5, <2>1, <3>2
    <3>3. QED BY <3>1, <3>2
  <2>2. QED BY <2>1
<1>9. f[s] = work[s] BY <1>1, <1>3
<1>10. QED BY <1>5, <1>6, <1>7, <1>8, <1>9 DEF f, S

\* A file is copied to the directory of the session.
LEMMA SyncFileKeeps ==
  ASSUME WorkspacesInv, NEW s \in WorkSessions, NEW file \in FilesOf(Regions), SyncFile(s, file)
  PROVE  WorkspacesInv'
<1> DEFINE t == work[s]
           p == place[s]
           b == box[s]
           f == Touched(Sharing(s), work)
           d == [r \in Regions |-> IF r[1] = file /\ b[r] # {} THEN b[r] ELSE dirs[p][r]]
           v == [t EXCEPT !.files = t.files \ {file}]
<1>1. /\ t \in Tasks /\ b \in FileTrees /\ p \in Places /\ t.step = "syncing"
      /\ AtWork(t, b, dirs[p], staged[p], commits[tip[p]])
  BY TaskOf DEF SyncFile
<1>2. /\ dirs' = [dirs EXCEPT ![p] = d] /\ work' = [f EXCEPT ![s] = [f[s] EXCEPT !.files = f[s].files \ {file}]]
      /\ UNCHANGED <<place, startHash, staged, tip, commits, box, checkpoints, lines>>
  BY DEF SyncFile
<1>a. t.step # "none" BY <1>1
<1>3. f[s] = t
  <2>1. Sharing(s) \in SUBSET WorkSessions /\ s \notin Sharing(s) BY DEF Sharing
  <2>2. work \in [WorkSessions -> Tasks] BY DEF WorkspacesInv, WorkspacesTyped
  <2>3. QED BY <2>1, <2>2, TouchedTasks
<1>4. work' = [f EXCEPT ![s] = v] BY <1>2, <1>3
<1>5. /\ dirs \in [Places -> FileTrees] /\ staged \in [Places -> FileTrees] /\ tip \in [Places -> Nat]
      /\ commits \in Seq(FileTrees) /\ tip[p] \in DOMAIN commits
  BY <1>1 DEF WorkspacesInv, WorkspacesTyped, HashesThere
<1>6. d \in FileTrees BY <1>1, <1>5 DEF FileTrees
<1>7. \A r \in Regions : (r[1] = file /\ b[r] # {} => d[r] = b[r]) /\ (~(r[1] = file /\ b[r] # {}) => d[r] = dirs[p][r])
  OBVIOUS
<1>8. /\ v \in Tasks /\ v.step = "syncing" /\ v.patches = t.patches /\ v.before = t.before
      /\ v.touched = t.touched /\ v.tested = t.tested /\ v.files = t.files \ {file}
  BY <1>1 DEF Tasks
<1> HIDE DEF v, d
<1>9. ~t.touched => /\ t.tested = b /\ Upto(t.before, t.patches, Len(t.patches), t.tested)
                    /\ \A r \in Regions : t.tested[r] # {} /\ r[1] \notin t.files => dirs[p][r] = t.tested[r]
  BY <1>1 DEF AtWork
<1>10. ~t.touched => \A r \in Regions : t.tested[r] # {} /\ r[1] \notin v.files => d[r] = t.tested[r]
  BY <1>7, <1>8, <1>9
<1>11. AtWork(v, b, d, staged[p], commits[tip[p]])
  <2> HIDE DEF b, p, t
  <2>1. QED BY <1>8, <1>9, <1>10 DEF AtWork
<1>12. dirs' \in [Places -> FileTrees] /\ dirs'[p] = d /\ \A q \in Places : q # p => dirs'[q] = dirs[q]
  BY <1>1, <1>2, <1>5, <1>6
<1> HIDE DEF f, t
<1>13. /\ work' \in [WorkSessions -> Tasks] /\ work'[s] = v
       /\ \A u \in WorkSessions : work'[u].step # "none" => work[u].step # "none"
       /\ \A u \in WorkSessions : place[u] # p => work'[u] = work[u]
       /\ \A u \in WorkSessions : u # s /\ place[u] = p => AtWorkNext(u)
  BY <1>a, <1>4, <1>8, SharersTouched DEF f, t
<1>14. AtWorkNext(s)
  <2>1. box'[s] = b /\ place'[s] = p /\ staged' = staged /\ commits' = commits /\ tip' = tip BY <1>2
  <2>2. QED BY <1>11, <1>12, <1>13, <2>1 DEF AtWorkNext
<1> HIDE DEF p
<1>15. \A u \in WorkSessions : place[u] = p => AtWorkNext(u) BY <1>13, <1>14
<1>16. QED BY <1>1, <1>2, <1>5, <1>12, <1>13, <1>15, DirectoryMoves

\* What is staged is what is in the directory.
LEMMA AddKeeps ==
  ASSUME WorkspacesInv, NEW s \in WorkSessions, Add(s)
  PROVE  WorkspacesInv'
<1> DEFINE t == work[s]
           p == place[s]
           d == dirs[p]
           v == [t EXCEPT !.step = "committing"]
<1>1. /\ t \in Tasks /\ p \in Places /\ t.step = "syncing" /\ t.files = {}
      /\ AtWork(t, box[s], d, staged[p], commits[tip[p]])
  BY TaskOf DEF Add
<1>2. /\ staged' = [staged EXCEPT ![p] = d] /\ work' = [work EXCEPT ![s] = v]
      /\ UNCHANGED <<place, startHash, dirs, tip, commits, box, checkpoints, lines>>
  BY DEF Add, AtStep
<1>3. /\ dirs \in [Places -> FileTrees] /\ staged \in [Places -> FileTrees] /\ tip \in [Places -> Nat]
      /\ commits \in Seq(FileTrees) /\ tip[p] \in DOMAIN commits /\ work \in [WorkSessions -> Tasks]
  BY <1>1 DEF WorkspacesInv, WorkspacesTyped, HashesThere
<1>4. /\ v \in Tasks /\ v.step = "committing" /\ v.patches = t.patches /\ v.before = t.before
      /\ v.touched = t.touched /\ v.tested = t.tested
  BY <1>1, SteppedTask DEF TaskSteps
<1> HIDE DEF v
<1>5. ~t.touched => /\ t.tested = box[s] /\ Upto(t.before, t.patches, Len(t.patches), t.tested)
                    /\ HoldsAll(d, t.tested)
  BY <1>1 DEF AtWork, HoldsAll
<1>6. AtWork(v, box[s], d, d, commits[tip[p]])
  <2> HIDE DEF d, p, t
  <2>1. QED BY <1>4, <1>5 DEF AtWork
<1>7. d \in FileTrees BY <1>1, <1>3
<1> HIDE DEF d
<1>8. staged' \in [Places -> FileTrees] /\ staged'[p] = d /\ \A q \in Places : q # p => staged'[q] = staged[q]
  BY <1>1, <1>2, <1>3, <1>7
<1>9. work' \in [WorkSessions -> Tasks] /\ work'[s] = v /\ \A u \in WorkSessions : u # s => work'[u] = work[u]
  BY <1>2, <1>3, <1>4
<1>10. \A u \in WorkSessions : work'[u].step # "none" => work[u].step # "none"
  <2>1. t.step # "none" BY <1>1
  <2>2. QED BY <1>9, <2>1
<1>11. ASSUME NEW u \in WorkSessions, place[u] = p PROVE AtWorkNext(u)
  <2>1. CASE u = s
    <3>1. box'[s] = box[s] /\ place'[s] = p /\ dirs'[p] = d /\ commits' = commits /\ tip' = tip BY <1>2 DEF d
    <3>2. AtWorkNext(s) BY <1>6, <1>8, <1>9, <3>1 DEF AtWorkNext
    <3>3. QED BY <2>1, <3>2
  <2>2. CASE u # s
    <3>1. AtWork(work[u], box[u], d, staged[p], commits[tip[p]]) BY <1>11, TaskOf DEF d
    <3>2. AtWork(work[u], box[u], d, d, commits[tip[p]]) BY <3>1 DEF AtWork
    <3>3. box'[u] = box[u] /\ place'[u] = p /\ dirs'[p] = d /\ commits' = commits /\ tip' = tip /\ work'[u] = work[u]
      BY <1>2, <1>9, <1>11, <2>2 DEF d
    <3>4. QED BY <1>8, <3>2, <3>3 DEF AtWorkNext
  <2>3. QED BY <2>1, <2>2
<1>12. \A u \in WorkSessions : place[u] # p => work'[u] = work[u] BY <1>9
<1> HIDE DEF p
<1>13. QED BY <1>1, <1>2, <1>3, <1>8, <1>9, <1>10, <1>11, <1>12, DirectoryMoves

\* A commit more, or none where there is nothing new.
LEMMA CommitKeeps ==
  ASSUME WorkspacesInv, NEW s \in WorkSessions, Commit(s)
  PROVE  WorkspacesInv'
<1> DEFINE t == work[s]
           p == place[s]
           f == Touched(Sharing(s), work)
           g == staged[p]
           v == [t EXCEPT !.step = "reading"]
<1>1. /\ t \in Tasks /\ p \in Places /\ t.step = "committing"
      /\ AtWork(t, box[s], dirs[p], g, commits[tip[p]])
  BY TaskOf DEF Commit
<1>2. /\ work' = [f EXCEPT ![s] = [f[s] EXCEPT !.step = "reading"]]
      /\ \/ g = commits[tip[p]] /\ UNCHANGED <<commits, tip>>
         \/ commits' = Append(commits, g) /\ tip' = [tip EXCEPT ![p] = Len(commits) + 1]
      /\ UNCHANGED <<place, startHash, dirs, staged, box, checkpoints, lines>>
  BY DEF Commit
<1>a. t.step # "none" BY <1>1
<1>3. f[s] = t
  <2>1. Sharing(s) \in SUBSET WorkSessions /\ s \notin Sharing(s) BY DEF Sharing
  <2>2. work \in [WorkSessions -> Tasks] BY DEF WorkspacesInv, WorkspacesTyped
  <2>3. QED BY <2>1, <2>2, TouchedTasks
<1>4. work' = [f EXCEPT ![s] = v] BY <1>2, <1>3
<1>5. /\ dirs \in [Places -> FileTrees] /\ staged \in [Places -> FileTrees] /\ tip \in [Places -> Nat]
      /\ commits \in Seq(FileTrees) /\ tip[p] \in DOMAIN commits /\ g \in FileTrees
  BY <1>1 DEF WorkspacesInv, WorkspacesTyped, HashesThere
<1>6. /\ v \in Tasks /\ v.step = "reading" /\ v.patches = t.patches /\ v.before = t.before
      /\ v.touched = t.touched /\ v.tested = t.tested
  BY <1>1, SteppedTask DEF TaskSteps
<1> HIDE DEF v, g
<1>7. ~t.touched => /\ t.tested = box[s] /\ Upto(t.before, t.patches, Len(t.patches), t.tested)
                    /\ HoldsAll(dirs[p], t.tested) /\ HoldsAll(g, t.tested)
  BY <1>1 DEF AtWork
<1>8. AtWork(v, box[s], dirs[p], g, g)
  <2> HIDE DEF p, t
  <2>1. QED BY <1>6, <1>7 DEF AtWork
<1>9. /\ commits' \in Seq(FileTrees) /\ tip' \in [Places -> Nat]
      /\ \A i \in DOMAIN commits : i \in DOMAIN commits' /\ commits'[i] = commits[i]
      /\ tip'[p] \in DOMAIN commits' /\ commits'[tip'[p]] = g
      /\ \A q \in Places : q # p => tip'[q] = tip[q]
  <2>1. CASE g = commits[tip[p]] /\ UNCHANGED <<commits, tip>> BY <1>5, <2>1
  <2>2. CASE commits' = Append(commits, g) /\ tip' = [tip EXCEPT ![p] = Len(commits) + 1]
    <3>1. Len(commits) \in Nat BY <1>5
    <3>2. tip'[p] = Len(commits) + 1 /\ tip' \in [Places -> Nat] /\ \A q \in Places : q # p => tip'[q] = tip[q]
      BY <1>1, <1>5, <2>2, <3>1
    <3>3. commits' \in Seq(FileTrees) /\ Len(commits) + 1 \in DOMAIN commits' /\ commits'[Len(commits) + 1] = g
      BY <1>5, <2>2
    <3>4. \A i \in DOMAIN commits : i \in DOMAIN commits' /\ commits'[i] = commits[i] BY <1>5, <2>2
    <3>5. QED BY <3>2, <3>3, <3>4
  <2>3. QED BY <1>2, <2>1, <2>2
<1> HIDE DEF f, t
<1>10. /\ work' \in [WorkSessions -> Tasks] /\ work'[s] = v
       /\ \A u \in WorkSessions : work'[u].step # "none" => work[u].step # "none"
       /\ \A u \in WorkSessions : place[u] # p => work'[u] = work[u]
       /\ \A u \in WorkSessions : u # s /\ place[u] = p => AtWorkNext(u)
  BY <1>a, <1>4, <1>6, SharersTouched DEF f, t
<1>11. AtWorkNext(s)
  <2>1. box'[s] = box[s] /\ place'[s] = p /\ staged'[p] = g /\ dirs' = dirs BY <1>2 DEF g
  <2>2. QED BY <1>8, <1>9, <1>10, <2>1 DEF AtWorkNext
<1> HIDE DEF p
<1>12. \A u \in WorkSessions : place[u] = p => AtWorkNext(u) BY <1>10, <1>11
<1>13. QED BY <1>1, <1>2, <1>5, <1>9, <1>10, <1>12, DirectoryMoves

\* The row of a checkpoint.
LEMMA ReadHeadKeeps ==
  ASSUME WorkspacesInv, NEW s \in WorkSessions, ReadHead(s)
  PROVE  WorkspacesInv'
<1> DEFINE t == work[s]
           p == place[s]
           cs == {f \in FilesOf(Regions) : SeveralChange(t.patches, f)}
           c == [session |-> s, hash |-> tip[p], work |-> t, conflicts |-> cs]
<1>1. /\ t \in Tasks /\ p \in Places /\ p # "none" /\ t.step = "reading"
      /\ AtWork(t, box[s], dirs[p], staged[p], commits[tip[p]])
  BY TaskOf DEF ReadHead
<1>2. /\ checkpoints' = Append(checkpoints, c) /\ work' = [work EXCEPT ![s] = NoTask]
      /\ UNCHANGED <<place, startHash, dirs, staged, tip, commits, box, lines>>
  BY DEF ReadHead, hostVars
<1>3. /\ checkpoints \in Seq(CheckpointRows) /\ tip[p] \in DOMAIN commits /\ tip[p] \in Nat
      /\ work \in [WorkSessions -> Tasks]
  BY <1>1 DEF WorkspacesInv, WorkspacesTyped, HashesThere
<1>4. cs \in SUBSET FilesOf(Regions) OBVIOUS
<1>5. /\ c \in CheckpointRows /\ c.session = s /\ c.hash = tip[p] /\ c.work = t /\ c.conflicts = cs
  <2> HIDE DEF cs, t, p
  <2>1. QED BY <1>1, <1>3, <1>4 DEF CheckpointRows
<1>6. ~t.touched => /\ Upto(t.before, t.patches, Len(t.patches), t.tested)
                    /\ HoldsAll(commits[tip[p]], t.tested)
  BY <1>1 DEF AtWork
<1>7. RecordedRight(c, commits[c.hash])
  <2> HIDE DEF c, t, p
  <2>1. QED BY <1>5, <1>6 DEF RecordedRight
<1> HIDE DEF c, t
<1>8. /\ checkpoints' \in Seq(CheckpointRows)
      /\ \A i \in DOMAIN checkpoints' : checkpoints'[i] = c \/ (i \in DOMAIN checkpoints /\ checkpoints'[i] = checkpoints[i])
  BY <1>2, <1>3, <1>5
<1>9. work' \in [WorkSessions -> Tasks] /\ work'[s] = NoTask /\ \A u \in WorkSessions : u # s => work'[u] = work[u]
  BY <1>2, <1>3, NoTaskTyped
<1>10. WorkspacesTyped' BY <1>2, <1>8, <1>9 DEF WorkspacesInv, WorkspacesTyped
<1>11. HashesThere'
  <2>1. \A i \in DOMAIN checkpoints' : checkpoints'[i].hash \in DOMAIN commits /\ place[checkpoints'[i].session] # "none"
    BY <1>1, <1>3, <1>5, <1>8 DEF WorkspacesInv, HashesThere
  <2>2. \A u \in WorkSessions : work'[u].step # "none" => place[u] # "none"
    BY <1>9, NoTaskTyped DEF WorkspacesInv, HashesThere
  <2>3. QED BY <1>2, <2>1, <2>2 DEF WorkspacesInv, HashesThere
<1>12. \A u \in WorkSessions : Unmoved(u) BY <1>2, <1>9, NoTaskTyped DEF Unmoved
<1>13. RecordsRight'
  <2>1. \A i \in DOMAIN checkpoints' : RecordedRight(checkpoints'[i], commits[checkpoints'[i].hash])
    BY <1>7, <1>8 DEF WorkspacesInv, RecordsRight
  <2>2. QED BY <1>2, <2>1 DEF RecordsRight
<1>14. QED BY <1>10, <1>11, <1>12, <1>13, AllUnmoved DEF WorkspacesInv

\* Every step keeps the invariant,
LEMMA WorkspacesKept ==
  ASSUME WorkspacesInv, WorkspacesNext
  PROVE  WorkspacesInv'
<1>1. CASE \E r \in Regions : EditHost(r) BY <1>1, EditHostKeeps
<1>2. ASSUME NEW s \in WorkSessions, ReadStart(s) PROVE WorkspacesInv' BY <1>2, ReadStartKeeps
<1>3. ASSUME NEW s \in WorkSessions, NEW worktree \in BOOLEAN, CreateWorkspace(s, worktree) PROVE WorkspacesInv'
  BY <1>3, CreateWorkspaceKeeps
<1>4. ASSUME NEW s \in WorkSessions, NEW r \in Regions, WriteSandbox(s, r) PROVE WorkspacesInv'
  BY <1>4, WriteSandboxKeeps
<1>5. ASSUME NEW s \in WorkSessions, NEW file, RemoveInSandbox(s, file) PROVE WorkspacesInv'
  BY <1>5, RemoveInSandboxKeeps
<1>6. ASSUME NEW s \in WorkSessions, NEW hash \in DOMAIN commits, Restore(s, hash) PROVE WorkspacesInv'
  BY <1>6, RestoreKeeps
<1>7. ASSUME NEW s \in WorkSessions, NEW workers \in SUBSET WorkSessions, BeginMerge(s, workers) PROVE WorkspacesInv'
  BY <1>7, BeginMergeKeeps
<1>8. ASSUME NEW s \in WorkSessions, NEW file \in FilesOf(Regions), SyncFile(s, file) PROVE WorkspacesInv'
  BY <1>8, SyncFileKeeps
<1>9. ASSUME NEW s \in WorkSessions, \/ BeginValidate(s) \/ ApplyPatches(s) \/ TestsPass(s) \/ Add(s)
                                     \/ Commit(s) \/ ReadHead(s) \/ TaskFails(s)
      PROVE WorkspacesInv'
  BY <1>9, BeginValidateKeeps, ApplyPatchesKeeps, TestsPassKeeps, AddKeeps, CommitKeeps, ReadHeadKeeps, TaskFailsKeeps
<1>10. QED BY <1>1, <1>2, <1>3, <1>4, <1>5, <1>6, <1>7, <1>8, <1>9, Zenon DEF WorkspacesNext

\* and so do the steps of the other parts.
LEMMA WorkspacesStay ==
  ASSUME WorkspacesInv, UNCHANGED workspaceVars
  PROVE  WorkspacesInv'
<1>1. WorkspacesTyped' BY DEF WorkspacesInv, WorkspacesTyped, workspaceVars
<1>2. HashesThere' BY DEF WorkspacesInv, HashesThere, workspaceVars
<1>3. \A s \in WorkSessions : Unmoved(s) BY DEF Unmoved, workspaceVars
<1>4. UNCHANGED <<commits, checkpoints>> BY DEF workspaceVars
<1>5. QED BY <1>1, <1>2, <1>3, <1>4, AllUnmoved, SameRecords DEF WorkspacesInv

\* Nothing is at work at first.
LEMMA FreshInv ==
  ASSUME Fresh, NoWork, lines \in Nat
  PROVE  WorkspacesInv
<1>1. /\ First \in FileTrees /\ Nothing \in FileTrees /\ NoTask \in Tasks /\ NoTask.step = "none" BY NoTaskTyped
<1>2. /\ place = [s \in WorkSessions |-> "none"] /\ startHash = [s \in WorkSessions |-> 0]
      /\ dirs = [p \in Places |-> IF p = "repo" THEN First ELSE Nothing] /\ staged = dirs
      /\ tip = [p \in Places |-> 1] /\ commits = <<First>> /\ box = [s \in WorkSessions |-> Nothing]
      /\ checkpoints = <<>> /\ work = [s \in WorkSessions |-> NoTask]
  BY DEF Fresh, NoWork
<1>3. commits \in Seq(FileTrees) /\ 1 \in DOMAIN commits BY <1>1, <1>2
<1>4. checkpoints \in Seq(CheckpointRows) /\ DOMAIN checkpoints = {} BY <1>2
<1>5. dirs \in [Places -> FileTrees] BY <1>1, <1>2
<1>6. WorkspacesTyped BY <1>1, <1>2, <1>3, <1>4, <1>5 DEF WorkspacesTyped
<1>7. HashesThere BY <1>1, <1>2, <1>3, <1>4 DEF HashesThere
<1>8. TasksInOrder BY <1>1, <1>2 DEF TasksInOrder, AtWork
<1>9. RecordsRight BY <1>4 DEF RecordsRight
<1>10. QED BY <1>6, <1>7, <1>8, <1>9 DEF WorkspacesInv

\* Workers whose work is there, each in a worktree, with a commit and a checkpoint of its own.
LEMMA WorkedInv ==
  ASSUME NEW edited \in [DOMAIN Workers -> SUBSET Regions \ {{}}], Worked(edited), NoWork, lines \in Nat
  PROVE  WorkspacesInv
<1> DEFINE Of(i) == [r \in Regions |-> IF r \in edited[i] THEN {MaxLines + i} ELSE First[r]]
           Nr(s) == CHOOSE i \in DOMAIN Workers : Workers[i] = s
           works == [i \in DOMAIN Workers |-> Of(i)]
           row(i) == [NoTask EXCEPT !.before = works[i], !.tested = works[i]]
           c(i) == [session |-> Workers[i], hash |-> i + 1, conflicts |-> {}, work |-> row(i)]
           n == Len(Workers)
<1>1. /\ Workers \in Seq(WorkSessions) /\ n \in Nat /\ DOMAIN Workers = 1..n
      /\ \A i \in 1..n : Workers[i] \in WorkSessions
  <2> DEFINE q == SetToSeq(WorkSessions)
  <2>1. q \in Seq(WorkSessions) /\ Len(q) = Cardinality(WorkSessions) BY SetAsSequence, WorkGround
  <2>2. q # <<>>
    <3>1. Cardinality(WorkSessions) # 0 BY FS_EmptySet, WorkGround
    <3> HIDE DEF q
    <3>2. QED BY <2>1, <3>1
  <2> HIDE DEF q
  <2>3. Tail(q) \in Seq(WorkSessions) BY <2>1, <2>2
  <2>4. Workers \in Seq(WorkSessions) BY <2>3 DEF Workers, q
  <2>5. QED BY <2>4
<1> HIDE DEF n
<1>2. /\ First \in FileTrees /\ NoTask \in Tasks /\ NoTask.step = "none" /\ NoTask.patches = <<>>
      /\ MaxLines \in Nat
  BY NoTaskTyped, WorkGround DEF NoTask
<1>3. \A i \in 1..n : Of(i) \in FileTrees
  <2>1. ASSUME NEW i \in 1..n PROVE Of(i) \in FileTrees
    <3>1. MaxLines + i \in Nat BY <1>1, <1>2
    <3>2. \A r \in Regions : First[r] \in SUBSET Int BY <1>2 DEF FileTrees
    <3>3. QED BY <3>1, <3>2 DEF FileTrees
  <2>2. QED BY <2>1
<1>4. works \in [1..n -> FileTrees] /\ works \in Seq(FileTrees) /\ Len(works) = n
  <2>1. works \in [1..n -> FileTrees] BY <1>1, <1>3
  <2> HIDE DEF works
  <2>2. QED BY <1>1, <2>1
<1>5. \A s \in WorkSessions : s \in Range(Workers) => Nr(s) \in 1..n /\ Workers[Nr(s)] = s
  BY <1>1 DEF Range
<1>6. place = [s \in WorkSessions |-> IF s \in Range(Workers) THEN Workers[Nr(s)] ELSE "repo"]
      /\ startHash = [s \in WorkSessions |-> 1]
  BY DEF Worked
<1>7. commits = <<First>> \o works BY DEF Worked
<1>8. box = [s \in WorkSessions |-> IF s \in Range(Workers) THEN works[Nr(s)] ELSE First]
  BY DEF Worked
<1>9. dirs = [p \in Places |-> IF p = "repo" THEN First ELSE box[p]] /\ staged = dirs
  BY DEF Worked
<1>10. tip = [p \in Places |-> IF p = "repo" THEN 1 ELSE
         [s \in WorkSessions |-> IF s \in Range(Workers) THEN [i \in DOMAIN Workers |-> i + 1][Nr(s)] ELSE 1][p]]
  BY DEF Worked
<1>11. checkpoints = [i \in DOMAIN Workers |-> c(i)]
  BY DEF Worked
<1>12. work = [s \in WorkSessions |-> NoTask] BY DEF NoWork
<1> HIDE DEF Of, works, Nr
<1>13. /\ commits \in Seq(FileTrees) /\ DOMAIN commits = 1..(n + 1) /\ commits[1] = First
       /\ \A i \in 1..n : commits[i + 1] = works[i]
  <2>1. <<First>> \in Seq(FileTrees) /\ Len(<<First>>) = 1 BY <1>2
  <2>2. commits \in Seq(FileTrees) /\ Len(commits) = 1 + n BY <1>4, <1>7, <2>1
  <2>3. commits[1] = First BY <1>4, <1>7
  <2>4. ASSUME NEW i \in 1..n PROVE commits[i + 1] = works[i] BY <1>1, <1>4, <1>7, <2>1
  <2>5. QED BY <1>1, <2>2, <2>3, <2>4
<1>14. ASSUME NEW i \in 1..n
       PROVE  /\ row(i) \in Tasks /\ row(i).patches = <<>> /\ row(i).before = works[i] /\ row(i).tested = works[i]
  <2>1. works[i] \in FileTrees BY <1>4
  <2>2. QED BY <1>2, <2>1 DEF Tasks
<1> HIDE DEF row
<1>15. ASSUME NEW i \in 1..n
       PROVE  /\ c(i) \in CheckpointRows /\ c(i).session \in Range(Workers) /\ c(i).session \in WorkSessions
              /\ c(i).hash = i + 1 /\ c(i).work = row(i) /\ c(i).conflicts = {}
  <2>1. Workers[i] \in WorkSessions /\ Workers[i] \in Range(Workers) BY <1>1 DEF Range
  <2>2. QED BY <1>1, <1>14, <2>1 DEF CheckpointRows
<1> HIDE DEF c
<1>16. checkpoints \in Seq(CheckpointRows) /\ DOMAIN checkpoints = 1..n /\ \A i \in 1..n : checkpoints[i] = c(i)
  <2>1. checkpoints \in [1..n -> CheckpointRows] BY <1>1, <1>11, <1>15
  <2>2. QED BY <1>1, <1>11, <2>1
<1>17. \A s \in WorkSessions : place[s] \in {"repo", s} /\ place[s] # "none"
  BY <1>5, <1>6, WorkGround
<1>18. box \in [WorkSessions -> FileTrees] BY <1>2, <1>4, <1>5, <1>8
<1>19. dirs \in [Places -> FileTrees] /\ staged \in [Places -> FileTrees] BY <1>2, <1>9, <1>18 DEF Places
<1>20. tip \in [Places -> Nat] /\ \A p \in Places : tip[p] \in 1..(n + 1)
  <2>1. ASSUME NEW p \in Places PROVE tip[p] \in 1..(n + 1)
    <3>1. CASE p = "repo" BY <1>1, <1>10, <3>1
    <3>2. CASE p # "repo"
      <4>1. p \in WorkSessions BY <3>2 DEF Places
      <4>2. CASE p \in Range(Workers)
        <5>1. tip[p] = Nr(p) + 1 BY <1>1, <1>5, <1>10, <3>2, <4>1, <4>2
        <5>2. QED BY <1>1, <1>5, <4>1, <4>2, <5>1
      <4>3. CASE p \notin Range(Workers) BY <1>1, <1>10, <3>2, <4>1, <4>3
      <4>4. QED BY <4>2, <4>3
    <3>3. QED BY <3>1, <3>2
  <2>2. DOMAIN tip = Places /\ tip = [p \in Places |-> tip[p]] BY <1>10
  <2>3. \A p \in Places : tip[p] \in Nat BY <1>1, <2>1
  <2>4. QED BY <2>1, <2>2, <2>3
<1>21. WorkspacesTyped
  <2>1. place \in [WorkSessions -> Places \cup {"none"}] BY <1>6, <1>17 DEF Places
  <2>2. work \in [WorkSessions -> Tasks] BY <1>2, <1>12
  <2>3. startHash \in [WorkSessions -> Nat] BY <1>6
  <2>4. QED BY <1>13, <1>16, <1>17, <1>18, <1>19, <1>20, <2>1, <2>2, <2>3 DEF WorkspacesTyped
<1>22. HashesThere
  <2>1. \A i \in DOMAIN checkpoints : checkpoints[i].hash \in DOMAIN commits /\ place[checkpoints[i].session] # "none"
    BY <1>1, <1>13, <1>15, <1>16, <1>17
  <2>2. \A s \in WorkSessions : startHash[s] = 1 /\ 1 \in DOMAIN commits BY <1>1, <1>6, <1>13
  <2>3. QED BY <1>2, <1>12, <1>13, <1>20, <2>1, <2>2 DEF HashesThere
<1>23. TasksInOrder BY <1>2, <1>12 DEF TasksInOrder, AtWork
<1>24. RecordsRight
  <2>1. ASSUME NEW i \in 1..n PROVE RecordedRight(c(i), commits[c(i).hash])
    <3>1. c(i).work.patches = <<>> /\ c(i).work.before = works[i] /\ c(i).work.tested = works[i]
          /\ commits[c(i).hash] = works[i] /\ c(i).conflicts = {}
      BY <1>13, <1>14, <1>15
    <3>2. Len(c(i).work.patches) = 0 /\ 1..0 = {} /\ DOMAIN c(i).work.patches = {} BY <3>1
    <3>3. Upto(c(i).work.before, c(i).work.patches, Len(c(i).work.patches), c(i).work.tested)
      BY <3>1, <3>2 DEF Upto
    <3>4. HoldsAll(commits[c(i).hash], c(i).work.tested) BY <3>1 DEF HoldsAll
    <3>5. {f \in FilesOf(Regions) : SeveralChange(c(i).work.patches, f)} = {} BY <3>2 DEF SeveralChange
    <3>6. QED BY <3>1, <3>3, <3>4, <3>5 DEF RecordedRight
  <2>2. QED BY <1>16, <2>1 DEF RecordsRight
<1>25. QED BY <1>21, <1>22, <1>23, <1>24 DEF WorkspacesInv

\* What the invariant says of the checkpoints.
LEMMA WorkspacesTell ==
  ASSUME WorkspacesInv
  PROVE  CheckpointsTrue
<1>1. ASSUME NEW i \in DOMAIN checkpoints
      PROVE  /\ checkpoints[i].hash \in DOMAIN commits /\ checkpoints[i] \in CheckpointRows
             /\ RecordedRight(checkpoints[i], commits[checkpoints[i].hash])
  BY DEF WorkspacesInv, WorkspacesTyped, HashesThere, RecordsRight
<1>2. CheckpointsTested BY <1>1 DEF CheckpointsTested, RecordedRight, HoldsAll
<1>3. ASSUME NEW i \in DOMAIN checkpoints, ~checkpoints[i].work.touched, NEW r \in Regions
      PROVE  LET c == checkpoints[i] t == c.work held == commits[c.hash]
                 Changed(q) == {k \in DOMAIN t.patches : q \in DOMAIN t.patches[k]}
             IN /\ Changed(r) = {} /\ t.before[r] # {} => held[r] = t.before[r]
                /\ \A k \in Changed(r) :
                     \/ held[r] = Written(t.patches[k][r])
                     \/ \E j \in Changed(r) :
                          /\ j > k
                          /\ r[1] \in c.conflicts \/ {} \in {t.patches[k][r].new, t.patches[j][r].new}
  <2> DEFINE c == checkpoints[i]
             t == c.work
             ps == t.patches
             x == t.tested
             h == commits[c.hash]
             Ch == {k \in DOMAIN ps : r \in DOMAIN ps[k]}
  <2>1. c \in CheckpointRows /\ t \in Tasks BY <1>1 DEF CheckpointRows
  <2>2. ps \in Seq(Patches) BY <2>1 DEF Tasks
  <2>3. DOMAIN ps = 1..Len(ps) /\ Len(ps) \in Nat BY <2>2
  <2>4. /\ Upto(t.before, ps, Len(ps), x) /\ HoldsAll(h, x)
        /\ c.conflicts = {f \in FilesOf(Regions) : SeveralChange(ps, f)}
    BY <1>1, <1>3 DEF RecordedRight
  <2> HIDE DEF c, t, ps, x, h
  <2>5. x[r] # {} => h[r] = x[r] BY <2>4 DEF HoldsAll
  <2>6. /\ (\A k \in 1..Len(ps) : r \notin DOMAIN ps[k]) => x[r] = t.before[r]
        /\ \A k \in 1..Len(ps) : r \in DOMAIN ps[k] /\ (\A j \in 1..Len(ps) : j > k => r \notin DOMAIN ps[j]) =>
             x[r] = Written(ps[k][r])
    BY <2>4 DEF Upto
  <2>7. Ch = {} /\ t.before[r] # {} => h[r] = t.before[r]
    <3>1. ASSUME Ch = {}, t.before[r] # {} PROVE h[r] = t.before[r]
      <4>1. \A k \in 1..Len(ps) : r \notin DOMAIN ps[k] BY <2>3, <3>1
      <4>2. QED BY <2>5, <2>6, <3>1, <4>1
    <3>2. QED BY <3>1
  <2>8. ASSUME NEW k \in Ch, \A j \in Ch : ~(j > k) PROVE h[r] = Written(ps[k][r])
    <3>1. k \in 1..Len(ps) /\ r \in DOMAIN ps[k] BY <2>3
    <3>2. \A j \in 1..Len(ps) : j > k => r \notin DOMAIN ps[j] BY <2>3, <2>8
    <3>3. x[r] = Written(ps[k][r]) BY <2>6, <3>1, <3>2
    <3>4. Written(ps[k][r]) # {} BY DEF Written, Emptied
    <3>5. QED BY <2>5, <3>3, <3>4
  <2>9. ASSUME NEW k \in Ch, NEW j \in Ch, j > k
        PROVE  r[1] \in c.conflicts \/ {} \in {ps[k][r].new, ps[j][r].new}
    <3>1. SUFFICES ASSUME ps[k][r].new # {}, ps[j][r].new # {} PROVE r[1] \in c.conflicts OBVIOUS
    <3>2. r \in DOMAIN ps[k] /\ r \in DOMAIN ps[j] /\ k \in DOMAIN ps /\ j \in DOMAIN ps OBVIOUS
    <3>3. r[1] \in NamedFiles(ps[k]) /\ r[1] \in NamedFiles(ps[j]) BY <3>1, <3>2 DEF NamedFiles, FilesOf
    <3>4. k # j BY <2>3, <2>9, <3>2
    <3>5. SeveralChange(ps, r[1]) BY <3>2, <3>3, <3>4 DEF SeveralChange
    <3>6. r[1] \in FilesOf(Regions) BY DEF FilesOf
    <3>7. QED BY <2>4, <3>5, <3>6
  <2>10. ASSUME NEW k \in Ch
         PROVE  \/ h[r] = Written(ps[k][r])
                \/ \E j \in Ch : j > k /\ (r[1] \in c.conflicts \/ {} \in {ps[k][r].new, ps[j][r].new})
    <3>1. CASE \E j \in Ch : j > k
      <4>1. PICK j \in Ch : j > k BY <3>1
      <4>2. r[1] \in c.conflicts \/ {} \in {ps[k][r].new, ps[j][r].new} BY <2>9, <4>1
      <4>3. QED BY <4>1, <4>2
    <3>2. CASE \A j \in Ch : ~(j > k) BY <2>8, <3>2
    <3>3. QED BY <3>1, <3>2
  <2>11. QED BY <2>7, <2>10 DEF c, t, ps, h
<1>4. MergesWhole BY <1>3 DEF MergesWhole
<1>5. QED BY <1>2, <1>4 DEF CheckpointsTrue

\* What a session recorded as validated is in a commit as the tests saw it, and a merge
\* that was recorded is of all that the workers did (Workspaces, checkpoint and
\* integrateWorkerResults), whatever sessions and files there are and however their
\* tasks, tools, restores and the user are interleaved.
THEOREM CheckpointsTrueHolds == Spec => []CheckpointsTrue
<1>1. Init => WorkspacesInv
  <2>1. SUFFICES ASSUME Init PROVE WorkspacesInv OBVIOUS
  <2>2. WorkspacesRest \/ WorkspacesInit BY <2>1 DEF Init, RestBut
  <2>3. CASE WorkspacesRest
    <3>1. Fresh /\ NoWork /\ lines \in Nat BY <2>3, WorkGround DEF WorkspacesRest
    <3>2. QED BY <3>1, FreshInv
  <2>4. CASE WorkspacesInit
    <3>1. NoWork /\ lines \in Nat BY <2>4 DEF WorkspacesInit
    <3>2. CASE Fresh BY <3>1, <3>2, FreshInv
    <3>3. CASE \E edited \in [DOMAIN Workers -> SUBSET Regions \ {{}}] : Worked(edited)
      BY <3>1, <3>3, WorkedInv
    <3>4. QED BY <2>4, <3>2, <3>3 DEF WorkspacesInit
  <2>5. QED BY <2>2, <2>3, <2>4
<1>2. WorkspacesInv /\ [Next]_partsVars => WorkspacesInv'
  <2>1. SUFFICES ASSUME WorkspacesInv, [Next]_partsVars PROVE WorkspacesInv' OBVIOUS
  <2>2. WorkspacesNext \/ UNCHANGED workspaceVars BY <2>1 DEF Next, StillBut, partsVars
  <2>3. QED BY <2>1, <2>2, WorkspacesKept, WorkspacesStay
<1>3. WorkspacesInv => CheckpointsTrue BY WorkspacesTell
<1>4. QED BY <1>1, <1>2, <1>3, PTL DEF Spec

-----------------------------------------------------------------------------
(* The listings. *)

\* The order of each listing, and what lies past a cursor in it.
Ahead(i, j) ==
  CASE listing = "SqliteConversation"  -> i > j
    [] listing = "AdapterConversation" -> Newer(i, j)
    [] listing = "SqliteGitCheckpoint" -> OlderByRowid(i, j)
    [] OTHER                           -> Older(i, j)
Past(c, i) == c = NoCursor \/ \E j \in Mine : rows[j].id = c /\ Ahead(j, i)
RowsApart ==
  /\ \A i, j \in DOMAIN rows : rows[i].id = rows[j].id => i = j
  /\ \A i \in DOMAIN rows : rows[i].id \in inserted /\ rows[i].at <= clock
  /\ listing = "SqliteGitCheckpoint" => \A i, j \in DOMAIN rows : rows[i].at = rows[j].at => i = j
  /\ before \subseteq inserted
WalkInOrder ==
  /\ \A k \in DOMAIN got : got[k] \in inserted /\ \A i \in DOMAIN rows : rows[i].id = got[k] => rows[i].mine
  /\ \A k, l \in DOMAIN got : k < l => got[k] # got[l]
  /\ \A k, l \in DOMAIN got, i, j \in Mine : k < l /\ rows[i].id = got[k] /\ rows[j].id = got[l] => Ahead(i, j)
  /\ \A k, l \in DOMAIN got : Has(got[k]) => Has(got[l])
  /\ cursor = NoCursor /\ walk \in {"idle", "ask", "checked"} => got = <<>>
  /\ cursor # NoCursor => got # <<>> /\ cursor = got[Len(got)]
  /\ walk = "idle" => cursor = NoCursor
AllGiven ==
  walk \in {"ask", "checked", "done"} =>
    \A i \in Mine : rows[i].live /\ rows[i].id \in before =>
      \/ rows[i].id \in Range(got)
      \/ walk # "done" /\ Past(cursor, i)
PagingInv == PagingTypeOK /\ RowsApart /\ WalkInOrder /\ AllGiven

\* What a query gives: the ids of the first rows it found, in a strict order of them.
Ordering(R, S) ==
  /\ \A x \in S : <<x, x>> \notin R
  /\ \A x, y, z \in S : <<x, y>> \in R /\ <<y, z>> \in R => <<x, z>> \in R
  /\ \A x, y \in S : x = y \/ <<x, y>> \in R \/ <<y, x>> \in R
PlaceIn(S, R, i) == Cardinality({j \in S : <<j, i>> \in R}) + 1

\* The elements of a finite set that is ordered have its places, one each.
LEMMA PlacesAre ==
  ASSUME NEW S, IsFiniteSet(S), NEW R, Ordering(R, S)
  PROVE  /\ Cardinality(S) \in Nat
         /\ \A i \in S : PlaceIn(S, R, i) \in 1..Cardinality(S)
         /\ \A i, j \in S : <<i, j>> \in R <=> PlaceIn(S, R, i) < PlaceIn(S, R, j)
         /\ \A k \in 1..Cardinality(S) : \E i \in S : PlaceIn(S, R, i) = k
<1> DEFINE before1(i) == {j \in S : <<j, i>> \in R}
           n == Cardinality(S)
<1>1. n \in Nat BY FS_CardinalityType
<1>2. \A i \in S : /\ IsFiniteSet(before1(i)) /\ Cardinality(before1(i)) \in Nat
                   /\ Cardinality(before1(i)) < n
  <2>1. TAKE i \in S
  <2>2. before1(i) \in SUBSET S /\ i \notin before1(i) BY DEF Ordering
  <2> HIDE DEF before1
  <2>3. IsFiniteSet(before1(i)) /\ Cardinality(before1(i)) <= n /\ before1(i) # S
    BY <2>2, FS_Subset
  <2>4. Cardinality(before1(i)) # n BY <2>2, <2>3, FS_Subset
  <2>5. Cardinality(before1(i)) \in Nat BY <2>3, FS_CardinalityType
  <2>6. QED BY <1>1, <2>3, <2>4, <2>5
<1>3. \A i, j \in S : <<i, j>> \in R => Cardinality(before1(i)) < Cardinality(before1(j))
  <2>1. SUFFICES ASSUME NEW i \in S, NEW j \in S, <<i, j>> \in R
                 PROVE  Cardinality(before1(i)) < Cardinality(before1(j))
    OBVIOUS
  <2>2. before1(i) \in SUBSET before1(j) /\ i \in before1(j) /\ i \notin before1(i)
    BY <2>1 DEF Ordering
  <2> HIDE DEF before1
  <2>3. IsFiniteSet(before1(j)) BY <1>2
  <2>4. /\ Cardinality(before1(i)) <= Cardinality(before1(j))
        /\ Cardinality(before1(j)) = Cardinality(before1(i)) => before1(j) = before1(i)
    BY <2>2, <2>3, FS_Subset
  <2>5. QED BY <1>2, <2>2, <2>4
<1> DEFINE placed == [i \in S |-> Cardinality(before1(i)) + 1]
<1>4. \A i \in S : placed[i] = PlaceIn(S, R, i) /\ placed[i] \in 1..n
  <2>1. \A i \in S : PlaceIn(S, R, i) = Cardinality(before1(i)) + 1 BY DEF PlaceIn
  <2> HIDE DEF before1
  <2>2. QED BY <1>1, <1>2, <2>1
<1>5. \A i, j \in S : <<i, j>> \in R <=> placed[i] < placed[j]
  <2>1. \A i \in S : placed[i] = Cardinality(before1(i)) + 1 /\ Cardinality(before1(i)) \in Nat
    BY <1>2
  <2> HIDE DEF placed, before1
  <2>2. \A i, j \in S : <<i, j>> \in R => placed[i] < placed[j] BY <1>3, <2>1
  <2>3. \A i \in S : placed[i] \in Nat BY <2>1
  <2>4. ASSUME NEW i \in S, NEW j \in S, placed[i] < placed[j] PROVE <<i, j>> \in R
    <3>1. ~(placed[i] < placed[i]) /\ ~(placed[j] < placed[i]) BY <2>3, <2>4
    <3>2. i # j /\ <<j, i>> \notin R BY <2>2, <2>4, <3>1
    <3>3. QED BY <3>2 DEF Ordering
  <2>5. QED BY <2>2, <2>4
<1>6. placed \in Injection(S, 1..n)
  <2>1. placed \in [S -> 1..n] BY <1>4
  <2> HIDE DEF placed
  <2>2. \A i, j \in S : placed[i] = placed[j] => i = j BY <1>4, <1>5 DEF Ordering
  <2>3. QED BY <2>1, <2>2 DEF Injection, IsInjective
<1> HIDE DEF placed, n
<1>7. placed \in Surjection(S, 1..n)
  <2>1. IsFiniteSet(1..n) /\ Cardinality(1..n) = n BY <1>1, FS_Interval
  <2>2. Cardinality(S) = Cardinality(1..n) BY <2>1 DEF n
  <2>3. QED BY <1>6, <2>1, <2>2, FS_Injection
<1>8. \A k \in 1..n : \E i \in S : placed[i] = k BY <1>7 DEF Surjection
<1>9. QED BY <1>1, <1>4, <1>5, <1>8 DEF n

\* The lesser of two numbers is one of them.
LEMMA LeastOfTwo ==
  ASSUME NEW n \in Nat, NEW c \in Nat
  PROVE  Min({n, c}) \in {n, c} /\ Min({n, c}) <= n /\ Min({n, c}) <= c
<1>1. \E x \in {n, c} : \A y \in {n, c} : x <= y OBVIOUS
<1>2. QED BY <1>1 DEF Min

\* The rows of a selection, in its order: none comes twice, and one that was found and
\* left out comes after a full page.
Selects(s, at, found, R, n) ==
  /\ s \in Seq(Ids) /\ Len(s) <= n
  /\ at \in [1..Len(s) -> found]
  /\ \A k \in 1..Len(s) : s[k] = rows[at[k]].id
  /\ \A k, l \in 1..Len(s) : k < l => <<at[k], at[l]>> \in R
  /\ \A i \in found : \/ \E k \in 1..Len(s) : at[k] = i
                      \/ Len(s) = n /\ \A k \in 1..Len(s) : <<at[k], i>> \in R

LEMMA SelectedAre ==
  ASSUME PagingTypeOK, NEW found \in SUBSET DOMAIN rows, NEW R, Ordering(R, found), NEW n \in Nat,
         NEW placed, placed = [i \in found |-> PlaceIn(found, R, i)]
  PROVE  \E at : Selects(FirstPlaces(placed, n), at, found, R, n)
<1> DEFINE c == Cardinality(found)
           m == Min({n, c})
           at == [k \in 1..m |-> AntiFunction(placed)[k]]
           s == FirstPlaces(placed, n)
<1>1. IsFiniteSet(found) BY FS_Subset DEF PagingTypeOK
<1>2. /\ c \in Nat
      /\ \A i \in found : PlaceIn(found, R, i) \in 1..c
      /\ \A i, j \in found : <<i, j>> \in R <=> PlaceIn(found, R, i) < PlaceIn(found, R, j)
      /\ \A k \in 1..c : \E i \in found : PlaceIn(found, R, i) = k
  BY <1>1, PlacesAre
<1>3. m \in {n, c} /\ m <= n /\ m <= c BY <1>2, LeastOfTwo
<1> HIDE DEF c, m
<1>4. m \in Nat BY <1>2, <1>3
<1>5. \A k \in 1..m : at[k] \in found /\ PlaceIn(found, R, at[k]) = k
  <2>1. \A k \in 1..m : k \in 1..c BY <1>2, <1>3, <1>4
  <2>2. \A k \in 1..m : at[k] = AntiFunction(placed)[k] OBVIOUS
  <2>3. DOMAIN placed = found /\ \A i \in found : placed[i] = PlaceIn(found, R, i) OBVIOUS
  <2> HIDE DEF at
  <2>4. ASSUME NEW k \in 1..m PROVE at[k] \in found /\ placed[at[k]] = k
    <3>1. PICK i \in found : placed[i] = k BY <1>2, <2>1, <2>3, <2>4 DEF c
    <3>2. k \in Range(placed) BY <2>3, <3>1 DEF Range
    <3>3. at[k] = CHOOSE x \in DOMAIN placed : k \in Range(placed) => placed[x] = k
      BY <2>2, <2>4, <3>2 DEF AntiFunction, Inverse
    <3>4. \E x \in DOMAIN placed : k \in Range(placed) => placed[x] = k BY <2>3, <3>1
    <3>5. at[k] \in DOMAIN placed /\ (k \in Range(placed) => placed[at[k]] = k) BY <3>3, <3>4
    <3>6. QED BY <2>3, <3>2, <3>5
  <2>5. QED BY <2>3, <2>4
<1>6. s = [k \in 1..m |-> rows[at[k]].id]
  <2>1. DOMAIN placed = found OBVIOUS
  <2>2. QED BY <2>1 DEF FirstPlaces, m, c
<1>7. at \in [1..m -> found]
  <2>1. at = [k \in 1..m |-> at[k]] OBVIOUS
  <2> HIDE DEF at
  <2>2. QED BY <1>5, <2>1
<1> HIDE DEF at, s
<1>8. \A i \in found : rows[i].id \in Ids BY DEF PagingTypeOK
<1>9. s \in Seq(Ids) /\ Len(s) = m /\ \A k \in 1..m : s[k] = rows[at[k]].id
  <2>1. \A k \in 1..m : rows[at[k]].id \in Ids BY <1>5, <1>8
  <2>2. s \in [1..m -> Ids] BY <1>6, <2>1
  <2>3. s \in Seq(Ids) BY <1>4, <2>2, SeqDef
  <2>4. Len(s) = m
    <3>1. DOMAIN s = 1..m BY <2>2
    <3>2. DOMAIN s = 1..Len(s) /\ Len(s) \in Nat BY <2>3
    <3>3. QED BY <1>4, <3>1, <3>2
  <2>5. QED BY <1>6, <2>3, <2>4
<1>10. \A k, l \in 1..m : k < l => <<at[k], at[l]>> \in R BY <1>2, <1>5
<1>11. ASSUME NEW i \in found
       PROVE  \/ \E k \in 1..m : at[k] = i
              \/ m = n /\ \A k \in 1..m : <<at[k], i>> \in R
  <2> DEFINE p == PlaceIn(found, R, i)
  <2>1. p \in 1..c BY <1>2
  <2> HIDE DEF p
  <2>2. CASE p <= m
    <3>1. p \in 1..m BY <1>2, <1>4, <2>1, <2>2
    <3>2. PlaceIn(found, R, at[p]) = p /\ at[p] \in found BY <1>5, <3>1
    <3>3. ~(p < p) BY <2>1, <1>2
    <3>4. <<at[p], i>> \notin R /\ <<i, at[p]>> \notin R BY <1>2, <3>2, <3>3 DEF p
    <3>5. at[p] = i BY <3>2, <3>4 DEF Ordering
    <3>6. QED BY <3>1, <3>5
  <2>3. CASE m < p
    <3>1. m = n BY <1>2, <1>3, <2>1, <2>3
    <3>2. \A k \in 1..m : k < p BY <1>2, <1>4, <2>1, <2>3
    <3>3. QED BY <1>2, <1>5, <3>1, <3>2 DEF p
  <2>4. QED BY <1>2, <1>4, <2>1, <2>2, <2>3
<1>12. Selects(s, at, found, R, n) BY <1>3, <1>7, <1>9, <1>10, <1>11 DEF Selects
<1>13. QED BY <1>12 DEF s

\* The order of each listing is one of the rows, no two of which have one id.
Pairs(S) == S \X S
Ahead2 == {p \in Pairs(DOMAIN rows) : Ahead(p[1], p[2])}

LEMMA KeysInOrder ==
  ASSUME PagingTypeOK, RowsApart
  PROVE  /\ \A i \in DOMAIN rows : rows[i].at \in Int /\ rows[i].id \in Int /\ i \in Int
         /\ \A i, j \in DOMAIN rows : Older(i, j) <=>
              rows[i].at < rows[j].at \/ (rows[i].at = rows[j].at /\ rows[i].id < rows[j].id)
         /\ \A i, j \in DOMAIN rows : Newer(i, j) <=> Older(j, i)
<1>1. \A i \in DOMAIN rows : rows[i].at \in Int /\ rows[i].id \in Int /\ i \in Int
  BY PagingBounds DEF PagingTypeOK, Ids
<1>2. \A i \in DOMAIN rows : Key(i)[1] = rows[i].at /\ Key(i)[2] = rows[i].id BY DEF Key
<1>3. QED BY <1>1, <1>2 DEF Older, Newer, Less

LEMMA AheadOrders ==
  ASSUME PagingTypeOK, RowsApart
  PROVE  /\ \A i \in DOMAIN rows : ~Ahead(i, i)
         /\ \A i, j, k \in DOMAIN rows : Ahead(i, j) /\ Ahead(j, k) => Ahead(i, k)
         /\ \A i, j \in DOMAIN rows : i = j \/ Ahead(i, j) \/ Ahead(j, i)
<1> USE KeysInOrder
<1>0. \A i, j \in DOMAIN rows : rows[i].id = rows[j].id => i = j BY DEF RowsApart
<1>1. CASE listing = "SqliteConversation"
  <2>1. \A i, j : Ahead(i, j) <=> i > j BY <1>1 DEF Ahead
  <2>2. QED BY <2>1
<1>2. CASE listing = "AdapterConversation"
  <2>1. \A i, j : Ahead(i, j) <=> Newer(i, j) BY <1>2 DEF Ahead
  <2>2. QED BY <1>0, <2>1
<1>3. CASE listing = "SqliteGitCheckpoint"
  <2>1. \A i, j : Ahead(i, j) <=> OlderByRowid(i, j) BY <1>3 DEF Ahead
  <2>2. QED BY <2>1 DEF OlderByRowid
<1>4. CASE listing \notin {"SqliteConversation", "AdapterConversation", "SqliteGitCheckpoint"}
  <2>1. \A i, j : Ahead(i, j) <=> Older(i, j) BY <1>4 DEF Ahead
  <2>2. QED BY <1>0, <2>1
<1>5. QED BY <1>1, <1>2, <1>3, <1>4

\* The same of the queries' orders, one by one.
LEMMA SelectedByRowid ==
  ASSUME PagingTypeOK, NEW found \in SUBSET DOMAIN rows, NEW R, Ordering(R, found), NEW n \in Nat,
         \A i, j \in found : <<i, j>> \in R <=> ByRowid(i, j),
         NEW s, s = Select(found, ByRowid, n)
  PROVE  \E at : Selects(s, at, found, R, n)
<1>1. \A i \in found : {j \in found : ByRowid(j, i)} = {j \in found : <<j, i>> \in R} OBVIOUS
<1> DEFINE placed == [i \in found |-> Cardinality({j \in found : ByRowid(j, i)}) + 1]
<1>2. placed = [i \in found |-> PlaceIn(found, R, i)] BY <1>1 DEF PlaceIn
<1>3. Select(found, ByRowid, n) = FirstPlaces(placed, n) BY DEF Select
<1> HIDE DEF placed
<1>4. QED BY <1>2, <1>3, SelectedAre

\* By rowid, the youngest first.
LEMMA SelectedYoungest ==
  ASSUME PagingTypeOK, NEW found \in SUBSET DOMAIN rows, NEW R, Ordering(R, found), NEW n \in Nat,
         \A i, j \in found : <<i, j>> \in R <=> Youngest(i, j),
         NEW s, s = Select(found, Youngest, n)
  PROVE  \E at : Selects(s, at, found, R, n)
<1>1. \A i \in found : {j \in found : Youngest(j, i)} = {j \in found : <<j, i>> \in R} OBVIOUS
<1> DEFINE placed == [i \in found |-> Cardinality({j \in found : Youngest(j, i)}) + 1]
<1>2. placed = [i \in found |-> PlaceIn(found, R, i)] BY <1>1 DEF PlaceIn
<1>3. Select(found, Youngest, n) = FirstPlaces(placed, n) BY DEF Select
<1> HIDE DEF placed
<1>4. QED BY <1>2, <1>3, SelectedAre

\* By instant and id.
LEMMA SelectedByAge ==
  ASSUME PagingTypeOK, NEW found \in SUBSET DOMAIN rows, NEW R, Ordering(R, found), NEW n \in Nat,
         \A i, j \in found : <<i, j>> \in R <=> Older(i, j),
         NEW s, s = Select(found, Older, n)
  PROVE  \E at : Selects(s, at, found, R, n)
<1>1. \A i \in found : {j \in found : Older(j, i)} = {j \in found : <<j, i>> \in R} OBVIOUS
<1> DEFINE placed == [i \in found |-> Cardinality({j \in found : Older(j, i)}) + 1]
<1>2. placed = [i \in found |-> PlaceIn(found, R, i)] BY <1>1 DEF PlaceIn
<1>3. Select(found, Older, n) = FirstPlaces(placed, n) BY DEF Select
<1> HIDE DEF placed
<1>4. QED BY <1>2, <1>3, SelectedAre

\* By instant and id, the newest first.
LEMMA SelectedNewest ==
  ASSUME PagingTypeOK, NEW found \in SUBSET DOMAIN rows, NEW R, Ordering(R, found), NEW n \in Nat,
         \A i, j \in found : <<i, j>> \in R <=> Newer(i, j),
         NEW s, s = Select(found, Newer, n)
  PROVE  \E at : Selects(s, at, found, R, n)
<1>1. \A i \in found : {j \in found : Newer(j, i)} = {j \in found : <<j, i>> \in R} OBVIOUS
<1> DEFINE placed == [i \in found |-> Cardinality({j \in found : Newer(j, i)}) + 1]
<1>2. placed = [i \in found |-> PlaceIn(found, R, i)] BY <1>1 DEF PlaceIn
<1>3. Select(found, Newer, n) = FirstPlaces(placed, n) BY DEF Select
<1> HIDE DEF placed
<1>4. QED BY <1>2, <1>3, SelectedAre

\* By instant and rowid.
LEMMA SelectedByAgeAndRowid ==
  ASSUME PagingTypeOK, NEW found \in SUBSET DOMAIN rows, NEW R, Ordering(R, found), NEW n \in Nat,
         \A i, j \in found : <<i, j>> \in R <=> OlderByRowid(i, j),
         NEW s, s = Select(found, OlderByRowid, n)
  PROVE  \E at : Selects(s, at, found, R, n)
<1>1. \A i \in found : {j \in found : OlderByRowid(j, i)} = {j \in found : <<j, i>> \in R} OBVIOUS
<1> DEFINE placed == [i \in found |-> Cardinality({j \in found : OlderByRowid(j, i)}) + 1]
<1>2. placed = [i \in found |-> PlaceIn(found, R, i)] BY <1>1 DEF PlaceIn
<1>3. Select(found, OlderByRowid, n) = FirstPlaces(placed, n) BY DEF Select
<1> HIDE DEF placed
<1>4. QED BY <1>2, <1>3, SelectedAre

\* The rows a query finds after a cursor.
Showing(c) == {i \in Mine : (listing = "Members" => rows[i].live) /\ Past(c, i)}

LEMMA CursorRow ==
  ASSUME PagingTypeOK, RowsApart, NEW c
  PROVE  /\ Has(c) => Find(c) \in Mine /\ rows[Find(c)].id = c
         /\ \A i \in Mine : Past(c, i) <=> c = NoCursor \/ (Has(c) /\ Ahead(Find(c), i))
<1>1. ASSUME Has(c) PROVE Find(c) \in Mine /\ rows[Find(c)].id = c BY <1>1 DEF Has, Find
<1>2. \A j \in Mine : rows[j].id = c => Has(c) /\ j = Find(c) BY <1>1 DEF Has, RowsApart, Mine
<1>3. QED BY <1>1, <1>2 DEF Past

LEMMA AheadOrdering ==
  ASSUME PagingTypeOK, RowsApart, NEW S \in SUBSET DOMAIN rows
  PROVE  Ordering(Ahead2, S) /\ \A i, j \in S : <<i, j>> \in Ahead2 <=> Ahead(i, j)
<1>1. \A i, j \in DOMAIN rows : <<i, j>> \in Ahead2 <=> Ahead(i, j)
  <2>1. TAKE i, j \in DOMAIN rows
  <2>2. <<i, j>>[1] = i /\ <<i, j>>[2] = j OBVIOUS
  <2>3. QED BY <2>2 DEF Ahead2, Pairs
<1>2. QED BY <1>1, AheadOrders DEF Ordering

\* A page is the first rows after its cursor, in the order of its listing.
LEMMA PagesAre ==
  ASSUME PagingTypeOK, RowsApart, NEW c \in Ids \cup {NoCursor}, NEW n \in Nat
  PROVE  \E at : Selects(Page(c, n), at, Showing(c), Ahead2, n)
<1> DEFINE F == Showing(c)
<1>1. F \in SUBSET DOMAIN rows BY DEF Showing, Mine
<1>2. Ordering(Ahead2, F) /\ \A i, j \in F : <<i, j>> \in Ahead2 <=> Ahead(i, j)
  <2> HIDE DEF F
  <2>1. QED BY <1>1, AheadOrdering
<1>3. \A i \in Mine : Past(c, i) <=> c = NoCursor \/ (Has(c) /\ Ahead(Find(c), i))
  BY CursorRow
<1>4. Has(c) => Find(c) \in Mine BY CursorRow
<1>5. Mine \subseteq DOMAIN rows BY DEF Mine
<1>6. CASE listing = "SqliteConversation"
  <2>1. \A i, j \in DOMAIN rows : Ahead(i, j) <=> Youngest(i, j) BY <1>6, KeysInOrder DEF Ahead, Youngest
  <2>2. Page(c, n) = Select(F, Youngest, n)
    <3>1. F = {i \in Mine : c = NoCursor \/ (Has(c) /\ i < Find(c))}
      BY <1>3, <1>4, <1>5, <1>6, <2>1, KeysInOrder DEF Showing, Youngest
    <3> HIDE DEF F
    <3>2. QED BY <1>6, <3>1 DEF Page, SqliteConversationPage
  <2>3. \A i, j \in F : <<i, j>> \in Ahead2 <=> Youngest(i, j) BY <1>1, <1>2, <2>1
  <2> HIDE DEF F
  <2>4. \E at : Selects(Page(c, n), at, F, Ahead2, n) BY <1>1, <1>2, <2>2, <2>3, SelectedYoungest
  <2>5. QED BY <2>4 DEF F
<1>7. CASE listing = "AdapterConversation"
  <2>1. \A i, j \in DOMAIN rows : Ahead(i, j) <=> Newer(i, j) BY <1>7 DEF Ahead
  <2>2. Page(c, n) = Select(F, Newer, n)
    <3>1. F = {i \in Mine : c = NoCursor \/ (Has(c) /\ Newer(Find(c), i))}
      BY <1>3, <1>4, <1>5, <1>7, <2>1 DEF Showing
    <3> HIDE DEF F
    <3>2. QED BY <1>7, <3>1 DEF Page, AdapterConversationPage
  <2>3. \A i, j \in F : <<i, j>> \in Ahead2 <=> Newer(i, j) BY <1>1, <1>2, <2>1
  <2> HIDE DEF F
  <2>4. \E at : Selects(Page(c, n), at, F, Ahead2, n) BY <1>1, <1>2, <2>2, <2>3, SelectedNewest
  <2>5. QED BY <2>4 DEF F
<1>8. CASE listing = "SqliteGitCheckpoint"
  <2>0. \A i, j \in DOMAIN rows : OlderByRowid(i, j) <=> Older(i, j)
    <3>1. \A i, j \in DOMAIN rows : rows[i].at = rows[j].at => i = j BY <1>8 DEF RowsApart
    <3>2. QED BY <3>1, KeysInOrder DEF OlderByRowid
  <2>1. \A i, j \in DOMAIN rows : Ahead(i, j) <=> OlderByRowid(i, j) BY <1>8 DEF Ahead
  <2>2. Page(c, n) = Select(F, OlderByRowid, n)
    <3>1. F = {i \in Mine : c = NoCursor \/ (Has(c) /\ Older(Find(c), i))}
      BY <1>3, <1>4, <1>5, <1>8, <2>1, <2>0 DEF Showing
    <3> HIDE DEF F
    <3>2. QED BY <1>8, <3>1 DEF Page, SqliteGitCheckpointPage
  <2>3. \A i, j \in F : <<i, j>> \in Ahead2 <=> OlderByRowid(i, j) BY <1>1, <1>2, <2>1
  <2> HIDE DEF F
  <2>4. \E at : Selects(Page(c, n), at, F, Ahead2, n) BY <1>1, <1>2, <2>2, <2>3, SelectedByAgeAndRowid
  <2>5. QED BY <2>4 DEF F
<1>9. CASE listing = "AdapterGitCheckpoint"
  <2>1. \A i, j \in DOMAIN rows : Ahead(i, j) <=> Older(i, j) BY <1>9 DEF Ahead
  <2>2. Page(c, n) = Select(F, Older, n)
    <3>1. F = {i \in Mine : c = NoCursor \/ (Has(c) /\ Older(Find(c), i))}
      BY <1>3, <1>4, <1>5, <1>9, <2>1 DEF Showing
    <3> HIDE DEF F
    <3>2. QED BY <1>9, <3>1 DEF Page, AdapterGitCheckpointPage
  <2>3. \A i, j \in F : <<i, j>> \in Ahead2 <=> Older(i, j) BY <1>1, <1>2, <2>1
  <2> HIDE DEF F
  <2>4. \E at : Selects(Page(c, n), at, F, Ahead2, n) BY <1>1, <1>2, <2>2, <2>3, SelectedByAge
  <2>5. QED BY <2>4 DEF F
<1>10. CASE listing = "Members"
  <2>1. \A i, j \in DOMAIN rows : Ahead(i, j) <=> Older(i, j) BY <1>10 DEF Ahead
  <2>2. Page(c, n) = Select(F, Older, n)
    <3>1. F = {i \in Mine : rows[i].live /\ (c = NoCursor \/ (Has(c) /\ Older(Find(c), i)))}
      BY <1>3, <1>4, <1>5, <1>10, <2>1 DEF Showing
    <3> HIDE DEF F
    <3>2. QED BY <1>10, <3>1 DEF Page, MembersPage
  <2>3. \A i, j \in F : <<i, j>> \in Ahead2 <=> Older(i, j) BY <1>1, <1>2, <2>1
  <2> HIDE DEF F
  <2>4. \E at : Selects(Page(c, n), at, F, Ahead2, n) BY <1>1, <1>2, <2>2, <2>3, SelectedByAge
  <2>5. QED BY <2>4 DEF F
<1>11. QED BY <1>6, <1>7, <1>8, <1>9, <1>10 DEF PagingTypeOK, AllListings

\* While the table stays as it is, so do the order of its rows and who is there.
LEMMA TableStays ==
  ASSUME rows' = rows, listing' = listing
  PROVE  /\ Mine' = Mine
         /\ \A i, j : Ahead(i, j)' <=> Ahead(i, j)
         /\ \A x : Has(x)' <=> Has(x)
         /\ \A x, i : Past(x, i)' <=> Past(x, i)
<1>1. Mine' = Mine BY DEF Mine
<1>2. \A i, j : Ahead(i, j)' <=> Ahead(i, j)
  BY DEF Ahead, Older, Newer, OlderByRowid, Less, Key
<1>3. QED BY <1>1, <1>2 DEF Has, Past

\* The rows a walk was given, those of them that are there, come before what lies past
\* its cursor, and none of them lies there.
LEMMA PastIsAhead ==
  ASSUME PagingTypeOK, RowsApart, WalkInOrder, walk \in {"ask", "checked"},
         NEW i \in Mine, Past(cursor, i), NEW m \in DOMAIN got
  PROVE  /\ got[m] # rows[i].id /\ Has(got[m])
         /\ \A h \in Mine : rows[h].id = got[m] => Ahead(h, i)
<1>1. got \in Seq(Ids) /\ DOMAIN got = 1..Len(got) /\ Len(got) \in Nat BY DEF PagingTypeOK
<1>2. cursor # NoCursor /\ cursor = got[Len(got)]
  <2>1. got # <<>> BY <1>1
  <2>2. QED BY <2>1 DEF WalkInOrder
<1>3. PICK j \in Mine : rows[j].id = cursor /\ Ahead(j, i) BY <1>2 DEF Past
<1>4. Mine \subseteq DOMAIN rows BY DEF Mine
<1>5. Has(got[m])
  <2>1. Has(got[Len(got)]) /\ Len(got) \in DOMAIN got BY <1>1, <1>2, <1>3 DEF Has
  <2>2. QED BY <2>1 DEF WalkInOrder
<1>6. ASSUME NEW h \in Mine, rows[h].id = got[m] PROVE Ahead(h, i)
  <2>1. CASE m = Len(got)
    <3>1. h = j BY <1>2, <1>3, <1>4, <1>6, <2>1 DEF RowsApart
    <3>2. QED BY <1>3, <3>1
  <2>2. CASE m # Len(got)
    <3>1. m < Len(got) /\ Len(got) \in DOMAIN got BY <1>1, <2>2
    <3>2. Ahead(h, j) BY <1>2, <1>3, <1>6, <3>1 DEF WalkInOrder
    <3>3. QED BY <1>3, <1>4, <3>2, AheadOrders
  <2>3. QED BY <2>1, <2>2
<1>7. got[m] # rows[i].id BY <1>4, <1>6, AheadOrders
<1>8. QED BY <1>5, <1>6, <1>7

LEMMA GiveKeeps ==
  ASSUME PagingInv, walk \in {"ask", "checked"}, Give
  PROVE  PagingInv'
<1> USE DEF PagingInv
<1> DEFINE F == Showing(cursor)
           s == Page(cursor, limit + 1)
           n == Len(got)
<1>1. limit \in Nat /\ limit >= 1 /\ cursor \in Ids \cup {NoCursor} BY DEF PagingTypeOK
<1>2. PICK at : Selects(s, at, F, Ahead2, limit + 1) BY <1>1, PagesAre
<1> DEFINE L == Min({limit, Len(s)})
           page == SubSeq(s, 1, L)
<1>3. s \in Seq(Ids) /\ Len(s) \in Nat /\ Len(s) <= limit + 1 BY <1>2 DEF Selects
<1>4. L \in Nat /\ L <= limit /\ L <= Len(s) /\ L \in {limit, Len(s)}
  <2> HIDE DEF s
  <2>1. QED BY <1>1, <1>3, LeastOfTwo
<1>5. /\ got' = got \o page
      /\ cursor' = (IF Len(s) > limit THEN Last(page) ELSE NoCursor)
      /\ walk' = (IF Len(s) > limit THEN "ask" ELSE "done")
      /\ before' = before /\ listing' = listing /\ limit' = limit /\ rows' = rows
      /\ clock' = clock /\ inserted' = inserted
  BY DEF Give, Table
<1> HIDE DEF s, L
<1>6. page \in Seq(Ids) /\ Len(page) = L /\ \A k \in 1..L : page[k] = s[k]
  BY <1>3, <1>4
<1> HIDE DEF page
<1>7. F \subseteq Mine /\ Mine \subseteq DOMAIN rows /\ \A i \in F : Past(cursor, i) BY DEF Showing, Mine
<1>8. /\ \A k \in 1..L : at[k] \in F /\ page[k] = rows[at[k]].id
      /\ \A k, l \in 1..L : k < l => Ahead(at[k], at[l])
  <2>1. \A k \in 1..L : k \in 1..Len(s) BY <1>3, <1>4
  <2>2. \A i, j \in DOMAIN rows : <<i, j>> \in Ahead2 <=> Ahead(i, j) BY AheadOrdering
  <2>3. \A k \in 1..L : at[k] \in F /\ s[k] = rows[at[k]].id BY <1>2, <2>1 DEF Selects
  <2> HIDE DEF F
  <2>4. \A k, l \in 1..L : k < l => <<at[k], at[l]>> \in Ahead2 BY <1>2, <2>1 DEF Selects
  <2>5. QED BY <1>6, <1>7, <2>2, <2>3, <2>4
<1>9. got \in Seq(Ids) /\ n \in Nat /\ DOMAIN got = 1..n BY DEF PagingTypeOK
<1>10. /\ got' \in Seq(Ids) /\ Len(got') = n + L /\ DOMAIN got' = 1..n + L
       /\ \A k \in 1..n : got'[k] = got[k]
       /\ \A k \in 1..L : got'[n + k] = page[k]
  <2>1. got' \in Seq(Ids) /\ Len(got') = n + L BY <1>4, <1>5, <1>6, <1>9, ConcatProperties
  <2>2. QED BY <1>4, <1>5, <1>6, <1>9, <2>1
<1> HIDE DEF n, F
<1>11. \A k \in DOMAIN got' : \/ k \in DOMAIN got /\ got'[k] = got[k] /\ k <= n
                              \/ k - n \in 1..L /\ got'[k] = page[k - n] /\ k > n
  BY <1>4, <1>9, <1>10
<1>12. \A k \in 1..L, m \in DOMAIN got :
         /\ got[m] # page[k] /\ Has(got[m])
         /\ \A h \in Mine : rows[h].id = got[m] => Ahead(h, at[k])
  BY <1>7, <1>8, PastIsAhead
<1>13. \A k, l \in 1..L : k < l => page[k] # page[l]
  <2>1. \A k, l \in 1..L : k < l => at[k] # at[l] BY <1>7, <1>8, AheadOrders
  <2>2. QED BY <1>7, <1>8, <2>1 DEF RowsApart
<1>14. PagingTypeOK'
  <2>1. cursor' \in Ids \cup {NoCursor}
    <3>1. CASE Len(s) > limit
      <4>1. L = limit /\ L \in 1..L BY <1>1, <1>3, <1>4, <3>1
      <4>2. cursor' = page[L] BY <1>5, <1>6, <3>1 DEF Last
      <4>3. QED BY <1>6, <4>1, <4>2
    <3>2. QED BY <1>5, <3>1
  <2>2. QED BY <1>5, <1>10, <2>1 DEF PagingTypeOK
<1>15. RowsApart' BY <1>5 DEF RowsApart
<1>16. Mine' = Mine /\ (\A i, j : Ahead(i, j)' <=> Ahead(i, j)) /\ (\A x : Has(x)' <=> Has(x))
       /\ \A x, i : Past(x, i)' <=> Past(x, i)
  BY <1>5, TableStays
<1>17. \A k \in 1..L : Has(page[k]) /\ page[k] \in inserted BY <1>7, <1>8 DEF Has, RowsApart
<1>18. WalkInOrder'
  <2> DEFINE new(k) == k - n \in 1..L /\ got'[k] = page[k - n] /\ k > n
             old(k) == k \in DOMAIN got /\ got'[k] = got[k] /\ k <= n
  <2>0. \A k \in DOMAIN got' : old(k) \/ new(k) BY <1>11
  <2>1. \A k \in DOMAIN got' : got'[k] \in inserted /\ \A i \in DOMAIN rows : rows[i].id = got'[k] => rows[i].mine
    <3>1. \A k \in 1..L : \A i \in DOMAIN rows : rows[i].id = page[k] => rows[i].mine
      <4>1. \A k \in 1..L, i \in DOMAIN rows : rows[i].id = page[k] => i = at[k]
        BY <1>7, <1>8 DEF RowsApart
      <4>2. QED BY <1>7, <1>8, <4>1 DEF Mine
    <3>2. QED BY <1>17, <2>0, <3>1 DEF WalkInOrder
  <2>2. ASSUME NEW k \in DOMAIN got', NEW l \in DOMAIN got', k < l
        PROVE  (old(k) /\ old(l)) \/ (old(k) /\ new(l)) \/ (new(k) /\ new(l) /\ k - n < l - n)
    <3>1. k \in Int /\ l \in Int /\ n \in Int BY <1>9, <1>10
    <3>2. ~(new(k) /\ old(l)) BY <2>2, <3>1
    <3>3. k - n < l - n BY <2>2, <3>1
    <3> HIDE DEF new, old
    <3>4. QED BY <2>0, <3>2, <3>3
  <2>3. ASSUME NEW k \in DOMAIN got', NEW l \in DOMAIN got', k < l PROVE got'[k] # got'[l]
    <3>1. CASE old(k) /\ old(l) BY <2>3, <3>1 DEF WalkInOrder
    <3>2. CASE old(k) /\ new(l) BY <1>12, <3>2
    <3>3. CASE new(k) /\ new(l) /\ k - n < l - n BY <1>13, <3>3
    <3>4. QED BY <2>2, <2>3, <3>1, <3>2, <3>3
  <2>4. ASSUME NEW k \in DOMAIN got', NEW l \in DOMAIN got', k < l,
               NEW i \in Mine, NEW j \in Mine, rows[i].id = got'[k], rows[j].id = got'[l]
        PROVE  Ahead(i, j)
    <3>1. CASE old(k) /\ old(l) BY <2>4, <3>1 DEF WalkInOrder
    <3>2. new(l) => j = at[l - n] BY <1>7, <1>8, <2>4 DEF RowsApart
    <3>3. new(k) => i = at[k - n] BY <1>7, <1>8, <2>4 DEF RowsApart
    <3>4. CASE old(k) /\ new(l) BY <1>12, <2>4, <3>2, <3>4
    <3>5. CASE new(k) /\ new(l) /\ k - n < l - n BY <1>8, <3>2, <3>3, <3>5
    <3>6. QED BY <2>2, <2>4, <3>1, <3>4, <3>5
  <2>5. ASSUME NEW k \in DOMAIN got', NEW l \in DOMAIN got', Has(got'[k]) PROVE Has(got'[l])
    <3>1. new(l) => Has(got'[l]) BY <1>17
    <3>2. CASE old(l) /\ old(k) BY <2>5, <3>2 DEF WalkInOrder
    <3>3. CASE old(l) /\ new(k) BY <1>12, <3>3
    <3>4. QED BY <2>0, <3>1, <3>2, <3>3
  <2>6. cursor' # NoCursor => got' # <<>> /\ cursor' = got'[Len(got')]
    <3>1. SUFFICES ASSUME cursor' # NoCursor PROVE got' # <<>> /\ cursor' = got'[Len(got')] OBVIOUS
    <3>2. Len(s) > limit BY <1>5, <3>1
    <3>3. L = limit /\ L \in 1..L BY <1>1, <1>3, <1>4, <3>2
    <3>4. cursor' = page[L] BY <1>5, <1>6, <3>2 DEF Last
    <3>5. got' # <<>> BY <1>9, <1>10, <3>3
    <3>6. QED BY <1>10, <3>3, <3>4, <3>5
  <2>7. cursor' = NoCursor => walk' = "done"
    <3>1. CASE Len(s) > limit
      <4>1. L = limit /\ L \in 1..L BY <1>1, <1>3, <1>4, <3>1
      <4>2. cursor' = page[L] /\ page[L] \in Ids BY <1>5, <1>6, <3>1, <4>1 DEF Last
      <4>3. QED BY <4>2, PagingBounds DEF Ids
    <3>2. QED BY <1>5, <3>1
  <2>8. walk' # "idle" BY <1>5
  <2> HIDE DEF new, old
  <2>9. \A k \in DOMAIN got' : got'[k] \in inserted'
                               /\ \A i \in DOMAIN rows' : rows'[i].id = got'[k] => rows'[i].mine
    BY <1>5, <2>1
  <2>10. \A k, l \in DOMAIN got' : k < l => got'[k] # got'[l] BY <2>3
  <2>11. \A k, l \in DOMAIN got', i, j \in Mine' :
            k < l /\ rows'[i].id = got'[k] /\ rows'[j].id = got'[l] => Ahead(i, j)'
    BY <1>5, <1>16, <2>4
  <2>12. \A k, l \in DOMAIN got' :
            (\E i \in Mine' : rows'[i].id = got'[k]) => \E i \in Mine' : rows'[i].id = got'[l]
    BY <1>5, <1>16, <2>5 DEF Has
  <2>13. QED BY <2>6, <2>7, <2>8, <2>9, <2>10, <2>11, <2>12 DEF WalkInOrder, Has
<1>19. AllGiven'
  <2>1. SUFFICES ASSUME NEW i \in Mine, rows[i].live, rows[i].id \in before
                 PROVE  \/ rows[i].id \in Range(got')
                        \/ walk' # "done" /\ Past(cursor', i)
    BY <1>5, <1>16 DEF AllGiven
  <2>2. CASE rows[i].id \in Range(got)
    <3>1. PICK k \in DOMAIN got : got[k] = rows[i].id BY <2>2 DEF Range
    <3>2. k \in 1..n /\ got'[k] = rows[i].id BY <1>9, <1>10, <3>1 DEF n
    <3>3. k \in DOMAIN got' BY <1>4, <1>9, <1>10, <3>2
    <3>4. QED BY <3>2, <3>3 DEF Range
  <2>3. CASE Past(cursor, i)
    <3>1. i \in F BY <2>1, <2>3 DEF F, Showing
    <3>2. \/ \E k \in 1..Len(s) : at[k] = i
          \/ Len(s) = limit + 1 /\ \A k \in 1..Len(s) : <<at[k], i>> \in Ahead2
      BY <1>2, <3>1 DEF Selects
    <3>3. ASSUME NEW k \in 1..L, at[k] = i PROVE rows[i].id \in Range(got')
      <4>1. got'[n + k] = rows[i].id /\ n + k \in DOMAIN got' BY <1>4, <1>8, <1>9, <1>10, <3>3
      <4>2. QED BY <4>1 DEF Range
    <3>4. CASE Len(s) <= limit
      <4>1. L = Len(s) BY <1>1, <1>3, <1>4, <3>4
      <4>2. Len(s) # limit + 1 BY <1>1, <1>3, <3>4
      <4>3. QED BY <3>2, <3>3, <4>1, <4>2
    <3>5. CASE Len(s) > limit
      <4>1. L = limit /\ L \in 1..L /\ L \in 1..Len(s) BY <1>1, <1>3, <1>4, <3>5
      <4>2. cursor' = rows[at[L]].id /\ at[L] \in Mine BY <1>5, <1>6, <1>7, <1>8, <3>5, <4>1 DEF Last
      <4>3. walk' = "ask" BY <1>5, <3>5
      <4>4. ASSUME Ahead(at[L], i) PROVE Past(cursor', i) BY <4>2, <4>4 DEF Past
      <4>5. \A x, y \in DOMAIN rows : <<x, y>> \in Ahead2 <=> Ahead(x, y) BY AheadOrdering
      <4>6. ASSUME NEW k \in 1..Len(s), at[k] = i, k > L PROVE Ahead(at[L], i)
        <5>1. <<at[L], at[k]>> \in Ahead2 BY <1>2, <4>1, <4>6 DEF Selects
        <5>2. QED BY <1>7, <4>2, <4>5, <4>6, <5>1
      <4>7. \A k \in 1..Len(s) : k \in 1..L \/ k > L BY <1>3, <1>4
      <4>8. CASE \A k \in 1..Len(s) : <<at[k], i>> \in Ahead2
        BY <1>7, <4>1, <4>2, <4>3, <4>4, <4>5, <4>8
      <4>9. QED BY <3>2, <3>3, <4>3, <4>4, <4>6, <4>7, <4>8
    <3>6. QED BY <1>1, <1>3, <3>4, <3>5
  <2>4. QED BY <2>1, <2>2, <2>3 DEF AllGiven
<1>20. QED BY <1>14, <1>15, <1>18, <1>19

\* A row that is added has a rowid and an id of its own, and stands in nobody's way.
LEMMA InsertKeeps ==
  ASSUME PagingInv, NEW id \in Ids, NEW mine \in BOOLEAN, NEW at \in 0..MaxInstant,
         Insert(id, mine, at), listing = "SqliteGitCheckpoint" /\ inserted # {} => at > clock
  PROVE  PagingInv'
<1> USE DEF PagingInv
<1> DEFINE r == NextRowid
<1>1. r \in Nat \ {0} /\ r \notin DOMAIN rows
  <2> DEFINE S == {0} \cup DOMAIN rows
  <2>1. S \in SUBSET Int /\ S # {} /\ 0 \in S BY DEF PagingTypeOK
  <2>2. S = DOMAIN rows \cup {0} /\ IsFiniteSet(DOMAIN rows) BY DEF PagingTypeOK
  <2> HIDE DEF S
  <2>3. IsFiniteSet(S) BY <2>2, FS_AddElement
  <2>4. Max(S) \in S /\ \A y \in S : Max(S) >= y BY <2>1, <2>3, HasMax
  <2>5. r = Max(S) + 1 BY DEF NextRowid, S
  <2> HIDE DEF r
  <2>6. Max(S) \in Int /\ Max(S) >= 0 BY <2>1, <2>4
  <2>7. r \notin S BY <2>4, <2>5, <2>6
  <2>8. QED BY <2>2, <2>5, <2>6, <2>7
<1>2. /\ DOMAIN rows' = DOMAIN rows \cup {r}
      /\ \A i \in DOMAIN rows : rows'[i] = rows[i]
      /\ rows'[r] = [id |-> id, at |-> at, mine |-> mine, live |-> TRUE]
      /\ id \notin inserted /\ inserted' = inserted \cup {id} /\ at >= clock /\ clock' = at
      /\ listing' = listing /\ limit' = limit /\ cursor' = cursor /\ walk' = walk
      /\ got' = got /\ before' = before
  BY <1>1 DEF Insert, Walk
<1> HIDE DEF r
<1>3. rows'[r].id = id /\ rows'[r].at = at /\ rows'[r].mine = mine /\ rows'[r].live = TRUE BY <1>2
<1>4. PagingTypeOK'
  <2>1. IsFiniteSet(DOMAIN rows') BY <1>2, FS_AddElement DEF PagingTypeOK
  <2>2. \A i \in DOMAIN rows' : rows'[i] \in [id : Ids, at : 0..MaxInstant, mine : BOOLEAN, live : BOOLEAN]
    <3>1. rows'[r] \in [id : Ids, at : 0..MaxInstant, mine : BOOLEAN, live : BOOLEAN] BY <1>2
    <3>2. QED BY <1>2, <3>1 DEF PagingTypeOK
  <2>3. DOMAIN rows' \subseteq Nat \ {0} BY <1>1, <1>2 DEF PagingTypeOK
  <2>4. clock' \in 0..MaxInstant /\ inserted' \subseteq Ids /\ before' \subseteq Ids
    BY <1>2 DEF PagingTypeOK
  <2>5. QED BY <1>2, <2>1, <2>2, <2>3, <2>4 DEF PagingTypeOK
<1>5. RowsApart'
  <2>1. \A i \in DOMAIN rows : rows[i].id \in inserted /\ rows[i].at <= clock /\ rows[i].at \in Int
    BY KeysInOrder DEF RowsApart
  <2>2. clock \in Int /\ at \in Int BY PagingBounds DEF PagingTypeOK
  <2>3. \A i, j \in DOMAIN rows' : rows'[i].id = rows'[j].id => i = j
    BY <1>2, <1>3, <2>1 DEF RowsApart
  <2>4. \A i \in DOMAIN rows' : rows'[i].id \in inserted' /\ rows'[i].at <= clock'
    <3>1. \A i \in DOMAIN rows : rows'[i].at <= clock' /\ rows'[i].id \in inserted'
      BY <1>2, <2>1, <2>2
    <3>2. QED BY <1>2, <1>3, <2>2, <3>1
  <2>5. listing' = "SqliteGitCheckpoint" =>
          \A i, j \in DOMAIN rows' : rows'[i].at = rows'[j].at => i = j
    <3>1. SUFFICES ASSUME listing = "SqliteGitCheckpoint",
                          NEW i \in DOMAIN rows', NEW j \in DOMAIN rows', rows'[i].at = rows'[j].at
                   PROVE  i = j
      BY <1>2
    <3>2. \A k \in DOMAIN rows : rows[k].at < at BY <2>1, <2>2, <3>1
    <3>3. \A k \in DOMAIN rows : rows'[k].at # rows'[r].at BY <1>2, <1>3, <2>1, <2>2, <3>2
    <3>4. QED BY <1>2, <3>1, <3>3 DEF RowsApart
  <2>6. QED BY <1>2, <2>3, <2>4, <2>5 DEF RowsApart
<1>6. /\ Mine \subseteq Mine' /\ \A i \in Mine' : i \in Mine \/ i = r
      /\ Mine \subseteq DOMAIN rows
  BY <1>1, <1>2 DEF Mine
<1>7. \A i, j \in DOMAIN rows : Ahead(i, j)' <=> Ahead(i, j)
  BY <1>2 DEF Ahead, Older, Newer, OlderByRowid, Less, Key
<1>8. \A k \in DOMAIN got : got[k] \in inserted /\ got[k] # id BY <1>2 DEF WalkInOrder
<1>9. \A x : x # id => (Has(x)' <=> Has(x)) BY <1>2, <1>3, <1>6 DEF Has
<1>10. WalkInOrder'
  <2>1. \A k \in DOMAIN got' : got'[k] \in inserted'
                               /\ \A i \in DOMAIN rows' : rows'[i].id = got'[k] => rows'[i].mine
    BY <1>2, <1>3, <1>8 DEF WalkInOrder
  <2>2. \A k, l \in DOMAIN got', i, j \in Mine' :
            k < l /\ rows'[i].id = got'[k] /\ rows'[j].id = got'[l] => Ahead(i, j)'
    <3>1. SUFFICES ASSUME NEW k \in DOMAIN got, NEW l \in DOMAIN got, NEW i \in Mine', NEW j \in Mine',
                          k < l, rows'[i].id = got[k], rows'[j].id = got[l]
                   PROVE  Ahead(i, j)'
      BY <1>2
    <3>2. i \in Mine /\ j \in Mine BY <1>3, <1>6, <1>8, <3>1
    <3>3. rows[i].id = got[k] /\ rows[j].id = got[l] BY <1>2, <1>6, <3>1, <3>2
    <3>4. Ahead(i, j) BY <3>1, <3>2, <3>3 DEF WalkInOrder
    <3>5. QED BY <1>6, <1>7, <3>2, <3>4
  <2>3. \A k, l \in DOMAIN got' :
            (\E i \in Mine' : rows'[i].id = got'[k]) => \E i \in Mine' : rows'[i].id = got'[l]
    <3>1. \A k, l \in DOMAIN got : Has(got[k]) => Has(got[l]) BY DEF WalkInOrder
    <3>2. \A x : (\E i \in Mine' : rows'[i].id = x) <=> Has(x)' BY DEF Has
    <3>3. \A k, l \in DOMAIN got :
             (\E i \in Mine' : rows'[i].id = got[k]) => \E i \in Mine' : rows'[i].id = got[l]
      <4>1. \A k \in DOMAIN got : (\E i \in Mine' : rows'[i].id = got[k]) <=> Has(got[k])
        BY <1>8, <1>9, <3>2
      <4>2. QED BY <3>1, <4>1
    <3>4. QED BY <1>2, <3>3
  <2>4. QED BY <1>2, <2>1, <2>2, <2>3 DEF WalkInOrder, Has
<1>11. AllGiven'
  <2>1. SUFFICES ASSUME walk \in {"ask", "checked", "done"},
                        NEW i \in Mine', rows'[i].live, rows'[i].id \in before
                 PROVE  rows'[i].id \in Range(got)
                        \/ (walk # "done" /\ (cursor = NoCursor \/ \E j \in Mine' : rows'[j].id = cursor /\ Ahead(j, i)'))
    BY <1>2 DEF AllGiven, Past
  <2>2. i \in Mine /\ rows'[i] = rows[i] BY <1>2, <1>3, <1>6, <2>1 DEF RowsApart
  <2>3. rows[i].id \in Range(got) \/ (walk # "done" /\ Past(cursor, i)) BY <2>1, <2>2 DEF AllGiven
  <2>4. QED BY <1>2, <1>6, <1>7, <2>2, <2>3 DEF Past
<1>12. QED BY <1>4, <1>5, <1>10, <1>11

\* Rows that go, all of one walk's at once, and rows that lose their data.
LEMMA DeleteAllKeeps ==
  ASSUME PagingInv, DeleteAll
  PROVE  PagingInv'
<1> USE DEF PagingInv
<1>1. /\ DOMAIN rows' = DOMAIN rows \ Mine
      /\ \A i \in DOMAIN rows' : rows'[i] = rows[i]
      /\ clock' = clock /\ inserted' = inserted
      /\ listing' = listing /\ limit' = limit /\ cursor' = cursor /\ walk' = walk
      /\ got' = got /\ before' = before
  BY DEF DeleteAll, Walk, Restrict
<1>2. Mine' = {} BY <1>1 DEF Mine
<1>3. PagingTypeOK'
  <2>1. IsFiniteSet(DOMAIN rows') BY <1>1, FS_Subset DEF PagingTypeOK
  <2>2. QED BY <1>1, <2>1 DEF PagingTypeOK
<1>4. RowsApart' BY <1>1 DEF RowsApart
<1>5. WalkInOrder' BY <1>1, <1>2 DEF WalkInOrder, Has
<1>6. AllGiven' BY <1>2 DEF AllGiven
<1>7. QED BY <1>3, <1>4, <1>5, <1>6

LEMMA EraseUserKeeps ==
  ASSUME PagingInv, EraseUser
  PROVE  PagingInv'
<1> USE DEF PagingInv
<1>1. PICK e \in Mine : rows' = [rows EXCEPT ![e].live = FALSE] BY DEF EraseUser
<1>2. /\ clock' = clock /\ inserted' = inserted
      /\ listing' = listing /\ limit' = limit /\ cursor' = cursor /\ walk' = walk
      /\ got' = got /\ before' = before
  BY DEF EraseUser, Walk
<1>3. /\ DOMAIN rows' = DOMAIN rows
      /\ \A i \in DOMAIN rows : /\ rows'[i] \in [id : Ids, at : 0..MaxInstant, mine : BOOLEAN, live : BOOLEAN]
                                /\ rows'[i].id = rows[i].id /\ rows'[i].at = rows[i].at
                                /\ rows'[i].mine = rows[i].mine
                                /\ rows'[i].live => rows[i].live
  BY <1>1 DEF PagingTypeOK
<1>4. Mine' = Mine /\ Mine \subseteq DOMAIN rows BY <1>3 DEF Mine
<1>5. \A i, j \in DOMAIN rows : Ahead(i, j)' <=> Ahead(i, j)
  BY <1>2, <1>3 DEF Ahead, Older, Newer, OlderByRowid, Less, Key
<1>6. PagingTypeOK' BY <1>2, <1>3 DEF PagingTypeOK
<1>7. RowsApart' BY <1>2, <1>3 DEF RowsApart
<1>8. WalkInOrder' BY <1>2, <1>3, <1>4, <1>5 DEF WalkInOrder, Has
<1>9. AllGiven' BY <1>2, <1>3, <1>4, <1>5 DEF AllGiven, Past
<1>10. QED BY <1>6, <1>7, <1>8, <1>9

LEMMA BeginKeeps ==
  ASSUME PagingInv, Begin
  PROVE  PagingInv'
<1> USE DEF PagingInv
<1>1. /\ clock' = clock /\ inserted' = inserted /\ rows' = rows
      /\ listing' = listing /\ limit' = limit /\ cursor' = cursor
      /\ walk = "idle" /\ walk' = "ask" /\ got' = got
      /\ before' = {rows[i].id : i \in {j \in Mine : rows[j].live}}
  BY DEF Begin, Table
<1>2. Mine \subseteq DOMAIN rows BY DEF Mine
<1>3. before' \subseteq inserted /\ before' \subseteq Ids BY <1>1, <1>2 DEF RowsApart, PagingTypeOK
<1>4. PagingTypeOK' BY <1>1, <1>3 DEF PagingTypeOK
<1>5. RowsApart' BY <1>1, <1>3 DEF RowsApart
<1>6. /\ Mine' = Mine /\ \A i, j : Ahead(i, j)' <=> Ahead(i, j)
      /\ \A x : Has(x)' <=> Has(x)
  BY <1>1, TableStays
<1>7. WalkInOrder' BY <1>1, <1>6 DEF WalkInOrder, Has
<1>8. AllGiven' BY <1>1 DEF AllGiven, Past, WalkInOrder
<1>9. QED BY <1>4, <1>5, <1>7, <1>8

LEMMA CheckKeeps ==
  ASSUME PagingInv, Check \/ Fetch
  PROVE  PagingInv'
<1>1. CASE Give /\ walk \in {"ask", "checked"} BY <1>1, GiveKeeps
<1>2. CASE /\ rows' = rows /\ listing' = listing /\ limit' = limit /\ clock' = clock
           /\ inserted' = inserted /\ cursor' = cursor /\ got' = got /\ before' = before
           /\ walk = "ask" /\ walk' \in {"checked", "refused"}
  <2> USE DEF PagingInv
  <2>1. /\ Mine' = Mine /\ \A i, j : Ahead(i, j)' <=> Ahead(i, j)
        /\ \A x : Has(x)' <=> Has(x) /\ \A i : Past(x, i)' <=> Past(x, i)
    BY <1>2, TableStays
  <2>2. PagingTypeOK' BY <1>2 DEF PagingTypeOK
  <2>3. RowsApart' BY <1>2 DEF RowsApart
  <2>4. WalkInOrder' BY <1>2, <2>1 DEF WalkInOrder, Has
  <2>5. AllGiven' BY <1>2, <2>1 DEF AllGiven, Past
  <2>6. QED BY <2>2, <2>3, <2>4, <2>5
<1>3. QED BY <1>1, <1>2 DEF Check, Fetch, Refused, Table

LEMMA PagingStep == PagingInv /\ PagingNext => PagingInv'
<1> SUFFICES ASSUME PagingInv, PagingNext PROVE PagingInv' OBVIOUS
<1>1. ASSUME NEW id \in Ids, NEW mine \in BOOLEAN, NEW at \in 0..MaxInstant,
             InsertMessage(id, mine, at) \/ InsertCheckpoint(id, mine, at) \/ AddMember(id, mine, at)
      PROVE  PagingInv'
  <2>1. /\ Insert(id, mine, at)
        /\ listing = "SqliteGitCheckpoint" /\ inserted # {} => at > clock
    BY <1>1 DEF InsertMessage, InsertCheckpoint, AddMember
  <2>2. QED BY <2>1, InsertKeeps
<1>2. QED
  BY <1>1, DeleteAllKeeps, EraseUserKeeps, BeginKeeps, CheckKeeps DEF PagingNext

LEMMA PagingAtRest == PagingInit \/ PagingRest => PagingInv
<1> SUFFICES ASSUME PagingInit \/ PagingRest PROVE PagingInv OBVIOUS
<1>1. /\ rows = <<>> /\ clock = 0 /\ cursor = NoCursor /\ walk \in {"idle", "done"} /\ got = <<>>
      /\ inserted = {} /\ before = {} /\ listing \in AllListings /\ limit \in Nat \ {0}
  <2>1. CASE PagingInit BY <2>1, ListingsAssumption, PagingBounds DEF PagingInit
  <2>2. CASE PagingRest
    <3>1. listing = "Members" /\ limit = 1 BY <2>2 DEF PagingRest
    <3>2. listing \in AllListings BY <3>1 DEF AllListings
    <3>3. limit \in Nat \ {0} BY <3>1
    <3>4. QED BY <2>2, <3>2, <3>3 DEF PagingRest
  <2>3. QED BY <2>1, <2>2
<1>2. DOMAIN rows = {} /\ DOMAIN got = {} /\ got \in Seq(Ids) BY <1>1
<1>3. Mine = {} BY <1>2 DEF Mine
<1>4. PagingTypeOK BY <1>1, <1>2, PagingBounds, FS_EmptySet DEF PagingTypeOK
<1>5. RowsApart BY <1>1, <1>2 DEF RowsApart
<1>6. WalkInOrder BY <1>1, <1>2 DEF WalkInOrder
<1>7. AllGiven BY <1>3 DEF AllGiven
<1>8. QED BY <1>4, <1>5, <1>6, <1>7 DEF PagingInv

\* Of two rows a walk of messages was given, the first comes later in the whole listing.
LEMMA AllInOrder ==
  ASSUME PagingInv, NEW all, NEW R, NEW at, Selects(all, at, Mine, R, Cardinality(Mine)),
         Ordering(R, Mine), \A h, i \in Mine : <<h, i>> \in R <=> Ahead(i, h),
         NEW i \in DOMAIN got, NEW j \in DOMAIN got, NEW k \in DOMAIN all, NEW l \in DOMAIN all,
         i < j, all[k] = got[i], all[l] = got[j]
  PROVE  l < k
<1>1. /\ all \in Seq(Ids) /\ DOMAIN all = 1..Len(all) /\ k \in Int /\ l \in Int
      /\ \A x \in 1..Len(all) : at[x] \in Mine /\ all[x] = rows[at[x]].id
      /\ \A x, y \in 1..Len(all) : x < y => <<at[x], at[y]>> \in R
  <2>1. all \in Seq(Ids) /\ DOMAIN all = 1..Len(all) /\ k \in Int /\ l \in Int
    <3>1. all \in Seq(Ids) BY DEF Selects
    <3>2. QED BY <3>1
  <2>2. \A x \in 1..Len(all) : at[x] \in Mine /\ all[x] = rows[at[x]].id BY DEF Selects
  <2>3. \A x, y \in 1..Len(all) : x < y => <<at[x], at[y]>> \in R BY DEF Selects
  <2>4. QED BY <2>1, <2>2, <2>3
<1>2. Ahead(at[k], at[l]) BY <1>1 DEF PagingInv, WalkInOrder
<1>3. <<at[l], at[k]>> \in R BY <1>1, <1>2
<1>4. <<at[k], at[l]>> \notin R /\ at[k] # at[l] BY <1>1, <1>3 DEF Ordering
<1>5. ~(k < l) /\ k # l BY <1>1, <1>4
<1>6. QED BY <1>1, <1>5

LEMMA PagingInvTells == PagingInv => EveryRowOnce
<1> SUFFICES ASSUME PagingInv PROVE EveryRowOnce OBVIOUS
<1> USE DEF PagingInv
<1>1. got \in Seq(Ids) /\ DOMAIN got = 1..Len(got) /\ Len(got) \in Nat BY DEF PagingTypeOK
<1>2. IsInjective(got)
  <2>1. \A k, l \in DOMAIN got : got[k] = got[l] => k = l
    <3>1. \A k, l \in DOMAIN got : k < l \/ l < k \/ k = l BY <1>1
    <3>2. QED BY <3>1 DEF WalkInOrder
  <2>2. QED BY <2>1 DEF IsInjective
<1>3. \A i \in DOMAIN rows : rows[i].id \in Range(got) => rows[i].mine
  BY DEF WalkInOrder, Range
<1>4. walk = "done" =>
        \A i \in Mine : rows[i].live /\ rows[i].id \in before => rows[i].id \in Range(got)
  BY DEF AllGiven
<1>5. Cardinality(Mine) \in Nat /\ Mine \in SUBSET DOMAIN rows
  <2>1. Mine \in SUBSET DOMAIN rows BY DEF Mine
  <2>2. IsFiniteSet(Mine) BY <2>1, FS_Subset DEF PagingTypeOK
  <2>3. QED BY <2>1, <2>2, FS_CardinalityType
<1> DEFINE n == Cardinality(Mine)
           R == {p \in Pairs(DOMAIN rows) : Ahead(p[2], p[1])}
<1>6. \A i, j \in DOMAIN rows : <<i, j>> \in R <=> Ahead(j, i)
  <2>1. TAKE i, j \in DOMAIN rows
  <2>2. <<i, j>>[1] = i /\ <<i, j>>[2] = j OBVIOUS
  <2>3. QED BY <2>2 DEF Pairs
<1> HIDE DEF R, n
<1>7. Ordering(R, Mine) BY <1>5, <1>6, AheadOrders DEF Ordering
<1>8. ASSUME listing = "SqliteConversation",
             NEW i \in DOMAIN got, NEW j \in DOMAIN got,
             NEW k \in DOMAIN SqliteListAll, NEW l \in DOMAIN SqliteListAll,
             i < j, SqliteListAll[k] = got[i], SqliteListAll[l] = got[j]
      PROVE  l < k
  <2>1. \A x, y \in DOMAIN rows : Ahead(y, x) <=> ByRowid(x, y)
    BY <1>8, KeysInOrder DEF Ahead, ByRowid
  <2>2. SqliteListAll = Select(Mine, ByRowid, n) BY DEF SqliteListAll, n
  <2>3. PICK at : Selects(SqliteListAll, at, Mine, R, n)
    BY <1>5, <1>6, <1>7, <2>1, <2>2, SelectedByRowid DEF n
  <2>4. QED BY <1>5, <1>6, <1>7, <1>8, <2>3, AllInOrder DEF n
<1>9. ASSUME listing = "AdapterConversation",
             NEW i \in DOMAIN got, NEW j \in DOMAIN got,
             NEW k \in DOMAIN AdapterListAll, NEW l \in DOMAIN AdapterListAll,
             i < j, AdapterListAll[k] = got[i], AdapterListAll[l] = got[j]
      PROVE  l < k
  <2>1. \A x, y \in DOMAIN rows : Ahead(y, x) <=> Older(x, y)
    BY <1>9, KeysInOrder DEF Ahead
  <2>2. AdapterListAll = Select(Mine, Older, n) BY DEF AdapterListAll, n
  <2>3. PICK at : Selects(AdapterListAll, at, Mine, R, n)
    BY <1>5, <1>6, <1>7, <2>1, <2>2, SelectedByAge DEF n
  <2>4. QED BY <1>5, <1>6, <1>7, <1>9, <2>3, AllInOrder DEF n
<1>10. QED BY <1>2, <1>3, <1>4, <1>8, <1>9 DEF EveryRowOnce

\* A walk that came to its end was given every row that was there from its first page on,
\* none twice, none of others, in the order of the whole listing: for any tables, sizes
\* of a page and changes between two pages (listPage, listBySession, listOrgMembersPage).
THEOREM EveryRowOnceHolds == Spec => []EveryRowOnce
<1>1. Init => PagingInv BY PagingAtRest DEF Init, RestBut
<1>2. PagingInv /\ [Next]_partsVars => PagingInv'
  <2> SUFFICES ASSUME PagingInv, [Next]_partsVars PROVE PagingInv' OBVIOUS
  <2>1. CASE PagingNext BY <2>1, PagingStep
  <2>2. CASE UNCHANGED pagingVars
    <3>1. /\ rows' = rows /\ listing' = listing /\ limit' = limit /\ clock' = clock
          /\ inserted' = inserted /\ cursor' = cursor /\ got' = got /\ before' = before
          /\ walk' = walk
      BY <2>2 DEF pagingVars
    <3>2. /\ Mine' = Mine /\ \A i, j : Ahead(i, j)' <=> Ahead(i, j)
          /\ \A x : Has(x)' <=> Has(x) /\ \A i : Past(x, i)' <=> Past(x, i)
      BY <3>1, TableStays
    <3>3. PagingTypeOK' /\ RowsApart' BY <3>1 DEF PagingInv, PagingTypeOK, RowsApart
    <3>4. WalkInOrder' BY <3>1, <3>2 DEF PagingInv, WalkInOrder, Has
    <3>5. AllGiven' BY <3>1, <3>2 DEF PagingInv, AllGiven, Past
    <3>6. QED BY <3>3, <3>4, <3>5 DEF PagingInv
  <2>3. QED BY <2>1, <2>2 DEF Next, StillBut, partsVars
<1>3. QED BY <1>1, <1>2, PagingInvTells, PTL DEF Spec

-----------------------------------------------------------------------------
(* The commands of a sandbox. *)

\* The rank of a place among places.
Rank(where, i) == Cardinality({j \in where : j < i}) + 1

\* What is kept of a sequence: its elements at those places, in their order.
LEMMA KeepIs ==
  ASSUME NEW S, NEW s \in Seq(S), NEW where \in SUBSET DOMAIN s
  PROVE  /\ Keep(s, where) \in Seq(S) /\ Len(Keep(s, where)) = Cardinality(where)
         /\ IsFiniteSet(where) /\ Cardinality(where) \in Nat
         /\ \A i \in where : Rank(where, i) \in 1..Cardinality(where) /\ Keep(s, where)[Rank(where, i)] = s[i]
         /\ \A k \in 1..Cardinality(where) : \E i \in where : Rank(where, i) = k
         /\ \A i, j \in where : i < j <=> Rank(where, i) < Rank(where, j)
<1> DEFINE R == {p \in where \X where : p[1] < p[2]}
           n == Cardinality(where)
           ranks == [i \in where |-> Cardinality({j \in where : j < i}) + 1]
           t == Keep(s, where)
<1>1. DOMAIN s = 1..Len(s) /\ Len(s) \in Nat OBVIOUS
<1>2. IsFiniteSet(where)
  <2>1. IsFiniteSet(1..Len(s)) BY <1>1, FS_Interval
  <2>2. QED BY <1>1, <2>1, FS_Subset
<1>3. \A i, j \in where : <<i, j>> \in R <=> i < j OBVIOUS
<1>4. \A i \in where : i \in Int /\ s[i] \in S BY <1>1
<1> HIDE DEF R
<1>5. Ordering(R, where)
  <2>1. \A x, y, z \in where : x < y /\ y < z => x < z BY <1>4
  <2>2. \A x, y \in where : x = y \/ x < y \/ y < x BY <1>4
  <2>3. \A x \in where : ~(x < x) BY <1>4
  <2>4. QED BY <1>3, <2>1, <2>2, <2>3 DEF Ordering
<1>6. /\ Cardinality(where) \in Nat
      /\ \A i \in where : PlaceIn(where, R, i) \in 1..Cardinality(where)
      /\ \A i, j \in where : <<i, j>> \in R <=> PlaceIn(where, R, i) < PlaceIn(where, R, j)
      /\ \A k \in 1..Cardinality(where) : \E i \in where : PlaceIn(where, R, i) = k
  BY <1>2, <1>5, PlacesAre
<1>7. \A i \in where : PlaceIn(where, R, i) = Rank(where, i)
  <2>1. TAKE i \in where
  <2>2. {j \in where : <<j, i>> \in R} = {j \in where : j < i} BY <1>3
  <2>3. QED BY <2>2 DEF PlaceIn, Rank
<1>8. /\ n \in Nat /\ \A i \in where : Rank(where, i) \in 1..n
      /\ \A i, j \in where : i < j <=> Rank(where, i) < Rank(where, j)
      /\ \A k \in 1..n : \E i \in where : Rank(where, i) = k
  <2> HIDE DEF n
  <2>1. n \in Nat /\ \A i \in where : Rank(where, i) \in 1..n BY <1>6, <1>7 DEF n
  <2>2. \A i, j \in where : i < j <=> Rank(where, i) < Rank(where, j)
    <3>1. TAKE i, j \in where
    <3>2. <<i, j>> \in R <=> i < j BY <1>3
    <3>3. <<i, j>> \in R <=> PlaceIn(where, R, i) < PlaceIn(where, R, j) BY <1>6
    <3>4. PlaceIn(where, R, i) = Rank(where, i) /\ PlaceIn(where, R, j) = Rank(where, j) BY <1>7
    <3>5. QED BY <3>2, <3>3, <3>4
  <2>3. \A k \in 1..n : \E i \in where : Rank(where, i) = k BY <1>6, <1>7 DEF n
  <2>4. QED BY <2>1, <2>2, <2>3
<1>9. DOMAIN ranks = where /\ (\A i \in where : ranks[i] = Rank(where, i)) /\ Range(ranks) = 1..n
  <2>1. DOMAIN ranks = where /\ \A i \in where : ranks[i] = Rank(where, i) BY DEF Rank
  <2> HIDE DEF ranks, n
  <2>2. Range(ranks) = 1..n BY <1>8, <2>1 DEF Range
  <2>3. QED BY <2>1, <2>2
<1>10. t = [k \in 1..n |-> s[AntiFunction(ranks)[k]]] BY DEF Keep
<1> HIDE DEF ranks, n, t
<1>11. \A k \in 1..n : AntiFunction(ranks)[k] \in where /\ Rank(where, AntiFunction(ranks)[k]) = k
  <2>1. TAKE k \in 1..n
  <2>2. PICK i \in where : Rank(where, i) = k BY <1>8
  <2> DEFINE x == AntiFunction(ranks)[k]
  <2>3. k \in Range(ranks) /\ ranks[i] = k BY <1>9, <2>2
  <2>4. x = CHOOSE y \in DOMAIN ranks : k \in Range(ranks) => ranks[y] = k
    BY <2>3 DEF AntiFunction, Inverse
  <2> HIDE DEF x
  <2>5. \E y \in DOMAIN ranks : k \in Range(ranks) => ranks[y] = k BY <1>9, <2>2
  <2>6. x \in DOMAIN ranks /\ (k \in Range(ranks) => ranks[x] = k) BY <2>4, <2>5
  <2>7. x \in where /\ Rank(where, x) = k BY <1>9, <2>3, <2>6
  <2>8. QED BY <2>7 DEF x
<1>12. ASSUME NEW i \in where, NEW j \in where, Rank(where, i) = Rank(where, j) PROVE i = j
  <2>1. Rank(where, i) \in Int BY <1>8
  <2>2. ~(i < j) /\ ~(j < i) BY <1>8, <1>12, <2>1
  <2>3. QED BY <1>4, <2>2
<1>13. t \in Seq(S) /\ Len(t) = n
  <2>1. \A k \in 1..n : s[AntiFunction(ranks)[k]] \in S BY <1>4, <1>11
  <2>2. t \in [1..n -> S] BY <1>10, <2>1
  <2>3. t \in Seq(S) BY <1>8, <2>2, SeqDef
  <2>4. DOMAIN t = 1..n /\ DOMAIN t = 1..Len(t) /\ Len(t) \in Nat BY <2>2, <2>3
  <2>5. QED BY <1>8, <2>3, <2>4
<1>14. \A i \in where : t[Rank(where, i)] = s[i] BY <1>8, <1>10, <1>11, <1>12
<1>15. QED BY <1>2, <1>8, <1>13, <1>14 DEF n, t

\* The places the kept elements were at.
Kept(t, s, where, at) ==
  /\ at \in [1..Len(t) -> where]
  /\ \A k \in 1..Len(t) : t[k] = s[at[k]]
  /\ \A k, l \in 1..Len(t) : k < l => at[k] < at[l]
  /\ \A i \in where : \E k \in 1..Len(t) : at[k] = i

\* What is kept is found where it was, in the same order, and nothing else is lost.
LEMMA KeepAt ==
  ASSUME NEW S, NEW s \in Seq(S), NEW where \in SUBSET DOMAIN s
  PROVE  Keep(s, where) \in Seq(S) /\ \E at : Kept(Keep(s, where), s, where, at)
<1> DEFINE t == Keep(s, where)
           n == Cardinality(where)
           at == [k \in 1..n |-> CHOOSE i \in where : Rank(where, i) = k]
<1>1. /\ t \in Seq(S) /\ Len(t) = n /\ n \in Nat
      /\ \A i \in where : Rank(where, i) \in 1..n /\ t[Rank(where, i)] = s[i]
      /\ \A k \in 1..n : \E i \in where : Rank(where, i) = k
      /\ \A i, j \in where : i < j <=> Rank(where, i) < Rank(where, j)
  BY KeepIs
<1> HIDE DEF t, n
<1>2. \A i, j \in where : Rank(where, i) = Rank(where, j) => i = j
  <2>1. \A i \in where : i \in Int /\ Rank(where, i) \in Int BY <1>1
  <2>2. TAKE i, j \in where
  <2>3. HAVE Rank(where, i) = Rank(where, j)
  <2>4. ~(i < j) /\ ~(j < i) BY <1>1, <2>1, <2>3
  <2>5. QED BY <2>1, <2>4
<1>3. \A k \in 1..n : at[k] \in where /\ Rank(where, at[k]) = k
  <2>1. \A k \in 1..n : at[k] = CHOOSE i \in where : Rank(where, i) = k OBVIOUS
  <2> HIDE DEF at
  <2>2. QED BY <1>1, <2>1
<1>4. at \in [1..n -> where]
  <2>1. at = [k \in 1..n |-> at[k]] OBVIOUS
  <2> HIDE DEF at
  <2>2. QED BY <1>3, <2>1
<1> HIDE DEF at
<1>5. \A k \in 1..n : t[k] = s[at[k]] BY <1>1, <1>3
<1>6. \A k, l \in 1..n : k < l => at[k] < at[l] BY <1>1, <1>3
<1>7. \A i \in where : \E k \in 1..n : at[k] = i BY <1>1, <1>2, <1>3
<1>8. Kept(t, s, where, at) BY <1>1, <1>4, <1>5, <1>6, <1>7 DEF Kept
<1>9. QED BY <1>1, <1>8 DEF t

\* A sequence that begins as another, and a sequence taken from one.
LEMMA PrefixIs ==
  ASSUME NEW S, NEW s \in Seq(S), NEW t \in Seq(S), Len(t) <= Len(s),
         \A k \in 1..Len(t) : t[k] = s[k]
  PROVE  IsPrefix(t, s)
<1> DEFINE a == SubSeq(t, 1, Len(t))
           b == SubSeq(s, 1, Len(t))
<1>1. a \in Seq(S) /\ Len(a) = Len(t) /\ \A k \in 1..Len(t) : a[k] = t[k] OBVIOUS
<1>2. b \in Seq(S) /\ Len(b) = Len(t) /\ \A k \in 1..Len(t) : b[k] = s[k] OBVIOUS
<1> HIDE DEF a, b
<1>3. a = b BY <1>1, <1>2, SeqEqual
<1>4. QED BY <1>3 DEF IsPrefix, a, b

\* What is written; the provers do not know the members of STRING by name.
Glyphs == STRING \cup Digits \cup {Sentinel1, Sentinel2, Colon, NewLine}
Pieces == {"stdout", "stderr"} \X Glyphs

\* The symbols of a sequence of writes.
LEMMA SymbolsAre ==
  ASSUME NEW s \in Seq(Pieces)
  PROVE  /\ SymbolsOf(s) \in Seq(Glyphs) /\ Len(SymbolsOf(s)) = Len(s)
         /\ \A i \in 1..Len(s) : SymbolsOf(s)[i] = s[i][2]
<1> DEFINE u == SymbolsOf(s)
           n == Len(s)
<1>1. n \in Nat /\ DOMAIN s = 1..n /\ \A i \in 1..n : s[i] \in Pieces OBVIOUS
<1> HIDE DEF n
<1>2. \A i \in 1..n : s[i][2] \in Glyphs
  <2>1. \A x \in Pieces : x[2] \in Glyphs BY DEF Pieces
  <2>2. QED BY <1>1, <2>1
<1>3. u = [i \in 1..n |-> s[i][2]] BY <1>1 DEF SymbolsOf
<1> HIDE DEF u
<1>4. u \in [1..n -> Glyphs] BY <1>2, <1>3
<1>5. u \in Seq(Glyphs) BY <1>1, <1>4, SeqDef
<1>6. DOMAIN u = 1..n /\ DOMAIN u = 1..Len(u) /\ Len(u) \in Nat BY <1>4, <1>5
<1>7. Len(u) = n BY <1>1, <1>6
<1>8. QED BY <1>3, <1>5, <1>7 DEF u, n

\* Of the first writes, a stream holds what it begins with of them all.
LEMMA StreamsBegin ==
  ASSUME NEW w \in Seq(Pieces), NEW p \in 0..Len(w), NEW src
  PROVE  IsPrefix(OfStream(SubSeq(w, 1, p), src), OfStream(w, src))
<1> DEFINE v == SubSeq(w, 1, p)
           own == {i \in DOMAIN w : w[i][1] = src}
           first == {i \in DOMAIN v : v[i][1] = src}
           s == Keep(w, own)
           t == Keep(v, first)
<1>1. Len(w) \in Nat /\ DOMAIN w = 1..Len(w) OBVIOUS
<1>2. v \in Seq(Pieces) /\ Len(v) = p /\ DOMAIN v = 1..p /\ \A i \in 1..p : v[i] = w[i]
  OBVIOUS
<1>3. own \in SUBSET DOMAIN w /\ first \in SUBSET DOMAIN v OBVIOUS
<1> HIDE DEF v
<1>4. \A i \in first : i \in own /\ i \in 1..p BY <1>1, <1>2
<1>5. \A i \in own : i \in 1..p => i \in first BY <1>1, <1>2
<1> HIDE DEF own, first
<1>6. /\ s \in Seq(Pieces) /\ Len(s) = Cardinality(own)
      /\ IsFiniteSet(own) /\ Cardinality(own) \in Nat
      /\ \A i \in own : Rank(own, i) \in 1..Cardinality(own) /\ s[Rank(own, i)] = w[i]
  BY <1>3, KeepIs
<1>7. /\ t \in Seq(Pieces) /\ Len(t) = Cardinality(first)
      /\ \A i \in first : Rank(first, i) \in 1..Cardinality(first) /\ t[Rank(first, i)] = v[i]
      /\ \A k \in 1..Cardinality(first) : \E i \in first : Rank(first, i) = k
  BY <1>2, <1>3, KeepIs
<1> HIDE DEF s, t
<1>8. Cardinality(first) <= Cardinality(own)
  <2>1. first \in SUBSET own BY <1>4
  <2>2. QED BY <1>6, <2>1, FS_Subset
<1>9. \A i \in first : Rank(first, i) = Rank(own, i)
  <2>1. TAKE i \in first
  <2>2. \A j \in own : j < i => j \in first
    <3>1. TAKE j \in own
    <3>2. HAVE j < i
    <3>3. j \in 1..p BY <1>1, <1>3, <1>4, <3>2
    <3>4. QED BY <1>5, <3>3
  <2>3. {j \in first : j < i} = {j \in own : j < i} BY <1>4, <2>2
  <2>4. QED BY <2>3 DEF Rank
<1>10. /\ OfStream(w, src) = SymbolsOf(s) /\ OfStream(v, src) = SymbolsOf(t)
  BY DEF OfStream, s, t, own, first
<1>11. \A k \in 1..Len(t) : t[k] = s[k]
  <2>1. TAKE k \in 1..Len(t)
  <2>2. PICK i \in first : Rank(first, i) = k BY <1>7
  <2>3. t[k] = v[i] /\ s[k] = w[i] BY <1>4, <1>6, <1>7, <1>9, <2>2
  <2>4. QED BY <1>2, <1>4, <2>2, <2>3
<1> DEFINE x == SymbolsOf(s)   y == SymbolsOf(t)
<1>12. x \in Seq(Glyphs) /\ Len(x) = Len(s) /\ \A i \in 1..Len(s) : x[i] = s[i][2]
  BY <1>6, SymbolsAre
<1>13. y \in Seq(Glyphs) /\ Len(y) = Len(t) /\ \A i \in 1..Len(t) : y[i] = t[i][2]
  BY <1>7, SymbolsAre
<1> HIDE DEF x, y
<1>14. Len(y) <= Len(x) BY <1>6, <1>7, <1>8, <1>12, <1>13
<1>15. \A k \in 1..Len(y) : y[k] = x[k]
  <2>1. \A k \in 1..Len(t) : k \in 1..Len(s) BY <1>6, <1>7, <1>8
  <2>2. QED BY <1>11, <1>12, <1>13, <2>1
<1>16. IsPrefix(y, x) BY <1>12, <1>13, <1>14, <1>15, PrefixIs
<1>17. QED BY <1>10, <1>16 DEF v, x, y

\* A part of a sequence, and what is left of it once its first elements are taken.
LEMMA PartOf ==
  ASSUME NEW S, NEW s \in Seq(S), NEW p \in 0..Len(s), NEW q \in p..Len(s)
  PROVE  /\ SubSeq(s, p + 1, q) \in Seq(S) /\ Len(SubSeq(s, p + 1, q)) = q - p
         /\ \A i \in 1..q - p : SubSeq(s, p + 1, q)[i] = s[p + i]
OBVIOUS

\* Two sequences, one after the other.
LEMMA Joined ==
  ASSUME NEW S, NEW s \in Seq(S), NEW t \in Seq(S)
  PROVE  /\ s \o t \in Seq(S) /\ Len(s \o t) = Len(s) + Len(t)
         /\ \A i \in 1..Len(s) : (s \o t)[i] = s[i]
         /\ \A i \in 1..Len(t) : (s \o t)[Len(s) + i] = t[i]
OBVIOUS

\* What was taken of a part and what is left of it are parts of the whole.
LEMMA PartTaken ==
  ASSUME NEW S, NEW s \in Seq(S), NEW p \in 0..Len(s), NEW q \in p..Len(s), NEW n \in 0..q - p
  PROVE  /\ SubSeq(SubSeq(s, p + 1, q), 1, n) = SubSeq(s, p + 1, p + n)
         /\ SubSeq(SubSeq(s, p + 1, q), n + 1, q - p) = SubSeq(s, p + n + 1, q)
         /\ SubSeq(s, 1, p) \o SubSeq(s, p + 1, p + n) = SubSeq(s, 1, p + n)
<1> DEFINE l == SubSeq(s, p + 1, q)
           a == SubSeq(l, 1, n)
           b == SubSeq(l, n + 1, q - p)
           c == SubSeq(s, p + 1, p + n)
           d == SubSeq(s, p + n + 1, q)
           f == SubSeq(s, 1, p)
           g == SubSeq(s, 1, p + n)
           h == f \o c
<1>1. /\ Len(s) \in Nat /\ p \in Nat /\ q \in Nat /\ n \in Nat /\ p + n \in 0..Len(s)
      /\ p <= q /\ q <= Len(s) /\ p + n <= q /\ q \in p + n..Len(s) /\ p + n \in p..Len(s)
      /\ p \in 0..Len(s) /\ 0 \in 0..Len(s) /\ p \in 0..Len(s) /\ p + n \in 0..Len(s)
  OBVIOUS
<1>2. l \in Seq(S) /\ Len(l) = q - p /\ \A i \in 1..q - p : l[i] = s[p + i] BY PartOf
<1>3. c \in Seq(S) /\ Len(c) = n /\ \A i \in 1..n : c[i] = s[p + i]
  <2>1. (p + n) - p = n BY <1>1
  <2>2. QED BY <1>1, <2>1, PartOf
<1>4. d \in Seq(S) /\ Len(d) = q - (p + n) /\ \A i \in 1..q - (p + n) : d[i] = s[(p + n) + i]
  BY <1>1, PartOf
<1>5. f \in Seq(S) /\ Len(f) = p /\ \A i \in 1..p : f[i] = s[i] BY <1>1
<1>6. g \in Seq(S) /\ Len(g) = p + n /\ \A i \in 1..p + n : g[i] = s[i] BY <1>1
<1> HIDE DEF l, c, d, f, g
<1>7. a \in Seq(S) /\ Len(a) = n /\ \A i \in 1..n : a[i] = l[i] BY <1>1, <1>2
<1>8. b \in Seq(S) /\ Len(b) = (q - p) - n /\ \A i \in 1..(q - p) - n : b[i] = l[n + i]
  <2>1. Len(l) \in Nat /\ n \in 0..Len(l) /\ q - p \in n..Len(l) BY <1>1, <1>2
  <2>2. QED BY <1>2, <2>1, PartOf
<1>9. h \in Seq(S) /\ Len(h) = p + n /\ (\A i \in 1..p : h[i] = f[i]) /\ \A i \in 1..n : h[p + i] = c[i]
  <2>1. f \in Seq(S) /\ c \in Seq(S) BY <1>3, <1>5
  <2>2. /\ h \in Seq(S) /\ Len(h) = Len(f) + Len(c)
        /\ \A i \in 1..Len(f) : h[i] = f[i]
        /\ \A i \in 1..Len(c) : h[Len(f) + i] = c[i]
    BY <2>1, Joined
  <2>3. Len(f) = p /\ Len(c) = n BY <1>3, <1>5
  <2> HIDE DEF h
  <2>4. QED BY <2>2, <2>3
<1> HIDE DEF a, b, h
<1>10. a = c
  <2>1. \A i \in 1..n : i \in 1..q - p BY <1>1
  <2>2. QED BY <1>2, <1>3, <1>7, <2>1, SeqEqual
<1>11. b = d
  <2>1. (q - p) - n = q - (p + n) BY <1>1
  <2>2. \A i \in 1..(q - p) - n : n + i \in 1..q - p /\ p + (n + i) = (p + n) + i BY <1>1
  <2>3. \A i \in 1..(q - p) - n : b[i] = d[i] BY <1>2, <1>4, <1>8, <2>1, <2>2
  <2>4. QED BY <1>4, <1>8, <2>1, <2>3, SeqEqual
<1>12. h = g
  <2>1. ASSUME NEW i \in 1..p + n PROVE h[i] = g[i]
    <3>1. CASE i <= p
      <4>1. i \in 1..p BY <1>1, <3>1
      <4>2. h[i] = f[i] /\ f[i] = s[i] BY <1>5, <1>9, <4>1
      <4>3. QED BY <1>6, <4>2
    <3>2. CASE i > p
      <4>1. i - p \in 1..n /\ p + (i - p) = i BY <1>1, <3>2
      <4>2. h[p + (i - p)] = c[i - p] /\ c[i - p] = s[p + (i - p)] BY <1>3, <1>9, <4>1
      <4>3. QED BY <1>6, <4>1, <4>2
    <3>3. QED BY <1>1, <3>1, <3>2
  <2>2. QED BY <1>6, <1>9, <2>1, SeqEqual
<1>13. QED BY <1>10, <1>11, <1>12 DEF a, b, c, d, f, g, h, l

\* The lines of a command, and its exit line after them.
LEMMA PartAppended ==
  ASSUME NEW S, NEW s \in Seq(S), NEW x \in Seq(S), NEW p \in 0..Len(s)
  PROVE  /\ SubSeq(s, p + 1, Len(s)) \o x = SubSeq(s \o x, p + 1, Len(s \o x))
         /\ \A q \in p..Len(s) : SubSeq(s \o x, p + 1, q) = SubSeq(s, p + 1, q)
<1> DEFINE f == s \o x
           m == Len(s)   n == Len(x)
           a == SubSeq(s, p + 1, m)
           b == a \o x
           c == SubSeq(f, p + 1, m + n)
<1>1. f \in Seq(S) /\ Len(f) = m + n /\ (\A i \in 1..m : f[i] = s[i]) /\ \A i \in 1..n : f[m + i] = x[i]
  BY Joined
<1>2. m \in Nat /\ n \in Nat /\ p \in Nat /\ p <= m OBVIOUS
<1>3. a \in Seq(S) /\ Len(a) = m - p /\ \A i \in 1..m - p : a[i] = s[p + i]
  BY <1>2, PartOf
<1> HIDE DEF f, a
<1>4. b \in Seq(S) /\ Len(b) = (m - p) + n /\ (\A i \in 1..m - p : b[i] = a[i])
      /\ \A i \in 1..n : b[(m - p) + i] = x[i]
  <2>1. a \in Seq(S) BY <1>3
  <2>2. /\ b \in Seq(S) /\ Len(b) = Len(a) + Len(x)
        /\ \A i \in 1..Len(a) : b[i] = a[i]
        /\ \A i \in 1..Len(x) : b[Len(a) + i] = x[i]
    BY <2>1, Joined
  <2>3. Len(a) = m - p BY <1>3
  <2> HIDE DEF b
  <2>4. QED BY <2>2, <2>3
<1>5. c \in Seq(S) /\ Len(c) = (m + n) - p /\ \A i \in 1..(m + n) - p : c[i] = f[p + i]
  <2>1. p \in 0..Len(f) /\ m + n \in p..Len(f) BY <1>1, <1>2
  <2>2. QED BY <1>1, <2>1, PartOf
<1> HIDE DEF b, c, m, n
<1>6. ASSUME NEW i \in 1..(m + n) - p PROVE b[i] = c[i]
  <2>1. CASE i <= m - p
    <3>1. i \in 1..m - p /\ p + i \in 1..m BY <1>2, <2>1
    <3>2. QED BY <1>1, <1>3, <1>4, <1>5, <3>1
  <2>2. CASE i > m - p
    <3>1. i - (m - p) \in 1..n /\ (m - p) + (i - (m - p)) = i /\ m + (i - (m - p)) = p + i
      BY <1>2, <2>2
    <3>2. b[(m - p) + (i - (m - p))] = x[i - (m - p)] BY <1>4, <3>1
    <3>3. f[m + (i - (m - p))] = x[i - (m - p)] BY <1>1, <3>1
    <3>4. c[i] = f[p + i] BY <1>5
    <3>5. QED BY <3>1, <3>2, <3>3, <3>4
  <2>3. QED BY <1>2, <2>1, <2>2
<1>7. b = c
  <2>1. (m - p) + n = (m + n) - p BY <1>2
  <2>2. QED BY <1>4, <1>5, <1>6, <2>1, SeqEqual
<1>8. ASSUME NEW q \in p..m PROVE SubSeq(f, p + 1, q) = SubSeq(s, p + 1, q)
  <2> DEFINE u == SubSeq(f, p + 1, q)   v == SubSeq(s, p + 1, q)
  <2>1. p \in 0..Len(f) /\ q \in p..Len(f) /\ p \in 0..Len(s) /\ q \in p..Len(s) BY <1>1, <1>2 DEF m
  <2>2. u \in Seq(S) /\ Len(u) = q - p /\ \A i \in 1..q - p : u[i] = f[p + i] BY <1>1, <2>1, PartOf
  <2>3. v \in Seq(S) /\ Len(v) = q - p /\ \A i \in 1..q - p : v[i] = s[p + i] BY <2>1, PartOf
  <2>4. \A i \in 1..q - p : p + i \in 1..m BY <1>2
  <2> HIDE DEF u, v
  <2>5. u = v BY <1>1, <2>2, <2>3, <2>4, SeqEqual
  <2>6. QED BY <2>5 DEF u, v
<1>9. QED BY <1>1, <1>7, <1>8 DEF f, a, b, c, m

\* No end is before it began; a sequence that is all of another.
LEMMA AllOf ==
  ASSUME NEW S, NEW s \in Seq(S)
  PROVE  SubSeq(s, 1, Len(s)) = s /\ SubSeq(s, 1, 0) = <<>>
<1> DEFINE a == SubSeq(s, 1, Len(s))
           b == SubSeq(s, 1, 0)
<1>1. a \in Seq(S) /\ Len(a) = Len(s) /\ \A i \in 1..Len(s) : a[i] = s[i] OBVIOUS
<1>2. b \in Seq(S) /\ Len(b) = 0 OBVIOUS
<1> HIDE DEF a, b
<1>3. a = s BY <1>1, SeqEqual
<1>4. b = <<>> BY <1>2
<1>5. QED BY <1>3, <1>4 DEF a, b

\* The line with the exit code of a command.
LEMMA ExitLineIs ==
  ASSUME NEW code \in Seq(Digits)
  PROVE  /\ ExitLine(code) \in Seq(Pieces) /\ Len(ExitLine(code)) = Len(code) + 4
         /\ ExitLine(code)[1][2] = Sentinel1 /\ ExitLine(code)[2][2] = Sentinel2
         /\ ExitLine(code)[3][2] = Colon /\ ExitLine(code)[Len(code) + 4][2] = NewLine
         /\ \A k \in 1..Len(code) : ExitLine(code)[3 + k][2] = code[k]
<1> DEFINE x == ExitLine(code)
           n == Len(code)
           h == <<Sentinel1, Sentinel2, Colon>>
           g == h \o code
           y == g \o <<NewLine>>
<1>1. /\ h \in Seq(Glyphs) /\ Len(h) = 3 /\ h[1] = Sentinel1 /\ h[2] = Sentinel2 /\ h[3] = Colon
      /\ <<NewLine>> \in Seq(Glyphs) /\ Len(<<NewLine>>) = 1 /\ <<NewLine>>[1] = NewLine
  <2>1. Sentinel1 \in Glyphs /\ Sentinel2 \in Glyphs /\ Colon \in Glyphs /\ NewLine \in Glyphs
    BY DEF Glyphs
  <2>2. QED BY <2>1
<1>2. code \in Seq(Glyphs) /\ n \in Nat
  <2>1. Digits \subseteq Glyphs BY DEF Glyphs
  <2>2. QED BY <2>1
<1> HIDE DEF h, n
<1>3. g \in Seq(Glyphs) /\ Len(g) = 3 + Len(code) /\ (\A i \in 1..3 : g[i] = h[i])
      /\ \A i \in 1..Len(code) : g[3 + i] = code[i]
  <2>1. h \in Seq(Glyphs) /\ code \in Seq(Glyphs) BY <1>1, <1>2
  <2>2. /\ g \in Seq(Glyphs) /\ Len(g) = Len(h) + Len(code)
        /\ \A i \in 1..Len(h) : g[i] = h[i]
        /\ \A i \in 1..Len(code) : g[Len(h) + i] = code[i]
    BY <2>1, Joined
  <2>3. Len(h) = 3 BY <1>1
  <2> HIDE DEF g
  <2>4. QED BY <2>2, <2>3
<1> HIDE DEF g
<1>4. y \in Seq(Glyphs) /\ Len(y) = Len(g) + 1 /\ (\A i \in 1..Len(g) : y[i] = g[i])
      /\ \A i \in 1..1 : y[Len(g) + i] = <<NewLine>>[i]
  BY <1>1, <1>3, Joined
<1> HIDE DEF y
<1>5. /\ Len(y) = n + 4 /\ y[1] = Sentinel1 /\ y[2] = Sentinel2 /\ y[3] = Colon /\ y[n + 4] = NewLine
      /\ \A k \in 1..n : y[3 + k] = code[k]
  <2>1. Len(g) = n + 3 /\ Len(y) = n + 4 BY <1>2, <1>3, <1>4 DEF n
  <2>2. \A i \in 1..3 : i \in 1..Len(g) BY <1>2, <2>1
  <2>3. y[1] = h[1] /\ y[2] = h[2] /\ y[3] = h[3] BY <1>3, <1>4, <2>2
  <2>4. y[(n + 3) + 1] = NewLine BY <1>1, <1>4, <2>1
  <2>5. (n + 3) + 1 = n + 4 BY <1>2
  <2>6. \A k \in 1..n : 3 + k \in 1..Len(g) BY <1>2, <2>1
  <2>7. \A k \in 1..n : y[3 + k] = code[k] BY <1>3, <1>4, <2>6 DEF n
  <2>8. QED BY <1>1, <2>1, <2>3, <2>4, <2>5, <2>7
<1>6. x = [i \in 1..n + 4 |-> <<"stdout", y[i]>>] BY DEF ExitLine, y, g, h, n
<1> HIDE DEF x
<1>7. \A i \in 1..n + 4 : <<"stdout", y[i]>> \in Pieces
  <2>1. \A i \in 1..n + 4 : y[i] \in Glyphs BY <1>2, <1>4, <1>5
  <2>2. QED BY <2>1 DEF Pieces
<1>8. x \in [1..n + 4 -> Pieces] BY <1>6, <1>7
<1>9. n + 4 \in Nat BY <1>2
<1>10. x \in Seq(Pieces) BY <1>8, <1>9, SeqDef
<1>11. DOMAIN x = 1..n + 4 /\ DOMAIN x = 1..Len(x) /\ Len(x) \in Nat BY <1>8, <1>10
<1>12. Len(x) = n + 4 BY <1>9, <1>11
<1>13. \A i \in 1..n + 4 : x[i][2] = y[i] BY <1>6
<1>14. 1 \in 1..n + 4 /\ 2 \in 1..n + 4 /\ 3 \in 1..n + 4 /\ n + 4 \in 1..n + 4
       /\ \A k \in 1..n : 3 + k \in 1..n + 4
  BY <1>2
<1>15. QED BY <1>5, <1>10, <1>12, <1>13, <1>14 DEF n, x

\* What is assumed of a command.
Commanded(c) ==
  /\ c.writes \in Seq(Pieces)
  /\ c.code \in Seq(Digits) /\ c.code # <<>>
  /\ c.appends \in BOOLEAN

\* All a command writes to its caller's connection, its exit line included.
Whole(w, c) == IF w = "cloud" /\ c.appends THEN c.writes \o ExitLine(c.code) ELSE c.writes

\* Its symbols.
WholeOf(w, c, f, m, n) ==
  /\ f \in Seq(Pieces) /\ m \in Nat /\ n \in Nat \ {0} /\ m <= Len(f)
  /\ c.writes \in Seq(Pieces) /\ \A i \in 1..m : f[i] = c.writes[i]
  /\ w = "local" => f = c.writes
  /\ w = "cloud" /\ c.appends =>
       /\ Len(f) = m + n + 4
       /\ f[m + 1][2] = Sentinel1 /\ f[m + 2][2] = Sentinel2
       /\ f[m + 3][2] = Colon /\ f[m + n + 4][2] = NewLine
       /\ \A k \in 1..n : f[m + 3 + k][2] = c.code[k]
  /\ ~(w = "cloud" /\ c.appends) => Len(f) = m /\ f = c.writes

\* What a command writes, with the exit line of the cloud's wrapper where it has one.
LEMMA WholeIs ==
  ASSUME NEW w, NEW c, Commanded(c)
  PROVE  WholeOf(w, c, Whole(w, c), Len(c.writes), Len(c.code))
<1> DEFINE f == Whole(w, c)
           m == Len(c.writes)   n == Len(c.code)
           x == ExitLine(c.code)
<1>1. c.writes \in Seq(Pieces) /\ c.code \in Seq(Digits) /\ c.code # <<>> BY DEF Commanded
<1>2. m \in Nat /\ n \in Nat \ {0} BY <1>1
<1>3. CASE w = "cloud" /\ c.appends
  <2>1. /\ x \in Seq(Pieces) /\ Len(x) = n + 4
        /\ x[1][2] = Sentinel1 /\ x[2][2] = Sentinel2 /\ x[3][2] = Colon /\ x[n + 4][2] = NewLine
        /\ \A k \in 1..n : x[3 + k][2] = c.code[k]
    BY <1>1, ExitLineIs
  <2>2. f = c.writes \o x BY <1>3 DEF Whole
  <2> HIDE DEF x, f
  <2>3. /\ f \in Seq(Pieces) /\ Len(f) = m + Len(x)
        /\ \A i \in 1..m : f[i] = c.writes[i]
        /\ \A i \in 1..Len(x) : f[m + i] = x[i]
    <3>1. c.writes \in Seq(Pieces) /\ x \in Seq(Pieces) BY <1>1, <2>1
    <3> DEFINE y == c.writes
    <3> HIDE DEF y
    <3>2. y \in Seq(Pieces) /\ f = y \o x BY <2>2, <3>1 DEF y
    <3>3. /\ f \in Seq(Pieces) /\ Len(f) = Len(y) + Len(x)
          /\ \A i \in 1..Len(y) : f[i] = y[i]
          /\ \A i \in 1..Len(x) : f[Len(y) + i] = x[i]
      BY <3>1, <3>2, Joined
    <3>4. QED BY <3>3 DEF y
  <2> HIDE DEF m, n
  <2>4. 1 \in 1..Len(x) /\ 2 \in 1..Len(x) /\ 3 \in 1..Len(x) /\ n + 4 \in 1..Len(x)
        /\ \A k \in 1..n : 3 + k \in 1..Len(x)
    BY <1>2, <2>1
  <2>5. f[m + 1] = x[1] /\ f[m + 2] = x[2] /\ f[m + 3] = x[3] /\ f[m + (n + 4)] = x[n + 4]
        /\ \A k \in 1..n : f[m + (3 + k)] = x[3 + k]
    BY <2>3, <2>4
  <2>6. m + (n + 4) = m + n + 4 /\ \A k \in 1..n : m + (3 + k) = m + 3 + k BY <1>2
  <2>7. Len(f) = m + n + 4 /\ m <= Len(f) BY <1>2, <2>1, <2>3
  <2>8. WholeOf(w, c, f, m, n) BY <1>1, <1>2, <1>3, <2>1, <2>3, <2>5, <2>6, <2>7 DEF WholeOf
  <2>9. QED BY <2>8 DEF f, m, n
<1>4. CASE ~(w = "cloud" /\ c.appends)
  <2>1. f = c.writes BY <1>4 DEF Whole
  <2> HIDE DEF f
  <2>2. /\ f \in Seq(Pieces) /\ m \in Nat /\ n \in Nat \ {0} /\ m <= Len(f) /\ Len(f) = m
        /\ c.writes \in Seq(Pieces) /\ \A i \in 1..m : f[i] = c.writes[i]
    BY <1>1, <1>2, <2>1
  <2> HIDE DEF m, n
  <2>3. WholeOf(w, c, f, m, n) BY <1>4, <2>1, <2>2 DEF WholeOf
  <2>4. QED BY <2>3 DEF f, m, n
<1>5. QED BY <1>3, <1>4

\* The halves of an escape sequence; what was read of the first p writes, and where it was.
Escapes == {Escape1, Escape2}
Stripped(t, f, p, at) ==
  /\ at \in [1..Len(t) -> 1..p]
  /\ \A k \in 1..Len(t) : t[k] = f[at[k]]
  /\ \A k, l \in 1..Len(t) : k < l => at[k] < at[l]
  /\ \A i \in 1..p : f[i][2] \notin Escapes => \E k \in 1..Len(t) : at[k] = i

\* stripAnsi leaves all but escapes, in the order it was written.
LEMMA StripsEscapes ==
  ASSUME NEW f \in Seq(Pieces)
  PROVE  stripAnsi(f) \in Seq(Pieces) /\ \E at : Stripped(stripAnsi(f), f, Len(f), at)
<1> DEFINE escapes == {i \in 1..Len(f) - 1 : f[i][2] = Escape1 /\ f[i + 1][2] = Escape2}
           where == {i \in DOMAIN f : i \notin escapes /\ i - 1 \notin escapes}
           t == Keep(f, where)
<1>1. DOMAIN f = 1..Len(f) /\ Len(f) \in Nat OBVIOUS
<1>2. \A i \in 1..Len(f) : f[i][2] \notin Escapes => i \in where
  <2>1. TAKE i \in 1..Len(f)
  <2>2. HAVE f[i][2] \notin Escapes
  <2>3. i \notin escapes BY <2>2 DEF Escapes
  <2>4. i - 1 \notin escapes
    <3>1. SUFFICES ASSUME i - 1 \in escapes PROVE FALSE OBVIOUS
    <3>2. f[(i - 1) + 1][2] = Escape2 BY <3>1
    <3>3. (i - 1) + 1 = i OBVIOUS
    <3>4. QED BY <2>2, <3>2, <3>3 DEF Escapes
  <2>5. QED BY <1>1, <2>3, <2>4
<1>3. stripAnsi(f) = t BY DEF stripAnsi
<1>4. where \in SUBSET DOMAIN f OBVIOUS
<1> HIDE DEF where, t
<1>5. t \in Seq(Pieces) /\ \E at : Kept(t, f, where, at) BY <1>4, KeepAt DEF t
<1>6. PICK at : Kept(t, f, where, at) BY <1>5
<1>7. /\ at \in [1..Len(t) -> where]
      /\ \A k \in 1..Len(t) : t[k] = f[at[k]]
      /\ \A k, l \in 1..Len(t) : k < l => at[k] < at[l]
      /\ \A i \in where : \E k \in 1..Len(t) : at[k] = i
  BY <1>6 DEF Kept
<1>8. at \in [1..Len(t) -> 1..Len(f)] BY <1>1, <1>4, <1>7
<1>9. \A i \in 1..Len(f) : f[i][2] \notin Escapes => \E k \in 1..Len(t) : at[k] = i BY <1>2, <1>7
<1>10. Stripped(t, f, Len(f), at) BY <1>7, <1>8, <1>9 DEF Stripped
<1>11. QED BY <1>3, <1>5, <1>10

\* A frame that is read, stripped, goes on where the last one ended.
LEMMA StrippedOn ==
  ASSUME NEW f \in Seq(Pieces), NEW p \in 0..Len(f), NEW n \in 0..Len(f) - p,
         NEW t \in Seq(Pieces), NEW at, Stripped(t, f, p, at)
  PROVE  LET u == stripAnsi(SubSeq(f, p + 1, p + n)) IN
         t \o u \in Seq(Pieces) /\ \E at2 : Stripped(t \o u, f, p + n, at2)
<1> DEFINE g == SubSeq(f, p + 1, p + n)
           u == stripAnsi(g)
           v == t \o u
           a == Len(t)   b == Len(u)
<1>1. p \in Nat /\ n \in Nat /\ Len(f) \in Nat /\ p + n \in p..Len(f) OBVIOUS
<1>2. g \in Seq(Pieces) /\ Len(g) = n /\ \A i \in 1..n : g[i] = f[p + i]
  <2>1. (p + n) - p = n BY <1>1
  <2>2. QED BY <1>1, <2>1, PartOf
<1> HIDE DEF g
<1>3. u \in Seq(Pieces) /\ \E at1 : Stripped(u, g, Len(g), at1) BY <1>2, StripsEscapes
<1> HIDE DEF u
<1>4. PICK at1 : Stripped(u, g, n, at1) BY <1>2, <1>3
<1>5. a \in Nat /\ b \in Nat BY <1>3
<1>6. v \in Seq(Pieces) /\ Len(v) = a + b /\ (\A i \in 1..a : v[i] = t[i])
      /\ \A i \in 1..b : v[a + i] = u[i]
  BY <1>3, Joined
<1>7. /\ at \in [1..a -> 1..p]
      /\ \A k \in 1..a : t[k] = f[at[k]]
      /\ \A k, l \in 1..a : k < l => at[k] < at[l]
      /\ \A i \in 1..p : f[i][2] \notin Escapes => \E k \in 1..a : at[k] = i
  BY DEF Stripped
<1>8. /\ at1 \in [1..b -> 1..n]
      /\ \A k \in 1..b : u[k] = g[at1[k]]
      /\ \A k, l \in 1..b : k < l => at1[k] < at1[l]
      /\ \A i \in 1..n : g[i][2] \notin Escapes => \E k \in 1..b : at1[k] = i
  BY <1>4 DEF Stripped
<1> HIDE DEF v, a, b
<1> DEFINE at2 == [k \in 1..a + b |-> IF k <= a THEN at[k] ELSE p + at1[k - a]]
<1>9. \A k \in 1..a + b : k \in 1..a \/ (k > a /\ k - a \in 1..b /\ a + (k - a) = k) BY <1>5
<1>10. /\ \A k \in 1..a : k \in 1..a + b /\ at2[k] = at[k] /\ at2[k] \in 1..p
       /\ \A k \in 1..b : a + k \in 1..a + b /\ at2[a + k] = p + at1[k] /\ at1[k] \in 1..n
  <2>1. \A k \in 1..a : k \in 1..a + b /\ k <= a BY <1>5
  <2>2. \A k \in 1..b : a + k \in 1..a + b /\ ~(a + k <= a) /\ (a + k) - a = k BY <1>5
  <2>3. QED BY <1>7, <1>8, <2>1, <2>2
<1>11. at2 \in [1..a + b -> 1..p + n]
  <2>1. at2 = [k \in 1..a + b |-> at2[k]] OBVIOUS
  <2> HIDE DEF at2
  <2>2. ASSUME NEW k \in 1..a + b PROVE at2[k] \in 1..p + n
    <3>1. CASE k \in 1..a BY <1>1, <1>10, <3>1
    <3>2. CASE k - a \in 1..b /\ a + (k - a) = k
      <4>1. at2[k] = p + at1[k - a] /\ at1[k - a] \in 1..n BY <1>10, <3>2
      <4>2. QED BY <1>1, <4>1
    <3>3. QED BY <1>9, <3>1, <3>2
  <2>3. QED BY <2>1, <2>2
<1> HIDE DEF at2
<1>12. ASSUME NEW k \in 1..a + b PROVE v[k] = f[at2[k]]
  <2>1. CASE k \in 1..a BY <1>6, <1>7, <1>10, <2>1
  <2>2. CASE k - a \in 1..b /\ a + (k - a) = k
    <3>1. v[k] = u[k - a] /\ u[k - a] = g[at1[k - a]] BY <1>6, <1>8, <2>2
    <3>2. at2[k] = p + at1[k - a] /\ at1[k - a] \in 1..n BY <1>10, <2>2
    <3>3. QED BY <1>2, <3>1, <3>2
  <2>3. QED BY <1>9, <2>1, <2>2
<1>13. ASSUME NEW k \in 1..a + b, NEW l \in 1..a + b, k < l PROVE at2[k] < at2[l]
  <2>1. CASE l \in 1..a
    <3>1. k \in 1..a BY <1>5, <1>13, <2>1
    <3>2. QED BY <1>7, <1>10, <1>13, <2>1, <3>1
  <2>2. CASE k \in 1..a /\ l - a \in 1..b /\ a + (l - a) = l
    <3>1. at2[k] \in 1..p /\ at2[l] = p + at1[l - a] /\ at1[l - a] \in 1..n BY <1>10, <2>2
    <3>2. QED BY <1>1, <3>1
  <2>3. CASE k - a \in 1..b /\ a + (k - a) = k /\ l - a \in 1..b /\ a + (l - a) = l
    <3>1. at2[k] = p + at1[k - a] /\ at1[k - a] \in 1..n
          /\ at2[l] = p + at1[l - a] /\ at1[l - a] \in 1..n
      BY <1>10, <2>3
    <3>2. k - a < l - a BY <1>5, <1>13
    <3>3. at1[k - a] < at1[l - a] BY <1>8, <2>3, <3>2
    <3>4. QED BY <1>1, <3>1, <3>3
  <2>4. QED BY <1>9, <2>1, <2>2, <2>3
<1>14. ASSUME NEW i \in 1..p + n, f[i][2] \notin Escapes PROVE \E k \in 1..a + b : at2[k] = i
  <2>1. CASE i \in 1..p
    <3>1. PICK k \in 1..a : at[k] = i BY <1>7, <1>14, <2>1
    <3>2. QED BY <1>10, <3>1
  <2>2. CASE i - p \in 1..n /\ p + (i - p) = i
    <3>1. g[i - p][2] \notin Escapes BY <1>2, <1>14, <2>2
    <3>2. PICK k \in 1..b : at1[k] = i - p BY <1>8, <2>2, <3>1
    <3>3. a + k \in 1..a + b /\ at2[a + k] = p + (i - p) BY <1>10, <3>2
    <3>4. QED BY <2>2, <3>3
  <2>3. i \in 1..p \/ (i - p \in 1..n /\ p + (i - p) = i) BY <1>1
  <2>4. QED BY <2>1, <2>2, <2>3
<1>15. Len(v) = a + b BY <1>6
<1>16. Stripped(v, f, p + n, at2) BY <1>11, <1>12, <1>13, <1>14, <1>15 DEF Stripped
<1>17. QED BY <1>6, <1>16 DEF v, u, g

\* Past the place b, where there is no escape, nothing that was read is missing.
NoEscapes(f, b) == \A j \in 1..Len(f) : b < j => f[j][2] \notin Escapes
InStep(t, at, b) ==
  \A i \in 1..Len(t), d \in Nat : b < at[i] /\ i + d <= Len(t) => at[i + d] = at[i] + d

\* Where there is no escape left to strip, what was read next was written next.
LEMMA Contiguous ==
  ASSUME NEW f \in Seq(Pieces), NEW p \in 0..Len(f), NEW t \in Seq(Pieces), NEW at,
         Stripped(t, f, p, at), NEW b \in Nat, NoEscapes(f, b)
  PROVE  InStep(t, at, b)
<1> SUFFICES ASSUME NEW i \in 1..Len(t), NEW d \in Nat, b < at[i], i + d <= Len(t)
             PROVE  at[i + d] = at[i] + d
  BY DEF InStep
<1> USE DEF NoEscapes
<1> DEFINE n == Len(t)
           Bad == {k \in Nat : i + k <= n /\ at[i + k] # at[i] + k}
<1>1. /\ at \in [1..n -> 1..p]
      /\ \A k, l \in 1..n : k < l => at[k] < at[l]
      /\ \A j \in 1..p : f[j][2] \notin Escapes => \E k \in 1..n : at[k] = j
  BY DEF Stripped
<1>2. n \in Nat /\ Len(f) \in Nat /\ p \in Nat /\ p <= Len(f) OBVIOUS
<1>3. \A k \in 1..n : at[k] \in 1..p BY <1>1
<1> HIDE DEF n, Bad
<1>4. ASSUME Bad # {} PROVE FALSE
  <2>1. Bad \subseteq Nat BY DEF Bad
  <2>2. PICK k \in Bad : \A j \in Bad : k <= j BY <1>4, <2>1, HasMin
  <2>3. k \in Nat /\ i + k <= n /\ at[i + k] # at[i] + k BY <2>2 DEF Bad
  <2>4. i \in Nat /\ i >= 1 /\ i + 0 = i /\ i \in 1..n BY DEF n
  <2>5. at[i] \in 1..p BY <1>3, <2>4
  <2>6. k # 0 BY <2>3, <2>4, <2>5
  <2> DEFINE m == k - 1
             x == at[i] + k
  <2>7. m \in Nat /\ i + m <= n /\ ~(k <= m) /\ i + m < i + k /\ k = m + 1 BY <1>2, <2>3, <2>4, <2>6
  <2> HIDE DEF m
  <2>8. m \notin Bad BY <2>2, <2>7
  <2>9. at[i + m] = at[i] + m BY <2>7, <2>8 DEF Bad
  <2>10. i + m \in 1..n /\ i + k \in 1..n BY <1>2, <2>3, <2>4, <2>7
  <2>11. at[i + m] < at[i + k] BY <1>1, <2>7, <2>10
  <2>12. at[i + m] \in 1..p /\ at[i + k] \in 1..p BY <1>3, <2>10
  <2>13. x \in 1..p /\ b < x /\ x < at[i + k] /\ at[i + m] < x /\ x \in 1..Len(f)
    <3>1. x = at[i + m] + 1
      <4>1. at[i] \in Int /\ m \in Int /\ k = m + 1 BY <2>5, <2>7
      <4>2. \A y, z \in Int : y + (z + 1) = (y + z) + 1 OBVIOUS
      <4>3. QED BY <2>9, <4>1, <4>2
    <3>2. x > at[i] /\ x # at[i + k] /\ x \in Nat BY <2>3, <2>5, <2>6
    <3> HIDE DEF x
    <3>3. x <= at[i + k] BY <2>11, <2>12, <3>1
    <3>4. x < at[i + k] BY <2>12, <3>2, <3>3
    <3>5. b < x /\ at[i + m] < x BY <2>5, <2>12, <3>1, <3>2
    <3>6. x \in 1..p BY <1>2, <2>12, <3>1, <3>4
    <3>7. QED BY <1>2, <3>4, <3>5, <3>6
  <2> HIDE DEF x
  <2>14. f[x][2] \notin Escapes BY <2>13
  <2>15. PICK l \in 1..n : at[l] = x BY <1>1, <2>13, <2>14
  <2>16. ~(l < i + m) /\ l # i + m
    <3>1. l < i + m => at[l] < at[i + m] BY <1>1, <2>10
    <3>2. QED BY <2>12, <2>13, <2>15, <3>1
  <2>17. ~(i + k < l) /\ l # i + k
    <3>1. i + k < l => at[i + k] < at[l] BY <1>1, <2>10
    <3>2. QED BY <2>12, <2>13, <2>15, <3>1
  <2>18. QED BY <1>2, <2>4, <2>7, <2>3, <2>16, <2>17
<1>5. d \notin Bad BY <1>4
<1>6. QED BY <1>5 DEF Bad, n

\* Between two symbols read one after the other, only escapes were written.
LEMMA BetweenRead ==
  ASSUME NEW f \in Seq(Pieces), NEW p \in 0..Len(f), NEW t \in Seq(Pieces), NEW at,
         Stripped(t, f, p, at), NEW i \in 1..Len(t) - 1
  PROVE  /\ at[i] \in 1..p /\ at[i + 1] \in 1..p /\ at[i] < at[i + 1]
         /\ t[i] = f[at[i]] /\ t[i + 1] = f[at[i + 1]]
         /\ \A k \in at[i] + 1..at[i + 1] - 1 : f[k][2] \in Escapes
<1> DEFINE n == Len(t)
<1>1. /\ at \in [1..n -> 1..p]
      /\ \A k \in 1..n : t[k] = f[at[k]]
      /\ \A k, l \in 1..n : k < l => at[k] < at[l]
      /\ \A j \in 1..p : f[j][2] \notin Escapes => \E k \in 1..n : at[k] = j
  BY DEF Stripped
<1>2. n \in Nat /\ p \in Nat /\ i \in 1..n /\ i + 1 \in 1..n /\ i < i + 1 OBVIOUS
<1> HIDE DEF n
<1>3. \A k \in 1..n : at[k] \in 1..p BY <1>1
<1>4. at[i] \in 1..p /\ at[i + 1] \in 1..p /\ at[i] < at[i + 1] BY <1>1, <1>2, <1>3
<1>5. ASSUME NEW k \in at[i] + 1..at[i + 1] - 1, f[k][2] \notin Escapes PROVE FALSE
  <2>1. k \in 1..p /\ at[i] < k /\ k < at[i + 1] BY <1>2, <1>4
  <2>2. PICK l \in 1..n : at[l] = k BY <1>1, <1>5, <2>1
  <2>3. ~(l < i) /\ l # i
    <3>1. l < i => at[l] < at[i] BY <1>1, <1>2
    <3>2. QED BY <1>4, <2>1, <2>2, <3>1
  <2>4. ~(i + 1 < l) /\ l # i + 1
    <3>1. i + 1 < l => at[i + 1] < at[l] BY <1>1, <1>2
    <3>2. QED BY <1>4, <2>1, <2>2, <3>1
  <2>5. QED BY <1>2, <2>3, <2>4
<1>6. QED BY <1>1, <1>2, <1>4, <1>5

\* No symbol is another.
LEMMA SymbolsApart ==
  /\ Sentinel1 \notin Escapes /\ Sentinel2 \notin Escapes /\ Sentinel1 # Sentinel2
  /\ Colon \notin Escapes /\ NewLine \notin Escapes /\ \A d \in Digits : d \notin Escapes
  /\ Colon # Sentinel1 /\ Colon # Sentinel2 /\ NewLine # Sentinel1 /\ NewLine # Sentinel2
  /\ \A d \in Digits : d # Sentinel1 /\ d # Sentinel2 /\ d # Colon /\ d # NewLine
  /\ Colon \notin Digits /\ NewLine \notin Digits
BY DEF Sentinel1, Sentinel2, Colon, NewLine, Escapes, Escape1, Escape2, Digits

\* In what a command in the cloud writes, the exit line has no escape, and only one sentinel.
LEMMA WholeSymbols ==
  ASSUME NEW c, Commanded(c), c.appends
  PROVE  LET f == Whole("cloud", c)
             m == Len(c.writes)
         IN  /\ NoEscapes(f, m)
             /\ \A j \in 1..Len(f) : m < j /\ f[j][2] = Sentinel1 => j = m + 1
             /\ \A j \in 1..Len(f) : m < j /\ f[j][2] = Sentinel2 => j = m + 2
<1> DEFINE f == Whole("cloud", c)
           m == Len(c.writes)   n == Len(c.code)
<1>1. WholeOf("cloud", c, f, m, n) BY WholeIs
<1>2. c.code \in Seq(Digits) BY DEF Commanded
<1>3. \A k \in 1..n : c.code[k] \in Digits BY <1>2
<1> HIDE DEF f, m, n
<1>4. /\ m \in Nat /\ n \in Nat \ {0} /\ Len(f) = m + n + 4
      /\ f[m + 1][2] = Sentinel1 /\ f[m + 2][2] = Sentinel2
      /\ f[m + 3][2] = Colon /\ f[m + n + 4][2] = NewLine
      /\ \A k \in 1..n : f[m + 3 + k][2] = c.code[k]
  BY <1>1 DEF WholeOf
<1>5. ASSUME NEW j \in 1..Len(f), m < j
      PROVE  \/ j = m + 1 \/ j = m + 2
             \/ f[j][2] \in Digits \cup {Colon, NewLine}
  <2>1. CASE j = m + 3 BY <1>4, <2>1
  <2>2. CASE j = m + n + 4 BY <1>4, <2>2
  <2>3. CASE j > m + 3 /\ j < m + n + 4
    <3>1. j - (m + 3) \in 1..n /\ m + 3 + (j - (m + 3)) = j BY <1>4, <2>3
    <3>2. f[j][2] = c.code[j - (m + 3)] BY <1>4, <3>1
    <3>3. QED BY <1>3, <3>1, <3>2
  <2>4. QED BY <1>4, <1>5, <2>1, <2>2, <2>3
<1>6. \A x \in Digits \cup {Colon, NewLine} : x \notin Escapes /\ x # Sentinel1 /\ x # Sentinel2
  BY SymbolsApart
<1>7. NoEscapes(f, m)
  <2>1. ASSUME NEW j \in 1..Len(f), m < j PROVE f[j][2] \notin Escapes
    BY <1>4, <1>5, <1>6, <2>1, SymbolsApart
  <2>2. QED BY <2>1 DEF NoEscapes
<1>8. \A j \in 1..Len(f) : m < j /\ f[j][2] = Sentinel1 => j = m + 1
  BY <1>4, <1>5, <1>6, SymbolsApart
<1>9. \A j \in 1..Len(f) : m < j /\ f[j][2] = Sentinel2 => j = m + 2
  BY <1>4, <1>5, <1>6, SymbolsApart
<1>10. QED BY <1>7, <1>8, <1>9 DEF f, m

\* A sentinel that was read is one the command itself writes, or that of the exit line.
LEMMA WhoseSentinel ==
  ASSUME NEW w, NEW c, Commanded(c), NEW p \in 0..Len(Whole(w, c)),
         NEW t \in Seq(Pieces), NEW at, Stripped(t, Whole(w, c), p, at),
         NEW i \in SentinelsIn(t)
  PROVE  \/ Mentions(c)
         \/ /\ w = "cloud" /\ c.appends
            /\ at[i] = Len(c.writes) + 1 /\ at[i + 1] = Len(c.writes) + 2
<1> DEFINE f == Whole(w, c)
           m == Len(c.writes)   n == Len(c.code)
           a == at[i]   b == at[i + 1]
<1>1. /\ f \in Seq(Pieces) /\ m \in Nat /\ m <= Len(f) /\ n \in Nat \ {0}
      /\ c.writes \in Seq(Pieces) /\ \A j \in 1..m : f[j] = c.writes[j]
      /\ ~(w = "cloud" /\ c.appends) => Len(f) = m
      /\ w = "cloud" /\ c.appends => f[m + 1][2] = Sentinel1 /\ Len(f) = m + n + 4
  <2>1. WholeOf(w, c, f, m, n) BY WholeIs
  <2> HIDE DEF f, m, n
  <2>2. QED BY <2>1 DEF WholeOf
<1>2. i \in 1..Len(t) - 1 /\ t[i][2] = Sentinel1 /\ t[i + 1][2] = Sentinel2
  BY DEF SentinelsIn
<1>3. /\ a \in 1..p /\ b \in 1..p /\ a < b /\ t[i] = f[a] /\ t[i + 1] = f[b]
      /\ \A k \in a + 1..b - 1 : f[k][2] \in Escapes
  BY <1>1, <1>2, BetweenRead
<1>4. p \in Nat /\ p <= Len(f) BY <1>1
<1>5. w = "cloud" /\ c.appends =>
        /\ \A j \in 1..Len(f) : m < j /\ f[j][2] = Sentinel1 => j = m + 1
        /\ \A j \in 1..Len(f) : m < j /\ f[j][2] = Sentinel2 => j = m + 2
  BY WholeSymbols
<1> HIDE DEF f, m, n, a, b
<1>6. f[a][2] = Sentinel1 /\ f[b][2] = Sentinel2 BY <1>2, <1>3
<1>7. a \in 1..Len(f) /\ b \in 1..Len(f) /\ a \in Nat /\ b \in Nat BY <1>1, <1>3, <1>4
<1>8. CASE b <= m
  <2>1. a \in 1..m /\ b \in 1..m /\ DOMAIN c.writes = 1..m BY <1>1, <1>3, <1>7, <1>8 DEF m
  <2>2. c.writes[a][2] = Sentinel1 /\ c.writes[b][2] = Sentinel2 BY <1>1, <1>6, <2>1
  <2>3. \A k \in a + 1..b - 1 : c.writes[k][2] \in {Escape1, Escape2}
    <3>1. TAKE k \in a + 1..b - 1
    <3>2. k \in 1..m BY <1>1, <2>1
    <3>3. QED BY <1>1, <1>3, <3>2 DEF Escapes
  <2>4. QED BY <1>3, <2>1, <2>2, <2>3 DEF Mentions
<1>9. CASE m < b
  <2>1. w = "cloud" /\ c.appends BY <1>1, <1>7, <1>9
  <2>2. b = m + 2 BY <1>5, <1>6, <1>7, <1>9, <2>1
  <2>3. CASE m < a
    <3>1. a = m + 1 BY <1>5, <1>6, <1>7, <2>1, <2>3
    <3>2. QED BY <2>1, <2>2, <3>1 DEF a, b, m
  <2>4. CASE a <= m
    <3>1. m + 1 \in a + 1..b - 1 BY <1>1, <1>7, <2>2, <2>4
    <3>2. f[m + 1][2] \in Escapes BY <1>3, <3>1
    <3>3. QED BY <1>1, <2>1, <3>2, SymbolsApart
  <2>5. QED BY <1>1, <1>7, <2>3, <2>4
<1>10. QED BY <1>1, <1>7, <1>8, <1>9

\* After the sentinel of the exit line comes the code, or less of it than there is.
LEMMA CodeRead ==
  ASSUME NEW c, Commanded(c), c.appends, NEW p \in 0..Len(Whole("cloud", c)),
         NEW t \in Seq(Pieces), NEW at, Stripped(t, Whole("cloud", c), p, at),
         NEW i \in SentinelsIn(t), at[i] = Len(c.writes) + 1
  PROVE  \/ IsPrefix(CodeAfter(t, i), c.code)
         \/ CodeAfter(t, i) = Zero /\ Last(t)[2] \in {Sentinel2, Colon}
<1> DEFINE f == Whole("cloud", c)
           m == Len(c.writes)   n == Len(c.code)   N == Len(t)
           L == {j \in i + 2..N : \A k \in i + 3..j : t[k][2] \in Digits}
           last == Max(L)
           figures == SubSeq(t, i + 3, last)
           u == SymbolsOf(figures)
<1>1. /\ f \in Seq(Pieces) /\ m \in Nat /\ n \in Nat \ {0} /\ Len(f) = m + n + 4
      /\ f[m + 3][2] = Colon /\ f[m + n + 4][2] = NewLine
      /\ \A k \in 1..n : f[m + 3 + k][2] = c.code[k]
  <2>1. WholeOf("cloud", c, f, m, n) BY WholeIs
  <2> HIDE DEF f, m, n
  <2>2. QED BY <2>1 DEF WholeOf
<1>2. c.code \in Seq(Digits) /\ \A k \in 1..n : c.code[k] \in Digits BY DEF Commanded
<1>3. NoEscapes(f, m) BY WholeSymbols
<1>4. i \in 1..N - 1 /\ t[i][2] = Sentinel1 /\ t[i + 1][2] = Sentinel2 BY DEF SentinelsIn
<1>5. N \in Nat OBVIOUS
<1>6. InStep(t, at, m) BY <1>1, <1>3, Contiguous
<1>7. at \in [1..N -> 1..p] /\ \A k \in 1..N : t[k] = f[at[k]] BY DEF Stripped
<1>8. p \in Nat /\ p <= m + n + 4
  <2>1. p \in 0..Len(f) OBVIOUS
  <2> HIDE DEF f, m, n
  <2>2. QED BY <1>1, <2>1
<1>9. CodeAfter(t, i) = IF i + 3 <= N /\ t[i + 2][2] = Colon /\ t[i + 3][2] \in Digits
                        THEN u ELSE Zero
  BY DEF CodeAfter
<1>10. Last(t) = t[N] BY DEF Last
<1> HIDE DEF f, m, n, N, L, last, figures, u
<1>11. at[i] = m + 1 BY DEF m
<1>12. ASSUME NEW d \in Nat, i + d <= N
       PROVE  t[i + d] = f[(m + 1) + d] /\ d <= n + 3
  <2>1. i + d \in 1..N BY <1>4, <1>5, <1>12
  <2>2. i \in 1..N /\ m < at[i] BY <1>1, <1>4, <1>5, <1>11
  <2>3. at[i + d] = at[i] + d BY <1>6, <1>12, <2>2 DEF InStep, N
  <2>4. at[i + d] \in 1..p BY <1>7, <2>1
  <2>5. t[i + d] = f[at[i + d]] BY <1>7, <2>1
  <2>6. QED BY <1>1, <1>8, <1>11, <2>3, <2>4, <2>5
<1>13. CASE N = i + 1 BY <1>4, <1>5, <1>9, <1>10, <1>13
<1>14. CASE N = i + 2
  <2>1. t[i + 2] = f[(m + 1) + 2] BY <1>4, <1>5, <1>12, <1>14
  <2>2. (m + 1) + 2 = m + 3 BY <1>1
  <2>3. t[N][2] = Colon BY <1>1, <1>14, <2>1, <2>2
  <2>4. ~(i + 3 <= N) BY <1>4, <1>5, <1>14
  <2>5. QED BY <1>9, <1>10, <2>3, <2>4
<1>15. CASE i + 3 <= N
  <2>1. i \in Nat /\ i + 2 <= N /\ i + 2 \in Nat BY <1>4, <1>5, <1>15
  <2>2. t[i + 2][2] = Colon
    <3>1. t[i + 2] = f[(m + 1) + 2] BY <1>12, <2>1
    <3>2. (m + 1) + 2 = m + 3 BY <1>1
    <3>3. QED BY <1>1, <3>1, <3>2
  <2>3. ASSUME NEW k \in 1..n, i + 2 + k <= N
        PROVE  t[i + 2 + k][2] = c.code[k] /\ t[i + 2 + k][2] \in Digits
    <3>1. 2 + k \in Nat /\ i + (2 + k) = i + 2 + k /\ (m + 1) + (2 + k) = m + 3 + k
      BY <1>1, <2>1
    <3>2. t[i + (2 + k)] = f[(m + 1) + (2 + k)] BY <1>12, <2>3, <3>1
    <3>3. QED BY <1>1, <1>2, <3>1, <3>2
  <2>4. t[i + 3][2] \in Digits
    <3>1. 1 \in 1..n /\ i + 2 + 1 = i + 3 BY <1>1, <2>1
    <3>2. QED BY <1>15, <2>3, <3>1
  <2>5. CodeAfter(t, i) = u BY <1>9, <1>15, <2>2, <2>4
  <2>6. L \in SUBSET Int /\ IsFiniteSet(L) /\ i + 2 \in L
    <3>1. L \in SUBSET (i + 2..N) /\ i + 2..N \in SUBSET Int BY DEF L
    <3>2. IsFiniteSet(i + 2..N) BY <1>5, <2>1, FS_Interval
    <3>3. IsFiniteSet(L) BY <3>1, <3>2, FS_Subset
    <3>4. i + 2 \in i + 2..N /\ i + 3..i + 2 = {} BY <1>5, <2>1
    <3>5. QED BY <3>1, <3>3, <3>4 DEF L
  <2>7. last \in L BY <2>6, HasMax DEF last
  <2>8. last \in i + 2..N /\ \A k \in i + 3..last : t[k][2] \in Digits BY <2>7 DEF L
  <2> DEFINE r == last - (i + 2)
  <2>9. r \in Nat /\ last = (i + 2) + r /\ last <= N BY <1>5, <2>1, <2>8
  <2> HIDE DEF r
  <2>10. r <= n
    <3>1. SUFFICES ASSUME r > n PROVE FALSE BY <1>1, <2>9
    <3>2. n + 3 \in Nat /\ i + (n + 3) <= N /\ i + (n + 3) \in i + 3..last
      BY <1>1, <1>5, <2>1, <2>9, <3>1
    <3>3. t[i + (n + 3)] = f[(m + 1) + (n + 3)] BY <1>12, <3>2
    <3>4. (m + 1) + (n + 3) = m + n + 4 BY <1>1
    <3>5. t[i + (n + 3)][2] \in Digits BY <2>8, <3>2
    <3>6. QED BY <1>1, <3>3, <3>4, <3>5, SymbolsApart
  <2>11. figures \in Seq(Pieces) /\ Len(figures) = r /\ \A k \in 1..r : figures[k] = t[i + 2 + k]
    <3>1. i + 2 \in 0..Len(t) /\ last \in i + 2..Len(t) /\ (i + 2) + 1 = i + 3
      BY <1>5, <2>1, <2>8 DEF N
    <3>2. last - (i + 2) = r BY DEF r
    <3>3. SubSeq(t, (i + 2) + 1, last) \in Seq(Pieces)
          /\ Len(SubSeq(t, (i + 2) + 1, last)) = last - (i + 2)
          /\ \A k \in 1..last - (i + 2) : SubSeq(t, (i + 2) + 1, last)[k] = t[(i + 2) + k]
      BY <3>1, PartOf
    <3>4. QED BY <3>1, <3>2, <3>3 DEF figures
  <2>12. u \in Seq(Glyphs) /\ Len(u) = r /\ \A k \in 1..r : u[k] = figures[k][2]
    BY <2>11, SymbolsAre DEF u
  <2>13. \A k \in 1..Len(u) : u[k] = c.code[k]
    <3>1. TAKE k \in 1..Len(u)
    <3>2. k \in 1..r BY <2>12
    <3>a. k \in 1..n BY <1>1, <2>9, <2>10, <3>2
    <3>b. i + 2 + k <= N BY <1>5, <2>1, <2>9, <3>2
    <3>3. u[k] = figures[k][2] /\ figures[k] = t[i + 2 + k] BY <2>11, <2>12, <3>2
    <3>4. t[i + 2 + k][2] = c.code[k] BY <2>3, <3>a, <3>b
    <3>5. QED BY <3>3, <3>4
  <2>14. c.code \in Seq(Glyphs)
    <3>1. Digits \subseteq Glyphs BY DEF Glyphs
    <3>2. QED BY <1>2, <3>1
  <2>15. Len(u) <= Len(c.code) BY <2>10, <2>12 DEF n
  <2>16. IsPrefix(u, c.code) BY <2>12, <2>13, <2>14, <2>15, PrefixIs
  <2>17. QED BY <2>5, <2>16
<1>16. QED BY <1>4, <1>5, <1>13, <1>14, <1>15

\* What a command wrote of all it writes: p was read, and from there to q waits.
ReadTo(w, c, l, t, en, p, q) ==
  /\ p \in 0..Len(Whole(w, c)) /\ q \in p..Len(Whole(w, c))
  /\ l = SubSeq(Whole(w, c), p + 1, q)
  /\ t \in Seq(Pieces)
  /\ w = "local" => t = SubSeq(Whole(w, c), 1, p)
  /\ w = "cloud" => \E at : Stripped(t, Whole(w, c), p, at)
  /\ en = Running => q = Len(c.writes)
  /\ q > Len(c.writes) => en = c.code
  /\ en = c.code /\ en # Sigkill => q = Len(Whole(w, c))

\* What is told of it is explained, however it goes on.
RightlyTold(w, c, t, en, td, lo) ==
  /\ w = "local" =>
       /\ IsPrefix(td.stdout, OfStream(c.writes, "stdout"))
       /\ IsPrefix(td.stderr, OfStream(c.writes, "stderr"))
       /\ ~lo => /\ en # Running /\ td.code = en
                 /\ en = c.code /\ en # Sigkill =>
                      /\ td.stdout = OfStream(c.writes, "stdout")
                      /\ td.stderr = OfStream(c.writes, "stderr")
  /\ w = "cloud" =>
       \/ en # Running /\ IsPrefix(td.code, en)
       \/ Mentions(c)
       \/ /\ td.code = Zero
          /\ \/ lo
             \/ en = Sigkill
             \/ ~c.appends
             \/ Last(t)[2] \in {Sentinel2, Colon}

\* The steps before a call's command is started.
Unattached == {"idle", "starting", "creating", "attaching"}

\* One call: its command c, its step s, what is left and taken, how it ended, what it was told.
CallInv(w, c, s, l, t, en, td, lo) ==
  /\ Commanded(c)
  /\ en \in {NotStarted, Running, Sigkill, c.code}
  /\ s \in Unattached => en = NotStarted /\ t = <<>>
  /\ s \in {"running", "closed", "reported"} => en # NotStarted
  /\ en # NotStarted => \E p, q : ReadTo(w, c, l, t, en, p, q)
  /\ s = "closed" => w = "local" /\ (lo \/ (en # Running /\ l = <<>>))
  /\ s = "running" /\ w = "cloud" => SentinelsIn(t) = {}
  /\ s = "reported" => RightlyTold(w, c, t, en, td, lo)

\* How a command ended, or did not.
LEMMA EndsApart ==
  /\ Running # NotStarted /\ Running # Sigkill /\ NotStarted # Sigkill
  /\ \A x \in Seq(Digits) \ {<<>>} : x # Running /\ x # NotStarted
<1>1. Len(Running) = 0 /\ Len(NotStarted) = 1 /\ Len(Sigkill) = 3
  BY DEF Running, NotStarted, Sigkill
<1>2. ASSUME NEW x \in Seq(Digits), x = NotStarted PROVE FALSE
  <2>1. NotStarted[1] = "-" /\ 1 \in 1..Len(NotStarted) BY <1>1 DEF NotStarted
  <2>2. x[1] \in Digits BY <1>2, <2>1
  <2>3. "-" \notin Digits BY DEF Digits
  <2>4. QED BY <1>2, <2>1, <2>2, <2>3
<1>3. \A x \in Seq(Digits) \ {<<>>} : x # Running BY DEF Running
<1>4. \A x \in Seq(Digits) \ {<<>>} : x # NotStarted BY <1>2
<1>5. Running # NotStarted /\ Running # Sigkill /\ NotStarted # Sigkill
  <2>1. 0 # 1 /\ 0 # 3 /\ 1 # 3 OBVIOUS
  <2>2. QED BY <1>1, <2>1
<1>6. QED BY <1>3, <1>4, <1>5

\* A call that only goes from step to step stays one of the states of a call.
LEMMA CallMoves ==
  ASSUME NEW w, NEW c, NEW s, NEW l, NEW t, NEW en, NEW td, NEW lo,
         CallInv(w, c, s, l, t, en, td, lo), NEW s2, NEW lo2
  PROVE  /\ s2 = "rejected" => CallInv(w, c, s2, l, t, en, td, lo2)
         /\ s \in Unattached /\ s2 \in Unattached => CallInv(w, c, s2, l, t, en, td, lo)
         /\ s = "running" /\ s2 = "closed" /\ w = "local" /\ en # Running /\ l = <<>>
              => CallInv(w, c, s2, l, t, en, td, lo)
         /\ s = "running" /\ s2 = "closed" /\ w = "local"
              => CallInv(w, c, s2, l, t, en, td, TRUE)
BY DEF CallInv, Unattached

\* A call whose command starts has read nothing, and all of it waits.
LEMMA CallStarts ==
  ASSUME NEW w, NEW c, NEW s \in Unattached, NEW l, NEW t, NEW en, NEW td, NEW lo,
         CallInv(w, c, s, l, t, en, td, lo)
  PROVE  CallInv(w, c, "running", c.writes, t, Running, td, lo)
<1> DEFINE f == Whole(w, c)
           m == Len(c.writes)   n == Len(c.code)
<1>1. Commanded(c) /\ t = <<>> BY DEF CallInv
<1>2. c.code \in Seq(Digits) \ {<<>>} BY <1>1 DEF Commanded
<1>3. Running # NotStarted /\ Running # c.code BY <1>2, EndsApart
<1>4. /\ f \in Seq(Pieces) /\ m \in Nat /\ m <= Len(f)
      /\ c.writes \in Seq(Pieces) /\ \A i \in 1..m : f[i] = c.writes[i]
  <2>1. WholeOf(w, c, f, m, n) BY <1>1, WholeIs
  <2> HIDE DEF f, m, n
  <2>2. QED BY <2>1 DEF WholeOf
<1> HIDE DEF f
<1>5. Len(f) \in Nat BY <1>4
<1>6. c.writes = SubSeq(f, 0 + 1, m)
  <2> DEFINE g == SubSeq(f, 0 + 1, m)
  <2>1. 0 \in 0..Len(f) /\ m \in 0..Len(f) BY <1>4, <1>5
  <2>2. g \in Seq(Pieces) /\ Len(g) = m - 0 /\ \A i \in 1..m - 0 : g[i] = f[0 + i]
    BY <1>4, <2>1, PartOf
  <2>3. m - 0 = m /\ \A i \in 1..m : 0 + i = i BY <1>4
  <2> HIDE DEF g
  <2>4. \A i \in 1..m : g[i] = c.writes[i] BY <1>4, <2>2, <2>3
  <2>5. g = c.writes BY <1>4, <2>2, <2>3, <2>4, SeqEqual
  <2>6. QED BY <2>5 DEF g
<1>7. SentinelsIn(t) = {}
  <2>1. Len(t) = 0 BY <1>1
  <2>2. 1..Len(t) - 1 = {} BY <2>1
  <2>3. QED BY <2>2 DEF SentinelsIn
<1>8. w = "local" => t = SubSeq(f, 1, 0) BY <1>1, <1>4, AllOf
<1>9. Stripped(t, f, 0, <<>>)
  <2>1. Len(t) = 0 /\ 1..0 = {} BY <1>1
  <2>2. <<>> \in [1..0 -> 1..0] BY <2>1
  <2>3. QED BY <2>1, <2>2 DEF Stripped
<1>10. ReadTo(w, c, c.writes, t, Running, 0, m)
  <2>1. 0 \in 0..Len(f) /\ m \in 0..Len(f) /\ ~(m > m) BY <1>4, <1>5
  <2>2. t \in Seq(Pieces) BY <1>1
  <2>3. QED BY <1>3, <1>6, <1>8, <1>9, <2>1, <2>2 DEF ReadTo, f
<1>11. QED BY <1>1, <1>3, <1>7, <1>10 DEF CallInv, Unattached

\* Who was told of a command that runs was told right however it ends.
LEMMA ToldStays ==
  ASSUME NEW w, NEW c, NEW t, NEW td, NEW lo, NEW en2, RightlyTold(w, c, t, Running, td, lo),
         Running # Sigkill
  PROVE  RightlyTold(w, c, t, en2, td, lo)
BY DEF RightlyTold

\* A command that is stopped loses the end of what waits, and ends as killed.
LEMMA CallStops ==
  ASSUME NEW w, NEW c, NEW s, NEW l, NEW t, NEW td, NEW lo,
         CallInv(w, c, s, l, t, Running, td, lo), NEW k \in 0..Len(l)
  PROVE  CallInv(w, c, s, SubSeq(l, 1, k), t, Sigkill, td, lo)
<1> DEFINE f == Whole(w, c)
           m == Len(c.writes)   n == Len(c.code)
           l2 == SubSeq(l, 1, k)
<1>1. /\ Commanded(c) /\ Running # NotStarted /\ Running # Sigkill /\ NotStarted # Sigkill
      /\ s \notin Unattached
      /\ s = "closed" => w = "local" /\ lo
      /\ s = "running" /\ w = "cloud" => SentinelsIn(t) = {}
      /\ s = "reported" => RightlyTold(w, c, t, Running, td, lo)
  BY EndsApart DEF CallInv
<1>2. PICK p, q : ReadTo(w, c, l, t, Running, p, q) BY <1>1 DEF CallInv
<1>3. f \in Seq(Pieces) /\ m \in Nat /\ m <= Len(f)
  <2>1. WholeOf(w, c, f, m, n) BY <1>1, WholeIs
  <2> HIDE DEF f, m, n
  <2>2. QED BY <2>1 DEF WholeOf
<1>4. /\ p \in 0..Len(f) /\ q \in p..Len(f) /\ q = m /\ l = SubSeq(f, p + 1, q) /\ t \in Seq(Pieces)
      /\ w = "local" => t = SubSeq(f, 1, p)
      /\ w = "cloud" => \E at : Stripped(t, f, p, at)
  BY <1>2 DEF ReadTo
<1> HIDE DEF f, m, l2
<1>5. Len(l) = q - p /\ p \in Nat /\ q \in Nat BY <1>3, <1>4, PartOf
<1>6. k \in 0..q - p /\ p + k \in p..Len(f) /\ ~(p + k > m) BY <1>3, <1>4, <1>5
<1>7. l2 = SubSeq(f, p + 1, p + k) BY <1>3, <1>4, <1>6, PartTaken DEF l2
<1>8. ReadTo(w, c, l2, t, Sigkill, p, p + k) BY <1>1, <1>4, <1>6, <1>7 DEF ReadTo, f, m
<1>9. s = "reported" => RightlyTold(w, c, t, Sigkill, td, lo) BY <1>1, ToldStays
<1>10. CallInv(w, c, s, l2, t, Sigkill, td, lo) BY <1>1, <1>8, <1>9 DEF CallInv
<1>11. QED BY <1>10 DEF l2

\* A command that ends by itself has written all of it, its exit line included.
LEMMA CallEnds ==
  ASSUME NEW w \in {"local", "cloud"}, NEW c, NEW s, NEW l, NEW t, NEW td, NEW lo,
         CallInv(w, c, s, l, t, Running, td, lo),
         NEW l2, l2 = IF w = "cloud" /\ c.appends THEN l \o ExitLine(c.code) ELSE l
  PROVE  CallInv(w, c, s, l2, t, c.code, td, lo)
<1> DEFINE f == Whole(w, c)
           m == Len(c.writes)   n == Len(c.code)
           x == ExitLine(c.code)
<1>1. /\ Commanded(c) /\ Running # NotStarted /\ Running # Sigkill
      /\ s \notin Unattached
      /\ s = "closed" => w = "local" /\ lo
      /\ s = "running" /\ w = "cloud" => SentinelsIn(t) = {}
      /\ s = "reported" => RightlyTold(w, c, t, Running, td, lo)
  BY EndsApart DEF CallInv
<1>2. c.code \in Seq(Digits) /\ c.code # Running /\ c.code # NotStarted
  BY <1>1, EndsApart DEF Commanded
<1>3. PICK p, q : ReadTo(w, c, l, t, Running, p, q) BY <1>1 DEF CallInv
<1>4. f \in Seq(Pieces) /\ m \in Nat /\ m <= Len(f) /\ c.writes \in Seq(Pieces)
      /\ (~(w = "cloud" /\ c.appends) => Len(f) = m)
  <2>1. WholeOf(w, c, f, m, n) BY <1>1, WholeIs
  <2> HIDE DEF f, m, n
  <2>2. QED BY <2>1 DEF WholeOf
<1>5. w = "cloud" /\ c.appends => f = c.writes \o x BY DEF Whole
<1>6. x \in Seq(Pieces) BY <1>2, ExitLineIs
<1>7. /\ p \in 0..Len(f) /\ q \in p..Len(f) /\ q = m /\ l = SubSeq(f, p + 1, q) /\ t \in Seq(Pieces)
      /\ w = "local" => t = SubSeq(f, 1, p)
      /\ w = "cloud" => \E at : Stripped(t, f, p, at)
  BY <1>3 DEF ReadTo
<1> HIDE DEF f, x
<1>8. p \in 0..m /\ Len(f) \in p..Len(f) BY <1>4, <1>7
<1>9. l2 = SubSeq(f, p + 1, Len(f))
  <2>1. CASE w = "cloud" /\ c.appends
    <3>1. m \in p..m BY <1>8
    <3>2. SubSeq(f, p + 1, m) = SubSeq(c.writes, p + 1, m)
      <4> DEFINE y == c.writes
      <4> HIDE DEF y
      <4>1. y \in Seq(Pieces) /\ f = y \o x /\ p \in 0..Len(y) /\ m = Len(y) BY <1>4, <1>5, <1>8, <2>1 DEF y
      <4>2. \A k \in p..Len(y) : SubSeq(y \o x, p + 1, k) = SubSeq(y, p + 1, k)
        BY <1>6, <4>1, PartAppended
      <4>3. QED BY <3>1, <4>1, <4>2 DEF y
    <3>3. SubSeq(c.writes, p + 1, m) \o x = SubSeq(f, p + 1, Len(f))
      <4> DEFINE y == c.writes
      <4> HIDE DEF y
      <4>1. y \in Seq(Pieces) /\ f = y \o x /\ p \in 0..Len(y) BY <1>4, <1>5, <1>8, <2>1 DEF y
      <4>2. SubSeq(y, p + 1, Len(y)) \o x = SubSeq(y \o x, p + 1, Len(y \o x))
        BY <1>6, <4>1, PartAppended
      <4>3. QED BY <4>1, <4>2 DEF y
    <3>4. l2 = l \o x BY <2>1 DEF x
    <3>5. QED BY <1>7, <3>2, <3>3, <3>4
  <2>2. CASE ~(w = "cloud" /\ c.appends)
    <3>1. l2 = l BY <2>2
    <3>2. Len(f) = q BY <1>4, <1>7, <2>2
    <3>3. QED BY <1>7, <3>1, <3>2
  <2>3. QED BY <2>1, <2>2
<1>10. ReadTo(w, c, l2, t, c.code, p, Len(f))
  BY <1>2, <1>7, <1>8, <1>9 DEF ReadTo, f
<1>11. s = "reported" => RightlyTold(w, c, t, c.code, td, lo) BY <1>1, ToldStays
<1>12. QED BY <1>1, <1>2, <1>10, <1>11 DEF CallInv

\* A piece of what waits is read.
LEMMA ReadsOn ==
  ASSUME NEW w, NEW c, Commanded(c), NEW l, NEW t, NEW en, NEW p, NEW q, ReadTo(w, c, l, t, en, p, q),
         NEW n \in 1..Len(l), NEW u, t \o u \in Seq(Pieces),
         w = "local" => u = SubSeq(l, 1, n),
         w = "cloud" => u = stripAnsi(SubSeq(l, 1, n))
  PROVE  ReadTo(w, c, SubSeq(l, n + 1, Len(l)), t \o u, en, p + n, q)
<1> DEFINE f == Whole(w, c)
           l2 == SubSeq(l, n + 1, Len(l))
           t2 == t \o u
           p2 == p + n
<1>1. f \in Seq(Pieces)
  <2>1. WholeOf(w, c, f, Len(c.writes), Len(c.code)) BY WholeIs
  <2> HIDE DEF f
  <2>2. QED BY <2>1 DEF WholeOf
<1>2. /\ p \in 0..Len(f) /\ q \in p..Len(f) /\ l = SubSeq(f, p + 1, q) /\ t \in Seq(Pieces)
      /\ w = "local" => t = SubSeq(f, 1, p)
      /\ w = "cloud" => \E at : Stripped(t, f, p, at)
      /\ en = Running => q = Len(c.writes)
      /\ q > Len(c.writes) => en = c.code
      /\ en = c.code /\ en # Sigkill => q = Len(f)
  BY DEF ReadTo
<1> HIDE DEF f
<1>3. Len(l) = q - p /\ p \in Nat /\ q \in Nat /\ Len(f) \in Nat BY <1>1, <1>2, PartOf
<1>4. p2 \in 0..Len(f) /\ q \in p2..Len(f) BY <1>2, <1>3
<1>5. n \in 0..q - p /\ n \in 0..Len(f) - p /\ p + n + 1 = p2 + 1 BY <1>2, <1>3
<1>6. l2 = SubSeq(f, p2 + 1, q) /\ SubSeq(l, 1, n) = SubSeq(f, p + 1, p2)
      /\ SubSeq(f, 1, p) \o SubSeq(f, p + 1, p2) = SubSeq(f, 1, p2)
  <2>1. p \in 0..Len(f) /\ q \in p..Len(f) /\ n \in 0..q - p BY <1>2, <1>5
  <2>2. /\ SubSeq(SubSeq(f, p + 1, q), 1, n) = SubSeq(f, p + 1, p + n)
        /\ SubSeq(SubSeq(f, p + 1, q), n + 1, q - p) = SubSeq(f, p + n + 1, q)
        /\ SubSeq(f, 1, p) \o SubSeq(f, p + 1, p + n) = SubSeq(f, 1, p + n)
    BY <1>1, <2>1, PartTaken
  <2>3. l = SubSeq(f, p + 1, q) /\ Len(l) = q - p BY <1>2, <1>3
  <2> HIDE DEF l2, p2
  <2>4. l2 = SubSeq(l, n + 1, q - p) BY <2>3 DEF l2
  <2>5. p2 = p + n BY DEF p2
  <2>6. QED BY <2>2, <2>3, <2>4, <2>5
<1> HIDE DEF l2, t2, p2
<1>7. w = "local" => t2 = SubSeq(f, 1, p2) BY <1>2, <1>6 DEF t2
<1>8. w = "cloud" => \E at : Stripped(t2, f, p2, at)
  <2>1. SUFFICES ASSUME w = "cloud" PROVE \E at : Stripped(t2, f, p2, at) OBVIOUS
  <2>2. PICK at : Stripped(t, f, p, at) BY <1>2, <2>1
  <2>3. u = stripAnsi(SubSeq(f, p + 1, p + n)) BY <1>6, <2>1 DEF p2
  <2>4. \E at2 : Stripped(t \o u, f, p + n, at2) BY <1>1, <1>2, <1>5, <2>2, <2>3, StrippedOn
  <2>5. QED BY <2>4 DEF t2, p2
<1>9. t2 \in Seq(Pieces) BY DEF t2
<1>10. ReadTo(w, c, l2, t2, en, p2, q) BY <1>2, <1>4, <1>6, <1>7, <1>8, <1>9 DEF ReadTo, f
<1>11. QED BY <1>10 DEF l2, t2, p2

\* The local manager reads what the command wrote next.
LEMMA ChunkIsRead ==
  ASSUME NEW w, w = "local", NEW c, Commanded(c), NEW l, NEW t, NEW en, NEW p, NEW q,
         ReadTo(w, c, l, t, en, p, q), NEW n \in 1..Len(l)
  PROVE  ReadTo(w, c, SubSeq(l, n + 1, Len(l)), t \o SubSeq(l, 1, n), en, p + n, q)
<1> DEFINE u == SubSeq(l, 1, n)
           f == Whole(w, c)
<1>1. f \in Seq(Pieces)
  <2>1. WholeOf(w, c, f, Len(c.writes), Len(c.code)) BY WholeIs
  <2> HIDE DEF f
  <2>2. QED BY <2>1 DEF WholeOf
<1>2. t \in Seq(Pieces) /\ p \in 0..Len(f) /\ q \in p..Len(f) /\ l = SubSeq(f, p + 1, q)
  BY DEF ReadTo
<1> HIDE DEF f
<1>3. u \in Seq(Pieces)
  <2>1. l \in Seq(Pieces) BY <1>1, <1>2, PartOf
  <2>2. QED BY <2>1
<1>4. t \o u \in Seq(Pieces) BY <1>2, <1>3, Joined
<1>5. (w = "local" => u = SubSeq(l, 1, n)) /\ (w = "cloud" => u = stripAnsi(SubSeq(l, 1, n))) OBVIOUS
<1> HIDE DEF u
<1>6. ReadTo(w, c, SubSeq(l, n + 1, Len(l)), t \o u, en, p + n, q) BY <1>4, <1>5, ReadsOn
<1>7. QED BY <1>6 DEF u

\* The cloud manager reads what the command wrote next, without its escapes.
LEMMA FrameIsRead ==
  ASSUME NEW w, w = "cloud", NEW c, Commanded(c), NEW l, NEW t, NEW en, NEW p, NEW q,
         ReadTo(w, c, l, t, en, p, q), NEW n \in 1..Len(l)
  PROVE  ReadTo(w, c, SubSeq(l, n + 1, Len(l)), t \o stripAnsi(SubSeq(l, 1, n)), en, p + n, q)
<1> DEFINE v == SubSeq(l, 1, n)
           u == stripAnsi(v)
           f == Whole(w, c)
<1>1. f \in Seq(Pieces)
  <2>1. WholeOf(w, c, f, Len(c.writes), Len(c.code)) BY WholeIs
  <2> HIDE DEF f
  <2>2. QED BY <2>1 DEF WholeOf
<1>2. t \in Seq(Pieces) /\ p \in 0..Len(f) /\ q \in p..Len(f) /\ l = SubSeq(f, p + 1, q)
  BY DEF ReadTo
<1> HIDE DEF f
<1>3. v \in Seq(Pieces)
  <2>1. l \in Seq(Pieces) BY <1>1, <1>2, PartOf
  <2>2. QED BY <2>1
<1>4. (w = "local" => u = SubSeq(l, 1, n)) /\ (w = "cloud" => u = stripAnsi(SubSeq(l, 1, n))) OBVIOUS
<1> HIDE DEF v
<1>5. u \in Seq(Pieces) BY <1>3, StripsEscapes
<1> HIDE DEF u
<1>6. t \o u \in Seq(Pieces) BY <1>2, <1>5, Joined
<1>7. ReadTo(w, c, SubSeq(l, n + 1, Len(l)), t \o u, en, p + n, q) BY <1>4, <1>6, ReadsOn
<1>8. QED BY <1>7 DEF u, v

\* Who finds the sentinel reads the code after it, or less of it than there is.
LEMMA FrameTells ==
  ASSUME NEW w, w = "cloud", NEW c, Commanded(c), NEW l, NEW b, NEW en, NEW p, NEW q,
         ReadTo(w, c, l, b, en, p, q), en \in {NotStarted, Running, Sigkill, c.code},
         NEW i \in SentinelsIn(b), NEW td, td.code = CodeAfter(b, i), NEW lo
  PROVE  RightlyTold(w, c, b, en, td, lo)
<1> DEFINE f == Whole(w, c)
           m == Len(c.writes)   n == Len(c.code)
<1>1. /\ p \in 0..Len(f) /\ q \in p..Len(f) /\ b \in Seq(Pieces)
      /\ \E at : Stripped(b, f, p, at)
      /\ q > m => en = c.code
  BY DEF ReadTo
<1>2. PICK at : Stripped(b, f, p, at) BY <1>1
<1>3. m \in Nat /\ f \in Seq(Pieces)
  <2>1. WholeOf(w, c, f, m, n) BY WholeIs
  <2> HIDE DEF f, m, n
  <2>2. QED BY <2>1 DEF WholeOf
<1>4. \/ Mentions(c)
      \/ c.appends /\ at[i] = m + 1 /\ at[i + 1] = m + 2
  BY <1>1, <1>2, WhoseSentinel
<1>5. CASE Mentions(c) BY <1>5 DEF RightlyTold
<1>6. CASE c.appends /\ at[i] = m + 1 /\ at[i + 1] = m + 2
  <2>1. i + 1 \in 1..Len(b) BY <1>1 DEF SentinelsIn
  <2> HIDE DEF f, m
  <2>2. at[i + 1] \in 1..p BY <1>2, <2>1 DEF Stripped
  <2>3. q > m BY <1>1, <1>3, <1>6, <2>2
  <2>4. en = c.code /\ en # Running BY <1>1, <2>3, EndsApart DEF Commanded
  <2>5. \/ IsPrefix(CodeAfter(b, i), c.code)
        \/ CodeAfter(b, i) = Zero /\ Last(b)[2] \in {Sentinel2, Colon}
    BY <1>1, <1>2, <1>6, CodeRead DEF f, m
  <2>6. QED BY <2>4, <2>5 DEF RightlyTold
<1>7. QED BY <1>4, <1>5, <1>6

\* Who read all of a command that came to its exit line found the sentinel.
LEMMA SentinelRead ==
  ASSUME NEW c, Commanded(c), c.appends, NEW t \in Seq(Pieces), NEW at,
         Stripped(t, Whole("cloud", c), Len(Whole("cloud", c)), at)
  PROVE  SentinelsIn(t) # {}
<1> DEFINE f == Whole("cloud", c)
           m == Len(c.writes)   n == Len(c.code)   N == Len(t)   p == Len(f)
<1>1. /\ f \in Seq(Pieces) /\ m \in Nat /\ n \in Nat \ {0} /\ Len(f) = m + n + 4
      /\ f[m + 1][2] = Sentinel1 /\ f[m + 2][2] = Sentinel2
  <2>1. WholeOf("cloud", c, f, m, n) BY WholeIs
  <2> HIDE DEF f, m, n
  <2>2. QED BY <2>1 DEF WholeOf
<1>2. NoEscapes(f, m) BY WholeSymbols
<1>3. p \in 0..Len(f) BY <1>1
<1>4. InStep(t, at, m) BY <1>1, <1>2, <1>3, Contiguous
<1>5. /\ at \in [1..N -> 1..p]
      /\ \A k \in 1..N : t[k] = f[at[k]]
      /\ \A k, l \in 1..N : k < l => at[k] < at[l]
      /\ \A i \in 1..p : f[i][2] \notin Escapes => \E k \in 1..N : at[k] = i
  BY DEF Stripped
<1>6. N \in Nat OBVIOUS
<1>7. p = m + n + 4 BY <1>1
<1> HIDE DEF f, m, n, N, p
<1>8. m + 1 \in 1..p /\ m + 2 \in 1..p BY <1>1, <1>7
<1>9. PICK k \in 1..N : at[k] = m + 1 BY <1>1, <1>5, <1>8, SymbolsApart
<1>10. PICK l \in 1..N : at[l] = m + 2 BY <1>1, <1>5, <1>8, SymbolsApart
<1>11. ~(l < k) /\ l # k
  <2>1. l < k => at[l] < at[k] BY <1>5
  <2>2. QED BY <1>1, <1>9, <1>10, <2>1
<1>12. k + 1 <= N /\ m < at[k] BY <1>1, <1>6, <1>9, <1>11
<1>13. at[k + 1] = at[k] + 1 BY <1>4, <1>12 DEF InStep, N
<1>14. k \in 1..N - 1 /\ k + 1 \in 1..N /\ (m + 1) + 1 = m + 2 BY <1>1, <1>6, <1>12
<1>15. t[k] = f[m + 1] /\ t[k + 1] = f[m + 2] BY <1>5, <1>9, <1>13, <1>14
<1>16. k \in SentinelsIn(t) BY <1>1, <1>14, <1>15 DEF SentinelsIn, N
<1>17. QED BY <1>16

\* A call of the local manager after a chunk.
LEMMA CallReadsChunk ==
  ASSUME NEW c, NEW l, NEW t, NEW en, NEW td, NEW lo,
         CallInv("local", c, "running", l, t, en, td, lo), NEW n \in 1..Len(l)
  PROVE  CallInv("local", c, "running", SubSeq(l, n + 1, Len(l)), t \o SubSeq(l, 1, n), en, td, lo)
<1>1. Commanded(c) /\ en # NotStarted /\ en \in {NotStarted, Running, Sigkill, c.code} BY DEF CallInv
<1>2. PICK p, q : ReadTo("local", c, l, t, en, p, q) BY <1>1 DEF CallInv
<1>3. ReadTo("local", c, SubSeq(l, n + 1, Len(l)), t \o SubSeq(l, 1, n), en, p + n, q)
  BY <1>1, <1>2, ChunkIsRead
<1>4. QED BY <1>1, <1>3 DEF CallInv, Unattached

\* A call of the cloud manager after a frame, that has the sentinel or has not.
LEMMA CallReadsFrame ==
  ASSUME NEW c, NEW l, NEW t, NEW en, NEW td, NEW lo,
         CallInv("cloud", c, "running", l, t, en, td, lo), NEW n \in 1..Len(l),
         NEW b, b = t \o stripAnsi(SubSeq(l, 1, n)), NEW td2
  PROVE  /\ SentinelsIn(b) = {}
              => CallInv("cloud", c, "running", SubSeq(l, n + 1, Len(l)), b, en, td, lo)
         /\ SentinelsIn(b) # {} /\ td2.code = CodeAfter(b, Min(SentinelsIn(b)))
              => CallInv("cloud", c, "reported", SubSeq(l, n + 1, Len(l)), b, en, td2, lo)
<1> DEFINE l2 == SubSeq(l, n + 1, Len(l))
<1>1. Commanded(c) /\ en # NotStarted /\ en \in {NotStarted, Running, Sigkill, c.code} BY DEF CallInv
<1>2. PICK p, q : ReadTo("cloud", c, l, t, en, p, q) BY <1>1 DEF CallInv
<1>3. ReadTo("cloud", c, l2, b, en, p + n, q) BY <1>1, <1>2, FrameIsRead
<1> HIDE DEF l2
<1>4. SentinelsIn(b) = {} => CallInv("cloud", c, "running", l2, b, en, td, lo)
  BY <1>1, <1>3 DEF CallInv, Unattached
<1>5. ASSUME SentinelsIn(b) # {}, td2.code = CodeAfter(b, Min(SentinelsIn(b)))
      PROVE  CallInv("cloud", c, "reported", l2, b, en, td2, lo)
  <2> DEFINE i == Min(SentinelsIn(b))
  <2>1. i \in SentinelsIn(b)
    <3>1. SentinelsIn(b) \in SUBSET Nat BY DEF SentinelsIn
    <3>2. QED BY <1>5, <3>1, HasMin
  <2>2. td2.code = CodeAfter(b, i) BY <1>5
  <2> HIDE DEF i
  <2>3. RightlyTold("cloud", c, b, en, td2, lo) BY <1>1, <1>3, <2>1, <2>2, FrameTells
  <2>4. QED BY <1>1, <1>3, <2>3 DEF CallInv, Unattached
<1>6. QED BY <1>4, <1>5 DEF l2

\* A call of the local manager told of the code that the engine gives at its end.
LEMMA CallInspected ==
  ASSUME NEW w, NEW c, NEW l, NEW t, NEW en, NEW td, NEW lo \in BOOLEAN,
         CallInv(w, c, "closed", l, t, en, td, lo), NEW td2,
         td2.code = IF en = Running THEN Zero ELSE en,
         td2.stdout = OfStream(t, "stdout"), td2.stderr = OfStream(t, "stderr")
  PROVE  CallInv(w, c, "reported", l, t, en, td2, lo)
<1> DEFINE f == Whole(w, c)
           m == Len(c.writes)   n == Len(c.code)
<1>1. /\ Commanded(c) /\ en # NotStarted /\ en \in {NotStarted, Running, Sigkill, c.code}
      /\ w = "local" /\ (lo \/ (en # Running /\ l = <<>>))
  BY DEF CallInv
<1>2. PICK p, q : ReadTo(w, c, l, t, en, p, q) BY <1>1 DEF CallInv
<1>3. f = c.writes /\ c.writes \in Seq(Pieces) BY <1>1 DEF Whole, Commanded
<1>4. /\ p \in 0..Len(f) /\ q \in p..Len(f) /\ l = SubSeq(f, p + 1, q)
      /\ t = SubSeq(f, 1, p)
      /\ en = c.code /\ en # Sigkill => q = Len(f)
  BY <1>1, <1>2 DEF ReadTo
<1> HIDE DEF f
<1>5. Len(l) = q - p /\ p \in Nat /\ q \in Nat BY <1>3, <1>4, PartOf
<1>6. \A src : IsPrefix(OfStream(t, src), OfStream(c.writes, src)) BY <1>3, <1>4, StreamsBegin
<1>7. ASSUME ~lo PROVE /\ en # Running /\ td2.code = en
                       /\ en = c.code /\ en # Sigkill => t = c.writes
  <2>1. en # Running /\ l = <<>> /\ td2.code = en BY <1>1, <1>7
  <2>2. Len(l) = 0 BY <2>1
  <2>3. q = p BY <1>5, <2>2
  <2>4. QED BY <1>3, <1>4, <2>1, <2>3, AllOf
<1>8. RightlyTold(w, c, t, en, td2, lo) BY <1>1, <1>6, <1>7 DEF RightlyTold
<1>9. QED BY <1>1, <1>2, <1>8 DEF CallInv, Unattached

\* A call of the cloud manager told of code 0, its channel closed with no sentinel read.
LEMMA CallClosed ==
  ASSUME NEW c, NEW l, NEW t, NEW en, NEW td, NEW lo,
         CallInv("cloud", c, "running", l, t, en, td, lo), NEW td2, td2.code = Zero, NEW lo2,
         lo2 \/ (lo2 = lo /\ en # Running /\ l = <<>>)
  PROVE  CallInv("cloud", c, "reported", l, t, en, td2, lo2)
<1> DEFINE f == Whole("cloud", c)
<1>1. /\ Commanded(c) /\ en # NotStarted /\ en \in {NotStarted, Running, Sigkill, c.code}
      /\ SentinelsIn(t) = {}
  BY DEF CallInv
<1>2. PICK p, q : ReadTo("cloud", c, l, t, en, p, q) BY <1>1 DEF CallInv
<1>3. f \in Seq(Pieces)
  <2>1. WholeOf("cloud", c, f, Len(c.writes), Len(c.code)) BY <1>1, WholeIs
  <2> HIDE DEF f
  <2>2. QED BY <2>1 DEF WholeOf
<1>4. /\ p \in 0..Len(f) /\ q \in p..Len(f) /\ l = SubSeq(f, p + 1, q) /\ t \in Seq(Pieces)
      /\ \E at : Stripped(t, f, p, at)
      /\ en = c.code /\ en # Sigkill => q = Len(f)
  BY <1>2 DEF ReadTo
<1>5. ASSUME ~lo2, en # Sigkill, c.appends PROVE FALSE
  <2>1. en = c.code /\ l = <<>> BY <1>1, <1>5
  <2>2. q = Len(f) BY <1>4, <1>5, <2>1
  <2> HIDE DEF f
  <2>3. Len(l) = q - p /\ p \in Nat /\ q \in Nat BY <1>3, <1>4, PartOf
  <2>4. Len(l) = 0 BY <2>1
  <2>5. p = Len(f) BY <2>2, <2>3, <2>4
  <2>6. SentinelsIn(t) # {} BY <1>1, <1>4, <1>5, <2>5, SentinelRead DEF f
  <2>7. QED BY <1>1, <2>6
<1>6. RightlyTold("cloud", c, t, en, td2, lo2) BY <1>5 DEF RightlyTold
<1>7. QED BY <1>1, <1>2, <1>6 DEF CallInv, Unattached

\* What holds of the calls at any time.
ByCall(f) == DOMAIN f = Execs
ExecTyped ==
  /\ way \in {"local", "cloud"}
  /\ ByCall(cmd) /\ ByCall(pc) /\ ByCall(left) /\ ByCall(taken)
  /\ ByCall(ended) /\ ByCall(told) /\ ByCall(lost)
  /\ \A e \in Execs : lost[e] \in BOOLEAN

CallOf(e) == CallInv(way, cmd[e], pc[e], left[e], taken[e], ended[e], told[e], lost[e])
ExecInv == ExecTyped /\ \A e \in Execs : CallOf(e)

\* What a step of one call leaves as it was.
Elsewhere(e) ==
  /\ way' = way /\ cmd' = cmd
  /\ ByCall(pc') /\ ByCall(left') /\ ByCall(taken')
  /\ ByCall(ended') /\ ByCall(told') /\ ByCall(lost')
  /\ lost'[e] \in BOOLEAN
  /\ \A d \in Execs \ {e} :
       /\ pc'[d] = pc[d] /\ left'[d] = left[d] /\ taken'[d] = taken[d]
       /\ ended'[d] = ended[d] /\ told'[d] = told[d] /\ lost'[d] = lost[d]

\* A step of one call keeps the invariant where that call keeps its own part of it.
LEMMA OneCallMoves ==
  ASSUME ExecInv, NEW e \in Execs, Elsewhere(e),
         CallInv(way, cmd[e], pc'[e], left'[e], taken'[e], ended'[e], told'[e], lost'[e])
  PROVE  ExecInv'
<1>1. ExecTyped'
  <2>1. \A d \in Execs : lost'[d] \in BOOLEAN
    <3>1. TAKE d \in Execs
    <3>2. CASE d = e BY <3>2 DEF Elsewhere
    <3>3. CASE d # e BY <3>3 DEF Elsewhere, ExecInv, ExecTyped
    <3>4. QED BY <3>2, <3>3
  <2>2. QED BY <2>1 DEF Elsewhere, ExecInv, ExecTyped, ByCall
<1>2. \A d \in Execs : CallOf(d)'
  <2>1. TAKE d \in Execs
  <2>2. CASE d = e BY <2>2 DEF CallOf, Elsewhere
  <2>3. CASE d # e
    <3>1. CallOf(d) BY DEF ExecInv
    <3>2. /\ way' = way /\ cmd' = cmd
          /\ pc'[d] = pc[d] /\ left'[d] = left[d] /\ taken'[d] = taken[d]
          /\ ended'[d] = ended[d] /\ told'[d] = told[d] /\ lost'[d] = lost[d]
      BY <2>3 DEF Elsewhere
    <3>3. QED BY <3>1, <3>2 DEF CallOf
  <2>4. QED BY <2>2, <2>3
<1>3. QED BY <1>1, <1>2 DEF ExecInv

\* The steps that change nothing of a call but where it is, and whether its connection was lost.
LEMMA GotoKeeps ==
  ASSUME ExecInv, NEW e \in Execs, NEW s, Goto(e, s), UNCHANGED <<way, cmd, left, taken, ended, told>>,
         ByCall(lost'), lost'[e] \in BOOLEAN, \A d \in Execs \ {e} : lost'[d] = lost[d],
         CallInv(way, cmd[e], s, left[e], taken[e], ended[e], told[e], lost'[e])
  PROVE  ExecInv'
<1>1. ExecTyped BY DEF ExecInv
<1>2. ByCall(pc') /\ pc'[e] = s /\ \A d \in Execs \ {e} : pc'[d] = pc[d]
  BY <1>1 DEF Goto, ExecTyped, ByCall
<1>3. Elsewhere(e) BY <1>1, <1>2 DEF Elsewhere, ExecTyped, ByCall
<1>4. QED BY <1>2, <1>3, OneCallMoves

\* A call that only moves on, or fails.
LEMMA MoveKeeps ==
  ASSUME ExecInv, NEW e \in Execs, NEW s, Goto(e, s), UNCHANGED commandVars, way' = way,
         s = "rejected" \/ (pc[e] \in Unattached /\ s \in Unattached)
  PROVE  ExecInv'
<1>1. CallInv(way, cmd[e], pc[e], left[e], taken[e], ended[e], told[e], lost[e]) /\ ExecTyped
  BY DEF ExecInv, CallOf
<1>2. CallInv(way, cmd[e], s, left[e], taken[e], ended[e], told[e], lost[e]) BY <1>1, CallMoves
<1>3. UNCHANGED <<cmd, left, taken, ended, told, lost>> BY DEF commandVars
<1>4. QED BY <1>1, <1>2, <1>3, GotoKeeps DEF ExecTyped

\* A call that throws.
LEMMA FailKeeps ==
  ASSUME ExecInv, NEW e \in Execs, ExecFails(e)
  PROVE  ExecInv'
BY MoveKeeps DEF ExecFails, sandboxVars

\* The command of a call starts.
LEMMA StartCommandKeeps ==
  ASSUME ExecInv, NEW e \in Execs, pc[e] \in Unattached, StartCommand(e),
         UNCHANGED <<way, cmd, taken, told, lost>>
  PROVE  ExecInv'
<1>1. CallInv(way, cmd[e], pc[e], left[e], taken[e], ended[e], told[e], lost[e]) /\ ExecTyped
  BY DEF ExecInv, CallOf
<1>2. CallInv(way, cmd[e], "running", cmd[e].writes, taken[e], Running, told[e], lost[e])
  BY <1>1, CallStarts
<1>3. /\ ByCall(pc') /\ pc'[e] = "running" /\ \A d \in Execs \ {e} : pc'[d] = pc[d]
      /\ ByCall(left') /\ left'[e] = cmd[e].writes /\ \A d \in Execs \ {e} : left'[d] = left[d]
      /\ ByCall(ended') /\ ended'[e] = Running /\ \A d \in Execs \ {e} : ended'[d] = ended[d]
  BY <1>1 DEF StartCommand, Goto, ExecTyped, ByCall
<1>4. Elsewhere(e) BY <1>1, <1>3 DEF Elsewhere, ExecTyped, ByCall
<1>5. QED BY <1>2, <1>3, <1>4, OneCallMoves

\* The command of a call ends by itself.
LEMMA EndCommandKeeps ==
  ASSUME ExecInv, NEW e \in Execs, EndCommand(e)
  PROVE  ExecInv'
<1>1. CallInv(way, cmd[e], pc[e], left[e], taken[e], ended[e], told[e], lost[e]) /\ ExecTyped
  BY DEF ExecInv, CallOf
<1>2. /\ ended[e] = Running /\ way' = way /\ UNCHANGED <<cmd, pc, taken, told, lost>>
      /\ ended' = [ended EXCEPT ![e] = cmd[e].code]
      /\ left' = IF way = "cloud" /\ cmd[e].appends
                 THEN [left EXCEPT ![e] = @ \o ExitLine(cmd[e].code)] ELSE left
  BY DEF EndCommand, sandboxVars
<1>3. /\ ByCall(ended') /\ ended'[e] = cmd[e].code /\ \A d \in Execs \ {e} : ended'[d] = ended[d]
      /\ ByCall(left') /\ \A d \in Execs \ {e} : left'[d] = left[d]
      /\ left'[e] = IF way = "cloud" /\ cmd[e].appends THEN left[e] \o ExitLine(cmd[e].code) ELSE left[e]
  BY <1>1, <1>2 DEF ExecTyped, ByCall
<1>4. way \in {"local", "cloud"} BY <1>1 DEF ExecTyped
<1>5. CallInv(way, cmd[e], pc[e], left'[e], taken[e], cmd[e].code, told[e], lost[e])
  BY <1>1, <1>2, <1>3, <1>4, CallEnds
<1>6. Elsewhere(e) BY <1>1, <1>2, <1>3 DEF Elsewhere, ExecTyped, ByCall
<1>7. QED BY <1>2, <1>3, <1>5, <1>6, OneCallMoves

\* The local manager reads a chunk (docker-sandbox-manager exec).
LEMMA ReadChunkKeeps ==
  ASSUME ExecInv, NEW e \in Execs, NEW n, ReadChunk(e, n)
  PROVE  ExecInv'
<1>1. CallInv(way, cmd[e], pc[e], left[e], taken[e], ended[e], told[e], lost[e]) /\ ExecTyped
  BY DEF ExecInv, CallOf
<1>2. /\ way = "local" /\ pc[e] = "running" /\ n \in 1..Len(left[e])
      /\ taken' = [taken EXCEPT ![e] = @ \o SubSeq(left[e], 1, n)]
      /\ left' = [left EXCEPT ![e] = SubSeq(@, n + 1, Len(@))]
      /\ way' = way /\ UNCHANGED <<cmd, pc, ended, told, lost>>
  BY DEF ReadChunk, sandboxVars
<1>3. /\ ByCall(taken') /\ taken'[e] = taken[e] \o SubSeq(left[e], 1, n)
      /\ \A d \in Execs \ {e} : taken'[d] = taken[d]
      /\ ByCall(left') /\ left'[e] = SubSeq(left[e], n + 1, Len(left[e]))
      /\ \A d \in Execs \ {e} : left'[d] = left[d]
  BY <1>1, <1>2 DEF ExecTyped, ByCall
<1>4. CallInv(way, cmd[e], pc[e], left'[e], taken'[e], ended[e], told[e], lost[e])
  BY <1>1, <1>2, <1>3, CallReadsChunk
<1>5. Elsewhere(e) BY <1>1, <1>2, <1>3 DEF Elsewhere, ExecTyped, ByCall
<1>6. QED BY <1>2, <1>4, <1>5, OneCallMoves

\* What a report tells, and where it leaves the call.
LEMMA Reports ==
  ASSUME ExecTyped, NEW e \in Execs, NEW code, NEW output, Report(e, code, output)
  PROVE  /\ ByCall(pc') /\ pc'[e] = "reported" /\ \A d \in Execs \ {e} : pc'[d] = pc[d]
         /\ ByCall(told') /\ \A d \in Execs \ {e} : told'[d] = told[d]
         /\ told'[e].code = code
         /\ told'[e].stdout = OfStream(output, "stdout")
         /\ told'[e].stderr = OfStream(output, "stderr")
BY DEF Report, Goto, ExecTyped, ByCall

\* The cloud manager reads a frame, and stops at the sentinel (cloud-sandbox-manager exec).
LEMMA ReadFrameKeeps ==
  ASSUME ExecInv, NEW e \in Execs, NEW n, ReadFrame(e, n)
  PROVE  ExecInv'
<1> DEFINE b == taken[e] \o stripAnsi(SubSeq(left[e], 1, n))
<1>1. CallInv(way, cmd[e], pc[e], left[e], taken[e], ended[e], told[e], lost[e]) /\ ExecTyped
  BY DEF ExecInv, CallOf
<1>2. /\ way = "cloud" /\ pc[e] = "running" /\ n \in 1..Len(left[e])
      /\ taken' = [taken EXCEPT ![e] = b]
      /\ left' = [left EXCEPT ![e] = SubSeq(@, n + 1, Len(@))]
      /\ IF SentinelsIn(b) = {} THEN UNCHANGED <<pc, told>>
         ELSE Report(e, CodeAfter(b, Min(SentinelsIn(b))), SubSeq(b, 1, Min(SentinelsIn(b)) - 1))
      /\ way' = way /\ UNCHANGED <<cmd, ended, lost>>
  BY DEF ReadFrame, sandboxVars
<1>3. b = taken[e] \o stripAnsi(SubSeq(left[e], 1, n)) OBVIOUS
<1> HIDE DEF b
<1>4. /\ ByCall(taken') /\ taken'[e] = b /\ \A d \in Execs \ {e} : taken'[d] = taken[d]
      /\ ByCall(left') /\ left'[e] = SubSeq(left[e], n + 1, Len(left[e]))
      /\ \A d \in Execs \ {e} : left'[d] = left[d]
  BY <1>1, <1>2 DEF ExecTyped, ByCall
<1>5. CallInv("cloud", cmd[e], "running", left[e], taken[e], ended[e], told[e], lost[e])
  BY <1>1, <1>2
<1>6. CASE SentinelsIn(b) = {}
  <2>1. UNCHANGED <<pc, told>> BY <1>2, <1>6
  <2>2. CallInv(way, cmd[e], pc[e], left'[e], taken'[e], ended[e], told[e], lost[e])
    <3>1. n \in 1..Len(left[e]) BY <1>2
    <3>2. CallInv("cloud", cmd[e], "running", SubSeq(left[e], n + 1, Len(left[e])), b, ended[e], told[e], lost[e])
      BY <1>3, <1>5, <1>6, <3>1, CallReadsFrame
    <3>3. QED BY <1>2, <1>4, <3>2
  <2>3. Elsewhere(e) BY <1>1, <1>2, <1>4, <2>1 DEF Elsewhere, ExecTyped, ByCall
  <2>4. QED BY <1>2, <2>1, <2>2, <2>3, OneCallMoves
<1>7. CASE SentinelsIn(b) # {}
  <2> DEFINE code == CodeAfter(b, Min(SentinelsIn(b)))
             output == SubSeq(b, 1, Min(SentinelsIn(b)) - 1)
  <2>1. Report(e, code, output) BY <1>2, <1>7
  <2>2. /\ ByCall(pc') /\ pc'[e] = "reported" /\ \A d \in Execs \ {e} : pc'[d] = pc[d]
        /\ ByCall(told') /\ (\A d \in Execs \ {e} : told'[d] = told[d])
        /\ told'[e].code = code
    BY <1>1, <2>1, Reports
  <2>3. told'[e].code = CodeAfter(b, Min(SentinelsIn(b))) BY <2>2
  <2> HIDE DEF code, output
  <2>4. CallInv("cloud", cmd[e], "reported", left'[e], taken'[e], ended[e], told'[e], lost[e])
    <3>1. n \in 1..Len(left[e]) BY <1>2
    <3>2. CallInv("cloud", cmd[e], "reported", SubSeq(left[e], n + 1, Len(left[e])), b, ended[e], told'[e], lost[e])
      BY <1>3, <1>5, <1>7, <2>3, <3>1, CallReadsFrame
    <3>3. QED BY <1>4, <3>2
  <2>5. Elsewhere(e) BY <1>1, <1>2, <1>4, <2>2 DEF Elsewhere, ExecTyped, ByCall
  <2>6. QED BY <1>2, <2>2, <2>4, <2>5, OneCallMoves
<1>8. QED BY <1>6, <1>7

\* The caller is told of a call of which nothing else changes.
LEMMA ReportKeeps ==
  ASSUME ExecInv, NEW e \in Execs, NEW code, NEW output, Report(e, code, output),
         UNCHANGED <<way, cmd, left, taken, ended>>,
         ByCall(lost'), lost'[e] \in BOOLEAN, \A d \in Execs \ {e} : lost'[d] = lost[d],
         \A td : td.code = code /\ td.stdout = OfStream(output, "stdout")
                 /\ td.stderr = OfStream(output, "stderr")
              => CallInv(way, cmd[e], "reported", left[e], taken[e], ended[e], td, lost'[e])
  PROVE  ExecInv'
<1>1. ExecTyped BY DEF ExecInv
<1>2. /\ ByCall(pc') /\ pc'[e] = "reported" /\ \A d \in Execs \ {e} : pc'[d] = pc[d]
      /\ ByCall(told') /\ (\A d \in Execs \ {e} : told'[d] = told[d])
      /\ told'[e].code = code
      /\ told'[e].stdout = OfStream(output, "stdout")
      /\ told'[e].stderr = OfStream(output, "stderr")
  BY <1>1, Reports
<1>3. Elsewhere(e) BY <1>1, <1>2 DEF Elsewhere, ExecTyped, ByCall
<1>4. CallInv(way, cmd[e], "reported", left[e], taken[e], ended[e], told'[e], lost'[e]) BY <1>2
<1>5. QED BY <1>2, <1>3, <1>4, OneCallMoves

\* The local manager asks for the exit code, and fails or tells of it.
LEMMA InspectExecKeeps ==
  ASSUME ExecInv, NEW e \in Execs, InspectExec(e)
  PROVE  ExecInv'
<1>1. CallInv(way, cmd[e], pc[e], left[e], taken[e], ended[e], told[e], lost[e]) /\ ExecTyped
  BY DEF ExecInv, CallOf
<1>2. CASE Report(e, InspectedCode(e), taken[e]) /\ UNCHANGED <<sandboxVars, cmd, left, taken, ended, lost>>
  <2>1. pc[e] = "closed" /\ way' = way BY <1>2 DEF InspectExec, sandboxVars
  <2>2. ByCall(lost') /\ lost' = lost /\ lost[e] \in BOOLEAN /\ lost'[e] \in BOOLEAN
    BY <1>1, <1>2 DEF ExecTyped
  <2>3. InspectedCode(e) = IF ended[e] = Running THEN Zero ELSE ended[e] BY DEF InspectedCode
  <2>4. \A td : td.code = InspectedCode(e) /\ td.stdout = OfStream(taken[e], "stdout")
                /\ td.stderr = OfStream(taken[e], "stderr")
           => CallInv(way, cmd[e], "reported", left[e], taken[e], ended[e], td, lost[e])
    BY <1>1, <2>1, <2>2, <2>3, CallInspected
  <2>5. QED BY <1>2, <2>1, <2>2, <2>4, ReportKeeps
<1>3. CASE ExecFails(e) BY <1>3, FailKeeps
<1>4. QED BY <1>2, <1>3 DEF InspectExec

\* The session's channel closes before the sentinel was read.
LEMMA ChannelClosesKeeps ==
  ASSUME ExecInv, NEW e \in Execs, ChannelCloses(e)
  PROVE  ExecInv'
<1>1. CallInv(way, cmd[e], pc[e], left[e], taken[e], ended[e], told[e], lost[e]) /\ ExecTyped
  BY DEF ExecInv, CallOf
<1>2. /\ way = "cloud" /\ pc[e] = "running" /\ ended[e] # Running /\ left[e] = <<>>
      /\ Report(e, Zero, taken[e]) /\ way' = way /\ UNCHANGED <<cmd, left, taken, ended, lost>>
  BY DEF ChannelCloses, sandboxVars
<1>3. ByCall(lost') /\ lost' = lost /\ lost'[e] \in BOOLEAN BY <1>1, <1>2 DEF ExecTyped
<1>4. CallInv("cloud", cmd[e], "running", left[e], taken[e], ended[e], told[e], lost[e])
  BY <1>1, <1>2
<1>5. \A td : td.code = Zero
         => CallInv(way, cmd[e], "reported", left[e], taken[e], ended[e], td, lost[e])
  BY <1>2, <1>4, CallClosed
<1>6. QED BY <1>2, <1>3, <1>5, ReportKeeps

\* The socket of the session's channel closes, or fails.
LEMMA SocketClosesKeeps ==
  ASSUME ExecInv, NEW e \in Execs, SocketCloses(e)
  PROVE  ExecInv'
<1>1. CallInv(way, cmd[e], pc[e], left[e], taken[e], ended[e], told[e], lost[e]) /\ ExecTyped
  BY DEF ExecInv, CallOf
<1>2. /\ way = "cloud" /\ pc[e] = "running" /\ way' = way /\ UNCHANGED <<cmd, left, taken, ended>>
  BY DEF SocketCloses, sandboxVars
<1>3. CASE Report(e, Zero, <<>>) /\ lost' = [lost EXCEPT ![e] = TRUE]
  <2>1. ByCall(lost') /\ lost'[e] = TRUE /\ \A d \in Execs \ {e} : lost'[d] = lost[d]
    BY <1>1, <1>3 DEF ExecTyped, ByCall
  <2>2. CallInv("cloud", cmd[e], "running", left[e], taken[e], ended[e], told[e], lost[e])
    BY <1>1, <1>2
  <2>3. \A td : td.code = Zero
           => CallInv(way, cmd[e], "reported", left[e], taken[e], ended[e], td, TRUE)
    BY <1>2, <2>2, CallClosed
  <2>4. QED BY <1>2, <1>3, <2>1, <2>3, ReportKeeps
<1>4. CASE Goto(e, "rejected") /\ UNCHANGED <<told, lost>>
  <2>1. UNCHANGED commandVars BY <1>2, <1>4 DEF commandVars
  <2>2. QED BY <1>2, <1>4, <2>1, MoveKeeps
<1>5. QED BY <1>3, <1>4 DEF SocketCloses

\* The stream of the local manager ends, is lost or fails.
LEMMA StreamClosesKeeps ==
  ASSUME ExecInv, NEW e \in Execs, StreamCloses(e)
  PROVE  ExecInv'
<1>1. CallInv(way, cmd[e], pc[e], left[e], taken[e], ended[e], told[e], lost[e]) /\ ExecTyped
  BY DEF ExecInv, CallOf
<1>2. /\ way = "local" /\ pc[e] = "running" /\ way' = way /\ UNCHANGED <<cmd, left, taken, ended, told>>
  BY DEF StreamCloses, sandboxVars
<1>3. CASE ended[e] # Running /\ left[e] = <<>> /\ Goto(e, "closed") /\ UNCHANGED lost
  <2>1. ByCall(lost') /\ lost'[e] = lost[e] /\ lost'[e] \in BOOLEAN /\ \A d \in Execs \ {e} : lost'[d] = lost[d]
    BY <1>1, <1>3 DEF ExecTyped
  <2>2. CallInv(way, cmd[e], "closed", left[e], taken[e], ended[e], told[e], lost[e])
    BY <1>1, <1>2, <1>3, CallMoves
  <2>3. QED BY <1>2, <1>3, <2>1, <2>2, GotoKeeps
<1>4. CASE Goto(e, "closed") /\ lost' = [lost EXCEPT ![e] = TRUE]
  <2>1. ByCall(lost') /\ lost'[e] = TRUE /\ \A d \in Execs \ {e} : lost'[d] = lost[d]
    BY <1>1, <1>4 DEF ExecTyped, ByCall
  <2>2. CallInv(way, cmd[e], "closed", left[e], taken[e], ended[e], told[e], TRUE)
    BY <1>1, <1>2, CallMoves
  <2>3. QED BY <1>2, <1>4, <2>1, <2>2, GotoKeeps
<1>5. CASE Goto(e, "rejected") /\ UNCHANGED lost
  <2>1. UNCHANGED commandVars BY <1>2, <1>5 DEF commandVars
  <2>2. QED BY <1>2, <1>5, <2>1, MoveKeeps
<1>6. QED BY <1>3, <1>4, <1>5 DEF StreamCloses

\* The container or the task stops, with every command in it.
LEMMA CommandsStop ==
  ASSUME ExecInv, Stop, UNCHANGED <<way, cmd, pc, taken, told, lost>>
  PROVE  ExecInv'
<1> DEFINE hit == {e \in Execs : ended[e] = Running}
<1>1. PICK written : /\ \A e \in hit : written[e] <= Len(left[e])
                     /\ \A e \in hit : written[e] \in Nat
                     /\ left' = [e \in Execs |-> IF e \in hit THEN SubSeq(left[e], 1, written[e]) ELSE left[e]]
  <2>1. PICK written \in [hit -> 0..Max({0} \cup {Len(left[e]) : e \in hit})] :
           /\ \A e \in hit : written[e] <= Len(left[e])
           /\ left' = [e \in Execs |-> IF e \in hit THEN SubSeq(left[e], 1, written[e]) ELSE left[e]]
    BY DEF Stop
  <2> DEFINE M == Max({0} \cup {Len(left[e]) : e \in hit})
  <2>2. written \in [hit -> 0..M] BY <2>1
  <2> HIDE DEF hit, M
  <2>3. \A e \in hit : written[e] \in 0..M BY <2>2
  <2>4. \A e \in hit : written[e] \in Nat BY <2>3
  <2>5. QED BY <2>1, <2>4
<1>2. ended' = [e \in Execs |-> IF e \in hit THEN Sigkill ELSE ended[e]] BY DEF Stop
<1>3. ExecTyped /\ \A e \in Execs : CallOf(e) BY DEF ExecInv
<1>4. ExecTyped' BY <1>1, <1>2, <1>3 DEF ExecTyped, ByCall
<1>5. ASSUME NEW e \in Execs PROVE CallOf(e)'
  <2>1. CallInv(way, cmd[e], pc[e], left[e], taken[e], ended[e], told[e], lost[e])
    BY <1>3 DEF CallOf
  <2>2. CASE e \in hit
    <3>1. ended[e] = Running BY <2>2
    <3> HIDE DEF hit
    <3>2. ended'[e] = Sigkill /\ left'[e] = SubSeq(left[e], 1, written[e]) BY <1>1, <1>2, <2>2
    <3>3. written[e] \in 0..Len(left[e])
      <4>1. Len(left[e]) \in Nat
        <5>1. Commanded(cmd[e]) /\ Running # NotStarted BY <2>1, EndsApart DEF CallInv
        <5>2. PICK p, q : ReadTo(way, cmd[e], left[e], taken[e], Running, p, q)
          BY <2>1, <3>1, <5>1 DEF CallInv
        <5>3. Whole(way, cmd[e]) \in Seq(Pieces)
          <6> DEFINE f == Whole(way, cmd[e])
          <6>1. WholeOf(way, cmd[e], f, Len(cmd[e].writes), Len(cmd[e].code)) BY <5>1, WholeIs
          <6> HIDE DEF f
          <6>2. f \in Seq(Pieces) BY <6>1 DEF WholeOf
          <6>3. QED BY <6>2 DEF f
        <5>4. /\ p \in 0..Len(Whole(way, cmd[e])) /\ q \in p..Len(Whole(way, cmd[e]))
              /\ left[e] = SubSeq(Whole(way, cmd[e]), p + 1, q)
          BY <5>2 DEF ReadTo
        <5>5. left[e] \in Seq(Pieces) BY <5>3, <5>4, PartOf
        <5>6. QED BY <5>5
      <4>2. QED BY <1>1, <2>2, <4>1
    <3>4. CallInv(way, cmd[e], pc[e], SubSeq(left[e], 1, written[e]), taken[e], Sigkill, told[e], lost[e])
      BY <2>1, <3>1, <3>3, CallStops
    <3>5. QED BY <3>2, <3>4 DEF CallOf
  <2>3. CASE e \notin hit
    <3> HIDE DEF hit
    <3>1. ended'[e] = ended[e] /\ left'[e] = left[e] BY <1>1, <1>2, <2>3
    <3>2. QED BY <2>1, <3>1 DEF CallOf
  <2>4. QED BY <2>2, <2>3
<1>6. QED BY <1>4, <1>5 DEF ExecInv

\* Nothing of any call changes.
LEMMA CallsStay ==
  ASSUME ExecInv, UNCHANGED <<way, cmd, pc, left, taken, ended, told, lost>>
  PROVE  ExecInv'
BY DEF ExecInv, ExecTyped, ByCall, CallOf

\* Every step of the two managers and of what they run keeps the invariant.
LEMMA ExecutionsStep == ExecInv /\ ExecutionsNext => ExecInv'
<1> SUFFICES ASSUME ExecInv, ExecutionsNext PROVE ExecInv' OBVIOUS
<1>1. CASE \E e \in Execs :
       \/ EndCommand(e)
       \/ FindContainer(e) \/ StartContainer(e) \/ CreateExec(e) \/ StartExec(e)
       \/ \E n \in DOMAIN left[e] : ReadChunk(e, n) \/ ReadFrame(e, n)
       \/ StreamCloses(e) \/ InspectExec(e) \/ ExecTimesOut(e)
       \/ ExecuteCommand(e) \/ ChannelCloses(e) \/ SocketCloses(e)
  <2>1. PICK e \in Execs :
       \/ EndCommand(e)
       \/ FindContainer(e) \/ StartContainer(e) \/ CreateExec(e) \/ StartExec(e)
       \/ \E n \in DOMAIN left[e] : ReadChunk(e, n) \/ ReadFrame(e, n)
       \/ StreamCloses(e) \/ InspectExec(e) \/ ExecTimesOut(e)
       \/ ExecuteCommand(e) \/ ChannelCloses(e) \/ SocketCloses(e)
    BY <1>1
  <2>2. CASE EndCommand(e) BY <2>2, EndCommandKeeps
  <2>3. CASE FindContainer(e)
    <3>1. CASE ExecFails(e) BY <3>1, FailKeeps
    <3>2. CASE Goto(e, IF up THEN "creating" ELSE "starting") /\ UNCHANGED <<sandboxVars, commandVars>>
      <4> DEFINE s == IF up THEN "creating" ELSE "starting"
      <4>1. s \in Unattached /\ "idle" \in Unattached BY DEF Unattached
      <4>2. Goto(e, s) /\ pc[e] = "idle" /\ UNCHANGED commandVars /\ way' = way
        BY <2>3, <3>2 DEF FindContainer, sandboxVars
      <4> HIDE DEF s
      <4>3. QED BY <4>1, <4>2, MoveKeeps
    <3>3. QED BY <2>3, <3>1, <3>2 DEF FindContainer
  <2>4. CASE StartContainer(e)
    <3>1. CASE ExecFails(e) BY <3>1, FailKeeps
    <3>2. CASE Goto(e, "creating") /\ UNCHANGED <<way, task, stopping, kills, commandVars>>
      <4>1. pc[e] \in Unattached /\ "creating" \in Unattached BY <2>4 DEF StartContainer, Unattached
      <4>2. way' = way /\ UNCHANGED commandVars BY <3>2
      <4>3. QED BY <3>2, <4>1, <4>2, MoveKeeps
    <3>3. QED BY <2>4, <3>1, <3>2 DEF StartContainer
  <2>5. CASE CreateExec(e)
    <3>1. CASE ExecFails(e) BY <3>1, FailKeeps
    <3>2. CASE Goto(e, "attaching") /\ UNCHANGED <<sandboxVars, commandVars>>
      <4>1. pc[e] \in Unattached /\ "attaching" \in Unattached BY <2>5 DEF CreateExec, Unattached
      <4>2. way' = way /\ UNCHANGED commandVars BY <3>2 DEF sandboxVars
      <4>3. QED BY <3>2, <4>1, <4>2, MoveKeeps
    <3>3. QED BY <2>5, <3>1, <3>2 DEF CreateExec
  <2>6. CASE StartExec(e)
    <3>1. CASE ExecFails(e) BY <3>1, FailKeeps
    <3>2. CASE StartCommand(e) /\ UNCHANGED <<sandboxVars, cmd, taken, told, lost>>
      <4>1. pc[e] \in Unattached BY <2>6 DEF StartExec, Unattached
      <4>2. UNCHANGED <<way, cmd, taken, told, lost>> BY <3>2 DEF sandboxVars
      <4>3. QED BY <3>2, <4>1, <4>2, StartCommandKeeps
    <3>3. QED BY <2>6, <3>1, <3>2 DEF StartExec
  <2>7. CASE \E n \in DOMAIN left[e] : ReadChunk(e, n) \/ ReadFrame(e, n)
    BY <2>7, ReadChunkKeeps, ReadFrameKeeps
  <2>8. CASE StreamCloses(e) BY <2>8, StreamClosesKeeps
  <2>9. CASE InspectExec(e) BY <2>9, InspectExecKeeps
  <2>10. CASE ExecTimesOut(e)
    <3>1. Goto(e, "rejected") /\ way' = way /\ UNCHANGED commandVars BY <2>10 DEF ExecTimesOut
    <3>2. QED BY <3>1, MoveKeeps
  <2>11. CASE ExecuteCommand(e)
    <3>1. CASE ExecFails(e) BY <3>1, FailKeeps
    <3>2. CASE StartCommand(e) /\ UNCHANGED <<sandboxVars, cmd, taken, told, lost>>
      <4>1. pc[e] \in Unattached BY <2>11 DEF ExecuteCommand, Unattached
      <4>2. UNCHANGED <<way, cmd, taken, told, lost>> BY <3>2 DEF sandboxVars
      <4>3. QED BY <3>2, <4>1, <4>2, StartCommandKeeps
    <3>3. QED BY <2>11, <3>1, <3>2 DEF ExecuteCommand
  <2>12. CASE ChannelCloses(e) BY <2>12, ChannelClosesKeeps
  <2>13. CASE SocketCloses(e) BY <2>13, SocketClosesKeeps
  <2>14. QED
    BY <2>1, <2>2, <2>3, <2>4, <2>5, <2>6, <2>7, <2>8, <2>9, <2>10, <2>11, <2>12, <2>13
<1>2. CASE KillContainer
  <2>1. UNCHANGED <<way, cmd, pc, taken, told, lost>> BY <1>2 DEF KillContainer
  <2>2. CASE Stop BY <2>1, <2>2, CommandsStop
  <2>3. CASE UNCHANGED <<left, ended>> BY <2>1, <2>3, CallsStay
  <2>4. QED BY <1>2, <2>2, <2>3 DEF KillContainer
<1>3. CASE BeginStop BY <1>3, CallsStay DEF BeginStop, commandVars
<1>4. CASE StopTask
  <2>1. UNCHANGED <<way, cmd, pc, taken, told, lost>> BY <1>4 DEF StopTask
  <2>2. CASE Stop BY <2>1, <2>2, CommandsStop
  <2>3. CASE UNCHANGED <<left, ended>> BY <2>1, <2>3, CallsStay
  <2>4. QED BY <1>4, <2>2, <2>3 DEF StopTask
<1>5. CASE TaskEnds BY <1>5, CommandsStop DEF TaskEnds
<1>6. QED BY <1>1, <1>2, <1>3, <1>4, <1>5 DEF ExecutionsNext

\* No call was made yet.
LEMMA ExecutionsAtRest == ExecutionsInit \/ ExecutionsRest => ExecInv
<1> SUFFICES ASSUME ExecutionsInit \/ ExecutionsRest PROVE ExecInv OBVIOUS
<1>1. AtRest /\ way \in {"local", "cloud"} BY CommandsAssumption DEF ExecutionsInit, ExecutionsRest
<1>2. ByCall(cmd) /\ \A e \in Execs : cmd[e] \in Commands \cup {NoCommand}
  BY DEF ExecutionsInit, ExecutionsRest, ByCall
<1>3. \A c \in Commands : Commanded(c)
  <2>1. Writes \subseteq Pieces
    <3>1. STRING \subseteq Glyphs BY DEF Glyphs
    <3>2. QED BY <3>1 DEF Writes, Pieces
  <2>2. Seq(Writes) \subseteq Seq(Pieces) BY <2>1, SeqMonotonic
  <2>3. QED BY <2>2, CommandsAssumption DEF Commanded
<1>4. Commanded(NoCommand)
  <2>1. NoCommand.writes = <<>> /\ NoCommand.code = <<"0">> /\ NoCommand.appends = TRUE
    BY DEF NoCommand, Zero
  <2>2. "0" \in Digits BY DEF Digits
  <2>3. <<"0">> \in Seq(Digits) /\ <<"0">> # <<>> BY <2>2
  <2>4. <<>> \in Seq(Pieces) OBVIOUS
  <2>5. QED BY <2>1, <2>3, <2>4 DEF Commanded
<1>5. ExecTyped BY <1>1, <1>2 DEF ExecTyped, ByCall, AtRest
<1>6. ASSUME NEW e \in Execs PROVE CallOf(e)
  <2>1. Commanded(cmd[e]) BY <1>2, <1>3, <1>4
  <2>2. pc[e] = "idle" /\ ended[e] = NotStarted /\ taken[e] = <<>> BY <1>1 DEF AtRest
  <2>3. QED BY <2>1, <2>2 DEF CallOf, CallInv, Unattached
<1>7. QED BY <1>5, <1>6 DEF ExecInv

\* What the invariant says of a call that was reported is what its caller was promised.
LEMMA ExecInvTells == ExecInv => ExecutionsTrue
<1> SUFFICES ASSUME ExecInv PROVE ExecutionsTrue OBVIOUS
<1>1. ASSUME NEW e \in Reported
      PROVE  RightlyTold(way, cmd[e], taken[e], ended[e], told[e], lost[e]) /\ lost[e] \in BOOLEAN
  BY DEF Reported, ExecInv, ExecTyped, CallOf, CallInv
<1>2. LocalResultsTrue BY <1>1 DEF LocalResultsTrue, RightlyTold
<1>3. CloudCodesExplained BY <1>1 DEF CloudCodesExplained, RightlyTold
<1>4. QED BY <1>2, <1>3 DEF ExecutionsTrue

\* What a caller is told of its command, whatever cut the frames, timed out, stopped or
\* was lost: in a local sandbox the code and the output of that command, as far as its
\* connection brought it; in the cloud its code, or the beginning of it, unless the
\* command itself wrote the sentinel, and 0 where none was read (exec of both managers).
THEOREM ExecutionsTrueHolds == Spec => []ExecutionsTrue
<1>1. Init => ExecInv BY ExecutionsAtRest DEF Init, RestBut
<1>2. ExecInv /\ [Next]_partsVars => ExecInv'
  <2> SUFFICES ASSUME ExecInv, [Next]_partsVars PROVE ExecInv' OBVIOUS
  <2>1. CASE ExecutionsNext BY <2>1, ExecutionsStep
  <2>2. CASE UNCHANGED executionVars BY <2>2, CallsStay DEF executionVars
  <2>3. QED BY <2>1, <2>2 DEF Next, StillBut, partsVars
<1>3. QED BY <1>1, <1>2, ExecInvTells, PTL DEF Spec
=============================================================================
