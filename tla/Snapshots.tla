------------------------------ MODULE Snapshots ------------------------------
(***************************************************************************)
(* The file snapshots of one session: snapshot-controller.ts reads files     *)
(* from the sandbox and writes them back, packages/snapshots keeps them by    *)
(* turn, db/stores.ts holds the rows and evicts the oldest turns.  A turn is  *)
(* saved around a diff or after a tool that writes; a client may restore one  *)
(* at any time; every call to the sandbox and to the store is awaited.        *)
(*                                                                         *)
(* The content of a file is a text, Empty, or Absent; a file that is not      *)
(* UTF-8 text, which a save garbles, is not represented.  The sandbox's exec  *)
(* answers with a stdout, as in the tests, or with an output stream, as the   *)
(* sandbox managers do, which the controller takes for an empty file.         *)
(***************************************************************************)
EXTENDS Integers, Sequences, FiniteSetsExt, Functions

CONSTANTS
  Paths, Outside,  \* safe paths, and one isSafeRelativePath refuses
  Texts,
  Answers,         \* what exec answers with: {"stdout", "output"}
  KeepTurns,
  MaxTurns,        \* bound: turns saved
  MaxWrites,       \* bound: files written by tools
  MaxRestarts      \* bound: restarts of the daemon

Empty  == "empty"
Absent == "absent"
Contents == Texts \cup {Empty, Absent}

ASSUME SnapshotBounds ==
  /\ Outside \notin Paths /\ {Empty, Absent} \cap Texts = {} /\ Texts # {}
  /\ Answers \subseteq {"stdout", "output"}
  /\ {KeepTurns, MaxTurns, MaxWrites, MaxRestarts} \subseteq Nat

VARIABLES
  answers,
  files,       \* the sandbox
  snapshots,   \* file_snapshots: [<<turn, path>> -> content]
  turn,        \* #snapshotTurn of the engine, #snapshotTurnIndexes of the conversations
  saving,      \* a saveFilesFromSandbox at work
  restoring,   \* a restoreToSandbox at work
  evicting,    \* the threshold of an evict between its statements, or -1 - KeepTurns
  writes, restarts,
  read         \* history: what a save last read, per turn and path it has stored

snapshotVars ==
  <<answers, files, snapshots, turn, saving, restoring, evicting, writes, restarts, read>>

NoSave    == [step |-> "none", turn |-> 0, todo |-> {}, found |-> <<>>, existing |-> <<>>]
NoRestore == [step |-> "none", turn |-> 0, todo |-> <<>>, expected |-> <<>>, alone |-> FALSE]
NotEvicting == 0 - 1 - KeepTurns

SnapshotsRest ==
  /\ answers = "output"
  /\ files = [p \in Paths |-> Absent]
  /\ snapshots = <<>> /\ turn = 0
  /\ saving = NoSave /\ restoring = NoRestore /\ evicting = NotEvicting
  /\ writes = 0 /\ restarts = 0
  /\ read = <<>>

SnapshotsInit ==
  /\ answers \in Answers
  /\ files = [p \in Paths |-> CHOOSE t \in Texts : TRUE]
  /\ snapshots = <<>> /\ turn = 0
  /\ saving = NoSave /\ restoring = NoRestore /\ evicting = NotEvicting
  /\ writes = 0 /\ restarts = 0
  /\ read = <<>>

\* The rows of a turn, by path: restore of both file snapshot stores.
RestoreRows(t) ==
  LET saved == {key[2] : key \in {k \in DOMAIN snapshots : k[1] = t}}
  IN [p \in saved |-> snapshots[<<t, p>>]]

listTurns == {key[1] : key \in DOMAIN snapshots}

With(f, k, v) == [x \in DOMAIN f \cup {k} |-> IF x = k THEN v ELSE f[x]]

-----------------------------------------------------------------------------
\* A tool, a diff or the user writes a file.
WriteFile(p, content) ==
  /\ writes < MaxWrites
  /\ writes' = writes + 1
  /\ files' = [files EXCEPT ![p] = content]
  /\ restoring' = [restoring EXCEPT !.alone = FALSE]
  /\ UNCHANGED <<answers, snapshots, turn, saving, evicting, restarts, read>>

-----------------------------------------------------------------------------
(* Saving a turn. *)

Saver == UNCHANGED <<answers, files, restoring, evicting, writes, restarts>>

\* The turn is numbered, and its unsafe paths dropped.
BeginSave(paths) ==
  /\ saving = NoSave
  /\ turn < MaxTurns
  /\ turn' = turn + 1
  /\ saving' = [NoSave EXCEPT !.step = "reading", !.turn = turn, !.todo = paths \cap Paths]
  /\ UNCHANGED <<snapshots, read>>
  /\ Saver

\* What execStdout makes of the answer: "" for a file that is absent or empty.
Stdout(p) == IF answers = "stdout" /\ files[p] \in Texts THEN files[p] ELSE Empty

ReadFile(p) ==
  /\ saving.step = "reading" /\ p \in saving.todo
  /\ saving' = [saving EXCEPT !.todo = @ \ {p},
                              !.found = IF Stdout(p) = Empty THEN @ ELSE With(@, p, Stdout(p))]
  /\ UNCHANGED <<snapshots, turn, read>>
  /\ Saver

\* SnapshotStore.save asks for what the turn has already, if there is anything to save.
ReadExisting ==
  /\ saving.step = "reading" /\ saving.todo = {}
  /\ saving' = IF saving.found = <<>> THEN NoSave
               ELSE [saving EXCEPT !.step = "storing", !.todo = DOMAIN saving.found,
                                   !.existing = RestoreRows(saving.turn)]
  /\ UNCHANGED <<snapshots, turn, read>>
  /\ Saver

Unchanged(p) == p \in DOMAIN saving.existing /\ saving.existing[p] = saving.found[p]

\* Mutant: the file is read a second time to be stored.
StoreReadAgain(p) ==
  /\ saving.step = "storing" /\ p \in saving.todo
  /\ LET key == <<saving.turn, p>> IN
     /\ snapshots' = IF Unchanged(p) THEN snapshots ELSE With(snapshots, key, files[p])
     /\ read' = With(read, key, saving.found[p])
  /\ saving' = IF saving.todo = {p} THEN NoSave ELSE [saving EXCEPT !.todo = @ \ {p}]
  /\ UNCHANGED turn
  /\ Saver

\* A file whose hash the turn has is skipped, another is inserted or replaced.
StoreFile(p) ==
  /\ saving.step = "storing" /\ p \in saving.todo
  /\ LET key == <<saving.turn, p>> IN
     /\ snapshots' = IF Unchanged(p) THEN snapshots ELSE With(snapshots, key, saving.found[p])
     /\ read' = With(read, key, saving.found[p])
  /\ saving' = IF saving.todo = {p} THEN NoSave ELSE [saving EXCEPT !.todo = @ \ {p}]
  /\ UNCHANGED turn
  /\ Saver

\* exec or the store rejects: the files of the turn saved so far stay.
SaveFails ==
  /\ saving # NoSave
  /\ saving' = NoSave
  /\ UNCHANGED <<snapshots, turn, read>>
  /\ Saver

-----------------------------------------------------------------------------
(* Restoring. *)

Restorer == UNCHANGED <<answers, snapshots, turn, saving, evicting, writes, restarts, read>>

BeginRestore(t) ==
  /\ restoring = NoRestore
  /\ restoring' = [step |-> "writing", turn |-> t, todo |-> RestoreRows(t), alone |-> TRUE,
                    expected |-> [p \in DOMAIN RestoreRows(t) |-> read[<<t, p>>]]]
  /\ UNCHANGED files
  /\ Restorer

RestoreFile(p) ==
  /\ restoring.step = "writing" /\ p \in DOMAIN restoring.todo
  /\ files' = [files EXCEPT ![p] = restoring.todo[p]]
  /\ restoring' = [restoring EXCEPT !.todo = Restrict(@, DOMAIN @ \ {p})]
  /\ Restorer

\* It has come to its end, or exec rejected half-way.
EndRestore ==
  /\ \/ /\ restoring.step = "writing" /\ restoring.todo = <<>>
        /\ restoring' = [restoring EXCEPT !.step = "done"]
     \/ restoring # NoRestore /\ restoring' = NoRestore
  /\ UNCHANGED files
  /\ Restorer

-----------------------------------------------------------------------------
(* Eviction, when the session is destroyed. *)

MaxTurn == Max(listTurns \cup {0 - 1})

ReadMax ==
  /\ evicting = NotEvicting
  /\ MaxTurn >= 0
  /\ evicting' = MaxTurn - KeepTurns
  /\ UNCHANGED <<answers, files, snapshots, turn, saving, restoring, writes, restarts, read>>

DeleteOld ==
  /\ evicting # NotEvicting
  /\ LET kept == {k \in DOMAIN snapshots : k[1] >= evicting} IN
     snapshots' = Restrict(snapshots, kept)
  /\ evicting' = NotEvicting
  /\ UNCHANGED <<answers, files, turn, saving, restoring, writes, restarts, read>>

\* The daemon starts again, and numbers turns from 0.
Restart ==
  /\ restarts < MaxRestarts
  /\ restarts' = restarts + 1
  /\ turn' = 0
  /\ saving' = NoSave /\ restoring' = NoRestore /\ evicting' = NotEvicting
  /\ UNCHANGED <<answers, files, snapshots, writes, read>>

SnapshotsNext ==
  \/ \E p \in Paths, content \in Contents : WriteFile(p, content)
  \/ \E paths \in SUBSET (Paths \cup {Outside}) : BeginSave(paths)
  \/ \E p \in Paths : ReadFile(p) \/ StoreFile(p) \/ RestoreFile(p)
  \/ ReadExisting \/ SaveFails
  \/ \E t \in 0..MaxTurns : BeginRestore(t)
  \/ EndRestore \/ ReadMax \/ DeleteOld \/ Restart

-----------------------------------------------------------------------------
SnapshotsTypeOK ==
  /\ files \in [Paths -> Contents]
  /\ DOMAIN snapshots \subseteq (0..MaxTurns) \X Paths
  /\ Range(snapshots) \subseteq Texts
  /\ turn \in 0..MaxTurns /\ writes \in 0..MaxWrites /\ restarts \in 0..MaxRestarts
  /\ evicting \in NotEvicting..MaxTurns
  /\ saving.step \in {"none", "reading", "storing"}
  /\ restoring.step \in {"none", "writing", "done"}

\* A restore nothing wrote beside leaves every file of its turn as the last save
\* of that turn had read it, whatever was saved or evicted around it, and though
\* a daemon that was started again numbers its turns from 0 again.
RestoresWhatWasRead ==
  /\ SnapshotsTypeOK
  /\ restoring.step = "done" /\ restoring.alone =>
       \A p \in DOMAIN restoring.expected : files[p] = restoring.expected[p]
=============================================================================
