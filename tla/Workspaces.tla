----------------------------- MODULE Workspaces -----------------------------
(***************************************************************************)
(* Where the files of a repository are: the user's directory or the worktree   *)
(* of a session (packages/git), the sandbox seeded from it (packages/sandbox,   *)
(* sandbox-factory.ts), and the commits.  A validated sandbox is copied to the   *)
(* host and committed, by the engine and by the merge of the workers of a        *)
(* coordinator (session-controller.ts); a checkpoint is restored on the host.   *)
(* Every command is awaited, and any may fail.                                 *)
(*                                                                         *)
(* A file is regions of lines far enough apart that each is a hunk of its own;  *)
(* a region's value is the set of lines written to it, {} where the file is not *)
(* there.  Not represented: fuzzy matches, the paths .git and node_modules that  *)
(* are not seeded, renames in a worker's patch, and that a merge which finds a   *)
(* file missing applies nothing after it, before it fails.                      *)
(***************************************************************************)
EXTENDS Integers, Sequences, SequencesExt, FiniteSetsExt, Functions

CONSTANTS
  WorkSessions,  \* session ids
  OldRegions,    \* <<file, region>> of the files there are at first
  NewRegions,    \* and of those that are not: one region each
  Newcomers,     \* bound: the sessions created
  MaxLines,      \* bound: lines written, by agents or users
  MaxTasks,      \* bound: validations begun
  MaxRestores    \* bound: checkpoints restored

Regions == OldRegions \cup NewRegions
FilesOf(regions) == {r[1] : r \in regions}

ASSUME WorkspacesAssumption ==
  /\ FilesOf(OldRegions) \cap FilesOf(NewRegions) = {}
  /\ \A r, q \in NewRegions : r[1] = q[1] => r = q
  /\ WorkSessions \cap {"repo", "none"} = {} /\ Newcomers \subseteq WorkSessions
  /\ IsFiniteSet(WorkSessions) /\ WorkSessions # {}
  /\ {MaxLines, MaxTasks, MaxRestores} \subseteq Nat

VARIABLES
  place,        \* [session -> its directory: "repo", or its own worktree; "none" before]
  startHash,    \* start_checkpoint_hash
  dirs, staged, tip,  \* of each directory: its files, its index, its HEAD
  commits,      \* sequence of files
  box,          \* the sandboxes
  work,         \* [session -> the validation or merge at work]
  checkpoints,  \* git_checkpoints, in their order
  lines, tasks, restores

workspaceVars == <<place, startHash, dirs, staged, tip, commits, box, work, checkpoints,
                   lines, tasks, restores>>
hostVars == <<dirs, staged, tip, commits>>

Places == {"repo"} \cup WorkSessions
First   == [r \in Regions |-> IF r \in OldRegions THEN {0} ELSE {}]
Nothing == [r \in Regions |-> {}]
Emptied == {-1}   \* the file is there and says nothing

\* touched: something else wrote to the sandbox or to the directory since it was tested.
NoTask == [step |-> "none", merges |-> {}, patches |-> <<>>, files |-> {}, before |-> Nothing,
           tested |-> Nothing, touched |-> FALSE]

Fresh ==
  /\ place = [s \in WorkSessions |-> "none"] /\ startHash = [s \in WorkSessions |-> 0]
  /\ dirs = [p \in Places |-> IF p = "repo" THEN First ELSE Nothing]
  /\ staged = dirs
  /\ tip = [p \in Places |-> 1]
  /\ commits = <<First>>
  /\ box = [s \in WorkSessions |-> Nothing]
  /\ checkpoints = <<>>

\* Every session but one, which works in the repository, has changed regions of its
\* worktree and committed them.
Workers == Tail(SetToSeq(WorkSessions))
Worked(changes) ==
  LET Of(i) == [r \in Regions |-> IF r \in changes[i] THEN {MaxLines + i} ELSE First[r]]
      At(x, own) == [s \in WorkSessions |->
                       IF s \in Range(Workers) THEN own[CHOOSE i \in DOMAIN Workers : Workers[i] = s] ELSE x]
      works == [i \in DOMAIN Workers |-> Of(i)]
  IN /\ place = At("repo", Workers) /\ startHash = [s \in WorkSessions |-> 1]
     /\ commits = <<First>> \o works
     /\ box = At(First, works)
     /\ dirs = [p \in Places |-> IF p = "repo" THEN First ELSE box[p]] /\ staged = dirs
     /\ tip = [p \in Places |-> IF p = "repo" THEN 1 ELSE At(1, [i \in DOMAIN Workers |-> i + 1])[p]]
     /\ checkpoints = [i \in DOMAIN Workers |->
          [session |-> Workers[i], hash |-> i + 1, conflicts |-> {},
           work |-> [NoTask EXCEPT !.before = works[i], !.tested = works[i]]]]

NoWork == work = [s \in WorkSessions |-> NoTask]

WorkspacesRest ==
  Fresh /\ NoWork /\ lines = MaxLines /\ tasks = MaxTasks /\ restores = MaxRestores

\* The bounds are smaller where workers have worked already.
WorkspacesInit ==
  /\ \/ Fresh /\ tasks = 0 /\ restores = 0
     \/ (\E changes \in [DOMAIN Workers -> SUBSET Regions \ {{}}] : Worked(changes))
        /\ tasks = MaxTasks - 1 /\ restores = MaxRestores
  /\ NoWork /\ lines = 0

\* Of the tasks at work, those that concern sandbox or directory are touched.
Touched(sessions, f) ==
  [s \in WorkSessions |-> IF s \in sessions /\ f[s].step # "none"
                          THEN [f[s] EXCEPT !.touched = TRUE] ELSE f[s]]
Sharing(s) == {t \in WorkSessions : place[t] = place[s]} \ {s}

-----------------------------------------------------------------------------
(* Sessions, agents and users. *)

\* createSession reads HEAD; the worktree is made of what HEAD is by then.
ReadStart(s) ==
  /\ s \in Newcomers /\ place[s] = "none" /\ startHash[s] = 0
  /\ startHash' = [startHash EXCEPT ![s] = tip["repo"]]
  /\ UNCHANGED <<place, hostVars, box, work, checkpoints, lines, tasks, restores>>

CreateWorkspace(s, worktree) ==
  /\ place[s] = "none" /\ startHash[s] # 0
  /\ IF worktree
     THEN /\ place' = [place EXCEPT ![s] = s]
          /\ tip' = [tip EXCEPT ![s] = tip["repo"]]
          /\ dirs' = [dirs EXCEPT ![s] = commits[tip["repo"]]]
          /\ staged' = [staged EXCEPT ![s] = commits[tip["repo"]]]
          /\ box' = [box EXCEPT ![s] = commits[tip["repo"]]]
     ELSE /\ place' = [place EXCEPT ![s] = "repo"]
          /\ box' = [box EXCEPT ![s] = dirs["repo"]]
          /\ UNCHANGED <<dirs, staged, tip>>
  /\ UNCHANGED <<startHash, commits, work, checkpoints, lines, tasks, restores>>

\* An applied diff, a tool of a conversation or a command changes the sandbox.
WriteSandbox(s, r) ==
  /\ place[s] # "none" /\ lines < MaxLines
  /\ lines' = lines + 1
  /\ box' = [box EXCEPT ![s][r] = {lines + 1}]
  /\ work' = Touched({s}, work)
  /\ UNCHANGED <<place, startHash, hostVars, checkpoints, tasks, restores>>

\* A command removes a file in the sandbox.
RemoveInSandbox(s, file) ==
  /\ place[s] # "none" /\ lines < MaxLines
  /\ lines' = lines + 1
  /\ box' = [box EXCEPT ![s] = [r \in Regions |-> IF r[1] = file THEN {} ELSE @[r]]]
  /\ work' = Touched({s}, work)
  /\ UNCHANGED <<place, startHash, hostVars, checkpoints, tasks, restores>>

\* The user edits a file of the repository, or commits what there is.
EditHost(r) ==
  /\ lines < MaxLines
  /\ lines' = lines + 1
  /\ dirs' = [dirs EXCEPT !["repo"][r] = {lines + 1}]
  /\ work' = Touched({s \in WorkSessions : place[s] = "repo"}, work)
  /\ UNCHANGED <<place, startHash, staged, tip, commits, box, checkpoints, tasks, restores>>

\* git reset --hard: the index and the files it or the commit has; the sandbox stays.
Restore(s, hash) ==
  /\ place[s] # "none" /\ restores < MaxRestores
  /\ restores' = restores + 1
  /\ LET p == place[s]
         Tracked(r) == commits[hash][r] # {} \/ staged[p][r] # {}
     IN /\ dirs' = [dirs EXCEPT ![p] = [r \in Regions |-> IF Tracked(r) THEN commits[hash][r] ELSE @[r]]]
        /\ staged' = [staged EXCEPT ![p] = commits[hash]]
        /\ tip' = [tip EXCEPT ![p] = hash]
        /\ work' = Touched({s} \cup Sharing(s), work)
  /\ UNCHANGED <<place, startHash, commits, box, checkpoints, lines, tasks>>

-----------------------------------------------------------------------------
(* Validation, and the merge of workers. *)

AtStep(s, step) == [work[s] EXCEPT !.step = step]
TaskFails(s) ==
  /\ work[s].step # "none"
  /\ work' = [work EXCEPT ![s] = NoTask]
  /\ UNCHANGED <<place, startHash, hostVars, box, checkpoints, lines, tasks, restores>>

BeginWork(s, record) ==
  /\ place[s] # "none" /\ work[s] = NoTask /\ tasks < MaxTasks
  /\ tasks' = tasks + 1
  /\ work' = [work EXCEPT ![s] = record]

BeginValidate(s) ==
  /\ BeginWork(s, [NoTask EXCEPT !.step = "testing", !.before = box[s]])
  /\ UNCHANGED <<place, startHash, hostVars, box, checkpoints, lines, restores>>

\* The waiter asks for one checkpoint of a worker and is given the oldest; the patch is
\* what changed since the worker's start.
OwnCheckpoints(w) == {i \in DOMAIN checkpoints : checkpoints[i].session = w}
HasCheckpoint(w) == OwnCheckpoints(w) # {}
FirstHash(w) == checkpoints[Min(OwnCheckpoints(w))].hash
WorkerPatch(w) ==
  LET from == commits[startHash[w]] to == commits[FirstHash(w)]
  IN [r \in {q \in Regions : from[q] # to[q]} |-> [old |-> from[r], new |-> to[r]]]

\* integrateWorkerResults: the patches of the workers that are done, in their order.
BeginMerge(s, workers) ==
  /\ s \notin workers /\ \A w \in workers : HasCheckpoint(w)
  /\ LET order == SetToSeq(workers)
     IN BeginWork(s, [NoTask EXCEPT !.step = "applying", !.merges = workers, !.before = box[s],
                                !.patches = [i \in DOMAIN order |-> WorkerPatch(order[i])]])
  /\ UNCHANGED <<place, startHash, hostVars, box, checkpoints, lines, restores>>

\* A file of a patch is patched if each of its hunks is found.  A file that is new to the
\* worker has none to find, it is written whole; one that is removed is left empty.
Applies(b, patch, file) ==
  \A r \in DOMAIN patch : r[1] = file => patch[r].old \in {{}, b[r]}
Written(change) == IF change.new = {} THEN Emptied ELSE change.new
Patched(b, patch) ==
  [r \in Regions |-> IF r \in DOMAIN patch /\ Applies(b, patch, r[1]) THEN Written(patch[r]) ELSE b[r]]

\* DiffEngine.apply: file by file; those that fail are passed over, and the merge fails.
ApplyOne(done, patch) ==
  [box |-> Patched(done.box, patch),
   failed |-> done.failed \/ \E r \in DOMAIN patch : ~Applies(done.box, patch, r[1])]
ApplyAll(b, patches) == FoldLeft(ApplyOne, [box |-> b, failed |-> FALSE], patches)

ApplyPatches(s) ==
  /\ work[s].step = "applying"
  /\ LET done == ApplyAll(box[s], work[s].patches)
     IN /\ box' = [box EXCEPT ![s] = done.box]
        /\ work' = [work EXCEPT ![s] = IF done.failed THEN NoTask ELSE AtStep(s, "testing")]
  /\ UNCHANGED <<place, startHash, hostVars, checkpoints, lines, tasks, restores>>

\* The tests pass on the sandbox as it is.
TestsPass(s) ==
  /\ work[s].step = "testing"
  /\ work' = [work EXCEPT ![s] = [AtStep(s, "syncing") EXCEPT
                !.tested = box[s], !.files = FilesOf({r \in Regions : box[s][r] # {}})]]
  /\ UNCHANGED <<place, startHash, hostVars, box, checkpoints, lines, tasks, restores>>

\* syncToHost: a file that is in the sandbox is copied; nothing is removed.
SyncFile(s, file) ==
  /\ work[s].step = "syncing" /\ file \in work[s].files
  /\ dirs' = [dirs EXCEPT ![place[s]] =
                [r \in Regions |-> IF r[1] = file /\ box[s][r] # {} THEN box[s][r] ELSE @[r]]]
  /\ work' = [Touched(Sharing(s), work) EXCEPT ![s].files = @ \ {file}]
  /\ UNCHANGED <<place, startHash, staged, tip, commits, box, checkpoints, lines, tasks, restores>>

\* Mutated form: git add of the files git knows.
AddTracked(s) ==
  /\ work[s].step = "syncing" /\ work[s].files = {}
  /\ staged' = [staged EXCEPT ![place[s]] =
                  [r \in Regions |-> IF @[r] = {} THEN {} ELSE dirs[place[s]][r]]]
  /\ work' = [work EXCEPT ![s] = AtStep(s, "committing")]
  /\ UNCHANGED <<place, startHash, dirs, tip, commits, box, checkpoints, lines, tasks, restores>>

\* git add -A.
Add(s) ==
  /\ work[s].step = "syncing" /\ work[s].files = {}
  /\ staged' = [staged EXCEPT ![place[s]] = dirs[place[s]]]
  /\ work' = [work EXCEPT ![s] = AtStep(s, "committing")]
  /\ UNCHANGED <<place, startHash, dirs, tip, commits, box, checkpoints, lines, tasks, restores>>

\* git commit: nothing, when nothing was staged.
Commit(s) ==
  /\ work[s].step = "committing"
  /\ LET p == place[s] IN
     IF staged[p] = commits[tip[p]] THEN UNCHANGED <<commits, tip>>
     ELSE commits' = Append(commits, staged[p]) /\ tip' = [tip EXCEPT ![p] = Len(commits) + 1]
  /\ work' = [Touched(Sharing(s), work) EXCEPT ![s].step = "reading"]
  /\ UNCHANGED <<place, startHash, dirs, staged, box, checkpoints, lines, tasks, restores>>

\* The files a patch names as the new ones, and those that more than one patch names.
NamedFiles(patch) == FilesOf({r \in DOMAIN patch : patch[r].new # {}})
SeveralChange(patches, file) ==
  \E i, j \in DOMAIN patches : i # j /\ file \in NamedFiles(patches[i]) \cap NamedFiles(patches[j])

\* git rev-parse HEAD, and the row; for a merge, the files that more than one changed.
ReadHead(s) ==
  /\ work[s].step = "reading"
  /\ checkpoints' = Append(checkpoints,
       [session |-> s, hash |-> tip[place[s]], work |-> work[s],
        conflicts |-> {f \in FilesOf(Regions) : SeveralChange(work[s].patches, f)}])
  /\ work' = [work EXCEPT ![s] = NoTask]
  /\ UNCHANGED <<place, startHash, hostVars, box, lines, tasks, restores>>

WorkspacesNext ==
  \/ \E s \in WorkSessions :
       \/ ReadStart(s) \/ \E worktree \in BOOLEAN : CreateWorkspace(s, worktree)
       \/ \E r \in Regions : WriteSandbox(s, r)
       \/ \E file \in FilesOf(NewRegions) : RemoveInSandbox(s, file)
       \/ \E hash \in DOMAIN commits : Restore(s, hash)
       \/ BeginValidate(s)
       \/ \E workers \in SUBSET WorkSessions : workers # {} /\ BeginMerge(s, workers)
       \/ ApplyPatches(s) \/ TestsPass(s)
       \/ \E file \in FilesOf(Regions) : SyncFile(s, file)
       \/ Add(s) \/ Commit(s) \/ ReadHead(s) \/ TaskFails(s)
  \/ \E r \in Regions : EditHost(r)

-----------------------------------------------------------------------------
\* checkpoint: what a session recorded as validated is a commit that holds every file as
\* the tests saw it, unless something else wrote to its sandbox or to its directory in
\* the meantime; a file the sandbox no longer had may still be in it.
CheckpointsTested ==
  \A i \in DOMAIN checkpoints :
    LET c == checkpoints[i] IN
    /\ c.hash \in DOMAIN commits
    /\ ~c.work.touched =>
         \A r \in Regions : c.work.tested[r] # {} => commits[c.hash][r] = c.work.tested[r]

\* integrateWorkerResults: a merge that was recorded holds each region as each worker had
\* made it, unless a later patch changed it again; that is reported as a conflict of the
\* file but where one of the two removed it.  It holds what else the coordinator had.
MergesWhole ==
  \A i \in DOMAIN checkpoints :
    LET c == checkpoints[i] t == c.work files == commits[c.hash]
        Changing(r) == {k \in DOMAIN t.patches : r \in DOMAIN t.patches[k]}
    IN ~t.touched => \A r \in Regions :
         /\ Changing(r) = {} /\ t.before[r] # {} => files[r] = t.before[r]
         /\ \A k \in Changing(r) :
              \/ files[r] = Written(t.patches[k][r])
              \/ \E j \in Changing(r) :
                   /\ j > k
                   /\ r[1] \in c.conflicts \/ {} \in {t.patches[k][r].new, t.patches[j][r].new}

CheckpointsTrue == CheckpointsTested /\ MergesWhole
=============================================================================
