-------------------------- MODULE SessionLifecycle --------------------------
(***************************************************************************)
(* What a session is made of, and how it comes and goes: createSession and  *)
(* destroySession (iquantum-daemon/src/session-controller.ts) with the      *)
(* worktree (packages/git), the container and volume of the local manager   *)
(* (packages/sandbox) or the ECS task and directory of the cloud one        *)
(* (sandbox-factory.ts), the row and those that reference it (db/stores.ts, *)
(* db/schema.ts), the live entry, and the billing timer of the routes in    *)
(* server.ts.                                                               *)
(*                                                                         *)
(* A creation is a process named by its session, a destruction is one named *)
(* by its call; any number of destructions may concern one session.  pc[x]  *)
(* is the external call process x awaits, and any of them may fail.  A crash*)
(* of the daemon loses the processes and what is memory, nothing else.      *)
(***************************************************************************)
EXTENDS Naturals

CONSTANTS
  Sessions,     \* session ids, each created at most once
  Destroys,     \* DELETE requests, kills
  MaxRestarts,  \* bound: crashes of the daemon (not of the code)
  None

ASSUME MaxRestartsAssumption == MaxRestarts \in Nat
ASSUME NamesAssumption ==
  /\ Sessions \cap Destroys = {}
  /\ None \notin Sessions \cup Destroys

VARIABLES
  cloud,                            \* the mode: ECS sandboxes, organisations to bill
  dirs, branches,                   \* worktree directories, branches
  containers, volumes, known,       \* Docker or ECS and EFS; #sandboxes or #sessions
  rows, parent, billed,             \* sessions, parent_session_id, billing_events
  liveSessions, timers,             \* #liveSessions, BillingTracker #timers
  pc, of,                           \* processes, the session a destroy is for
  restarts,
  wanted, inserted, uncleaned   \* history

diskVars    == <<dirs, branches>>
sandboxVars == <<containers, volumes, known>>
dbVars      == <<rows, parent, billed>>
memoryVars  == <<liveSessions, timers>>
historyVars == <<wanted, inserted, uncleaned>>
lifecycleVars == <<cloud, diskVars, sandboxVars, dbVars, memoryVars, pc, of, restarts, historyVars>>

Procs == Sessions \cup Destroys
Subject(x) == IF x \in Sessions THEN x ELSE of[x]

\* The external calls a process may be waiting for, in the order of the code.
CreateLabels  == {"addWorktree", "createSandbox", "insert", "bill"}
UndoLabels    == {"undoWorktree", "undoBranch"}
RemoveLabels  == {"worktree", "branch", "sandbox", "container", "volume"}
DestroyLabels == {"evict", "row", "clear"}
Waiting == CreateLabels \cup UndoLabels \cup RemoveLabels \cup DestroyLabels
Labels  == Waiting \cup {"ready", "created", "done", "failed", "lost"}

SessionInit ==
  /\ cloud \in BOOLEAN
  /\ dirs = {} /\ branches = {}
  /\ containers = {} /\ volumes = {} /\ known = {}
  /\ rows = {} /\ parent = [s \in Sessions |-> None] /\ billed = {}
  /\ liveSessions = {} /\ timers = {}
  /\ pc = [x \in Procs |-> "ready"] /\ of = [d \in Destroys |-> None]
  /\ restarts = 0
  /\ wanted = {} /\ inserted = {} /\ uncleaned = {}

Goto(x, label) == pc' = [pc EXCEPT ![x] = label]

-----------------------------------------------------------------------------
\* createSession.

\* A client's session has no parent; a child's parent was read before.
BeginCreate(s, p, worktree) ==
  /\ pc[s] = "ready"
  /\ p = None \/ p \in rows
  /\ parent' = [parent EXCEPT ![s] = p]
  /\ wanted' = IF worktree THEN wanted \cup {s} ELSE wanted
  /\ Goto(s, IF worktree THEN "addWorktree" ELSE "createSandbox")
  /\ UNCHANGED <<cloud, diskVars, sandboxVars, rows, billed, memoryVars, of,
                 restarts, inserted, uncleaned>>

\* git worktree add -b makes both or neither.
AddWorktree(s) ==
  /\ pc[s] = "addWorktree"
  /\ \/ /\ dirs' = dirs \cup {s} /\ branches' = branches \cup {s}
        /\ Goto(s, "createSandbox")
     \/ Goto(s, "failed") /\ UNCHANGED diskVars
  /\ UNCHANGED <<cloud, sandboxVars, dbVars, memoryVars, of, restarts, historyVars>>

SandboxBuilt(s) ==
  /\ containers' = containers \cup {s} /\ volumes' = volumes \cup {s}
  /\ known' = known \cup {s}

\* createSandbox rejects; the volume and the container made so far remain.  The
\* cloud one starts its task last.
SandboxHalfBuilt(s) ==
  /\ volumes' \in {volumes, volumes \cup {s}}
  /\ \/ containers' = containers
     \/ ~cloud /\ containers' = containers \cup (volumes' \cap {s})
  /\ uncleaned' = IF s \in volumes' THEN uncleaned \cup {s} ELSE uncleaned
  /\ UNCHANGED known

\* Mutated form: a sandbox that could not be built is not noticed.
CreateSandboxUnchecked(s) ==
  /\ pc[s] = "createSandbox"
  /\ \/ SandboxBuilt(s) /\ UNCHANGED uncleaned
     \/ SandboxHalfBuilt(s)
  /\ Goto(s, "insert")
  /\ UNCHANGED <<cloud, diskVars, dbVars, memoryVars, of, restarts, wanted, inserted>>

\* A failure only removes the worktree.
CreateSandbox(s) ==
  /\ pc[s] = "createSandbox"
  /\ \/ SandboxBuilt(s) /\ Goto(s, "insert") /\ UNCHANGED uncleaned
     \/ SandboxHalfBuilt(s) /\ Goto(s, "undoWorktree")
  /\ UNCHANGED <<cloud, diskVars, dbVars, memoryVars, of, restarts, wanted, inserted>>

\* Mutated form: the catch of the insert only rethrows.
InsertNoRollback(s) ==
  /\ pc[s] = "insert"
  /\ \/ /\ parent[s] = None \/ parent[s] \in rows
        /\ rows' = rows \cup {s} /\ inserted' = inserted \cup {s} /\ liveSessions' = liveSessions \cup {s}
        /\ Goto(s, IF cloud /\ parent[s] = None THEN "bill" ELSE "created")
     \/ Goto(s, "failed") /\ UNCHANGED <<rows, inserted, liveSessions>>
  /\ UNCHANGED <<cloud, diskVars, sandboxVars, parent, billed, timers, of, restarts,
                 wanted, uncleaned>>

\* The row is inserted, unless its parent's is gone, and the session goes live;
\* the catch removes the worktree, then the sandbox.
Insert(s) ==
  /\ pc[s] = "insert"
  /\ \/ /\ parent[s] = None \/ parent[s] \in rows
        /\ rows' = rows \cup {s} /\ inserted' = inserted \cup {s} /\ liveSessions' = liveSessions \cup {s}
        /\ Goto(s, IF cloud /\ parent[s] = None THEN "bill" ELSE "created")
     \/ Goto(s, "worktree") /\ UNCHANGED <<rows, inserted, liveSessions>>
  /\ UNCHANGED <<cloud, diskVars, sandboxVars, parent, billed, timers, of, restarts,
                 wanted, uncleaned>>

\* onContainerStart: the container_start event, which needs the row, then the timer.
StartBilling(s) ==
  /\ pc[s] = "bill"
  /\ \/ s \in rows /\ billed' = billed \cup {s} /\ timers' = timers \cup {s}
     \/ UNCHANGED <<billed, timers>>
  /\ Goto(s, "created")
  /\ UNCHANGED <<cloud, diskVars, sandboxVars, rows, parent, liveSessions, of, restarts, historyVars>>

-----------------------------------------------------------------------------
\* Removal, as destroySession and the failed creations do it.

\* destroySession reads the row and fires its hook.
BeginDestroy(d, s) ==
  /\ pc[d] = "ready"
  /\ s \in rows
  /\ of' = [of EXCEPT ![d] = s]
  /\ Goto(d, "worktree")
  /\ UNCHANGED <<cloud, diskVars, sandboxVars, dbVars, memoryVars, restarts, historyVars>>

\* Where a process goes on after #removeWorktreeQuietly.
AfterWorktree(x) == IF pc[x] \in UndoLabels THEN "failed" ELSE "sandbox"

NotCleaned(x) == uncleaned' = uncleaned \cup {Subject(x)}

\* git worktree remove --force; a session without a worktree has none to
\* remove, a failure is swallowed and keeps the branch as well.
RemoveWorktree(x) ==
  /\ pc[x] \in {"undoWorktree", "worktree"}
  /\ \/ /\ Subject(x) \in dirs
        /\ dirs' = dirs \ {Subject(x)}
        /\ Goto(x, IF pc[x] = "undoWorktree" THEN "undoBranch" ELSE "branch")
        /\ UNCHANGED uncleaned
     \/ /\ Subject(x) \notin wanted
        /\ Goto(x, AfterWorktree(x)) /\ UNCHANGED <<dirs, uncleaned>>
     \/ /\ Subject(x) \in wanted
        /\ NotCleaned(x)
        /\ Goto(x, AfterWorktree(x)) /\ UNCHANGED dirs
  /\ UNCHANGED <<cloud, branches, sandboxVars, dbVars, memoryVars, of, restarts,
                 wanted, inserted>>

\* git branch -D; a branch that is not found is fine, other failures are swallowed.
RemoveBranch(x) ==
  /\ pc[x] \in {"undoBranch", "branch"}
  /\ \/ branches' = branches \ {Subject(x)} /\ UNCHANGED uncleaned
     \/ NotCleaned(x) /\ UNCHANGED branches
  /\ Goto(x, AfterWorktree(x))
  /\ UNCHANGED <<cloud, dirs, sandboxVars, dbVars, memoryVars, of, restarts,
                 wanted, inserted>>

\* destroySandbox fails: a creation ends with that error, destroySession too.
SandboxFails(x) ==
  /\ \/ pc[x] \in {"container", "volume"}
     \/ pc[x] = "sandbox" /\ ~cloud /\ Subject(x) \notin known
  /\ NotCleaned(x)
  /\ Goto(x, "failed")
  /\ UNCHANGED <<cloud, diskVars, sandboxVars, dbVars, memoryVars, of, restarts,
                 wanted, inserted>>

\* Where a process goes on after destroySandbox.
AfterSandbox(x) == IF x \in Sessions THEN "failed" ELSE "evict"

\* The manager's entry.  Without one the local manager resumes the sandbox, which
\* needs the container; the cloud one takes it for stopped and removed.
FindSandbox(x) ==
  /\ pc[x] = "sandbox"
  /\ \/ Subject(x) \in known /\ Goto(x, "container") /\ UNCHANGED known
     \/ /\ ~cloud /\ Subject(x) \in containers \ known
        /\ known' = known \cup {Subject(x)} /\ Goto(x, "container")
     \/ cloud /\ Subject(x) \notin known /\ Goto(x, AfterSandbox(x)) /\ UNCHANGED known
  /\ UNCHANGED <<cloud, diskVars, containers, volumes, dbVars, memoryVars, of,
                 restarts, historyVars>>

\* A container or a volume that is not found is as good as removed.
RemoveContainer(x) ==
  /\ pc[x] = "container"
  /\ containers' = containers \ {Subject(x)}
  /\ Goto(x, "volume")
  /\ UNCHANGED <<cloud, diskVars, volumes, known, dbVars, memoryVars, of, restarts, historyVars>>

\* Mutated form: only the map forgets the sandbox.
ForgetSandbox(x) ==
  /\ pc[x] = "volume"
  /\ known' = known \ {Subject(x)}
  /\ Goto(x, AfterSandbox(x))
  /\ UNCHANGED <<cloud, diskVars, containers, volumes, dbVars, memoryVars, of, restarts, historyVars>>

RemoveVolume(x) ==
  /\ pc[x] = "volume"
  /\ volumes' = volumes \ {Subject(x)} /\ known' = known \ {Subject(x)}
  /\ Goto(x, AfterSandbox(x))
  /\ UNCHANGED <<cloud, diskVars, containers, dbVars, memoryVars, of, restarts, historyVars>>

\* Old snapshots are evicted; a failure there ends the destruction.
Evict(d) ==
  /\ pc[d] = "evict"
  /\ Goto(d, "row") \/ Goto(d, "failed")
  /\ UNCHANGED <<cloud, diskVars, sandboxVars, dbVars, memoryVars, of, restarts, historyVars>>

\* Rows delete() leaves alone and whose foreign keys name the session's row.
Referenced(s) == s \in billed \/ \E c \in rows : parent[c] = s

\* The transaction of delete(): all of it, or nothing.
DeleteRow(d) ==
  /\ pc[d] = "row"
  /\ \/ /\ ~Referenced(of[d])
        /\ rows' = rows \ {of[d]}
        /\ Goto(d, "clear")
     \/ Goto(d, "failed") /\ UNCHANGED rows
  /\ UNCHANGED <<cloud, diskVars, sandboxVars, parent, billed, memoryVars, of, restarts,
                 wanted, inserted, uncleaned>>

\* The live entry goes, and the route stops the billing timer.
Clear(d) ==
  /\ pc[d] = "clear"
  /\ liveSessions' = liveSessions \ {of[d]} /\ timers' = timers \ {of[d]}
  /\ Goto(d, "done")
  /\ UNCHANGED <<cloud, diskVars, sandboxVars, dbVars, of, restarts, historyVars>>

-----------------------------------------------------------------------------
\* The daemon goes down and comes up again: no process resumes.
RestartDaemon ==
  /\ restarts < MaxRestarts
  /\ restarts' = restarts + 1
  /\ pc' = [x \in Procs |-> IF pc[x] \in Waiting THEN "lost" ELSE pc[x]]
  /\ known' = {} /\ liveSessions' = {} /\ timers' = {}
  /\ UNCHANGED <<cloud, diskVars, containers, volumes, dbVars, of, historyVars>>

CreateStep(s) ==
  \/ \E p \in Sessions \cup {None}, worktree \in BOOLEAN : BeginCreate(s, p, worktree)
  \/ AddWorktree(s) \/ CreateSandbox(s) \/ Insert(s) \/ StartBilling(s)

RemoveStep(x) ==
  \/ RemoveWorktree(x) \/ RemoveBranch(x)
  \/ FindSandbox(x) \/ RemoveContainer(x) \/ RemoveVolume(x) \/ SandboxFails(x)

DestructionStep(d) ==
  \/ \E s \in Sessions : BeginDestroy(d, s)
  \/ Evict(d) \/ DeleteRow(d) \/ Clear(d)

SessionNext ==
  \/ \E s \in Sessions : CreateStep(s)
  \/ \E x \in Procs : RemoveStep(x)
  \/ \E d \in Destroys : DestructionStep(d)
  \/ RestartDaemon

SessionSpec == SessionInit /\ [][SessionNext]_lifecycleVars
-----------------------------------------------------------------------------
\* Properties.

\* Every variable keeps the shape its map, table or directory has.
SessionTypeOK ==
  /\ cloud \in BOOLEAN
  /\ dirs \subseteq Sessions /\ branches \subseteq Sessions
  /\ containers \subseteq Sessions /\ volumes \subseteq Sessions /\ known \subseteq Sessions
  /\ rows \subseteq Sessions /\ parent \in [Sessions -> Sessions \cup {None}]
  /\ billed \subseteq Sessions /\ liveSessions \subseteq Sessions /\ timers \subseteq Sessions
  /\ pc \in [Procs -> Labels] /\ of \in [Destroys -> Sessions \cup {None}]
  /\ restarts \in Nat
  /\ wanted \subseteq Sessions /\ inserted \subseteq Sessions
  /\ uncleaned \subseteq Sessions

\* A session that accepts work has a row to record it in, but for the moment
\* between the deletion of the row and that of the live entry; also when several
\* destructions of it overlap, fail or are refused.
LiveHasRow ==
  \A s \in liveSessions : s \in rows \/ \E d \in Destroys : of[d] = s /\ pc[d] = "clear"

\* "Sessions, memories, and sandbox volumes survive a daemon restart": a session
\* whose row exists and that nobody began to destroy has all it was created with,
\* whatever crashes, failed creations and destructions of others happen.
RowIntact ==
  \A s \in rows : (\A d \in Destroys : of[d] # s) =>
    /\ s \in containers \cap volumes
    /\ s \in wanted => s \in dirs \cap branches

\* Of a session that had a row and has none any more neither container nor
\* volume is left, however many destructions of it overlap or fail half way; in
\* local mode also when a crash cut one off.
SandboxGone == \A s \in inserted \ rows : s \notin containers \cup volumes
RowOutlivesSandbox == (cloud => restarts = 0) => SandboxGone

\* A creation that failed leaves nothing behind, unless a call of the clean-up
\* failed itself or createSandbox stopped half way.
RollbackComplete ==
  \A s \in Sessions \ uncleaned : pc[s] = "failed" =>
    s \notin dirs \cup branches \cup containers \cup volumes \cup known \cup rows
=============================================================================
