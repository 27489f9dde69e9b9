# iquantum in TLA+

iquantum is a daemon that runs coding sessions: a client describes a task, an
LLM writes a plan, the user approves it, the LLM implements it in a sandbox, the
project's tests validate the result, and only then does it reach the user's
repository.  Sessions can also be conversations with tools, or coordinators that
split a task over child agents.  This directory models the parts of it that are
concurrent, that fail half way or that carry a protocol over many steps, checks
them with TLC on small instances and proves the central properties with TLAPS
for every value of the constants.

Paths below are relative to the repository's root (`src/` in `PROJECT.json`).

| Module | What it is |
|---|---|
| `PIVEngine` | the plan / implement / validate engine of one session, with its calls, store and sandbox |
| `PIVLifecycle` | what such a session promises: the abstract specification `PIVEngine` implements |
| `AgentTeam` | a coordinator's run over its worker manifest: spawner, registry, waiter, execute, kills, restart |
| `SessionLifecycle` | what a session is made of: creating and destroying it, with every call that may fail, and restarts |
| `Conversation` | the chat of a session: messages, tools, cancels, and when the history is compacted |
| `Database` | schema, both adapters, and the requests that write several rows |
| `Gateway` | the HTTP surface: every route as the sequence of its steps, authentication, rate limits |
| `ClientStream` | posts and streams between a daemon and its terminals, the permission gate, the shutdown |
| `ReplState` | the reducer of the terminal's view, which `ClientStream` drives |
| `Paging` | the listings a client reads page by page |
| `Snapshots` | the file snapshots of a session |
| `Memories` | the memories of a user, their file and their block in a prompt |
| `DiffEngine` | a unified diff, parsed and applied |
| `Completions` | routes, budget, retries and the stream of one completion |
| `Compactions` | what a compaction of the history reads and leaves |
| `RepoMap` | the repository map and its cache |
| `Executions` | commands in a sandbox, local and cloud, and what their callers are told |
| `Hooks` | the hooks of a directory: loading, gate and fire |
| `ToolServers` | the MCP servers, their clients and the names of their tools |
| `Workspaces` | files in the repository, the worktrees, the sandboxes and the commits |
| `Daemons` | daemon processes with their socket, port and pid file, and the programs that look for them |
| `TaskRun` | `iq task` against a daemon |
| `Parts` | the thirteen modules from `Paging` to `TaskRun`, each a part of its own, checked by one run |
| `MCPIVEngine`, `MCSessionLifecycle`, `MCConversation`, `MCDatabase`, `MCGateway`, `MCClientStream`, `MCExecutions`, `MCParts` | the instances TLC checks: symmetry sets and inputs |
| `PIVEngineProofs` | invariants of the engine under any clients, guarantees to a single one, and the refinement of `PIVLifecycle` |
| `DaemonProofs` | of the agents: the bound on children and the accounting of slots; execute never stalls, starts work in order and merges only finished work; of the sessions: rows, live entries, worktrees and sandboxes stay in step |
| `ConversationProofs` | what an aborted call may still do, and what a call reads and tells its client |
| `DatabaseProofs` | the schema after any crash, acknowledged rows, invites and refused deletions |
| `GatewayProofs` | refusals, erased users and organisations, over all routes; the bound of the rate limiter |
| `ClientStreamProofs` | grants, open streams and the text a terminal shows |
| `PartsProofs` | the parts: snapshots, hooks, tool servers, workspaces, listings, commands of a sandbox, daemons and `iq task` |
| `DialogueProofs` | what goes to a model and comes back: completions, compactions and memories |

`PROJECT.json` maps each definition to the source lines it models and lists the
runs, the hazards, the theorems and, per property, a mutated definition that
breaks it.  The mutated forms stand in the modules next to what they mutate,
each with a comment that says which bug it is; they are not part of any
specification.

The sections on the modules end with remarks: what the code does that a reader
of its documents would not expect, met while modelling.  Most are behaviours of
the model too, and the properties are stated so as to allow for them.

## The system

### Core

**PIV engine** (`packages/piv-engine/src/index.ts`).  State: the session's
status, the current plan, the task prompt and id, the retry counter, the
validation counter, snapshot turn numbers; rows for status, plans, validation
runs and checkpoints; the sandbox.  Operations: `startTask`, `approve`,
`reject`, and inside them `#plan`, the implement/validate loop, `#consumeRetry`,
`#transition`, `#fail`.  It calls the LLM, the permission gate, the hooks, the
diff engine, the snapshots, the sandbox, git and the stores, and is called by
the session controller.  Hard: every operation is a chain of awaits with no
lock, guards are read before an await and relied on after it, and one loop ends
only because a budget runs out.  Correct if: nothing untested reaches the
host, nothing unapproved is implemented, a completed session has a checkpoint
for a passed run, work is bounded, terminal sessions stay terminal.

**Agents** (`packages/agent/src/spawner.ts`, `registry.ts`,
`packages/coordinator/src/index.ts`, `iquantum-daemon/src/agent-waiter.ts`).
State: registry entries, a counter of creations in flight per coordinator, the
sets `execute` keeps, the polls of each wait; the child sessions' rows and the
live sessions.  Operations: `execute` (validate, scan, spawn, race, merge),
`spawn`, the child's task, `kill`, `wait`, `rebuildFromDb`.  Hard: spawns
overlap, children end in any order or never, kills and deletions pass between a
status read and its use, memory is lost in a crash and rebuilt from rows.
Correct if: the agent limit holds, slots do not leak, dependencies come first,
`execute` ends, and only finished work is merged.

**Session controller** (`iquantum-daemon/src/session-controller.ts`).  State:
live sessions (memory), session rows.  Operations: create, destroy, restore,
list, integrate worker results, and the pass-through to the engines.  Hard:
create and destroy are sequences of external effects that may stop half way,
and destroy does not stop the engine at work.  Correct if: a session row, its
live entry, its worktree and its sandbox agree, or the difference is repaired.

**Stores and database adapter** (`iquantum-daemon/src/db/`).  Statements are
single-row CRUD but for a few transactions; SQLite has one connection for all
requests, so an await inside a transaction lets other statements in; listings
are read page by page.  Correct if: the schema is that of its version after any
crash, what was acknowledged stays, a transaction is whole, and a walk over the
pages sees each row once.

**Conversation controller and compaction**
(`iquantum-daemon/src/conversation-controller.ts`, `compaction-service.ts`,
`packages/compaction`).  State: the rows of messages, one abort controller for
all sessions, one block of memories.  Operations: `addMessage` with its text and
tool loops, `cancel`, `clear`, a forced compaction.  Hard: nothing keeps two
calls apart, a signal is looked at between awaits only, and a summary is awaited
while others append.  Correct if: an aborted call stops, a prompt holds the
call's own message and no unanswered tool use, and a client hears how its call
ended.

**Permission gate, stream controller and the terminals**
(`iquantum-daemon/src/permission-gate.ts`, `stream-controller.ts`,
`iquantum-cli/src/components/REPL.tsx`, `client.ts`, `packages/ui-core`).  State:
pending requests, each with a timer; sockets per session; the view of each
terminal.  Hard: a request is answered by one of several terminals, by its timer
or by the drain of a shutdown; posts travel on connections of their own and pass
each other and the frames.  Correct if: nothing is granted that no user granted,
an open stream is reached, a displayed answer is of one turn, and the input of a
terminal comes back.

### Around it

**HTTP server and authentication** (`server.ts`, `auth/`): a handler is a
sequence of awaits; a refusal must leave nothing, a token must not outlive its
user, a session is reached by its organisation only.  **Rate limiting and
billing**: windows, and a timer per session.  **Snapshots**: files per turn,
saved around writes, restored, evicted.  **Memories**: rows and a file that
users edit, both changed by overlapping requests.  **Diff engine** and **LLM
router**: parsers of what a model wrote, piece by piece.  **Repository map**: a
cache of files that change while they are read.  **Sandbox managers**: commands
with timeouts over Docker or a terminal of ECS.  **Git manager**: commits of
what was validated.  **Hooks**, **MCP client**: scripts and servers of the user
that fail and come late.  **Daemon process**: a socket, a port and a pid file
without a lock.  **CLI and editor extension**: programs that find, start and
stop a daemon, and `iq task`.  **Tools and skills**, **review engine**,
**configuration**, **deployment**, **stubs**: see `PROJECT.json` for what of each
is modelled and why the rest is not.

### How they meet

A request reaches the server, which calls the session controller, which calls
the session's engine.  The engine awaits the other parts; between two awaits its
code runs alone (one JavaScript event loop), so an await is the only place where
another call can come in.  Shared state is of three kinds: fields of objects,
lost in a restart; rows, which survive; and the sandbox and host files, which
tests and users see.  The hazards in `PROJECT.json` are about the boundaries
between these.

The modules meet in the same way.  `AgentTeam` takes a creation and a destruction
of a session as one step each; `SessionLifecycle` is what happens inside them.
`Gateway` takes what a route asks of a controller as one step; `Conversation`,
`PIVEngine`, `AgentTeam` and `SessionLifecycle` are those controllers.
`ClientStream` has the turns of `Conversation` and `PIVEngine` with only what a
client can tell of them, and uses the operators of `ReplState`.  `Conversation`
awaits a compaction; `Compactions` says what it reads and leaves.  `PIVEngine`
awaits a diff, a snapshot, a hook, a completion and a sync, each of which may
succeed or fail there; `DiffEngine`, `Snapshots`, `Hooks`, `Completions` and
`Workspaces` are what happens meanwhile.  `Workspaces` uses the hunks of a patch
as `DiffEngine` places them, without their text.

### Runs

| Run | Instance | Question |
|---|---|---|
| `PIVEngine_single` | 4 calls of one client that waits for each answer, 2 retries, permissions, file tools and snapshots on | what a session promises its client |
| `PIVEngine_two` | 3 overlapping calls, 1 retry, everything on, store writes may fail | what survives any interleaving |
| `PIVEngine_live` | 3 overlapping calls, 1 retry, fair event loop | do calls return and sessions settle |
| `PIVEngine_race` (violation) | 3 overlapping calls, 1 retry | what two approvals at once do to the host |
| `AgentTeam` | 2 workers, 1 other agent, limit 2, 1 crash, fair | safety under every manifest, failure and order, and does `execute` end |
| `SessionLifecycle` | 2 sessions, 2 destructions, 1 crash, both modes | do a session's parts stay in step |
| `Conversation` | 2 messages, or 1 and a forced compaction, in 2 sessions or one, 2 turns, 2 milliseconds | what overlap, cancels and failures do to a call |
| `Database` | 1 writer, 1 deletion, 2 acceptances, 1 erasure, both databases from any version, 1 crash | schema, acknowledged rows, invites, refused deletions |
| `Gateway` | 2 connections, 2 users, 2 sessions, local and cloud | refusals, tokens, organisations, limits |
| `ClientStream` | 2 terminals, 2 sessions, 13 scenarios, fair | grants, streams, displays, the input |
| `Parts` | one behaviour per part, see its section | one property per part or group of parts |
| `Executions_cloud` (violation) | 2 commands in the cloud | is the exit code reliable |

`CHECK_DEADLOCK` is off in all of them for one reason: the requests of a behaviour
are a bounded set, and once they have ended, or once users do nothing more, the
system rests.

## PIVEngine

A call of a client is a process: `pc[c]` names the await at which it is
suspended, an action is the code from one await to the next.  The actions follow
the methods:

| Code | Actions |
|---|---|
| `startTask` | `StartTask`, `RefusedCall`, then `BeginPlan(c, "startHook")` |
| `#plan` | `BeginPlan`, `WritePlan`, `LabelTask`, `OfferPlan`, `Return` |
| `approve` | `Decide`, `CheckApprove`, `ReadApproved`, then the loop |
| `reject` | `Decide`, `CheckReject`, `ConsumeRetry(c, "rejectWritten", "replan")`, then `#plan` |
| the implementation loop | `BeginAttempt`, `Prompt`, `Generate`, `AnswerDiff`, `PassGate`, `SavePreApply`, `ApplyDiff`, `RefuseDiff`, `SavePostApply`, `ConsumeRetry(c, "retryAttempt", "loop")` |
| `#validate` | `BeginValidate`, `RunTests`, `EndTests`, `RestoreSnapshot`, `SyncToHost`, `Checkpoint`, `Complete` |
| `#transition`, `#fail`, `#guard` | `Transition`, `Fail`, `Throw`; the row follows in `StoreStatus` |
| a store write of approve or reject that rejects | `StoreFault` |

`status` changes before the row does, as in the code: `writing[c]` is the UPDATE
under way, and `At` does not let the call go on before it is acknowledged.
`watch` is the set of calls whose test command started after the last change of
the sandbox; it is how the model knows which content a passing test run vouches
for.  `host` says what the last sync wrote.  Four history variables
(`planPrompt`, `approvedOnce`, `implemented`, `rounds`) exist for the properties.

Abstractions: texts, files, diffs and messages are not represented, only
whether they change the sandbox; a plan is named by the call that generated it
and a prompt by the call that brought it; an await on a hook is always taken,
also where no hooks are configured (more interleavings, not fewer); a sync that
fails half way is a failure before anything was synced; the status write inside
`#fail` is not lost unless `StoreFaults`.  With SQLite the adapter answers
without suspending and fewer interleavings happen than the model has; with the
Postgres adapter store calls suspend, and they are all possible.

### Runs

`PIVEngine_two`: `ApprovedWork` (what is implemented was approved, although
another call may replace the current plan while an approve is in flight, and all
plans answer one prompt, although two `startTask` calls pass the idle guard);
`CheckpointProvenance` (although loops share the counter that numbers their
attempts); `BudgetEndsSession`.

`PIVEngine_single`: `CompletionCertified`, `NextCallInformed` (the row says what
the engine does, a session that waits for a decision has one pending plan, and
the next prompt shows why the last attempt failed), `RestoresOwnAttempt`, and the
refinement `ImplementsLifecycle`, which holds the bound on work and that only
validated content is delivered.  These need the single client; `PIVEngine_race`
shows why for the last.  They are checked without store faults: an approve whose
plan write fails leaves the session waiting with a decided plan, so
`NextCallInformed` would not hold.  An attempt that only used file tools saves no
turn, and a failed run then restores the turn of an earlier attempt;
`RestoresOwnAttempt` speaks of attempts that saved one.

`PIVEngine_live`: `Progress`, that every call returns and a session at work comes
to wait for a decision or to an end.

Bounds.  `Calls` is the number of requests, accepted or refused, in a session's
life.  Three are a startTask and two decisions, enough for two approvals, an
approval and a rejection, or two starts and a decision to overlap.  Four in the
single run allow a start, two rejections and an approval, which with two retries
spends the budget in every mixture of rejections, refused diffs and failed runs;
one retry left after a rejection still allows a second attempt.  The loop is
bounded by the code's own budget, nothing else is cut.  Calls are symmetric.

Fairness: `WF` on `Resume(c)` for each call and none on making calls.  It says
that what a call awaits settles.  The code bounds those awaits: the test command
races a timeout, a permission request has a timer, hooks and sandbox commands
have timeouts, streams end or error, store calls answer.  No strong fairness is
needed: no action of a call disables another call's.

### Findings

`PIVEngine_race`: two `approve` calls whose plan reads both return the pending
row start two loops, because the transition table allows `implementing` from
`implementing` and from `validating`.  The diff of one lands in the sandbox
between the other's passing tests and its `syncToHost`, and untested content is
written to the host.  The engine's tests state that it "syncs and checkpoints
only after validation passes" (`packages/piv-engine/src/index.test.ts:98`).

### Proofs

`PIVEngineProofs`, for any set of calls, any budget and any flags:

* `TypesHold`.  `TypeOK` alone is not inductive: `ReadApproved` copies a call's
  target into the current plan.  `TypeInv` adds that a call suspended in approve
  or reject has a target, and that a current plan with a status has an id.
* `TerminalIsFinalHolds`.  Every step leaves the status alone or follows the
  table (`StatusFrame`), and no row of the table leaves a terminal status.
* `OnlyApprovedHolds`.  `ApprovalInv`: an approved row, and an approved current
  plan, was approved by some call.
* `BudgetHolds`, from the two actions that count retries (`RetryFrame`).
* `OnePromptHolds`, and with it `ApprovedWorkHolds`.  The prompt changes only
  while idle, and no plan exists while idle; from then on every plan's prompt is the
  present one.
* `CheckpointProvenanceHolds`, `AttemptsDistinctHolds`.  A call past its tests
  holds the number of a recorded, passed run; no recorded number exceeds the
  counter.

For a single client, under `OneClient = TRUE`: `HostValidatedHolds`,
`WorkBoundedHolds`, `ImplementsLifecycleHolds`, `CompletionCertifiedHolds`,
`RestoresOwnAttemptHolds` and, under `StoreFaults = FALSE` as well,
`NextCallInformedHolds`.  The inductive invariant
`SingleInv` says that at most one call is in flight, where it is determines the
session's phase (`Here`), the rounds are paid for by retries but for two
(`Ration`), and nothing has left the sandbox before the call synced
(`Undelivered`).  Each part is needed: without `Here` a transition might be
refused where the lifecycle moves, without `Ration` the bound does not follow
from the budget, and without `Undelivered` neither `HostValidated` nor the
delivery of the lifecycle is determined.  `OthersQuiet` and `OthersStay` reduce
each step to the call that takes it.

The refinement maps `phase` to `status`, `rounds` to itself and `delivered` to
`Delivered`, which reads the host and the checkpoints.  `BeginPlan` is `Plan`,
`OfferPlan` is `Offer`, `BeginAttempt` is `Attempt`, `BeginValidate` is `Test`,
`SyncToHost`, `Checkpoint` and `Complete` are `Sync`, `Commit` and `Complete`,
every failure is `Fail` or, in a terminal session, hidden, and every other step
is hidden.

The last three have an invariant each, inductive beside `SingleInv`.  `Certificate`
is for completions: from the first attempt on the store and the engine agree that the
current plan is approved, the call at work holds the `Evidence` of its attempt (a
passed run of the current plan, from `passed` on), and a completed session has the one
checkpoint of it.  For the next call, `Tabled` says which plan is on the desk (none, the
one the call has written, or the pending one of a session that waits) and that
its label follows the last feedback, and `Recorded` that the row has the status but for a
write under way.  An approve whose UPDATE of the plan was done and whose next write is
refused leaves a session that waits with no pending plan, so this one is claimed, as in
the run, without store faults.  For restores, `Turn` says that from the save before an
attempt's diff until its test the last pre-apply turn, if the attempt saved one, is the
attempt's own.

Model-checked only: `Progress` (liveness, which TLAPS does not prove).

### Remarks

The timeout of a test run rejects the race but does not stop the command
(`packages/piv-engine/src/index.ts:498`): it goes on writing in the sandbox while
the next attempt begins.  `destroySession` does not stop the engine
(`iquantum-daemon/src/session-controller.ts:350`): a loop in flight goes on against
a sandbox that is gone.

## AgentTeam

One coordinator session.  `Workers` are the names in its manifest, `Others`
agents spawned by clients meanwhile; the manifest `dependsOn` is any function,
cyclic ones and ones with unknown names included, so that validation has
something to refuse.

| Code | Actions |
|---|---|
| `execute` | `Validate`, `StartWorker`, `EndScan`, `Race`, `Merge` |
| `spawn` | `BeginSpawn` (in `StartWorker` and `SpawnOther`), `CreateSession`, `CreateFails`, `Register` |
| the child's task chain in `spawn` | `FinishTask`, `ReportDone`, `FailTask` |
| `kill`, `DELETE /sessions/:id` | `Kill`, `DeleteSession`, `DestroySession`, `MarkKilled` |
| `wait` | `SeeEnded`, `ReadCheckpoint`, `TimeOut` |
| the daemon | `Stop` (crash, or shutdown after an unhandled rejection), `Restart` with `rebuildFromDb` |

`handled` is the set of waits that have a rejection handler: `execute` starts a
wait with each spawn but attaches to it only at the race, so a wait that rejects
earlier is an unhandled rejection, on which the daemon shuts down
(`iquantum-daemon/src/index.ts:551`).  Rows survive `Stop`; the registry, the
counter, the live sessions and every suspended call do not, and `execute` is
never resumed.

Abstractions: the manifest is scanned in any order instead of its own;
`createSession` and `destroySession` each are one step that happens or a step
that fails (their inner steps are `SessionLifecycle`'s); the depth-first search of
`validateWorkerManifest` is stated as what it decides, `Acyclic`; a child's
session is what its row says when its task ends.  While the daemon is stopping
nothing else runs.  Left out: the `agent_wait` tool's own waits, follow-up tasks
for a running agent (the `agent_task` tool), `deregister` (it has no caller), and
a client that approves a child's plan in the child's own session.

### Run

`SlotsBounded`: the limit of agents and the accounting it rests on, across
overlapping and failing creations, kills, deletions and a restart.  `NeverStalls`:
a validated manifest never runs into "Worker execution stalled".
`MergedWorkFinished`: no timeout, kill, failure, stale entry or rebuilt one
passes for finished work in a merge.  `ExecuteEnds`: although children may hang and
agents are killed under the waits for them.

Bounds: three agents against a limit of two make the limit bite; two workers give
every shape of manifest that two names allow, with cycles and unknown names; one
crash shows the rebuild, and since `execute` does not survive it a second adds
nothing to it.  `MaxCrashes` is a bound of the model, not of the code.  The
instance is small in workers; the proofs are for any number of them.

Fairness: weak fairness of `execute`'s own steps, of each spawn, each wait and
the exit of a stopping daemon, while the daemon is up: awaits on session
creation, store and merge settle, and a wait has a deadline.  None for children,
who may work for ever, and none for kills or restarts.

### Proofs

`DaemonProofs`: `TypesHold`, `ChildrenBoundedHolds`, `SlotsAccountedHolds`, and of
both `SlotsBoundedHolds`.
`Placed` says where an agent can be at each stage of its spawn, so that moving
from in-creation to registered never counts it twice, and that while the daemon
is not down every child is registered or in creation; `Counted` is the
accounting itself, with a form for a daemon that is down, when there are only
rows to count.

For `execute`: `NeverStallsHolds`, `DependenciesEndedHolds`,
`MergedWorkFinishedHolds`.  `Scheduled` says that at work the manifest is valid,
not all workers are completed, and each is pending, running, completed or in
creation.  When `execute` finds nothing running, the workers that remain are
pending, and `SomeRunnable` applies acyclicity to exactly that set.  `Truthful`
says that a registry entry `done`, a row `completed` and a result `done` each
imply that the child's approve resolved; it survives a restart because the
entries are rebuilt from rows.

Model-checked only: `ExecuteEnds` (liveness).

### Remarks

`kill` marks an agent killed after `destroySession` has removed its session; the
wait that sees the mark then reads the checkpoints of a session that is gone and
rejects (`iquantum-daemon/src/agent-waiter.ts:52`,
`packages/agent/src/spawner.ts:254`), where `agent-waiter.test.ts:35` expects a
failed result.  The rejection fails `execute`, or shuts the daemon down if nothing
handles it yet.  The done path of a child's task sets its status after an await
without looking whether the agent was killed (`spawner.ts:205`).  A child deleted
while `createSession` runs keeps its slot (`spawner.ts:186`).  All merges of a
coordinator record their runs under the one plan id `coordinator-merge`
(`session-controller.ts:567`), whose row belongs to the first.

## SessionLifecycle

A session is a worktree directory and a branch, a container and a volume, a row,
an entry of the sandbox manager's map, a live entry and a billing timer; each is
a set of sessions.  A creation is a process named by its session, a destruction
a process named by its request, and any number of destructions may concern one
session.  `pc[x]` is the external call that process awaits.

| Code | Actions |
|---|---|
| `createSession` | `BeginCreate`, `AddWorktree`, `CreateSandbox`, `Insert`; its catch blocks go to `RemoveWorktree` |
| `onContainerStart` | `StartBilling` |
| `destroySession` | `BeginDestroy`, `RemoveWorktree`, `RemoveBranch`, `destroySandbox`, `Evict`, `DeleteRow`, `Clear` |
| `destroySandbox` | `FindSandbox`, `RemoveContainer`, `RemoveVolume`, `SandboxFails` |
| `AdapterSessionStore.delete` | `DeleteRow`, refused while `Referenced` |
| a crash and the next start | `RestartDaemon` |

`cloud` chooses the mode for a whole behaviour.  In local mode a sandbox is a
Docker container and volume, and a manager without an entry resumes it from
Docker.  In cloud mode it is an ECS task and a directory, sessions are billed,
and a manager without an entry takes the sandbox for removed.  `wanted` are the
sessions that asked for a worktree; `inserted` and `uncleaned` (a clean-up call
failed, or `createSandbox` stopped half way) are history.

Abstractions: the row's insertion and the live entry are one step, since nothing
between them can fail in the daemon's wiring (the engine's constructor takes what
exists, and hooks swallow their errors); `createSandbox` is one step with all the
remains its failure can have, and a crash during it is one before or after it;
`resumeSandbox` finds and records in one step; the conversation's clearing is not
represented.  Left out: an engine at work while its session is destroyed, whose
`docker cp` may make the worktree's directory anew.  Restore is in `Workspaces`.

### Run

`RowIntact`: a row that nobody began to destroy names things that exist.
`RowOutlivesSandbox`: a deleted row leaves no container or volume; in cloud mode
only until a restart.  `RollbackComplete`: a failed creation leaves nothing but what
its clean-up failed to remove.  Proved besides: `LiveHasRow`, that no destruction,
however it overlaps or fails, leaves a live session without a row.

Bounds: two sessions so that one can be the other's child and reference its row;
two destructions of one session meet in every pair of steps, and a crash between
any two steps of a creation or a destruction leaves the rest to the second one.
There is no liveness property: a destruction may fail for ever.

### Proofs

`DaemonProofs`, for any sessions, requests and number of crashes:
`SessionTypesHold`, `LiveSessionsHaveRows`, `RowsAreIntact`, `RowsOutliveSandboxes`,
`RollbacksAreComplete`, from one inductive invariant `SessionInv`.
`Owned` says which process may touch which session: what was inserted is past
its own clean-ups, what was not has no destruction, so at most the creation
itself or its destructions work on a session.  `Gone` records how far a
destruction got with the sandbox, and that a cloud manager which never restarted
knows every sandbox of a row; `Whole` what a creation made so far, `Undone` what
its clean-up still has to remove.  None of the four properties is inductive
without them.

### Remarks

A DELETE of a session with billing events or child sessions is refused after its
sandbox is gone (`iquantum-daemon/src/db/stores.ts:1946`; `stores.test.ts:157`
deletes children first); since the cloud bills every session, its DELETE fails, and
billing goes on, because the timer that records minutes is stopped only after a
deletion that succeeds (`server.ts:707`).  After a restart the cloud manager takes
the sandbox of a row for removed and leaves its ECS task and directory
(`sandbox-factory.ts:93`).  `USAGE.md:368` says "The branch and its commits
remain", but `removeWorktree` deletes the branch with `-D`.  Live sessions are memory
and rows are not: after a restart a row is listed, but its session accepts no task
(`session-controller.ts:662`, `USAGE.md:191`).

## Conversation

A posted message is one call of `addMessage` and a process, a forced compaction
another; `at[r]` names the await it is suspended at, an action is the code up to
the next one.  `log` is the rows of `messages` per session, in the order in which
they landed.  That is not how they are read: `AdapterConversationStore`, which the
daemon uses on both databases (`index.ts:78`), orders by `created_at, id`
(`stores.ts:2208`) with random ids.  So each row carries `ms`, the millisecond `now`
its message was made in, `since` keeps that stamp until the INSERT is done, and rows
of one millisecond are listed in any order.  `current` is the
call that owns `#abortController`, at most one for the whole daemon; `aborted`
are the calls whose signal it raised.

| Code | Actions |
|---|---|
| `addMessage` | `Post`, the compaction, `InsertUser`, `ListTools`, a loop, `Throw`; before its try, `Lose` |
| `maybeCompact` (see `Compactions`) | `Summarise`, `Skip`, `PersistSummary` |
| `#runTextLoop` | `Load`, `EndStream`, `StopStream`, `InsertAnswer`, the second compaction |
| `#runToolLoop` | the same with `AskForTools`, `InsertUses`, and after each tool `AfterResult` |
| `#executeToolUse` | `Approve`, `Refuse`, `EndTool`, `InsertResult` |
| `cancel`, `clear` | `Cancel`, `Clear` |
| `forceCompact` | `BeginForced`, `PersistForced`, `ForceFails` |

`told` is the last frame a call sent its client ("lost" is a log line of the
daemon); `wiped` and `late` are history: which calls a clear passed, and how many
messages a call added after it was aborted.

Abstractions: texts, tokens and memory blocks are not represented, so a threshold
is over or not and a summary may be awaited whenever there may be something to
replace; two rows of one millisecond may be listed in one order now and in the other
later, although their ids stay; the clock is taken not to run backwards; the permission and the hook before a tool are one await; a store that
rejects is `Throw` or `Lose`.  Left out: automatic memories, the snapshots of
files a tool changed, `#currentMemoryBlock` (which overlapping calls share), and
what a tool does.

### Run

`ToolsForCurrent`: a permission that comes late starts nothing.
`OwnMessageSeen`: what a call reads contains what it was called with, unless a
summary of its own of the very same millisecond hides it.
`UsesAnswered`: no prompt of a call holds a `tool_use` of its own without the
`tool_result`, listed after it unless both are of one millisecond.  `EndAnnounced`: a call nobody aborted tells its client how it ended,
or has stored nothing.  Proved besides: `AbortedAddsOne`, that a call, wherever it is
suspended when it is aborted, adds one more message at most.

Bounds: two requests overlap in every pair of awaits, two messages or a message and
a forced compaction that puts a summary anywhere, in one session and in two
(`MaxRequests`: a property is about one call and what others do beside it, and the
theorems are for any number); two milliseconds make every pair of stamps equal or
ordered (`MaxNow`); two turns with two tools and one reach the limit of turns and the
check between tools; a kept range of two lets a compaction apply to the log of one
call.  `MaxTurns` is the code's limit,
`MaxUses` a bound of the model.  There is no liveness property: a permission is
bounded by its timer, but a turn by whatever the model streams.

### Proofs

`ConversationProofs`, for any number of calls, sessions and compactions:
`TypesHold`, `ToolsForCurrentHolds`, `AbortedAddsOneHolds`, `EndAnnouncedHolds`,
`OwnMessageSeenHolds`, `UsesAnsweredHolds`.  The types need that a call which asks for tools or runs
them has some left (`UsesLeft`).  `OneWorks`: only the call that owns the
controller works unaborted.  `NoneAfterOne`: an aborted call that added its
message has returned or is past its last insertion.  `Ended` and `Unsaid`: a call
that has not reached its insertion has no message of its own in the log, which is
what "lost" may say.  `Hears`: a call between its insertion and its answer has
its message in the log and no summary of its own stamped later; `InOrder`: nothing is
stamped later than now, and a row on its way no earlier than what its call has in the
log; `LogFrame` says that a
step appends, clears or leaves each log alone.  `Answering`: until a call is past
reading prompts, each use of its own in the log is `Answered` by a row stamped no earlier, or `Due`
in the turn it is at; `AnswerMove` says that it leaves its tools only through the last
answer.  An aborted call leaves a use unanswered, and reads no prompt again.

### Remarks

Rows of one millisecond come back in any order (`stores.ts:2208`): a snip summary and
the message inserted right after it, or a `tool_use` and the result of a fast tool, may
be listed reversed, so that the call does not see its own message, or its prompt holds a
result before its use.  The properties say that nothing worse happens.

A cancel or a message in one session aborts the call of another, whose client gets
no frame; a cancel between two tools leaves a `tool_use` without result in the log,
which the prompts of later calls hold; a call aborted during its last compaction
still publishes `done`; the turns a compaction keeps "verbatim"
(`CONFIGURATION.md:50`) are in no later prompt, because the summary's row comes after
them (`compaction-service.ts:130`).

## Database

The schema is a set of tables and of columns that are foreign keys; nothing else of a
row's shape matters to the questions asked.  A request is a process with a script of
statements; `owner` says in whose transaction a connection is, `work` what is written
in it and not committed.

| Code | Actions |
|---|---|
| `initializeSchema` | `RefuseNewer`, `ApplyMigration`, `CommitMigration` |
| `initializePostgresSchema` | `BootstrapStatement`, `BootstrapCommit` |
| the adapters' `transaction` | `Begin`, `Commit`, and `Rollback` in every statement that is refused |
| single inserts of all stores and of billing | `StartWriter`, `InsertRow` |
| `AdapterSessionStore.delete` | `StartDestroy`, `DeleteStatement` |
| `acceptInvite`, `eraseUser` | `PreCheck`, `ReCheck`, `InsertUser`, `MarkAccepted`; `StartErase`, `EraseStatement` |
| the process | `Serve`, `Crash` |

With SQLite every request has the one connection, so a statement may run inside the
transaction that another request opened, and goes with it in a rollback.  Postgres
gives a transaction its own connection, at read committed with row locks, which is
modelled by what it does.  The awaits of SQLite's adapter are microtasks, so the
interleavings of the model are more than those the program has.

`VersionTellsSchema`: wherever a crash interrupted the start, the tables of a file are
those of the version it records, and both databases serve the same ones.
`AckedWritesKept`: an insert whose caller was told it succeeded is there until its
session is deleted, but for one that ran in a transaction of another request that did
not commit, and no request that ended holds a transaction.  `InviteConsistent`: an
invite is marked accepted exactly when it made a user.  `RefusedForCause`: a deletion
is refused only for child sessions, billing events, or rows inserted while it ran.

Bounds: a file starts from any version from none to one newer than the code's.  One
writer takes any of six scripts, from a token to a whole task; a second writer would
only repeat it, since inserts share nothing but what they reference.  Two acceptances
and an erasure are what it takes to accept, free and accept an address again.

### Proofs

`DatabaseProofs`, for any requests of each kind, any number of crashes and any first
version: `VersionTellsSchemaHolds`, `AckedWritesKeptHolds`, `InviteConsistentHolds`,
`RefusedForCauseHolds`.  The constants are assumed to be what they stand for: the four
kinds of requests are disjoint, and no request is called like a row or a connection.

The schema needs `SchemaSteps` alone: what is committed is `SchemaAt` of the version, or
on Postgres the whole bootstrap or nothing, and what is not is the one step that is under
way.  That both databases come to the same is a fact about the two lists, computed once
(`WholeSchema`).

For the rows, `Kinds` reduces the many actions to a dozen kinds of step.  `Held` says
that a transaction is that of the open request whose connection it is; `Written` which
rows can stand uncommitted in whose transaction, which for an acceptance is exactly how
far it got; `Scripted` which statements a request runs.  On these rest four parts:
`Acknowledged` names where an acknowledged row can be, committed or in the open
transaction it ran in; `Invited` adds to the property that past its second check an
acceptance finds no live user of the address and is alone there, by the locks or the one
connection; `Referring` says what a row refers to, so that an insert is refused for a
missing session and not for the order of its script; `Deleted` says that the tables a
deletion has been through hold only rows that came late.  The last statement of a
deletion therefore meets child sessions, billing events or late rows, and one before it
nothing, because `DeleteOrder` has no table before one that refers to it.

### Remarks

An invite can be accepted twice on Postgres with an erasure between, since the
second check in the transaction is a plain SELECT (`auth-store.ts:377`, `:388`).
`file_snapshots` takes INSERT OR REPLACE, which Postgres refuses.  A Postgres database
made by an earlier release keeps its columns, though `schema.ts:417` counts it the same
version.  Postgres lowers unquoted aliases (`stripeCustomerId`, `maxTurn`), so usage is
never reported there and an eviction reads no turn.

## Gateway

A route is the sequence of what its handler awaits, or does between two awaits, and the
status it answers; a request is a process that goes through one.  A step that throws or
returns early answers at once (`toErrorResponse`).

| Code | Definitions |
|---|---|
| `handleRequest`, `handleMemoryRequest`, `createServeOptions` | the sets of routes, `Start`, `Go`, `Answer` |
| `authMiddleware`, `lookupApiToken` | `Authenticate`, `Lookup` |
| `enforceAuthRateLimit`, both limiters | `Limit`, `Current`, `Gc`, `Expire`, and `Tick` for the clock |
| the checks of a handler | `Parse`, `Param`, `Need`, `Condition`, `Quota`, `GetSession`, `RequireLive` |
| accounts | `CreateOrg`, `CreateUser`, `VerifyPassword`, `Sign`, `ChangeTokens` |
| sessions and the rest | `CreateSession`, `Destroy`, `Attach`, `CallAccounts`, `CallSession`, `CallOthers`, `Other` |

`ErasedLockedOut`: no token of an erased user, nor one made afterwards with a JWT that
is still good, authenticates a later request.  `RefusedLeavesNothing`: a request that is
refused has changed nothing, wherever it was refused, with two exceptions the code
has: the organisation of a registration whose address was taken meanwhile, and the
session of a task, an approval or a rejection that passed the engine's check while
another was on its way: the transition then fails, `#guard` moves the session to error
(`piv-engine/src/index.ts:883`), and the answer is 409.  `OwnOrgOnly`: whatever happens to a
session in the cloud was asked for by a member of its organisation, also on the routes
whose own code does not look.  `AdmittedPerWindow`: no window of time lets more than
twice the limit through, whatever was collected or expired.

Bounds: two connections overlap in every pair of steps.  The behaviours are of account
routes or of session routes (`Scopes`); three requests are a registration, a login and
what follows, two are a deletion under another use of the session.  A collection at more
than one bucket stands for the code's 10,000.  Left out: bodies of answers, and what a
controller does within its one step (the modules named above).

### Proofs

`GatewayProofs`, for any requests, users, sessions, limits and bounds: `TypesHold`,
`RefusedLeavesNothingHolds`, `ErasedLockedOutHolds`, `OwnOrgOnlyHolds`,
`AdmittedPerWindowHolds`.  Two facts about
the lists of steps carry them (`RoutesFit`, `FrontFits`): a route ends in a success, has
no step that refuses after one that changes something but for the user of a new
organisation, and calls the engine first, authenticates first, and knows whom it signs in.  `NextKinds` says that a
step answers a request at once, with a refusal only by a step that refuses, or goes on to
the rest of its list with one of a few effects; `Asked` keeps what is left of a list of
that shape.

`Untouched`: a request that changed something has no refusing step ahead.  `Accounts` and
`LockedOut`: a credential is of somebody registered, a registration in progress has its
user to itself, and a request that started after an erasure or a revocation is not
authenticated and holds a token that finds nobody, because erased is for ever.
`Guarded`: a step that reaches a session has the check of the organisation ahead of it, or
the session is the caller's, whose organisation no step changes.

`Even` is for `AdmittedPerWindow`: since the start of an address's open bucket no more
was let through than the bucket counts, which is at most the limit; over any times
before that start no more than the limit in one window; and of an address without a
bucket nothing was let through in the window that is open.  A window that spans a start
is the sum of two such.  What was let through over a set of times is a fold, which
`SumOfDots` shows to be the cardinality of a set of dots, one for each attempt, by the
least set on which the two would differ; the rest is about cardinalities.

### Remarks

A body that is no JSON, a quota that is used up and an unknown organisation all
answer 500.  A 500 from the creation of a session may leave it live, and no route lists
sessions.  A subscription event turns a quota of 0 into 10.  A JWT stays good for 24
hours after its user is erased, for what does not look the user up.  Two PATCHes of a
configuration at once may leave an effort in memory that is not the stored one.  The
quota is checked at the creation only, so sessions that run go past it.

## ClientStream

A turn is the work on one posted message, chat or PIV, and a process; a terminal is a
stream, an inbox of frames on their way, and a `ReplState` view.  POSTs are a set: each
is handled, and its answer seen, in any order.

| Code | Actions |
|---|---|
| `StreamController`, the stream route | `attach`, `detach` (in `Leave`, `ClosedSocket`), `publish`, `emit`, `Frame`, `Published` |
| `PermissionGate` | `requestPermission`, `Timeout`, `Refuse`, `HandlePermission` |
| a chat turn | `Stored`, `Answer`, `UseTool`, `PassGate`, `Close`, `Finish`, `Quit` |
| a PIV turn | `BeginTask`, `OfferPlan`, `Again`, `Propose`, `DiffDecided`, `Apply`, `Validate`, `FailTask` |
| the routes | `HandleMessage`, `HandleCancel`, `HandleDecision`, `HandleClear` in `Handle` |
| `REPL`, `PermissionRequest`, commands | `Submit`, `Escape`, `AnswerPrompt`, `Decide`, `Clear`, `Continue` |
| `useDaemonStream`, `#parseSse` | `Receive`, `StreamError` |
| `shutdown` | `Shutdown`, `Exit` |

`GrantedByAUser`: a tool that asks runs, or a diff is applied, only if a user said yes to
that very request while it was on display, whatever timers, other terminals and a shutdown
did.  What runs without asking (`autoApprove`, the rules stored by an earlier answer) is
not modelled.
`OpenIsReached`: an open stream gets what is published for its session, however others
come and go (a detach looks at the set of its own attach).  `OneTurnPerAnswer`: the text
a terminal shows comes from one turn, where no other terminal posts and Escape was not
pressed.  `InputReturns`: whatever is submitted, the input comes back, except in the
cases that `Stuck` lists.

Bounds: a scenario fixes the mode of the sessions, who is there, how many messages and
requests there are, and which disturbances happen; the thirteen of `MCClientStream` are
one terminal with two requests, with two messages, with Escape, with `/clear`, a session
past its one task; two terminals of one session, two sessions where one turn aborts the
other, terminals that leave, a daemon that stops; chat and PIV.  All at once would be too
large, and no hazard listed needs three disturbances.

Fairness: weak fairness of each turn, timer, attachment, delivery, stream error, and of
the handling and answering of each terminal's posts by kind: event loops run what is
ready, timers fire and connections deliver.  None for users, nor for the end of the
daemon.  `InputReturns` therefore names as `Stuck` what only a user can end.

### Proofs

`ClientStreamProofs`, for any finite set of clients, any sessions, scenarios and bounds:
`GrantedByAUserHolds`, `OpenIsReachedHolds`, `OneTurnPerAnswerHolds`.  `Safe` is the
inductive invariant of the first two.  Of a grant it says that the turn of a pending
request waits at the gate with its verdict open (`Waiting`), that a verdict "granted" is of a
request in `yes` (`Granted`), and that a POST with a yes was sent by a user who had that
request on display (`Posted`).  Of the streams, `Grouped`: a Set of sockets is of one
session, the Set in the table has a member, and while the daemon is up the open
streams are those in the Set of their session.  By the second part the Sets there are
finitely many, as the clients are, so that a new one can have a number of its own
(`HasMax`) for any number of sessions.

`Ordered(c)` is inductive beside `Safe` for a terminal alone in its session that has not
pressed Escape: the frames before it are tokens of its last turn up to the one that ends
it, its input comes back with that frame and not earlier, and so no token is on its way
when the next message is posted.

Model-checked only: `InputReturns` (liveness).

### Remarks

The frame of a second request may arrive before the resolution of the first,
whose prompt it replaces, and the terminal then shows neither: the second times out as a
refusal.  A cancel may arrive after the next message and abort that.  A turn aborted for
another session's message leaves the input disabled until Escape.  While a plan waits
the input is disabled, so `/approve` (`USAGE.md:57`) cannot be typed before Escape, and
`no` (`USAGE.md:45`) posts a message, which starts a task and is refused.  A PIV session
takes one task ever.  The POST of `/approve` times out in the client after 10 seconds
while its loop goes on.

## Parts

The thirteen modules below share no state with each other, so a behaviour of `Parts` is
one of one of them with the others at rest, and each keeps its own Init, Next and
properties.  One run checks them all; each of its invariants speaks of the parts whose
behaviours it names and of all their states.

### Paging

Every listing that has pages, in the stores of both kinds, walked to its end while rows
are inserted and deleted and users are erased.  The Sqlite stores look up a cursor and
select in one go, the Adapter stores await between (`Check`, `Fetch`).
`EveryRowOnce`: a walk that came to its end was given every row that was there when it
began and still is, none twice, none of others, in the order of the full listing.
Bounds: pages of one row make every row a page boundary; three rows in two milliseconds
make ties.

Proved (`EveryRowOnceHolds`), for any table, page size and changes, and for every listing:
`RowsApart`, that ids are used once and (where a listing needs it) instants too;
`WalkInOrder`, that what was given is of the caller, without repetition and in the order
of the listing, and that the cursor is the last of it; `AllGiven`, that a row which is
still there was given or lies past the cursor.  A page is the first rows, in that order,
of those past its cursor (the lemmas about `FirstPlaces`), so it goes on where the walk
stands.

Remarks: `SqliteGitCheckpointStore` pages by time and id but orders by time and rowid, so
that rows of one millisecond may be lost or come twice; the daemon uses the Adapter
stores.  `AdapterConversationStore` orders by time and a random id: messages of one
millisecond come back in any order (`stores.ts:2208`).

### Snapshots

Saves (`BeginSave`, `ReadFile`, `ReadExisting`, `StoreFile`, `SaveFails`), a restore
(`BeginRestore`, `RestoreFile`, `EndRestore`), an eviction (`ReadMax`, `DeleteOld`), writes
between all of them and a restart, after which turns are numbered from 0 again.
`RestoresWhatWasRead`: a restore nothing wrote beside leaves every file of its turn as
the last save of that turn had read it.  Bounds: two files and two texts tell a file and
a content apart; two turns and one restart number a turn twice; nothing kept makes the
eviction bite.

Proved (`RestoresWhatWasReadHolds`), for any files, texts, turns, writes and restarts:
`SnapshotsTyped` is the shape of the rows and of what is at work; `RowsRead`, that a row
holds what the last save of its turn read, and what a save found before it stores is what
is in the rows, if they were not evicted; `Restored`, that a restore has written, and has
yet to write, what was read, if nothing wrote beside it.

Remarks: the sandbox's `exec` answers with `output` and has no `stdout`, so in the daemon
nothing is ever saved and a restore does nothing (`snapshot-controller.ts:69`,
`CONFIGURATION.md:52`); the model has both answers.  An eviction runs only when a session
is destroyed, just before its rows are deleted, and keeps one turn more than `keepTurns`
(`CONFIGURATION.md:53`).  A file that was empty or absent is not saved, so a restore does
not undo a creation.

### Memories

Rows, `MEMORY.md` and the requests that change them, with the awaits between statements;
a user who edits the file; a sync that reads it back entry by entry.
`FileHoldsMemories`: once no request is at work the file read back is the rows, unless
changes overlapped, failed or an edit came between.  `BlockByRank`: the block of a prompt
holds every pinned memory, goes over the budget for these only, and leaves no memory out
for an older one of the same pin.  Bounds: bodies with a bare separator, and with one
before a line that looks like a field; two requests, which may overlap; a budget that
one body exceeds.  Rows of one pin and one moment come in any order, and both hold in each.
That a request alone puts right what earlier ones left takes a third, and is left to the
proof.

Proved (`MemoriesReachReadersHolds`), for any names, bodies, budgets, requests at once and
edits.  The lemmas on the file: an entry written among others is read whole, from its first
separator to where the next one starts (`EntryRead`), so the file of a list of rows is read
back as these rows (`FileRead`), unless a body holds what starts an entry.  `MemoriesInv`:
while the file can be expected to be as the rows are, one request is at work at most, the
file is as the rows are unless that request changes rows, and what is about to be written or
upserted is the rows; no two rows have one name.  `BlockRanked`: the block is always the
first memories of an order, up to one without a pin.

Remarks: overlapping requests may write an older list last (`manager.ts:80`).  The block
is read once per controller and never rebuilt after `/memory pin`, and is shared by all
conversations (`index.ts:375`).  An entry renamed in the file keeps its id, whose INSERT
then fails, and the sync stops half way.  A body with a separator before `key:` splits in
two.  A sync reads `~/.iquantum/MEMORY.md`, while the file is written in the state
directory.  The model is of one user, as on one's own machine: in the cloud all users'
requests write the same file (`manager.ts:82`), each over the others', so what is claimed
of the file holds there for one user at most.

### DiffEngine

`parseUnifiedDiff` line by line (`ParseLine`), the placing of a hunk by exact and fuzzy
match with its Levenshtein distance, and `apply` file by file with every exec that may
fail.  `OwnDiffApplies`: the diff of a file, applied to that file or to one that moved by
at most the radius, gives the new file.  `PatchesWhole`: a patch is applied whole or not
at all, whatever the other patches do, and `apply` says when one is lacking.  The inputs:
every removal and addition in all files of three lines up to renaming, with and without
context, moved or not; diffs of several files with a hunk that is nowhere, one that is
nearly there, new, missing, unsafe and deleted files, and no diff at all; and diffs with
two patches of one file, as the merge of two workers makes them, of which both, the first
or the second apply.

Remarks: a file with two patches in one diff is left half patched when one of them fails
(`index.ts:98-125`); the comment there means the partial result to stay for the retry.  A
removed line that starts with `-- ` is read as a file header (`index.ts:181`).  An
insertion without context is applied one line too high (`index.ts:252`), so
`OwnDiffApplies` does not ask for it (`Reliable`).  The removal of all lines leaves one
empty line, and a deletion writes an empty file.  A missing file aborts the apply after
earlier files were written.

### Completions

One completion: its route, the budget guard with a compaction, retries, and the stream,
whose pieces of several tool calls come interleaved (`OpenAIDelta`, `AnthropicDelta`) and
may break off.  `CallsAssembled`: a call has the arguments the model wrote, whole, and all
calls come once and in order; only the call an answer was cut in may come without.
`SentWithinBudget`: what is sent was counted as it is sent, and fits.  Bounds: two calls
with arguments in three pieces, or none; sizes on either side of both thresholds; two
retries.  What is answered is `Answerable`: arguments are closed by their last piece only,
Anthropic's calls have an id, a text is one answer.

Proved (`DialogueFaithfulHolds`), for any asks, answers, sizes and bounds: `AnswerInv`
holds of each call that is put together that it is the pieces that came (`Building`), of
Anthropic's blocks that they are the first ones of the answer, at most one open, and no
other after one that was cut short (`AnthropicSoFar`), of OpenAI's calls that they are
those announced (`OpenAISoFar`), of a text that it is the beginning of the answer
(`TextSoFar`).  `Sending` says what was counted on the way to the budget's check.

Remarks: the daemon wires no guard and no route for `thorough`.  Arguments of OpenAI's
that were cut become `{}` and the tool runs (`packages/llm/src/index.ts:449`).  A call
without an id gets `tool-<index>`, which repeats in later rounds.

### Compactions

What a compaction reads, replaces and leaves, for both compactors, asked for by the chat
or by a user, overlapping.  Rows are taken to land in the order of their stamps, no two
of one millisecond (`Conversation` has the others).  `SummarisedOnce`: no message goes into two summaries, and no
summary into a later one, unless two requests overlapped.  `SummariesClose`: what is
summarised came before and is in no prompt again.  `AutomaticOnlyCounts`: a compaction
nobody asked for holds no word of what it replaces, because the snip compactor's
threshold is the lower and their ranges are the same.  Bounds: seven rows, a window of
five and one message kept let three compactions follow each other.

Proved with the completions (`DialogueFaithfulHolds`), for any rows, windows and requests:
`SummariesInv` holds of an automatic request of the full compactor that it has nothing to
summarise while its threshold is the higher (`Due`), of each summary that it is of one
request that persisted it and covers rows before it (`SummaryOf`), and of requests that did
not cross that they come one after another (`InTurn`).  A sum of tokens over a set of rows
is a number of dots (`TokensAreDots`), so that the thresholds nest without an induction
over the rows.

Remarks: the full compactor asks its model even when there is nothing to replace.  A
forced compaction of a short list persists a summary of nothing.  A second summary does
not include the content of the first.

### RepoMap

A walk that hashes times and sizes into a cache key, then reads and ranks, while files are
edited, added and removed.  `CachedMapIsCurrent`: a map from the cache is the map of the
files as they are, but for one during whose building a file came or went.  `MapIsFair`:
the budget is kept, no file has a second symbol while another has none, and a file's
symbols go by score.  Bounds: two edits and three builds: one that caches, one that is
overtaken, one that is served.

Remarks: the daemon gives no cache.  The key leaves out the budget.  Symbols of one name in
one file share a score, and it is multiplied.

### Executions

Two commands in one sandbox, local (Docker's stream, inspect, a timeout that kills the
container) or in the cloud (a terminal's frames, cut anywhere, and a line with the exit
code behind a sentinel).  `LocalResultsTrue`: a caller is told the command's code and all
it wrote, in the order of each stream, but for a lost connection.  `CloudCodesExplained`:
a code other than 0 only of a command that ended so or wrote the sentinel itself, and a 0
after a failure only for one of the listed causes.  Bounds: four commands, of which one leaves the
shell with the code of a killed one, and one writes the sentinel cut by an escape sequence
that `stripAnsi` takes out, and a code after it.  The same module with `Ways = {"cloud"}` is the run
`Executions_cloud`.

Proved (`ExecutionsTrueHolds`), for any commands, calls and cuts of frames: `ExecInv` says
of each call (`CallInv`) that what was read is the first `p` of all that its command
writes, in the cloud all of it but escapes and where it was (`Stripped`), that what waits
is from `p` to `q` (`ReadTo`), that no sentinel was read of a call that goes on, and that
what was told stays explained however the command goes on (`RightlyTold`).  A lemma for
each way a sentinel is read says whose it is and what stands behind it
(`WhoseSentinel`, `CodeRead`).

Finding (`Executions_cloud`): the comment at `cloud-sandbox-manager.ts:23` says the
sentinel lets it "reliably extract the exit code from PTY output without relying on the
SSM close event".  A command that leaves the shell never comes to the sentinel; the
channel's close then resolves with the initial 0 (`:153`, `:161`), and failed tests count
as passed.

Remarks: a lost connection to Docker reports `ExitCode ?? 0` with short output
(`packages/sandbox/src/index.ts:226`).  A timeout kills the container with every other
command in it.  A frame cut within an escape sequence leaves it in the output.

### Hooks

A directory that changes while it is loaded, overlapping loads, and `gate` and `fire` over
the list in force, whose hooks block, pass, throw or come late.  `GatesTrue`: a refusal is
of the one hook that blocked in time, an allowance of all hooks of the list.  `FiresTrue`:
every hook is run and recorded once.  `HooksCurrent`: once all was seen and loaded the
hooks in force are those of the directory, unless two loads overlapped.  Bounds: a script
and a module, because a script is read again by each run; two changes.

Proved with the tool servers (`ExtensionsTrueHolds`), for any files, changes, loads and
calls: `HooksInv` says what each load has read of which version of the directory
(`LoadsSoFar`), that a call's hooks to come are of the list it began with (`AskedInv`),
that those it ran are recorded, once each, and that one that blocked ends the call.

Remarks: the directory is looked for with `Bun.file(dir).exists()`, which is false for a
directory, so it is probably never watched (`CONFIGURATION.md:44`).  The write to a hook's
input is not bounded by its timeout (`USAGE.md:315`).

### ToolServers

First connections that race, calls and lists over them, servers that end by themselves,
timeouts, and `closeAll`.  `NamesLeadBack`: a listed name leads to the server and tool it
was made of, where the server's name allows it.  `FlagTells`: the flag is up while the
connection is open, and only then, but for a server that ended by itself.
`ListsWhatIsUp`: a list lacks a server only for a cause.  Bounds: a tool with a separator
in its name and a server whose name ends in half of one; two calls race for one server.

Proved (`ExtensionsTrueHolds`), for any servers, tools and names: `ServersInv` holds what
a flag tells (`FlagTells`), that of the connections that race one opens (`OneOpens`), what
a list has gathered so far and why it lacks what it lacks (`ListsSoFar`), and that a call
goes to the server and tool its name was made of.  That the names lead back needs only
the position of the first separator.

Remarks: a server that ended keeps its flag, so its tools are gone until a restart.  Of
two racing first connections the second call fails.  A timeout abandons the call while
the server goes on.  A `closeAll` during a connection leaves the process.

### Workspaces

A file is a set of regions, each far enough from the others to be a hunk of its own.  The
user's directory, worktrees, sandboxes seeded from them, commits; checkpoints of the
engine and merges of a coordinator; restores and edits.  `CheckpointsTested`: a recorded
checkpoint is a commit that holds every file as the tests saw it, unless something else
wrote meanwhile.  `MergesWhole`: a merge that was recorded holds each region as each
worker made it, unless a later patch changed it again, which is reported as a conflict
but where one of the two removed the file; and it holds what else the coordinator had.
Bounds: three sessions are a coordinator and two workers; a file with two regions and a
new one.

Proved (`CheckpointsTrueHolds`), for any sessions, files, regions and bounds.
`WorkspacesInv` says that hashes are of commits there are (`HashesThere`); that a task
nothing else touched is in order at each step (`AtWork`): what the tests saw is what the
patches made of the sandbox, and is carried to the directory, the index and the commit;
and that what was recorded was so (`RecordsRight`).  What the patches make of the files
is a fold: `AppliesInSteps` unfolds it into a sequence of states, and `Upto` says of each
of them what the patches up to it made of the files.

Remarks: a restore resets the host only, the sandbox keeps its content and the next sync
writes it back (`USAGE.md:62`).  A sync never mirrors a deletion and overwrites what the
user edited since the seed.  `git diff` runs in the sandbox, whose `.git` was not seeded,
so `/diff` always fails.  A page of checkpoints is oldest first and the waiter asks for one
row, so of a worker that was validated several times a merge has the first
(`agent-waiter.ts:52`).  Two sessions on one repository may record each other's commit
(`packages/git/src/index.ts:53`).  A worker's pure renames are dropped, a file it
removed comes out of a merge empty, and that is no conflict with who changed it.  A file
that is new to a worker overwrites one of that name, silently if the coordinator had made
it (`packages/diff-engine/src/index.ts:112`).

### Daemons

A daemon is a process that removes a stale socket, binds socket and port, writes its pid
file and takes them down again; nothing locks the directory.  `OneServes`: the port
decides.  `Findable`: daemons that never met are found by socket and pid file, through
crashes.  `StoppedEnds`: whoever is told that the daemon stopped has sent it a signal.
Bounds: two daemons, three programs that want one and one stop: each pair meets in every
step.

Proved with `iq task` (`ProgramsTrueHolds`), for any number of daemons, programs and
stops: `DaemonsInv` says who holds the port, who has been signalled, and whose are the
socket and the pid file of a daemon that never met another.

Remarks: of two daemons that overlap the second unlinks the first's socket, then dies on
the port, and the first cannot be reached until it is stopped through its pid file
(`index.ts:66`); a daemon still shutting down removes the socket and pid file of the next
(`index.ts:538`), and so does `iq daemon stop` (`daemon.ts:96`).

### TaskRun

The program with its posts, their answers, the frames of the stream and the user's
decisions, which come on different connections.  `ImplementsWhatWasPrinted`: the plan
printed is the engine's whenever an approval is on its way.  `WaitsForCause`: it waits for
a frame that will not come only for the causes the property lists.  Bounds: two rejections
overdraw one retry.

`CommittedStands`: `CommitTask` publishes the checkpoint's frame while the engine is still
validating; the checkpoint's hooks, the transition to completed, its hooks and a compaction
come after it (`FinishPost`, `piv-engine/src/index.ts:555-567`), and `CommitMerge` does so
for the coordinator, whose `done` comes later.  The program prints Committed and is over at
that frame, in both modes, so it may end before the status is completed, and a daemon that
stops then leaves the session validating.  What holds is that nothing takes the commit
back: a row or a compaction that fails after the frame finds the status completed, from
which no transition leads to error, so the approval is answered as refused, in no frame,
and the task stays completed.  `engine.status` is the engine's in memory; a row whose UPDATE
failed may lag behind it.

Proved (`ProgramsTrueHolds`), for any bounds: `TaskInv` relates the program's posts to the
engine's state and to the frames that are on their way: which post is pending, what the
engine answered it, and that each plan, end and row of a coordinator was or will be told
once.

Remarks: the comment "so no events are missed" (`task.ts:57`) relies on a generator whose
request goes out at its first iteration, after the task was posted, so frames before it
are missed, and a program that missed the plan's frame waits for good: `WaitsForCause`
counts this as a cause, and so does not support the comment.  A rejection's POST times out in the client after 10 seconds, while the daemon
answers when the plan is made, and ends the program.  An approval that fails is swallowed.
A committed session is never destroyed.

## What is proved

Eight theorem modules: `PIVEngineProofs`, `DaemonProofs` (of `AgentTeam` and
`SessionLifecycle`), `ConversationProofs`, `DatabaseProofs`, `GatewayProofs`,
`ClientStreamProofs`, `PartsProofs` and `DialogueProofs`; the argument of each stands in
its module's section.  They assume only what the modules' ASSUMEs say of the constants and
what a theorem names (`OneClient = TRUE`, `StoreFaults = FALSE`, of the engine), and hold
for any number of calls, workers, sessions, requests, clients, files and crashes.  Every
invariant and action property that a run checks of the components is stated by a theorem,
and of the parts those of the listings, the snapshots, the memories, the commands of a
sandbox, the completions, the compactions, the hooks, the tool servers, the workspaces,
the daemons and `iq task`.

tlapm 1.4.5 tells its SMT solver that `DOMAIN S = 1..N` and `Len(S) = N` are the same for
every `S`, which is so of sequences only.  No proof rests on more than that: every
theorem module was also proved with that axiom weakened to sequences.

With TLC stay:

* liveness (`Progress`, `ExecuteEnds`, `InputReturns`);
* what recursive text functions compute for every input: `SourceTrue`, of the parser of
  diffs, the placing of hunks and the ranking of a map.

## Not modelled

Text (prompts, the wording of answers, terminal and editor rendering), library code
(token signing, Docker, ECS, Stripe and MCP transports, git's own output), the extraction
of symbols from source text, images, charts and deployment; the review engine, which is
one stateless call of a model; the stub packages.

The settings (`packages/config`, `iq config set`) are read once at a start and changed by
a program that reads, changes and renames a file; two that overlap can lose one's change,
a file that does not parse is replaced, and a running daemon keeps what it read.  The
minutes a session is billed are counted by a timer per session; only its start and stop
are modelled (`SessionLifecycle`).  Of the session controller `updateConfig` and the
defaults of a spawn are left out, and an engine still at work while its session is
destroyed.  The planning of a coordinator is one structured call whose answer the modelled
validation judges.
