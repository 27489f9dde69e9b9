------------------------------ MODULE PIVEngine ------------------------------
(***************************************************************************)
(* The plan / implement / validate engine of one session                   *)
(* (packages/piv-engine/src/index.ts, class PIVEngine), driven by the       *)
(* startTask, approve and reject calls of its clients.                      *)
(*                                                                         *)
(* Every call is an asynchronous function, so a call is a process: pc[c]    *)
(* names the await at which call c is suspended, and an action is the code  *)
(* between two awaits.  Calls of different clients interleave at the awaits.*)
(* A plan is named by the call that generated it (a call generates at most  *)
(* one), a prompt by the startTask call that brought it.                    *)
(***************************************************************************)
EXTENDS Naturals, FiniteSets

CONSTANTS
  Calls,            \* the API calls clients make during the session
  MaxRetries,       \* options.maxRetries
  OneClient,        \* TRUE: a call is only made when no other is in flight
  RequireApproval,  \* options.requireApproval: diffs wait for a permission
  FileTools,        \* options.fileTools: the LLM may edit the sandbox itself
  Snapshots,        \* options.snapshotStore is configured
  StoreFaults,      \* the status and plan writes to the store may reject
  None

ASSUME MaxRetriesAssumption == MaxRetries \in Nat
ASSUME FlagsAssumption ==
  {OneClient, RequireApproval, FileTools, Snapshots, StoreFaults} \subseteq BOOLEAN

VARIABLES
  status, currentPlan, taskPrompt, currentTaskId, retryCount,
  validateAttempt, snapshotTurn, lastPreApply,   \* fields of the engine
  storedStatus, plans, runs, checkpoints,        \* rows of the store
  watch, host,                                   \* sandbox and host repository
  pc, target, writing, run, ownTurn,             \* locals of the calls
  planPrompt, approvedOnce, implemented, rounds  \* history

engineVars  == <<status, currentPlan, taskPrompt, currentTaskId, retryCount,
                 validateAttempt, snapshotTurn, lastPreApply>>
storeVars   == <<storedStatus, plans, runs, checkpoints>>
worldVars   == <<watch, host>>
callVars    == <<pc, target, writing, run, ownTurn>>
historyVars == <<planPrompt, approvedOnce, implemented, rounds>>
vars == <<engineVars, storeVars, worldVars, callVars, historyVars>>

Status == {"idle", "planning", "awaiting_approval", "implementing",
           "validating", "completed", "error"}

\* None stands for what is absent: no call, no number and no status is.
ASSUME NoneAssumption == None \notin Calls \cup Nat \cup Status

AllowedTransitions ==
  ({"idle"}              \X {"planning", "error"}) \cup
  ({"planning"}          \X {"awaiting_approval", "error"}) \cup
  ({"awaiting_approval"} \X {"planning", "implementing", "error"}) \cup
  ({"implementing"}      \X {"implementing", "validating", "error"}) \cup
  ({"validating"}        \X {"implementing", "completed", "error"})

IsAllowedTransition(from, to) == <<from, to>> \in AllowedTransitions

\* The awaits inside #guard: an exception raised there ends in #fail.
GuardedLabels ==
  {"replan", "planLLM", "planStored", "planMessages", "planReady", "loop",
   "prompting", "implLLM", "asking", "gating", "saving", "applying",
   "applyingBare", "savingPost", "applied", "validating", "testing",
   "failedTests", "retryAttempt", "passed", "synced", "checkpointed",
   "completing"}
\* The awaits before #guard is entered: an exception there reaches the caller.
OpenLabels == {"startHook", "checkApprove", "checkReject", "approveRead", "rejectWritten"}
Labels     == GuardedLabels \cup OpenLabels \cup {"ready", "done", "failed"}

NoPlan == [id |-> None, status |-> "none"]

InFlight == {c \in Calls : pc[c] \in GuardedLabels \cup OpenLabels \/ writing[c] # None}

Init ==
  /\ status = "idle" /\ currentPlan = NoPlan
  /\ taskPrompt = None /\ currentTaskId = None
  /\ retryCount = 0 /\ validateAttempt = 0
  /\ snapshotTurn = 0 /\ lastPreApply = None
  /\ storedStatus = "idle" /\ plans = [p \in Calls |-> "none"]
  /\ runs = {} /\ checkpoints = {}
  /\ watch = {} /\ host = "untouched"
  /\ pc = [c \in Calls |-> "ready"] /\ target = [c \in Calls |-> None]
  /\ writing = [c \in Calls |-> None]
  /\ run = [c \in Calls |-> 0] /\ ownTurn = [c \in Calls |-> None]
  /\ planPrompt = [p \in Calls |-> None]
  /\ approvedOnce = {} /\ implemented = {} /\ rounds = 0

-----------------------------------------------------------------------------
\* Steps shared by the operations.

\* Call c, suspended at one of labels, resumes; a status write of its own, if
\* any, has been acknowledged (await updateSessionStatus).
At(c, label) == pc[c] = label /\ writing[c] = None

Goto(c, label) == pc' = [pc EXCEPT ![c] = label]

\* #fail and the catch of #guard: the session enters error if the table allows
\* it; a terminal session stays what it was and only the call fails.
Fail(c) ==
  /\ Goto(c, "failed")
  /\ IF IsAllowedTransition(status, "error")
       THEN status' = "error" /\ writing' = [writing EXCEPT ![c] = "error"]
       ELSE status' = status /\ writing' = [writing EXCEPT ![c] = None]

\* #transition: the status changes at once, the row is written afterwards; a
\* transition the table lacks raises InvalidTransitionError into #guard.
Transition(c, next, label) ==
  IF IsAllowedTransition(status, next)
    THEN /\ status' = next
         /\ writing' = [writing EXCEPT ![c] = next]
         /\ Goto(c, label)
    ELSE Fail(c)

\* The UPDATE of updateSessionStatus reaches the store.
StoreStatus(c) ==
  /\ writing[c] # None
  /\ storedStatus' = writing[c]
  /\ writing' = [writing EXCEPT ![c] = None]
  /\ UNCHANGED <<engineVars, plans, runs, checkpoints, worldVars, pc, target,
                 run, ownTurn, historyVars>>

\* Anything awaited inside #guard rejects: an LLM stream, a sandbox command, a
\* tool loop over its limit, a blocking pre_apply_diff hook, the test timeout,
\* a missing approved plan, with StoreFaults the status write.
Throw(c) ==
  /\ pc[c] \in GuardedLabels
  /\ writing[c] = None \/ StoreFaults
  /\ Fail(c)
  /\ UNCHANGED <<currentPlan, taskPrompt, currentTaskId, retryCount,
                 validateAttempt, snapshotTurn, lastPreApply, storeVars,
                 worldVars, target, run, ownTurn, historyVars>>

\* The sandbox content changes: no test that is running or has just passed
\* vouches for it any more.
TouchSandbox == watch' = {} /\ UNCHANGED host

\* A client makes call c; a single client only when it has none in flight.
MayCall(c) == pc[c] = "ready" /\ (OneClient => InFlight = {})

-----------------------------------------------------------------------------
\* Mutated forms of definitions below, one plausible bug each: PROJECT.json
\* names, for every property, the mutant that violates it.

\* #consumeRetry compares before it counts.
ConsumeRetryLate(c, from, label) ==
  /\ At(c, from)
  /\ retryCount' = retryCount + 1
  /\ IF retryCount > MaxRetries
       THEN Fail(c)
       ELSE Goto(c, label) /\ UNCHANGED <<status, writing>>
  /\ UNCHANGED <<currentPlan, taskPrompt, currentTaskId, validateAttempt,
                 snapshotTurn, lastPreApply, storeVars, worldVars, target,
                 run, ownTurn, historyVars>>

\* A diff that does not apply is tried again, at no cost.
RefuseAndReapply(c) ==
  /\ \/ At(c, "applying") /\ TouchSandbox
     \/ At(c, "applyingBare") /\ UNCHANGED worldVars
  /\ Goto(c, "gating")
  /\ UNCHANGED <<engineVars, storeVars, target, writing, run, ownTurn, historyVars>>

\* A new plan keeps the label of the first one.
KeepTaskLabel(c) ==
  /\ At(c, "planStored")
  /\ currentTaskId' = IF currentTaskId = None THEN c ELSE currentTaskId
  /\ Goto(c, "planMessages")
  /\ UNCHANGED <<status, currentPlan, taskPrompt, retryCount, validateAttempt,
                 snapshotTurn, lastPreApply, storeVars, worldVars, target,
                 writing, run, ownTurn, historyVars>>

\* The prompt is built from the current plan, whatever its status.
PromptUnapproved(c) ==
  /\ At(c, "prompting")
  /\ implemented' = implemented \cup {currentPlan.id}
  /\ Goto(c, "implLLM")
  /\ UNCHANGED <<engineVars, storeVars, worldVars, target, writing, run,
                 ownTurn, planPrompt, approvedOnce, rounds>>

\* The turn is read from the field, which has moved on.
SaveCurrentTurn(c) ==
  /\ At(c, "saving")
  /\ lastPreApply' = snapshotTurn
  /\ Goto(c, "applying")
  /\ UNCHANGED <<status, currentPlan, taskPrompt, currentTaskId, retryCount,
                 validateAttempt, snapshotTurn, storeVars, worldVars, target,
                 writing, run, ownTurn, historyVars>>

\* A failed run restores the snapshot and falls through to syncToHost.
RestoreAndSync(c) ==
  /\ At(c, "failedTests")
  /\ IF lastPreApply # None THEN TouchSandbox ELSE UNCHANGED worldVars
  /\ Goto(c, "passed")
  /\ UNCHANGED <<engineVars, storeVars, target, writing, run, ownTurn, historyVars>>

\* The run to certify is read from the counter, after the awaits.
CheckpointLatest(c) ==
  /\ At(c, "synced")
  /\ checkpoints' = checkpoints \cup {validateAttempt}
  /\ Goto(c, "checkpointed")
  /\ UNCHANGED <<engineVars, storedStatus, plans, runs, worldVars, target,
                 writing, run, ownTurn, historyVars>>

\* The session completes before its checkpoint.
CompleteEarly(c) ==
  /\ At(c, "synced")
  /\ Transition(c, "completed", "completing")
  /\ UNCHANGED <<currentPlan, taskPrompt, currentTaskId, retryCount,
                 validateAttempt, snapshotTurn, lastPreApply, storeVars,
                 worldVars, target, run, ownTurn, historyVars>>

-----------------------------------------------------------------------------
\* #consumeRetry: the one budget shared by plan rejections, refused or failed
\* diffs and failed validations.
ConsumeRetry(c, from, label) ==
  /\ At(c, from)
  /\ retryCount' = retryCount + 1
  /\ IF retryCount + 1 > MaxRetries
       THEN Fail(c)
       ELSE Goto(c, label) /\ UNCHANGED <<status, writing>>
  /\ UNCHANGED <<currentPlan, taskPrompt, currentTaskId, validateAttempt,
                 snapshotTurn, lastPreApply, storeVars, worldVars, target,
                 run, ownTurn, historyVars>>

-----------------------------------------------------------------------------
\* The clients' calls.

\* A call whose status guard throws InvalidTransitionError changes nothing:
\* startTask outside idle, approve or reject outside awaiting_approval.  Every
\* status refuses one of them.
RefusedCall(c) ==
  /\ MayCall(c)
  /\ Goto(c, "failed")
  /\ UNCHANGED <<engineVars, storeVars, worldVars, target, writing, run,
                 ownTurn, historyVars>>

\* startTask up to the await of the task_started hook.
StartTask(c) ==
  /\ MayCall(c)
  /\ status = "idle"
  /\ taskPrompt' = c
  /\ Goto(c, "startHook")
  /\ UNCHANGED <<status, currentPlan, currentTaskId, retryCount,
                 validateAttempt, snapshotTurn, lastPreApply, storeVars,
                 worldVars, target, writing, run, ownTurn, historyVars>>

\* approve(p) and reject(p) up to getPlan, whose row must be pending.
Decide(c, p, label) ==
  /\ MayCall(c)
  /\ status = "awaiting_approval"
  /\ plans[p] # "none"
  /\ target' = [target EXCEPT ![c] = p]
  /\ Goto(c, IF plans[p] = "pending" THEN label ELSE "failed")
  /\ UNCHANGED <<engineVars, storeVars, worldVars, writing, run, ownTurn, historyVars>>

\* requirePendingPlan compares with currentPlan; approve issues its UPDATE.
CheckApprove(c) ==
  /\ At(c, "checkApprove")
  /\ IF currentPlan.id = target[c]
       THEN /\ plans' = [plans EXCEPT ![target[c]] = "approved"]
            /\ approvedOnce' = approvedOnce \cup {target[c]}
            /\ Goto(c, "approveRead")
       ELSE Goto(c, "failed") /\ UNCHANGED <<plans, approvedOnce>>
  /\ UNCHANGED <<engineVars, storedStatus, runs, checkpoints, worldVars, target,
                 writing, run, ownTurn, planPrompt, implemented, rounds>>

\* updatePlan reads the row back into currentPlan; the plan_approved hook.
ReadApproved(c) ==
  /\ At(c, "approveRead")
  /\ currentPlan' = [id |-> target[c], status |-> plans[target[c]]]
  /\ Goto(c, "loop")
  /\ UNCHANGED <<status, taskPrompt, currentTaskId, retryCount,
                 validateAttempt, snapshotTurn, lastPreApply, storeVars,
                 worldVars, target, writing, run, ownTurn, historyVars>>

CheckReject(c) ==
  /\ At(c, "checkReject")
  /\ IF currentPlan.id = target[c]
       THEN /\ plans' = [plans EXCEPT ![target[c]] = "rejected"]
            /\ Goto(c, "rejectWritten")
       ELSE Goto(c, "failed") /\ UNCHANGED plans
  /\ UNCHANGED <<engineVars, storedStatus, runs, checkpoints, worldVars, target,
                 writing, run, ownTurn, historyVars>>

\* Outside #guard, getPlan or updatePlan rejects, the latter before or after its
\* UPDATE, or the status write of #fail does: the call fails and the engine keeps
\* its state.
StoreFault(c) ==
  /\ StoreFaults
  /\ \/ \E label \in OpenLabels \ {"startHook"} : At(c, label)
     \/ pc[c] = "failed" /\ writing[c] # None
  /\ Goto(c, "failed")
  /\ writing' = [writing EXCEPT ![c] = None]
  /\ UNCHANGED <<engineVars, storeVars, worldVars, target, run, ownTurn, historyVars>>

-----------------------------------------------------------------------------
\* #plan.

BeginPlan(c, from) ==
  /\ At(c, from)
  /\ Transition(c, "planning", "planLLM")
  /\ rounds' = IF IsAllowedTransition(status, "planning") THEN rounds + 1 ELSE rounds
  /\ UNCHANGED <<currentPlan, taskPrompt, currentTaskId, retryCount,
                 validateAttempt, snapshotTurn, lastPreApply, storeVars,
                 worldVars, target, run, ownTurn, planPrompt, approvedOnce,
                 implemented>>

\* The LLM's plan for the task prompt is written to PLAN.md and inserted; the
\* prompt only changes while idle, so it does not matter when it is read.
WritePlan(c) ==
  /\ At(c, "planLLM")
  /\ plans' = [plans EXCEPT ![c] = "pending"]
  /\ planPrompt' = [planPrompt EXCEPT ![c] = taskPrompt]
  /\ TouchSandbox
  /\ Goto(c, "planStored")
  /\ UNCHANGED <<engineVars, storedStatus, runs, checkpoints, target, writing,
                 run, ownTurn, approvedOnce, implemented, rounds>>

\* After the plan_generated hook the plan's id labels the task's messages.
LabelTask(c) ==
  /\ At(c, "planStored")
  /\ currentTaskId' = c
  /\ Goto(c, "planMessages")
  /\ UNCHANGED <<status, currentPlan, taskPrompt, retryCount, validateAttempt,
                 snapshotTurn, lastPreApply, storeVars, worldVars, target,
                 writing, run, ownTurn, historyVars>>

OfferPlan(c) ==
  /\ At(c, "planMessages")
  /\ currentPlan' = [id |-> c, status |-> "pending"]
  /\ Transition(c, "awaiting_approval", "planReady")
  /\ UNCHANGED <<taskPrompt, currentTaskId, retryCount, validateAttempt,
                 snapshotTurn, lastPreApply, storeVars, worldVars, target, run,
                 ownTurn, historyVars>>

\* The call returns: #plan after its last transition, approve after #validate's.
Return(c, from) ==
  /\ At(c, from)
  /\ Goto(c, "done")
  /\ UNCHANGED <<engineVars, storeVars, worldVars, target, writing, run,
                 ownTurn, historyVars>>

-----------------------------------------------------------------------------
\* #implement.

BeginAttempt(c) ==
  /\ At(c, "loop")
  /\ Transition(c, "implementing", "prompting")
  /\ rounds' = IF IsAllowedTransition(status, "implementing") THEN rounds + 1 ELSE rounds
  /\ ownTurn' = [ownTurn EXCEPT ![c] = None]
  /\ UNCHANGED <<currentPlan, taskPrompt, currentTaskId, retryCount,
                 validateAttempt, snapshotTurn, lastPreApply, storeVars,
                 worldVars, target, run, planPrompt, approvedOnce, implemented>>

\* #implementMessages: the prompt is built from #approvedPlan(), or it throws.
Prompt(c) ==
  /\ At(c, "prompting")
  /\ currentPlan.status = "approved"
  /\ implemented' = implemented \cup {currentPlan.id}
  /\ Goto(c, "implLLM")
  /\ UNCHANGED <<engineVars, storeVars, worldVars, target, writing, run,
                 ownTurn, planPrompt, approvedOnce, rounds>>

\* The completion ends: diff says whether it parses as a unified diff, mutated
\* whether a file tool changed the sandbox on the way.
Generate(c, diff, mutated) ==
  /\ At(c, "implLLM")
  /\ mutated => FileTools
  /\ IF mutated THEN TouchSandbox ELSE UNCHANGED worldVars
  /\ Goto(c, IF diff THEN IF RequireApproval THEN "asking" ELSE "gating"
                     ELSE IF mutated THEN "applied" ELSE "applyingBare")
  /\ UNCHANGED <<engineVars, storeVars, target, writing, run, ownTurn, historyVars>>

\* The permission gate answers; a refused diff costs a retry.
AnswerDiff(c, allowed) ==
  /\ At(c, "asking")
  /\ Goto(c, IF allowed THEN "gating" ELSE "retryAttempt")
  /\ UNCHANGED <<engineVars, storeVars, worldVars, target, writing, run,
                 ownTurn, historyVars>>

\* The pre_apply_diff hooks let the diff pass; the pre-apply turn is numbered.
PassGate(c) ==
  /\ At(c, "gating")
  /\ IF Snapshots
       THEN /\ snapshotTurn' = snapshotTurn + 1
            /\ ownTurn' = [ownTurn EXCEPT ![c] = snapshotTurn]
            /\ Goto(c, "saving")
       ELSE Goto(c, "applying") /\ UNCHANGED <<snapshotTurn, ownTurn>>
  /\ UNCHANGED <<status, currentPlan, taskPrompt, currentTaskId, retryCount,
                 validateAttempt, lastPreApply, storeVars, worldVars, target,
                 writing, run, historyVars>>

SavePreApply(c) ==
  /\ At(c, "saving")
  /\ lastPreApply' = ownTurn[c]
  /\ Goto(c, "applying")
  /\ UNCHANGED <<status, currentPlan, taskPrompt, currentTaskId, retryCount,
                 validateAttempt, snapshotTurn, storeVars, worldVars, target,
                 writing, run, ownTurn, historyVars>>

ApplyDiff(c) ==
  /\ At(c, "applying")
  /\ TouchSandbox
  /\ snapshotTurn' = IF Snapshots THEN snapshotTurn + 1 ELSE snapshotTurn
  /\ Goto(c, IF Snapshots THEN "savingPost" ELSE "applied")
  /\ UNCHANGED <<status, currentPlan, taskPrompt, currentTaskId, retryCount,
                 validateAttempt, lastPreApply, storeVars, target, writing,
                 run, ownTurn, historyVars>>

\* DiffApplyError: the files whose patches did apply stay changed; a
\* completion without a diff changes none.
RefuseDiff(c) ==
  /\ \/ At(c, "applying") /\ TouchSandbox
     \/ At(c, "applyingBare") /\ UNCHANGED worldVars
  /\ Goto(c, "retryAttempt")
  /\ UNCHANGED <<engineVars, storeVars, target, writing, run, ownTurn, historyVars>>

SavePostApply(c) ==
  /\ At(c, "savingPost")
  /\ Goto(c, "applied")
  /\ UNCHANGED <<engineVars, storeVars, worldVars, target, writing, run,
                 ownTurn, historyVars>>

-----------------------------------------------------------------------------
\* #validate.

BeginValidate(c) ==
  /\ At(c, "applied")
  /\ Transition(c, "validating", "validating")
  /\ UNCHANGED <<currentPlan, taskPrompt, currentTaskId, retryCount,
                 validateAttempt, snapshotTurn, lastPreApply, storeVars,
                 worldVars, target, run, ownTurn, historyVars>>

\* The test command starts in the sandbox.
RunTests(c) ==
  /\ At(c, "validating")
  /\ watch' = watch \cup {c}
  /\ Goto(c, "testing")
  /\ UNCHANGED <<engineVars, storeVars, host, target, writing, run, ownTurn, historyVars>>

\* The test command ends in time: the attempt is counted and recorded under the
\* approved plan, or #approvedPlan() throws.
EndTests(c, passed) ==
  /\ At(c, "testing")
  /\ validateAttempt' = validateAttempt + 1
  /\ IF currentPlan.status = "approved"
       THEN /\ runs' = runs \cup {[attempt |-> validateAttempt + 1,
                                   plan |-> currentPlan.id, passed |-> passed]}
            /\ run' = [run EXCEPT ![c] = validateAttempt + 1]
            /\ Goto(c, IF passed THEN "passed" ELSE "failedTests")
            /\ UNCHANGED <<status, writing>>
       ELSE Fail(c) /\ UNCHANGED <<runs, run>>
  /\ watch' = IF passed THEN watch ELSE watch \ {c}
  /\ UNCHANGED <<currentPlan, taskPrompt, currentTaskId, retryCount,
                 snapshotTurn, lastPreApply, storedStatus, plans, checkpoints,
                 host, target, ownTurn, historyVars>>

\* A failed run restores the last pre-apply turn, if there is one.
RestoreSnapshot(c) ==
  /\ At(c, "failedTests")
  /\ IF lastPreApply # None THEN TouchSandbox ELSE UNCHANGED worldVars
  /\ Goto(c, "retryAttempt")
  /\ UNCHANGED <<engineVars, storeVars, target, writing, run, ownTurn, historyVars>>

SyncToHost(c) ==
  /\ At(c, "passed")
  /\ host' = IF c \in watch THEN "validated" ELSE "unvalidated"
  /\ lastPreApply' = None
  /\ Goto(c, "synced")
  /\ UNCHANGED <<status, currentPlan, taskPrompt, currentTaskId, retryCount,
                 validateAttempt, snapshotTurn, storeVars, watch, target,
                 writing, run, ownTurn, historyVars>>

Checkpoint(c) ==
  /\ At(c, "synced")
  /\ checkpoints' = checkpoints \cup {run[c]}
  /\ Goto(c, "checkpointed")
  /\ UNCHANGED <<engineVars, storedStatus, plans, runs, worldVars, target,
                 writing, run, ownTurn, historyVars>>

Complete(c) ==
  /\ At(c, "checkpointed")
  /\ Transition(c, "completed", "completing")
  /\ UNCHANGED <<currentPlan, taskPrompt, currentTaskId, retryCount,
                 validateAttempt, snapshotTurn, lastPreApply, storeVars,
                 worldVars, target, run, ownTurn, historyVars>>

-----------------------------------------------------------------------------
NewCall(c) ==
  \/ RefusedCall(c)
  \/ StartTask(c)
  \/ \E p \in Calls, label \in {"checkApprove", "checkReject"} : Decide(c, p, label)

PlanStep(c) ==
  \/ \E from \in {"startHook", "replan"} : BeginPlan(c, from)
  \/ WritePlan(c) \/ LabelTask(c) \/ OfferPlan(c)
  \/ Return(c, "planReady")

DecisionStep(c) ==
  \/ CheckApprove(c) \/ ReadApproved(c)
  \/ CheckReject(c) \/ ConsumeRetry(c, "rejectWritten", "replan")
  \/ StoreFault(c)

AttemptStep(c) ==
  \/ BeginAttempt(c) \/ Prompt(c)
  \/ \E diff, mutated \in BOOLEAN : Generate(c, diff, mutated)
  \/ \E allowed \in BOOLEAN : AnswerDiff(c, allowed)
  \/ PassGate(c) \/ SavePreApply(c) \/ ApplyDiff(c) \/ RefuseDiff(c) \/ SavePostApply(c)
  \/ ConsumeRetry(c, "retryAttempt", "loop")

ValidateStep(c) ==
  \/ BeginValidate(c) \/ RunTests(c)
  \/ \E passed \in BOOLEAN : EndTests(c, passed)
  \/ RestoreSnapshot(c) \/ SyncToHost(c) \/ Checkpoint(c) \/ Complete(c)
  \/ Return(c, "completing")

\* What the event loop does for call c once its awaited operation has settled.
Resume(c) ==
  \/ StoreStatus(c) \/ Throw(c)
  \/ PlanStep(c) \/ DecisionStep(c) \/ AttemptStep(c) \/ ValidateStep(c)

Next == \E c \in Calls : NewCall(c) \/ Resume(c)

Spec == Init /\ [][Next]_vars

\* Clients may stop calling; an awaited operation settles sooner or later.
Fairness == \A c \in Calls : WF_vars(Resume(c))
FairSpec == Spec /\ Fairness
-----------------------------------------------------------------------------
\* Properties.

\* Every variable keeps the shape its field, row or local has in the code.
TypeOK ==
  /\ status \in Status /\ storedStatus \in Status
  /\ currentPlan \in [id : Calls \cup {None},
                      status : {"none", "pending", "approved", "rejected"}]
  /\ taskPrompt \in Calls \cup {None} /\ currentTaskId \in Calls \cup {None}
  /\ retryCount \in Nat /\ validateAttempt \in Nat /\ snapshotTurn \in Nat
  /\ lastPreApply \in Nat \cup {None}
  /\ plans \in [Calls -> {"none", "pending", "approved", "rejected"}]
  /\ runs \subseteq [attempt : Nat, plan : Calls, passed : BOOLEAN]
  /\ checkpoints \subseteq Nat
  /\ watch \subseteq Calls /\ host \in {"untouched", "validated", "unvalidated"}
  /\ pc \in [Calls -> Labels] /\ target \in [Calls -> Calls \cup {None}]
  /\ writing \in [Calls -> Status \cup {None}]
  /\ run \in [Calls -> Nat] /\ ownTurn \in [Calls -> Nat \cup {None}]
  /\ planPrompt \in [Calls -> Calls \cup {None}]
  /\ approvedOnce \subseteq Calls /\ implemented \subseteq Calls /\ rounds \in Nat

\* A completed or failed session never moves again, whatever calls are still
\* suspended in it: each of them finds its next #transition refused.
TerminalIsFinal ==
  [][(status \in {"completed", "error"}) => status' = status]_vars

\* "The PIV workflow waits for plan approval before implementation": the LLM is
\* only ever asked to implement a plan some approve call approved, also when a
\* slow startTask or reject replaces the current plan under an approve in flight.
OnlyApprovedImplemented == implemented \subseteq approvedOnce

\* startTask overwrites #taskPrompt before its first await, so two of them may
\* both pass the idle guard; still all plans answer one and the same prompt.
PlansShareOnePrompt ==
  \A p, q \in Calls : plans[p] # "none" /\ plans[q] # "none" => planPrompt[p] = planPrompt[q]

\* What is implemented was approved and answers the one prompt, in a state of the
\* engine's types.
ApprovedWork == TypeOK /\ OnlyApprovedImplemented /\ PlansShareOnePrompt

\* A checkpoint names a recorded run that passed, of a plan that was approved.
CheckpointProvenance ==
  \A a \in checkpoints : \E r \in runs :
     r.attempt = a /\ r.passed /\ r.plan \in approvedOnce

\* Validation attempts are numbered without repetition, however many loops run.
AttemptsDistinct ==
  \A r, s \in runs : r.attempt = s.attempt => r = s

\* Whichever loop overdraws the shared budget ends the session.
BudgetEndsSession == retryCount > MaxRetries => status \in {"completed", "error"}

\* The host repository only ever receives sandbox content a passed test run of
\* the syncing call vouches for ("syncs and checkpoints only after validation
\* passes"); needs a single client.
HostValidated == host # "unvalidated"

\* The work of a session is bounded whatever the user and the LLM do: planning
\* and implementing rounds together draw on MaxRetries, and the first plan and
\* the first attempt are free.  Single client.
WorkBounded == rounds <= MaxRetries + 2

\* A completed session has its validated content on the host, in a checkpoint,
\* for the plan the store holds as approved, and exactly one of them.
CompletionCertified ==
  status = "completed" =>
    /\ host = "validated"
    /\ Cardinality(checkpoints) = 1
    /\ \E r \in runs : /\ r.attempt \in checkpoints /\ r.passed
                       /\ r.plan = currentPlan.id /\ plans[r.plan] = "approved"

\* When no call is in flight the session row says what the engine says.
StoredStatusAgrees == InFlight = {} => storedStatus = status

\* A session waiting for a decision has one to take: its current plan is
\* pending in the store, and no other plan is.
DecisionPossible ==
  status = "awaiting_approval" /\ InFlight = {} =>
    {p \in Calls : plans[p] = "pending"} = {currentPlan.id}

\* The messages an attempt adds are filed under the plan whose messages the
\* next attempt's prompt lists, so the LLM sees why its last attempt failed.
FeedbackVisible ==
  \A c \in Calls : pc[c] \in {"implLLM", "testing", "failedTests", "retryAttempt"} =>
    currentTaskId = currentPlan.id

\* What the next call finds: a row that says what the engine does, a plan to
\* decide on when one is waited for, and what the last attempt came to.
NextCallInformed == StoredStatusAgrees /\ DecisionPossible /\ FeedbackVisible

\* The turn a failed validation restores is the pre-apply turn of the attempt
\* that failed, never one of an earlier attempt, whatever retries, refused diffs
\* and post-apply turns were numbered in between.  An attempt that only used file
\* tools saved no turn of its own (ownTurn is None).  Single client.
RestoresOwnAttempt ==
  \A c \in Calls : pc[c] = "failedTests" /\ ownTurn[c] # None => lastPreApply = ownTurn[c]

\* Every call a client makes returns or throws: no retry loop runs forever and
\* no call waits for another, so again and again nothing is in flight.
CallsReturn == []<>(InFlight = {})

\* A session at work settles: it ends up waiting for a decision or terminal.
Settles ==
  status \in {"planning", "implementing", "validating"}
    ~> status \in {"awaiting_approval", "completed", "error"}

\* Under overlapping calls nothing hangs: neither a call nor the session.
Progress == CallsReturn /\ Settles

\* What the session promises: see PIVLifecycle.
Delivered == IF checkpoints # {} THEN "committed"
             ELSE IF host = "untouched" THEN "nothing"
             ELSE IF host = "validated" THEN "synced" ELSE "unvalidated"

Lifecycle == INSTANCE PIVLifecycle WITH phase <- status, delivered <- Delivered

\* A single client's engine implements the lifecycle.
ImplementsLifecycle == Lifecycle!Spec
=============================================================================
