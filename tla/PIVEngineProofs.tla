-------------------------- MODULE PIVEngineProofs ---------------------------
(***************************************************************************)
(* Theorems about PIVEngine, for every set of calls, every retry budget and *)
(* every choice of the flags.                                               *)
(***************************************************************************)
EXTENDS PIVEngine, FiniteSetTheorems, TLAPS

-----------------------------------------------------------------------------
\* What the shared steps leave typed.

LEMMA FailTyped ==
  ASSUME TypeOK, NEW c \in Calls, Fail(c)
  PROVE  /\ status' \in Status
         /\ pc' \in [Calls -> Labels]
         /\ writing' \in [Calls -> Status \cup {None}]
<1>1. pc' \in [Calls -> Labels]
  BY DEF Fail, Goto, TypeOK, Labels
<1>2. status' \in Status /\ writing' \in [Calls -> Status \cup {None}]
  BY DEF Fail, TypeOK, Status
<1>3. QED BY <1>1, <1>2

LEMMA TransitionTyped ==
  ASSUME TypeOK, NEW c \in Calls, NEW next \in Status, NEW label \in Labels,
         Transition(c, next, label)
  PROVE  /\ status' \in Status
         /\ pc' \in [Calls -> Labels]
         /\ writing' \in [Calls -> Status \cup {None}]
<1>1. CASE IsAllowedTransition(status, next)
  BY <1>1 DEF Transition, Goto, TypeOK
<1>2. CASE ~IsAllowedTransition(status, next)
  BY <1>2, FailTyped DEF Transition
<1>3. QED BY <1>1, <1>2

LEMMA GotoTyped ==
  ASSUME TypeOK, NEW c \in Calls, NEW label \in Labels, Goto(c, label)
  PROVE  pc' \in [Calls -> Labels]
BY DEF Goto, TypeOK

LEMMA LabelsTyped == \A label \in GuardedLabels \cup OpenLabels \cup {"done", "failed"} :
                        label \in Labels
BY DEF Labels

-----------------------------------------------------------------------------
\* TypeOK alone is not inductive: a decision in flight has a plan to decide on,
\* and only the initial current plan has no id.
TypeInv ==
  /\ TypeOK
  /\ \A c \in Calls : pc[c] \in {"checkApprove", "checkReject", "approveRead"} => target[c] \in Calls
  /\ currentPlan.id \in Calls \/ currentPlan.status = "none"

LEMMA InitTyped == Init => TypeInv
BY DEF Init, TypeInv, TypeOK, Status, Labels, NoPlan

LEMMA CallTyped ==
  ASSUME TypeInv, NEW c \in Calls, NewCall(c)
  PROVE  TypeInv'
<1> USE DEF engineVars, storeVars, worldVars, historyVars, TypeInv, TypeOK, Goto,
            Labels, OpenLabels
<1>1. CASE RefusedCall(c) BY <1>1 DEF RefusedCall
<1>2. CASE StartTask(c)   BY <1>2 DEF StartTask
<1>3. ASSUME NEW p \in Calls, NEW label \in {"checkApprove", "checkReject"},
             Decide(c, p, label)
      PROVE  TypeInv'
  BY <1>3 DEF Decide
<1>4. QED BY <1>1, <1>2, <1>3 DEF NewCall

\* Fail and Transition suspend a call at failed or at the given label.
LEMMA FailKeepsTargets ==
  ASSUME TypeInv, NEW c \in Calls, Fail(c), UNCHANGED target
  PROVE  \A d \in Calls : pc'[d] \in {"checkApprove", "checkReject", "approveRead"} =>
            target'[d] \in Calls
BY DEF Fail, Goto, TypeInv, TypeOK

LEMMA TransitionKeepsTargets ==
  ASSUME TypeInv, NEW c \in Calls, NEW next, NEW label, Transition(c, next, label),
         label \notin {"checkApprove", "checkReject", "approveRead"}, UNCHANGED target
  PROVE  \A d \in Calls : pc'[d] \in {"checkApprove", "checkReject", "approveRead"} =>
            target'[d] \in Calls
BY FailKeepsTargets DEF Transition, Goto, TypeInv, TypeOK

LEMMA RetryTyped ==
  ASSUME TypeInv, NEW c \in Calls, NEW from,
         NEW label \in {"loop", "replan"}, ConsumeRetry(c, from, label)
  PROVE  TypeInv'
<1> USE DEF storeVars, worldVars, historyVars
<1>1. CASE retryCount + 1 > MaxRetries
  BY <1>1, FailTyped, FailKeepsTargets DEF ConsumeRetry, TypeInv, TypeOK
<1>2. CASE ~(retryCount + 1 > MaxRetries)
  BY <1>2 DEF ConsumeRetry, Goto, TypeInv, TypeOK, Labels, GuardedLabels
<1>3. QED BY <1>1, <1>2

LEMMA DecisionTyped ==
  ASSUME TypeInv, NEW c \in Calls, DecisionStep(c)
  PROVE  TypeInv'
<1> USE DEF engineVars, storeVars, worldVars, historyVars, TypeInv, TypeOK, Goto, At,
            Labels, OpenLabels, GuardedLabels
<1>1. CASE CheckApprove(c) BY <1>1 DEF CheckApprove
<1>2. CASE ReadApproved(c) BY <1>2 DEF ReadApproved
<1>3. CASE CheckReject(c)  BY <1>3 DEF CheckReject
<1>4. CASE ConsumeRetry(c, "rejectWritten", "replan") BY <1>4, RetryTyped
<1>5. CASE StoreFault(c)   BY <1>5 DEF StoreFault
<1>6. QED BY <1>1, <1>2, <1>3, <1>4, <1>5 DEF DecisionStep

LEMMA PlanTyped ==
  ASSUME TypeInv, NEW c \in Calls, PlanStep(c)
  PROVE  TypeInv'
<1> USE DEF engineVars, storeVars, worldVars, historyVars
<1>1. ASSUME NEW from \in {"startHook", "replan"}, BeginPlan(c, from)
      PROVE  TypeInv'
  <2>1. "planning" \in Status /\ "planLLM" \in Labels
    BY DEF Status, Labels, GuardedLabels
  <2>2. QED
    BY <1>1, <2>1, TransitionTyped, TransitionKeepsTargets DEF BeginPlan, TypeInv, TypeOK
<1>2. CASE WritePlan(c)
  BY <1>2 DEF WritePlan, TouchSandbox, Goto, TypeInv, TypeOK, Labels, GuardedLabels
<1>3. CASE LabelTask(c)
  BY <1>3 DEF LabelTask, Goto, TypeInv, TypeOK, Labels, GuardedLabels
<1>4. CASE OfferPlan(c)
  <2>1. "awaiting_approval" \in Status /\ "planReady" \in Labels
    BY DEF Status, Labels, GuardedLabels
  <2>2. QED
    BY <1>4, <2>1, TransitionTyped, TransitionKeepsTargets DEF OfferPlan, TypeInv, TypeOK
<1>5. CASE Return(c, "planReady")
  BY <1>5 DEF Return, Goto, TypeInv, TypeOK, Labels
<1>6. QED BY <1>1, <1>2, <1>3, <1>4, <1>5 DEF PlanStep

LEMMA AttemptTyped ==
  ASSUME TypeInv, NEW c \in Calls, AttemptStep(c)
  PROVE  TypeInv'
<1> USE DEF engineVars, storeVars, worldVars, historyVars
<1>1. CASE BeginAttempt(c)
  <2>1. "implementing" \in Status /\ "prompting" \in Labels
    BY DEF Status, Labels, GuardedLabels
  <2>2. QED
    BY <1>1, <2>1, TransitionTyped, TransitionKeepsTargets DEF BeginAttempt, TypeInv, TypeOK
<1>2. CASE Prompt(c)
  BY <1>2 DEF Prompt, Goto, TypeInv, TypeOK, Labels, GuardedLabels
<1>3. ASSUME NEW diff \in BOOLEAN, NEW mutated \in BOOLEAN, Generate(c, diff, mutated)
      PROVE  TypeInv'
  <2>1. PICK label \in {"asking", "gating", "applied", "applyingBare"} : Goto(c, label)
    BY <1>3, FlagsAssumption DEF Generate
  <2>2. watch' \subseteq Calls /\ host' = host
    BY <1>3 DEF Generate, TouchSandbox, TypeInv, TypeOK
  <2>3. QED
    BY <1>3, <2>1, <2>2 DEF Generate, Goto, TypeInv, TypeOK, Labels, GuardedLabels
<1>4. ASSUME NEW allowed \in BOOLEAN, AnswerDiff(c, allowed)
      PROVE  TypeInv'
  BY <1>4 DEF AnswerDiff, Goto, TypeInv, TypeOK, Labels, GuardedLabels
<1>5. CASE PassGate(c)
  BY <1>5 DEF PassGate, Goto, TypeInv, TypeOK, Labels, GuardedLabels
<1>6. CASE SavePreApply(c)
  BY <1>6 DEF SavePreApply, Goto, TypeInv, TypeOK, Labels, GuardedLabels
<1>7. CASE ApplyDiff(c)
  BY <1>7 DEF ApplyDiff, TouchSandbox, Goto, TypeInv, TypeOK, Labels, GuardedLabels
<1>8. CASE RefuseDiff(c)
  BY <1>8 DEF RefuseDiff, TouchSandbox, Goto, TypeInv, TypeOK, Labels, GuardedLabels
<1>9. CASE SavePostApply(c)
  BY <1>9 DEF SavePostApply, Goto, TypeInv, TypeOK, Labels, GuardedLabels
<1>10. CASE ConsumeRetry(c, "retryAttempt", "loop") BY <1>10, RetryTyped
<1>11. QED
  BY <1>1, <1>2, <1>3, <1>4, <1>5, <1>6, <1>7, <1>8, <1>9, <1>10 DEF AttemptStep

LEMMA ValidateTyped ==
  ASSUME TypeInv, NEW c \in Calls, ValidateStep(c)
  PROVE  TypeInv'
<1> USE DEF engineVars, storeVars, worldVars, historyVars
<1>1. CASE BeginValidate(c)
  <2>1. "validating" \in Status /\ "validating" \in Labels
    BY DEF Status, Labels, GuardedLabels
  <2>2. QED
    BY <1>1, <2>1, TransitionTyped, TransitionKeepsTargets DEF BeginValidate, TypeInv, TypeOK
<1>2. CASE RunTests(c)
  BY <1>2 DEF RunTests, Goto, TypeInv, TypeOK, Labels, GuardedLabels
<1>3. ASSUME NEW passed \in BOOLEAN, EndTests(c, passed)
      PROVE  TypeInv'
  <2>1. CASE currentPlan.status = "approved"
    BY <1>3, <2>1 DEF EndTests, Goto, TypeInv, TypeOK, Labels, GuardedLabels
  <2>2. CASE currentPlan.status # "approved"
    BY <1>3, <2>2, FailTyped, FailKeepsTargets DEF EndTests, TypeInv, TypeOK
  <2>3. QED BY <2>1, <2>2
<1>4. CASE RestoreSnapshot(c)
  BY <1>4 DEF RestoreSnapshot, TouchSandbox, Goto, TypeInv, TypeOK, Labels, GuardedLabels
<1>5. CASE SyncToHost(c)
  BY <1>5 DEF SyncToHost, Goto, TypeInv, TypeOK, Labels, GuardedLabels
<1>6. CASE Checkpoint(c)
  <2>1. run[c] \in Nat BY DEF TypeInv, TypeOK
  <2>2. checkpoints' \subseteq Nat
    BY <1>6, <2>1 DEF Checkpoint, TypeInv, TypeOK
  <2>3. QED
    BY <1>6, <2>2 DEF Checkpoint, Goto, TypeInv, TypeOK, Labels, GuardedLabels
<1>7. CASE Complete(c)
  <2>1. "completed" \in Status /\ "completing" \in Labels
    BY DEF Status, Labels, GuardedLabels
  <2>2. QED
    BY <1>7, <2>1, TransitionTyped, TransitionKeepsTargets DEF Complete, TypeInv, TypeOK
<1>8. CASE Return(c, "completing")
  BY <1>8 DEF Return, Goto, TypeInv, TypeOK, Labels
<1>9. QED
  BY <1>1, <1>2, <1>3, <1>4, <1>5, <1>6, <1>7, <1>8 DEF ValidateStep

LEMMA TypeStep ==
  ASSUME TypeInv, [Next]_vars
  PROVE  TypeInv'
<1>1. CASE UNCHANGED vars
  BY <1>1 DEF vars, engineVars, storeVars, worldVars, callVars, historyVars, TypeInv, TypeOK
<1>2. ASSUME NEW c \in Calls, NewCall(c) \/ Resume(c)
      PROVE  TypeInv'
  <2>1. CASE StoreStatus(c)
    BY <2>1 DEF StoreStatus, TypeInv, TypeOK, engineVars, worldVars, historyVars
  <2>2. CASE Throw(c)
    BY <2>2, FailTyped, FailKeepsTargets
    DEF Throw, TypeInv, TypeOK, storeVars, worldVars, historyVars
  <2>3. QED
    BY <1>2, <2>1, <2>2, CallTyped, PlanTyped, DecisionTyped, AttemptTyped, ValidateTyped
    DEF Resume
<1>3. QED BY <1>1, <1>2 DEF Next

\* Type correctness: every field, row and local keeps its shape whatever the
\* calls, their interleaving and the faults.
THEOREM TypeCorrect == Spec => []TypeInv
BY InitTyped, TypeStep, PTL DEF Spec

\* The invariant the runs check.
THEOREM TypesHold == Spec => []TypeOK
<1>1. TypeInv => TypeOK BY DEF TypeInv
<1>2. QED BY <1>1, TypeCorrect, PTL

-----------------------------------------------------------------------------
\* What a step may do to a group of variables.

LEMMA CallFrame ==
  ASSUME NEW c \in Calls, NewCall(c)
  PROVE  /\ UNCHANGED <<status, currentPlan, retryCount, validateAttempt, plans, runs,
                        checkpoints, run, watch, host, historyVars>>
         /\ UNCHANGED taskPrompt \/ (taskPrompt' = c /\ status = "idle")
         /\ \E label \in {"failed", "startHook", "checkApprove", "checkReject"} : Goto(c, label)
BY DEF NewCall, RefusedCall, StartTask, Decide, engineVars, storeVars, worldVars, historyVars

\* status only moves along the table.
LEMMA FailMoves ==
  ASSUME NEW c, Fail(c)
  PROVE  status' = status \/ IsAllowedTransition(status, status')
BY DEF Fail

LEMMA TransitionMoves ==
  ASSUME NEW c, NEW next, NEW label, Transition(c, next, label)
  PROVE  status' = status \/ IsAllowedTransition(status, status')
BY FailMoves DEF Transition

LEMMA StatusFrame ==
  ASSUME NEW c \in Calls, Resume(c)
  PROVE  status' = status \/ IsAllowedTransition(status, status')
<1> USE FailMoves, TransitionMoves DEF engineVars
<1>1. CASE StoreStatus(c) BY <1>1 DEF StoreStatus
<1>2. CASE Throw(c)       BY <1>2 DEF Throw
<1>3. CASE PlanStep(c)
  BY <1>3 DEF PlanStep, BeginPlan, WritePlan, LabelTask, OfferPlan, Return
<1>4. CASE DecisionStep(c)
  BY <1>4 DEF DecisionStep, CheckApprove, ReadApproved, CheckReject, ConsumeRetry, StoreFault
<1>5. CASE AttemptStep(c)
  BY <1>5 DEF AttemptStep, BeginAttempt, Prompt, Generate, AnswerDiff, PassGate,
              SavePreApply, ApplyDiff, RefuseDiff, SavePostApply, ConsumeRetry
<1>6. CASE ValidateStep(c)
  BY <1>6 DEF ValidateStep, BeginValidate, RunTests, EndTests, RestoreSnapshot,
              SyncToHost, Checkpoint, Complete, Return
<1>7. QED BY <1>1, <1>2, <1>3, <1>4, <1>5, <1>6 DEF Resume

-----------------------------------------------------------------------------
\* A terminal session stays as it is.

LEMMA TerminalStep ==
  ASSUME [Next]_vars, status \in {"completed", "error"}
  PROVE  status' = status
<1>1. ASSUME NEW c \in Calls, Resume(c)
      PROVE  status' = status
  BY <1>1, StatusFrame DEF IsAllowedTransition, AllowedTransitions
<1>2. QED BY <1>1, CallFrame DEF Next, vars, engineVars

\* No interleaving of calls moves a completed or failed session.
THEOREM TerminalIsFinalHolds == Spec => TerminalIsFinal
<1>1. [Next]_vars => [(status \in {"completed", "error"}) => status' = status]_vars
  BY TerminalStep
<1>2. QED BY <1>1, PTL DEF Spec, TerminalIsFinal

-----------------------------------------------------------------------------
\* Only approved plans are implemented.

\* A plan that reads as approved, in its row or in the engine, was approved.
ApprovalInv ==
  /\ \A p \in Calls : plans[p] = "approved" => p \in approvedOnce
  /\ currentPlan.status = "approved" => currentPlan.id \in approvedOnce
  /\ OnlyApprovedImplemented

LEMMA ApprovalFrame ==
  ASSUME NEW c \in Calls, Resume(c)
  PROVE  \/ UNCHANGED <<plans, currentPlan, approvedOnce, implemented>>
         \/ WritePlan(c) \/ OfferPlan(c) \/ Prompt(c)
         \/ CheckApprove(c) \/ ReadApproved(c) \/ CheckReject(c)
<1> USE DEF engineVars, storeVars, historyVars
<1>1. CASE StoreStatus(c) BY <1>1 DEF StoreStatus
<1>2. CASE Throw(c)       BY <1>2 DEF Throw
<1>3. CASE PlanStep(c)
  BY <1>3 DEF PlanStep, BeginPlan, LabelTask, Return
<1>4. CASE DecisionStep(c)
  BY <1>4 DEF DecisionStep, ConsumeRetry, StoreFault
<1>5. CASE AttemptStep(c)
  BY <1>5 DEF AttemptStep, BeginAttempt, Generate, AnswerDiff, PassGate,
              SavePreApply, ApplyDiff, RefuseDiff, SavePostApply, ConsumeRetry
<1>6. CASE ValidateStep(c)
  BY <1>6 DEF ValidateStep, BeginValidate, RunTests, EndTests, RestoreSnapshot,
              SyncToHost, Checkpoint, Complete, Return
<1>7. QED BY <1>1, <1>2, <1>3, <1>4, <1>5, <1>6 DEF Resume

LEMMA ApprovalStep ==
  ASSUME TypeInv, ApprovalInv, [Next]_vars
  PROVE  ApprovalInv'
<1> USE DEF ApprovalInv, OnlyApprovedImplemented
<1>1. CASE UNCHANGED vars
  BY <1>1 DEF vars, engineVars, storeVars, historyVars
<1>2. ASSUME NEW c \in Calls, NewCall(c)
      PROVE  ApprovalInv'
  BY <1>2, CallFrame DEF historyVars
<1>3. ASSUME NEW c \in Calls, Resume(c)
      PROVE  ApprovalInv'
  <2> USE DEF TypeInv, TypeOK, engineVars, storeVars, historyVars
  <2>1. CASE UNCHANGED <<plans, currentPlan, approvedOnce, implemented>>
    BY <2>1
  <2>2. CASE WritePlan(c)    BY <2>2 DEF WritePlan
  <2>3. CASE OfferPlan(c)    BY <2>3 DEF OfferPlan
  <2>4. CASE Prompt(c)       BY <2>4 DEF Prompt
  <2>5. CASE CheckApprove(c) BY <2>5 DEF CheckApprove
  <2>6. CASE ReadApproved(c) BY <2>6 DEF ReadApproved, At
  <2>7. CASE CheckReject(c)  BY <2>7 DEF CheckReject
  <2>8. QED BY <1>3, <2>1, <2>2, <2>3, <2>4, <2>5, <2>6, <2>7, ApprovalFrame
<1>4. QED BY <1>1, <1>2, <1>3 DEF Next

LEMMA ApprovalHolds == Spec => []ApprovalInv
<1>1. Init => ApprovalInv
  BY DEF Init, ApprovalInv, OnlyApprovedImplemented, NoPlan
<1>2. QED BY <1>1, ApprovalStep, TypeCorrect, PTL DEF Spec

\* Whatever calls are in flight together, the LLM is only asked to implement
\* plans that were approved.
THEOREM OnlyApprovedHolds == Spec => []OnlyApprovedImplemented
<1>1. ApprovalInv => OnlyApprovedImplemented BY DEF ApprovalInv
<1>2. QED BY <1>1, ApprovalHolds, PTL

-----------------------------------------------------------------------------
\* The retry budget ends the session.

LEMMA RetryFrame ==
  ASSUME NEW c \in Calls, Resume(c)
  PROVE  \/ UNCHANGED retryCount
         \/ ConsumeRetry(c, "rejectWritten", "replan")
         \/ ConsumeRetry(c, "retryAttempt", "loop")
<1> USE DEF engineVars
<1>1. CASE StoreStatus(c) BY <1>1 DEF StoreStatus
<1>2. CASE Throw(c)       BY <1>2 DEF Throw
<1>3. CASE PlanStep(c)
  BY <1>3 DEF PlanStep, BeginPlan, WritePlan, LabelTask, OfferPlan, Return
<1>4. CASE DecisionStep(c)
  BY <1>4 DEF DecisionStep, CheckApprove, ReadApproved, CheckReject, StoreFault
<1>5. CASE AttemptStep(c)
  BY <1>5 DEF AttemptStep, BeginAttempt, Prompt, Generate, AnswerDiff, PassGate,
              SavePreApply, ApplyDiff, RefuseDiff, SavePostApply
<1>6. CASE ValidateStep(c)
  BY <1>6 DEF ValidateStep, BeginValidate, RunTests, EndTests, RestoreSnapshot,
              SyncToHost, Checkpoint, Complete, Return
<1>7. QED BY <1>1, <1>2, <1>3, <1>4, <1>5, <1>6 DEF Resume

LEMMA BudgetStep ==
  ASSUME TypeInv, BudgetEndsSession, [Next]_vars
  PROVE  BudgetEndsSession'
<1> USE DEF BudgetEndsSession
<1>1. CASE UNCHANGED retryCount
  BY <1>1, TerminalStep
<1>2. ASSUME NEW c \in Calls, NEW from, NEW label, ConsumeRetry(c, from, label)
      PROVE  BudgetEndsSession'
  <2>1. CASE retryCount + 1 > MaxRetries
    BY <1>2, <2>1 DEF ConsumeRetry, Fail, TypeInv, TypeOK, Status,
                      IsAllowedTransition, AllowedTransitions
  <2>2. CASE ~(retryCount + 1 > MaxRetries)
    BY <1>2, <2>2 DEF ConsumeRetry
  <2>3. QED BY <2>1, <2>2
<1>3. QED BY <1>1, <1>2, RetryFrame, CallFrame DEF Next, vars, engineVars

\* Two loops may draw on the budget at once: it still never goes over without
\* ending the session.
THEOREM BudgetHolds == Spec => []BudgetEndsSession
<1>1. Init => BudgetEndsSession
  BY MaxRetriesAssumption DEF Init, BudgetEndsSession
<1>2. QED BY <1>1, BudgetStep, TypeCorrect, PTL DEF Spec

-----------------------------------------------------------------------------
\* One prompt per session.

\* Plans are only written once the session has left idle, and the prompt is
\* only set while it is idle.
PromptInv ==
  /\ \A p \in Calls : plans[p] # "none" => status # "idle" /\ planPrompt[p] = taskPrompt
  /\ \A c \in Calls : pc[c] = "planLLM" => status # "idle"
  /\ \A c \in Calls : pc[c] \in {"checkApprove", "checkReject"} => plans[target[c]] # "none"

\* Which steps suspend a call at planLLM, or write a plan.
LEMMA PromptFrame ==
  ASSUME TypeInv, NEW c \in Calls, Resume(c)
  PROVE  /\ UNCHANGED <<taskPrompt, target>>
         /\ \A d \in Calls : pc'[d] \in {"checkApprove", "checkReject"} => pc'[d] = pc[d]
         /\ \/ UNCHANGED <<plans, planPrompt>>
            \/ WritePlan(c)
            \/ UNCHANGED planPrompt /\ (CheckApprove(c) \/ CheckReject(c))
         /\ \A d \in Calls : pc'[d] = "planLLM" =>
               pc[d] = "planLLM" \/ \E from \in {"startHook", "replan"} : BeginPlan(c, from)
<1> USE DEF engineVars, storeVars, historyVars, Goto, Fail, TypeInv, TypeOK
<1>1. CASE StoreStatus(c) BY <1>1 DEF StoreStatus
<1>2. CASE Throw(c)       BY <1>2 DEF Throw
<1>3. CASE PlanStep(c)
  BY <1>3 DEF PlanStep, BeginPlan, WritePlan, LabelTask, OfferPlan, Return, Transition
<1>4. CASE DecisionStep(c)
  BY <1>4 DEF DecisionStep, CheckApprove, ReadApproved, CheckReject, ConsumeRetry, StoreFault
<1>5. CASE AttemptStep(c)
  BY <1>5 DEF AttemptStep, BeginAttempt, Prompt, Generate, AnswerDiff, PassGate, Transition,
              SavePreApply, ApplyDiff, RefuseDiff, SavePostApply, ConsumeRetry
<1>6. CASE ValidateStep(c)
  BY <1>6 DEF ValidateStep, BeginValidate, RunTests, EndTests, RestoreSnapshot, Transition,
              SyncToHost, Checkpoint, Complete, Return
<1>7. QED BY <1>1, <1>2, <1>3, <1>4, <1>5, <1>6 DEF Resume

LEMMA PromptStep ==
  ASSUME TypeInv, PromptInv, [Next]_vars
  PROVE  PromptInv'
<1>1. CASE UNCHANGED vars
  BY <1>1 DEF vars, engineVars, storeVars, callVars, historyVars, PromptInv
<1>2. ASSUME NEW c \in Calls, NewCall(c)
      PROVE  PromptInv'
  <2>1. \A d \in Calls : pc'[d] = "planLLM" => pc[d] = "planLLM"
    BY <1>2, CallFrame DEF Goto, TypeInv, TypeOK
  <2>2. \A d \in Calls : pc'[d] \in {"checkApprove", "checkReject"} => plans[target'[d]] # "none"
    BY <1>2 DEF NewCall, RefusedCall, StartTask, Decide, Goto, PromptInv, TypeInv, TypeOK
  <2>3. QED BY <1>2, <2>1, <2>2, CallFrame DEF historyVars, PromptInv
<1>3. ASSUME NEW c \in Calls, Resume(c)
      PROVE  PromptInv'
  <2>1. status # "idle" => status' # "idle"
    BY <1>3, StatusFrame DEF IsAllowedTransition, AllowedTransitions
  <2>2. ASSUME NEW d \in Calls, pc'[d] = "planLLM"
        PROVE  status' # "idle"
    <3>1. CASE pc[d] = "planLLM" BY <2>1, <3>1 DEF PromptInv
    <3>2. ASSUME NEW from \in {"startHook", "replan"}, BeginPlan(c, from)
          PROVE  status' # "idle"
      BY <2>1, <3>2 DEF BeginPlan, Transition, Fail, IsAllowedTransition, AllowedTransitions
    <3>3. QED BY <1>3, <2>2, <3>1, <3>2, PromptFrame
  <2>3. ASSUME NEW p \in Calls, plans'[p] # "none"
        PROVE  status' # "idle" /\ planPrompt'[p] = taskPrompt'
    <3>1. CASE UNCHANGED <<plans, planPrompt>>
      BY <1>3, <2>1, <2>3, <3>1, PromptFrame DEF PromptInv
    <3>2. CASE WritePlan(c)
      BY <2>1, <2>3, <3>2 DEF WritePlan, At, engineVars, PromptInv, TypeInv, TypeOK
    <3>3. CASE UNCHANGED planPrompt /\ (CheckApprove(c) \/ CheckReject(c))
      <4>1. plans[p] # "none"
        BY <2>3, <3>3 DEF CheckApprove, CheckReject, TypeInv, TypeOK, At, PromptInv
      <4>2. QED BY <1>3, <2>1, <3>3, <4>1, PromptFrame DEF PromptInv
    <3>4. QED BY <1>3, <3>1, <3>2, <3>3, PromptFrame
  <2>4. ASSUME NEW q \in Calls, plans[q] # "none"
        PROVE  plans'[q] # "none"
    BY <1>3, <2>4, PromptFrame DEF WritePlan, CheckApprove, CheckReject, TypeInv, TypeOK
  <2>5. ASSUME NEW d \in Calls, pc'[d] \in {"checkApprove", "checkReject"}
        PROVE  plans'[target'[d]] # "none"
    BY <1>3, <2>4, <2>5, PromptFrame DEF PromptInv, TypeInv
  <2>6. QED BY <2>2, <2>3, <2>5 DEF PromptInv
<1>4. QED BY <1>1, <1>2, <1>3 DEF Next

\* Two startTask calls may race through the idle guard; all plans of the
\* session still answer the prompt of the last.
THEOREM OnePromptHolds == Spec => []PlansShareOnePrompt
<1>1. Init => PromptInv BY DEF Init, PromptInv
<1>2. PromptInv => PlansShareOnePrompt BY DEF PromptInv, PlansShareOnePrompt
<1>3. QED BY <1>1, <1>2, PromptStep, TypeCorrect, PTL DEF Spec

\* What is implemented was approved and answers the session's one prompt.
THEOREM ApprovedWorkHolds == Spec => []ApprovedWork
BY TypesHold, OnlyApprovedHolds, OnePromptHolds, PTL DEF ApprovedWork

-----------------------------------------------------------------------------
\* Where checkpoints come from.

\* Call c has a passed run of an approved plan to its name.
Certified(c) == \E r \in runs : r.attempt = run[c] /\ r.passed /\ r.plan \in approvedOnce

RunInv ==
  /\ \A r \in runs : r.attempt <= validateAttempt /\ r.plan \in approvedOnce
  /\ AttemptsDistinct
  /\ \A c \in Calls : pc[c] \in {"passed", "synced"} => Certified(c)
  /\ CheckpointProvenance

LEMMA RunFrame ==
  ASSUME TypeInv, NEW c \in Calls, Resume(c)
  PROVE  /\ approvedOnce \subseteq approvedOnce'
         /\ \/ /\ UNCHANGED <<runs, validateAttempt, checkpoints, run>>
               /\ \A d \in Calls : pc'[d] \in {"passed", "synced"} => pc[d] \in {"passed", "synced"}
            \/ Checkpoint(c)
            \/ \E passed \in BOOLEAN : EndTests(c, passed)
<1> USE DEF engineVars, storeVars, historyVars, Goto, Fail, TypeInv, TypeOK
<1>1. CASE StoreStatus(c) BY <1>1 DEF StoreStatus
<1>2. CASE Throw(c)       BY <1>2 DEF Throw
<1>3. CASE PlanStep(c)
  BY <1>3 DEF PlanStep, BeginPlan, WritePlan, LabelTask, OfferPlan, Return, Transition
<1>4. CASE DecisionStep(c)
  BY <1>4 DEF DecisionStep, CheckApprove, ReadApproved, CheckReject, ConsumeRetry, StoreFault
<1>5. CASE AttemptStep(c)
  BY <1>5 DEF AttemptStep, BeginAttempt, Prompt, Generate, AnswerDiff, PassGate, Transition,
              SavePreApply, ApplyDiff, RefuseDiff, SavePostApply, ConsumeRetry
<1>6. CASE ValidateStep(c)
  BY <1>6 DEF ValidateStep, BeginValidate, RunTests, EndTests, RestoreSnapshot, Transition,
              SyncToHost, Checkpoint, Complete, Return, At
<1>7. QED BY <1>1, <1>2, <1>3, <1>4, <1>5, <1>6 DEF Resume

\* Recording a run: its number is new, so nothing already certified is touched.
LEMMA EndTestsRuns ==
  ASSUME TypeInv, ApprovalInv, RunInv, NEW c \in Calls, NEW passed \in BOOLEAN,
         EndTests(c, passed)
  PROVE  RunInv'
<1> USE DEF TypeInv, TypeOK
<1>1. approvedOnce' = approvedOnce /\ checkpoints' = checkpoints
  BY DEF EndTests, historyVars
<1>2. CASE currentPlan.status # "approved"
  BY <1>1, <1>2 DEF EndTests, Fail, Goto, RunInv, Certified, AttemptsDistinct, CheckpointProvenance
<1>3. CASE currentPlan.status = "approved"
  <2> DEFINE new == [attempt |-> validateAttempt + 1, plan |-> currentPlan.id, passed |-> passed]
  <2>1. /\ runs' = runs \cup {new} /\ validateAttempt' = validateAttempt + 1
        /\ run' = [run EXCEPT ![c] = validateAttempt + 1]
        /\ Goto(c, IF passed THEN "passed" ELSE "failedTests")
    BY <1>3 DEF EndTests
  <2>2. new.plan \in approvedOnce /\ new.attempt = validateAttempt + 1 /\ new.passed = passed
    BY <1>3 DEF ApprovalInv
  <2> HIDE DEF new
  <2>3. \A r \in runs' : r.attempt <= validateAttempt' /\ r.plan \in approvedOnce'
    BY <1>1, <2>1, <2>2 DEF RunInv
  <2>4. AttemptsDistinct'
    BY <2>1, <2>2 DEF RunInv, AttemptsDistinct
  <2>5. ASSUME NEW d \in Calls, pc'[d] \in {"passed", "synced"}
        PROVE  Certified(d)'
    <3>1. CASE d = c BY <1>1, <2>1, <2>2, <2>5, <3>1 DEF Certified, Goto
    <3>2. CASE d # c BY <1>1, <2>1, <2>5, <3>2 DEF RunInv, Certified, Goto
    <3>3. QED BY <3>1, <3>2
  <2>6. CheckpointProvenance'
    BY <1>1, <2>1 DEF RunInv, CheckpointProvenance
  <2>7. QED BY <2>3, <2>4, <2>5, <2>6 DEF RunInv
<1>4. QED BY <1>2, <1>3

LEMMA RunStep ==
  ASSUME TypeInv, ApprovalInv, RunInv, [Next]_vars
  PROVE  RunInv'
<1> USE DEF RunInv, Certified, AttemptsDistinct, CheckpointProvenance
<1>1. CASE UNCHANGED vars
  BY <1>1 DEF vars, engineVars, storeVars, callVars, historyVars
<1>2. ASSUME NEW c \in Calls, NewCall(c)
      PROVE  RunInv'
  <2>1. \A d \in Calls : pc'[d] \in {"passed", "synced"} => pc[d] \in {"passed", "synced"}
    BY <1>2, CallFrame DEF Goto, TypeInv, TypeOK
  <2>2. UNCHANGED <<runs, validateAttempt, checkpoints, run, approvedOnce>>
    BY <1>2, CallFrame DEF historyVars
  <2>3. QED BY <2>1, <2>2
<1>3. ASSUME NEW c \in Calls, Resume(c)
      PROVE  RunInv'
  <2>1. CASE /\ UNCHANGED <<runs, validateAttempt, checkpoints, run>>
             /\ \A d \in Calls : pc'[d] \in {"passed", "synced"} => pc[d] \in {"passed", "synced"}
    <3>1. approvedOnce \subseteq approvedOnce'
      BY <1>3, RunFrame
    <3>2. \A d \in Calls : Certified(d) => Certified(d)'
      BY <2>1, <3>1 DEF Certified
    <3>3. QED BY <2>1, <3>1, <3>2
  <2>2. CASE Checkpoint(c)
    BY <2>2 DEF Checkpoint, At, Goto, engineVars, historyVars, TypeInv, TypeOK
  <2>3. QED BY <1>3, <2>1, <2>2, RunFrame, EndTestsRuns
<1>4. QED BY <1>1, <1>2, <1>3 DEF Next

LEMMA RunsHold == Spec => []RunInv
<1>1. Init => RunInv
  BY DEF Init, RunInv, AttemptsDistinct, CheckpointProvenance
<1>2. QED BY <1>1, RunStep, TypeCorrect, ApprovalHolds, PTL DEF Spec

\* Every checkpoint can be traced to a passed run of an approved plan, also
\* when several loops validate at once.
THEOREM CheckpointProvenanceHolds == Spec => []CheckpointProvenance
<1>1. RunInv => CheckpointProvenance BY DEF RunInv
<1>2. QED BY <1>1, RunsHold, PTL

\* The number of a validation attempt identifies its run.
THEOREM AttemptsDistinctHolds == Spec => []AttemptsDistinct
<1>1. RunInv => AttemptsDistinct BY DEF RunInv
<1>2. QED BY <1>1, RunsHold, PTL

-----------------------------------------------------------------------------
(* A single client: one that makes a call only when no other is in flight.   *)
(* It has bounded work, a host that only receives tested content, and the     *)
(* lifecycle of PIVLifecycle.                                                *)

Quiet == {"ready", "done", "failed"}

\* Where call c is suspended fixes the session's phase, and what is left of the
\* budget and of the delivery at that point.
Here(c) ==
  /\ pc[c] = "startHook" => status = "idle"
  /\ pc[c] \in {"planLLM", "planStored", "planMessages"} => status = "planning"
  /\ pc[c] \in {"planReady", "checkApprove", "approveRead", "checkReject",
                "rejectWritten", "replan"} => status = "awaiting_approval"
  /\ pc[c] = "replan" => rounds <= retryCount
  /\ pc[c] = "loop" => /\ status \in {"awaiting_approval", "implementing", "validating"}
                       /\ rounds <= retryCount + 1
  /\ pc[c] \in {"prompting", "implLLM", "asking", "gating", "saving", "applying",
                "applyingBare", "savingPost", "applied"} => status = "implementing"
  /\ pc[c] = "retryAttempt" => status \in {"implementing", "validating"}
  /\ pc[c] \in {"validating", "testing", "failedTests", "passed", "synced",
                "checkpointed"} => status = "validating"
  /\ pc[c] \in {"testing", "passed"} => c \in watch
  /\ pc[c] = "synced" => host = "validated" /\ checkpoints = {}
  /\ pc[c] = "checkpointed" => host = "validated" /\ checkpoints # {}
  /\ pc[c] = "completing" => status = "completed"

\* The rounds of LLM work are paid for by retries, but for the two free ones.
Ration ==
  /\ rounds <= MaxRetries + 2
  /\ status = "idle" => rounds = 0
  /\ status \in {"planning", "awaiting_approval"} => rounds <= retryCount + 1
  /\ status \in {"implementing", "validating"} => rounds <= retryCount + 2

\* Until a call has synced, nothing has left the sandbox.
Undelivered ==
  /\ host # "unvalidated"
  /\ /\ status \notin {"completed", "error"}
     /\ \A c \in Calls : pc[c] \notin {"synced", "checkpointed"}
     => host = "untouched" /\ checkpoints = {}

SingleInv ==
  /\ \A c, d \in Calls : c \in InFlight /\ d \in InFlight => c = d
  /\ \A c \in Calls : Here(c)
  /\ Ration
  /\ Undelivered

\* SingleInv is inductive together with what holds for any clients.
Inv == TypeInv /\ BudgetEndsSession /\ SingleInv

-----------------------------------------------------------------------------
\* The step of a call: the others are quiet, so only Here(c) is at stake.

LEMMA OthersQuiet ==
  ASSUME Inv, NEW c \in Calls, c \in InFlight, NEW d \in Calls, d # c
  PROVE  pc[d] \in Quiet /\ writing[d] = None
BY DEF Inv, SingleInv, InFlight, TypeInv, TypeOK, Labels, Quiet

LEMMA ResumeInFlight ==
  ASSUME NEW c \in Calls, Resume(c)
  PROVE  c \in InFlight
<1> USE DEF InFlight, GuardedLabels, OpenLabels, At
<1>1. CASE StoreStatus(c) BY <1>1 DEF StoreStatus
<1>2. CASE Throw(c)       BY <1>2 DEF Throw
<1>3. CASE PlanStep(c)
  BY <1>3 DEF PlanStep, BeginPlan, WritePlan, LabelTask, OfferPlan, Return
<1>4. CASE DecisionStep(c)
  BY <1>4 DEF DecisionStep, CheckApprove, ReadApproved, CheckReject, ConsumeRetry, StoreFault
<1>5. CASE AttemptStep(c)
  BY <1>5 DEF AttemptStep, BeginAttempt, Prompt, Generate, AnswerDiff, PassGate,
              SavePreApply, ApplyDiff, RefuseDiff, SavePostApply, ConsumeRetry
<1>6. CASE ValidateStep(c)
  BY <1>6 DEF ValidateStep, BeginValidate, RunTests, EndTests, RestoreSnapshot,
              SyncToHost, Checkpoint, Complete, Return
<1>7. QED BY <1>1, <1>2, <1>3, <1>4, <1>5, <1>6 DEF Resume

\* A step only moves the call that takes it.
LEMMA OthersStay ==
  ASSUME TypeInv, NEW c \in Calls, Resume(c) \/ NewCall(c), NEW d \in Calls, d # c
  PROVE  pc'[d] = pc[d] /\ writing'[d] = writing[d]
<1> USE DEF Goto, Fail, Transition, TypeInv, TypeOK
<1>1. CASE StoreStatus(c) BY <1>1 DEF StoreStatus
<1>2. CASE Throw(c)       BY <1>2 DEF Throw
<1>3. CASE PlanStep(c)
  BY <1>3 DEF PlanStep, BeginPlan, WritePlan, LabelTask, OfferPlan, Return
<1>4. CASE DecisionStep(c)
  BY <1>4 DEF DecisionStep, CheckApprove, ReadApproved, CheckReject, ConsumeRetry, StoreFault
<1>5. CASE AttemptStep(c)
  BY <1>5 DEF AttemptStep, BeginAttempt, Prompt, Generate, AnswerDiff, PassGate,
              SavePreApply, ApplyDiff, RefuseDiff, SavePostApply, ConsumeRetry
<1>6. CASE ValidateStep(c)
  BY <1>6 DEF ValidateStep, BeginValidate, RunTests, EndTests, RestoreSnapshot,
              SyncToHost, Checkpoint, Complete, Return
<1>7. CASE NewCall(c)
  BY <1>7 DEF NewCall, RefusedCall, StartTask, Decide
<1>8. QED BY <1>1, <1>2, <1>3, <1>4, <1>5, <1>6, <1>7 DEF Resume

\* The three parts of SingleInv a step of call c can disturb.
Kept(c) == Here(c)' /\ Ration' /\ Undelivered'

\* The other calls are quiet, before and after.
Alone(c) == \A d \in Calls : d # c => pc[d] \in Quiet /\ pc'[d] = pc[d]

LEMMA PlanKept ==
  ASSUME Inv, NEW c \in Calls, Alone(c), PlanStep(c)
  PROVE  Kept(c)
<1> USE MaxRetriesAssumption
    DEF Inv, TypeInv, TypeOK, SingleInv, Here, Ration, Undelivered, Kept, Alone, Quiet,
        Goto, At, Fail, Transition, IsAllowedTransition, AllowedTransitions,
        BudgetEndsSession, engineVars, storeVars, worldVars, historyVars
<1>1. ASSUME NEW from \in {"startHook", "replan"}, BeginPlan(c, from)
      PROVE  Kept(c)
  BY <1>1 DEF BeginPlan
<1>2. CASE WritePlan(c) BY <1>2 DEF WritePlan, TouchSandbox
<1>3. CASE LabelTask(c) BY <1>3 DEF LabelTask
<1>4. CASE OfferPlan(c) BY <1>4 DEF OfferPlan
<1>5. CASE Return(c, "planReady") BY <1>5 DEF Return
<1>6. QED BY <1>1, <1>2, <1>3, <1>4, <1>5 DEF PlanStep

\* A store fault ends its call and touches nothing else.
LEMMA FaultKept ==
  ASSUME Inv, NEW c \in Calls, Alone(c), StoreFault(c)
  PROVE  Kept(c)
<1>1. pc' = [pc EXCEPT ![c] = "failed"] /\ pc \in [Calls -> Labels]
  BY DEF StoreFault, Goto, Inv, TypeInv, TypeOK
<1>2. UNCHANGED <<status, retryCount, rounds, host, checkpoints, watch>>
  BY DEF StoreFault, engineVars, storeVars, worldVars, historyVars
<1>3. Here(c)' BY <1>1 DEF Here
<1>4. Ration' BY <1>2 DEF Inv, SingleInv, Ration
<1>5. \A d \in Calls : pc[d] \notin {"synced", "checkpointed"}
  BY <1>1 DEF Alone, Quiet, StoreFault, At, OpenLabels
<1>6. Undelivered'
  BY <1>2, <1>5 DEF Inv, SingleInv, Undelivered
<1>7. QED BY <1>3, <1>4, <1>6 DEF Kept

LEMMA DecisionKept ==
  ASSUME Inv, NEW c \in Calls, Alone(c), DecisionStep(c)
  PROVE  Kept(c)
<1> USE MaxRetriesAssumption
    DEF Inv, TypeInv, TypeOK, SingleInv, Here, Ration, Undelivered, Kept, Alone, Quiet,
        Goto, At, Fail, Transition, IsAllowedTransition, AllowedTransitions,
        BudgetEndsSession, engineVars, storeVars, worldVars, historyVars
<1>1. CASE CheckApprove(c) BY <1>1 DEF CheckApprove
<1>2. CASE ReadApproved(c) BY <1>2 DEF ReadApproved
<1>3. CASE CheckReject(c) BY <1>3 DEF CheckReject
<1>4. CASE ConsumeRetry(c, "rejectWritten", "replan") BY <1>4 DEF ConsumeRetry
<1>5. CASE StoreFault(c) BY <1>5, FaultKept
<1>6. QED BY <1>1, <1>2, <1>3, <1>4, <1>5 DEF DecisionStep

LEMMA AttemptKept ==
  ASSUME Inv, NEW c \in Calls, Alone(c), AttemptStep(c)
  PROVE  Kept(c)
<1> USE MaxRetriesAssumption
    DEF Inv, TypeInv, TypeOK, SingleInv, Here, Ration, Undelivered, Kept, Alone, Quiet,
        Goto, At, Fail, Transition, IsAllowedTransition, AllowedTransitions,
        BudgetEndsSession, engineVars, storeVars, worldVars, historyVars
<1>1. CASE BeginAttempt(c) BY <1>1 DEF BeginAttempt
<1>2. CASE Prompt(c) BY <1>2 DEF Prompt
<1>3. ASSUME NEW diff \in BOOLEAN, NEW mutated \in BOOLEAN, Generate(c, diff, mutated)
      PROVE  Kept(c)
  BY <1>3 DEF Generate, TouchSandbox
<1>4. ASSUME NEW allowed \in BOOLEAN, AnswerDiff(c, allowed)
      PROVE  Kept(c)
  BY <1>4 DEF AnswerDiff
<1>5. CASE PassGate(c) BY <1>5 DEF PassGate
<1>6. CASE SavePreApply(c) BY <1>6 DEF SavePreApply
<1>7. CASE ApplyDiff(c) BY <1>7 DEF ApplyDiff, TouchSandbox
<1>8. CASE RefuseDiff(c) BY <1>8 DEF RefuseDiff, TouchSandbox
<1>9. CASE SavePostApply(c) BY <1>9 DEF SavePostApply
<1>10. CASE ConsumeRetry(c, "retryAttempt", "loop") BY <1>10 DEF ConsumeRetry
<1>11. QED BY <1>1, <1>2, <1>3, <1>4, <1>5, <1>6, <1>7, <1>8, <1>9, <1>10 DEF AttemptStep

LEMMA ValidateKept ==
  ASSUME Inv, NEW c \in Calls, Alone(c), ValidateStep(c)
  PROVE  Kept(c)
<1> USE MaxRetriesAssumption
    DEF Inv, TypeInv, TypeOK, SingleInv, Here, Ration, Undelivered, Kept, Alone, Quiet,
        Goto, At, Fail, Transition, IsAllowedTransition, AllowedTransitions,
        BudgetEndsSession, engineVars, storeVars, worldVars, historyVars
<1>1. CASE BeginValidate(c) BY <1>1 DEF BeginValidate
<1>2. CASE RunTests(c) BY <1>2 DEF RunTests
<1>3. ASSUME NEW passed \in BOOLEAN, EndTests(c, passed)
      PROVE  Kept(c)
  BY <1>3 DEF EndTests
<1>4. CASE RestoreSnapshot(c) BY <1>4 DEF RestoreSnapshot, TouchSandbox
<1>5. CASE SyncToHost(c) BY <1>5 DEF SyncToHost
<1>6. CASE Checkpoint(c) BY <1>6 DEF Checkpoint
<1>7. CASE Complete(c) BY <1>7 DEF Complete
<1>8. CASE Return(c, "completing") BY <1>8 DEF Return
<1>9. QED BY <1>1, <1>2, <1>3, <1>4, <1>5, <1>6, <1>7, <1>8 DEF ValidateStep

LEMMA StepKept ==
  ASSUME Inv, NEW c \in Calls, Alone(c), Resume(c)
  PROVE  Kept(c)
<1> USE MaxRetriesAssumption
    DEF Inv, TypeInv, TypeOK, SingleInv, Here, Ration, Undelivered, Kept, Alone, Quiet,
        Goto, Fail, IsAllowedTransition, AllowedTransitions, BudgetEndsSession, Status,
        engineVars, storeVars, worldVars, historyVars
<1>1. CASE StoreStatus(c) BY <1>1 DEF StoreStatus
<1>2. CASE Throw(c)       BY <1>2 DEF Throw
<1>3. QED BY <1>1, <1>2, PlanKept, DecisionKept, AttemptKept, ValidateKept DEF Resume

-----------------------------------------------------------------------------
\* The step of a client: with a single one, no other call is in flight.

\* A new call finds every call quiet and leaves itself alone in flight.
LEMMA CallKept ==
  ASSUME OneClient = TRUE, Inv, NEW c \in Calls, NewCall(c)
  PROVE  Kept(c) /\ Alone(c)
<1> USE DEF Inv, TypeInv, TypeOK, SingleInv, Here, Ration, Undelivered, Kept, Quiet,
        Goto, MayCall, engineVars, storeVars, worldVars, historyVars
<1>1. \A d \in Calls : pc[d] \in Quiet
  BY DEF NewCall, RefusedCall, StartTask, Decide, InFlight, Labels
<1>2. Alone(c)
  BY <1>1, OthersStay DEF Alone
<1>3. CASE RefusedCall(c) BY <1>1, <1>2, <1>3 DEF RefusedCall, Alone
<1>4. CASE StartTask(c)   BY <1>1, <1>2, <1>4 DEF StartTask, Alone
<1>5. ASSUME NEW p \in Calls, NEW label \in {"checkApprove", "checkReject"},
             Decide(c, p, label)
      PROVE  Kept(c)
  BY <1>1, <1>2, <1>5 DEF Decide, Alone
<1>6. QED BY <1>2, <1>3, <1>4, <1>5 DEF NewCall

\* Whoever steps, no other call is in flight before or after.
LEMMA OthersIdle ==
  ASSUME OneClient = TRUE, Inv, NEW c \in Calls, NewCall(c) \/ Resume(c),
         NEW d \in Calls, d # c
  PROVE  d \notin InFlight /\ pc'[d] = pc[d] /\ writing'[d] = writing[d]
<1>1. CASE NewCall(c)
  <2>1. InFlight = {}
    BY <1>1 DEF NewCall, RefusedCall, StartTask, Decide, MayCall
  <2>2. QED BY <2>1, <1>1, OthersStay DEF Inv
<1>2. CASE Resume(c)
  BY <1>2, ResumeInFlight, OthersStay DEF Inv, SingleInv
<1>3. QED BY <1>1, <1>2

LEMMA SingleStep ==
  ASSUME OneClient = TRUE, Inv, NEW c \in Calls, NewCall(c) \/ Resume(c)
  PROVE  SingleInv'
<1>1. \A d \in Calls : d # c => d \notin InFlight /\ pc'[d] = pc[d] /\ writing'[d] = writing[d]
  BY OthersIdle
<1>2. \A d \in Calls : d # c => pc[d] \in Quiet
  BY <1>1 DEF InFlight, Quiet, Inv, TypeInv, TypeOK, Labels
<1>3. Alone(c)
  BY <1>1, <1>2 DEF Alone
<1>4. Kept(c)
  BY <1>3, CallKept, StepKept
<1>5. \A d, e \in Calls : d \in InFlight' /\ e \in InFlight' => d = e
  BY <1>1 DEF InFlight
<1>6. ASSUME NEW d \in Calls
      PROVE  Here(d)'
  <2>1. CASE d = c BY <2>1, <1>4 DEF Kept
  <2>2. CASE d # c BY <2>2, <1>1, <1>2 DEF Here, Quiet
  <2>3. QED BY <2>1, <2>2
<1>7. QED BY <1>4, <1>5, <1>6 DEF Kept, SingleInv

LEMMA SingleInit == Init => SingleInv
BY MaxRetriesAssumption DEF Init, SingleInv, Here, Ration, Undelivered, InFlight,
   GuardedLabels, OpenLabels

\* The inductive invariant of a single client's sessions.
LEMMA SingleHolds == OneClient = TRUE /\ Spec => []Inv
<1>1. ASSUME OneClient = TRUE, Inv, [Next]_vars
      PROVE  SingleInv'
  <2>1. CASE Next
    BY <1>1, <2>1, SingleStep DEF Next
  <2>2. CASE UNCHANGED vars
    BY <1>1, <2>2 DEF Inv, SingleInv, Here, Ration, Undelivered, InFlight, vars,
       engineVars, storeVars, worldVars, callVars, historyVars
  <2>3. QED BY <1>1, <2>1, <2>2
<1>2. SUFFICES ASSUME OneClient = TRUE
               PROVE  Spec => []Inv
  OBVIOUS
<1>3. TypeInv /\ BudgetEndsSession /\ SingleInv /\ [Next]_vars => SingleInv'
  BY <1>1, <1>2 DEF Inv
<1>4. QED
  BY <1>3, SingleInit, TypeCorrect, BudgetHolds, PTL DEF Spec, Inv

-----------------------------------------------------------------------------
\* What a single client can rely on.

\* Nothing but content its own call's passed tests vouch for reaches the host.
THEOREM HostValidatedHolds == OneClient = TRUE /\ Spec => []HostValidated
<1>1. Inv => HostValidated
  BY DEF Inv, SingleInv, Undelivered, HostValidated
<1>2. QED BY <1>1, SingleHolds, PTL

\* Rejections, refused diffs and failed validations are paid from one budget.
THEOREM WorkBoundedHolds == OneClient = TRUE /\ Spec => []WorkBounded
<1>1. Inv => WorkBounded
  BY DEF Inv, SingleInv, Ration, WorkBounded
<1>2. QED BY <1>1, SingleHolds, PTL

-----------------------------------------------------------------------------
\* The engine of a single client implements PIVLifecycle.

\* A step of the engine is a step of the lifecycle or leaves it alone.
Mapped == Lifecycle!Next \/ UNCHANGED Lifecycle!vars

\* The lifecycle does not see a step that keeps these variables.
LEMMA HiddenMapped ==
  ASSUME UNCHANGED <<status, rounds, checkpoints, host>>
  PROVE  Mapped
BY DEF Mapped, Lifecycle!vars, Delivered

\* A call that fails leaves a terminal session alone and fails any other.
LEMMA FailMapped ==
  ASSUME Inv, NEW c \in Calls, Fail(c), UNCHANGED <<rounds, checkpoints, host>>
  PROVE  Mapped
<1>1. Delivered' = Delivered
  BY DEF Delivered
<1>2. CASE status \in {"completed", "error"}
  BY <1>2, HiddenMapped DEF Fail, IsAllowedTransition, AllowedTransitions
<1>3. CASE status \notin {"completed", "error"}
  <2>1. status' = "error"
    BY <1>3 DEF Inv, TypeInv, TypeOK, Status, Fail, IsAllowedTransition, AllowedTransitions
  <2>2. Lifecycle!Fail
    BY <1>1, <1>3, <2>1 DEF Lifecycle!Fail
  <2>3. QED BY <2>2 DEF Mapped, Lifecycle!Next
<1>4. QED BY <1>2, <1>3

LEMMA PlanMapped ==
  ASSUME Inv, NEW c \in Calls, Alone(c), PlanStep(c)
  PROVE  Mapped
<1> USE MaxRetriesAssumption
    DEF At, Goto, engineVars, storeVars, worldVars, historyVars
<1>1. ASSUME NEW from \in {"startHook", "replan"}, BeginPlan(c, from)
      PROVE  Mapped
  <2> USE <1>1 DEF BeginPlan, Transition
  <2>1. IsAllowedTransition(status, "planning")
    BY DEF Inv, SingleInv, Here, IsAllowedTransition, AllowedTransitions
  <2>2. rounds < MaxRetries + 2
    BY DEF Inv, SingleInv, Here, Ration, BudgetEndsSession, TypeInv, TypeOK
  <2>3. Delivered = "nothing"
    BY DEF Inv, SingleInv, Here, Undelivered, Delivered, Alone, Quiet
  <2>4. Lifecycle!Plan
    BY <2>1, <2>2, <2>3
       DEF Inv, SingleInv, Here, Delivered, Lifecycle!Plan, Lifecycle!Round
  <2>5. QED BY <2>4 DEF Mapped, Lifecycle!Next
<1>2. CASE WritePlan(c) BY <1>2, HiddenMapped DEF WritePlan, TouchSandbox
<1>3. CASE LabelTask(c) BY <1>3, HiddenMapped DEF LabelTask
<1>4. CASE OfferPlan(c)
  <2> USE <1>4 DEF OfferPlan, Transition
  <2>1. status = "planning" /\ IsAllowedTransition(status, "awaiting_approval")
    BY DEF Inv, SingleInv, Here, IsAllowedTransition, AllowedTransitions
  <2>2. Lifecycle!Offer
    BY <2>1 DEF Delivered, Lifecycle!Offer, Lifecycle!Move
  <2>3. QED BY <2>2 DEF Mapped, Lifecycle!Next
<1>5. CASE Return(c, "planReady") BY <1>5, HiddenMapped DEF Return
<1>6. QED BY <1>1, <1>2, <1>3, <1>4, <1>5 DEF PlanStep

LEMMA RetryMapped ==
  ASSUME Inv, NEW c \in Calls, NEW from, NEW label, ConsumeRetry(c, from, label)
  PROVE  Mapped
BY FailMapped, HiddenMapped DEF ConsumeRetry, storeVars, worldVars, historyVars

LEMMA DecisionMapped ==
  ASSUME Inv, NEW c \in Calls, DecisionStep(c)
  PROVE  Mapped
<1> USE HiddenMapped DEF engineVars, storeVars, worldVars, historyVars
<1>1. CASE CheckApprove(c) BY <1>1 DEF CheckApprove
<1>2. CASE ReadApproved(c) BY <1>2 DEF ReadApproved
<1>3. CASE CheckReject(c) BY <1>3 DEF CheckReject
<1>4. CASE ConsumeRetry(c, "rejectWritten", "replan") BY <1>4, RetryMapped
<1>5. CASE StoreFault(c) BY <1>5 DEF StoreFault
<1>6. QED BY <1>1, <1>2, <1>3, <1>4, <1>5 DEF DecisionStep

LEMMA AttemptMapped ==
  ASSUME Inv, NEW c \in Calls, Alone(c), AttemptStep(c)
  PROVE  Mapped
<1> USE HiddenMapped DEF engineVars, storeVars, worldVars, historyVars, TouchSandbox
<1>1. CASE BeginAttempt(c)
  <2> USE <1>1, MaxRetriesAssumption DEF BeginAttempt, Transition, At
  <2>1. IsAllowedTransition(status, "implementing")
    BY DEF Inv, SingleInv, Here, IsAllowedTransition, AllowedTransitions
  <2>2. rounds < MaxRetries + 2
    BY DEF Inv, SingleInv, Here, Ration, BudgetEndsSession, TypeInv, TypeOK
  <2>3. Delivered = "nothing"
    BY DEF Inv, SingleInv, Here, Undelivered, Delivered, Alone, Quiet
  <2>4. Lifecycle!Attempt
    BY <2>1, <2>2, <2>3
       DEF Inv, SingleInv, Here, Delivered, Lifecycle!Attempt, Lifecycle!Round
  <2>5. QED BY <2>4 DEF Mapped, Lifecycle!Next
<1>2. CASE Prompt(c) BY <1>2 DEF Prompt
<1>3. ASSUME NEW diff \in BOOLEAN, NEW mutated \in BOOLEAN, Generate(c, diff, mutated)
      PROVE  Mapped
  BY <1>3 DEF Generate
<1>4. ASSUME NEW allowed \in BOOLEAN, AnswerDiff(c, allowed)
      PROVE  Mapped
  BY <1>4 DEF AnswerDiff
<1>5. CASE PassGate(c) BY <1>5 DEF PassGate
<1>6. CASE SavePreApply(c) BY <1>6 DEF SavePreApply
<1>7. CASE ApplyDiff(c) BY <1>7 DEF ApplyDiff
<1>8. CASE RefuseDiff(c) BY <1>8 DEF RefuseDiff
<1>9. CASE SavePostApply(c) BY <1>9 DEF SavePostApply
<1>10. CASE ConsumeRetry(c, "retryAttempt", "loop") BY <1>10, RetryMapped
<1>11. QED BY <1>1, <1>2, <1>3, <1>4, <1>5, <1>6, <1>7, <1>8, <1>9, <1>10 DEF AttemptStep

LEMMA ValidateMapped ==
  ASSUME Inv, NEW c \in Calls, Alone(c), ValidateStep(c)
  PROVE  Mapped
<1> USE HiddenMapped DEF At, engineVars, storeVars, worldVars, historyVars, TouchSandbox
<1>1. CASE BeginValidate(c)
  <2> USE <1>1 DEF BeginValidate, Transition
  <2>1. status = "implementing" /\ IsAllowedTransition(status, "validating")
    BY DEF Inv, SingleInv, Here, IsAllowedTransition, AllowedTransitions
  <2>2. Lifecycle!Test
    BY <2>1 DEF Delivered, Lifecycle!Test, Lifecycle!Move
  <2>3. QED BY <2>2 DEF Mapped, Lifecycle!Next
<1>2. CASE RunTests(c) BY <1>2 DEF RunTests
<1>3. ASSUME NEW passed \in BOOLEAN, EndTests(c, passed)
      PROVE  Mapped
  BY <1>3, FailMapped DEF EndTests
<1>4. CASE RestoreSnapshot(c) BY <1>4 DEF RestoreSnapshot
<1>5. CASE SyncToHost(c)
  <2>1. status = "validating" /\ host = "untouched" /\ checkpoints = {} /\ c \in watch
    BY <1>5 DEF SyncToHost, Inv, SingleInv, Here, Undelivered, Alone, Quiet
  <2>2. Lifecycle!Sync
    BY <1>5, <2>1 DEF SyncToHost, Delivered, Lifecycle!Sync, Lifecycle!Deliver
  <2>3. QED BY <2>2 DEF Mapped, Lifecycle!Next
<1>6. CASE Checkpoint(c)
  <2>1. status = "validating" /\ host = "validated" /\ checkpoints = {} /\ checkpoints' # {}
    BY <1>6 DEF Checkpoint, Inv, SingleInv, Here
  <2>2. Lifecycle!Commit
    BY <1>6, <2>1 DEF Checkpoint, Delivered, Lifecycle!Commit, Lifecycle!Deliver
  <2>3. QED BY <2>2 DEF Mapped, Lifecycle!Next
<1>7. CASE Complete(c)
  <2> USE <1>7 DEF Complete, Transition
  <2>1. status = "validating" /\ checkpoints # {} /\ IsAllowedTransition(status, "completed")
    BY DEF Inv, SingleInv, Here, IsAllowedTransition, AllowedTransitions
  <2>2. Lifecycle!Complete
    BY <2>1 DEF Delivered, Lifecycle!Complete, Lifecycle!Move
  <2>3. QED BY <2>2 DEF Mapped, Lifecycle!Next
<1>8. CASE Return(c, "completing") BY <1>8 DEF Return
<1>9. QED BY <1>1, <1>2, <1>3, <1>4, <1>5, <1>6, <1>7, <1>8 DEF ValidateStep

LEMMA StepMapped ==
  ASSUME OneClient = TRUE, Inv, NEW c \in Calls, NewCall(c) \/ Resume(c)
  PROVE  Mapped
<1> USE HiddenMapped DEF engineVars, storeVars, worldVars, historyVars
<1>1. CASE NewCall(c)
  BY <1>1 DEF NewCall, RefusedCall, StartTask, Decide
<1>2. CASE Resume(c)
  <2>1. Alone(c)
    BY <1>2, OthersIdle DEF Alone, InFlight, Quiet, Inv, TypeInv, TypeOK, Labels
  <2>2. CASE StoreStatus(c) BY <2>2 DEF StoreStatus
  <2>3. CASE Throw(c)       BY <2>3, FailMapped DEF Throw
  <2>4. QED
    BY <1>2, <2>1, <2>2, <2>3, PlanMapped, DecisionMapped, AttemptMapped, ValidateMapped
    DEF Resume
<1>3. QED BY <1>1, <1>2

\* Behind all its awaits, retries and failures, the engine is the lifecycle: the
\* phases in order, bounded rounds, delivery before completion, nothing after.
THEOREM ImplementsLifecycleHolds == OneClient = TRUE /\ Spec => ImplementsLifecycle
<1>1. Init => Lifecycle!Init
  BY DEF Init, Lifecycle!Init, Delivered
<1>2. ASSUME OneClient = TRUE, Inv, [Next]_vars
      PROVE  [Lifecycle!Next]_(Lifecycle!vars)
  <2>1. CASE Next
    BY <1>2, <2>1, StepMapped DEF Next, Mapped
  <2>2. CASE UNCHANGED vars
    BY <2>2 DEF vars, engineVars, storeVars, worldVars, historyVars, Lifecycle!vars, Delivered
  <2>3. QED BY <1>2, <2>1, <2>2
<1>3. SUFFICES ASSUME OneClient = TRUE
               PROVE  Spec => ImplementsLifecycle
  OBVIOUS
<1>4. Inv /\ [Next]_vars => [Lifecycle!Next]_(Lifecycle!vars)
  BY <1>2, <1>3
<1>5. QED
  BY <1>1, <1>3, <1>4, SingleHolds, PTL DEF Spec, ImplementsLifecycle, Lifecycle!Spec

-----------------------------------------------------------------------------
\* What a completed session can show for itself.

\* The store and the engine agree that the current plan is approved.
Approved ==
  /\ currentPlan.id \in Calls /\ currentPlan.status = "approved"
  /\ plans[currentPlan.id] = "approved"

\* Validation attempt a tested the current plan, and passed.
Passed(a) == \E r \in runs : r.attempt = a /\ r.passed /\ r.plan = currentPlan.id

\* The evidence call c holds where it is suspended.
Evidence(c) ==
  /\ pc[c] = "approveRead" => target[c] = currentPlan.id /\ plans[target[c]] = "approved"
  /\ pc[c] = "loop" => Approved
  /\ pc[c] \in {"passed", "synced", "checkpointed"} => Passed(run[c])
  /\ pc[c] = "checkpointed" => checkpoints = {run[c]}

\* From the first attempt on the plan is approved, and a completed session has
\* the one checkpoint of its passed run.
Certificate ==
  /\ status \in {"implementing", "validating", "completed"} => Approved
  /\ status = "completed" =>
       host = "validated" /\ \E a \in Nat : checkpoints = {a} /\ Passed(a)

\* Steps that keep plans, current plan, runs, checkpoints, host and locals move
\* no evidence; the status may move where the evidence is already there.
LEMMA EvidenceFrame ==
  ASSUME Certificate, NEW c \in Calls, Evidence(c),
         UNCHANGED <<plans, currentPlan, runs, checkpoints, host, target, run>>,
         pc'[c] \in {"approveRead", "loop", "passed", "synced", "checkpointed"} =>
            pc'[c] = pc[c] \/ (pc'[c] = "loop" /\ Approved),
         status' \in {"implementing", "validating", "completed"} => status' = status \/ Approved,
         status' = "completed" => status = "completed"
  PROVE  Evidence(c)' /\ Certificate'
BY DEF Evidence, Certificate, Approved, Passed

\* Failing gives up a claim or keeps it: completed stays completed.
LEMMA FailEvidence ==
  ASSUME Certificate, TypeOK, NEW c \in Calls, Evidence(c), Fail(c),
         UNCHANGED <<plans, currentPlan, runs, checkpoints, host, target, run>>
  PROVE  Evidence(c)' /\ Certificate'
BY EvidenceFrame DEF Fail, Goto, TypeOK

LEMMA PlanEvidence ==
  ASSUME Inv, Certificate, NEW c \in Calls, Evidence(c), PlanStep(c)
  PROVE  Evidence(c)' /\ Certificate'
<1> USE EvidenceFrame, FailEvidence
    DEF Inv, TypeInv, TypeOK, SingleInv, Here, At, Goto, Transition,
        engineVars, storeVars, worldVars, TouchSandbox
<1>1. ASSUME NEW from \in {"startHook", "replan"}, BeginPlan(c, from)
      PROVE  Evidence(c)' /\ Certificate'
  BY <1>1 DEF BeginPlan
<1>2. CASE WritePlan(c) BY <1>2 DEF WritePlan, Evidence, Certificate
<1>3. CASE LabelTask(c) BY <1>3 DEF LabelTask
<1>4. CASE OfferPlan(c)
  <2>1. status = "planning" /\ pc'[c] = "planReady" /\ status' = "awaiting_approval"
    BY <1>4 DEF OfferPlan, IsAllowedTransition, AllowedTransitions
  <2>2. QED BY <2>1 DEF Evidence, Certificate
<1>5. CASE Return(c, "planReady") BY <1>5 DEF Return
<1>6. QED BY <1>1, <1>2, <1>3, <1>4, <1>5 DEF PlanStep

LEMMA DecisionEvidence ==
  ASSUME Inv, Certificate, NEW c \in Calls, Evidence(c), DecisionStep(c)
  PROVE  Evidence(c)' /\ Certificate'
<1> USE EvidenceFrame, FailEvidence
    DEF Inv, TypeInv, TypeOK, SingleInv, Here, At, Goto,
        engineVars, storeVars, worldVars
<1>1. CASE CheckApprove(c) BY <1>1 DEF CheckApprove, Evidence, Certificate
<1>2. CASE ReadApproved(c) BY <1>2 DEF ReadApproved, Evidence, Certificate, Approved
<1>3. CASE CheckReject(c)  BY <1>3 DEF CheckReject, Evidence, Certificate
<1>4. CASE ConsumeRetry(c, "rejectWritten", "replan") BY <1>4 DEF ConsumeRetry
<1>5. CASE StoreFault(c)   BY <1>5 DEF StoreFault
<1>6. QED BY <1>1, <1>2, <1>3, <1>4, <1>5 DEF DecisionStep

LEMMA AttemptEvidence ==
  ASSUME Inv, Certificate, NEW c \in Calls, Evidence(c), AttemptStep(c)
  PROVE  Evidence(c)' /\ Certificate'
<1> USE EvidenceFrame, FailEvidence
    DEF Inv, TypeInv, TypeOK, SingleInv, Here, At, Goto, TouchSandbox,
        engineVars, storeVars, worldVars
<1>1. CASE BeginAttempt(c) BY <1>1 DEF BeginAttempt, Transition, Evidence
<1>2. CASE Prompt(c) BY <1>2 DEF Prompt
<1>3. ASSUME NEW diff \in BOOLEAN, NEW mutated \in BOOLEAN, Generate(c, diff, mutated)
      PROVE  Evidence(c)' /\ Certificate'
  BY <1>3 DEF Generate
<1>4. ASSUME NEW allowed \in BOOLEAN, AnswerDiff(c, allowed)
      PROVE  Evidence(c)' /\ Certificate'
  BY <1>4 DEF AnswerDiff
<1>5. CASE PassGate(c) BY <1>5 DEF PassGate
<1>6. CASE SavePreApply(c) BY <1>6 DEF SavePreApply
<1>7. CASE ApplyDiff(c) BY <1>7 DEF ApplyDiff
<1>8. CASE RefuseDiff(c) BY <1>8 DEF RefuseDiff
<1>9. CASE SavePostApply(c) BY <1>9 DEF SavePostApply
<1>10. CASE ConsumeRetry(c, "retryAttempt", "loop")
  <2>1. Approved BY <1>10 DEF ConsumeRetry, Certificate
  <2>2. QED BY <1>10, <2>1 DEF ConsumeRetry
<1>11. QED BY <1>1, <1>2, <1>3, <1>4, <1>5, <1>6, <1>7, <1>8, <1>9, <1>10 DEF AttemptStep

\* The run a call records when its tests end is one of the current plan.
LEMMA EndTestsEvidence ==
  ASSUME Inv, Certificate, NEW c \in Calls, Evidence(c), NEW passed \in BOOLEAN,
         EndTests(c, passed)
  PROVE  Evidence(c)' /\ Certificate'
<1>1. Approved /\ currentPlan.status = "approved" /\ status = "validating"
  BY DEF EndTests, At, Certificate, Approved, Inv, SingleInv, Here
<1>2. UNCHANGED <<status, plans, currentPlan, checkpoints, host, target>>
  BY <1>1 DEF EndTests
<1>3. Approved'
  BY <1>1, <1>2 DEF Approved
<1>4. Certificate'
  BY <1>1, <1>2, <1>3 DEF Certificate
<1>5. CASE passed
  <2>1. pc'[c] = "passed" /\ run'[c] = validateAttempt + 1
    BY <1>1, <1>5 DEF EndTests, Goto, Inv, TypeInv, TypeOK
  <2>2. [attempt |-> validateAttempt + 1, plan |-> currentPlan.id, passed |-> passed] \in runs'
    BY <1>1 DEF EndTests
  <2>3. Passed(run[c])'
    BY <1>2, <1>5, <2>1, <2>2 DEF Passed
  <2>4. QED BY <1>4, <2>1, <2>3 DEF Evidence
<1>6. CASE ~passed
  <2>1. pc'[c] = "failedTests"
    BY <1>1, <1>6 DEF EndTests, Goto, Inv, TypeInv, TypeOK
  <2>2. QED BY <1>4, <2>1 DEF Evidence
<1>7. QED BY <1>5, <1>6

LEMMA ValidateEvidence ==
  ASSUME Inv, Certificate, NEW c \in Calls, Evidence(c), ValidateStep(c)
  PROVE  Evidence(c)' /\ Certificate'
<1> USE EvidenceFrame, FailEvidence
    DEF Inv, TypeInv, TypeOK, SingleInv, Here, At, Goto, Transition, TouchSandbox,
        engineVars, storeVars, worldVars
<1>1. CASE BeginValidate(c) BY <1>1 DEF BeginValidate, Certificate
<1>2. CASE RunTests(c) BY <1>2 DEF RunTests
<1>3. ASSUME NEW passed \in BOOLEAN, EndTests(c, passed)
      PROVE  Evidence(c)' /\ Certificate'
  BY <1>3, EndTestsEvidence
<1>4. CASE RestoreSnapshot(c) BY <1>4 DEF RestoreSnapshot
<1>5. CASE SyncToHost(c)
  BY <1>5 DEF SyncToHost, Evidence, Certificate, Approved, Passed
<1>6. CASE Checkpoint(c)
  <2>1. UNCHANGED <<status, plans, currentPlan, runs, host, run>> /\ status = "validating"
    BY <1>6 DEF Checkpoint
  <2>2. pc'[c] = "checkpointed" /\ checkpoints' = {run[c]} /\ Passed(run[c])
    BY <1>6 DEF Checkpoint, Evidence
  <2>3. QED BY <2>1, <2>2 DEF Evidence, Certificate, Approved, Passed
<1>7. CASE Complete(c)
  <2>1. Approved /\ host = "validated" /\ checkpoints = {run[c]} /\ Passed(run[c]) /\ run[c] \in Nat
    BY <1>7 DEF Complete, Evidence, Certificate
  <2>2. pc'[c] \in {"completing", "failed"}
    BY <1>7 DEF Complete, Fail
  <2>3. UNCHANGED <<plans, currentPlan, runs, checkpoints, host>>
    BY <1>7 DEF Complete
  <2>4. QED BY <2>1, <2>2, <2>3 DEF Evidence, Certificate, Approved, Passed
<1>8. CASE Return(c, "completing") BY <1>8 DEF Return
<1>9. QED BY <1>1, <1>2, <1>3, <1>4, <1>5, <1>6, <1>7, <1>8 DEF ValidateStep

LEMMA EvidenceStep ==
  ASSUME OneClient = TRUE, Inv, Certificate, \A d \in Calls : Evidence(d),
         NEW c \in Calls, NewCall(c) \/ Resume(c)
  PROVE  Certificate' /\ \A d \in Calls : Evidence(d)'
<1>1. Evidence(c)' /\ Certificate'
  <2> USE EvidenceFrame, FailEvidence DEF engineVars, storeVars, worldVars, Goto, Inv, TypeInv, TypeOK
  <2>1. CASE NewCall(c)
    <3>1. pc'[c] \in {"failed", "startHook", "checkApprove", "checkReject"}
      BY <2>1, CallFrame
    <3>2. QED BY <2>1, <3>1, CallFrame DEF Evidence, Certificate, Approved, Passed
  <2>2. CASE StoreStatus(c) BY <2>2 DEF StoreStatus
  <2>3. CASE Throw(c)
    <3>1. Fail(c) /\ UNCHANGED <<plans, currentPlan, runs, checkpoints, host, target, run>>
      BY <2>3 DEF Throw
    <3>2. QED BY <3>1, FailEvidence
  <2>4. QED
    BY <2>1, <2>2, <2>3, PlanEvidence, DecisionEvidence, AttemptEvidence, ValidateEvidence
    DEF Resume
<1>2. ASSUME NEW d \in Calls, d # c
      PROVE  Evidence(d)'
  BY <1>2, OthersIdle DEF Evidence, InFlight, GuardedLabels, OpenLabels
<1>3. QED BY <1>1, <1>2

\* A single client's completed session has its validated content on the host, and
\* exactly one checkpoint: that of the passed run of its approved plan.
THEOREM CompletionCertifiedHolds == OneClient = TRUE /\ Spec => []CompletionCertified
<1> DEFINE Held == Certificate /\ \A c \in Calls : Evidence(c)
<1>1. Init => Held
  BY DEF Init, Certificate, Evidence
<1>2. ASSUME OneClient = TRUE
      PROVE  Inv /\ Held /\ [Next]_vars => Held'
  <2> SUFFICES ASSUME Inv, Held, [Next]_vars
               PROVE  Held'
    OBVIOUS
  <2>1. CASE Next
    BY <1>2, <2>1, EvidenceStep DEF Next
  <2>2. CASE UNCHANGED vars
    BY <2>2 DEF Certificate, Evidence, Approved, Passed, vars, engineVars, storeVars,
       worldVars, callVars
  <2>3. QED BY <2>1, <2>2
<1>3. Held => CompletionCertified
  <2> SUFFICES ASSUME Held, status = "completed"
               PROVE  /\ host = "validated"
                      /\ Cardinality(checkpoints) = 1
                      /\ \E r \in runs : /\ r.attempt \in checkpoints /\ r.passed
                                         /\ r.plan = currentPlan.id /\ plans[r.plan] = "approved"
    BY DEF CompletionCertified
  <2>1. PICK a \in Nat : checkpoints = {a} /\ Passed(a)
    BY DEF Certificate
  <2>2. Cardinality({a}) = 1
    BY FS_Singleton
  <2>3. QED BY <2>1, <2>2 DEF Certificate, Approved, Passed
<1> HIDE DEF Held
<1>4. SUFFICES ASSUME OneClient = TRUE
               PROVE  Spec => []CompletionCertified
  OBVIOUS
<1>5. Inv /\ Held /\ [Next]_vars => Held'
  BY <1>2, <1>4
<1>6. QED BY <1>1, <1>3, <1>4, <1>5, SingleHolds, PTL DEF Spec

-----------------------------------------------------------------------------
\* What the next call finds, when every status write is acknowledged.

Pending == {p \in Calls : plans[p] = "pending"}

\* The current plan has been decided on and the phase has not yet changed.
Deciding == {"approveRead", "loop", "rejectWritten", "replan"}

\* The plan on the desk while call c works: none, or the one c has written.
Desk(c) ==
  /\ pc[c] \in Deciding \cup {"planLLM"} => Pending = {}
  /\ pc[c] \in {"planStored", "planMessages"} => Pending = {c}
  /\ pc[c] = "planMessages" => currentTaskId = c

\* The plan a session waits for a decision on, and the label of its messages.
Tabled ==
  /\ status \in {"idle", "implementing", "validating"} => Pending = {}
  /\ status \in {"awaiting_approval", "implementing", "validating"} =>
        currentTaskId = currentPlan.id
  /\ status = "awaiting_approval" /\ (\A c \in Calls : pc[c] \notin Deciding) =>
        Pending = {currentPlan.id}

\* Steps that keep plans, current plan and label leave the desk as it was.
LEMMA DeskFrame ==
  ASSUME Tabled, NEW c \in Calls, Desk(c), Alone(c),
         UNCHANGED <<plans, currentPlan, currentTaskId>>,
         pc'[c] \in Deciding \cup {"planLLM"} => Pending = {},
         pc'[c] \notin {"planStored", "planMessages"},
         status' \in {"idle", "implementing", "validating"} => Pending = {},
         status' \in {"awaiting_approval", "implementing", "validating"} =>
            status \in {"awaiting_approval", "implementing", "validating"},
         status' = "awaiting_approval" =>
            status = "awaiting_approval" /\ (pc[c] \in Deciding => pc'[c] \in Deciding)
  PROVE  Desk(c)' /\ Tabled'
<1>1. Pending' = Pending
  BY DEF Pending
<1>2. Desk(c)'
  BY <1>1 DEF Desk
<1>3. pc[c] \notin Deciding => \A d \in Calls : pc[d] \notin Deciding
  BY DEF Alone, Quiet, Deciding
<1>4. QED BY <1>1, <1>2, <1>3 DEF Tabled

LEMMA FailDesk ==
  ASSUME Inv, Tabled, NEW c \in Calls, Desk(c), Alone(c), Fail(c),
         UNCHANGED <<plans, currentPlan, currentTaskId>>
  PROVE  Desk(c)' /\ Tabled'
<1>1. pc'[c] = "failed"
  BY DEF Fail, Goto, Inv, TypeInv, TypeOK
<1>2. status' \in {"error", "completed"}
  BY DEF Fail, IsAllowedTransition, AllowedTransitions, Inv, TypeInv, TypeOK, Status
<1>3. QED BY <1>1, <1>2, DeskFrame DEF Deciding

LEMMA PlanDesk ==
  ASSUME Inv, Tabled, NEW c \in Calls, Desk(c), Alone(c), PlanStep(c)
  PROVE  Desk(c)' /\ Tabled'
<1> USE DEF Inv, TypeInv, TypeOK, SingleInv, Here, At, Goto, Transition, TouchSandbox,
        engineVars, storeVars, worldVars
<1>1. ASSUME NEW from \in {"startHook", "replan"}, BeginPlan(c, from)
      PROVE  Desk(c)' /\ Tabled'
  <2>1. status' = "planning" /\ pc'[c] = "planLLM" /\ Pending = {}
    BY <1>1 DEF BeginPlan, IsAllowedTransition, AllowedTransitions, Tabled, Desk, Deciding
  <2>2. UNCHANGED <<plans, currentPlan, currentTaskId>>
    BY <1>1 DEF BeginPlan
  <2>3. QED BY <2>1, <2>2, DeskFrame
<1>2. CASE WritePlan(c)
  <2>1. Pending' = {c} /\ status' = "planning" /\ pc'[c] = "planStored"
    BY <1>2 DEF WritePlan, Desk, Pending
  <2>2. QED BY <2>1 DEF Desk, Tabled, Deciding
<1>3. CASE LabelTask(c)
  <2>1. Pending' = {c} /\ status' = "planning" /\ pc'[c] = "planMessages" /\ currentTaskId' = c
    BY <1>3 DEF LabelTask, Desk, Pending
  <2>2. QED BY <2>1 DEF Desk, Tabled, Deciding
<1>4. CASE OfferPlan(c)
  <2>1. status' = "awaiting_approval" /\ pc'[c] = "planReady" /\ currentPlan'.id = c
    BY <1>4 DEF OfferPlan, IsAllowedTransition, AllowedTransitions
  <2>2. Pending' = {c} /\ currentTaskId' = c
    BY <1>4 DEF OfferPlan, Desk, Pending
  <2>3. QED BY <2>1, <2>2 DEF Desk, Tabled, Deciding
<1>5. CASE Return(c, "planReady")
  <2>1. UNCHANGED <<status, plans, currentPlan, currentTaskId>> /\ pc'[c] = "done"
    BY <1>5 DEF Return
  <2>2. pc[c] = "planReady"
    BY <1>5 DEF Return
  <2>3. QED BY <2>1, <2>2, DeskFrame DEF Deciding
<1>6. QED BY <1>1, <1>2, <1>3, <1>4, <1>5 DEF PlanStep

LEMMA DecisionDesk ==
  ASSUME StoreFaults = FALSE, Inv, Tabled, NEW c \in Calls, Desk(c), Alone(c), Evidence(c),
         DecisionStep(c)
  PROVE  Desk(c)' /\ Tabled'
<1> USE DEF Inv, TypeInv, TypeOK, SingleInv, Here, At, Goto, engineVars, storeVars, worldVars
\* A call that decides takes the one pending plan off the desk.
<1>1. ASSUME NEW verdict \in {"approved", "rejected"}, NEW label \in Deciding,
             pc[c] \in {"checkApprove", "checkReject"}, currentPlan.id = target[c],
             plans' = [plans EXCEPT ![target[c]] = verdict], Goto(c, label),
             UNCHANGED <<status, currentPlan, currentTaskId>>
      PROVE  Desk(c)' /\ Tabled'
  <2>1. \A d \in Calls : pc[d] \notin Deciding
    BY <1>1 DEF Alone, Quiet, Deciding
  <2>2. Pending = {target[c]}
    BY <1>1, <2>1 DEF Tabled
  <2>3. Pending' = {}
    BY <1>1, <2>2 DEF Pending
  <2>4. pc'[c] \in Deciding /\ status' = "awaiting_approval"
    BY <1>1
  <2>5. QED BY <1>1, <2>3, <2>4 DEF Desk, Tabled, Deciding
\* A call that finds another current plan ends.
<1>2. ASSUME pc[c] \in {"checkApprove", "checkReject"}, Goto(c, "failed"),
             UNCHANGED <<status, plans, currentPlan, currentTaskId>>
      PROVE  Desk(c)' /\ Tabled'
  <2>1. pc'[c] = "failed" /\ pc[c] \notin Deciding /\ status = "awaiting_approval"
    BY <1>2 DEF Deciding
  <2>2. QED BY <1>2, <2>1, DeskFrame DEF Deciding
<1>3. CASE CheckApprove(c) BY <1>1, <1>2, <1>3 DEF CheckApprove, Deciding
<1>4. CASE CheckReject(c) BY <1>1, <1>2, <1>4 DEF CheckReject, Deciding
<1>5. CASE ReadApproved(c)
  <2>1. pc'[c] = "loop" /\ status' = "awaiting_approval" /\ Pending' = {}
    BY <1>5 DEF ReadApproved, Desk, Deciding, Pending
  <2>2. currentTaskId' = currentPlan'.id
    BY <1>5 DEF ReadApproved, Tabled, Evidence
  <2>3. QED BY <2>1, <2>2 DEF Desk, Tabled, Deciding
<1>6. CASE ConsumeRetry(c, "rejectWritten", "replan")
  <2>1. UNCHANGED <<plans, currentPlan, currentTaskId>>
    BY <1>6 DEF ConsumeRetry
  <2>2. CASE Fail(c) BY <2>1, <2>2, FailDesk
  <2>3. CASE Goto(c, "replan") /\ UNCHANGED status
    <3>1. pc'[c] = "replan" /\ Pending = {} /\ status = "awaiting_approval"
      BY <1>6, <2>3 DEF ConsumeRetry, Desk, Deciding
    <3>2. QED BY <2>1, <2>3, <3>1, DeskFrame DEF Deciding
  <2>4. QED BY <1>6, <2>2, <2>3 DEF ConsumeRetry
<1>7. ~StoreFault(c)
  BY DEF StoreFault
<1>8. QED BY <1>3, <1>4, <1>5, <1>6, <1>7 DEF DecisionStep

\* Attempts and validations come after the decision, and never touch a plan.
LEMMA WorkDesk ==
  ASSUME Inv, Tabled, NEW c \in Calls, Desk(c), Alone(c),
         UNCHANGED <<plans, currentPlan, currentTaskId>>,
         pc[c] = "loop" \/ status \in {"implementing", "validating"},
         status' \notin {"idle", "planning", "awaiting_approval"},
         pc'[c] \notin {"planStored", "planMessages"}
  PROVE  Desk(c)' /\ Tabled'
<1>1. status \in {"awaiting_approval", "implementing", "validating"} /\ Pending = {}
  BY DEF Inv, SingleInv, Here, Desk, Tabled, Deciding
<1>2. QED BY <1>1, DeskFrame

LEMMA AttemptDesk ==
  ASSUME Inv, Tabled, NEW c \in Calls, Desk(c), Alone(c), AttemptStep(c)
  PROVE  Desk(c)' /\ Tabled'
<1> USE WorkDesk, FailDesk
    DEF Inv, TypeInv, TypeOK, SingleInv, Here, At, Goto, engineVars, storeVars
<1>1. CASE BeginAttempt(c)
  <2>1. CASE Fail(c) BY <1>1, <2>1 DEF BeginAttempt
  <2>2. CASE Goto(c, "prompting") /\ status' = "implementing" BY <1>1, <2>2 DEF BeginAttempt
  <2>3. QED BY <1>1, <2>1, <2>2 DEF BeginAttempt, Transition
<1>2. CASE Prompt(c) BY <1>2 DEF Prompt
<1>3. ASSUME NEW diff \in BOOLEAN, NEW mutated \in BOOLEAN, Generate(c, diff, mutated)
      PROVE  Desk(c)' /\ Tabled'
  BY <1>3 DEF Generate
<1>4. ASSUME NEW allowed \in BOOLEAN, AnswerDiff(c, allowed)
      PROVE  Desk(c)' /\ Tabled'
  BY <1>4 DEF AnswerDiff
<1>5. CASE PassGate(c) BY <1>5 DEF PassGate
<1>6. CASE SavePreApply(c) BY <1>6 DEF SavePreApply
<1>7. CASE ApplyDiff(c) BY <1>7 DEF ApplyDiff
<1>8. CASE RefuseDiff(c) BY <1>8 DEF RefuseDiff
<1>9. CASE SavePostApply(c) BY <1>9 DEF SavePostApply
<1>10. CASE ConsumeRetry(c, "retryAttempt", "loop")
  <2>1. CASE Fail(c) BY <1>10, <2>1 DEF ConsumeRetry
  <2>2. CASE Goto(c, "loop") /\ UNCHANGED status BY <1>10, <2>2 DEF ConsumeRetry
  <2>3. QED BY <1>10, <2>1, <2>2 DEF ConsumeRetry
<1>11. QED BY <1>1, <1>2, <1>3, <1>4, <1>5, <1>6, <1>7, <1>8, <1>9, <1>10 DEF AttemptStep

LEMMA ValidateDesk ==
  ASSUME Inv, Tabled, NEW c \in Calls, Desk(c), Alone(c), ValidateStep(c)
  PROVE  Desk(c)' /\ Tabled'
<1> USE WorkDesk, FailDesk
    DEF Inv, TypeInv, TypeOK, SingleInv, Here, At, Goto, engineVars, storeVars
<1>1. CASE BeginValidate(c)
  <2>1. CASE Fail(c) BY <1>1, <2>1 DEF BeginValidate
  <2>2. CASE Goto(c, "validating") /\ status' = "validating" BY <1>1, <2>2 DEF BeginValidate
  <2>3. QED BY <1>1, <2>1, <2>2 DEF BeginValidate, Transition
<1>2. CASE RunTests(c) BY <1>2 DEF RunTests
<1>3. ASSUME NEW passed \in BOOLEAN, EndTests(c, passed)
      PROVE  Desk(c)' /\ Tabled'
  <2>1. CASE Fail(c) BY <1>3, <2>1 DEF EndTests
  <2>2. CASE Goto(c, IF passed THEN "passed" ELSE "failedTests") /\ UNCHANGED status
    BY <1>3, <2>2 DEF EndTests
  <2>3. QED BY <1>3, <2>1, <2>2 DEF EndTests
<1>4. CASE RestoreSnapshot(c) BY <1>4 DEF RestoreSnapshot
<1>5. CASE SyncToHost(c) BY <1>5 DEF SyncToHost
<1>6. CASE Checkpoint(c) BY <1>6 DEF Checkpoint
<1>7. CASE Complete(c)
  <2>1. CASE Fail(c) BY <1>7, <2>1 DEF Complete
  <2>2. CASE Goto(c, "completing") /\ status' = "completed" BY <1>7, <2>2 DEF Complete
  <2>3. QED BY <1>7, <2>1, <2>2 DEF Complete, Transition
<1>8. CASE Return(c, "completing")
  <2>1. status' = "completed" /\ pc'[c] = "done"
    BY <1>8 DEF Return
  <2>2. QED BY <2>1 DEF Desk, Tabled, Deciding
<1>9. QED BY <1>1, <1>2, <1>3, <1>4, <1>5, <1>6, <1>7, <1>8 DEF ValidateStep

LEMMA DeskStep ==
  ASSUME OneClient = TRUE, StoreFaults = FALSE, Inv, Tabled,
         \A d \in Calls : Desk(d) /\ Evidence(d), NEW c \in Calls, NewCall(c) \/ Resume(c)
  PROVE  Tabled' /\ \A d \in Calls : Desk(d)'
<1>1. ASSUME NEW d \in Calls, d # c
      PROVE  pc[d] \in Quiet /\ pc'[d] = pc[d]
  BY <1>1, OthersIdle DEF InFlight, Quiet, Inv, TypeInv, TypeOK, Labels
<1>2. Alone(c) /\ Desk(c) /\ Evidence(c)
  BY <1>1 DEF Alone
<1>3. Desk(c)' /\ Tabled'
  <2>1. CASE NewCall(c)
    <3>1. pc[c] = "ready" /\ pc'[c] \in {"failed", "startHook", "checkApprove", "checkReject"}
      BY <2>1, CallFrame
      DEF NewCall, RefusedCall, StartTask, Decide, MayCall, Goto, Inv, TypeInv, TypeOK
    <3>2. UNCHANGED <<status, plans, currentPlan, currentTaskId>>
      BY <2>1 DEF NewCall, RefusedCall, StartTask, Decide, engineVars, storeVars
    <3>3. QED BY <1>2, <3>1, <3>2, DeskFrame DEF Deciding, Tabled
  <2>2. CASE StoreStatus(c)
    <3>1. UNCHANGED <<status, plans, currentPlan, currentTaskId, pc>>
      BY <2>2 DEF StoreStatus, engineVars
    <3>2. QED BY <1>2, <3>1 DEF Desk, Tabled, Pending
  <2>3. CASE Throw(c)
    <3>1. Fail(c) /\ UNCHANGED <<plans, currentPlan, currentTaskId>>
      BY <2>3 DEF Throw, storeVars
    <3>2. QED BY <1>2, <3>1, FailDesk
  <2>4. QED
    BY <1>2, <2>1, <2>2, <2>3, PlanDesk, DecisionDesk, AttemptDesk, ValidateDesk DEF Resume
<1>4. ASSUME NEW d \in Calls, d # c
      PROVE  Desk(d)'
  BY <1>1, <1>4 DEF Desk, Quiet, Deciding
<1>5. QED BY <1>3, <1>4

\* A status write under way carries the status, and the row has it once there is
\* none under way.
Recorded ==
  /\ \A c \in Calls : writing[c] # None => writing[c] = status
  /\ (\A c \in Calls : writing[c] = None) => storedStatus = status

\* What a step does to the status and its row, when no write is lost.
LEMMA RecordFrame ==
  ASSUME StoreFaults = FALSE, NEW c \in Calls, Resume(c)
  PROVE  \/ UNCHANGED <<status, writing, storedStatus>>
         \/ StoreStatus(c)
         \/ /\ storedStatus' = storedStatus /\ writing[c] = None
            /\ \/ writing' = [writing EXCEPT ![c] = status']
               \/ status' = status /\ writing' = [writing EXCEPT ![c] = None]
<1> USE DEF At, Fail, Transition, engineVars, storeVars
<1>1. CASE Throw(c) BY <1>1 DEF Throw
<1>2. CASE PlanStep(c)
  BY <1>2 DEF PlanStep, BeginPlan, WritePlan, LabelTask, OfferPlan, Return
<1>3. CASE DecisionStep(c)
  BY <1>3 DEF DecisionStep, CheckApprove, ReadApproved, CheckReject, ConsumeRetry, StoreFault
<1>4. CASE AttemptStep(c)
  BY <1>4 DEF AttemptStep, BeginAttempt, Prompt, Generate, AnswerDiff, PassGate,
              SavePreApply, ApplyDiff, RefuseDiff, SavePostApply, ConsumeRetry
<1>5. CASE ValidateStep(c)
  BY <1>5 DEF ValidateStep, BeginValidate, RunTests, EndTests, RestoreSnapshot,
              SyncToHost, Checkpoint, Complete, Return
<1>6. QED BY <1>1, <1>2, <1>3, <1>4, <1>5 DEF Resume

LEMMA RecordStep ==
  ASSUME OneClient = TRUE, StoreFaults = FALSE, Inv, Recorded,
         NEW c \in Calls, NewCall(c) \/ Resume(c)
  PROVE  Recorded'
<1>1. \A d \in Calls : d # c => writing[d] = None /\ writing'[d] = None
  BY OthersIdle DEF InFlight
<1>2. writing \in [Calls -> Status \cup {None}]
  BY DEF Inv, TypeInv, TypeOK
<1>3. CASE UNCHANGED <<status, writing, storedStatus>>
  BY <1>3 DEF Recorded
<1>4. CASE StoreStatus(c)
  <2>1. writing[c] = status /\ status' = status /\ storedStatus' = status
    BY <1>4 DEF StoreStatus, Recorded, engineVars
  <2>2. writing' = [writing EXCEPT ![c] = None]
    BY <1>4 DEF StoreStatus
  <2>3. QED BY <1>1, <1>2, <2>1, <2>2 DEF Recorded
<1>5. CASE /\ storedStatus' = storedStatus /\ writing[c] = None
           /\ \/ writing' = [writing EXCEPT ![c] = status']
              \/ status' = status /\ writing' = [writing EXCEPT ![c] = None]
  <2>1. storedStatus = status
    BY <1>1, <1>5 DEF Recorded
  <2>2. status' # None
    BY TypeStep, NoneAssumption DEF Inv, TypeInv, TypeOK, Next
  <2>3. CASE writing' = [writing EXCEPT ![c] = status']
    BY <1>1, <1>2, <1>5, <2>2, <2>3 DEF Recorded
  <2>4. CASE status' = status /\ writing' = [writing EXCEPT ![c] = None]
    BY <1>1, <1>2, <1>5, <2>1, <2>4 DEF Recorded
  <2>5. QED BY <1>5, <2>3, <2>4
<1>6. CASE NewCall(c)
  BY <1>3, <1>6 DEF NewCall, RefusedCall, StartTask, Decide, engineVars, storeVars
<1>7. QED BY <1>3, <1>4, <1>5, <1>6, RecordFrame

\* To a single client whose store keeps its writes, the session row says what the
\* engine does, a session that waits for a decision has one plan to decide on,
\* and the next attempt's prompt lists what the last one left behind.
THEOREM NextCallInformedHolds ==
  OneClient = TRUE /\ StoreFaults = FALSE /\ Spec => []NextCallInformed
<1> DEFINE Held == /\ Certificate /\ Tabled /\ Recorded
                   /\ \A c \in Calls : Evidence(c) /\ Desk(c)
<1>1. Init => Held
  BY DEF Init, NoPlan, Certificate, Evidence, Tabled, Desk, Pending, Deciding, Recorded
<1>2. ASSUME OneClient = TRUE, StoreFaults = FALSE
      PROVE  Inv /\ Held /\ [Next]_vars => Held'
  <2> SUFFICES ASSUME Inv, Held, [Next]_vars
               PROVE  Held'
    OBVIOUS
  <2>1. ASSUME NEW c \in Calls, NewCall(c) \/ Resume(c)
        PROVE  Held'
    <3>1. Certificate' /\ \A d \in Calls : Evidence(d)'
      BY <1>2, <2>1, EvidenceStep
    <3>2. Tabled' /\ \A d \in Calls : Desk(d)'
      BY <1>2, <2>1, DeskStep
    <3>3. Recorded'
      BY <1>2, <2>1, RecordStep
    <3>4. QED BY <3>1, <3>2, <3>3
  <2>2. CASE UNCHANGED vars
    BY <2>2 DEF Certificate, Evidence, Approved, Passed, Tabled, Desk, Pending, Recorded,
       vars, engineVars, storeVars, worldVars, callVars
  <2>3. QED BY <2>1, <2>2 DEF Next
<1>3. Inv /\ Held => NextCallInformed
  <2> SUFFICES ASSUME Inv, Held
               PROVE  NextCallInformed
    OBVIOUS
  <2>1. StoredStatusAgrees
    BY DEF StoredStatusAgrees, Recorded, InFlight
  <2>2. DecisionPossible
    <3>1. SUFFICES ASSUME status = "awaiting_approval", InFlight = {}
                   PROVE  Pending = {currentPlan.id}
      BY DEF DecisionPossible, Pending
    <3>2. \A c \in Calls : pc[c] \notin Deciding
      BY <3>1 DEF InFlight, Deciding, GuardedLabels, OpenLabels
    <3>3. QED BY <3>1, <3>2 DEF Tabled
  <2>3. FeedbackVisible
    BY DEF FeedbackVisible, Tabled, Inv, SingleInv, Here
  <2>4. QED BY <2>1, <2>2, <2>3 DEF NextCallInformed
<1> HIDE DEF Held
<1>4. SUFFICES ASSUME OneClient = TRUE, StoreFaults = FALSE
               PROVE  Spec => []NextCallInformed
  OBVIOUS
<1>5. Inv /\ Held /\ [Next]_vars => Held'
  BY <1>2, <1>4
<1>6. QED BY <1>1, <1>3, <1>4, <1>5, SingleHolds, PTL DEF Spec

-----------------------------------------------------------------------------
\* The snapshot a failed validation restores.

\* The attempt has saved no turn of its own, or the last pre-apply turn is its.
Turn(c) ==
  /\ pc[c] \in {"prompting", "implLLM", "asking", "gating"} => ownTurn[c] = None
  /\ pc[c] \in {"applying", "savingPost", "applied", "validating", "testing", "failedTests"}
       => ownTurn[c] = None \/ lastPreApply = ownTurn[c]

LEMMA TurnStep ==
  ASSUME OneClient = TRUE, Inv, \A d \in Calls : Turn(d), NEW c \in Calls, NewCall(c) \/ Resume(c)
  PROVE  \A d \in Calls : Turn(d)'
<1>1. ASSUME NEW d \in Calls, d # c
      PROVE  Turn(d)'
  BY <1>1, OthersIdle DEF Turn, InFlight, GuardedLabels, OpenLabels
<1>2. Turn(c)'
  <2> USE DEF Turn, Inv, TypeInv, TypeOK, At, Goto, engineVars
  <2>1. CASE NewCall(c)
    <3>1. pc'[c] \in {"failed", "startHook", "checkApprove", "checkReject"}
      BY <2>1, CallFrame
    <3>2. QED BY <3>1
  <2>2. CASE StoreStatus(c) BY <2>2 DEF StoreStatus
  <2>3. CASE Throw(c) BY <2>3 DEF Throw, Fail
  <2>4. CASE PlanStep(c)
    BY <2>4 DEF PlanStep, BeginPlan, WritePlan, LabelTask, OfferPlan, Return, Transition, Fail
  <2>5. CASE DecisionStep(c)
    BY <2>5 DEF DecisionStep, CheckApprove, ReadApproved, CheckReject, ConsumeRetry,
                StoreFault, Fail
  <2>6. CASE AttemptStep(c)
    BY <2>6 DEF AttemptStep, BeginAttempt, Prompt, Generate, AnswerDiff, PassGate, Transition,
                SavePreApply, ApplyDiff, RefuseDiff, SavePostApply, ConsumeRetry, Fail
  <2>7. CASE ValidateStep(c)
    BY <2>7 DEF ValidateStep, BeginValidate, RunTests, EndTests, RestoreSnapshot, Transition,
                SyncToHost, Checkpoint, Complete, Return, Fail
  <2>8. QED BY <2>1, <2>2, <2>3, <2>4, <2>5, <2>6, <2>7 DEF Resume
<1>3. QED BY <1>1, <1>2

\* A failed validation of a single client's attempt restores that attempt's own
\* pre-apply turn, whatever was numbered before it.
THEOREM RestoresOwnAttemptHolds == OneClient = TRUE /\ Spec => []RestoresOwnAttempt
<1> DEFINE Held == \A c \in Calls : Turn(c)
<1>1. Init => Held
  BY DEF Init, Turn
<1>2. ASSUME OneClient = TRUE
      PROVE  Inv /\ Held /\ [Next]_vars => Held'
  BY <1>2, TurnStep DEF Next, Turn, vars, engineVars, callVars
<1>3. Held => RestoresOwnAttempt
  BY DEF Turn, RestoresOwnAttempt
<1> HIDE DEF Held
<1>4. SUFFICES ASSUME OneClient = TRUE
               PROVE  Spec => []RestoresOwnAttempt
  OBVIOUS
<1>5. Inv /\ Held /\ [Next]_vars => Held'
  BY <1>2, <1>4
<1>6. QED BY <1>1, <1>3, <1>4, <1>5, SingleHolds, PTL DEF Spec
=============================================================================
