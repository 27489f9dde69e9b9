------------------------------ MODULE TaskRun ------------------------------
(***************************************************************************)
(* iq task (iquantum-cli/src/commands/task.ts): one program, one session, one     *)
(* task, for the engine or, with --coordinator, for the coordinator.  The program posts the task, the rejections and the approval over          *)
(* connections of their own (client.ts, #request), reads the session's stream       *)
(* (openStream), and takes a decision at each plan.  What it knows comes back on     *)
(* both ways, in any order.                                                       *)
(*                                                                         *)
(* The engine is PIVEngine for a single client, with only what the program can        *)
(* tell; tokens, phases and test results are printed and change nothing, so their      *)
(* frames are left out.  The session has just been made.                            *)
(***************************************************************************)
EXTENDS Integers, Sequences, FiniteSetsExt

CONSTANTS
  MaxPlanRetries,  \* the engine's retry budget
  MaxFeedbacks     \* bound: plans the user rejects

ASSUME TaskRunAssumption == MaxPlanRetries \in Nat /\ MaxFeedbacks \in Nat

\* What the program posts: the task, the k-th rejection, the approval.
PlanPosts == 0..MaxFeedbacks
Approval  == MaxFeedbacks + 1
Posts     == 0..Approval
NoPlan    == 0

VARIABLES
  iq,         \* [coordinator, step, pendingPlan: the post whose answer is awaited,
              \* printed: the plan]
  stream,     \* the stream's request: none, sent, attached
  frames,     \* frames on their way to the program
  missed,     \* history: frames published before the stream was attached
  served,     \* [post -> what the daemon does with it]
  seen,       \* [post -> what the program knows of it: none, waiting, failed, a plan]
  engine,     \* [status, plan: the number of the current one, retries]; the status in
              \* memory, with "committed" for the end of validating, from the checkpoint's
              \* frame to "completed", and "merged" likewise for the coordinator
  deletion,   \* the DELETE of the session: none, sent, done, lost
  daemonUp

taskVars == <<iq, stream, frames, missed, served, seen, engine, deletion, daemonUp>>

NotSeen == [is |-> "none", plan |-> NoPlan]
Waiting == [is |-> "waiting", plan |-> NoPlan]
Failed  == [is |-> "failed", plan |-> NoPlan]

TaskStart(coordinator) ==
  /\ iq = [coordinator |-> coordinator, step |-> "created", pendingPlan |-> 0, printed |-> NoPlan]
  /\ stream = "none" /\ frames = <<>> /\ missed = {}
  /\ served = [p \in Posts |-> "none"] /\ seen = [p \in Posts |-> NotSeen]
  /\ engine = [status |-> "idle", plan |-> NoPlan, retries |-> 0]
  /\ deletion = "none" /\ daemonUp = TRUE
TaskRest == TaskStart(FALSE)
TaskInit == TaskStart(TRUE) \/ TaskStart(FALSE)

-----------------------------------------------------------------------------
(* The program. *)

Over == {"committed", "coordinated", "quit", "threw", "ended", "died"}
StepTo(step) == iq' = [iq EXCEPT !.step = step]

PostIt(p) ==
  /\ served' = [served EXCEPT ![p] = IF daemonUp THEN "sent" ELSE "lost"]
  /\ seen' = [seen EXCEPT ![p] = Waiting]

\* The catch of runTask: the session is to be destroyed, which the end of the process
\* may come before.
ThrowTask ==
  /\ StepTo("threw")
  /\ deletion' \in {"sent", "lost"}

\* The stream is a generator: its request is sent when the first frame is asked for,
\* after the task was posted.
PostTask ==
  /\ iq.step = "created"
  /\ StepTo("reading")
  /\ PostIt(0) /\ stream' = "sent"
  /\ UNCHANGED <<frames, missed, engine, deletion, daemonUp>>

\* The frames that end the program or lead to a decision.
ReadTaskFrame ==
  /\ iq.step = "reading" /\ frames # <<>>
  /\ \/ Head(frames) = "plan_ready" /\ StepTo("awaitPlan") /\ UNCHANGED deletion
     \/ Head(frames) = "checkpoint" /\ StepTo("committed") /\ UNCHANGED deletion
     \/ Head(frames) = "done" /\ StepTo("coordinated") /\ UNCHANGED deletion
     \/ Head(frames) = "end" /\ StepTo("ended") /\ UNCHANGED deletion
     \/ Head(frames) = "error" /\ ThrowTask
  /\ frames' = Tail(frames)
  /\ UNCHANGED <<stream, missed, served, seen, engine, daemonUp>>

PrintPlan ==
  /\ iq.step = "awaitPlan" /\ seen[iq.pendingPlan].is = "plan"
  /\ iq' = [iq EXCEPT !.step = "asking", !.printed = seen[iq.pendingPlan].plan]
  /\ UNCHANGED <<stream, frames, missed, served, seen, engine, deletion, daemonUp>>

Quit ==
  /\ iq.step = "asking"
  /\ StepTo("quit") /\ deletion' = "sent"
  /\ UNCHANGED <<stream, frames, missed, served, seen, engine, daemonUp>>

ApprovePlan ==
  /\ iq.step = "asking"
  /\ StepTo("reading") /\ PostIt(Approval)
  /\ UNCHANGED <<stream, frames, missed, engine, deletion, daemonUp>>

RejectPlan ==
  LET p == iq.pendingPlan + 1 IN
  /\ iq.step = "asking" /\ p \in PlanPosts
  /\ PostIt(p)
  /\ iq' = [iq EXCEPT !.step = "reading", !.pendingPlan = p]
  /\ UNCHANGED <<stream, frames, missed, engine, deletion, daemonUp>>

\* A post fails for the program: the promise of a plan that nobody awaits yet has no
\* handler and ends it at once, one that is awaited throws, an approval's and the
\* coordinator's are caught.
FailsFor(p) ==
  LET caught == p = Approval \/ iq.coordinator \/ iq.step \in Over IN
  /\ seen' = [seen EXCEPT ![p] = Failed]
  /\ \/ caught /\ UNCHANGED <<iq, deletion>>
     \/ ~caught /\ iq.step = "awaitPlan" /\ ThrowTask
     \/ ~caught /\ iq.step # "awaitPlan" /\ StepTo("died") /\ UNCHANGED deletion

\* An answer arrives: the status was one of success, or not.
ReadAnswer(p) ==
  /\ seen[p] = Waiting /\ served[p] \in {"answered", "refused", "lost"}
  /\ \/ /\ served[p] = "answered"
        /\ seen' = [seen EXCEPT ![p] = [is |-> "plan", plan |-> engine.plan]]
        /\ UNCHANGED <<iq, deletion>>
     \/ served[p] # "answered" /\ FailsFor(p)
  /\ UNCHANGED <<stream, frames, missed, served, engine, daemonUp>>

\* Ten seconds without a byte, while the daemon goes on.
RequestTimesOut(p) ==
  /\ seen[p] = Waiting /\ served[p] \in {"sent", "working"}
  /\ FailsFor(p)
  /\ UNCHANGED <<stream, frames, missed, served, engine, daemonUp>>

-----------------------------------------------------------------------------
(* The daemon. *)

Attached == stream = "attached" /\ daemonUp
Publish(frame) ==
  /\ frames' = IF Attached THEN Append(frames, frame) ELSE frames
  /\ missed' = IF stream = "sent" THEN missed \cup {frame} ELSE missed

Attach ==
  /\ stream = "sent" /\ daemonUp
  /\ stream' = "attached"
  /\ UNCHANGED <<iq, frames, missed, served, seen, engine, deletion, daemonUp>>

\* What fails before the engine's guard, or in its own handling of a failure, is
\* answered and published nowhere: so is a row or a compaction that fails after the
\* checkpoint, where the status is completed already and no failure may follow it.
AfterFailure(status) == IF status = "committed" THEN "completed" ELSE "error"
RefusePost(p) ==
  /\ served[p] \in {"sent", "working"} /\ daemonUp
  /\ served' = [served EXCEPT ![p] = "refused"]
  /\ engine' = [engine EXCEPT !.status = IF served[p] = "sent" THEN @ ELSE AfterFailure(@)]
  /\ UNCHANGED <<iq, stream, frames, missed, seen, deletion, daemonUp>>

\* The status a post is for, and the one it brings.
Expected(p) == IF p = 0 THEN "idle" ELSE "awaiting_approval"
BeginPost(p) ==
  /\ served[p] = "sent" /\ daemonUp /\ engine.status = Expected(p)
  /\ \/ /\ iq.coordinator
        /\ engine' = [engine EXCEPT !.status = "coordinating"]
        /\ served' = [served EXCEPT ![p] = "answered"]
        /\ UNCHANGED <<frames, missed>>
     \/ /\ p \in PlanPosts \ {0} /\ engine.retries = MaxPlanRetries
        /\ engine' = [engine EXCEPT !.status = "error", !.retries = @ + 1]
        /\ served' = [served EXCEPT ![p] = "refused"]
        /\ Publish("error")
     \/ /\ p \in PlanPosts /\ ~iq.coordinator /\ (p # 0 => engine.retries < MaxPlanRetries)
        /\ engine' = [engine EXCEPT !.status = "planning", !.retries = IF p = 0 THEN @ ELSE @ + 1]
        /\ served' = [served EXCEPT ![p] = "working"]
        /\ UNCHANGED <<frames, missed>>
     \/ /\ p = Approval
        /\ engine' = [engine EXCEPT !.status = "implementing"]
        /\ served' = [served EXCEPT ![p] = "working"]
        /\ UNCHANGED <<frames, missed>>
  /\ UNCHANGED <<iq, stream, seen, deletion, daemonUp>>

\* The work is committed, and the stream told at once: the hooks of the checkpoint, the
\* transition to completed, its hooks and a compaction come after.
CommitTask(p) ==
  /\ p = Approval /\ served[p] = "working" /\ daemonUp /\ engine.status = "implementing"
  /\ engine' = [engine EXCEPT !.status = "committed"]
  /\ Publish("checkpoint")
  /\ UNCHANGED <<iq, stream, served, seen, deletion, daemonUp>>

\* The plan is there (piv-engine, #plan's last lines), the engine is done with the work
\* it committed (#validate's), or it fails (#fail).
FinishPost(p) ==
  /\ served[p] = "working" /\ daemonUp
  /\ \/ /\ p \in PlanPosts
        /\ engine' = [engine EXCEPT !.status = "awaiting_approval", !.plan = @ + 1]
        /\ served' = [served EXCEPT ![p] = "answered"]
        /\ Publish("plan_ready")
     \/ /\ engine.status = "committed"
        /\ engine' = [engine EXCEPT !.status = "completed"]
        /\ served' = [served EXCEPT ![p] = "answered"]
        /\ UNCHANGED <<frames, missed>>
     \/ /\ engine.status # "committed"
        /\ engine' = [engine EXCEPT !.status = "error"]
        /\ served' = [served EXCEPT ![p] = "refused"]
        /\ Publish("error")
  /\ UNCHANGED <<iq, stream, seen, deletion, daemonUp>>

\* The workers' results are merged and committed, on the coordinator's stream too.
CommitMerge ==
  /\ engine.status = "coordinating" /\ daemonUp
  /\ engine' = [engine EXCEPT !.status = "merged"]
  /\ Publish("checkpoint")
  /\ UNCHANGED <<iq, stream, served, seen, deletion, daemonUp>>

\* coordinator.run ends, long after the post was answered: with the merge, or failing.
EndCoordinator ==
  /\ daemonUp
  /\ \/ /\ engine.status = "merged"
        /\ engine' = [engine EXCEPT !.status = "completed"] /\ Publish("done")
     \/ /\ engine.status = "coordinating"
        /\ engine' = [engine EXCEPT !.status = "error"] /\ Publish("error")
  /\ UNCHANGED <<iq, stream, served, seen, deletion, daemonUp>>

Destroy ==
  /\ deletion = "sent" /\ daemonUp
  /\ deletion' = "done"
  /\ UNCHANGED <<iq, stream, frames, missed, served, seen, engine, daemonUp>>

\* The daemon's shutdown ends the streams and cuts the requests.
StopDaemon ==
  /\ daemonUp /\ daemonUp' = FALSE
  /\ frames' = IF stream = "attached" THEN Append(frames, "end") ELSE frames
  /\ served' = [p \in Posts |-> IF served[p] \in {"sent", "working"} THEN "lost" ELSE served[p]]
  /\ UNCHANGED <<iq, stream, missed, seen, engine, deletion>>

\* A stream that cannot be opened, any more or yet, throws.
StreamFails ==
  /\ iq.step = "reading" /\ stream = "sent" /\ ~daemonUp
  /\ ThrowTask /\ stream' = "refused"
  /\ UNCHANGED <<frames, missed, served, seen, engine, daemonUp>>

TaskNext ==
  \/ PostTask \/ ReadTaskFrame \/ PrintPlan \/ Quit \/ ApprovePlan \/ RejectPlan
  \/ \E p \in Posts : ReadAnswer(p) \/ RequestTimesOut(p) \/ RefusePost(p) \/ BeginPost(p)
                     \/ CommitTask(p) \/ FinishPost(p)
  \/ CommitMerge \/ EndCoordinator \/ Attach \/ Destroy \/ StopDaemon \/ StreamFails

-----------------------------------------------------------------------------
\* What is implemented, and committed, is the plan the user read and said yes to: the
\* plan printed is the engine's whenever the approval is on its way or done, although
\* the plan's frame and the plan come on different connections.
ImplementsWhatWasPrinted ==
  served[Approval] # "none" => iq.printed = engine.plan

\* iq task waits for a frame that will not come only for one of two causes: a plan, or
\* the coordinator's end, was published before the stream was attached, or the approval,
\* or the coordinator's task, failed where no frame tells of it; a rejection that gets
\* no answer, a failure and a shutdown end it.
NothingUnderWay ==
  /\ frames = <<>> /\ stream = "attached"
  /\ engine.status \notin {"coordinating", "merged"}
  /\ \A p \in Posts : served[p] \notin {"sent", "working"} /\ seen[p] # Waiting
WaitsForCause ==
  iq.step = "reading" /\ NothingUnderWay =>
    \/ missed \cap (IF iq.coordinator THEN {"done", "error"} ELSE {"plan_ready"}) # {}
    \/ served[IF iq.coordinator THEN 0 ELSE Approval] = "refused"

\* It says that the work is committed only when it is, and nothing takes that back: no
\* failure that comes after the checkpoint's frame, of a row, a hook or a compaction, and no
\* stop of the daemon brings the task to "error".  The program may be over before the
\* status is completed, and a stop then leaves it so; of the coordinator's end it tells
\* when the merge's checkpoint was missed, and there the run is over.
CommittedStands ==
  /\ iq.step = "committed" => engine.status \in {"committed", "merged", "completed"}
  /\ iq.step = "coordinated" => engine.status = "completed"

TasksTrue == ImplementsWhatWasPrinted /\ WaitsForCause /\ CommittedStands
=============================================================================
