----------------------------- MODULE ReplState -----------------------------
(***************************************************************************)
(* The view a terminal client keeps of its session: the reducer of          *)
(* packages/ui-core/src/repl-state.ts, as operators from view to view.       *)
(*                                                                         *)
(* A text is the set of turns whose deltas it was put together from, the     *)
(* transcript the permission prompts in it that are unresolved and the       *)
(* assistant messages.  Token counts, agents and the cards that only show    *)
(* what a frame says are not represented.                                   *)
(***************************************************************************)
EXTENDS Integers, Sequences, FiniteSets

CONSTANT None

PIV_PHASES == <<"planning", "implementing", "validating">>

PIVPhases == {PIV_PHASES[i] : i \in DOMAIN PIV_PHASES}

initialREPLViewState == [
  isSubmitting |-> FALSE,
  error        |-> FALSE,
  text         |-> {},     \* streamingText
  phase        |-> None,
  completed    |-> {},     \* completedPhases
  retryCount   |-> 0,
  prompt       |-> None,   \* pendingPermissionId
  prompts      |-> {},     \* unresolved permission requests of the transcript
  answers      |-> {} ]    \* assistant messages of the transcript

-----------------------------------------------------------------------------
\* The actions of the client itself.

submitted(v) == [v EXCEPT
  !.error = FALSE, !.isSubmitting = TRUE, !.text = {}, !.completed = {}, !.retryCount = 0]

submit_error(v) == [v EXCEPT !.error = TRUE, !.isSubmitting = FALSE]

\* Whatever prompt is up, it goes.
permission_resolved(v, id) == [v EXCEPT !.prompt = None, !.prompts = @ \ {id}]

\* /clear: with the transcript go the error and the prompt, not the submission.
clear_transcript(v) == [v EXCEPT
  !.text = {}, !.error = FALSE, !.prompt = None, !.prompts = {}, !.answers = {}]

-----------------------------------------------------------------------------
\* Frames.

PhaseIndex(p) == CHOOSE i \in DOMAIN PIV_PHASES : PIV_PHASES[i] = p

\* A phase is done when a later one begins.
withCompletedPreviousPhase(completed, previous, next) ==
  IF {previous, next} \subseteq PIVPhases /\ PhaseIndex(next) > PhaseIndex(previous)
  THEN completed \cup {previous}
  ELSE completed

finalizeAssistantTurn(v) == [v EXCEPT
  !.phase = None, !.isSubmitting = FALSE, !.text = {},
  !.answers = IF v.text = {} THEN @ ELSE @ \cup {v.text}]

Failed(v) == [v EXCEPT !.error = TRUE, !.phase = None, !.isSubmitting = FALSE, !.text = {}]

Prompted(v, id) == [v EXCEPT !.prompt = id, !.prompts = @ \cup {id}]

\* Frames that only add a card to the transcript, or change the agents' roster.
Cards == {"diff_preview", "approval_request", "compaction", "agent_spawned", "agent_status",
          "agent_message", "agent_done", "agent_failed", "agent_killed"}

\* What a frame says of the engine: a failed validation, a checkpoint.
Reported(v, f) ==
  CASE f.type = "validate_result" -> [v EXCEPT !.retryCount = IF f.of = "passed" THEN @ ELSE @ + 1]
    [] f.type = "checkpoint" -> [v EXCEPT !.completed = PIVPhases]
    [] OTHER -> v

\* A frame is [type, of]: the phase, the turn, the request or the verdict.
reduceFrame(v, f) ==
  CASE f.type = "phase_change" ->
         [v EXCEPT !.phase = f.of, !.completed = withCompletedPreviousPhase(@, v.phase, f.of)]
    [] f.type = "token" -> IF v.error THEN v ELSE [v EXCEPT !.text = @ \cup {f.of}]
    [] f.type = "done"  -> IF v.error THEN v ELSE finalizeAssistantTurn(v)
    [] f.type = "error" -> Failed(v)
    [] f.type = "permission_request" -> Prompted(v, f.of)
    [] f.type \in Cards -> v
    [] OTHER -> Reported(v, f)

\* REPL's pendingPermission: the request on display, if it is unresolved.
Displayed(v) == IF v.prompt \in v.prompts THEN v.prompt ELSE None
=============================================================================
