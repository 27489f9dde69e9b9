---------------------------- MODULE PIVLifecycle ----------------------------
(***************************************************************************)
(* What a session promises its client, without the calls, the store and the *)
(* sandbox: the phases of the table allowedTransitions, a budget of planning *)
(* and implementing rounds, and a delivery that precedes completion.         *)
(***************************************************************************)
EXTENDS Naturals

CONSTANT MaxRetries

VARIABLES phase, rounds, delivered

vars == <<phase, rounds, delivered>>

Init == phase = "idle" /\ rounds = 0 /\ delivered = "nothing"

\* One more round of LLM work: the first plan and the first attempt are free,
\* every other round costs a retry.
Round(next) ==
  /\ rounds < MaxRetries + 2
  /\ delivered = "nothing"
  /\ phase' = next /\ rounds' = rounds + 1
  /\ UNCHANGED delivered

Plan    == phase \in {"idle", "awaiting_approval"} /\ Round("planning")
Attempt == phase \in {"awaiting_approval", "implementing", "validating"} /\ Round("implementing")

Move(from, to) == phase = from /\ phase' = to /\ UNCHANGED <<rounds, delivered>>

Offer    == Move("planning", "awaiting_approval")
Test     == Move("implementing", "validating")
Complete == delivered = "committed" /\ Move("validating", "completed")

Deliver(from, to) ==
  /\ phase = "validating"
  /\ delivered = from /\ delivered' = to
  /\ UNCHANGED <<phase, rounds>>

Sync   == Deliver("nothing", "synced")
Commit == Deliver("synced", "committed")

Fail ==
  /\ phase \notin {"completed", "error"}
  /\ phase' = "error"
  /\ UNCHANGED <<rounds, delivered>>

Next == Plan \/ Attempt \/ Offer \/ Test \/ Sync \/ Commit \/ Complete \/ Fail

Spec == Init /\ [][Next]_vars
=============================================================================
