------------------------- MODULE MCSessionLifecycle -------------------------
(* Instances of SessionLifecycle for TLC. *)
EXTENDS SessionLifecycle, TLC

\* Session ids and requests are interchangeable.
LifecycleSymmetry == Permutations(Sessions) \cup Permutations(Destroys)
=============================================================================
