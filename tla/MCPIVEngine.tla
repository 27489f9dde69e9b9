---------------------------- MODULE MCPIVEngine -----------------------------
(* Instances of PIVEngine for TLC. *)
EXTENDS PIVEngine, TLC

\* Calls are interchangeable: nothing but CHOOSE-free equality looks at them.
CallSymmetry == Permutations(Calls)
=============================================================================
