----------------------------- MODULE MCDatabase -----------------------------
(* Instances of Database for TLC. *)
EXTENDS Database

\* Requests of a kind are interchangeable.
DatabaseSymmetry == Permutations(Writers) \cup Permutations(Acceptors)
=============================================================================
