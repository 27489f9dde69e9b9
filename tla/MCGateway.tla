------------------------------ MODULE MCGateway ------------------------------
(* Instances of Gateway for TLC. *)
EXTENDS Gateway

\* AUTH_LIMITS with one attempt at an address in a window of two ticks; the
\* limits per client are not reached.
MCLimits == [k \in Kinds |-> [limit |-> IF k = "loginEmail" THEN 1 ELSE 5, window |-> 2]]

MCMaxStarts == [account |-> 3, session |-> 2]

\* Requests are interchangeable.
GatewaySymmetry == Permutations(Requests)
=============================================================================
