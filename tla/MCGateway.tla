----------------------------- MODULE MCGateway -----------------------------
(***************************************************************************)
(* Model-checking instances of Gateway and of its refinement.              *)
(***************************************************************************)
EXTENDS GatewayContract, TLC

CONSTANTS r1, r2, r3

TwoRequests == {r1, r2}
ThreeRequests == {r1, r2, r3}

\* Requests are interchangeable when all or none of them may hang up or panic.
Symmetry == Permutations(Requests)
=============================================================================
