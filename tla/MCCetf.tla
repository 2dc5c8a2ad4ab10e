------------------------------ MODULE MCCetf ------------------------------
(* Cetf on small instances: three validators, one of them with half of the *)
(* voting power, so that a commit may lack either of the other two.        *)
EXTENDS Cetf, FiniteSetsExt, TLC

CONSTANTS v1, v2, v3, k1, k2, k3

MCPower == (v1 :> 2) @@ (v2 :> 1) @@ (v3 :> 1)

MCQuorums ==
    LET weight(Q) == FoldSet(LAMBDA v, w : MCPower[v] + w, 0, Q)
    IN  {Q \in SUBSET Validators : 3 * weight(Q) > 2 * weight(Validators)}

MCLocalKey == (v1 :> k1) @@ (v2 :> k2) @@ (v3 :> k3)

\* Contracts are interchangeable.
MCSymmetry == Permutations(Callers)
=============================================================================
