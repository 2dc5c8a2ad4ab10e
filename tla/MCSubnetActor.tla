---------------------------- MODULE MCSubnetActor ----------------------------
(* Validators are interchangeable.                                         *)
EXTENDS SubnetActor, TLC

\* The owner names both validators, with the powers 1 and 2, or one of them.
MCCalls ==
    {<<[addr |-> v, weight |-> 1], [addr |-> w, weight |-> 2]>> :
        <<v, w>> \in {p \in Validators \X Validators : p[1] # p[2]}}
    \cup {<<[addr |-> v, weight |-> n]>> : v \in Validators, n \in {0, 2}}

MCSymmetry == Permutations(Validators)
=============================================================================
