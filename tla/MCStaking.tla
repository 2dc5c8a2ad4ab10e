------------------------------ MODULE MCStaking ------------------------------
(* Validators are interchangeable: no definition chooses between them other *)
(* than by their power and their place in a queue.                         *)
EXTENDS Staking, TLC

MCSymmetry == Permutations(Validators)
=============================================================================
