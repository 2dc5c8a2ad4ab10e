------------------------------- MODULE Staking -------------------------------
(***************************************************************************)
(* The validator set under the operations that LibStaking confirms at      *)
(* once: deposits and withdrawals of a subnet that is not bootstrapped     *)
(* yet, in collateral mode, and powers set by the owner, in federated mode *)
(***************************************************************************)
EXTENDS ValidatorSet

CONSTANTS Limits,    \* the values of activeLimit
          MaxPower   \* bound: the greatest power of a validator

ASSUME StakingAssumption == Limits \subseteq Nat \ {0} /\ MaxPower \in Nat

VARIABLE set

Init == \E mode \in {"Collateral", "Federated"}, limit \in Limits : set = EmptySet(mode, limit)

depositWithConfirm(v, amount) ==
    /\ set.mode = "Collateral"
    /\ set.staked[v] + amount <= MaxPower
    /\ set' = confirmDeposit([set EXCEPT !.staked[v] = @ + amount], v, amount)

withdrawWithConfirm(v, amount) ==
    /\ amount <= set.staked[v]
    /\ canWithdraw(set, v, amount)
    /\ set' = confirmWithdraw([set EXCEPT !.staked[v] = @ - amount], v, amount)

setFederatedPowerWithConfirm(v, power) ==
    /\ set.mode = "Federated"
    /\ set' = confirmFederatedPower(set, v, power)

Next == \E v \in Validators, n \in 1..MaxPower :
    \/ depositWithConfirm(v, n)
    \/ withdrawWithConfirm(v, n)
    \/ setFederatedPowerWithConfirm(v, n - 1)

Spec == Init /\ [][Next]_set

----------------------------------------------------------------------------
\* The roots of the two heaps are the least active and the greatest waiting power
\* after every reshuffle (LibMinPQ.min and LibMaxPQ.max).
HeapsOrdered == QueuesOrdered(set)

\* Every validator with power is in exactly one of the queues, once: reshuffling
\* neither loses nor duplicates a validator.
NobodyLost == QueuesPartition(set)

\* "Waiting validators are those that do no have as high collateral as Active
\* validators" (structs/Subnet.sol): nobody waits while there is room, and no waiting
\* validator has more power than an active one.
StrongestActive == ActiveAreStrongest(set)
=============================================================================
