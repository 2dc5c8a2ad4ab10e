------------------------------- MODULE Subnet -------------------------------
(***************************************************************************)
(* The validators of a subnet, followed around the loop between parent and *)
(* child: the actor on the parent records changes; finalised, they are     *)
(* stored in the child's gateway; at the end of a checkpoint period the    *)
(* child applies them and creates a checkpoint that the validators up to   *)
(* then may sign; a relayer submits it with a quorum of signatures, and    *)
(* the actor confirms the changes.                                         *)
(*                                                                         *)
(* Checkpoints are submitted in order, as the actor demands.  The parent's *)
(* blocks and their finality are in ParentView; here the child learns of   *)
(* any prefix of the changes.                                              *)
(***************************************************************************)
EXTENDS SubnetActor

CONSTANTS MajorityPercentage,  \* of child and parent, between 51 and 100
          MaxCheckpoints       \* bound: the checkpoints the child creates

VARIABLES
    started, halted,     \* the child's first block; an error that ends block production
    tracker,             \* validatorsTracker of the child's gateway
    membership,          \* currentMembership
    lastNumber,          \* lastMembership.configurationNumber
    checkpoints,         \* bottomUpCheckpoints with the power table of their signers
    submitted            \* how many of them the actor has accepted

childVars == <<started, halted, tracker, membership, lastNumber, checkpoints, submitted>>
vars == <<actorVars, childVars>>

SubnetInit ==
    /\ Init
    /\ started = FALSE /\ halted = FALSE
    /\ tracker = [set |-> EmptySet("Collateral", ActiveLimit), changes |-> <<>>, start |-> 1, next |-> 1]
    /\ membership = [number |-> 0, validators |-> {}]
    /\ lastNumber = 0
    /\ checkpoints = <<>>
    /\ submitted = 0

Weight(table) == MapThenSumSet(LAMBDA m : m.weight, table)
Addresses(table) == {m.addr : m \in table}
weightNeeded(weight) == (weight * MajorityPercentage) \div 100

\* The child's genesis holds the genesis validators; only the membership is set from them.
Start ==
    /\ bootstrapped /\ ~started
    /\ started' = TRUE
    /\ membership' = [number |-> 0, validators |-> Range(genesis)]
    /\ UNCHANGED <<actorVars, halted, tracker, lastNumber, checkpoints, submitted>>

storedChanges(upto) ==
    [i \in tracker.start..upto |-> IF i < tracker.next THEN tracker.changes[i] ELSE changes[i]]

\* storeValidatorChanges, with the changes of the blocks a parent finality makes final.
StoreChanges(upto) ==
    /\ started /\ ~halted
    /\ upto \in tracker.next..next - 1
    /\ tracker' = [tracker EXCEPT !.changes = storedChanges(upto), !.next = upto + 1]
    /\ UNCHANGED <<actorVars, started, halted, membership, lastNumber, checkpoints, submitted>>

\* A validator's weight is its collateral and its federated power together.
ActiveWeights(s) ==
    {[addr |-> v, weight |-> s.confirmed[v] + s.federated[v]] : v \in Range(s.active)}

\* LibGateway.updateMembership, for a number that differs from the current one.
updateMembership(number, validators) ==
    IF membership.number # 0 /\ number = lastNumber
    THEN UNCHANGED <<membership, lastNumber>>
    ELSE /\ membership' = [number |-> number, validators |-> validators]
         /\ lastNumber' = membership.number

\* applyFinalityChanges, which returns 0 if there is nothing to apply.
applied == Confirming(tracker.set, tracker.changes, tracker.start, tracker.next - 1)
CanApply == \A i \in tracker.start..tracker.next - 1 : canConfirm(applied[i - 1], tracker.changes[i])
appliedNumber == IF tracker.next = tracker.start THEN 0 ELSE tracker.next - 1

\* maybe_create_checkpoint reads the power table of the signers, applies the changes and
\* saves the checkpoint.  If the application or createQuorumInfo reverts the block fails.
CreateCheckpoint ==
    LET next_set == applied[tracker.next - 1]
    IN  /\ started /\ ~halted
        /\ Len(checkpoints) < MaxCheckpoints
        /\ IF CanApply /\ Weight(membership.validators) > 0
           THEN /\ checkpoints' = Append(checkpoints, [number |-> appliedNumber, signers |-> membership.validators])
                /\ IF appliedNumber = 0 THEN UNCHANGED <<tracker, membership, lastNumber>>
                   ELSE /\ tracker' = [tracker EXCEPT !.set = next_set, !.start = tracker.next, !.changes = <<>>]
                        /\ updateMembership(appliedNumber, ActiveWeights(next_set))
                /\ UNCHANGED halted
           ELSE halted' = TRUE /\ UNCHANGED <<tracker, membership, lastNumber, checkpoints>>
        /\ UNCHANGED <<actorVars, started, submitted>>

\* Signatures that reached the child's quorum also pass validateActiveQuorumSignatures.
ParentPower(S) == MapThenSumSet(LAMBDA v : getPower(set, v), S)
HasQuorum(c, S) ==
    /\ S \subseteq Addresses(c.signers)
    /\ Weight({m \in c.signers : m.addr \in S}) >= weightNeeded(Weight(c.signers))
validateActiveQuorumSignatures(S) ==
    /\ S # {} /\ S \subseteq Range(set.active)
    /\ ParentPower(S) >= weightNeeded(ParentPower(Range(set.active)))

\* submit_next_epoch of a relayer with the next checkpoint.
SubmitCheckpoint ==
    /\ submitted < Len(checkpoints)
    /\ \E S \in SUBSET Validators : /\ HasQuorum(checkpoints[submitted + 1], S)
                                    /\ validateActiveQuorumSignatures(S)
    /\ \E value \in {0, gateway.circSupply} : submitCheckpoint(checkpoints[submitted + 1].number, value)
    /\ submitted' = submitted + 1
    /\ UNCHANGED <<started, halted, tracker, membership, lastNumber, checkpoints>>

Next ==
    \/ ActorNext /\ UNCHANGED childVars
    \/ Start
    \/ \E upto \in 1..MaxChanges : StoreChanges(upto)
    \/ CreateCheckpoint
    \/ SubmitCheckpoint

Spec == SubnetInit /\ [][Next]_vars

----------------------------------------------------------------------------
\* "Active validators are those that are producing blocks in the child subnet"
\* (structs/Subnet.sol): the validators that may sign the next checkpoint are the active ones
\* the actor checks its signatures against, with the same powers.
SignersAreActive ==
    submitted < Len(checkpoints) /\ set.mode # "Federated" =>
        checkpoints[submitted + 1].signers = ActiveWeights(set)
=============================================================================
