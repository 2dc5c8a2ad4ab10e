---------------------------- MODULE ValidatorSet ----------------------------
(***************************************************************************)
(* The validator set of a subnet as the contracts keep it: the confirmed   *)
(* collateral and federated power of each validator, a min priority queue  *)
(* of the active validators and a max priority queue of the waiting ones.  *)
(* Each confirmed change of power reshuffles the two queues.               *)
(*                                                                         *)
(* A queue is the array posToAddress; addressToPos is its inverse.  Both   *)
(* kinds of queue are heaps whose root has the least key: the power in the *)
(* queue of active validators, its negation in that of waiting ones.       *)
(***************************************************************************)
EXTENDS Integers, Sequences, FiniteSets, FiniteSetsExt, Functions

CONSTANTS Validators

\* LibValidatorSet.getPower.
getPower(s, v) == IF s.mode = "Federated" THEN s.federated[v] ELSE s.confirmed[v]

ActiveKey(s) == [v \in Validators |-> getPower(s, v)]
WaitingKey(s) == [v \in Validators |-> -getPower(s, v)]

----------------------------------------------------------------------------
\* LibPQ, LibMinPQ and LibMaxPQ: a queue q ordered by the key k.

contains(q, v) == v \in Range(q)

\* The positions from bottom up to, and including, its ancestor top.
Path(top, bottom) == {i \in top..bottom : \E j \in 0..bottom : i = bottom \div 2^j}

\* The entry at pos goes up past every ancestor with a greater key.
swim(q, k, pos) ==
    LET climb[i \in 1..pos] ==
            IF i > 1 /\ k[q[i \div 2]] > k[q[pos]] THEN climb[i \div 2] ELSE i
        top == climb[pos]
    IN  [i \in DOMAIN q |-> CASE i = top -> q[pos]
                              [] i # top /\ i \in Path(top, pos) -> q[i \div 2]
                              [] OTHER -> q[i]]

\* smallerPosition and largerPosition.
child(q, k, i) == IF 2 * i < Len(q) /\ k[q[2 * i]] > k[q[2 * i + 1]] THEN 2 * i + 1 ELSE 2 * i

\* The entry at pos goes down past every lesser child with a lesser key.
sink(q, k, pos) ==
    LET fall[i \in 1..Len(q)] ==
            IF 2 * i <= Len(q) /\ k[q[pos]] > k[q[child(q, k, i)]] THEN fall[child(q, k, i)] ELSE i
        bottom == fall[pos]
    IN  IF pos > Len(q) THEN q
        ELSE [i \in DOMAIN q |-> CASE i = bottom -> q[pos]
                                   [] i # bottom /\ i \in Path(pos, bottom) -> q[child(q, k, i)]
                                   [] OTHER -> q[i]]

insert(q, k, v) == swim(Append(q, v), k, Len(q) + 1)

\* The entry is exchanged with the last one, which is deleted.
removed(q, pos) == [i \in 1..Len(q) - 1 |-> IF i = pos THEN q[Len(q)] ELSE q[i]]

pop(q, k) == sink(removed(q, 1), k, 1)

\* A plausible slip: the entry moved into the gap is left there.
deleteReheapify_gap(q, k, v) == removed(q, CHOOSE i \in DOMAIN q : q[i] = v)

deleteReheapify(q, k, v) ==
    LET pos == CHOOSE i \in DOMAIN q : q[i] = v
        r == removed(q, pos)
    IN  IF pos = Len(q) THEN r ELSE sink(swim(r, k, pos), k, pos)

\* decreaseReheapify of the active queue, increaseReheapify of the waiting one.
towardsRoot(q, k, v) == swim(q, k, CHOOSE i \in DOMAIN q : q[i] = v)
\* increaseReheapify of the active queue, decreaseReheapify of the waiting one.
towardsLeaves(q, k, v) == sink(q, k, CHOOSE i \in DOMAIN q : q[i] = v)

----------------------------------------------------------------------------
\* LibValidatorSet, on the record of a set whose powers have been updated.

\* A plausible slip: a validator that moves up stays in the waiting queue.
increaseReshuffle_stays(s, v, newPower) ==
    LET a == ActiveKey(s)
        w == WaitingKey(s)
    IN  CASE contains(s.active, v) -> [s EXCEPT !.active = towardsLeaves(@, a, v)]
          [] ~contains(s.active, v) /\ s.limit > Len(s.active) ->
                [s EXCEPT !.active = insert(@, a, v)]
          [] ~contains(s.active, v) /\ s.limit <= Len(s.active) ->
                IF getPower(s, s.active[1]) < newPower
                THEN [s EXCEPT !.active = insert(pop(@, a), a, v),
                               !.waiting = insert(@, w, s.active[1])]
                ELSE IF contains(s.waiting, v) THEN [s EXCEPT !.waiting = towardsRoot(@, w, v)]
                ELSE [s EXCEPT !.waiting = insert(@, w, v)]

increaseReshuffle(s, v, newPower) ==
    LET a == ActiveKey(s)
        w == WaitingKey(s)
        least == s.active[1]
        Left == IF contains(s.waiting, v) THEN deleteReheapify(s.waiting, w, v) ELSE s.waiting
        Waits == IF contains(s.waiting, v) THEN towardsRoot(s.waiting, w, v) ELSE insert(s.waiting, w, v)
    IN  IF contains(s.active, v) THEN [s EXCEPT !.active = towardsLeaves(@, a, v)]
        ELSE IF s.limit > Len(s.active) THEN [s EXCEPT !.active = insert(@, a, v)]
        ELSE IF getPower(s, least) < newPower
             THEN [s EXCEPT !.active = insert(pop(@, a), a, v), !.waiting = insert(Left, w, least)]
             ELSE [s EXCEPT !.waiting = Waits]

\* A plausible slip: nobody is promoted when an active validator leaves.
promoted_none(s) == s

\* After an active validator has left, the first waiting one takes its place.
promoted(s) ==
    IF s.waiting = <<>> THEN s
    ELSE [s EXCEPT !.active = insert(@, ActiveKey(s), s.waiting[1]), !.waiting = pop(@, WaitingKey(s))]

\* The last active and the first waiting validator change places if that is due.
exchanged(s) ==
    IF s.waiting # <<>> /\ getPower(s, s.active[1]) < getPower(s, s.waiting[1])
    THEN [s EXCEPT !.active = insert(pop(@, ActiveKey(s)), ActiveKey(s), s.waiting[1]),
                   !.waiting = insert(pop(@, WaitingKey(s)), WaitingKey(s), s.active[1])]
    ELSE s

reduceReshuffle(s, v, newPower) ==
    LET a == ActiveKey(s)
        w == WaitingKey(s)
    IN  IF contains(s.waiting, v)
        THEN [s EXCEPT !.waiting = IF newPower = 0 THEN deleteReheapify(@, w, v) ELSE towardsLeaves(@, w, v)]
        ELSE IF newPower = 0 THEN promoted([s EXCEPT !.active = deleteReheapify(@, a, v)])
        ELSE exchanged([s EXCEPT !.active = towardsRoot(@, a, v)])

confirmDeposit(s, v, amount) ==
    LET newCollateral == s.confirmed[v] + amount
    IN  increaseReshuffle([s EXCEPT !.confirmed[v] = newCollateral, !.total = @ + amount],
                          v, newCollateral)

\* The subtraction and the search for the validator revert.
canWithdraw(s, v, amount) ==
    /\ amount <= s.confirmed[v] /\ amount <= s.total
    /\ contains(s.waiting, v) \/ contains(s.active, v)

\* A plausible slip: the record is deleted although a deposit is still to be confirmed.
confirmWithdraw_deletes(s, v, amount) ==
    LET newCollateral == s.confirmed[v] - amount
        r == [s EXCEPT !.confirmed[v] = newCollateral,
                       !.staked[v] = IF newCollateral = 0 THEN 0 ELSE @]
    IN  [reduceReshuffle(r, v, newCollateral) EXCEPT !.total = @ - amount]

\* The record of a validator without any collateral is deleted.
confirmWithdraw(s, v, amount) ==
    LET newCollateral == s.confirmed[v] - amount
        gone == newCollateral = 0 /\ s.staked[v] = 0
        r == [s EXCEPT !.confirmed[v] = newCollateral, !.federated[v] = IF gone THEN 0 ELSE @,
                       !.metadata = IF gone THEN @ \ {v} ELSE @]
    IN  [reduceReshuffle(r, v, newCollateral) EXCEPT !.total = @ - amount]

confirmFederatedPower(s, v, power) ==
    LET existing == s.federated[v]
        r == [s EXCEPT !.federated[v] = power]
    IN  IF existing = power THEN r
        ELSE IF existing < power THEN increaseReshuffle(r, v, power)
        ELSE reduceReshuffle(r, v, power)

\* An empty set; staked is the total collateral, confirmed or not, and metadata holds the
\* validators whose public key is known.
EmptySet(mode, limit) ==
    [mode |-> mode, limit |-> limit, total |-> 0,
     confirmed |-> [v \in Validators |-> 0], federated |-> [v \in Validators |-> 0],
     staked |-> [v \in Validators |-> 0], metadata |-> {}, active |-> <<>>, waiting |-> <<>>]

\* A change of the log, confirmed: one turn of the loops of LibStaking.confirmChange and
\* LibValidatorTracking.confirmChange, without the calls to the gateway.
canConfirm(s, c) == c.op = "Withdraw" => canWithdraw(s, c.validator, c.amount)

confirmed(s, c) ==
    CASE c.op = "SetMetadata" -> [s EXCEPT !.metadata = @ \cup {c.validator}]
      [] c.op = "SetFederatedPower" ->
            confirmFederatedPower([s EXCEPT !.metadata = @ \cup {c.validator}], c.validator, c.amount)
      [] c.op = "Withdraw" -> confirmWithdraw(s, c.validator, c.amount)
      [] c.op = "Deposit" -> confirmDeposit(s, c.validator, c.amount)

\* The sets the loop passes through, from the one before change i to the one after n.
Confirming(s, changes, i, n) ==
    LET after[j \in i - 1..n] == IF j < i THEN s ELSE confirmed(after[j - 1], changes[j])
    IN  after

----------------------------------------------------------------------------
\* What holds of a validator set between changes.

\* Every entry of a queue comes after its parent.
Ordered(q, k) == \A i \in DOMAIN q : i > 1 => k[q[i \div 2]] <= k[q[i]]

\* Both queues are heaps, so their roots are the least active and the greatest
\* waiting power.
QueuesOrdered(s) == Ordered(s.active, ActiveKey(s)) /\ Ordered(s.waiting, WaitingKey(s))

\* Every validator with power is in exactly one queue, once, and nobody else is.
QueuesPartition(s) ==
    /\ IsInjective(s.active) /\ IsInjective(s.waiting)
    /\ Range(s.active) \cap Range(s.waiting) = {}
    /\ Range(s.active) \cup Range(s.waiting) = {v \in Validators : s.confirmed[v] + s.federated[v] > 0}

\* Nobody waits while there is room, no waiting validator has more power than an
\* active one.
ActiveAreStrongest(s) ==
    /\ Len(s.active) <= s.limit
    /\ s.waiting # <<>> => Len(s.active) = s.limit
    /\ \A a \in Range(s.active), w \in Range(s.waiting) : getPower(s, a) >= getPower(s, w)
=============================================================================
