------------------------------- MODULE Tally -------------------------------
(***************************************************************************)
(* The vote tally of the top-down finality (vm/topdown/src/voting.rs) as   *)
(* operators on a record:                                                  *)
(*   power   the voting power of every validator key, 0 when unknown       *)
(*   chain   the parent's finalized chain as this node observed it:        *)
(*           height -> block hash, NullBlock for a null round              *)
(*   votes   the votes received, as <<height, hash, key>>                  *)
(*   paused  adding votes is paused until the next find_quorum             *)
(* Every public method of VoteTally is one STM transaction, so each is one *)
(* operator here and one (part of an) action where it is used.             *)
(***************************************************************************)
EXTENDS Integers, FiniteSetsExt

CONSTANTS
    VKeys,      \* validator public keys
    Hashes,     \* parent block hashes
    NullBlock,  \* the entry of a null round
    None        \* Rust's Option::None

ASSUME HashAssumption == NullBlock \notin Hashes /\ None \notin Hashes

EmptyMap == [h \in {} |-> NullBlock]

\* VoteTally::empty
empty == [power |-> [k \in VKeys |-> 0], chain |-> EmptyMap, votes |-> {}, paused |-> FALSE]

has_power(t, k) == t.power[k] > 0

Weight(t, S) == MapThenSumSet(LAMBDA k : t.power[k], S)

quorum_threshold(t) == (Weight(t, VKeys) * 2) \div 3 + 1

last_finalized_height(t) == IF DOMAIN t.chain = {} THEN 0 ELSE Min(DOMAIN t.chain)

tally_latest_height(t) == IF DOMAIN t.chain = {} THEN 0 ELSE Max(DOMAIN t.chain)

\* add_block aborts unless the height is the next one.
can_add_block(t, h) == DOMAIN t.chain # {} /\ h = Max(DOMAIN t.chain) + 1

add_block(t, h, x) ==
    [t EXCEPT !.chain = [g \in DOMAIN t.chain \cup {h} |-> IF g = h THEN x ELSE t.chain[g]]]

votes_for_block(t, h, x) == {k \in VKeys : <<h, x, k>> \in t.votes}

\* A plausible slip: only look at the block this node has on its own chain.
Equivocates_own(t, k, h, x) ==
    h \in DOMAIN t.chain /\ t.chain[h] # x /\ <<h, t.chain[h], k>> \in t.votes

Equivocates(t, k, h, x) == \E y \in Hashes \ {x} : <<h, y, k>> \in t.votes

\* add_vote: an old height is ignored, an unpowered or equivocating validator is
\* an error, a duplicate changes nothing.  A paused tally retries, see CanAddVote.
AcceptsVote(t, k, h, x) ==
    /\ h >= last_finalized_height(t)
    /\ has_power(t, k)
    /\ ~Equivocates(t, k, h, x)

add_vote(t, k, h, x) ==
    IF AcceptsVote(t, k, h, x) THEN [t EXCEPT !.votes = @ \cup {<<h, x, k>>}] ELSE t

CanAddVote(t) == ~t.paused

pause_votes_until_find_quorum(t) == [t EXCEPT !.paused = TRUE]

\* A plausible slip: a validator is counted at every height it voted for.
weight_from_repeated(t, lo, hi) ==
    MapThenSumSet(LAMBDA h : IF t.chain[h] = NullBlock THEN 0
                             ELSE Weight(t, votes_for_block(t, h, t.chain[h])),
                  {g \in DOMAIN t.chain : lo <= g /\ g <= hi})

\* The validators find_quorum has collected when it reaches height lo from hi.
VotersFrom(t, lo, hi) ==
    UNION {IF t.chain[h] = NullBlock THEN {} ELSE votes_for_block(t, h, t.chain[h]) :
           h \in {g \in DOMAIN t.chain : lo <= g /\ g <= hi}}

weight_from(t, lo, hi) == Weight(t, VotersFrom(t, lo, hi))

\* The loop of find_quorum at height h, going down: the first height whose block
\* has votes and at which the collected weight reaches the threshold, above the
\* finalized height.
find_quorum_from(t, top) ==
    LET lo == Min(DOMAIN t.chain)
        down[h \in lo..top] ==
            IF h <= lo THEN None
            ELSE IF /\ h \in DOMAIN t.chain
                    /\ t.chain[h] # NullBlock
                    /\ votes_for_block(t, h, t.chain[h]) # {}
                    /\ weight_from(t, h, top) >= quorum_threshold(t)
                 THEN <<h, t.chain[h]>>
                 ELSE down[h - 1]
    IN  down[top]

find_quorum(t) ==
    IF DOMAIN t.chain = {} THEN None ELSE find_quorum_from(t, Max(DOMAIN t.chain))

resume_votes(t) == [t EXCEPT !.paused = FALSE]

\* Plausible slips: the whole vote index is cleared; the older blocks stay.
set_finalized_clear(t, h, x) ==
    [t EXCEPT !.chain = [g \in {i \in DOMAIN t.chain : i > h} \cup {h} |->
                            IF g = h THEN x ELSE t.chain[g]],
              !.votes = {}]

set_finalized(t, h, x) ==
    [t EXCEPT !.chain = [g \in {i \in DOMAIN t.chain : i > h} \cup {h} |->
                            IF g = h THEN x ELSE t.chain[g]],
              !.votes = {v \in @ : v[1] > h}]

set_power_table(t, power) == [t EXCEPT !.power = power]

\* A plausible slip: the new power is added to the old one.
update_power_table_add(t, updates) ==
    [t EXCEPT !.power = [k \in VKeys |-> IF k \in DOMAIN updates THEN @[k] + updates[k] ELSE @[k]]]

\* updates: a partial function from keys to new powers; power 0 removes the key.
update_power_table(t, updates) ==
    [t EXCEPT !.power = [k \in VKeys |-> IF k \in DOMAIN updates THEN updates[k] ELSE @[k]]]
=============================================================================
