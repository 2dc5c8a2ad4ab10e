-------------------------- MODULE FinalityProvider --------------------------
(***************************************************************************)
(* The cached parent view (vm/topdown/src/finality and cache.rs) as        *)
(* operators.  A view v is a record:                                       *)
(*   cache  SequentialKeyCache: height -> block hash, NullBlock for a null *)
(*          round.  The payload of a block (its validator changes and      *)
(*          top-down messages) is determined by its hash, so the hash      *)
(*          stands for all three.                                          *)
(*   last   last_committed_finality, <<height, hash>> or None              *)
(***************************************************************************)
EXTENDS Tally

CONSTANTS
    MaxProposalRange,   \* Config::max_proposal_range
    ProposalDelay,      \* Config::proposal_delay
    MaxCacheBlocks      \* Config::max_cache_blocks

ASSUME ConfigAssumption ==
    MaxProposalRange \in Nat \ {0} /\ ProposalDelay \in Nat /\ MaxCacheBlocks \in Nat

lower_bound(c) == Min(DOMAIN c)
upper_bound(c) == Max(DOMAIN c)

\* append: an empty cache takes any key, otherwise only the next one.
can_append(c, h) == DOMAIN c # {} => h = upper_bound(c) + 1

append(c, h, x) == [g \in DOMAIN c \cup {h} |-> IF g = h THEN x ELSE c[g]]

remove_key_below(c, h) == [g \in {i \in DOMAIN c : i >= h} |-> c[g]]

\* FinalityWithNull::new without a committed finality
uninitialized == [cache |-> EmptyMap, last |-> None]

cached_blocks(v) == Cardinality(DOMAIN v.cache)

view_reset(v, f) == [cache |-> EmptyMap, last |-> f]

set_new_finality(v, f) == [cache |-> remove_key_below(v.cache, f[1]), last |-> f]

new_parent_view(v, h, x) == [v EXCEPT !.cache = append(@, h, x)]

latest_height(v) == IF DOMAIN v.cache # {} THEN upper_bound(v.cache) ELSE v.last[1]

\* get_at_height / block_hash_at_height
block_hash_at_height(v, h) ==
    IF v.last # None /\ v.last[1] = h THEN v.last[2]
    ELSE IF h \in DOMAIN v.cache /\ v.cache[h] # NullBlock THEN v.cache[h]
    ELSE None

\* The highest cached block at or below h that is not a null round.
first_non_null_block(v, h) ==
    LET S == {g \in DOMAIN v.cache : g <= h /\ v.cache[g] # NullBlock}
    IN  IF S = {} THEN None ELSE Max(S)

\* A plausible slip: the delay is not applied.
propose_next_height_now(v) ==
    IF DOMAIN v.cache = {} THEN None
    ELSE first_non_null_block(v, Min({v.last[1] + MaxProposalRange, upper_bound(v.cache)}))

propose_next_height(v) ==
    IF DOMAIN v.cache = {} THEN None
    ELSE LET candidate == Min({v.last[1] + MaxProposalRange, upper_bound(v.cache)})
             first == first_non_null_block(v, candidate)
             delayed == IF first = None THEN None ELSE first_non_null_block(v, first - ProposalDelay)
         IN  IF delayed = v.last[1] THEN None ELSE delayed

next_proposal(v) ==
    LET h == propose_next_height(v)
    IN  IF h = None THEN None ELSE <<h, block_hash_at_height(v, h)>>

check_height(v, f) ==
    /\ v.last # None
    /\ v.last[1] < f[1]
    /\ DOMAIN v.cache # {}
    /\ upper_bound(v.cache) >= f[1]

check_proposal(v, f) == check_height(v, f) /\ block_hash_at_height(v, f[1]) = f[2]
=============================================================================
