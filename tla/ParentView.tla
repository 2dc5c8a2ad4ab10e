----------------------------- MODULE ParentView -----------------------------
(***************************************************************************)
(* How one node follows its parent chain.  Four activities share the       *)
(* cached view and the vote tally through STM transactions:                *)
(*   - the parent extends its chain, with null rounds, and may reorganise; *)
(*   - the syncer task launches the view from the committed state and then *)
(*     polls the parent, one remote call at a time;                        *)
(*   - the consensus task delivers TopDownExec messages, which execute the *)
(*     parent's effects and move the finality;                             *)
(*   - the node may crash: only the committed application state survives.  *)
(* Between any two of the syncer's remote calls the other tasks may run,   *)
(* so everything it remembers across a call (head, at, prev_hash, got,     *)
(* start) may be out of date when it is used.                              *)
(*                                                                         *)
(* A block hash is <<height, fork>>: a reorganisation numbers the blocks   *)
(* it brings with a new fork.  `link` remembers the parent of every block. *)
(***************************************************************************)
EXTENDS FinalityProvider, Sequences

CONSTANTS
    GenesisEpoch,       \* parent height at which the subnet was created
    ChainHeadDelay,     \* Config::chain_head_delay
    MaxHeight,          \* bound: parent heights
    MaxForks,           \* bound: reorganisations + 1
    ReorgDepth,         \* how far below the final height a reorganisation may reach
    InitialPower,       \* the power table of the genesis block
    PowerUpdates,       \* changes of the power table at the end of a block
    Unseen              \* the network may decide blocks without this node's vote: before
                        \* its syncer has launched, or on finalities it has not seen

Heights == 1..MaxHeight
Forks == 1..MaxForks

ASSUME ParentAssumption ==
    /\ Hashes = Heights \X Forks
    /\ GenesisEpoch \in Heights /\ ChainHeadDelay \in Nat /\ MaxForks \in Nat \ {0}
    /\ ReorgDepth \in Nat /\ Unseen \in BOOLEAN

\* The subtraction in propose_next_height does not wrap around.
ASSUME DelayAssumption == ProposalDelay <= GenesisEpoch + 1

ASSUME PowerAssumption ==
    /\ InitialPower \in [VKeys -> Nat]
    /\ \A u \in PowerUpdates : DOMAIN u \subseteq VKeys /\ \A k \in DOMAIN u : u[k] \in Nat

VARIABLES
    parent,     \* the parent chain: height -> hash or NullBlock
    fork,       \* the current fork number
    final,      \* the highest height that has been ChainHeadDelay below the head
    link,       \* <<block, its parent block>> for every block ever produced
    view,       \* the cached finality provider
    tally,      \* the vote tally
    pc,         \* the syncer task
    head, at, prev_hash, got, start, start_power,   \* its local variables
    ledger,     \* the state being executed: finality, executed effects, power table
    committed,  \* the last committed state
    step,       \* the consensus task
    prev        \* the finality commit_parent_finality returned

parentVars == <<parent, fork, final, link>>
syncVars == <<pc, head, at, prev_hash, got, start, start_power>>
appVars == <<ledger, committed, step, prev>>
vars == <<parentVars, view, tally, syncVars, appVars>>

ParentHead == Len(parent)

\* The block a block at height h builds on.
PrevBlock(h) == parent[Max({g \in 1..h - 1 : parent[g] # NullBlock})]

\* Forget the locals that the next remote call does not use.
Idle ==
    /\ pc' = "idle"
    /\ head' = 0 /\ at' = 0 /\ prev_hash' = None /\ got' = None
    /\ start' = None /\ start_power' = None

Init ==
    /\ parent = [h \in 1..GenesisEpoch |-> <<h, 1>>]
    /\ fork = 1
    /\ final = 0
    /\ link = {<<<<h + 1, 1>>, <<h, 1>>>> : h \in 1..GenesisEpoch - 1}
    /\ view = uninitialized
    /\ tally = empty
    /\ pc = "launch_finality"
    /\ head = 0 /\ at = 0 /\ prev_hash = None /\ got = None
    /\ start = None /\ start_power = None
    /\ ledger = [fin |-> None, done |-> <<>>, power |-> InitialPower]
    /\ committed = ledger
    /\ step = "idle" /\ prev = None

----------------------------------------------------------------------------
\* The parent chain (outside this repository's node).

NewFinal(n) == Max({final, n - ChainHeadDelay})

ParentBlock ==
    /\ ParentHead < MaxHeight
    /\ LET h == ParentHead + 1 IN
       /\ parent' = Append(parent, <<h, fork>>)
       /\ link' = link \cup {<<<<h, fork>>, PrevBlock(h)>>}
       /\ final' = NewFinal(h)
    /\ UNCHANGED <<fork, view, tally, syncVars, appVars>>

ParentNullRound ==
    /\ ParentHead < MaxHeight
    /\ parent' = Append(parent, NullBlock)
    /\ final' = NewFinal(ParentHead + 1)
    /\ UNCHANGED <<fork, link, view, tally, syncVars, appVars>>

ParentReorg(n) ==
    /\ fork < MaxForks
    /\ n >= GenesisEpoch /\ n >= final - ReorgDepth /\ n < ParentHead
    /\ parent' = SubSeq(parent, 1, n)
    /\ fork' = fork + 1
    /\ UNCHANGED <<final, link, view, tally, syncVars, appVars>>

----------------------------------------------------------------------------
\* The syncer task.

\* query_starting_finality: the committed finality, or the genesis epoch's block.
StartingFinality ==
    IF committed.fin = None THEN <<GenesisEpoch, parent[GenesisEpoch]>> ELSE committed.fin

\* launch_polling_syncer, its two queries and its transaction.
LaunchFinality ==
    /\ pc = "launch_finality"
    /\ start' = StartingFinality
    /\ pc' = "launch_power"
    /\ UNCHANGED <<parentVars, view, tally, head, at, prev_hash, got, start_power, appVars>>

LaunchPower ==
    /\ pc = "launch_power"
    /\ start_power' = committed.power
    /\ pc' = "launch_set"
    /\ UNCHANGED <<parentVars, view, tally, head, at, prev_hash, got, start, appVars>>

LaunchSet ==
    /\ pc = "launch_set"
    /\ view' = set_new_finality(view, start)
    /\ tally' = set_power_table(set_finalized(tally, start[1], start[2]), start_power)
    /\ Idle
    /\ UNCHANGED <<parentVars, appVars>>

\* A plausible slip: the head itself is taken for final.
finalized_chain_head_now == ParentHead

finalized_chain_head == ParentHead - ChainHeadDelay

\* The start of sync.  Nothing to do below the delay.
SyncHead ==
    /\ pc = "idle"
    /\ ParentHead >= ChainHeadDelay
    /\ head' = finalized_chain_head
    /\ pc' = "latest"
    /\ UNCHANGED <<parentVars, view, tally, at, prev_hash, got, start, start_power, appVars>>

\* latest_cached_data, and the comparisons with the head.
LatestCachedData ==
    /\ pc = "latest"
    /\ LET latest == latest_height(view)
           cached == first_non_null_block(view, latest)
           height == IF cached = None THEN view.last[1] ELSE cached
       IN  \/ /\ latest > head
              /\ pc' = "reset"
              /\ UNCHANGED <<head, at, prev_hash, got, start, start_power>>
           \/ /\ latest = head
              /\ Idle
           \/ /\ latest < head
              /\ pc' = "poll"
              /\ at' = latest
              /\ prev_hash' = block_hash_at_height(view, height)
              /\ UNCHANGED <<head, got, start, start_power>>
    /\ UNCHANGED <<parentVars, view, tally, appVars>>

\* A plausible slip: the block is taken without comparing parent hashes.
LinksTo_any(h) == TRUE

LinksTo(h) == PrevBlock(h) = prev_hash

exceed_cache_size_limit == cached_blocks(view) > MaxCacheBlocks

\* The head of the loop in sync and the first remote call of poll_next: the
\* cache is full, the height is unknown to the parent, a null round, a block
\* that does not extend the previous one, or the next block.
PollHash ==
    /\ pc = "poll"
    /\ LET h == at + 1 IN
       \/ /\ exceed_cache_size_limit \/ h > ParentHead
          /\ Idle
       \/ /\ ~exceed_cache_size_limit /\ h <= ParentHead
          /\ parent[h] = NullBlock
          /\ got' = NullBlock /\ pc' = "append"
          /\ UNCHANGED <<head, at, prev_hash, start, start_power>>
       \/ /\ ~exceed_cache_size_limit /\ h <= ParentHead
          /\ parent[h] # NullBlock
          /\ ~LinksTo(h)
          /\ pc' = "reset"
          /\ UNCHANGED <<head, at, prev_hash, got, start, start_power>>
       \/ /\ ~exceed_cache_size_limit /\ h <= ParentHead
          /\ parent[h] # NullBlock
          /\ LinksTo(h)
          /\ got' = parent[h] /\ pc' = "fetch"
          /\ UNCHANGED <<head, at, prev_hash, start, start_power>>
    /\ UNCHANGED <<parentVars, view, tally, appVars>>

\* fetch_data: the events must be those of the block just seen.
FetchData ==
    /\ pc = "fetch"
    /\ LET h == at + 1 IN
       \/ /\ h <= ParentHead => parent[h] = NullBlock
          /\ Idle
       \/ /\ h <= ParentHead /\ parent[h] # NullBlock /\ parent[h] # got
          /\ pc' = "reset"
          /\ UNCHANGED <<head, at, prev_hash, got, start, start_power>>
       \/ /\ h <= ParentHead /\ parent[h] = got
          /\ pc' = "append"
          /\ UNCHANGED <<head, at, prev_hash, got, start, start_power>>
    /\ UNCHANGED <<parentVars, view, tally, appVars>>

\* Plausible slips: the tally's verdict is ignored; a null round is not counted.
CanExtend_view(h) == can_append(view.cache, h)
TallyWith_blocks(h, x) == IF x = NullBlock THEN tally ELSE add_block(tally, h, x)

\* Both appends must succeed, otherwise the transaction is rolled back.
CanExtend(h) == can_append(view.cache, h) /\ can_add_block(tally, h)
TallyWith(h, x) == add_block(tally, h, x)

\* The transaction that extends the view and the tally together, or neither.
AppendBlock ==
    /\ pc = "append"
    /\ LET h == at + 1 IN
       \/ /\ ~CanExtend(h)
          /\ Idle
          /\ UNCHANGED <<view, tally>>
       \/ /\ CanExtend(h)
          /\ view' = new_parent_view(view, h, got)
          /\ tally' = TallyWith(h, got)
          /\ IF h = head THEN Idle
             ELSE /\ pc' = "poll"
                  /\ at' = h
                  /\ prev_hash' = IF got = NullBlock THEN prev_hash ELSE got
                  /\ got' = None
                  /\ UNCHANGED <<head, start, start_power>>
    /\ UNCHANGED <<parentVars, appVars>>

\* LotusParentSyncer::reset, its query and its transaction.
ResetQuery ==
    /\ pc = "reset"
    /\ start' = StartingFinality
    /\ pc' = "reset_set"
    /\ head' = 0 /\ at' = 0 /\ prev_hash' = None /\ got' = None
    /\ UNCHANGED <<parentVars, view, tally, start_power, appVars>>

ResetSet ==
    /\ pc = "reset_set"
    /\ view' = view_reset(view, start)
    /\ Idle
    /\ UNCHANGED <<parentVars, tally, appVars>>

----------------------------------------------------------------------------
\* The consensus task: one block with or without a TopDownExec.

Launched == pc \notin {"launch_finality", "launch_power", "launch_set"}

\* The height execution continues from: the previous finality or the genesis epoch.
PrevHeight(f) == IF f = None THEN GenesisEpoch ELSE f[1]

\* topdown::commit_finality of a block the network has decided.  The rest of the
\* network may know blocks this node has not polled yet, but only blocks that are
\* final on the parent; a sole validator decides only what process accepts.
CommitFinality(h) ==
    /\ step = "idle"
    /\ h > PrevHeight(ledger.fin) /\ h <= final /\ h <= ParentHead
    /\ parent[h] # NullBlock
    /\ ~Unseen => check_proposal(view, <<h, parent[h]>>)
    /\ prev' = ledger.fin
    /\ ledger' = [ledger EXCEPT !.fin = <<h, parent[h]>>]
    /\ step' = "exec"
    /\ UNCHANGED <<parentVars, view, tally, syncVars, committed>>

\* top_down_msgs and validator_changes at a height: the cache, else the parent.
EffectsAt(h) == IF h \in DOMAIN view.cache THEN view.cache[h] ELSE parent[h]

\* A plausible slip: the effects of the finalized block itself are executed too.
execution_range_inclusive(f, p) == <<PrevHeight(p), f[1]>>

execution_range(f, p) == <<PrevHeight(p), f[1] - 1>>

\* The effects of the parent blocks since the previous finality.
Execute ==
    /\ step = "exec"
    /\ LET r == execution_range(ledger.fin, prev) IN
       /\ r[2] <= ParentHead
       /\ ledger' = [ledger EXCEPT !.done = @ \o [i \in 1..r[2] - r[1] + 1 |->
                                        <<r[1] + i - 1, EffectsAt(r[1] + i - 1)>>]]
    /\ step' = "set"
    /\ UNCHANGED <<parentVars, view, tally, syncVars, committed, prev>>

SetNewFinality ==
    /\ step = "set"
    /\ view' = set_new_finality(view, ledger.fin)
    /\ tally' = set_finalized(tally, ledger.fin[1], ledger.fin[2])
    /\ step' = "end" /\ prev' = None
    /\ UNCHANGED <<parentVars, syncVars, ledger, committed>>

\* ChainMessageInterpreter::end with a change of the power table, in a block
\* with or without a TopDownExec.
EndBlock(u) ==
    /\ step = "end" \/ (step = "idle" /\ (Launched \/ Unseen))
    /\ ledger' = [ledger EXCEPT !.power = [k \in VKeys |-> IF k \in DOMAIN u THEN u[k] ELSE @[k]]]
    /\ tally' = update_power_table(tally, u)
    /\ step' = "commit"
    /\ UNCHANGED <<parentVars, view, syncVars, committed, prev>>

EndBlockUnchanged ==
    /\ step = "end"
    /\ step' = "commit"
    /\ UNCHANGED <<parentVars, view, tally, syncVars, ledger, committed, prev>>

Commit ==
    /\ step = "commit"
    /\ committed' = ledger
    /\ step' = "idle"
    /\ UNCHANGED <<parentVars, view, tally, syncVars, ledger, prev>>

\* The process ends; memory is lost and the committed state is loaded again.
Crash ==
    /\ view' = uninitialized
    /\ tally' = empty
    /\ pc' = "launch_finality"
    /\ head' = 0 /\ at' = 0 /\ prev_hash' = None /\ got' = None
    /\ start' = None /\ start_power' = None
    /\ ledger' = committed
    /\ step' = "idle" /\ prev' = None
    /\ UNCHANGED <<parentVars, committed>>

Sync ==
    \/ LaunchFinality \/ LaunchPower \/ LaunchSet
    \/ SyncHead \/ LatestCachedData \/ PollHash \/ FetchData \/ AppendBlock
    \/ ResetQuery \/ ResetSet

Deliver ==
    \/ Execute \/ SetNewFinality \/ EndBlockUnchanged \/ Commit

Next ==
    \/ ParentBlock \/ ParentNullRound
    \/ \E n \in Heights : ParentReorg(n)
    \/ Sync
    \/ Deliver
    \/ \E h \in Heights : CommitFinality(h)
    \/ \E u \in PowerUpdates : EndBlock(u)

CrashNext == Next \/ Crash

Spec == Init /\ [][Next]_vars
CrashSpec == Init /\ [][CrashNext]_vars
FairSpec == Spec /\ WF_vars(Sync) /\ WF_vars(Deliver)

----------------------------------------------------------------------------
Finality == Heights \X Hashes

\* The cached blocks are one hash chain: the syncer never stores a block next to
\* one of another branch, whatever happened between its remote calls.
CacheIsAChain ==
    \A g, h \in DOMAIN view.cache :
        (/\ g < h /\ view.cache[g] # NullBlock /\ view.cache[h] # NullBlock
         /\ \A i \in g + 1..h - 1 : view.cache[i] = NullBlock)
        => <<view.cache[h], view.cache[g]>> \in link

\* The cache has no holes, starts at or above the view's finality and, in every
\* transaction that extends it, moves in step with the tally.
CacheContiguous ==
    DOMAIN view.cache # {} =>
        /\ DOMAIN view.cache = lower_bound(view.cache)..upper_bound(view.cache)
        /\ lower_bound(view.cache) >= view.last[1]

\* Executing the finalities one after the other executes the effects of every
\* parent height since the genesis epoch exactly once and in order, up to the
\* block before the finality, across crashes and cache resets.
ExecutedOnce ==
    step \notin {"exec"} =>
        /\ Len(ledger.done) = PrevHeight(ledger.fin) - GenesisEpoch
        /\ \A i \in 1..Len(ledger.done) : ledger.done[i][1] = GenesisEpoch + i - 1

\* While the parent keeps what is final, the effects executed are those of the
\* parent's chain: none comes from a block that was reorganised away.
ExecutedFinal ==
    \A i \in 1..Len(ledger.done) : ledger.done[i][2] = parent[ledger.done[i][1]]

\* What the node would propose or accept next is above what the ledger has
\* finalized, also while a late launch or reset has set the view back.
ProposalIsNew ==
    Launched /\ step \notin {"exec", "set"} =>
        /\ next_proposal(view) # None => next_proposal(view)[1] > PrevHeight(ledger.fin)
        /\ \A f \in Finality : check_proposal(view, f) => f[1] > PrevHeight(ledger.fin)

\* A node accepts what it would propose itself: the proposal is a block it has
\* seen, not a null round, deep enough and within the range limit.
OwnProposalAccepted ==
    Launched /\ next_proposal(view) # None =>
        /\ check_proposal(view, next_proposal(view))
        /\ next_proposal(view)[1] <= view.last[1] + MaxProposalRange
        /\ \E h \in DOMAIN view.cache :
              h >= next_proposal(view)[1] + ProposalDelay /\ view.cache[h] # NullBlock

\* The view and the tally agree on how far the parent has been followed, so the
\* syncer's next block fits both.
ViewInSync == Launched => latest_height(view) = tally_latest_height(tally)

\* What the comment on the tally's power table says: it holds the current weights
\* once a block is committed and the syncer has launched.
PowerIsCurrent == Launched /\ step = "idle" => tally.power = ledger.power

\* The syncer always catches up with the final part of the parent again, unless
\* the cache is full.
CatchesUp ==
    []<>(Launched /\ (\/ latest_height(view) >= finalized_chain_head
                       \/ exceed_cache_size_limit))
=============================================================================
