----------------------------- MODULE VoteTally -----------------------------
(***************************************************************************)
(* One node's vote tally under every order of the calls its users make:    *)
(* the syncer launches it and adds the parent's blocks, gossip and the     *)
(* node's own voting loop add votes, prepare_proposal pauses the votes and *)
(* looks for a quorum, delivering a block finalizes a height and changes   *)
(* the power table.  Votes may come from validators that follow another    *)
(* branch, vote twice, are ahead of this node or have lost their power.    *)
(***************************************************************************)
EXTENDS Tally

CONSTANTS
    MaxHeight,      \* bound: parent heights
    MaxVotes,       \* bound: votes held at a time
    PowerTables,    \* power tables the ledger may hold at launch
    PowerUpdates    \* changes of the power table at the end of a block

Heights == 0..MaxHeight

ASSUME BoundAssumption == MaxHeight \in Nat /\ MaxVotes \in Nat

ASSUME PowerAssumption ==
    /\ PowerTables \subseteq [VKeys -> Nat]
    /\ \A u \in PowerUpdates : DOMAIN u \subseteq VKeys /\ \A k \in DOMAIN u : u[k] \in Nat

VARIABLES
    tally,
    finalized   \* the parent height finalized in the ledger, -1 before the launch

vars == <<tally, finalized>>

Init == tally = empty /\ finalized = -1

\* launch_polling_syncer, once the application can be queried.
Launch(h, x, power) ==
    /\ finalized = -1
    /\ tally' = set_power_table(set_finalized(tally, h, x), power)
    /\ finalized' = h

\* LotusParentSyncer::poll_next, for a block or a null round.
AddBlock(h, x) ==
    /\ can_add_block(tally, h)
    /\ tally' = add_block(tally, h, x)
    /\ UNCHANGED finalized

AddVote(k, h, x) ==
    /\ Cardinality(tally.votes) < MaxVotes
    /\ CanAddVote(tally)
    /\ tally' = add_vote(tally, k, h, x)
    /\ UNCHANGED finalized

\* The two transactions of ChainMessageInterpreter::prepare.
Pause ==
    /\ ~tally.paused
    /\ tally' = pause_votes_until_find_quorum(tally)
    /\ UNCHANGED finalized

FindQuorum ==
    /\ tally.paused
    /\ tally' = resume_votes(tally)
    /\ UNCHANGED finalized

\* Delivering a TopDownExec, also one this node has not seen on the parent.
Finalize(h, x) ==
    /\ finalized # -1
    /\ h > finalized
    /\ tally' = set_finalized(tally, h, x)
    /\ finalized' = h

\* ChainMessageInterpreter::end, also before the launch.
UpdatePower(u) ==
    /\ tally' = update_power_table(tally, u)
    /\ UNCHANGED finalized

Next ==
    \/ \E h \in Heights, x \in Hashes, p \in PowerTables : Launch(h, x, p)
    \/ \E h \in Heights, x \in Hashes \cup {NullBlock} : AddBlock(h, x)
    \/ \E k \in VKeys, h \in Heights, x \in Hashes : AddVote(k, h, x)
    \/ Pause
    \/ FindQuorum
    \/ \E h \in Heights, x \in Hashes : Finalize(h, x)
    \/ \E u \in PowerUpdates : UpdatePower(u)

Spec == Init /\ [][Next]_vars

----------------------------------------------------------------------------
\* No validator is counted for two blocks of one height: add_vote refuses an
\* equivocation even for heights this node has not reached.
OneVotePerHeight ==
    \A h \in Heights, x, y \in Hashes, k \in VKeys :
        <<h, x, k>> \in tally.votes /\ <<h, y, k>> \in tally.votes => x = y

\* Reference definition: who stands behind the block at h on this node's chain.
Backers(h) ==
    {k \in VKeys : \E g \in DOMAIN tally.chain :
        g >= h /\ tally.chain[g] # NullBlock /\ <<g, tally.chain[g], k>> \in tally.votes}

\* find_quorum returns the highest block above the finalized one that validators
\* with a quorum of the current power have voted for, directly or through a
\* descendant, each counted once, and nothing when there is none.
FindQuorumIsHighest ==
    LET Q == {h \in DOMAIN tally.chain :
                 /\ h > finalized
                 /\ tally.chain[h] # NullBlock
                 /\ Weight(tally, Backers(h)) >= quorum_threshold(tally)}
    IN  find_quorum(tally) = IF Q = {} THEN None ELSE <<Max(Q), tally.chain[Max(Q)]>>

\* While the powers stay, a quorum that was found is never lost before its height
\* is finalized: neither later blocks, later votes nor finalizing an earlier
\* height can take it away.
QuorumPersists ==
    [][LET q == find_quorum(tally) IN
         (q # None /\ tally'.power = tally.power /\ finalized' < q[1]) =>
            /\ find_quorum(tally') # None
            /\ find_quorum(tally')[1] >= q[1]]_vars
=============================================================================
