------------------------------- MODULE Cetf -------------------------------
(***************************************************************************)
(* The key-release protocol of Delorean: contracts enqueue tags in the     *)
(* CETF actor, validators sign the scheduled tag in the vote extension of  *)
(* their precommits, the next proposer aggregates the signatures of its    *)
(* local last commit into the block, and executing that block writes the   *)
(* aggregate back to the actor.                                            *)
(*                                                                         *)
(* One block height h = block_height + 1 goes through three steps:         *)
(*   "propose"  PrepareProposal(h), from the precommits of height h - 1;   *)
(*   "vote"     ExtendVote(h) and VerifyVoteExtension(h), which read the   *)
(*              committed state of block h - 1 and sign the tag scheduled  *)
(*              for h + 1;                                                 *)
(*   "deliver"  FinalizeBlock(h): begin, every transaction, end.           *)
(*                                                                         *)
(* Abstractions.  All nodes execute the same blocks from the same          *)
(* committed state, so the actor state is kept once.  A signature is the   *)
(* pair of the key and the message it signs, an aggregate the set of its   *)
(* parts; Keccak256(caller || data) is the pair itself (no collisions).    *)
(* A round that does not decide changes no application state and is left   *)
(* out; its effect on the proposal is the choice of the local last commit. *)
(***************************************************************************)
EXTENDS Naturals, FiniteSets

CONSTANTS
    Validators,     \* the CometBFT validator set (static, as the actor assumes)
    Quorums,        \* sets of validators whose precommits make a commit
    Ctx,            \* validators whose node has a validator context (signing keys)
    Misregistering, \* validators that may register a key their node does not sign with
    Keys,           \* BLS public keys
    LocalKey,       \* the BLS key each node is configured with
    Callers,        \* contracts calling the actor
    Datas,          \* the 32-byte tags contracts pass to enqueue_tag
    NoTag, NoKey,   \* absent entries of the actor's maps
    MaxHeight,      \* bound: blocks executed
    MaxTxs,         \* bound: user transactions executed per block
    MaxIpcMsgs,     \* messages the chain interpreter can put before the CETF message
    BlockMaxMsgs    \* settings.abci.block_max_msgs

Tags == Callers \X Datas
Sigs == Keys \X Tags                    \* a BLS signature over a tag
HeightSigs == Keys \X (0..MaxHeight + 2) \* a BLS signature over a height
Heights == 0..MaxHeight + 2

ASSUME ValidatorAssumption ==
    /\ Ctx \subseteq Validators
    /\ Misregistering \subseteq Validators
    /\ LocalKey \in [Validators -> Keys]
    /\ \A v, w \in Validators : LocalKey[v] = LocalKey[w] => v = w
    /\ NoKey \notin Keys

\* Every commit has the vote of a node that can sign.
ASSUME QuorumAssumption ==
    /\ Quorums \subseteq SUBSET Validators
    /\ \A Q \in Quorums : Q \cap Ctx # {}

ASSUME TagAssumption == NoTag \notin Tags

ASSUME BoundAssumption ==
    /\ MaxHeight \in Nat /\ MaxTxs \in Nat
    /\ MaxIpcMsgs \in Nat /\ BlockMaxMsgs \in Nat

\* A block has room for the CETF message after the ipc messages.
ASSUME RoomAssumption == MaxIpcMsgs < BlockMaxMsgs

VARIABLES
    tag_map,            \* actor: height -> tag to be signed for it
    validators,         \* actor: validator -> registered BLS key
    enabled,            \* actor: every validator has registered
    signed_hashed_tags, \* actor: tag -> aggregate signature ({} is absent)
    block_height,       \* AppState.block_height, the last committed block
    step,               \* where the block block_height + 1 is in its life
    cetf_tx,            \* aggregate in the proposal's CetfTag message ({}: no message)
    txs,                \* user transactions the block has executed so far
    voted, ext,         \* precommits of this height and their vote extensions
    last_ext, last_ok,  \* those of the last height, and which of them each node accepted
    queued              \* history: <<tag, height>> of every enqueue that stored its tag

actor == <<tag_map, validators, enabled, signed_hashed_tags>>
votes == <<voted, ext>>
last  == <<last_ext, last_ok>>
vars  == <<actor, block_height, step, cetf_tx, txs, votes, last, queued>>

Extensions == [cetf : SUBSET Sigs, height : SUBSET HeightSigs]
EmptyExtension == [cetf |-> {}, height |-> {}]

-----------------------------------------------------------------------------
\* Genesis: the constructed actor, no votes yet.
Init ==
    /\ tag_map = [h \in Heights |-> NoTag]
    /\ validators = [v \in Validators |-> NoKey]
    /\ enabled = FALSE
    /\ signed_hashed_tags = [t \in Tags |-> {}]
    /\ block_height = 0
    /\ step = "propose"
    /\ cetf_tx = {}
    /\ txs = 0
    /\ voted = {}
    /\ ext = [v \in Validators |-> EmptyExtension]
    /\ last_ext = [v \in Validators |-> EmptyExtension]
    /\ last_ok = [p \in Validators |-> {}]
    /\ queued = {}

-----------------------------------------------------------------------------
\* App::prepare_proposal at p: aggregate the Cetf signatures of the local last
\* commit S, put the message after the ipc messages of the chain interpreter and
\* truncate the proposal to block_max_msgs.  At the first height there is no
\* last commit.
\* (fault: only one vote's signature is taken)
aggregate_one(S) == IF S = {} THEN {} ELSE last_ext[CHOOSE v \in S : TRUE].cetf

aggregate(S) == UNION {last_ext[v].cetf : v \in S}

LocalLastCommits(p) ==
    IF block_height = 0 THEN {{}} ELSE {S \in Quorums : S \subseteq last_ok[p]}

\* (fault: the truncation is off by one)
PrepareProposalTruncated(p) ==
    /\ step = "propose"
    /\ block_height < MaxHeight
    /\ \E S \in LocalLastCommits(p), ipc \in 0..MaxIpcMsgs :
          cetf_tx' = IF ipc + 1 < BlockMaxMsgs THEN aggregate(S) ELSE {}
    /\ step' = "vote"
    /\ UNCHANGED <<actor, block_height, txs, votes, last, queued>>

PrepareProposal(p) ==
    /\ step = "propose"
    /\ block_height < MaxHeight
    /\ \E S \in LocalLastCommits(p), ipc \in 0..MaxIpcMsgs :
          cetf_tx' = IF ipc < BlockMaxMsgs THEN aggregate(S) ELSE {}
    /\ step' = "vote"
    /\ UNCHANGED <<actor, block_height, txs, votes, last, queued>>

\* get_tag_at_height(block_height + 2) in the committed state.
\* (fault: the tag of the block being voted on)
fvm_tags_height_current == block_height + 1

fvm_tags_height == block_height + 2

Extension(v) ==
    IF ~enabled \/ v \notin Ctx
      THEN EmptyExtension
      ELSE [cetf   |-> IF tag_map[fvm_tags_height] = NoTag THEN {}
                       ELSE {<<LocalKey[v], tag_map[fvm_tags_height]>>},
            height |-> {<<LocalKey[v], fvm_tags_height>>}]

\* App::extend_vote and FvmMessageInterpreter::extend_vote on v's node.
ExtendVote(v) ==
    /\ step = "vote"
    /\ v \notin voted
    /\ voted' = voted \cup {v}
    /\ ext' = [ext EXCEPT ![v] = Extension(v)]
    /\ UNCHANGED <<actor, block_height, step, cetf_tx, txs, last, queued>>

\* A signature verifies under the registered key of its validator.
verify_messages(v, sigs, msg) == \A s \in sigs : s = <<validators[v], msg>>

\* App::verify_vote_extension: p's answer to v's vote extension.
verify_vote_extension(p, v) ==
    \/ ext[v] = EmptyExtension
    \/ /\ ext[v].cetf # {} => tag_map[fvm_tags_height] # NoTag
       /\ p \in Ctx =>
             /\ enabled
             /\ validators[v] # NoKey
             /\ verify_messages(v, ext[v].cetf, tag_map[fvm_tags_height])
             /\ verify_messages(v, ext[v].height, fvm_tags_height)

Accepted(p) == {v \in voted : verify_vote_extension(p, v)}

\* FvmMessageInterpreter::begin enables the actor once every key of the power
\* table is registered.
\* (fault: any registered key will do)
to_enable_any == \E v \in Validators : validators[v] # NoKey
\* (fault: iterates over the keys instead of the power table)
to_enable_keys == \A k \in Keys : \E v \in Validators : validators[v] = k

to_enable == \A v \in Validators : validators[v] # NoKey

\* CometBFT decides the block at some node, which starts App::finalize_block.
BeginBlock(p) ==
    /\ step = "vote"
    /\ Accepted(p) \in Quorums
    /\ step' = "deliver_cetf"
    /\ enabled' = (enabled \/ to_enable)
    /\ last_ext' = ext
    /\ last_ok' = [q \in Validators |-> Accepted(q)]
    /\ voted' = {}
    /\ ext' = [v \in Validators |-> EmptyExtension]
    /\ txs' = 0
    /\ UNCHANGED <<tag_map, validators, signed_hashed_tags, block_height, cetf_tx, queued>>

\* Deliver CetfMessage::CetfTag(request.height, aggregate) as an implicit
\* message of the system actor: Actor::add_signed_tag.  It fails, leaving the
\* state alone, when no tag is stored at that height.
\* (fault: the tag is looked up one height too high)
AddSignedTagNext ==
    /\ step = "deliver_cetf"
    /\ step' = "deliver"
    /\ LET tag == tag_map[block_height + 2] IN
          signed_hashed_tags' =
             IF cetf_tx = {} \/ tag = NoTag
               THEN signed_hashed_tags
               ELSE [signed_hashed_tags EXCEPT ![tag] = cetf_tx]
    /\ UNCHANGED <<tag_map, validators, enabled, block_height, cetf_tx, txs, votes, last, queued>>

AddSignedTag ==
    /\ step = "deliver_cetf"
    /\ step' = "deliver"
    /\ LET tag == tag_map[block_height + 1] IN
          signed_hashed_tags' =
             IF cetf_tx = {} \/ tag = NoTag
               THEN signed_hashed_tags
               ELSE [signed_hashed_tags EXCEPT ![tag] = cetf_tx]
    /\ UNCHANGED <<tag_map, validators, enabled, block_height, cetf_tx, txs, votes, last, queued>>

Deliver ==
    /\ step = "deliver"
    /\ txs < MaxTxs
    /\ txs' = txs + 1

\* Actor::enqueue_tag, called by contract c in the block being executed.
\* (faults: one epoch early, one epoch late)
scheduled_epoch_early == block_height + 1 + 1
scheduled_epoch_late == block_height + 1 + 3

scheduled_epoch == block_height + 1 + 2

EnqueueTag(c, d) ==
    /\ Deliver
    /\ IF enabled
         THEN /\ tag_map' = [tag_map EXCEPT ![scheduled_epoch] = <<c, d>>]
              /\ queued' = queued \cup {<<<<c, d>>, scheduled_epoch>>}
         ELSE UNCHANGED <<tag_map, queued>>
    /\ UNCHANGED <<validators, enabled, signed_hashed_tags, block_height, step, cetf_tx, votes, last>>

\* Actor::add_validator overwrites the registered key.
AddValidator(v, k) ==
    /\ Deliver
    /\ k = LocalKey[v] \/ v \in Misregistering
    /\ validators' = [validators EXCEPT ![v] = k]
    /\ UNCHANGED <<tag_map, enabled, signed_hashed_tags, block_height, step, cetf_tx, votes, last, queued>>

\* The end of App::finalize_block: the execution state becomes the committed one.
EndBlock ==
    /\ step = "deliver"
    /\ step' = "propose"
    /\ block_height' = block_height + 1
    /\ cetf_tx' = {}
    /\ txs' = 0
    /\ UNCHANGED <<actor, votes, last, queued>>

\* The bounded run is over.
Finished == step = "propose" /\ block_height = MaxHeight /\ UNCHANGED vars

Next ==
    \/ \E p \in Validators : PrepareProposal(p) \/ BeginBlock(p)
    \/ \E v \in Validators : ExtendVote(v)
    \/ AddSignedTag
    \/ \E c \in Callers, d \in Datas : EnqueueTag(c, d)
    \/ \E v \in Validators, k \in Keys : AddValidator(v, k)
    \/ EndBlock
    \/ Finished

Spec == Init /\ [][Next]_vars

\* CometBFT keeps producing blocks: correct validators vote, some round decides
\* and a decided block is executed to its end.
Fairness ==
    /\ WF_vars(\E p \in Validators : PrepareProposal(p))
    /\ WF_vars(\E p \in Validators : BeginBlock(p))
    /\ \A v \in Validators : WF_vars(ExtendVote(v))
    /\ WF_vars(AddSignedTag)
    /\ WF_vars(EndBlock)

FairSpec == Spec /\ Fairness

-----------------------------------------------------------------------------
(***************************************************************************)
(* Properties                                                              *)
(***************************************************************************)

\* Every variable keeps the shape the code gives it.
TypeOK ==
    /\ tag_map \in [Heights -> Tags \cup {NoTag}]
    /\ validators \in [Validators -> Keys \cup {NoKey}]
    /\ enabled \in BOOLEAN
    /\ signed_hashed_tags \in [Tags -> SUBSET Sigs]
    /\ block_height \in 0..MaxHeight
    /\ step \in {"propose", "vote", "deliver_cetf", "deliver"}
    /\ step # "propose" => block_height < MaxHeight
    /\ cetf_tx \in SUBSET Sigs
    /\ txs \in 0..MaxTxs
    /\ voted \in SUBSET Validators
    /\ ext \in [Validators -> Extensions]
    /\ last_ext \in [Validators -> Extensions]
    /\ last_ok \in [Validators -> SUBSET Validators]
    /\ queued \in SUBSET (Tags \X Heights)

\* The aggregate stored for a tag has signatures over that very tag and no
\* other: the height a validator signs for (extend_vote), the height the
\* proposer names (prepare_proposal) and the height the actor looks the tag up
\* at (add_signed_tag) agree although they run against three different states.
AggregateSignsItsTag ==
    \A t \in Tags : \A s \in signed_hashed_tags[t] : s[2] = t

\* A key is released only for a tag that its own contract enqueued, at the
\* height it was scheduled for and not before.
ReleasedOnRequest ==
    \A t \in Tags : signed_hashed_tags[t] # {} =>
       \E h \in 0..(block_height + 1) : <<t, h>> \in queued

\* Whoever released a key was a quorum: up to nodes without signing keys, the
\* signers of a stored aggregate make up a commit.
signers(t) == {v \in Validators : <<LocalKey[v], t>> \in signed_hashed_tags[t]}

ReleasedByQuorum ==
    \A t \in Tags : signed_hashed_tags[t] # {} =>
       \E Q \in Quorums : Q \cap Ctx \subseteq signers(t)

\* Once the block of a scheduled tag has been executed the tag is signed: a
\* schedule entry is never skipped.  Needs room for the CETF message in a block.
NoTagLeftBehind ==
    \A h \in Heights :
       /\ h <= block_height
       /\ tag_map[h] # NoTag
       => signed_hashed_tags[tag_map[h]] # {}

\* verify_vote_extension unwraps the registered key of the voter: while the
\* actor is enabled every validator has one.
EnabledImpliesRegistered ==
    enabled => \A v \in Validators : validators[v] # NoKey

\* The entry validators are asked to sign, and all entries before it, are never
\* rewritten: enqueue_tag only touches a height nobody has voted on yet.
ScheduleFrozen ==
    [][\A h \in Heights : h <= block_height + 2 => tag_map'[h] = tag_map[h]]_vars

\* A tag whose entry survives its block is eventually signed, as long as blocks
\* keep being produced.
ScheduledTagsReleased ==
    \A h \in 0..MaxHeight, t \in Tags :
       (h <= block_height + 2 /\ tag_map[h] = t) ~> (signed_hashed_tags[t] # {})

\* Once all validators have registered, the next block enables the actor.
RegisteredIsEnabled ==
    /\ block_height + 1 < MaxHeight
    /\ \A v \in Validators : validators[v] # NoKey
    ~> enabled

\* Repository README: "Once a tag is added to the queue the validators MUST
\* include a signature over it in their next vote".  Two tags enqueued in one
\* block share a schedule entry, and only the second is kept.
EveryQueuedTagReleased ==
    \A q \in queued : q[2] <= block_height => signed_hashed_tags[q[1]] # {}
=============================================================================
