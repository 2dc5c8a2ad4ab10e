---------------------------- MODULE CetfProofs ----------------------------
(***************************************************************************)
(* The key-release protocol, for every validator set, quorum system and    *)
(* number of blocks.  The inductive invariant IInv follows a tag through   *)
(* the pipeline: the schedule entry (Schedule), the extension that signs   *)
(* it (Extended, LastExtended), the proposal that aggregates the           *)
(* signatures (Proposed), the actor entry that stores them (Stored).       *)
(***************************************************************************)
EXTENDS Cetf, TLAPS

\* Entries are written for the block after next and only once the actor is
\* enabled, and each was asked for by its contract.
Schedule ==
    \A h \in Heights : tag_map[h] # NoTag =>
       /\ enabled
       /\ 3 <= h
       /\ h <= block_height + (IF step = "deliver" THEN 3 ELSE 2)
       /\ <<tag_map[h], h>> \in queued

\* While votes are collected, a precommit carries what its node computes from
\* the committed state.
Extended ==
    /\ step # "vote" => voted = {}
    /\ \A v \in Validators : ext[v] = IF v \in voted THEN Extension(v) ELSE EmptyExtension

\* The height of the tag that the extensions in last_ext are about: they belong to
\* the block being executed, or to the last one executed.
last_tags_height == block_height + (IF step \in {"deliver_cetf", "deliver"} THEN 2 ELSE 1)

\* The extensions of the last commit sign the tag of the next proposal.
LastSigs(v) == {<<LocalKey[v], tag_map[last_tags_height]>>}

LastExtended ==
    /\ \A v \in Validators : last_ext[v].cetf # {} =>
          /\ tag_map[last_tags_height] # NoTag
          /\ last_ext[v].cetf = LastSigs(v)
    /\ tag_map[last_tags_height] # NoTag =>
          \A p \in Validators : \A v \in last_ok[p] \cap Ctx : last_ext[v].cetf = LastSigs(v)

\* A set of signatures over t to which every signing node of a commit contributed.
QuorumSigs(sigs, t) ==
    /\ \A s \in sigs : s[2] = t
    /\ \E Q \in Quorums : \A v \in Q \cap Ctx : <<LocalKey[v], t>> \in sigs

\* The proposal carries signatures over the tag of its own height, and does so
\* whenever there is such a tag.
Proposed ==
    step \in {"vote", "deliver_cetf"} =>
       LET t == tag_map[block_height + 1] IN
          /\ cetf_tx # {} => t # NoTag
          /\ t # NoTag => QuorumSigs(cetf_tx, t)

\* What the actor stores is what a commit signed on request.
Stored ==
    \A t \in Tags : signed_hashed_tags[t] # {} =>
       /\ QuorumSigs(signed_hashed_tags[t], t)
       /\ \E h \in 0..(block_height + 1) : <<t, h>> \in queued

\* Schedule entries up to the block being executed are signed.
StoredUpTo ==
    \A h \in Heights :
       /\ h <= block_height + (IF step = "deliver" THEN 1 ELSE 0)
       /\ tag_map[h] # NoTag
       => signed_hashed_tags[tag_map[h]] # {}

IInv ==
    /\ TypeOK
    /\ EnabledImpliesRegistered
    /\ Schedule
    /\ Extended
    /\ LastExtended
    /\ Proposed
    /\ Stored
    /\ StoredUpTo

-----------------------------------------------------------------------------
\* Genesis has the shape of the state.
LEMMA TypeInit == Init => TypeOK
<1> USE ValidatorAssumption, QuorumAssumption, TagAssumption, BoundAssumption
<1> SUFFICES ASSUME Init PROVE TypeOK
  OBVIOUS
<1>1. enabled \in BOOLEAN
  BY DEF Init
<1> QED BY <1>1 DEF Init, TypeOK, Heights, Extensions, EmptyExtension

\* No handler of the protocol leaves the shape of the state.
LEMMA TypeStep == TypeOK /\ [Next]_vars => TypeOK'
<1> USE ValidatorAssumption, QuorumAssumption, TagAssumption, BoundAssumption
<1> SUFFICES ASSUME TypeOK, [Next]_vars PROVE TypeOK'
  OBVIOUS
<1> USE DEF TypeOK
<1>1. ASSUME NEW p \in Validators, PrepareProposal(p) PROVE TypeOK'
  <2>1. \A S \in LocalLastCommits(p) : aggregate(S) \in SUBSET Sigs
    BY DEF LocalLastCommits, aggregate, Extensions
  <2> QED BY <1>1, <2>1 DEF PrepareProposal, actor, votes, last
<1>2. ASSUME NEW p \in Validators, BeginBlock(p) PROVE TypeOK'
  BY <1>2 DEF BeginBlock, Extensions, EmptyExtension, Accepted
<1>3. ASSUME NEW v \in Validators, ExtendVote(v) PROVE TypeOK'
  <2>1. Extension(v) \in Extensions
    BY DEF Extension, Extensions, EmptyExtension, fvm_tags_height, Sigs, HeightSigs, Heights, ExtendVote
  <2> QED BY <1>3, <2>1 DEF ExtendVote, actor, last
<1>4. ASSUME AddSignedTag PROVE TypeOK'
  BY <1>4 DEF AddSignedTag, votes, last, Heights
<1>5. ASSUME NEW c \in Callers, NEW d \in Datas, EnqueueTag(c, d) PROVE TypeOK'
  <2>1. scheduled_epoch \in Heights /\ <<c, d>> \in Tags
    BY <1>5 DEF EnqueueTag, Deliver, Heights, scheduled_epoch, Tags
  <2>2. CASE enabled
    BY <1>5, <2>1, <2>2 DEF EnqueueTag, Deliver, votes, last
  <2>3. CASE ~enabled
    BY <1>5, <2>1, <2>3 DEF EnqueueTag, Deliver, votes, last
  <2> QED BY <2>2, <2>3
<1>6. ASSUME NEW v \in Validators, NEW k \in Keys, AddValidator(v, k) PROVE TypeOK'
  BY <1>6 DEF AddValidator, Deliver, votes, last
<1>7. ASSUME EndBlock PROVE TypeOK'
  BY <1>7 DEF EndBlock, actor, votes, last
<1>8. CASE UNCHANGED vars
  BY <1>8 DEF vars, actor, votes, last
<1> QED BY <1>1, <1>2, <1>3, <1>4, <1>5, <1>6, <1>7, <1>8 DEF Next, Finished

\* Type correctness of every reachable state.
THEOREM TypeCorrect == Spec => []TypeOK
BY TypeInit, TypeStep, PTL DEF Spec

-----------------------------------------------------------------------------
\* A proposal made in a state of the invariant carries quorum signatures over
\* the tag of its height.
LEMMA ProposalStep ==
    ASSUME IInv, NEW p \in Validators, PrepareProposal(p)
    PROVE  Proposed'
<1> USE ValidatorAssumption, QuorumAssumption, TagAssumption, BoundAssumption, RoomAssumption
<1> DEFINE t == tag_map[block_height + 1]
<1>1. PICK S \in LocalLastCommits(p), ipc \in 0..MaxIpcMsgs :
         cetf_tx' = IF ipc < BlockMaxMsgs THEN aggregate(S) ELSE {}
  BY DEF PrepareProposal
<1>2. cetf_tx' = aggregate(S)
  BY <1>1
<1>3. /\ last_tags_height = block_height + 1
      /\ block_height + 1 \in Heights
      /\ t' = t
  BY DEF PrepareProposal, last_tags_height, Heights, IInv, TypeOK, actor
<1>4. CASE block_height = 0
  <2>1. S = {}
    BY <1>4, <1>1 DEF LocalLastCommits
  <2>2. aggregate(S) = {}
    BY <2>1 DEF aggregate
  <2>3. t # NoTag => 3 <= block_height + 1
    BY <1>3 DEF IInv, Schedule
  <2>4. t = NoTag
    BY <1>4, <2>3
  <2> QED BY <1>2, <1>3, <2>2, <2>4 DEF Proposed, PrepareProposal
<1>5. CASE block_height # 0
  <2>1. S \in Quorums /\ S \subseteq last_ok[p] /\ S \subseteq Validators
    BY <1>5, <1>1 DEF LocalLastCommits
  <2>2. ASSUME NEW s \in aggregate(S) PROVE t # NoTag /\ s[2] = t
    <3>1. PICK v \in S : s \in last_ext[v].cetf
      BY DEF aggregate
    <3>2. last_ext[v].cetf = LastSigs(v) /\ t # NoTag
      BY <3>1, <2>1, <1>3 DEF IInv, LastExtended
    <3> QED BY <3>1, <3>2, <1>3 DEF LastSigs
  <2>3. ASSUME t # NoTag, NEW v \in S \cap Ctx PROVE <<LocalKey[v], t>> \in aggregate(S)
    <3>1. last_ext[v].cetf = LastSigs(v)
      BY <2>1, <2>3, <1>3 DEF IInv, LastExtended
    <3> QED BY <3>1, <1>3 DEF LastSigs, aggregate
  <2>4. t # NoTag => QuorumSigs(aggregate(S), t)
    BY <2>1, <2>2, <2>3 DEF QuorumSigs
  <2> QED BY <1>2, <1>3, <2>2, <2>4 DEF Proposed, PrepareProposal, QuorumSigs
<1> QED BY <1>4, <1>5

\* What a vote extension signs.
LEMMA ExtensionSigs ==
    ASSUME NEW v \in Validators
    PROVE  LET t == tag_map[fvm_tags_height] IN
           /\ EmptyExtension.cetf = {}
           /\ Extension(v).cetf # {} => t # NoTag /\ Extension(v).cetf = {<<LocalKey[v], t>>}
           /\ enabled /\ v \in Ctx /\ t # NoTag => Extension(v).cetf = {<<LocalKey[v], t>>}
<1> DEFINE t == tag_map[fvm_tags_height]
<1>1. EmptyExtension.cetf = {}
  BY DEF EmptyExtension
<1>2. CASE ~enabled \/ v \notin Ctx
  <2>1. Extension(v) = EmptyExtension
    BY <1>2 DEF Extension
  <2> QED BY <1>1, <1>2, <2>1
<1>3. CASE ~(~enabled \/ v \notin Ctx)
  <2>1. Extension(v) = [cetf   |-> IF t = NoTag THEN {} ELSE {<<LocalKey[v], t>>},
                        height |-> {<<LocalKey[v], fvm_tags_height>>}]
    BY <1>3 DEF Extension
  <2>2. Extension(v).cetf = IF t = NoTag THEN {} ELSE {<<LocalKey[v], t>>}
    BY <2>1
  <2> QED BY <1>1, <2>2
<1> QED BY <1>2, <1>3

\* When a block is decided, the extensions kept for the next proposal sign the
\* tag that proposal will be for.
LEMMA BeginBlockStep ==
    ASSUME IInv, NEW p \in Validators, BeginBlock(p)
    PROVE  LastExtended'
<1> USE ValidatorAssumption, QuorumAssumption, TagAssumption, BoundAssumption
<1> DEFINE t == tag_map[block_height + 2]
<1>1. /\ last_tags_height' = block_height + 2
      /\ fvm_tags_height = block_height + 2
      /\ block_height + 2 \in Heights
      /\ tag_map' = tag_map
      /\ last_ext' = ext
  BY DEF BeginBlock, last_tags_height, fvm_tags_height, IInv, TypeOK, Heights
<1>2. ASSUME NEW v \in Validators
      PROVE  ext[v] = IF v \in voted THEN Extension(v) ELSE EmptyExtension
  BY DEF IInv, Extended
<1>3. ASSUME NEW v \in Validators, ext[v].cetf # {}
      PROVE  t # NoTag /\ ext[v].cetf = {<<LocalKey[v], t>>}
  BY <1>1, <1>2, <1>3, ExtensionSigs
<1>4. ASSUME t # NoTag, NEW q \in Validators, NEW v \in last_ok'[q] \cap Ctx
      PROVE  ext[v].cetf = {<<LocalKey[v], t>>}
  <2>1. v \in voted /\ v \in Validators
    BY DEF BeginBlock, Accepted, IInv, TypeOK
  <2>2. enabled
    BY <1>1, <1>4 DEF IInv, Schedule
  <2> QED BY <2>1, <2>2, <1>1, <1>2, <1>4, ExtensionSigs
<1> QED BY <1>1, <1>3, <1>4 DEF LastExtended, LastSigs

\* Executing the CETF message stores quorum signatures for the tag of this
\* block, and there is such a message whenever the block has a tag.
LEMMA AddSignedTagStep ==
    ASSUME IInv, AddSignedTag
    PROVE  Stored' /\ StoredUpTo'
<1> USE ValidatorAssumption, QuorumAssumption, TagAssumption, BoundAssumption
<1> DEFINE t == tag_map[block_height + 1]
<1>1. /\ UNCHANGED <<tag_map, block_height, queued>>
      /\ step = "deliver_cetf" /\ step' = "deliver"
      /\ block_height \in Nat /\ block_height + 1 \in Heights
      /\ signed_hashed_tags \in [Tags -> SUBSET Sigs]
  BY DEF AddSignedTag, IInv, TypeOK, Heights
<1>2. t # NoTag => t \in Tags /\ QuorumSigs(cetf_tx, t) /\ <<t, block_height + 1>> \in queued
  BY <1>1 DEF IInv, TypeOK, Proposed, Schedule
<1>3. ASSUME t # NoTag PROVE cetf_tx # {}
  <2>1. PICK Q \in Quorums : \A v \in Q \cap Ctx : <<LocalKey[v], t>> \in cetf_tx
    BY <1>2, <1>3 DEF QuorumSigs
  <2>2. PICK v : v \in Q \cap Ctx
    OBVIOUS
  <2> QED BY <2>1, <2>2
<1>4. CASE t = NoTag
  <2>1. signed_hashed_tags' = signed_hashed_tags
    BY <1>4 DEF AddSignedTag
  <2>2. Stored'
    BY <2>1, <1>1 DEF IInv, Stored, QuorumSigs
  <2>3. ASSUME NEW h \in Heights, h <= block_height + 1, tag_map[h] # NoTag
        PROVE  h <= block_height
    BY <2>3, <1>1, <1>4 DEF Heights
  <2> QED BY <2>1, <2>2, <2>3, <1>1 DEF IInv, StoredUpTo
<1>5. CASE t # NoTag
  <2>1. signed_hashed_tags' = [signed_hashed_tags EXCEPT ![t] = cetf_tx]
    BY <1>5, <1>3 DEF AddSignedTag
  <2>2. Stored'
    <3> SUFFICES ASSUME NEW u \in Tags, signed_hashed_tags'[u] # {}
                 PROVE  /\ QuorumSigs(signed_hashed_tags'[u], u)
                        /\ \E h \in 0..(block_height + 1) : <<u, h>> \in queued
      BY <1>1 DEF Stored, QuorumSigs
    <3>1. CASE u = t
      BY <3>1, <2>1, <1>1, <1>2, <1>5
    <3>2. CASE u # t
      BY <3>2, <2>1, <1>1 DEF IInv, Stored
    <3> QED BY <3>1, <3>2
  <2>3. StoredUpTo'
    <3> SUFFICES ASSUME NEW h \in Heights, h <= block_height + 1, tag_map[h] # NoTag
                 PROVE  signed_hashed_tags'[tag_map[h]] # {}
      BY <1>1 DEF StoredUpTo
    <3>1. tag_map[h] \in Tags
      BY DEF IInv, TypeOK
    <3>2. CASE tag_map[h] = t
      BY <3>1, <3>2, <2>1, <1>1, <1>3, <1>5
    <3>3. CASE tag_map[h] # t
      <4>1. h <= block_height
        BY <3>3, <1>1 DEF Heights
      <4>2. signed_hashed_tags[tag_map[h]] # {}
        BY <4>1, <1>1 DEF IInv, StoredUpTo
      <4> QED BY <4>2, <3>1, <3>3, <2>1, <1>1
    <3> QED BY <3>2, <3>3
  <2> QED BY <2>2, <2>3
<1> QED BY <1>4, <1>5

\* The invariant is inductive.
LEMMA InvStep == IInv /\ [Next]_vars => IInv'
<1> USE ValidatorAssumption, QuorumAssumption, TagAssumption, BoundAssumption
<1> SUFFICES ASSUME IInv, [Next]_vars PROVE IInv'
  OBVIOUS
<1>0. TypeOK /\ TypeOK'
  BY TypeStep DEF IInv
<1>1. ASSUME NEW p \in Validators, PrepareProposal(p) PROVE IInv'
  <2>1. /\ UNCHANGED <<actor, block_height, votes, last, queued>>
        /\ step = "propose" /\ step' = "vote"
    BY <1>1 DEF PrepareProposal
  <2>2. Schedule' /\ Stored' /\ StoredUpTo' /\ EnabledImpliesRegistered'
    BY <2>1 DEF IInv, Schedule, Stored, StoredUpTo, EnabledImpliesRegistered, QuorumSigs, actor
  <2>3. LastExtended'
    BY <2>1 DEF IInv, LastExtended, LastSigs, last_tags_height, actor, last
  <2>4. voted' = {} /\ ext' = [v \in Validators |-> EmptyExtension]
    BY <2>1, <1>0 DEF IInv, Extended, votes, TypeOK
  <2>5. Extended'
    BY <2>1, <2>4 DEF Extended
  <2> QED BY <1>0, <1>1, <2>2, <2>3, <2>5, ProposalStep DEF IInv
<1>2. ASSUME NEW p \in Validators, BeginBlock(p) PROVE IInv'
  <2>1. /\ UNCHANGED <<tag_map, validators, signed_hashed_tags, block_height, cetf_tx, queued>>
        /\ step = "vote" /\ step' = "deliver_cetf"
        /\ enabled' = (enabled \/ to_enable)
        /\ voted' = {} /\ ext' = [v \in Validators |-> EmptyExtension]
    BY <1>2 DEF BeginBlock
  <2>2. EnabledImpliesRegistered'
    BY <2>1 DEF IInv, EnabledImpliesRegistered, to_enable
  <2>3. Schedule'
    BY <2>1 DEF IInv, Schedule
  <2>4. Extended' /\ Proposed' /\ Stored' /\ StoredUpTo'
    BY <2>1 DEF IInv, Extended, Proposed, Stored, StoredUpTo, QuorumSigs
  <2> QED BY <1>0, <1>2, <2>2, <2>3, <2>4, BeginBlockStep DEF IInv
<1>3. ASSUME NEW v \in Validators, ExtendVote(v) PROVE IInv'
  <2>1. /\ UNCHANGED <<tag_map, validators, enabled, signed_hashed_tags, block_height, step, cetf_tx, last_ext, last_ok, queued>>
        /\ step = "vote"
        /\ voted' = voted \cup {v}
        /\ ext' = [ext EXCEPT ![v] = Extension(v)]
    BY <1>3 DEF ExtendVote, actor, last
  <2>2. Schedule' /\ Proposed' /\ Stored' /\ StoredUpTo' /\ EnabledImpliesRegistered'
    BY <2>1 DEF IInv, Schedule, Proposed, Stored, StoredUpTo, EnabledImpliesRegistered, QuorumSigs
  <2>3. LastExtended'
    BY <2>1 DEF IInv, LastExtended, LastSigs, last_tags_height
  <2>4. ASSUME NEW w \in Validators PROVE Extension(w)' = Extension(w)
    BY <2>1 DEF Extension, fvm_tags_height
  <2>5. Extended'
    BY <1>0, <2>1, <2>4 DEF IInv, Extended, TypeOK
  <2> QED BY <1>0, <2>2, <2>3, <2>5 DEF IInv
<1>4. ASSUME AddSignedTag PROVE IInv'
  <2>1. /\ UNCHANGED <<tag_map, validators, enabled, block_height, cetf_tx, voted, ext, last_ext, last_ok, queued>>
        /\ step = "deliver_cetf" /\ step' = "deliver"
    BY <1>4 DEF AddSignedTag, votes, last
  <2>2. Schedule'
    BY <1>0, <2>1 DEF IInv, Schedule, TypeOK, Heights
  <2>3. LastExtended'
    BY <2>1 DEF IInv, LastExtended, LastSigs, last_tags_height
  <2>4. Extended' /\ Proposed' /\ EnabledImpliesRegistered'
    BY <2>1 DEF IInv, Extended, Proposed, EnabledImpliesRegistered
  <2> QED BY <1>0, <1>4, <2>2, <2>3, <2>4, AddSignedTagStep DEF IInv
<1>5. ASSUME NEW c \in Callers, NEW d \in Datas, EnqueueTag(c, d) PROVE IInv'
  <2>1. /\ UNCHANGED <<validators, enabled, signed_hashed_tags, block_height, step, cetf_tx, voted, ext, last_ext, last_ok>>
        /\ step = "deliver" /\ <<c, d>> \in Tags /\ scheduled_epoch = block_height + 3
        /\ block_height \in Nat
    BY <1>0, <1>5 DEF EnqueueTag, Deliver, votes, last, Tags, scheduled_epoch, TypeOK
  <2>2. CASE ~enabled
    <3>1. UNCHANGED <<tag_map, queued>>
      BY <1>5, <2>2 DEF EnqueueTag
    <3>2. Schedule' /\ Proposed' /\ Stored' /\ StoredUpTo' /\ EnabledImpliesRegistered' /\ Extended'
      BY <2>1, <3>1 DEF IInv, Schedule, Proposed, Stored, StoredUpTo, EnabledImpliesRegistered, Extended, QuorumSigs
    <3>3. LastExtended'
      BY <2>1, <3>1 DEF IInv, LastExtended, LastSigs, last_tags_height
    <3> QED BY <1>0, <3>2, <3>3 DEF IInv
  <2>3. CASE enabled
    <3>1. /\ tag_map' = [tag_map EXCEPT ![block_height + 3] = <<c, d>>]
          /\ queued' = queued \cup {<<<<c, d>>, block_height + 3>>}
      BY <1>5, <2>1, <2>3 DEF EnqueueTag
    <3>2. ASSUME NEW h \in Heights, h <= block_height + 2 PROVE tag_map'[h] = tag_map[h]
      BY <1>0, <2>1, <3>1, <3>2 DEF TypeOK, Heights
    <3>3. Schedule'
      <4> SUFFICES ASSUME NEW h \in Heights, tag_map'[h] # NoTag
                   PROVE  enabled' /\ 3 <= h /\ h <= block_height + 3 /\ <<tag_map'[h], h>> \in queued'
        BY <2>1 DEF Schedule
      <4>1. CASE h = block_height + 3
        BY <4>1, <1>0, <2>1, <2>3, <3>1 DEF TypeOK
      <4>2. CASE h # block_height + 3
        <5>1. tag_map'[h] = tag_map[h]
          BY <4>2, <1>0, <3>1 DEF TypeOK
        <5>2. enabled /\ 3 <= h /\ h <= block_height + 3 /\ <<tag_map[h], h>> \in queued
          BY <5>1, <2>1 DEF IInv, Schedule
        <5> QED BY <5>1, <5>2, <2>1, <3>1
      <4> QED BY <4>1, <4>2
    <3>4. Proposed' /\ EnabledImpliesRegistered' /\ Extended'
      BY <2>1 DEF IInv, Proposed, EnabledImpliesRegistered, Extended
    <3>5. Stored'
      BY <2>1, <3>1 DEF IInv, Stored, QuorumSigs
    <3>6. StoredUpTo'
      BY <2>1, <3>2 DEF IInv, StoredUpTo, Heights
    <3>7. LastExtended'
      <4>1. last_tags_height' = block_height + 2 /\ last_tags_height = block_height + 2
        BY <2>1 DEF last_tags_height
      <4>2. tag_map'[block_height + 2] = tag_map[block_height + 2]
        BY <1>0, <2>1, <3>2 DEF TypeOK, Heights
      <4> QED BY <2>1, <4>1, <4>2 DEF IInv, LastExtended, LastSigs
    <3> QED BY <1>0, <3>3, <3>4, <3>5, <3>6, <3>7 DEF IInv
  <2> QED BY <2>2, <2>3
<1>6. ASSUME NEW v \in Validators, NEW k \in Keys, AddValidator(v, k) PROVE IInv'
  <2>1. /\ UNCHANGED <<tag_map, enabled, signed_hashed_tags, block_height, step, cetf_tx, voted, ext, last_ext, last_ok, queued>>
        /\ step = "deliver"
        /\ validators' = [validators EXCEPT ![v] = k]
    BY <1>6 DEF AddValidator, Deliver, votes, last
  <2>2. Schedule' /\ Proposed' /\ Stored' /\ StoredUpTo' /\ Extended'
    BY <2>1 DEF IInv, Schedule, Proposed, Stored, StoredUpTo, Extended, QuorumSigs
  <2>3. LastExtended'
    BY <2>1 DEF IInv, LastExtended, LastSigs, last_tags_height
  <2>4. EnabledImpliesRegistered'
    BY <1>0, <2>1 DEF IInv, EnabledImpliesRegistered, TypeOK
  <2> QED BY <1>0, <2>2, <2>3, <2>4 DEF IInv
<1>7. ASSUME EndBlock PROVE IInv'
  <2>1. /\ UNCHANGED <<tag_map, validators, enabled, signed_hashed_tags, voted, ext, last_ext, last_ok, queued>>
        /\ step = "deliver" /\ step' = "propose" /\ block_height' = block_height + 1
        /\ block_height \in Nat
    BY <1>0, <1>7 DEF EndBlock, actor, votes, last, TypeOK
  <2>2. Schedule'
    BY <2>1 DEF IInv, Schedule, Heights
  <2>3. Stored'
    BY <2>1 DEF IInv, Stored, QuorumSigs
  <2>4. StoredUpTo'
    BY <2>1 DEF IInv, StoredUpTo, Heights
  <2>5. LastExtended'
    <3>1. last_tags_height' = last_tags_height
      BY <2>1 DEF last_tags_height
    <3> QED BY <2>1, <3>1 DEF IInv, LastExtended, LastSigs
  <2>6. Proposed' /\ Extended' /\ EnabledImpliesRegistered'
    BY <2>1 DEF IInv, Proposed, Extended, EnabledImpliesRegistered
  <2> QED BY <1>0, <2>2, <2>3, <2>4, <2>5, <2>6 DEF IInv
<1>8. CASE UNCHANGED vars
  <2>1. Schedule' /\ Proposed' /\ Stored' /\ StoredUpTo' /\ EnabledImpliesRegistered'
    BY <1>8 DEF vars, actor, IInv, Schedule, Proposed, Stored, StoredUpTo, EnabledImpliesRegistered, QuorumSigs
  <2>2. LastExtended'
    BY <1>8 DEF vars, actor, last, IInv, LastExtended, LastSigs, last_tags_height
  <2>3. Extended'
    BY <1>8 DEF vars, actor, votes, IInv, Extended, Extension, fvm_tags_height
  <2> QED BY <1>0, <2>1, <2>2, <2>3 DEF IInv
<1> QED BY <1>1, <1>2, <1>3, <1>4, <1>5, <1>6, <1>7, <1>8 DEF Next, Finished

\* The invariant holds at genesis.
LEMMA InvInit == Init => IInv
<1> USE ValidatorAssumption, QuorumAssumption, TagAssumption, BoundAssumption
<1> SUFFICES ASSUME Init PROVE IInv
  OBVIOUS
<1>1. TypeOK
  BY TypeInit
<1>2. /\ \A h \in Heights : tag_map[h] = NoTag
      /\ \A t \in Tags : signed_hashed_tags[t] = {}
      /\ \A v \in Validators : last_ext[v].cetf = {} /\ ext[v] = EmptyExtension
      /\ last_tags_height \in Heights
  BY DEF Init, EmptyExtension, last_tags_height, Heights
<1>3. EnabledImpliesRegistered /\ Schedule /\ Stored /\ StoredUpTo
  BY <1>2 DEF Init, EnabledImpliesRegistered, Schedule, Stored, StoredUpTo
<1>4. Extended /\ Proposed
  BY <1>2 DEF Init, Extended, Proposed
<1>5. LastExtended
  BY <1>2 DEF LastExtended
<1> QED BY <1>1, <1>3, <1>4, <1>5 DEF IInv

\* The strengthened invariant of every reachable state.
THEOREM Invariance == Spec => []IInv
BY InvInit, InvStep, PTL DEF Spec

\* Every stored aggregate consists of signatures over its own tag.
THEOREM AggregateSoundness == Spec => []AggregateSignsItsTag
<1>1. IInv => AggregateSignsItsTag
  BY DEF IInv, Stored, QuorumSigs, AggregateSignsItsTag
<1> QED BY <1>1, Invariance, PTL

\* A key is only released for a tag its own contract has enqueued, and not
\* before the height it was scheduled for.
THEOREM ReleaseOnRequest == Spec => []ReleasedOnRequest
<1>1. IInv => ReleasedOnRequest
  BY DEF IInv, Stored, ReleasedOnRequest
<1> QED BY <1>1, Invariance, PTL

\* The signing nodes of a whole commit took part in every released key.
THEOREM ReleaseByQuorum == Spec => []ReleasedByQuorum
<1>1. IInv => ReleasedByQuorum
  <2> SUFFICES ASSUME IInv, NEW t \in Tags, signed_hashed_tags[t] # {}
               PROVE  \E Q \in Quorums : Q \cap Ctx \subseteq signers(t)
    BY DEF ReleasedByQuorum
  <2>1. PICK Q \in Quorums : \A v \in Q \cap Ctx : <<LocalKey[v], t>> \in signed_hashed_tags[t]
    BY DEF IInv, Stored, QuorumSigs
  <2>2. Q \cap Ctx \subseteq signers(t)
    BY <2>1, ValidatorAssumption DEF signers
  <2> QED BY <2>2
<1> QED BY <1>1, Invariance, PTL

\* No schedule entry is skipped: after its block every scheduled tag is signed.
THEOREM NothingLeftBehind == Spec => []NoTagLeftBehind
<1>1. IInv => NoTagLeftBehind
  BY BoundAssumption DEF IInv, TypeOK, StoredUpTo, NoTagLeftBehind, Heights
<1> QED BY <1>1, Invariance, PTL

\* Verifying a vote never meets a validator without a key.
THEOREM RegisteredWhileEnabled == Spec => []EnabledImpliesRegistered
<1>1. IInv => EnabledImpliesRegistered
  BY DEF IInv
<1> QED BY <1>1, Invariance, PTL

\* The schedule entries validators vote on are never rewritten.
THEOREM FrozenSchedule == Spec => ScheduleFrozen
<1> DEFINE Frozen == \A h \in Heights : h <= block_height + 2 => tag_map'[h] = tag_map[h]
<1>1. TypeOK /\ [Next]_vars => [Frozen]_vars
  <2> SUFFICES ASSUME TypeOK, [Next]_vars PROVE Frozen
    OBVIOUS
  <2>1. CASE tag_map' = tag_map
    BY <2>1
  <2>2. ASSUME NEW c \in Callers, NEW d \in Datas, EnqueueTag(c, d), enabled PROVE Frozen
    <3>1. tag_map' = [tag_map EXCEPT ![block_height + 3] = <<c, d>>]
      BY <2>2 DEF EnqueueTag, scheduled_epoch, TypeOK
    <3>2. block_height \in Nat
      BY BoundAssumption DEF TypeOK
    <3> QED BY <3>1, <3>2 DEF TypeOK, Heights
  <2>3. ASSUME NEW c \in Callers, NEW d \in Datas, EnqueueTag(c, d), ~enabled PROVE tag_map' = tag_map
    BY <2>3 DEF EnqueueTag
  <2>4. \/ tag_map' = tag_map
        \/ \E c \in Callers, d \in Datas : EnqueueTag(c, d)
    BY DEF Next, vars, actor, PrepareProposal, BeginBlock, ExtendVote, AddSignedTag,
           AddValidator, EndBlock, Finished
  <2> QED BY <2>1, <2>2, <2>3, <2>4
<1> QED BY <1>1, TypeCorrect, PTL DEF Spec, ScheduleFrozen
=============================================================================
