----------------------------- MODULE AppProofs -----------------------------
(***************************************************************************)
(* Proofs about the application: its safety invariants hold for every      *)
(* chain length, history size and halt height.                             *)
(***************************************************************************)
EXTENDS App, TLAPS

\* Where the two sides are in each phase, and what is being executed.
Positions ==
    /\ phase = "sync" => statesync /\ saved = 0 /\ stored = 0 /\ forgotten = 0
    /\ phase # "sync" /\ statesync => saved > 0
    /\ phase \notin {"sync", "handshake"} => app.params = Executed(app.block_height)
    /\ phase = "exec" =>
          /\ exec # None
          /\ exec.height = app.block_height + 1 /\ exec.height = stored
          /\ exec.root = Executed(IF exec.done = BlockSteps THEN exec.height ELSE app.block_height)
    /\ phase \in {"finalized", "committed"} => app.block_height = stored
    /\ forgotten <= app.block_height /\ answered <= app.block_height

\* The counter in the record is a lower bound of the heights in the history.
OldestBound ==
    /\ app.oldest <= state_height(app)
    /\ \A h \in DOMAIN hist : h >= app.oldest

\* The inductive invariant.
IInv ==
    /\ AppTypeOK /\ Positions /\ OldestBound
    /\ ExecutedExactlyOnce /\ HandshakePossible /\ ExecStateFree
    /\ HistoryIsExecution /\ HistoryWindow /\ BlocksOfHistoryRetained /\ CheckStateFresh

----------------------------------------------------------------------------
\* Executing block n + 1 on the state after n blocks gives the state after n + 1.
LEMMA ExecutedNext ==
    ASSUME NEW n \in Nat
    PROVE  /\ Executed(n) \in Seq(Nat)
           /\ Executed(n) # Empty
           /\ Append(Executed(n), n + 1) = Executed(n + 1)
<1>1. Executed(n) \in Seq(Nat)
  BY DEF Executed
<1>2. Append(Executed(n), n + 1) = Executed(n + 1)
  BY DEF Executed
<1> QED
  BY <1>1, <1>2, AppAssumption

\* The record after its height and state were replaced.
Updated(a, x, r) == [a EXCEPT !.block_height = x, !.params = r]

\* Replacing them keeps a record a record and leaves the oldest height alone.
LEMMA RecordUpdated ==
    ASSUME NEW a \in AppStates, NEW x \in 0..MaxHeight, NEW r \in Roots
    PROVE  /\ Updated(a, x, r) \in AppStates
           /\ Updated(a, x, r).block_height = x /\ Updated(a, x, r).oldest = a.oldest
           /\ Updated(a, x, r).params = r
BY DEF AppStates, Updated

\* What set_committed_state writes: the record of the new state height is there,
\* everything older than the window is gone, the rest is untouched.
LEMMA SetCommitted ==
    ASSUME NEW a \in AppStates, NEW h,
           a.oldest <= state_height(a),
           DOMAIN h \subseteq 1..MaxHeight + 1,
           \A x \in DOMAIN h : x >= a.oldest
    PROVE  LET n == pruned(a)
               g == state_hist_with(h, a)
               s == state_height(a)
           IN  /\ n \in AppStates
               /\ n.block_height = a.block_height /\ n.params = a.params
               /\ n.oldest <= s
               /\ DOMAIN g \subseteq 1..MaxHeight + 1
               /\ s \in DOMAIN g /\ g[s] = a.params
               /\ \A x \in DOMAIN g : /\ x >= n.oldest
                                      /\ HistSize > 0 => x > s - HistSize
                                      /\ x # s => x \in DOMAIN h /\ g[x] = h[x]
               /\ \A x \in DOMAIN h : (HistSize > 0 => x > s - HistSize) => x \in DOMAIN g
<1> DEFINE n == pruned(a)
           g == state_hist_with(h, a)
           s == state_height(a)
           p == prune_height(a)
<1>1. /\ s \in 1..MaxHeight + 1
      /\ p \in Int /\ p < s
      /\ HistSize > 0 /\ s >= HistSize => p = s - HistSize
      /\ ~(HistSize > 0 /\ s >= HistSize) => p = -1
  BY AppAssumption DEF AppStates, state_height, prune_height
<1>2. /\ n.block_height = a.block_height /\ n.params = a.params
      /\ n.oldest = IF a.oldest <= p THEN p + 1 ELSE a.oldest
      /\ n = [block_height |-> a.block_height, oldest |-> n.oldest, params |-> a.params]
  BY DEF pruned, AppStates
<1>3. n.oldest \in 0..MaxHeight + 1 /\ n.oldest <= s
  <2>1. a.oldest \in 0..MaxHeight + 1 /\ a.oldest <= s
    BY DEF AppStates
  <2> QED
    BY <2>1, <1>1, <1>2, AppAssumption
<1>4. n \in AppStates
  BY <1>2, <1>3 DEF AppStates
<1>5. /\ DOMAIN g = (DOMAIN h \cup {s}) \ (a.oldest..p)
      /\ \A x \in DOMAIN g : g[x] = IF x = s THEN a.params ELSE h[x]
  BY DEF state_hist_with
<1>6. s \in DOMAIN g /\ g[s] = a.params
  BY <1>1, <1>5 DEF AppStates
<1>7. ASSUME NEW x \in DOMAIN g
      PROVE  /\ x \in 1..MaxHeight + 1
             /\ x >= n.oldest
             /\ HistSize > 0 => x > s - HistSize
             /\ x # s => x \in DOMAIN h /\ g[x] = h[x]
  <2>1. x \in 1..MaxHeight + 1 /\ x >= a.oldest /\ x \notin a.oldest..p
    BY <1>1, <1>5, <1>7 DEF AppStates
  <2>2. x > p
    BY <2>1, <1>1 DEF AppStates
  <2>3. x >= n.oldest
    BY <2>1, <2>2, <1>1, <1>2 DEF AppStates
  <2>4. HistSize > 0 => x > s - HistSize
    BY <2>1, <2>2, <1>1, AppAssumption
  <2>5. x # s => x \in DOMAIN h /\ g[x] = h[x]
    BY <1>5, <1>7
  <2> QED
    BY <2>1, <2>3, <2>4, <2>5
<1>8. ASSUME NEW x \in DOMAIN h, HistSize > 0 => x > s - HistSize
      PROVE  x \in DOMAIN g
  <2>1. x \in 1..MaxHeight + 1
    OBVIOUS
  <2>2. x > p
    BY <2>1, <1>1, <1>8, AppAssumption
  <2> QED
    BY <2>1, <2>2, <1>1, <1>5 DEF AppStates
<1> QED
  BY <1>2, <1>3, <1>4, <1>6, <1>7, <1>8

----------------------------------------------------------------------------
\* The part of the invariant that only speaks about the database.
DbInv ==
    /\ app \in AppStates
    /\ DOMAIN hist \subseteq 1..MaxHeight + 1 /\ \A h \in DOMAIN hist : hist[h] \in Roots
    /\ OldestBound /\ ExecutedExactlyOnce /\ HistoryIsExecution /\ HistoryWindow
    /\ BlocksOfHistoryRetained

\* Steps that do not write to the database preserve it.
LEMMA DbUnchanged ==
    ASSUME DbInv, UNCHANGED <<app, hist, origin, forgotten>>
    PROVE  DbInv'
BY DEF DbInv, OldestBound, ExecutedExactlyOnce, HistoryIsExecution, HistoryWindow,
       BlocksOfHistoryRetained, state_height, Executed, AppStates, Roots

\* set_committed_state preserves it when the record is that of the genesis, of the
\* next block, or of a restored snapshot.
LEMMA DbWritten ==
    ASSUME DbInv, NEW a \in AppStates,
           set_committed_state(a),
           a.oldest <= app.oldest, app.block_height <= a.block_height,
           a.params = Executed(a.block_height),
           origin \in Nat, forgotten \in Nat, forgotten <= app.block_height, forgotten' = forgotten,
           \/ a.block_height = 0 /\ origin' = origin
           \/ /\ a.block_height = app.block_height + 1 /\ origin' = origin
              /\ app.params = Executed(app.block_height)
           \/ a.block_height > 0 /\ origin' = a.block_height
    PROVE  DbInv' /\ app'.block_height = a.block_height /\ app'.params = a.params
<1> DEFINE s == state_height(a)
<1>1. /\ a.block_height \in 0..MaxHeight /\ app.block_height \in 0..MaxHeight
      /\ a.oldest \in 0..MaxHeight + 1 /\ app.oldest \in 0..MaxHeight + 1
      /\ s = a.block_height + 1
  BY DEF DbInv, AppStates, state_height
<1>2. /\ a.oldest <= s
      /\ \A x \in DOMAIN hist : x \in 1..MaxHeight + 1 /\ x >= a.oldest
  BY <1>1 DEF DbInv, OldestBound, state_height
<1>3. /\ app' \in AppStates
      /\ app'.block_height = a.block_height /\ app'.params = a.params
      /\ app'.oldest <= s
      /\ DOMAIN hist' \subseteq 1..MaxHeight + 1
      /\ s \in DOMAIN hist' /\ hist'[s] = a.params
      /\ \A x \in DOMAIN hist' :
            /\ x \in 1..MaxHeight + 1 /\ x >= app'.oldest
            /\ HistSize > 0 => x > s - HistSize
            /\ x # s => x \in DOMAIN hist /\ hist'[x] = hist[x]
      /\ \A x \in DOMAIN hist : (HistSize > 0 => x > s - HistSize) => x \in DOMAIN hist'
  <2>1. app' = pruned(a) /\ hist' = state_hist_with(hist, a)
    BY DEF set_committed_state
  <2>2. DOMAIN hist \subseteq 1..MaxHeight + 1 /\ a.oldest <= state_height(a)
    BY <1>1, <1>2 DEF DbInv
  <2> HIDE DEF s
  <2> QED
    BY <2>1, <2>2, <1>2, SetCommitted DEF s
<1>4. /\ Executed(a.block_height) \in Seq(Nat) /\ Executed(a.block_height) # Empty
      /\ Executed(app.block_height) # Empty
  <2>1. a.block_height \in Nat /\ app.block_height \in Nat
    BY <1>1, AppAssumption
  <2> QED
    BY <2>1, ExecutedNext
<1>5. s = state_height(app)'
  BY <1>3 DEF state_height
<1>6. OldestBound'
  BY <1>3, <1>5 DEF OldestBound
<1>7. ExecutedExactlyOnce'
  BY <1>3 DEF ExecutedExactlyOnce, Executed
<1>8. \A h \in DOMAIN hist' : hist'[h] \in Roots
  BY <1>3, <1>4 DEF DbInv, Roots
<1>9. HistoryIsExecution'
  <2> SUFFICES ASSUME NEW x \in DOMAIN hist'
               PROVE  \/ hist'[x] = Executed(x - 1)
                      \/ x = 1 /\ hist'[x] = Empty /\ (origin' > 0 \/ app'.params = Empty)
    BY DEF HistoryIsExecution, Executed
  <2>1. CASE x = s
    <3>1. x - 1 = a.block_height
      BY <2>1, <1>1
    <3> QED
      BY <2>1, <3>1, <1>3
  <2>2. CASE x # s
    <3>1. x \in DOMAIN hist /\ hist'[x] = hist[x]
      BY <2>2, <1>3
    <3>2. \/ hist[x] = Executed(x - 1)
          \/ x = 1 /\ hist[x] = Empty /\ (origin > 0 \/ app.params = Empty)
      BY <3>1 DEF DbInv, HistoryIsExecution
    <3>3. CASE x = 1 /\ hist[x] = Empty /\ (origin > 0 \/ app.params = Empty)
      <4>1. a.block_height # 0
        BY <3>3, <2>2, <1>1
      <4>2. origin' > 0
        BY <4>1, <3>3, <1>1, <1>4
      <4> QED
        BY <4>2, <3>1, <3>3
    <3> QED
      BY <3>1, <3>2, <3>3
  <2> QED
    BY <2>1, <2>2
<1>10. HistoryWindow'
  <2>1. \A h \in DOMAIN hist' : HistSize > 0 => h > s - HistSize
    BY <1>3
  <2>2. ASSUME NEW x \in 1..s, x > origin', HistSize > 0 => x > s - HistSize
        PROVE  x \in DOMAIN hist'
    <3>1. CASE x = s
      BY <3>1, <1>3
    <3>2. CASE x # s
      <4>1. a.block_height = app.block_height + 1 /\ origin' = origin
        BY <3>2, <2>2, <1>1
      <4>2. x \in 1..state_height(app) /\ (HistSize > 0 => x > state_height(app) - HistSize)
        BY <4>1, <3>2, <2>2, <1>1, AppAssumption DEF state_height
      <4>3. x \in DOMAIN hist
        BY <4>1, <4>2, <2>2 DEF DbInv, HistoryWindow
      <4> QED
        BY <4>3, <2>2, <1>3
    <3> QED
      BY <3>1, <3>2
  <2> HIDE DEF s
  <2> QED
    BY <2>1, <2>2, <1>5 DEF HistoryWindow
<1>11. BlocksOfHistoryRetained'
  <2> SUFFICES ASSUME NEW x \in DOMAIN hist', x > 1
               PROVE  x - 1 >= forgotten
    BY DEF BlocksOfHistoryRetained
  <2>1. CASE x = s
    BY <2>1, <1>1
  <2>2. CASE x # s
    BY <2>2, <1>3 DEF DbInv, BlocksOfHistoryRetained
  <2> QED
    BY <2>1, <2>2
<1> QED
  BY <1>3, <1>6, <1>7, <1>8, <1>9, <1>10, <1>11 DEF DbInv

----------------------------------------------------------------------------
\* The part of the invariant about the memory and CometBFT's position.
MemType ==
    /\ exec \in {None} \cup [height : 1..MaxHeight, root : Seq(Nat), done : 0..BlockSteps]
    /\ check \in {None} \cup [height : 0..MaxHeight, root : Seq(Nat), msgs : 1..MaxChecks]
    /\ halt \in {0, HaltHeight} /\ phase \in Phases /\ statesync \in BOOLEAN
    /\ stored \in 0..MaxHeight /\ saved \in 0..MaxHeight /\ forgotten \in 0..MaxHeight
    /\ origin \in 0..MaxHeight /\ answered \in 0..MaxHeight

MemInv ==
    MemType /\ Positions /\ HandshakePossible /\ ExecStateFree /\ CheckStateFresh

\* The two parts make up the inductive invariant.
LEMMA Parts == IInv <=> DbInv /\ MemInv
BY DEF IInv, DbInv, MemInv, AppTypeOK, MemType

\* Facts about heights that every step needs.
LEMMA Heights ==
    ASSUME IInv
    PROVE  /\ app.block_height \in 0..MaxHeight /\ MaxHeight \in Nat
           /\ stored \in 0..MaxHeight /\ saved \in 0..MaxHeight
           /\ forgotten \in 0..MaxHeight /\ origin \in 0..MaxHeight /\ answered \in 0..MaxHeight
           /\ phase # "sync" => saved <= app.block_height /\ app.block_height <= stored
                                /\ stored <= saved + 1
           /\ app.params = Empty => app.block_height = 0
           /\ app.params # Empty => /\ app.params = Executed(app.block_height)
                                    /\ app.params \in Seq(Nat)
<1>1. app \in AppStates /\ MaxHeight \in Nat
  BY AppAssumption DEF IInv, AppTypeOK
<1>2. app.block_height \in 0..MaxHeight /\ app.block_height \in Nat /\ app.params \in Roots
  BY <1>1 DEF AppStates
<1>3. Executed(app.block_height) # Empty
  BY <1>2, ExecutedNext
<1> QED
  BY <1>1, <1>2, <1>3 DEF IInv, AppTypeOK, ExecutedExactlyOnce, HandshakePossible, Roots

\* The initial states satisfy the invariant.
LEMMA InitInv == Init => IInv
<1> SUFFICES ASSUME Init PROVE IInv
  OBVIOUS
<1> DEFINE h0 == [x \in {} |-> Empty]
<1>1. /\ EmptyState \in AppStates /\ EmptyState.block_height = 0 /\ EmptyState.params = Empty
      /\ EmptyState.oldest <= state_height(EmptyState) /\ state_height(EmptyState) = 1
  BY AppAssumption DEF EmptyState, AppStates, Roots, state_height
<1>2. /\ app \in AppStates /\ app.block_height = 0 /\ app.params = Empty /\ app.oldest <= 1
      /\ DOMAIN hist = {1} /\ hist[1] = Empty
      /\ \A x \in DOMAIN hist : x >= app.oldest
      /\ HistSize > 0 => 1 > 1 - HistSize
  <2>1. DOMAIN h0 = {}
    OBVIOUS
  <2>2. app = pruned(EmptyState) /\ hist = state_hist_with(h0, EmptyState)
    BY DEF Init
  <2> HIDE DEF h0
  <2>3. \A x \in DOMAIN h0 : x >= EmptyState.oldest
    BY <2>1
  <2>4. DOMAIN h0 \subseteq 1..MaxHeight + 1
    BY <2>1
  <2>5. /\ app \in AppStates /\ app.block_height = 0 /\ app.params = Empty /\ app.oldest <= 1
        /\ 1 \in DOMAIN hist /\ hist[1] = Empty
        /\ \A x \in DOMAIN hist : x >= app.oldest /\ (x # 1 => x \in DOMAIN h0)
    <3> DEFINE e == EmptyState
    <3>1. e \in AppStates /\ e.oldest <= state_height(e)
      BY <1>1
    <3> HIDE DEF e
    <3>2. /\ pruned(e) \in AppStates
          /\ pruned(e).block_height = e.block_height /\ pruned(e).params = e.params
          /\ pruned(e).oldest <= state_height(e)
          /\ state_height(e) \in DOMAIN state_hist_with(h0, e)
          /\ state_hist_with(h0, e)[state_height(e)] = e.params
          /\ \A x \in DOMAIN state_hist_with(h0, e) :
                x >= pruned(e).oldest /\ (x # state_height(e) => x \in DOMAIN h0)
      BY <3>1, <2>1, <2>4, SetCommitted
    <3> QED
      BY <3>2, <2>2, <1>1 DEF e
  <2>6. HistSize > 0 => 1 > 1 - HistSize
    BY AppAssumption
  <2> QED
    BY <2>1, <2>5, <2>6
<1>3. DbInv
  <2>1. OldestBound
    BY <1>2 DEF OldestBound, state_height
  <2>2. ExecutedExactlyOnce
    BY <1>2 DEF ExecutedExactlyOnce
  <2>3. HistoryIsExecution
    BY <1>2 DEF HistoryIsExecution
  <2>4. HistoryWindow
    BY <1>2 DEF HistoryWindow, state_height
  <2>5. BlocksOfHistoryRetained
    BY <1>2 DEF BlocksOfHistoryRetained
  <2>6. DOMAIN hist \subseteq 1..MaxHeight + 1 /\ \A h \in DOMAIN hist : hist[h] \in Roots
    BY <1>2, AppAssumption DEF Roots
  <2> QED
    BY <1>2, <2>1, <2>2, <2>3, <2>4, <2>5, <2>6 DEF DbInv
<1>4. MemInv
  <2>1. /\ exec = None /\ check = None /\ halt = HaltHeight /\ statesync \in BOOLEAN
        /\ phase = IF statesync THEN "sync" ELSE "handshake"
        /\ stored = 0 /\ saved = 0 /\ forgotten = 0 /\ origin = 0 /\ answered = 0
    BY DEF Init
  <2>2. MemType
    BY <2>1, AppAssumption DEF MemType, Phases
  <2>3. Positions
    BY <2>1, <1>2 DEF Positions
  <2>4. HandshakePossible
    BY <2>1, <1>2 DEF HandshakePossible
  <2>5. ExecStateFree /\ CheckStateFresh
    BY <2>1 DEF ExecStateFree, CheckStateFresh
  <2> QED
    BY <2>2, <2>3, <2>4, <2>5 DEF MemInv
<1> QED
  BY <1>3, <1>4, Parts

----------------------------------------------------------------------------
\* Every step preserves the invariant.
LEMMA NextInv ==
    ASSUME IInv, [AppNext]_appVars
    PROVE  IInv'
<1> USE AppAssumption
<1> DEFINE bh == app.block_height
<1>h. /\ bh \in 0..MaxHeight /\ bh \in Nat /\ MaxHeight \in Nat
      /\ stored \in 0..MaxHeight /\ saved \in 0..MaxHeight
      /\ forgotten \in 0..MaxHeight /\ origin \in 0..MaxHeight /\ answered \in 0..MaxHeight
      /\ phase # "sync" => saved <= bh /\ bh <= stored /\ stored <= saved + 1
      /\ app.params = Empty => bh = 0
      /\ app.params # Empty => app.params = Executed(bh) /\ app.params \in Seq(Nat)
  BY Heights
<1>p. DbInv /\ MemInv
  BY Parts
<1>m. MemType /\ Positions /\ HandshakePossible /\ ExecStateFree /\ CheckStateFresh
  BY <1>p DEF MemInv
<1>e. Executed(bh) \in Seq(Nat) /\ Executed(bh) # Empty
  BY <1>h, ExecutedNext
<1>1. CASE Info
  <2>1. UNCHANGED <<app, hist, origin, forgotten>>
    BY <1>1 DEF Info, dbVars, memVars, cometVars
  <2>2. DbInv'
    BY <2>1, <1>p, DbUnchanged
  <2>3. MemType'
    BY <1>1, <1>h, <1>m DEF Info, dbVars, memVars, cometVars, MemType, Phases, Positions
  <2>4. Positions'
    BY <1>1, <1>h, <1>m DEF Info, dbVars, memVars, cometVars, Positions, MemType
  <2>5. HandshakePossible'
    BY <1>1, <1>h, <1>m DEF Info, dbVars, memVars, cometVars, HandshakePossible, Positions
  <2>6. ExecStateFree' /\ CheckStateFresh'
    BY <1>1, <1>h, <1>m DEF Info, dbVars, memVars, cometVars, ExecStateFree, CheckStateFresh, Executed
  <2> QED
    BY <2>2, <2>3, <2>4, <2>5, <2>6 DEF MemInv, IInv, DbInv, AppTypeOK, MemType
<1>2. CASE CatchUp
  <2>1. UNCHANGED <<app, hist, origin, forgotten>>
    BY <1>2 DEF CatchUp, dbVars, memVars, cometVars
  <2>2. DbInv'
    BY <2>1, <1>p, DbUnchanged
  <2>3. MemType'
    BY <1>2, <1>h, <1>m DEF CatchUp, dbVars, memVars, cometVars, MemType, Phases, Positions
  <2>4. Positions'
    BY <1>2, <1>h, <1>m DEF CatchUp, dbVars, memVars, cometVars, Positions, MemType
  <2>5. HandshakePossible'
    BY <1>2, <1>h, <1>m DEF CatchUp, dbVars, memVars, cometVars, HandshakePossible, Positions
  <2>6. ExecStateFree' /\ CheckStateFresh'
    BY <1>2, <1>h, <1>m DEF CatchUp, dbVars, memVars, cometVars, ExecStateFree, CheckStateFresh, Executed
  <2> QED
    BY <2>2, <2>3, <2>4, <2>5, <2>6 DEF MemInv, IInv, DbInv, AppTypeOK, MemType
<1>3. CASE NewBlock
  <2>1. UNCHANGED <<app, hist, origin, forgotten>>
    BY <1>3 DEF NewBlock, dbVars, memVars, cometVars
  <2>2. DbInv'
    BY <2>1, <1>p, DbUnchanged
  <2>3. MemType'
    BY <1>3, <1>h, <1>m DEF NewBlock, dbVars, memVars, cometVars, MemType, Phases, Positions
  <2>4. Positions'
    BY <1>3, <1>h, <1>m DEF NewBlock, dbVars, memVars, cometVars, Positions, MemType
  <2>5. HandshakePossible'
    BY <1>3, <1>h, <1>m DEF NewBlock, dbVars, memVars, cometVars, HandshakePossible, Positions
  <2>6. ExecStateFree' /\ CheckStateFresh'
    BY <1>3, <1>h, <1>m DEF NewBlock, dbVars, memVars, cometVars, ExecStateFree, CheckStateFresh, Executed
  <2> QED
    BY <2>2, <2>3, <2>4, <2>5, <2>6 DEF MemInv, IInv, DbInv, AppTypeOK, MemType
<1>4. CASE Halt
  <2>1. UNCHANGED <<app, hist, origin, forgotten>>
    BY <1>4 DEF Halt, Restart, dbVars, memVars, cometVars
  <2>2. DbInv'
    BY <2>1, <1>p, DbUnchanged
  <2>3. MemType'
    BY <1>4, <1>h, <1>m DEF Halt, Restart, dbVars, memVars, cometVars, MemType, Phases, Positions
  <2>4. Positions'
    BY <1>4, <1>h, <1>m DEF Halt, Restart, dbVars, memVars, cometVars, Positions, MemType
  <2>5. HandshakePossible'
    BY <1>4, <1>h, <1>m DEF Halt, Restart, dbVars, memVars, cometVars, HandshakePossible, Positions
  <2>6. ExecStateFree' /\ CheckStateFresh'
    BY <1>4, <1>h, <1>m DEF Halt, Restart, dbVars, memVars, cometVars, ExecStateFree, CheckStateFresh, Executed
  <2> QED
    BY <2>2, <2>3, <2>4, <2>5, <2>6 DEF MemInv, IInv, DbInv, AppTypeOK, MemType
<1>5. CASE FinalizeBlock
  <2>1. UNCHANGED <<app, hist, origin, forgotten>>
    BY <1>5 DEF FinalizeBlock, dbVars
  <2>2. DbInv'
    BY <2>1, <1>p, DbUnchanged
  <2>3. /\ exec' = [height |-> bh + 1, root |-> Executed(bh), done |-> 0]
        /\ bh < stored /\ stored = bh + 1 /\ phase' = "exec"
        /\ UNCHANGED <<check, halt, answered, statesync, stored, saved>>
        /\ statesync => saved > 0
    BY <1>5, <1>h, <1>m DEF FinalizeBlock, Positions
  <2>4. exec' \in [height : 1..MaxHeight, root : Seq(Nat), done : 0..BlockSteps] /\ exec' # None
    BY <2>3, <1>h, <1>e DEF BlockSteps
  <2>5. MemType'
    BY <2>1, <2>3, <2>4, <1>m DEF MemType, Phases
  <2>6. Positions'
    BY <2>1, <2>3, <2>4, <1>h, <1>m, <1>5 DEF Positions, FinalizeBlock, BlockSteps
  <2>7. HandshakePossible'
    BY <2>1, <2>3, <1>h, <1>m, <1>5 DEF HandshakePossible, FinalizeBlock
  <2>8. ExecStateFree' /\ CheckStateFresh'
    BY <2>1, <2>3, <1>m DEF ExecStateFree, CheckStateFresh, Executed
  <2> QED
    BY <2>2, <2>5, <2>6, <2>7, <2>8 DEF MemInv, IInv, DbInv, AppTypeOK, MemType
<1>6. CASE ExecError
  <2>1. UNCHANGED <<app, hist, origin, forgotten>>
    BY <1>6 DEF ExecError, dropped, dbVars, memVars, cometVars
  <2>2. DbInv'
    BY <2>1, <1>p, DbUnchanged
  <2>3. MemType'
    BY <1>6, <1>h, <1>m DEF ExecError, dropped, dbVars, memVars, cometVars, MemType, Phases, Positions
  <2>4. Positions'
    BY <1>6, <1>h, <1>m DEF ExecError, dropped, dbVars, memVars, cometVars, Positions, MemType
  <2>5. HandshakePossible'
    BY <1>6, <1>h, <1>m DEF ExecError, dropped, dbVars, memVars, cometVars, HandshakePossible, Positions
  <2>6. ExecStateFree' /\ CheckStateFresh'
    BY <1>6, <1>h, <1>m DEF ExecError, dropped, dbVars, memVars, cometVars, ExecStateFree, CheckStateFresh, Executed
  <2> QED
    BY <2>2, <2>3, <2>4, <2>5, <2>6 DEF MemInv, IInv, DbInv, AppTypeOK, MemType
<1>7. CASE Commit
  <2>1. UNCHANGED <<app, hist, origin, forgotten>>
    BY <1>7 DEF Commit, check_after_commit, dbVars, memVars, cometVars
  <2>2. DbInv'
    BY <2>1, <1>p, DbUnchanged
  <2>3. MemType'
    BY <1>7, <1>h, <1>m DEF Commit, check_after_commit, dbVars, memVars, cometVars, MemType, Phases, Positions
  <2>4. Positions'
    BY <1>7, <1>h, <1>m DEF Commit, check_after_commit, dbVars, memVars, cometVars, Positions, MemType
  <2>5. HandshakePossible'
    BY <1>7, <1>h, <1>m DEF Commit, check_after_commit, dbVars, memVars, cometVars, HandshakePossible, Positions
  <2>6. ExecStateFree' /\ CheckStateFresh'
    BY <1>7, <1>h, <1>m DEF Commit, check_after_commit, dbVars, memVars, cometVars, ExecStateFree, CheckStateFresh, Executed
  <2> QED
    BY <2>2, <2>3, <2>4, <2>5, <2>6 DEF MemInv, IInv, DbInv, AppTypeOK, MemType
<1>8. CASE CheckTx
  <2>1. UNCHANGED <<app, hist, origin, forgotten>>
    BY <1>8 DEF CheckTx, dbVars, cometVars
  <2>2. DbInv'
    BY <2>1, <1>p, DbUnchanged
  <2>3. UNCHANGED <<exec, halt, answered, phase, statesync, stored, saved>>
    BY <1>8 DEF CheckTx, cometVars
  <2>4. /\ check' \in [height : 0..MaxHeight, root : Seq(Nat), msgs : 1..MaxChecks]
        /\ check'.height >= answered /\ check'.root = Executed(check'.height)
    <3>1. CASE check = None
      <4>1. app.params = Executed(bh) /\ app.params \in Seq(Nat)
        BY <3>1, <1>8, <1>h DEF CheckTx
      <4>2. check' = [height |-> bh, root |-> app.params, msgs |-> 1]
        BY <3>1, <1>8 DEF CheckTx
      <4>3. answered <= bh /\ 1 \in 1..MaxChecks
        BY <1>m DEF Positions
      <4> QED
        BY <4>1, <4>2, <4>3, <1>h
    <3>2. CASE check # None
      <4>1. check \in [height : 0..MaxHeight, root : Seq(Nat), msgs : 1..MaxChecks]
        BY <3>2, <1>m DEF MemType
      <4>2. check.msgs < MaxChecks /\ check' = [check EXCEPT !.msgs = @ + 1]
        BY <3>2, <1>8 DEF CheckTx
      <4>3. check.height >= answered /\ check.root = Executed(check.height)
        BY <3>2, <1>m DEF CheckStateFresh
      <4>4. /\ check'.height = check.height /\ check'.root = check.root
            /\ check' = [height |-> check.height, root |-> check.root, msgs |-> check.msgs + 1]
        BY <4>1, <4>2
      <4>5. check.msgs + 1 \in 1..MaxChecks
        BY <4>1, <4>2
      <4>6. check' \in [height : 0..MaxHeight, root : Seq(Nat), msgs : 1..MaxChecks]
        BY <4>1, <4>4, <4>5
      <4> QED
        BY <4>3, <4>4, <4>6
    <3> QED
      BY <3>1, <3>2
  <2>5. MemType'
    BY <2>1, <2>3, <2>4, <1>m DEF MemType
  <2>6. Positions' /\ HandshakePossible' /\ ExecStateFree'
    BY <2>1, <2>3, <1>m DEF Positions, HandshakePossible, ExecStateFree, Executed
  <2>7. CheckStateFresh'
    BY <2>3, <2>4 DEF CheckStateFresh, Executed
  <2> QED
    BY <2>2, <2>5, <2>6, <2>7 DEF MemInv, IInv, DbInv, AppTypeOK, MemType
<1>9. CASE CheckTxError
  <2>1. UNCHANGED <<app, hist, origin, forgotten>>
    BY <1>9 DEF CheckTxError, dbVars, memVars, cometVars
  <2>2. DbInv'
    BY <2>1, <1>p, DbUnchanged
  <2>3. MemType'
    BY <1>9, <1>h, <1>m DEF CheckTxError, dbVars, memVars, cometVars, MemType, Phases, Positions
  <2>4. Positions'
    BY <1>9, <1>h, <1>m DEF CheckTxError, dbVars, memVars, cometVars, Positions, MemType
  <2>5. HandshakePossible'
    BY <1>9, <1>h, <1>m DEF CheckTxError, dbVars, memVars, cometVars, HandshakePossible, Positions
  <2>6. ExecStateFree' /\ CheckStateFresh'
    BY <1>9, <1>h, <1>m DEF CheckTxError, dbVars, memVars, cometVars, ExecStateFree, CheckStateFresh, Executed
  <2> QED
    BY <2>2, <2>3, <2>4, <2>5, <2>6 DEF MemInv, IInv, DbInv, AppTypeOK, MemType
<1>10. CASE Bootstrap
  <2>1. UNCHANGED <<app, hist, origin, forgotten>>
    BY <1>10 DEF Bootstrap, dbVars, memVars, cometVars
  <2>2. DbInv'
    BY <2>1, <1>p, DbUnchanged
  <2>3. MemType'
    BY <1>10, <1>h, <1>m DEF Bootstrap, dbVars, memVars, cometVars, MemType, Phases, Positions
  <2>4. Positions'
    BY <1>10, <1>h, <1>m DEF Bootstrap, dbVars, memVars, cometVars, Positions, MemType
  <2>5. HandshakePossible'
    BY <1>10, <1>h, <1>m DEF Bootstrap, dbVars, memVars, cometVars, HandshakePossible, Positions
  <2>6. ExecStateFree' /\ CheckStateFresh'
    BY <1>10, <1>h, <1>m DEF Bootstrap, dbVars, memVars, cometVars, ExecStateFree, CheckStateFresh, Executed
  <2> QED
    BY <2>2, <2>3, <2>4, <2>5, <2>6 DEF MemInv, IInv, DbInv, AppTypeOK, MemType
<1>11. CASE Crash
  <2>1. UNCHANGED <<app, hist, origin, forgotten>>
    BY <1>11 DEF Crash, Restart, dbVars, memVars, cometVars
  <2>2. DbInv'
    BY <2>1, <1>p, DbUnchanged
  <2>3. MemType'
    BY <1>11, <1>h, <1>m DEF Crash, Restart, dbVars, memVars, cometVars, MemType, Phases, Positions
  <2>4. Positions'
    BY <1>11, <1>h, <1>m DEF Crash, Restart, dbVars, memVars, cometVars, Positions, MemType
  <2>5. HandshakePossible'
    BY <1>11, <1>h, <1>m DEF Crash, Restart, dbVars, memVars, cometVars, HandshakePossible, Positions
  <2>6. ExecStateFree' /\ CheckStateFresh'
    BY <1>11, <1>h, <1>m DEF Crash, Restart, dbVars, memVars, cometVars, ExecStateFree, CheckStateFresh, Executed
  <2> QED
    BY <2>2, <2>3, <2>4, <2>5, <2>6 DEF MemInv, IInv, DbInv, AppTypeOK, MemType
<1>12. CASE CometCrash
  <2>1. UNCHANGED <<app, hist, origin, forgotten>>
    BY <1>12 DEF CometCrash, dbVars, memVars, cometVars
  <2>2. DbInv'
    BY <2>1, <1>p, DbUnchanged
  <2>3. MemType'
    BY <1>12, <1>h, <1>m DEF CometCrash, dbVars, memVars, cometVars, MemType, Phases, Positions
  <2>4. Positions'
    BY <1>12, <1>h, <1>m DEF CometCrash, dbVars, memVars, cometVars, Positions, MemType
  <2>5. HandshakePossible'
    BY <1>12, <1>h, <1>m DEF CometCrash, dbVars, memVars, cometVars, HandshakePossible, Positions
  <2>6. ExecStateFree' /\ CheckStateFresh'
    BY <1>12, <1>h, <1>m DEF CometCrash, dbVars, memVars, cometVars, ExecStateFree, CheckStateFresh, Executed
  <2> QED
    BY <2>2, <2>3, <2>4, <2>5, <2>6 DEF MemInv, IInv, DbInv, AppTypeOK, MemType
<1>13. CASE UNCHANGED appVars
  <2>1. UNCHANGED <<app, hist, origin, forgotten>>
    BY <1>13 DEF appVars, dbVars, memVars, cometVars
  <2>2. DbInv'
    BY <2>1, <1>p, DbUnchanged
  <2>3. MemType'
    BY <1>13, <1>h, <1>m DEF appVars, dbVars, memVars, cometVars, MemType, Phases, Positions
  <2>4. Positions'
    BY <1>13, <1>h, <1>m DEF appVars, dbVars, memVars, cometVars, Positions, MemType
  <2>5. HandshakePossible'
    BY <1>13, <1>h, <1>m DEF appVars, dbVars, memVars, cometVars, HandshakePossible, Positions
  <2>6. ExecStateFree' /\ CheckStateFresh'
    BY <1>13, <1>h, <1>m DEF appVars, dbVars, memVars, cometVars, ExecStateFree, CheckStateFresh, Executed
  <2> QED
    BY <2>2, <2>3, <2>4, <2>5, <2>6 DEF MemInv, IInv, DbInv, AppTypeOK, MemType
<1>14. CASE ExecStep
  <2>1. UNCHANGED <<app, hist, origin, forgotten>>
    BY <1>14 DEF ExecStep, dbVars, cometVars
  <2>2. DbInv'
    BY <2>1, <1>p, DbUnchanged
  <2>3. UNCHANGED <<check, halt, answered, phase, statesync, stored, saved>>
    BY <1>14 DEF ExecStep, cometVars
  <2>4. /\ exec \in [height : 1..MaxHeight, root : Seq(Nat), done : 0..BlockSteps]
        /\ phase = "exec" /\ exec.done < BlockSteps
        /\ exec.height = bh + 1 /\ exec.height = stored /\ exec.root = Executed(bh)
    BY <1>14, <1>m DEF ExecStep, MemType, Positions, BlockSteps
  <2>5. Append(Executed(bh), bh + 1) = Executed(bh + 1) /\ Executed(bh + 1) \in Seq(Nat)
    <3>1. bh \in Nat /\ bh + 1 \in Nat
      BY <1>h
    <3> HIDE DEF bh
    <3> QED
      BY <3>1, ExecutedNext
  <2>6. /\ exec' \in [height : 1..MaxHeight, root : Seq(Nat), done : 0..BlockSteps]
        /\ exec'.height = exec.height /\ exec'.done \in 0..BlockSteps
        /\ exec'.root = Executed(IF exec'.done = BlockSteps THEN exec'.height ELSE bh)
    <3>1. exec' = [exec EXCEPT !.done = @ + 1,
                     !.root = IF exec.done + 1 = BlockSteps THEN Append(@, exec.height) ELSE @]
      BY <1>14 DEF ExecStep
    <3>2. /\ exec'.height = exec.height /\ exec'.done = exec.done + 1
          /\ exec'.root = IF exec.done + 1 = BlockSteps THEN Append(exec.root, exec.height) ELSE exec.root
          /\ exec' = [height |-> exec'.height, root |-> exec'.root, done |-> exec'.done]
      BY <3>1, <2>4
    <3>3. exec'.done \in 0..BlockSteps
      BY <3>2, <2>4 DEF BlockSteps
    <3>4. exec'.root = Executed(IF exec'.done = BlockSteps THEN exec'.height ELSE bh)
      BY <3>2, <2>4, <2>5
    <3>5. exec'.root \in Seq(Nat)
      BY <3>4, <3>2, <2>4, <2>5, <1>e
    <3> QED
      BY <3>2, <3>3, <3>4, <3>5, <2>4
  <2>7. exec' # None
    BY <2>6, <1>h DEF BlockSteps
  <2>8. MemType'
    BY <2>1, <2>3, <2>6, <1>m DEF MemType
  <2>9. Positions'
    BY <2>1, <2>3, <2>4, <2>6, <2>7, <1>m DEF Positions, Executed
  <2>10. HandshakePossible' /\ ExecStateFree' /\ CheckStateFresh'
    BY <2>1, <2>3, <2>4, <1>m DEF HandshakePossible, ExecStateFree, CheckStateFresh, Executed
  <2> QED
    BY <2>2, <2>8, <2>9, <2>10 DEF MemInv, IInv, DbInv, AppTypeOK, MemType
<1>15. CASE FinalizeEnd
  <2> DEFINE a == [app EXCEPT !.block_height = exec.height, !.params = exec.root]
  <2>1. /\ exec \in [height : 1..MaxHeight, root : Seq(Nat), done : 0..BlockSteps]
        /\ phase = "exec" /\ exec.height = bh + 1 /\ exec.height = stored
        /\ exec.root = Executed(exec.height)
        /\ app.params = Executed(bh)
        /\ statesync => saved > 0
    BY <1>15, <1>m DEF FinalizeEnd, MemType, Positions
  <2>2. /\ exec' = None /\ phase' = "finalized"
        /\ UNCHANGED <<check, halt, answered, statesync, stored, saved, forgotten, origin>>
    BY <1>15 DEF FinalizeEnd
  <2>3. app \in AppStates
    BY <1>p DEF DbInv
  <2>4. /\ a \in AppStates /\ a.block_height = bh + 1 /\ a.oldest = app.oldest
        /\ a.params = Executed(a.block_height)
    BY <2>1, <2>3, <1>h DEF AppStates, Roots
  <2>5. set_committed_state(a)
    BY <1>15 DEF FinalizeEnd, persist
  <2>6. forgotten <= bh /\ app.oldest \in 0..MaxHeight + 1
    BY <2>3, <1>m DEF Positions, AppStates
  <2> HIDE DEF a
  <2>7. DbInv' /\ app'.block_height = bh + 1 /\ app'.params = Executed(bh + 1)
    BY <2>1, <2>2, <2>4, <2>5, <2>6, <1>h, <1>p, DbWritten
  <2>8. MemType'
    BY <2>2, <1>m DEF MemType, Phases
  <2>9. Positions'
    BY <2>1, <2>2, <2>6, <2>7, <1>h, <1>m DEF Positions
  <2>10. HandshakePossible'
    BY <2>1, <2>2, <2>7, <1>h DEF HandshakePossible
  <2>11. ExecStateFree' /\ CheckStateFresh'
    BY <2>2, <1>m DEF ExecStateFree, CheckStateFresh, Executed
  <2> QED
    BY <2>7, <2>8, <2>9, <2>10, <2>11 DEF MemInv, IInv, DbInv, AppTypeOK, MemType
<1>16. CASE InitChain
  <2> DEFINE a == [block_height |-> 0, oldest |-> 0, params |-> Executed(0)]
  <2>1. bh = 0 /\ phase = "handshake" /\ set_committed_state(a)
    BY <1>16 DEF InitChain
  <2>2. /\ UNCHANGED <<exec, check, halt, answered, statesync, stored, saved, forgotten, origin>>
        /\ phase' = "run"
    BY <1>16 DEF InitChain, memVars
  <2>3. Executed(0) \in Seq(Nat)
    BY ExecutedNext
  <2>4. /\ a \in AppStates /\ a.block_height = 0 /\ a.oldest = 0
        /\ a.params = Executed(a.block_height)
    BY <2>3, <1>h DEF AppStates, Roots
  <2>5. app.oldest \in 0..MaxHeight + 1 /\ forgotten <= bh
    BY <1>p, <1>m DEF DbInv, AppStates, Positions
  <2> HIDE DEF a
  <2>6. DbInv' /\ app'.block_height = 0 /\ app'.params = Executed(0)
    BY <2>1, <2>2, <2>4, <2>5, <1>h, <1>p, DbWritten
  <2>7. MemType'
    BY <2>2, <1>m DEF MemType, Phases
  <2>8. Positions'
    BY <2>1, <2>2, <2>6, <1>h, <1>m DEF Positions
  <2>9. HandshakePossible'
    BY <2>1, <2>2, <2>6, <1>h DEF HandshakePossible
  <2>10. ExecStateFree' /\ CheckStateFresh'
    BY <2>1, <2>2, <1>m DEF ExecStateFree, CheckStateFresh, Executed
  <2> QED
    BY <2>6, <2>7, <2>8, <2>9, <2>10 DEF MemInv, IInv, DbInv, AppTypeOK, MemType
<1>17. CASE \E h \in 1..MaxHeight : Restore(h, Executed(h))
  <2>1. PICK h \in 1..MaxHeight : Restore(h, Executed(h))
    BY <1>17
  <2> DEFINE a == Updated(app, h, Executed(h))
  <2>2. /\ phase = "sync" /\ h > bh /\ set_committed_state(a) /\ origin' = h
        /\ UNCHANGED <<exec, check, halt, answered, phase, statesync, stored, saved, forgotten>>
    BY <2>1 DEF Restore, memVars, Updated
  <2>3. Executed(h) \in Seq(Nat)
    BY ExecutedNext
  <2>4. app \in AppStates
    BY <1>p DEF DbInv
  <2>5. /\ a \in AppStates /\ a.block_height = h /\ a.oldest = app.oldest
        /\ a.params = Executed(a.block_height)
    <3>1. h \in 0..MaxHeight /\ Executed(h) \in Roots
      BY <2>3 DEF Roots
    <3> QED
      BY <3>1, <2>4, RecordUpdated
  <2>6. app.oldest \in 0..MaxHeight + 1 /\ forgotten <= bh
    BY <2>4, <1>m DEF AppStates, Positions
  <2> HIDE DEF a
  <2>7. DbInv' /\ app'.block_height = h
    BY <2>2, <2>5, <2>6, <1>h, <1>p, DbWritten
  <2>8. MemType'
    BY <2>2, <1>m DEF MemType
  <2>9. Positions'
    BY <2>2, <2>6, <2>7, <1>h, <1>m DEF Positions
  <2>10. HandshakePossible' /\ ExecStateFree' /\ CheckStateFresh'
    BY <2>2, <1>m DEF HandshakePossible, ExecStateFree, CheckStateFresh, Executed
  <2> QED
    BY <2>7, <2>8, <2>9, <2>10 DEF MemInv, IInv, DbInv, AppTypeOK, MemType
<1>18. CASE SaveState
  <2>1. /\ phase = "committed" /\ phase' = "run" /\ saved' = stored /\ forgotten' = retain_height
        /\ UNCHANGED <<app, hist, exec, check, halt, answered, statesync, stored, origin>>
    BY <1>18 DEF SaveState, dbVars, memVars
  <2>2. forgotten' \in 0..MaxHeight /\ forgotten' <= bh
    BY <2>1, <1>h DEF retain_height
  <2>3. DOMAIN hist \subseteq 1..MaxHeight + 1 /\ HistoryWindow
    BY <1>p DEF DbInv
  <2>4. BlocksOfHistoryRetained'
    BY <2>1, <2>3, <1>h DEF BlocksOfHistoryRetained, retain_height, HistoryWindow, state_height
  <2>5. DbInv'
    BY <2>1, <2>4, <1>p DEF DbInv, OldestBound, ExecutedExactlyOnce, HistoryIsExecution,
          HistoryWindow, state_height, Executed, AppStates, Roots
  <2>6. MemType'
    BY <2>1, <2>2, <1>m DEF MemType, Phases
  <2>7. Positions'
    BY <2>1, <2>2, <1>h, <1>m DEF Positions
  <2>8. HandshakePossible'
    BY <2>1, <1>h, <1>m DEF HandshakePossible, Positions
  <2>9. ExecStateFree' /\ CheckStateFresh'
    BY <2>1, <1>m DEF ExecStateFree, CheckStateFresh, Executed
  <2> QED
    BY <2>5, <2>6, <2>7, <2>8, <2>9 DEF MemInv, IInv, DbInv, AppTypeOK, MemType
<1> QED
  BY <1>1, <1>2, <1>3, <1>4, <1>5, <1>6, <1>7, <1>8, <1>9, <1>10, <1>11, <1>12, <1>13, <1>14,
     <1>15, <1>16, <1>17, <1>18 DEF AppNext, AppStep

\* The inductive invariant holds in every reachable state.
THEOREM Invariance == AppSpec => []IInv
BY InitInv, NextInv, PTL DEF AppSpec

\* The record in the database, the in-memory states and CometBFT's position are
\* well formed at every step of the application, for any chain length.
THEOREM TypeCorrect == AppSpec => []AppTypeOK
<1>1. IInv => AppTypeOK
  BY DEF IInv
<1> QED
  BY <1>1, Invariance, PTL

\* However the node or CometBFT stops between executing, persisting and committing a
\* block, the persisted state is that of every block executed once and in order.
THEOREM ExactlyOnce == AppSpec => []ExecutedExactlyOnce
<1>1. IInv => ExecutedExactlyOnce
  BY DEF IInv
<1> QED
  BY <1>1, Invariance, PTL

\* CometBFT's handshake always finds an application it can continue with, and never
\* has to replay more than one block.
THEOREM Handshake == AppSpec => []HandshakePossible
<1>1. IInv => HandshakePossible
  BY DEF IInv
<1> QED
  BY <1>1, Invariance, PTL

\* A query at any recorded height runs on the state its height stands for.
THEOREM HistoryCorrect == AppSpec => []HistoryIsExecution
<1>1. IInv => HistoryIsExecution
  BY DEF IInv
<1> QED
  BY <1>1, Invariance, PTL

\* set_committed_state keeps exactly the window of the last HistSize state heights.
THEOREM WindowCorrect == AppSpec => []HistoryWindow
<1>1. IInv => HistoryWindow
  BY DEF IInv
<1> QED
  BY <1>1, Invariance, PTL

\* The retain height of Commit keeps every block whose resulting state is recorded.
THEOREM BlocksRetained == AppSpec => []BlocksOfHistoryRetained
<1>1. IInv => BlocksOfHistoryRetained
  BY DEF IInv
<1> QED
  BY <1>1, Invariance, PTL

\* put_exec_state's assertion holds, and the check state is never older than the last
\* answered Commit.
THEOREM StatesInMemory == AppSpec => [](ExecStateFree /\ CheckStateFresh)
<1>1. IInv => ExecStateFree /\ CheckStateFresh
  BY DEF IInv
<1> QED
  BY <1>1, Invariance, PTL
=============================================================================
