-------------------------------- MODULE App --------------------------------
(***************************************************************************)
(* The ABCI application of one node: its database record and state         *)
(* history, the execution of blocks, the check state, and CometBFT as the  *)
(* caller.  FinalizeBlock persists the new state; Commit follows as a      *)
(* separate call, and CometBFT saves its own state after that.  The node   *)
(* or CometBFT alone may stop between any two of these steps, after which  *)
(* CometBFT's handshake replays what the application has not persisted.    *)
(*                                                                         *)
(* The block at height i is called i, and the state after a block is the   *)
(* sequence of the blocks executed since genesis, so a block executed      *)
(* twice, skipped or out of order shows in the state.                      *)
(***************************************************************************)
EXTENDS Integers, Sequences, FiniteSets

CONSTANTS
    MaxHeight,      \* bound: blocks of the chain
    MaxChecks,      \* bound: messages stacked on one check state
    HistSize,       \* state_hist_size; 0 means unlimited
    HaltHeight,     \* halt_height of the first start; 0 means never
    Empty,          \* the state root of the empty state tree
    None

ASSUME AppAssumption ==
    /\ MaxHeight \in Nat /\ MaxChecks \in Nat \ {0} /\ HistSize \in Nat /\ HaltHeight \in Nat
    /\ Empty \notin Seq(Nat) /\ None \notin [height : Nat, root : Seq(Nat), done : Nat]
    /\ None \notin [height : Nat, root : Seq(Nat), msgs : Nat]

VARIABLES
    app,        \* AppStoreKey::State: block height, oldest state height, state parameters
    hist,       \* state_hist: state height -> state parameters
    exec,       \* exec_state of the block being executed
    check,      \* check_state
    halt,       \* the halt height this process was started with
    phase,      \* what CometBFT is doing
    statesync,  \* CometBFT is configured to restore a snapshot
    stored,     \* height of CometBFT's block store
    saved,      \* height of CometBFT's own state
    forgotten,  \* CometBFT was told to forget the blocks below this height
    origin,     \* history: the height of the snapshot the node started from
    answered    \* history: the height of the last Commit, or of the start, of this process

dbVars == <<app, hist>>
memVars == <<exec, check, halt, answered>>
cometVars == <<phase, statesync, stored, saved, forgotten, origin>>
appVars == <<dbVars, memVars, cometVars>>

\* The state after the first n blocks.
Executed(n) == [i \in 1..n |-> i]

\* AppState::state_height.
state_height(a) == a.block_height + 1

----------------------------------------------------------------------------
\* The database transaction of set_committed_state.

\* A plausible slip: one height too few is pruned.
prune_height_late(a) == state_height(a) - HistSize - 1

\* The height up to which records are deleted, or -1.
prune_height(a) ==
    IF HistSize > 0 /\ state_height(a) >= HistSize THEN state_height(a) - HistSize ELSE -1

pruned(a) ==
    [a EXCEPT !.oldest = IF @ <= prune_height(a) THEN prune_height(a) + 1 ELSE @]

\* A plausible slip: the record is stored under the block's own height.
state_hist_with_block(h, a) ==
    [x \in (DOMAIN h \cup {a.block_height}) \ (a.oldest..prune_height(a)) |->
        IF x = a.block_height THEN a.params ELSE h[x]]

state_hist_with(h, a) ==
    [x \in (DOMAIN h \cup {state_height(a)}) \ (a.oldest..prune_height(a)) |->
        IF x = state_height(a) THEN a.params ELSE h[x]]

set_committed_state(a) ==
    /\ app' = pruned(a)
    /\ hist' = state_hist_with(hist, a)

\* init_committed_state.
EmptyState == [block_height |-> 0, oldest |-> 0, params |-> Empty]

Init ==
    /\ app = pruned(EmptyState)
    /\ hist = state_hist_with([x \in {} |-> Empty], EmptyState)
    /\ exec = None /\ check = None
    /\ halt = HaltHeight
    /\ statesync \in BOOLEAN
    /\ phase = IF statesync THEN "sync" ELSE "handshake"
    /\ stored = 0 /\ saved = 0 /\ forgotten = 0 /\ origin = 0 /\ answered = 0

----------------------------------------------------------------------------
\* The handshake, after Info has told CometBFT the application's height.

\* A plausible slip: the genesis state gets the height of the first block.
InitChain_first ==
    /\ phase = "handshake" /\ app.block_height = 0
    /\ set_committed_state([block_height |-> 1, oldest |-> 1, params |-> Executed(0)])
    /\ phase' = "run"
    /\ UNCHANGED <<memVars, statesync, stored, saved, forgotten, origin>>

\* init_chain: the genesis state is that of a block before the first one.
InitChain ==
    /\ phase = "handshake" /\ app.block_height = 0
    /\ set_committed_state([block_height |-> 0, oldest |-> 0, params |-> Executed(0)])
    /\ phase' = "run"
    /\ UNCHANGED <<memVars, statesync, stored, saved, forgotten, origin>>

Info ==
    /\ phase = "handshake" /\ app.block_height > 0
    /\ phase' = "run"
    /\ UNCHANGED <<dbVars, memVars, statesync, stored, saved, forgotten, origin>>

\* The application has persisted the block but CometBFT has not saved its state:
\* it catches up from the stored response, without calling the application.
CatchUp ==
    /\ phase = "run" /\ app.block_height = stored /\ saved < stored
    /\ saved' = stored
    /\ UNCHANGED <<dbVars, memVars, phase, statesync, stored, forgotten, origin>>

\* A block is decided and saved.
NewBlock ==
    /\ phase = "run" /\ app.block_height = stored /\ saved = stored
    /\ stored < MaxHeight
    /\ stored' = stored + 1
    /\ UNCHANGED <<dbVars, memVars, phase, statesync, saved, forgotten, origin>>

----------------------------------------------------------------------------
\* finalize_block of the next block, new or replayed.

\* The process starts again: App::new finds the committed state.
Restart ==
    /\ exec' = None /\ check' = None
    /\ answered' = app.block_height
    /\ phase' = IF statesync /\ saved = 0 THEN "sync" ELSE "handshake"
    /\ UNCHANGED <<dbVars, statesync, stored, saved, forgotten, origin>>

Halting == halt # 0 /\ app.block_height + 1 = halt

\* The node stops itself before the halt height and is started again without it.
Halt ==
    /\ phase = "run" /\ app.block_height < stored
    /\ Halting
    /\ halt' = 0
    /\ Restart

FinalizeBlock ==
    /\ phase = "run" /\ app.block_height < stored
    /\ ~Halting
    /\ exec' = [height |-> app.block_height + 1, root |-> app.params, done |-> 0]
    /\ phase' = "exec"
    /\ UNCHANGED <<dbVars, check, halt, answered, statesync, stored, saved, forgotten, origin>>

\* begin, the delivery of the transactions, end.
BlockSteps == 3

\* modify_exec_state with an interpreter step that succeeds; the block's effects
\* are complete with the last one.
ExecStep ==
    /\ phase = "exec" /\ exec.done < BlockSteps
    /\ exec' = [exec EXCEPT !.done = @ + 1,
                   !.root = IF exec.done + 1 = BlockSteps THEN Append(@, exec.height) ELSE @]
    /\ UNCHANGED <<dbVars, check, halt, answered, cometVars>>

\* modify_exec_state has taken the state out when the interpreter returns an error.
dropped(s) == None

\* An error ends the request and with it CometBFT, which is started again.
ExecError ==
    /\ phase = "exec" /\ exec.done < BlockSteps
    /\ exec' = dropped(exec)
    /\ phase' = "handshake"
    /\ UNCHANGED <<dbVars, check, halt, answered, statesync, stored, saved, forgotten, origin>>

\* A plausible slip: the state is kept in memory for Commit to persist.
persist_later(a) == UNCHANGED dbVars

persist(a) == set_committed_state(a)

\* The end of finalize_block: the record is read again, updated and persisted.
FinalizeEnd ==
    /\ phase = "exec" /\ exec.done = BlockSteps
    /\ persist([app EXCEPT !.block_height = exec.height, !.params = exec.root])
    /\ exec' = None
    /\ phase' = "finalized"
    /\ UNCHANGED <<check, halt, answered, statesync, stored, saved, forgotten, origin>>

----------------------------------------------------------------------------
\* A plausible slip: the check state survives the block.
check_after_commit_kept == check

check_after_commit == None

\* commit; the snapshotter is notified by the composition.
Commit ==
    /\ phase = "finalized"
    /\ check' = check_after_commit
    /\ answered' = app.block_height
    /\ phase' = "committed"
    /\ UNCHANGED <<dbVars, exec, halt, statesync, stored, saved, forgotten, origin>>

\* A plausible slip: as many blocks as records are kept.
retain_height_tight ==
    IF HistSize = 0 \/ app.block_height < HistSize THEN 0 ELSE app.block_height - HistSize + 2

\* What commit tells CometBFT to retain.
retain_height ==
    IF HistSize = 0 \/ app.block_height < HistSize THEN 0 ELSE app.block_height - HistSize

\* CometBFT saves its state after Commit and prunes its blocks.
SaveState ==
    /\ phase = "committed"
    /\ saved' = stored
    /\ forgotten' = retain_height
    /\ phase' = "run"
    /\ UNCHANGED <<dbVars, memVars, statesync, stored, origin>>

----------------------------------------------------------------------------
\* check_tx, on a connection of its own.  The FVM refuses to run on the empty state.
CheckTx ==
    /\ check = None => app.params # Empty
    /\ check # None => check.msgs < MaxChecks
    /\ check' = IF check = None
                THEN [height |-> app.block_height, root |-> app.params, msgs |-> 1]
                ELSE [check EXCEPT !.msgs = @ + 1]
    /\ UNCHANGED <<dbVars, exec, halt, answered, cometVars>>

\* The interpreter returns an error: the state was taken out and is not put back.
CheckTxError ==
    /\ check # None
    /\ check' = None
    /\ UNCHANGED <<dbVars, exec, halt, answered, cometVars>>

----------------------------------------------------------------------------
\* State sync.

\* The end of apply_snapshot_chunk: a record with the snapshot's height and state.
\* The newest snapshot of the peers does not get older from one attempt to the next.
Restore(h, root) ==
    /\ phase = "sync" /\ h > app.block_height
    /\ set_committed_state([app EXCEPT !.block_height = h, !.params = root])
    /\ origin' = h
    /\ UNCHANGED <<memVars, phase, statesync, stored, saved, forgotten>>

\* CometBFT compares Info with the snapshot and starts from it.
Bootstrap ==
    /\ phase = "sync" /\ app.block_height > 0
    /\ stored' = app.block_height /\ saved' = app.block_height
    /\ phase' = "run"
    /\ UNCHANGED <<dbVars, memVars, statesync, forgotten, origin>>

----------------------------------------------------------------------------
\* The whole process stops, at any time.
Crash == Restart /\ UNCHANGED halt

\* CometBFT alone stops; its connections and the request in progress are dropped.
CometCrash ==
    /\ phase' = IF statesync /\ saved = 0 THEN "sync" ELSE "handshake"
    /\ exec' = None
    /\ UNCHANGED <<dbVars, check, halt, answered, statesync, stored, saved, forgotten, origin>>

\* Everything except Commit and Restore, which involve the snapshotter.
AppStep ==
    \/ InitChain \/ Info \/ CatchUp \/ NewBlock
    \/ Halt \/ FinalizeBlock \/ ExecStep \/ ExecError \/ FinalizeEnd \/ SaveState
    \/ CheckTx \/ CheckTxError
    \/ Bootstrap \/ CometCrash

AppNext ==
    \/ AppStep \/ Commit \/ Crash
    \/ \E h \in 1..MaxHeight : Restore(h, Executed(h))

AppSpec == Init /\ [][AppNext]_appVars

----------------------------------------------------------------------------
Roots == {Empty} \cup Seq(Nat)
AppStates == [block_height : 0..MaxHeight, oldest : 0..MaxHeight + 1, params : Roots]
Phases == {"sync", "handshake", "run", "exec", "finalized", "committed"}

\* The database, the memory and CometBFT's position are well formed.
AppTypeOK ==
    /\ app \in AppStates
    /\ DOMAIN hist \subseteq 1..MaxHeight + 1 /\ \A h \in DOMAIN hist : hist[h] \in Roots
    /\ exec \in {None} \cup [height : 1..MaxHeight, root : Seq(Nat), done : 0..BlockSteps]
    /\ check \in {None} \cup [height : 0..MaxHeight, root : Seq(Nat), msgs : 1..MaxChecks]
    /\ halt \in {0, HaltHeight} /\ phase \in Phases /\ statesync \in BOOLEAN
    /\ {stored, saved, forgotten, origin, answered} \subseteq 0..MaxHeight

\* The persisted state is that of executing every block since genesis exactly once
\* and in order, through crashes between execution, persisting and committing,
\* replays, failed executions and restored snapshots.
ExecutedExactlyOnce ==
    app.params = Executed(app.block_height) \/ (app.block_height = 0 /\ app.params = Empty)

\* CometBFT can always continue: the application is never ahead of the stored blocks
\* nor behind what CometBFT has saved, and at most one block has to be replayed.
HandshakePossible ==
    phase # "sync" =>
        /\ saved <= app.block_height /\ app.block_height <= stored
        /\ stored <= saved + 1

\* put_exec_state never finds the state of an earlier, failed block (its assertion).
ExecStateFree == phase # "exec" => exec = None

\* A query at a recorded height h runs on the state before block h; the empty state
\* is recorded at height 1 only, on a node that did not start from genesis.
HistoryIsExecution ==
    \A h \in DOMAIN hist :
        \/ hist[h] = Executed(h - 1)
        \/ h = 1 /\ hist[h] = Empty /\ (origin > 0 \/ app.params = Empty)

\* With a limit, exactly the records of the last HistSize state heights that the node
\* has made itself or restored are kept; nothing older is left behind in the database.
HistoryWindow ==
    /\ \A h \in DOMAIN hist : HistSize > 0 => h > state_height(app) - HistSize
    /\ \A h \in 1..state_height(app) :
          (h > origin /\ (HistSize > 0 => h > state_height(app) - HistSize)) => h \in DOMAIN hist

\* CometBFT is never told to forget a block whose resulting state can still be queried.
BlocksOfHistoryRetained ==
    \A h \in DOMAIN hist : h > 1 => h - 1 >= forgotten

\* Transactions are checked on a state no older than the last Commit the process
\* answered, also when checks run between FinalizeBlock and Commit.
CheckStateFresh ==
    check # None => check.height >= answered /\ check.root = Executed(check.height)
=============================================================================
