----------------------------- MODULE Snapshots -----------------------------
(***************************************************************************)
(* The snapshot manager, its directory of snapshots, the client through    *)
(* which the application reaches it, and their composition with the        *)
(* application: Commit notifies the manager, and the last chunk of a       *)
(* download restores the application's state.                              *)
(*                                                                         *)
(* A snapshot directory is the set of what it holds, the manifest and the  *)
(* parts; a restart lists the directories that hold a manifest.            *)
(***************************************************************************)
EXTENDS App, SequencesExt

CONSTANTS
    Interval,       \* block_interval
    SnapHistSize,   \* hist_size of the manager; 0 means unlimited
    Chunks,         \* chunks of a snapshot
    Versions        \* versions of the snapshots peers offer; 1 is supported

ASSUME SnapshotAssumption ==
    /\ Interval \in Nat \ {0} /\ SnapHistSize \in Nat /\ Chunks \in Nat \ {0}
    /\ Versions \subseteq Nat

VARIABLES
    syncing,        \* is_syncing
    latest_params,  \* the latest snapshottable height and state
    last_params,    \* the manager's local: what it handled last
    snapshots,      \* completed snapshots, oldest first
    disk,           \* snapshot height -> what its directory holds
    work,           \* what the manager is doing
    removables,     \* heights of the directories it still has to remove
    loading,        \* the snapshot a chunk request has accessed
    download,       \* current_download
    torn            \* history: directories a crash left half written or half removed

snapVars == <<syncing, latest_params, last_params, snapshots, disk, work, removables,
              loading, download, torn>>
vars == <<appVars, snapVars>>

Dir == {"manifest", "parts"}
NoWork == [step |-> "idle", height |-> 0, root |-> None]

SnapInit ==
    /\ syncing = TRUE
    /\ latest_params = None /\ last_params = None
    /\ snapshots = <<>>
    /\ disk = [h \in 0..MaxHeight |-> {}]
    /\ work = NoWork /\ removables = {}
    /\ loading = None /\ download = None /\ torn = {}

NodeInit == Init /\ SnapInit

----------------------------------------------------------------------------
\* The client and the application.

\* A plausible slip: the height is that of the next block, where the hash appears.
notify_next(h, root) ==
    latest_params' = IF (h + 1) % Interval = 0 THEN [height |-> h + 1, root |-> root] ELSE latest_params

\* notify.
notify(h, root) ==
    latest_params' = IF h % Interval = 0 THEN [height |-> h, root |-> root] ELSE latest_params

NodeCommit ==
    /\ Commit
    /\ notify(app.block_height, app.params)
    /\ UNCHANGED <<syncing, last_params, snapshots, disk, work, removables, loading,
                   download, torn>>

\* access_snapshot and load_chunk: the snapshot is marked, then its files are read.
AccessSnapshot(i) ==
    /\ loading = None
    /\ snapshots' = [snapshots EXCEPT ![i].recent = TRUE]
    /\ loading' = snapshots[i].height
    /\ UNCHANGED <<appVars, syncing, latest_params, last_params, disk, work, removables,
                   download, torn>>

LoadChunk ==
    /\ loading # None
    /\ loading' = None
    /\ UNCHANGED <<appVars, syncing, latest_params, last_params, snapshots, disk, work,
                   removables, download, torn>>

\* last_access_hold has passed for the snapshots that are not being read.
HoldExpires ==
    /\ \E i \in DOMAIN snapshots : snapshots[i].recent /\ snapshots[i].height # loading
    /\ snapshots' = [i \in DOMAIN snapshots |->
                        [snapshots[i] EXCEPT !.recent = @ /\ snapshots[i].height = loading]]
    /\ UNCHANGED <<appVars, syncing, latest_params, last_params, disk, work, removables,
                   loading, download, torn>>

----------------------------------------------------------------------------
\* The manager's loop.

\* poll_sync_status.
PollSyncStatus ==
    /\ syncing' = ~syncing
    /\ UNCHANGED <<appVars, latest_params, last_params, snapshots, disk, work, removables,
                   loading, download, torn>>

is_new == latest_params # None /\ latest_params # last_params

NextParams ==
    /\ work.step = "idle" /\ ~syncing
    /\ is_new
    /\ work' = [step |-> "create", height |-> latest_params.height, root |-> latest_params.root]
    /\ UNCHANGED <<appVars, syncing, latest_params, last_params, snapshots, disk, removables,
                   loading, download, torn>>

\* move_or_copy by renaming the finished directory, when the place is free.
CreateByRename ==
    /\ work.step = "create" /\ disk[work.height] = {}
    /\ disk' = [disk EXCEPT ![work.height] = Dir]
    /\ work' = [work EXCEPT !.step = "push"]
    /\ UNCHANGED <<appVars, syncing, latest_params, last_params, snapshots, removables,
                   loading, download, torn>>

\* A plausible slip: the snapshot is listed once its manifest has been copied.
copied_early(d) == "manifest" \in d

copied(d) == d = Dir

\* move_or_copy by copying, file by file and in any order.
CreateByCopy(f) ==
    /\ work.step = "create"
    /\ LET d == disk[work.height] \cup {f} IN
       /\ disk' = [disk EXCEPT ![work.height] = d]
       /\ work' = [work EXCEPT !.step = IF copied(d) THEN "push" ELSE "create"]
    /\ UNCHANGED <<appVars, syncing, latest_params, last_params, snapshots, removables,
                   loading, download, torn>>

\* create_snapshot fails before anything is moved; the height is not tried again.
CreateFails ==
    /\ work.step = "create" /\ disk[work.height] = {}
    /\ work' = [work EXCEPT !.step = "prune"]
    /\ UNCHANGED <<appVars, syncing, latest_params, last_params, snapshots, disk, removables,
                   loading, download, torn>>

\* The item is added to the completed snapshots.
PushSnapshot ==
    /\ work.step = "push"
    /\ snapshots' = Append(snapshots, [height |-> work.height, recent |-> FALSE])
    /\ work' = [work EXCEPT !.step = "prune"]
    /\ UNCHANGED <<appVars, syncing, latest_params, last_params, disk, removables, loading,
                   download, torn>>

\* A plausible slip: only the oldest snapshot is tested for a recent access.
removable_count_head(s) ==
    IF SnapHistSize = 0 \/ Len(s) <= SnapHistSize \/ s[1].recent THEN 0
    ELSE Len(s) - SnapHistSize

\* prune_history pops from the front down to hist_size, up to a recent access.
removable_count(s) ==
    IF SnapHistSize = 0 \/ Len(s) <= SnapHistSize THEN 0
    ELSE Max({n \in 0..Len(s) - SnapHistSize : \A i \in 1..n : ~s[i].recent})

PruneHistory ==
    /\ work.step = "prune"
    /\ LET n == removable_count(snapshots) IN
       /\ removables' = {snapshots[i].height : i \in 1..n}
       /\ snapshots' = SubSeq(snapshots, n + 1, Len(snapshots))
    /\ work' = [work EXCEPT !.step = "remove"]
    /\ UNCHANGED <<appVars, syncing, latest_params, last_params, disk, loading, download, torn>>

\* remove_dir_all, file by file and in any order.
RemoveFile(h, f) ==
    /\ work.step = "remove" /\ h \in removables /\ f \in disk[h]
    /\ disk' = [disk EXCEPT ![h] = @ \ {f}]
    /\ removables' = IF disk[h] = {f} THEN removables \ {h} ELSE removables
    /\ UNCHANGED <<appVars, syncing, latest_params, last_params, snapshots, work, loading,
                   download, torn>>

\* A directory that cannot be removed is left as it is.
RemoveFails(h) ==
    /\ work.step = "remove" /\ h \in removables
    /\ removables' = removables \ {h}
    /\ torn' = torn \cup {h}
    /\ UNCHANGED <<appVars, syncing, latest_params, last_params, snapshots, disk, work, loading,
                   download>>

RoundDone ==
    /\ work.step = "remove" /\ removables = {}
    /\ last_params' = [height |-> work.height, root |-> work.root]
    /\ work' = NoWork
    /\ UNCHANGED <<appVars, syncing, latest_params, snapshots, disk, removables, loading,
                   download, torn>>

----------------------------------------------------------------------------
\* State sync through offer_snapshot and apply_snapshot_chunk.

\* A plausible slip: the offer's application hash is not compared.
from_snapshot_any(m) == TRUE

\* The state in the offer's metadata has the hash CometBFT has verified.
from_snapshot(m) == m.root = Executed(m.height)

OfferSnapshot(m) ==
    /\ phase = "sync" /\ m.height > app.block_height
    /\ from_snapshot(m) /\ m.version = 1
    /\ download' = [height |-> m.height, root |-> m.root, next_index |-> 0, good |-> TRUE]
    /\ UNCHANGED <<appVars, syncing, latest_params, last_params, snapshots, disk, work,
                   removables, loading, torn>>

\* save_chunk of a chunk that is not the last one, with its contents intact or not.
SaveChunk(ok) ==
    /\ phase = "sync" /\ download # None
    /\ download.next_index + 1 < Chunks
    /\ download' = [download EXCEPT !.next_index = @ + 1, !.good = @ /\ ok]
    /\ UNCHANGED <<appVars, syncing, latest_params, last_params, snapshots, disk, work,
                   removables, loading, torn>>

\* The last chunk: the checksum agrees, the import succeeds, the state is restored.
\* Otherwise the transaction is rolled back and nothing changes.
SaveLastChunk ==
    /\ phase = "sync" /\ download # None
    /\ download.next_index + 1 = Chunks /\ download.good
    /\ Restore(download.height, download.root)
    /\ download' = [download EXCEPT !.next_index = Chunks]
    /\ UNCHANGED <<syncing, latest_params, last_params, snapshots, disk, work, removables,
                   loading, torn>>

----------------------------------------------------------------------------
\* The directories that are neither complete nor absent.
HalfDone == {h \in 0..MaxHeight : disk[h] # {} /\ disk[h] # Dir}

\* list_manifests: the directories with a manifest, sorted by height.
list_manifests ==
    LET heights == {h \in 0..MaxHeight : "manifest" \in disk[h]} IN
    [i \in 1..Cardinality(heights) |->
        [height |-> SetToSortSeq(heights, LAMBDA x, y : x < y)[i], recent |-> FALSE]]

\* The manager's memory after SnapshotManager::new.
ManagerNew ==
    /\ syncing' = TRUE
    /\ latest_params' = None /\ last_params' = None
    /\ snapshots' = list_manifests
    /\ work' = NoWork /\ removables' = {}
    /\ loading' = None /\ download' = None
    /\ torn' = torn \cup HalfDone
    /\ UNCHANGED disk

NodeCrash == Crash /\ ManagerNew
NodeHalt == Halt /\ ManagerNew

NodeStep ==
    /\ \/ InitChain \/ Info \/ CatchUp \/ NewBlock
       \/ FinalizeBlock \/ ExecStep \/ ExecError \/ FinalizeEnd \/ SaveState
       \/ CheckTx \/ CheckTxError \/ Bootstrap \/ CometCrash
    /\ UNCHANGED snapVars

Manager ==
    \/ PollSyncStatus \/ NextParams
    \/ CreateByRename \/ CreateFails \/ PushSnapshot \/ PruneHistory \/ RoundDone
    \/ \E f \in Dir : CreateByCopy(f)
    \/ \E h \in removables : RemoveFails(h) \/ \E f \in Dir : RemoveFile(h, f)

Offers == [height : 1..MaxHeight, root : {Executed(n) : n \in 1..MaxHeight}, version : Versions]

NodeNext ==
    \/ NodeStep \/ NodeCommit \/ NodeCrash \/ NodeHalt
    \/ Manager
    \/ \E i \in DOMAIN snapshots : AccessSnapshot(i)
    \/ LoadChunk \/ HoldExpires
    \/ \E m \in Offers : OfferSnapshot(m)
    \/ \E ok \in BOOLEAN : SaveChunk(ok)
    \/ SaveLastChunk

NodeSpec == NodeInit /\ [][NodeNext]_vars

----------------------------------------------------------------------------
\* A snapshot is taken under the height of the block that produced its state, which
\* is the state whose hash CometBFT verifies when the snapshot is offered.
SnapshotOfItsBlock == work # NoWork => work.root = Executed(work.height)

\* Every snapshot on the list can be served from disk, except where a crash or a
\* failed removal has left a directory half written or half removed.
ListedSnapshotsComplete ==
    \A i \in DOMAIN snapshots : snapshots[i].height \notin torn => disk[snapshots[i].height] = Dir

\* A snapshot that a peer has just accessed keeps its files until they are read.
AccessedSnapshotKept == loading # None /\ loading \notin torn => disk[loading] = Dir
=============================================================================
