---------------------------- MODULE SnapshotStore ----------------------------
(* The snapshots of one organisation on the disk (crates/data-pipeline/src/  *)
(* store.rs).  A snapshot is a record, a price series has a Parquet file     *)
(* beside it, and the index of its series names the snapshot registered      *)
(* last.  Every file is written to a temporary name, renamed, and then the   *)
(* directory is synced, where the system is a Unix: elsewhere (Windows) the  *)
(* sync does nothing.  Processes import at the same time and may be killed   *)
(* after any of these steps, and the machine may lose what is not synced.    *)
(* Files are named by the digest of their bytes: a file that exists already  *)
(* has the right bytes.                                                      *)
EXTENDS FiniteSets

CONSTANTS
    Snapshots,      \* validated snapshots, by their digest
    Prices,         \* those that have a Parquet file
    SeriesOf,       \* the ticker and kind that a snapshot belongs to
    Importers,      \* processes that import
    None

ASSUME StoreAssumption == Prices \subseteq Snapshots /\ None \notin Snapshots

VARIABLES
    files,          \* the files that are seen
    synced,         \* those that a power loss cannot take away
    index,          \* per series: the snapshot its index names, or None
    syncedIndex,
    import,         \* per process: [of, step, dirty]
    unix,           \* directories can be synced here: never changes
    lost            \* there has been a power loss

hostVars == <<unix, lost>>

diskVars == <<files, synced, index, syncedIndex, hostVars>>

storeVars == <<diskVars, import>>

Record(s) == <<"record", s>>

Parquet(s) == <<"parquet", s>>

Series == {SeriesOf[s] : s \in Snapshots}

FilesOf(s) == {Record(s)} \cup (IF s \in Prices THEN {Parquet(s)} ELSE {})

Idle == [of |-> None, step |-> "idle", dirty |-> FALSE]

StoreInit ==
    /\ files = {} /\ synced = {}
    /\ index = [k \in Series |-> None] /\ syncedIndex = index
    /\ import = [p \in Importers |-> Idle]
    /\ unix \in BOOLEAN /\ lost = FALSE

-----------------------------------------------------------------------------
(* import: dirty says that a renamed file waits for its directory's sync,    *)
(* which comes before the next file is written.                              *)
Begin(p, s) ==
    /\ import[p].step \in {"idle", "stored", "failed"}
    /\ import' = [import EXCEPT ![p] = [of |-> s, step |-> "record", dirty |-> FALSE]]
    /\ UNCHANGED diskVars

At(p, step) == import[p].step = step /\ ~import[p].dirty

Wrote(p, step) == import' = [import EXCEPT ![p].step = step, ![p].dirty = TRUE]

WriteRecord(p) ==
    /\ At(p, "record")
    /\ files' = files \cup {Record(import[p].of)}
    /\ Wrote(p, IF import[p].of \in Prices THEN "parquet" ELSE "index")
    /\ UNCHANGED <<synced, index, syncedIndex, hostVars>>

WriteParquet(p) ==
    /\ At(p, "parquet")
    /\ files' = files \cup {Parquet(import[p].of)}
    /\ Wrote(p, "index")
    /\ UNCHANGED <<synced, index, syncedIndex, hostVars>>

WriteIndex(p) ==
    /\ At(p, "index")
    /\ index' = [index EXCEPT ![SeriesOf[import[p].of]] = import[p].of]
    /\ Wrote(p, "stored")
    /\ UNCHANGED <<files, synced, syncedIndex, hostVars>>

(* (mutant) The next file is written without a sync of the directory.        *)
NoSyncDirectory(p) ==
    /\ import[p].dirty
    /\ import' = [import EXCEPT ![p].dirty = FALSE]
    /\ UNCHANGED diskVars

SyncDirectory(p) ==
    /\ import[p].dirty
    /\ IF unix THEN synced' = files /\ syncedIndex' = index
       ELSE UNCHANGED <<synced, syncedIndex>>
    /\ import' = [import EXCEPT ![p].dirty = FALSE]
    /\ UNCHANGED <<files, index, hostVars>>

(* A write or a sync fails: import returns the error.                        *)
ImportFails(p) ==
    /\ import[p].step \in {"record", "parquet", "index"} \/ import[p].dirty
    /\ import' = [import EXCEPT ![p].step = "failed", ![p].dirty = FALSE]
    /\ UNCHANGED diskVars

(* Processes die, or are through.                                            *)
Killed(S) ==
    /\ import' = [p \in Importers |-> IF p \in S THEN Idle ELSE import[p]]
    /\ UNCHANGED diskVars

PowerLoss ==
    /\ files' \in {f \in SUBSET files : synced \subseteq f}
    /\ index' \in [Series -> Snapshots \cup {None}]
    /\ \A k \in Series : index'[k] \in {index[k], syncedIndex[k]}
    /\ synced' = files' /\ syncedIndex' = index'
    /\ import' = [p \in Importers |-> Idle]
    /\ lost' = TRUE /\ UNCHANGED unix

ImportStep(p) ==
    \/ WriteRecord(p) \/ WriteParquet(p) \/ WriteIndex(p)
    \/ SyncDirectory(p) \/ ImportFails(p)

StoreNext ==
    \/ \E p \in Importers :
          \/ \E s \in Snapshots : Begin(p, s)
          \/ ImportStep(p)
    \/ \E S \in SUBSET Importers : Killed(S)
    \/ PowerLoss

StoreSpec == StoreInit /\ [][StoreNext]_storeVars

-----------------------------------------------------------------------------
(* load finds the record, and the Parquet file that the record asks for.     *)
Loads(s) == FilesOf(s) \subseteq files

(* Without a sync of directories nothing is known of what a power loss took. *)
Promised == unix \/ ~lost

(* What an index names can be loaded: whoever reads the latest snapshot of a *)
(* series finds it whole, though imports were killed between any two of      *)
(* their steps and, on a Unix, the machine lost what was not synced.         *)
IndexLoads == Promised => \A k \in Series : index[k] # None => Loads(index[k])
=============================================================================
