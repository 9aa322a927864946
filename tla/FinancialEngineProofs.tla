----------------------- MODULE FinancialEngineProofs -----------------------
(* What an index names can be loaded, for every set of snapshots, series and *)
(* processes; and the financial engine, whatever its requests and limits,    *)
(* uses the store as SnapshotStore says.                                     *)
EXTENDS FinancialEngine, FiniteSetTheorems, TLAPS

Steps == {"idle", "record", "parquet", "index", "stored", "failed"}

Process == [of : Snapshots \cup {None}, step : Steps, dirty : BOOLEAN]

StoreTypeOK ==
    /\ index \in [Series -> Snapshots \cup {None}]
    /\ syncedIndex \in [Series -> Snapshots \cup {None}]
    /\ import \in [Importers -> Process]
    /\ synced \subseteq files
    /\ unix \in BOOLEAN /\ lost \in BOOLEAN

\* The files that a process has renamed at this step of its import.
Renamed(i) ==
    IF i.step = "parquet" THEN {Record(i.of)}
    ELSE IF i.step \in {"index", "stored"} THEN FilesOf(i.of) ELSE {}

\* What is there for good: without a sync of directories, as long as no power
\* is lost.
Kept == IF unix THEN synced ELSE files

\* A clean process has all of its files kept.
Sound(i) ==
    /\ i.step \notin {"idle", "failed"} => i.of \in Snapshots
    /\ Renamed(i) \subseteq files
    /\ ~i.dirty => Renamed(i) \subseteq Kept

ImportsSound == \A p \in Importers : Sound(import[p])

\* What an index may name, before a power loss or after it.
Durable(ix) == \A k \in Series : ix[k] # None => FilesOf(ix[k]) \subseteq Kept

StoreSafe ==
    /\ StoreTypeOK
    /\ ImportsSound
    /\ Durable(index)
    /\ Durable(syncedIndex)

StoreInv == Promised => StoreSafe

LEMMA KeptIsSeen == StoreTypeOK => Kept \subseteq files
BY DEF StoreTypeOK, Kept

LEMMA StoreInvLoads == StoreInv => IndexLoads
BY KeptIsSeen DEF StoreInv, StoreSafe, Durable, IndexLoads, Loads

LEMMA StoreSafeInit == StoreInit => StoreSafe
<1> SUFFICES ASSUME StoreInit PROVE StoreSafe
  OBVIOUS
<1>1. Idle \in Process
  BY DEF Idle, Process, Steps
<1>2. StoreTypeOK
  BY <1>1 DEF StoreInit, StoreTypeOK
<1>3. ImportsSound
  BY DEF StoreInit, ImportsSound, Sound, Renamed, Idle
<1>4. Durable(index) /\ Durable(syncedIndex)
  BY DEF StoreInit, Durable
<1> QED
  BY <1>2, <1>3, <1>4 DEF StoreSafe

\* The disk is left alone, and what one process does is sound.
LEMMA OneProcess ==
  ASSUME StoreSafe, UNCHANGED diskVars, NEW p \in Importers, NEW i \in Process,
         Sound(i), import' = [import EXCEPT ![p] = i]
  PROVE  StoreSafe'
<1>1. StoreTypeOK'
  BY DEF StoreSafe, StoreTypeOK, diskVars, hostVars
<1>2. ASSUME NEW q \in Importers PROVE Sound(import[q])'
  <2>1. Sound(import'[q])
    BY DEF StoreSafe, StoreTypeOK, ImportsSound
  <2> QED
    BY <2>1 DEF Sound, Renamed, FilesOf, Record, Parquet, Kept, diskVars, hostVars
<1>3. Durable(index)' /\ Durable(syncedIndex)'
  BY DEF StoreSafe, Durable, FilesOf, Record, Parquet, Kept, diskVars, hostVars
<1> QED
  BY <1>1, <1>2, <1>3 DEF StoreSafe, ImportsSound

LEMMA BeginKeeps ==
  ASSUME StoreSafe, NEW p \in Importers, NEW s \in Snapshots, Begin(p, s)
  PROVE  StoreSafe'
<1> DEFINE i == [of |-> s, step |-> "record", dirty |-> FALSE]
<1>1. i \in Process
  BY DEF Process, Steps
<1>2. Sound(i)
  BY DEF Sound, Renamed
<1> QED
  BY <1>1, <1>2, OneProcess DEF Begin

LEMMA ImportFailsKeeps ==
  ASSUME StoreSafe, NEW p \in Importers, ImportFails(p)
  PROVE  StoreSafe'
<1> DEFINE i == [import[p] EXCEPT !.step = "failed", !.dirty = FALSE]
<1>1. i \in Process /\ i.step = "failed"
  BY DEF Process, Steps, StoreSafe, StoreTypeOK
<1>2. Sound(i)
  BY <1>1 DEF Sound, Renamed
<1>3. import' = [import EXCEPT ![p] = i] /\ UNCHANGED diskVars
  BY DEF ImportFails, StoreSafe, StoreTypeOK, Process
<1> QED
  BY <1>1, <1>2, <1>3, OneProcess

LEMMA KilledKeeps ==
  ASSUME StoreSafe, NEW S \in SUBSET Importers, Killed(S)
  PROVE  StoreSafe'
<1>1. Idle \in Process /\ Sound(Idle)
  BY DEF Idle, Process, Steps, Sound, Renamed
<1>2. StoreTypeOK'
  BY <1>1 DEF StoreSafe, StoreTypeOK, Killed, diskVars, hostVars
<1>3. ASSUME NEW q \in Importers PROVE Sound(import[q])'
  <2>1. Sound(import'[q])
    BY <1>1 DEF StoreSafe, ImportsSound, Killed
  <2> QED
    BY <2>1 DEF Sound, Renamed, FilesOf, Record, Parquet, Kept, diskVars, hostVars, Killed
<1>4. Durable(index)' /\ Durable(syncedIndex)'
  BY DEF StoreSafe, Durable, FilesOf, Record, Parquet, Kept, diskVars, hostVars, Killed
<1> QED
  BY <1>2, <1>3, <1>4 DEF StoreSafe, ImportsSound

\* A file is added by a process that is dirty from now on.
LEMMA FileAdded ==
  ASSUME StoreSafe, NEW p \in Importers, NEW i \in Process, i.dirty,
         i.of \in Snapshots, files \subseteq files',
         Renamed(i) \subseteq files',
         import' = [import EXCEPT ![p] = i],
         UNCHANGED <<synced, index, syncedIndex, hostVars>>
  PROVE  StoreSafe'
<1>1. StoreTypeOK'
  BY DEF StoreSafe, StoreTypeOK, hostVars
<1>2. Kept \subseteq Kept'
  BY DEF Kept, hostVars
<1>3. ASSUME NEW q \in Importers PROVE Sound(import[q])'
  <2>1. CASE q = p
    <3>1. import'[q] = i
      BY <2>1 DEF StoreSafe, StoreTypeOK
    <3> QED
      BY <3>1 DEF Sound, Renamed, FilesOf, Record, Parquet
  <2>2. CASE q # p
    <3>1. import'[q] = import[q] /\ Sound(import[q])
      BY <2>2 DEF StoreSafe, StoreTypeOK, ImportsSound
    <3> QED
      BY <1>2, <3>1 DEF Sound, Renamed, FilesOf, Record, Parquet
  <2> QED
    BY <2>1, <2>2
<1>4. Durable(index)' /\ Durable(syncedIndex)'
  BY <1>2 DEF StoreSafe, Durable, FilesOf, Record, Parquet
<1> QED
  BY <1>1, <1>3, <1>4 DEF StoreSafe, ImportsSound

LEMMA WriteRecordKeeps ==
  ASSUME StoreSafe, NEW p \in Importers, WriteRecord(p)
  PROVE  StoreSafe'
<1> DEFINE next == IF import[p].of \in Prices THEN "parquet" ELSE "index"
           i == [import[p] EXCEPT !.step = next, !.dirty = TRUE]
<1>1. import[p] \in Process /\ import[p].of \in Snapshots
  BY DEF StoreSafe, StoreTypeOK, ImportsSound, Sound, WriteRecord, At
<1>2. /\ i \in Process /\ i.dirty /\ i.of = import[p].of
      /\ i.step = next
  BY <1>1 DEF Process, Steps
<1>3. Renamed(i) = {Record(i.of)}
  BY <1>2 DEF Renamed, FilesOf
<1>4. import' = [import EXCEPT ![p] = i]
  BY <1>1 DEF WriteRecord, Wrote, StoreSafe, StoreTypeOK, Process
<1>5. /\ files' = files \cup {Record(i.of)}
      /\ UNCHANGED <<synced, index, syncedIndex, hostVars>>
  BY <1>2 DEF WriteRecord
<1> QED
  BY <1>1, <1>2, <1>3, <1>4, <1>5, FileAdded DEF Renamed, FilesOf, Record, Parquet

LEMMA WriteParquetKeeps ==
  ASSUME StoreSafe, NEW p \in Importers, WriteParquet(p)
  PROVE  StoreSafe'
<1> DEFINE i == [import[p] EXCEPT !.step = "index", !.dirty = TRUE]
<1>1. import[p] \in Process /\ import[p].of \in Snapshots
      /\ Record(import[p].of) \in files
  BY DEF StoreSafe, StoreTypeOK, ImportsSound, Sound, WriteParquet, At, Renamed
<1>2. i \in Process /\ i.dirty /\ i.of = import[p].of /\ i.step = "index"
  BY <1>1 DEF Process, Steps
<1>3. Renamed(i) \subseteq {Record(i.of), Parquet(i.of)}
  BY <1>2 DEF Renamed, FilesOf
<1>4. import' = [import EXCEPT ![p] = i]
  BY <1>1 DEF WriteParquet, Wrote, StoreSafe, StoreTypeOK, Process
<1>5. /\ files' = files \cup {Parquet(i.of)}
      /\ UNCHANGED <<synced, index, syncedIndex, hostVars>>
  BY <1>2 DEF WriteParquet
<1>6. Renamed(i) \subseteq files'
  BY <1>1, <1>2, <1>3, <1>5
<1> QED
  BY <1>1, <1>2, <1>4, <1>5, <1>6, FileAdded

\* The index is written once everything it names is kept.
LEMMA WriteIndexKeeps ==
  ASSUME StoreSafe, NEW p \in Importers, WriteIndex(p)
  PROVE  StoreSafe'
<1> DEFINE s == import[p].of
           i == [import[p] EXCEPT !.step = "stored", !.dirty = TRUE]
<1>1. /\ import[p] \in Process /\ s \in Snapshots
      /\ FilesOf(s) \subseteq Kept /\ FilesOf(s) \subseteq files
  BY DEF StoreSafe, StoreTypeOK, ImportsSound, Sound, WriteIndex, At, Renamed
<1>2. i \in Process /\ i.dirty /\ i.of = s /\ i.step = "stored"
  BY <1>1 DEF Process, Steps
<1>3. import' = [import EXCEPT ![p] = i]
  BY <1>1 DEF WriteIndex, Wrote, StoreSafe, StoreTypeOK, Process
<1>4. /\ index' = [index EXCEPT ![SeriesOf[s]] = s]
      /\ UNCHANGED <<files, synced, syncedIndex, hostVars>>
  BY DEF WriteIndex
<1>5. StoreTypeOK'
  BY <1>1, <1>2, <1>3, <1>4 DEF StoreSafe, StoreTypeOK, hostVars
<1>6. Kept' = Kept
  BY <1>4 DEF Kept, hostVars
<1>7. ASSUME NEW q \in Importers PROVE Sound(import[q])'
  <2>1. Sound(i)
    BY <1>1, <1>2 DEF Sound, Renamed
  <2>2. Sound(import'[q])
    BY <1>3, <2>1 DEF StoreSafe, StoreTypeOK, ImportsSound
  <2> QED
    BY <2>2, <1>4, <1>6 DEF Sound, Renamed, FilesOf, Record, Parquet
<1>8. ASSUME NEW k \in Series, index'[k] # None PROVE FilesOf(index'[k]) \subseteq Kept
  BY <1>1, <1>4, <1>8 DEF StoreSafe, StoreTypeOK, Durable
<1>9. Durable(index)' /\ Durable(syncedIndex)'
  BY <1>4, <1>6, <1>8 DEF StoreSafe, Durable, FilesOf, Record, Parquet
<1> QED
  BY <1>5, <1>7, <1>9 DEF StoreSafe, ImportsSound

\* After a sync everything that is seen is kept, whatever the system.
LEMMA SyncDirectoryKeeps ==
  ASSUME StoreSafe, NEW p \in Importers, SyncDirectory(p)
  PROVE  StoreSafe'
<1> DEFINE i == [import[p] EXCEPT !.dirty = FALSE]
<1>1. import[p] \in Process /\ Sound(import[p])
  BY DEF StoreSafe, StoreTypeOK, ImportsSound
<1>2. /\ i \in Process /\ ~i.dirty /\ i.of = import[p].of
      /\ i.step = import[p].step
  BY <1>1 DEF Process
<1>3. import' = [import EXCEPT ![p] = i]
  BY <1>1 DEF SyncDirectory, StoreSafe, StoreTypeOK, Process
<1>4. /\ UNCHANGED <<files, index, hostVars>>
      /\ syncedIndex' \in {index, syncedIndex} /\ synced' \in {files, synced}
  BY DEF SyncDirectory
<1>5. Kept' = files /\ Kept \subseteq files
  BY <1>4, KeptIsSeen DEF SyncDirectory, Kept, hostVars, StoreSafe
<1>6. StoreTypeOK'
  BY <1>2, <1>3, <1>4 DEF StoreSafe, StoreTypeOK, hostVars
<1>7. ASSUME NEW q \in Importers PROVE Sound(import[q])'
  <2>1. /\ import'[q].of = import[q].of /\ import'[q].step = import[q].step
        /\ Sound(import[q])
    BY <1>2, <1>3 DEF StoreSafe, StoreTypeOK, ImportsSound
  <2> QED
    BY <2>1, <1>4, <1>5 DEF Sound, Renamed, FilesOf, Record, Parquet
<1>8. Durable(index)' /\ Durable(syncedIndex)'
  BY <1>4, <1>5 DEF StoreSafe, Durable, FilesOf, Record, Parquet
<1> QED
  BY <1>6, <1>7, <1>8 DEF StoreSafe, ImportsSound

\* Where directories are synced, a power loss takes nothing that is kept.
LEMMA PowerLossKeeps ==
  ASSUME StoreSafe, unix, PowerLoss
  PROVE  StoreSafe'
<1>1. /\ synced \subseteq synced' /\ files' = synced' /\ syncedIndex' = index'
      /\ unix' = unix
  BY DEF PowerLoss
<1>2. Idle \in Process /\ import' = [p \in Importers |-> Idle]
  BY DEF PowerLoss, Idle, Process, Steps
<1>3. StoreTypeOK'
  BY <1>1, <1>2 DEF StoreSafe, StoreTypeOK, PowerLoss
<1>4. ImportsSound'
  BY <1>2 DEF ImportsSound, Sound, Renamed, Idle
<1>5. ASSUME NEW k \in Series, index'[k] # None PROVE FilesOf(index'[k]) \subseteq Kept'
  <2>1. index'[k] = index[k] \/ index'[k] = syncedIndex[k]
    BY DEF PowerLoss
  <2>2. FilesOf(index'[k]) \subseteq Kept
    BY <2>1, <1>5 DEF StoreSafe, Durable
  <2> QED
    BY <2>2, <1>1 DEF Kept
<1>6. Durable(index)' /\ Durable(syncedIndex)'
  BY <1>1, <1>5 DEF Durable, FilesOf, Record, Parquet
<1> QED
  BY <1>3, <1>4, <1>6 DEF StoreSafe

LEMMA StoreInvNext == StoreInv /\ [StoreNext]_storeVars => StoreInv'
<1> SUFFICES ASSUME StoreInv, [StoreNext]_storeVars, Promised' PROVE StoreSafe'
  BY DEF StoreInv
<1>1. CASE PowerLoss
  <2>1. unix
    BY <1>1 DEF PowerLoss, Promised
  <2> QED
    BY <1>1, <2>1, PowerLossKeeps DEF StoreInv, Promised
<1>2. CASE ~PowerLoss
  <2>1. UNCHANGED hostVars
    BY <1>2 DEF StoreNext, ImportStep, Begin, WriteRecord, WriteParquet, WriteIndex,
       SyncDirectory, ImportFails, Killed, storeVars, diskVars
  <2>2. StoreSafe
    BY <2>1 DEF StoreInv, Promised, hostVars
  <2>3. CASE \E p \in Importers : \E s \in Snapshots : Begin(p, s)
    BY <2>2, <2>3, BeginKeeps
  <2>4. CASE \E p \in Importers : ImportStep(p)
    BY <2>2, <2>4, WriteRecordKeeps, WriteParquetKeeps, WriteIndexKeeps,
       SyncDirectoryKeeps, ImportFailsKeeps DEF ImportStep
  <2>5. CASE \E S \in SUBSET Importers : Killed(S)
    BY <2>2, <2>5, KilledKeeps
  <2>6. CASE UNCHANGED storeVars
    BY <2>2, <2>6 DEF storeVars, diskVars, hostVars, StoreSafe, StoreTypeOK, ImportsSound,
       Sound, Renamed, Durable, FilesOf, Record, Parquet, Kept
  <2> QED
    BY <1>2, <2>3, <2>4, <2>5, <2>6 DEF StoreNext
<1> QED
  BY <1>1, <1>2

(* Whatever snapshots, series and processes there are, an index never names  *)
(* a snapshot whose files are not all there: through kills on every system,  *)
(* and through power losses where directories are synced (store.rs import,   *)
(* sync_directory).                                                          *)
THEOREM StoreIndexLoads == StoreSpec => []IndexLoads
<1>1. StoreInit => StoreInv
  BY StoreSafeInit DEF StoreInv
<1>2. StoreInv /\ [StoreNext]_storeVars => StoreInv'
  BY StoreInvNext
<1> QED
  BY <1>1, <1>2, StoreInvLoads, PTL DEF StoreSpec

-----------------------------------------------------------------------------
\* The engine's children and the command line are processes that import.
LEMMA ChildUsesStore ==
  ASSUME plan \in Plans, NEW e \in DOMAIN plan.calls, ChildStep(e)
  PROVE  [StoreNext]_storeVars
<1>1. e \in Importers
  BY EngineAssumption
<1>2. CASE ReadJob(e)
  BY <1>1, <1>2, EngineAssumption DEF ReadJob, Job, StoreNext
<1>3. CASE Imports(e)
  BY <1>1, <1>3 DEF Imports, StoreNext
<1>4. CASE Compute(e)
  <2>1. {e} \in SUBSET Importers /\ Killed({e})
    BY <1>1, <1>4 DEF Compute
  <2> QED
    BY <2>1 DEF StoreNext
<1>5. CASE NoJob(e) \/ Exit(e)
  BY <1>5 DEF NoJob, Exit
<1> QED
  BY <1>2, <1>3, <1>4, <1>5 DEF ChildStep

LEMMA KillUsesStore ==
  ASSUME NEW S, S \subseteq Calls, Killed(S)
  PROVE  [StoreNext]_storeVars
<1>1. S \in SUBSET Importers
  BY EngineAssumption
<1> QED
  BY <1>1 DEF StoreNext

LEMMA CommandLineUsesStore ==
  ASSUME plan \in Plans, CommandLineImport
  PROVE  [StoreNext]_storeVars
<1>1. CommandLine \in Importers
  BY EngineAssumption
<1>2. CASE \E s \in plan.imports : Begin(CommandLine, s)
  BY <1>1, <1>2, EngineAssumption DEF StoreNext
<1>3. CASE ImportStep(CommandLine)
  BY <1>1, <1>3 DEF StoreNext
<1>4. CASE Killed({CommandLine})
  <2>1. {CommandLine} \in SUBSET Importers
    BY <1>1
  <2> QED
    BY <2>1, <1>4 DEF StoreNext
<1> QED
  BY <1>2, <1>3, <1>4 DEF CommandLineImport

PlanOK == plan \in Plans

LEMMA StepUsesStore ==
  plan \in Plans /\ [Next]_vars => plan' \in Plans /\ [StoreNext]_storeVars
<1> SUFFICES ASSUME plan \in Plans, [Next]_vars
             PROVE  plan' \in Plans /\ [StoreNext]_storeVars
  OBVIOUS
<1> DEFINE Goal == plan' = plan /\ [StoreNext]_storeVars
<1>1. CASE LoopStep /\ UNCHANGED storeVars
  BY <1>1 DEF LoopStep, AnswerDirectly, Initialize, NotifyInitialized, Stop,
     ServeReturns, WriterSends, WriterBreaks, Call, Join, NotifyCancelled
<1>2. ASSUME NEW e \in DOMAIN plan.calls, Works(e) PROVE Goal
  <2>1. CASE Reap(e)
    <3>1. {e} \subseteq Calls
      BY EngineAssumption
    <3> QED
      BY <2>1, <3>1, KillUsesStore DEF Reap
  <2>2. CASE ~Reap(e)
    BY <1>2, <2>2 DEF Works, Launch, WriteJob, ReadReply, SeeExit, SeeCrash,
       SeeCancel, Answer
  <2> QED
    BY <2>1, <2>2
<1>3. ASSUME NEW e \in DOMAIN plan.calls, ChildStep(e) PROVE Goal
  BY <1>3, ChildUsesStore DEF ChildStep
<1>4. ASSUME NEW e \in DOMAIN plan.calls, Crash(e) \/ Panic(e) PROVE Goal
  <2>1. {e} \subseteq Calls
    BY EngineAssumption
  <2> QED
    BY <1>4, <2>1, KillUsesStore DEF Crash, Panic
<1>5. ASSUME NEW e \in DOMAIN plan.calls, Deadline(e), UNCHANGED storeVars PROVE Goal
  BY <1>5 DEF Deadline
<1>6. CASE Abort
  <2>1. PICK S \in SUBSET {e \in Calls : Alive(e)} : Killed(S)
    BY <1>6 DEF Abort
  <2>2. S \subseteq Calls
    OBVIOUS
  <2> QED
    BY <1>6, <2>1, <2>2, KillUsesStore DEF Abort
<1>7. CASE Outage
  BY <1>7 DEF Outage, StoreNext
<1>8. CASE CommandLineImport
  BY <1>8, CommandLineUsesStore DEF CommandLineImport, engineVars
<1>9. CASE UNCHANGED vars
  BY <1>9 DEF vars, engineVars
<1> QED
  BY <1>1, <1>2, <1>3, <1>4, <1>5, <1>6, <1>7, <1>8, <1>9 DEF Next

(* The engine uses the store as its specification says, whatever is asked,   *)
(* cancelled or killed (supervisor.rs execute, worker).                      *)
THEOREM EngineUsesStore == Spec => StoreSpec
<1>1. Init => PlanOK /\ StoreInit
  BY DEF Init, PlanOK
<1>2. PlanOK /\ [Next]_vars => PlanOK'
  BY StepUsesStore DEF PlanOK
<1>3. PlanOK /\ [Next]_vars => [StoreNext]_storeVars
  BY StepUsesStore DEF PlanOK
<1>4. Spec => Init /\ [][Next]_vars
  BY DEF Spec
<1> QED
  BY <1>1, <1>2, <1>3, <1>4, PTL DEF StoreSpec

(* The index of a series names a whole snapshot in every run of the engine.  *)
THEOREM EngineIndexLoads == Spec => []IndexLoads
BY EngineUsesStore, StoreIndexLoads

-----------------------------------------------------------------------------
(* The engine's own state.  The inductive invariant says of every call what  *)
(* ChildrenHeld and InFlightIsPending say of it, and that permits are        *)
(* counted: a child lives under a permit, a permit under a pending request.  *)
CallRecord ==
    [phase : {"none", "queued", "writing", "reading", "exiting", "reaping",
              "answering", "ended", "panicked", "joined"},
     cancelled : BOOLEAN]

ChildRecord ==
    [state : {"none", "boot", "computing", "written", "exited", "failed"},
     job : BOOLEAN, control : {"open", "sent", "closed"}]

ServerRecord ==
    [phase : {"serving", "draining", "ended", "aborted"},
     hello : {"new", "initialized", "ready"}, broken : BOOLEAN,
     out : Nat, read : Nat]

EngineTypes ==
    /\ plan \in Plans
    /\ server \in ServerRecord
    /\ pending \in [Ids -> Calls \cup {None}]
    /\ exec \in [Calls -> CallRecord]
    /\ child \in [Calls -> ChildRecord]

PermitsCounted == Cardinality(Permits) <= MaxWorkers

ChildHasPermit ==
    server.phase # "aborted" => \A e \in Calls : Alive(e) => exec[e].phase \in Holding

RunningIsAsked ==
    \A e \in Calls :
        exec[e].phase \in InTask \cup {"ended"} => e \in DOMAIN plan.calls /\ pending[Id(e)] = e

EngineInv ==
    /\ EngineTypes
    /\ PermitsCounted
    /\ ChildHasPermit
    /\ RunningIsAsked

LEMMA CallsAreFinite ==
  ASSUME NEW S, S \subseteq Calls
  PROVE  IsFiniteSet(S) /\ Cardinality(S) \in Nat
<1>1. IsFiniteSet(Calls)
  BY FS_Interval, EngineAssumption DEF Calls
<1> QED
  BY <1>1, FS_Subset, FS_CardinalityType

LEMMA SmallerIsCounted ==
  ASSUME NEW S, NEW T, S \subseteq T, T \subseteq Calls, Cardinality(T) <= MaxWorkers
  PROVE  Cardinality(S) <= MaxWorkers
<1>1. IsFiniteSet(T) /\ Cardinality(T) \in Nat
  BY CallsAreFinite
<1>2. Cardinality(S) <= Cardinality(T) /\ Cardinality(S) \in Nat
  BY <1>1, FS_Subset, FS_CardinalityType
<1> QED
  BY <1>1, <1>2, EngineAssumption

LEMMA EngineInvInit == Init => EngineInv
<1> SUFFICES ASSUME Init PROVE EngineInv
  OBVIOUS
<1>1. NoCall \in CallRecord /\ NoChild \in ChildRecord
  BY DEF NoCall, CallRecord, NoChild, ChildRecord
<1>2. EngineTypes
  BY <1>1 DEF Init, EngineTypes, ServerRecord
<1>3. Permits = {} /\ ChildHasPermit /\ RunningIsAsked
  BY DEF Init, NoCall, NoChild, Permits, Holding, Supervised, ChildHasPermit, Alive,
     RunningIsAsked, InTask
<1>4. PermitsCounted
  BY <1>3, FS_EmptySet, EngineAssumption DEF PermitsCounted
<1> QED
  BY <1>2, <1>3, <1>4 DEF EngineInv

LEMMA EngineInvHolds == EngineInv => ChildrenHeld /\ InFlightIsPending
<1> SUFFICES ASSUME EngineInv PROVE ChildrenHeld /\ InFlightIsPending
  OBVIOUS
<1>1. ASSUME server.phase # "aborted"
      PROVE  Cardinality({e \in Calls : Alive(e)}) <= MaxWorkers
  <2> DEFINE live == {e \in Calls : Alive(e)}
  <2>1. live \subseteq Permits /\ Permits \subseteq Calls
    BY <1>1 DEF EngineInv, ChildHasPermit, Permits
  <2>2. Cardinality(Permits) <= MaxWorkers
    BY DEF EngineInv, PermitsCounted
  <2> QED
    BY <2>1, <2>2, SmallerIsCounted
<1> QED
  BY <1>1 DEF EngineInv, ChildHasPermit, RunningIsAsked, ChildrenHeld, InFlightIsPending

\* A step of the loop, the writer or a child that moves no task.
LEMMA PhasesKept ==
  ASSUME EngineInv, plan' = plan, pending' = pending, server' \in ServerRecord,
         server'.phase # "aborted" => server.phase # "aborted",
         exec' \in [Calls -> CallRecord],
         \A d \in Calls : exec'[d].phase = exec[d].phase,
         child' \in [Calls -> ChildRecord],
         \A d \in Calls : Alive(d)' => Alive(d)
  PROVE  EngineInv'
<1>1. EngineTypes'
  BY DEF EngineInv, EngineTypes, Ids
<1>2. Permits' = Permits
  BY DEF Permits
<1>3. ChildHasPermit'
  BY DEF EngineInv, ChildHasPermit
<1>4. RunningIsAsked'
  BY DEF EngineInv, RunningIsAsked, Id
<1> QED
  BY <1>1, <1>2, <1>3, <1>4 DEF EngineInv, PermitsCounted

\* A step of the task of one call.
LEMMA TaskMoves ==
  ASSUME EngineInv, plan' = plan, pending' = pending, server' \in ServerRecord,
         server'.phase = server.phase,
         NEW e \in Calls, exec[e].phase \in InTask,
         NEW v \in CallRecord, v.phase \in InTask \cup {"ended", "panicked"},
         exec' = [exec EXCEPT ![e] = v],
         v.phase \in Holding =>
            exec[e].phase \in Holding \/ Cardinality(Permits) < MaxWorkers,
         child' \in [Calls -> ChildRecord],
         \A d \in Calls : d # e /\ Alive(d)' => Alive(d),
         Alive(e)' => v.phase \in Holding \/ (Alive(e) /\ exec[e].phase \notin Holding)
  PROVE  EngineInv'
<1>1. exec \in [Calls -> CallRecord] /\ exec' \in [Calls -> CallRecord]
  BY DEF EngineInv, EngineTypes
<1>2. \A d \in Calls : exec'[d] = IF d = e THEN v ELSE exec[d]
  BY <1>1
<1>3. EngineTypes'
  BY <1>1 DEF EngineInv, EngineTypes, Ids
<1>4. PermitsCounted'
  <2>1. CASE v.phase \in Holding => exec[e].phase \in Holding
    <3>1. Permits' \subseteq Permits /\ Permits \subseteq Calls
      BY <1>2, <2>1 DEF Permits
    <3>2. Cardinality(Permits) <= MaxWorkers
      BY DEF EngineInv, PermitsCounted
    <3>3. Cardinality(Permits') <= MaxWorkers
      BY <3>1, <3>2, SmallerIsCounted
    <3> QED
      BY <3>3 DEF PermitsCounted
  <2>2. CASE v.phase \in Holding /\ exec[e].phase \notin Holding
    <3>1. Cardinality(Permits) < MaxWorkers
      BY <2>2
    <3>2. Permits' = Permits \cup {e} /\ Permits \subseteq Calls /\ e \notin Permits
      BY <1>2, <2>2 DEF Permits
    <3>3. IsFiniteSet(Permits) /\ Cardinality(Permits) \in Nat
      BY <3>2, CallsAreFinite
    <3>4. Cardinality(Permits \cup {e}) = Cardinality(Permits) + 1
      BY <3>2, <3>3, FS_AddElement
    <3>5. Cardinality(Permits \cup {e}) <= MaxWorkers
      BY <3>1, <3>3, <3>4, EngineAssumption
    <3> QED
      BY <3>2, <3>5 DEF PermitsCounted
  <2> QED
    BY <2>1, <2>2
<1>5. ChildHasPermit'
  BY <1>2 DEF EngineInv, ChildHasPermit
<1>6. RunningIsAsked'
  BY <1>2 DEF EngineInv, RunningIsAsked, Id
<1> QED
  BY <1>3, <1>4, <1>5, <1>6 DEF EngineInv

LEMMA MovesTo ==
  ASSUME EngineInv, NEW e \in Calls, NEW phase,
         phase \in Holding \cup {"queued", "answering", "ended", "panicked"}, Moves(e, phase)
  PROVE  \E v \in CallRecord : v.phase = phase /\ exec' = [exec EXCEPT ![e] = v]
<1>1. exec[e] \in CallRecord /\ exec \in [Calls -> CallRecord]
  BY DEF EngineInv, EngineTypes
<1>2. ASSUME NEW b \in BOOLEAN, NEW v, v = [exec[e] EXCEPT !.phase = phase, !.cancelled = b]
      PROVE  v \in CallRecord /\ v.phase = phase
  BY <1>1, <1>2 DEF CallRecord, Holding, Supervised
<1> DEFINE b == exec[e].cancelled /\ phase \in Supervised
           v == [exec[e] EXCEPT !.phase = phase, !.cancelled = b]
<1>3. b \in BOOLEAN
  OBVIOUS
<1>4. exec' = [exec EXCEPT ![e] = v]
  <2>1. exec' = [exec EXCEPT ![e].phase = phase, ![e].cancelled = @ /\ phase \in Supervised]
    BY DEF Moves
  <2> QED
    BY <1>1, <2>1 DEF CallRecord
<1>5. v \in CallRecord /\ v.phase = phase
  BY <1>2, <1>3
<1> HIDE DEF v
<1> QED
  BY <1>4, <1>5

\* The tokens are cancelled; nothing else of a task changes.
LEMMA CancelAllKeeps ==
  ASSUME EngineInv
  PROVE  /\ CancelAll \in [Calls -> CallRecord]
         /\ \A d \in Calls : CancelAll[d].phase = exec[d].phase
<1>1. ASSUME NEW d \in Calls
      PROVE  CancelAll[d] \in CallRecord /\ CancelAll[d].phase = exec[d].phase
  <2>1. exec[d] \in CallRecord
    BY DEF EngineInv, EngineTypes
  <2> DEFINE b == exec[d].cancelled \/ Waits(d)
  <2>2. b \in BOOLEAN
    BY <2>1 DEF CallRecord, Waits
  <2>3. CancelAll[d] = [exec[d] EXCEPT !.cancelled = b]
    BY DEF CancelAll
  <2> HIDE DEF b
  <2> QED
    BY <2>1, <2>2, <2>3 DEF CallRecord
<1> QED
  BY <1>1 DEF CancelAll

LEMMA RepliedKeeps ==
  ASSUME EngineInv, NEW s \in ServerRecord, s.phase = "serving", Serving, Replied(s),
         UNCHANGED <<plan, pending, child>>
  PROVE  EngineInv'
<1>1. exec \in [Calls -> CallRecord]
  BY DEF EngineInv, EngineTypes
<1>2. server' \in ServerRecord
  BY DEF Replied, ServerRecord
<1>3. /\ exec' \in [Calls -> CallRecord]
      /\ \A d \in Calls : exec'[d].phase = exec[d].phase
  BY <1>1, CancelAllKeeps DEF Replied
<1>4. child' \in [Calls -> ChildRecord] /\ \A d \in Calls : Alive(d)' => Alive(d)
  BY DEF EngineInv, EngineTypes, Alive
<1>5. server.phase # "aborted"
  BY DEF Serving
<1> QED
  BY <1>2, <1>3, <1>4, <1>5, PhasesKept

LEMMA WriterKeeps ==
  ASSUME EngineInv, WriterSends \/ WriterBreaks \/ Stop \/ ServeReturns \/ NotifyInitialized
  PROVE  EngineInv'
<1>1. /\ exec \in [Calls -> CallRecord] /\ server \in ServerRecord
      /\ child' \in [Calls -> ChildRecord] /\ \A d \in Calls : Alive(d)' => Alive(d)
  BY DEF EngineInv, EngineTypes, Alive, WriterSends, WriterBreaks, Stop, ServeReturns,
     NotifyInitialized
<1>2. server' \in ServerRecord /\ (server'.phase # "aborted" => server.phase # "aborted")
  <2>1. CASE WriterSends
    <3>1. server.out \in Nat /\ server.out - 1 \in Nat
      BY <1>1, <2>1 DEF ServerRecord, WriterSends
    <3>2. server' = [server EXCEPT !.out = server.out - 1]
      BY <1>1, <2>1 DEF ServerRecord, WriterSends
    <3> QED
      BY <1>1, <3>1, <3>2 DEF ServerRecord
  <2>2. CASE WriterBreaks
    BY <1>1, <2>2 DEF ServerRecord, WriterBreaks
  <2>3. CASE Stop \/ ServeReturns \/ NotifyInitialized
    BY <1>1, <2>3 DEF ServerRecord, Stop, ServeReturns, NotifyInitialized, Serving
  <2> QED
    BY <2>1, <2>2, <2>3
<1>3. /\ exec' \in [Calls -> CallRecord]
      /\ \A d \in Calls : exec'[d].phase = exec[d].phase
  BY <1>1, CancelAllKeeps DEF WriterSends, WriterBreaks, Stop, ServeReturns,
     NotifyInitialized
<1>4. plan' = plan /\ pending' = pending
  BY DEF WriterSends, WriterBreaks, Stop, ServeReturns, NotifyInitialized
<1> QED
  BY <1>1, <1>2, <1>3, <1>4, PhasesKept

\* A request is accepted only under an identifier that nothing runs under.
LEMMA CallKeeps ==
  ASSUME EngineInv, NEW e \in DOMAIN plan.calls, Call(e)
  PROVE  EngineInv'
<1> DEFINE s == [server EXCEPT !.read = e]
           v == [phase |-> "queued", cancelled |-> server.broken]
<1>1. e \in Calls /\ e \in Nat /\ Id(e) \in Ids
  BY EngineAssumption DEF EngineInv, EngineTypes, Calls, Id, Ids
<1>2. s \in ServerRecord /\ s.phase = "serving"
  BY <1>1 DEF EngineInv, EngineTypes, ServerRecord, Call, Serving
<1>3. CASE pending[Id(e)] # None \/ Cardinality(Admitted) >= MaxAdmitted
  BY <1>2, <1>3, RepliedKeeps DEF Call
<1>4. CASE ~(pending[Id(e)] # None \/ Cardinality(Admitted) >= MaxAdmitted)
  <2>1. /\ server' = s /\ plan' = plan /\ child' = child
        /\ pending' = [pending EXCEPT ![Id(e)] = e] /\ pending[Id(e)] = None
    BY <1>4 DEF Call
  <2>2. v \in CallRecord /\ v.phase = "queued"
    BY DEF CallRecord, EngineInv, EngineTypes, ServerRecord
  <2>3. exec' = [exec EXCEPT ![e] = v]
    BY <1>1, <1>4 DEF Call, EngineInv, EngineTypes, CallRecord
  <2> HIDE DEF v
  <2>4. exec' \in [Calls -> CallRecord] /\ \A d \in Calls : exec'[d] = IF d = e THEN v ELSE exec[d]
    BY <2>2, <2>3 DEF EngineInv, EngineTypes
  <2>5. exec[e].phase \notin InTask \cup {"ended"}
    BY <1>1, <2>1, EngineAssumption DEF EngineInv, RunningIsAsked
  <2>6. EngineTypes'
    BY <1>1, <1>2, <2>1, <2>4 DEF EngineInv, EngineTypes, Ids
  <2>7. PermitsCounted'
    <3>1. Permits' = Permits
      BY <2>2, <2>4, <2>5 DEF Permits, InTask, Holding, Supervised
    <3> QED
      BY <3>1 DEF EngineInv, PermitsCounted
  <2>8. ChildHasPermit'
    BY <1>2, <2>1, <2>4, <2>5 DEF EngineInv, ChildHasPermit, Alive, InTask, Call, Serving
  <2>9. RunningIsAsked'
    <3> SUFFICES ASSUME NEW d \in Calls, exec'[d].phase \in InTask \cup {"ended"}
                 PROVE  d \in DOMAIN plan.calls /\ pending'[Id(d)'] = d
      BY <2>1 DEF RunningIsAsked
    <3>1. Id(d)' = Id(d)
      BY <2>1 DEF Id
    <3>2. CASE d = e
      BY <1>1, <2>1, <3>1, <3>2 DEF EngineInv, EngineTypes
    <3>3. CASE d # e
      <4>1. d \in DOMAIN plan.calls /\ pending[Id(d)] = d
        BY <2>4, <3>3 DEF EngineInv, RunningIsAsked
      <4>2. Id(d) \in Ids /\ Id(d) # Id(e)
        BY <2>1, <4>1, EngineAssumption DEF Id, Ids
      <4> QED
        BY <2>1, <3>1, <4>1, <4>2 DEF EngineInv, EngineTypes
    <3> QED
      BY <3>2, <3>3
  <2> QED
    BY <2>6, <2>7, <2>8, <2>9 DEF EngineInv
<1> QED
  BY <1>3, <1>4

\* An identifier comes free with the one call that has it.
LEMMA JoinKeeps ==
  ASSUME EngineInv, NEW e \in DOMAIN plan.calls, Join(e)
  PROVE  EngineInv'
<1> DEFINE v == [exec[e] EXCEPT !.phase = "joined"]
<1>1. e \in Calls /\ Id(e) \in Ids
  BY EngineAssumption DEF EngineInv, EngineTypes, Id, Ids
<1>2. v \in CallRecord /\ v.phase = "joined"
  BY <1>1 DEF EngineInv, EngineTypes, CallRecord
<1>3. /\ exec' = [exec EXCEPT ![e] = v] /\ exec[e].phase \in {"ended", "panicked"}
      /\ UNCHANGED <<plan, server, child>>
  BY <1>1 DEF Join, EngineInv, EngineTypes
<1>4. /\ pending' \in [Ids -> Calls \cup {None}]
      /\ \A i \in Ids : i # Id(e) => pending'[i] = pending[i]
      /\ exec[e].phase = "panicked" => pending' = pending
  BY <1>1 DEF Join, EngineInv, EngineTypes
<1> HIDE DEF v
<1>5. exec' \in [Calls -> CallRecord] /\ \A d \in Calls : exec'[d] = IF d = e THEN v ELSE exec[d]
  BY <1>2, <1>3 DEF EngineInv, EngineTypes
<1>6. EngineTypes'
  BY <1>1, <1>3, <1>4, <1>5 DEF EngineInv, EngineTypes, Ids
<1>7. Permits' = Permits
  BY <1>2, <1>3, <1>5 DEF Permits, Holding, Supervised
<1>8. ChildHasPermit'
  BY <1>2, <1>3, <1>5 DEF EngineInv, ChildHasPermit, Alive, Holding, Supervised
<1>9. RunningIsAsked'
  <2> SUFFICES ASSUME NEW d \in Calls, exec'[d].phase \in InTask \cup {"ended"}
               PROVE  d \in DOMAIN plan.calls /\ pending'[Id(d)'] = d
    BY <1>3 DEF RunningIsAsked
  <2>1. d # e
    BY <1>2, <1>5 DEF InTask, Holding, Supervised
  <2>2. d \in DOMAIN plan.calls /\ pending[Id(d)] = d
    BY <1>5, <2>1 DEF EngineInv, RunningIsAsked
  <2>3. Id(d) \in Ids /\ Id(d)' = Id(d)
    BY <1>3, <2>2 DEF Id, Ids
  <2>4. CASE exec[e].phase = "panicked"
    BY <1>4, <2>2, <2>3, <2>4
  <2>5. CASE exec[e].phase = "ended"
    <3>1. pending[Id(e)] = e
      BY <1>1, <2>5 DEF EngineInv, RunningIsAsked
    <3> QED
      BY <1>4, <2>1, <2>2, <2>3, <3>1
  <2> QED
    BY <1>3, <2>4, <2>5
<1> QED
  BY <1>6, <1>7, <1>8, <1>9 DEF EngineInv, PermitsCounted

LEMMA NotifyCancelledKeeps ==
  ASSUME EngineInv, NEW i \in Ids, NotifyCancelled(i)
  PROVE  EngineInv'
<1> DEFINE e == pending[i]
<1>1. e \in Calls /\ exec[e] \in CallRecord
  BY DEF NotifyCancelled, EngineInv, EngineTypes
<1>2. exec' = [exec EXCEPT ![e] = [exec[e] EXCEPT !.cancelled = TRUE]]
  BY <1>1 DEF NotifyCancelled, EngineInv, EngineTypes
<1>3. /\ exec' \in [Calls -> CallRecord]
      /\ \A d \in Calls : exec'[d].phase = exec[d].phase
  BY <1>1, <1>2 DEF EngineInv, EngineTypes, CallRecord
<1>4. /\ child' \in [Calls -> ChildRecord] /\ \A d \in Calls : Alive(d)' => Alive(d)
      /\ plan' = plan /\ pending' = pending /\ server' = server /\ server \in ServerRecord
  BY DEF EngineInv, EngineTypes, Alive, NotifyCancelled
<1> QED
  BY <1>3, <1>4, PhasesKept

LEMMA LoopKeeps == EngineInv /\ LoopStep => EngineInv'
<1> SUFFICES ASSUME EngineInv, LoopStep PROVE EngineInv'
  OBVIOUS
<1>1. CASE AnswerDirectly \/ Initialize
  <2>1. PICK s \in {server, [server EXCEPT !.hello = "initialized"]} : Replied(s)
    BY <1>1 DEF AnswerDirectly, Initialize
  <2>2. Serving /\ UNCHANGED <<plan, pending, child>>
    BY <1>1 DEF AnswerDirectly, Initialize
  <2>3. s \in ServerRecord /\ s.phase = "serving"
    BY <2>2 DEF EngineInv, EngineTypes, ServerRecord, Serving
  <2> QED
    BY <2>1, <2>2, <2>3, RepliedKeeps
<1> QED
  BY <1>1, WriterKeeps, CallKeeps, JoinKeeps, NotifyCancelledKeeps DEF LoopStep

LEMMA WorksKeeps ==
  ASSUME EngineInv, NEW e \in DOMAIN plan.calls,
         Works(e) \/ Deadline(e) \/ Panic(e)
  PROVE  EngineInv'
<1>1. /\ e \in Calls /\ server \in ServerRecord /\ child \in [Calls -> ChildRecord]
      /\ exec[e] \in CallRecord
  BY EngineAssumption DEF EngineInv, EngineTypes
<1>2. plan' = plan /\ pending' = pending
  BY DEF Works, Deadline, Launch, WriteJob, ReadReply, SeeExit, SeeCrash, SeeCancel,
     Reap, Answer, Panic
<1> DEFINE P == exec[e].phase
           Next1(phase) ==
             /\ Moves(e, phase) /\ phase \in Holding \cup {"answering", "ended", "panicked"}
             /\ P \in InTask
             /\ phase \in Holding => P \in Holding \/ Cardinality(Permits) < MaxWorkers
             /\ server' \in ServerRecord /\ server'.phase = server.phase
             /\ child' \in [Calls -> ChildRecord]
             /\ \A d \in Calls : d # e /\ Alive(d)' => Alive(d)
             /\ Alive(e)' => phase \in Holding \/ (Alive(e) /\ P \notin Holding)
<1>3. ASSUME NEW phase, Next1(phase) PROVE EngineInv'
  <2>1. PICK v \in CallRecord : v.phase = phase /\ exec' = [exec EXCEPT ![e] = v]
    BY <1>1, <1>3, MovesTo
  <2>2. v.phase \in InTask \cup {"ended", "panicked"}
    BY <1>3, <2>1 DEF InTask
  <2> QED
    BY <1>1, <1>2, <1>3, <2>1, <2>2, TaskMoves
<1>4. ASSUME NEW phase \in Supervised \cup {"reaping"}, Moves(e, phase), P \in Supervised,
             server' = server, child' \in [Calls -> ChildRecord],
             \A d \in Calls : Alive(d)' => Alive(d)
      PROVE  EngineInv'
  <2>1. Next1(phase)
    BY <1>1, <1>4 DEF Holding, InTask
  <2> QED
    BY <2>1, <1>3
<1>5. CASE Launch(e)
  <2>1. CASE Moves(e, "writing") /\ child' = [child EXCEPT ![e].state = "boot"]
    <3>1. \A d \in Calls : d # e => child'[d] = child[d]
      BY <1>1, <2>1
    <3>2. child' \in [Calls -> ChildRecord]
      BY <1>1, <2>1 DEF ChildRecord
    <3>3. Next1("writing")
      BY <1>1, <1>5, <2>1, <3>1, <3>2 DEF Launch, InPhase, InTask, Holding, Supervised, Alive
    <3> QED
      BY <3>3, <1>3
  <2>2. CASE Moves(e, "answering") /\ child' = child
    <3>1. Next1("answering")
      BY <1>1, <1>5, <2>2 DEF Launch, InPhase, InTask, Holding, Supervised, Alive
    <3> QED
      BY <3>1, <1>3
  <2> QED
    BY <1>5, <2>1, <2>2 DEF Launch
<1>6. CASE WriteJob(e) \/ ReadReply(e) \/ SeeExit(e) \/ SeeCrash(e)
  <2>1. PICK phase \in Supervised \cup {"reaping"} : Moves(e, phase)
    BY <1>6 DEF WriteJob, ReadReply, SeeExit, SeeCrash, Supervised
  <2>2. P \in Supervised /\ server' = server
    BY <1>6 DEF WriteJob, ReadReply, SeeExit, SeeCrash, Supervised, InPhase
  <2>3. \/ child' = child
        \/ child' = [child EXCEPT ![e].job = TRUE]
        \/ child' = [child EXCEPT ![e].control = "closed"]
    BY <1>6 DEF WriteJob, ReadReply, SeeExit, SeeCrash
  <2>4. child' \in [Calls -> ChildRecord]
    <3>1. child[e] \in ChildRecord
      BY <1>1
    <3>2. /\ [child[e] EXCEPT !.job = TRUE] \in ChildRecord
          /\ [child[e] EXCEPT !.control = "closed"] \in ChildRecord
      BY <3>1 DEF ChildRecord
    <3> QED
      BY <1>1, <2>3, <3>2
  <2>5. ASSUME NEW d \in Calls PROVE child'[d].state = child[d].state
    <3>1. child[d] \in ChildRecord
      BY <1>1
    <3>2. \/ child'[d] = child[d]
          \/ child'[d] = [child[d] EXCEPT !.job = TRUE]
          \/ child'[d] = [child[d] EXCEPT !.control = "closed"]
      BY <1>1, <2>3
    <3> QED
      BY <3>1, <3>2 DEF ChildRecord
  <2> QED
    BY <2>1, <2>2, <2>4, <2>5, <1>4 DEF Alive
<1>7. CASE SeeCancel(e) \/ Deadline(e)
  <2>1. server' = server
    BY <1>7 DEF SeeCancel, Deadline
  <2>2. child' \in [Calls -> ChildRecord] /\ \A d \in Calls : Alive(d)' => Alive(d)
    BY <1>1, <1>7 DEF SeeCancel, Deadline, Alive, ChildRecord
  <2>3. CASE P = "queued" /\ Moves(e, "answering")
    <3>1. Next1("answering")
      BY <1>1, <2>1, <2>2, <2>3 DEF InTask, Holding, Supervised
    <3> QED
      BY <3>1, <1>3
  <2>4. CASE P \in Supervised /\ Moves(e, "reaping")
    BY <2>1, <2>2, <2>4, <1>4
  <2> QED
    BY <1>7, <2>3, <2>4 DEF SeeCancel, Deadline, InPhase
<1>8. CASE Reap(e)
  <2>1. NoChild \in ChildRecord /\ child' = [child EXCEPT ![e] = NoChild]
    BY <1>8 DEF NoChild, ChildRecord, Reap
  <2>2. child' \in [Calls -> ChildRecord] /\ ~Alive(e)'
        /\ \A d \in Calls : d # e => child'[d] = child[d]
    BY <1>1, <2>1 DEF Alive, NoChild
  <2>3. Next1("answering")
    BY <1>1, <1>8, <2>2 DEF Reap, InPhase, InTask, Holding, Alive
  <2> QED
    BY <2>3, <1>3
<1>9. CASE Answer(e)
  <2>1. server' \in ServerRecord /\ server'.phase = server.phase
    BY <1>1, <1>9 DEF Answer, ServerRecord
  <2>2. Next1("ended")
    BY <1>1, <1>9, <2>1 DEF Answer, InPhase, InTask, Holding, Supervised, Alive
  <2> QED
    BY <2>2, <1>3
<1>10. CASE Panic(e)
  <2>1. NoChild \in ChildRecord /\ child' = [child EXCEPT ![e] = NoChild]
    BY <1>10 DEF NoChild, ChildRecord, Panic
  <2>2. child' \in [Calls -> ChildRecord] /\ ~Alive(e)'
        /\ \A d \in Calls : d # e => child'[d] = child[d]
    BY <1>1, <2>1 DEF Alive, NoChild
  <2>3. Next1("panicked")
    BY <1>1, <1>10, <2>2 DEF Panic, InTask, Holding, Supervised, Alive
  <2> QED
    BY <2>3, <1>3
<1> QED
  BY <1>5, <1>6, <1>7, <1>8, <1>9, <1>10 DEF Works

\* A child that is not there, or has ended, does not come back.
LEMMA ChildKeeps ==
  ASSUME EngineInv, NEW e \in DOMAIN plan.calls, ChildStep(e) \/ Crash(e)
  PROVE  EngineInv'
<1>1. /\ e \in Calls /\ server \in ServerRecord /\ child \in [Calls -> ChildRecord]
      /\ exec \in [Calls -> CallRecord]
  BY EngineAssumption DEF EngineInv, EngineTypes
<1>2. UNCHANGED <<plan, server, pending, exec>>
  BY DEF ChildStep, Crash
<1>3. CASE child' = child
  BY <1>1, <1>2, <1>3, PhasesKept DEF Alive
<1>4. CASE \E s \in {"computing", "written", "exited", "failed"} :
             /\ child' = [child EXCEPT ![e].state = s]
             /\ s # "failed" /\ s # "exited" => Alive(e)
  <2>1. child' \in [Calls -> ChildRecord] /\ \A d \in Calls : Alive(d)' => Alive(d)
    BY <1>1, <1>4 DEF ChildRecord, Alive
  <2> QED
    BY <1>1, <1>2, <2>1, PhasesKept
<1>5. Crash(e) \/ ReadJob(e) \/ NoJob(e) \/ Imports(e) \/ Compute(e) \/ Exit(e)
  BY DEF ChildStep
<1> QED
  BY <1>3, <1>4, <1>5 DEF Crash, ReadJob, NoJob, Imports, Compute, Exit, Alive

\* What outlives the server has no task any more.
LEMMA GoneKeeps ==
  ASSUME EngineInv, NEW S, Gone(S), plan' = plan
  PROVE  EngineInv'
<1>1. server \in ServerRecord /\ child \in [Calls -> ChildRecord]
  BY DEF EngineInv, EngineTypes
<1>2. server' \in ServerRecord /\ server'.phase = "aborted"
  BY <1>1 DEF Gone, ServerRecord
<1>3. exec' \in [Calls -> CallRecord] /\ \A d \in Calls : exec'[d].phase = "joined"
  BY DEF Gone, CallRecord
<1>4. child' \in [Calls -> ChildRecord]
  <2> SUFFICES ASSUME NEW d \in Calls
               PROVE  [child[d] EXCEPT !.control = "closed",
                                       !.state = IF d \in S THEN "failed" ELSE @] \in ChildRecord
    BY DEF Gone
  <2> QED
    BY <1>1 DEF ChildRecord
<1>5. pending' \in [Ids -> Calls \cup {None}] /\ Ids' = Ids
  BY DEF Gone, Ids
<1>6. EngineTypes'
  BY <1>2, <1>3, <1>4, <1>5 DEF EngineInv, EngineTypes
<1>7. Permits' = {}
  BY <1>3 DEF Permits, Holding, Supervised
<1>8. PermitsCounted'
  BY <1>7, FS_EmptySet, EngineAssumption DEF PermitsCounted
<1>9. ChildHasPermit' /\ RunningIsAsked'
  BY <1>2, <1>3 DEF ChildHasPermit, RunningIsAsked, InTask, Holding, Supervised
<1> QED
  BY <1>6, <1>8, <1>9 DEF EngineInv

LEMMA EngineInvNext == EngineInv /\ [Next]_vars => EngineInv'
<1> SUFFICES ASSUME EngineInv, [Next]_vars PROVE EngineInv'
  OBVIOUS
<1>1. CASE CommandLineImport \/ UNCHANGED vars
  <2>1. UNCHANGED engineVars
    BY <1>1 DEF CommandLineImport, vars
  <2> QED
    BY <2>1, PhasesKept DEF engineVars, EngineInv, EngineTypes, Alive
<1>2. CASE Abort \/ Outage
  BY <1>2, GoneKeeps DEF Abort, Outage
<1> QED
  BY <1>1, <1>2, LoopKeeps, WorksKeeps, ChildKeeps DEF Next

(* Pending identifiers, tasks, permits and children belong together in every *)
(* phase of a call (main.rs, serve; supervisor.rs, execute).                 *)
THEOREM EngineInvariant == Spec => []EngineInv
<1>1. Spec => Init /\ [][Next]_vars
  BY DEF Spec
<1> QED
  BY <1>1, EngineInvInit, EngineInvNext, PTL

(* Never more children calculate than there are permits, and each under the  *)
(* task of its own call, so serve leaves none behind (supervisor.rs).        *)
THEOREM ChildrenAreHeld == Spec => []ChildrenHeld
BY EngineInvariant, EngineInvHolds, PTL

(* A request identifier names the one call that runs under it, so a          *)
(* cancellation reaches this call and no other (serve, tools/call).          *)
THEOREM RequestsArePending == Spec => []InFlightIsPending
BY EngineInvariant, EngineInvHolds, PTL
=============================================================================
