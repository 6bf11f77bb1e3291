--------------------------- MODULE DatabaseProofs ---------------------------
(***************************************************************************)
(* The database over crashes and restarts: for any number of clients,      *)
(* workers, lives, checkpoints and crashes, and any durability mode.       *)
(* DbInv is inductive, over crashes too (DatabaseStepProofs and            *)
(* RecoveryProofs have the other steps); type correctness and RowIdsFresh  *)
(* follow from it.  On top of it, AckInv gives the durability of           *)
(* acknowledged commits and LsnInv the order of LSNs, as long as nobody    *)
(* writes behind a torn record (the exception database_torn_tail shows);   *)
(* with clients in one life only there is no such record, and no condition *)
(* is left.                                                                *)
(***************************************************************************)
EXTENDS RecoveryProofs

\* more time than by default for every step that names no prover
USE SMTT(30), ZenonT(30)

\* An empty log has no records.
LEMMA EmptyLog == \A i \in 1..Len(<< >>) : FALSE
  OBVIOUS

-----------------------------------------------------------------------------
(* Crashes *)

\* A process starts with a manager that satisfies its invariant.
LEMMA FreshManager == TMInit' => TMInv'
<1>1. TMInit => TMInv
  BY TMInitInv, Zenon
<1> QED BY <1>1, PTL

\* What is left of memory is an empty table that nobody uses.
LEMMA MemoryLostShape ==
  ASSUME MemoryLost, DbInv
  PROVE  TMInv' /\ MemoryShape' /\ WorkersShape' /\ RowIdsRaised' /\ ClientsShape'
<1>1. TMInv'
  BY FreshManager, Zenon DEF MemoryLost, TMInit
<1>2. /\ delta' = << >> /\ base_segments' = << >> /\ inserting' = << >> /\ next_pos' = 1
      /\ next_segment_id' = 1 /\ next_row_id' = 1 /\ compacting' = NotCompacting
  BY Zenon DEF MemoryLost
<1>3. MemoryShape'
  <2>1. Bounded(DOMAIN base_segments')
    BY <1>2, EmptyManifest DEF NoManifest
  <2>2. compacting' \in [running : BOOLEAN, oldest_active : Nat, todo : SUBSET DOMAIN delta',
                         live_stable_rows : SUBSET StoredRow,
                         stably_deleted_row_ids : SUBSET Nat, retained : SUBSET DOMAIN delta']
    BY <1>2, ZenonT(30) DEF NotCompacting
  <2> QED BY <1>2, <2>1, <2>2, TableAssumption DEF MemoryShape, Bounded
<1>4. /\ phase' = "closed" /\ redo' = ForEachWorker({}) /\ redo_step' = ForEachWorker("begin")
      /\ redo_txn' = ForEachWorker(0) /\ expected' = ForEachWorker(0) /\ active_txn_ids' = {}
  BY ZenonT(30) DEF MemoryLost
<1>5. WorkersShape'
  BY <1>4, ZenonT(30) DEF WorkersShape, ForEachWorker, Busy
<1>6. RowIdsRaised'
  BY <1>2, <1>4 DEF RowIdsRaised, ForEachWorker, base, Range, NotCompacting
<1>7. ClientsShape'
  <2>1. logging' = << >> /\ ending' = << >> /\ checkpoint'.step = "none"
    BY ZenonT(30) DEF MemoryLost, NoCheckpoint
  <2> QED BY <1>2, <1>4, <2>1 DEF ClientsShape, NotCompacting
<1> QED BY <1>1, <1>3, <1>5, <1>6, <1>7, ZenonT(30)

\* What a crash leaves of the log is a prefix of it, with perhaps a torn record behind,
\* and the prefix holds all that is safe from the crash.
LEMMA FilesLeft ==
  ASSUME FileShape, NEW appending, NEW file \in PowerLossFiles(appending)
  PROVE  \E n \in synced..Len(wal_file) :
           /\ file \in Seq(LogRecord) /\ Len(file) \in {n, n + 1}
           /\ \A i \in 1..n : file[i] = wal_file[i]
           /\ Len(file) = n + 1 => file[n + 1] = Torn
<1>1. wal_file \in Seq(LogRecord) /\ synced \in Nat /\ synced <= Len(wal_file) /\ Len(wal_file) \in Nat
  BY DEF FileShape
<1>2. Torn \in LogRecord
  BY TableAssumption DEF Torn, WalRecord, LogRecord
<1>3. ASSUME NEW f \in Seq(LogRecord), NEW n \in synced..Len(wal_file), Len(f) = n,
             \A i \in 1..n : f[i] = wal_file[i], file \in {f, Append(f, Torn)}
      PROVE  /\ file \in Seq(LogRecord) /\ Len(file) \in {n, n + 1}
             /\ \A i \in 1..n : file[i] = wal_file[i]
             /\ Len(file) = n + 1 => file[n + 1] = Torn
  <2>1. CASE file = f
    BY <1>1, <1>3, <2>1
  <2>2. CASE file = Append(f, Torn)
    BY <1>1, <1>2, <1>3, <2>2
  <2> QED BY <1>3, <2>1, <2>2, ZenonT(30)
<1>4. CASE file \in KilledFiles(appending)
  <2>1. file \in {wal_file, Append(wal_file, Torn)}
    BY <1>4, ZenonT(30) DEF KilledFiles
  <2>2. Len(wal_file) \in synced..Len(wal_file)
    BY <1>1
  <2> QED BY <1>1, <1>3, <2>1, <2>2, ZenonT(30)
<1>5. CASE file \notin KilledFiles(appending)
  <2>1. PICK n \in synced..(Len(wal_file) - 1) :
          file \in {SubSeq(wal_file, 1, n), Append(SubSeq(wal_file, 1, n), Torn)}
    BY <1>5, ZenonT(30) DEF PowerLossFiles
  <2>2. PICK f : f = SubSeq(wal_file, 1, n)
    BY ZenonT(30)
  <2>3. n \in Nat /\ n \in synced..Len(wal_file) /\ n \in 0..Len(wal_file)
    BY <1>1, <2>1
  <2>4. f \in Seq(LogRecord) /\ Len(f) = n /\ \A i \in 1..n : f[i] = wal_file[i]
    BY <1>1, <2>2, <2>3
  <2> QED BY <1>3, <2>1, <2>2, <2>3, <2>4, ZenonT(30)
<1> QED BY <1>4, <1>5, ZenonT(30)

\* A kill takes none of the log.
LEMMA FilesKilled ==
  ASSUME FileShape, NEW appending, NEW file \in KilledFiles(appending)
  PROVE  /\ file \in Seq(LogRecord) /\ Len(file) \in {Len(wal_file), Len(wal_file) + 1}
         /\ \A i \in 1..Len(wal_file) : file[i] = wal_file[i]
         /\ Len(file) = Len(wal_file) + 1 => file[Len(wal_file) + 1] = Torn
<1>1. wal_file \in Seq(LogRecord)
  BY ZenonT(30) DEF FileShape
<1>2. Torn \in LogRecord
  BY TableAssumption DEF Torn, WalRecord, LogRecord
<1>3. CASE file = wal_file
  BY <1>1, <1>3
<1>4. CASE file = Append(wal_file, Torn)
  BY <1>1, <1>2, <1>4
<1> QED BY <1>3, <1>4, ZenonT(30) DEF KilledFiles

\* The log left behind has a logical content for each of its prefixes.
LEMMA LogLeftShape ==
  ASSUME NEW file, LogLeft(file)
  PROVE  wal_file' = file /\ logical' = [i \in 1..Len(wal_file') |-> logical'[i]]
BY DEF LogLeft

\* What MemoryLost says of the files' writers.
LEMMA FilesAfterCrash ==
  ASSUME DbInv, MemoryLost, crashes' = crashes + 1, wal_file' \in Seq(LogRecord),
         synced' \in 0..Len(wal_file'), logical' = [i \in 1..Len(wal_file') |-> logical'[i]],
         segment_files' \in [DOMAIN segment_files' -> [rows : SUBSET StoredRow, whole : BOOLEAN]],
         manifest' \in Manifest, Bounded(manifest'.segment_files)
  PROVE  DbInv'
<1>1. /\ syncing' = 0 /\ next_lsn' = 1 /\ last_wal_lsn' = 0
      /\ checkpoint' = [NoCheckpoint EXCEPT !.runs = checkpoint.runs]
  BY Zenon DEF MemoryLost
<1>2. checkpoint.runs \in Nat /\ crashes' \in Nat
  BY DEF DbInv, FileShape
<1>3. checkpoint' \in [step : {"none", "compact", "save", "saving", "manifest"},
                       wal_lsn : Nat, todo : SUBSET DOMAIN base_segments', runs : Nat]
      /\ checkpoint'.step = "none" /\ checkpoint'.todo = {}
  BY <1>1, <1>2 DEF NoCheckpoint
<1>4. FileShape'
  BY <1>1, <1>2, <1>3 DEF FileShape, Manifest, Bounded
<1> QED BY <1>4, MemoryLostShape, ZenonT(30) DEF DbInv

\* A kill keeps DbInv.
LEMMA KillInv ==
  ASSUME DbInv, Kill
  PROVE  DbInv'
<1>1. PICK file \in KilledFiles(Appending) : LogLeft(file)
  BY ZenonT(30) DEF Kill
<1>2. /\ MemoryLost /\ crashes' = crashes + 1 /\ UNCHANGED <<synced, segment_files, manifest>>
  BY ZenonT(30) DEF Kill, fileVars
<1>3. FileShape /\ wal_file' = file /\ logical' = [i \in 1..Len(wal_file') |-> logical'[i]]
  BY <1>1, LogLeftShape, ZenonT(30) DEF DbInv
<1>4. file \in Seq(LogRecord) /\ Len(file) \in {Len(wal_file), Len(wal_file) + 1}
  BY <1>1, <1>3, FilesKilled, ZenonT(30)
<1>5. synced' \in 0..Len(wal_file')
  BY <1>2, <1>3, <1>4 DEF FileShape
<1> QED BY <1>2, <1>3, <1>4, <1>5, FilesAfterCrash, ZenonT(30) DEF FileShape, Manifest

\* A power failure keeps DbInv.
LEMMA PowerLossInv ==
  ASSUME DbInv, PowerLoss
  PROVE  DbInv'
<1>1. PICK file \in PowerLossFiles(Appending) : LogLeft(file) /\ synced' = Len(file)
  BY ZenonT(30) DEF PowerLoss
<1>2. PICK lost \in SUBSET DOMAIN segment_files :
        segment_files' = [s \in DOMAIN segment_files |->
          IF s \in lost THEN [rows |-> {}, whole |-> FALSE] ELSE segment_files[s]]
  BY ZenonT(30) DEF PowerLoss
<1>3. MemoryLost /\ crashes' = crashes + 1 /\ manifest' \in {manifest, NoManifest}
  BY ZenonT(30) DEF PowerLoss
<1>4. FileShape /\ wal_file' = file /\ logical' = [i \in 1..Len(wal_file') |-> logical'[i]]
  BY <1>1, LogLeftShape, ZenonT(30) DEF DbInv
<1>5. file \in Seq(LogRecord)
  BY <1>1, <1>4, FilesLeft, ZenonT(30)
<1>6. synced' \in 0..Len(wal_file')
  BY <1>1, <1>4, <1>5
<1>7. segment_files' \in [DOMAIN segment_files' -> [rows : SUBSET StoredRow, whole : BOOLEAN]]
  BY <1>2, <1>4, ZenonT(30) DEF FileShape
<1>8. manifest' \in Manifest /\ Bounded(manifest'.segment_files)
  BY <1>3, <1>4, EmptyManifest, ZenonT(30) DEF FileShape, Manifest
<1> QED BY <1>3, <1>4, <1>5, <1>6, <1>7, <1>8, FilesAfterCrash, ZenonT(30)

-----------------------------------------------------------------------------
(* Every reachable state *)

\* The first process starts with DbInv.
LEMMA DbInitInv ==
  ASSUME DbInit
  PROVE  DbInv
<1>1. TMInv
  BY TMInitInv, Zenon DEF DbInit, TableInit
<1>2. PICK m : m = Max(BaseRows \cup {0})
  BY Zenon
<1>3. m \in 0..MaxRow /\ \A r \in BaseRows : r <= m
  <2>1. BaseRows \cup {0} \in SUBSET Nat /\ \A x \in BaseRows \cup {0} : x <= MaxRow
    BY TableAssumption
  <2>2. m \in BaseRows \cup {0} /\ \A x \in BaseRows \cup {0} : x <= m
    BY <1>2, <2>1, MaxIsGreatest, TableAssumption, Zenon
  <2> QED BY <2>1, <2>2, TableAssumption
<1>4. /\ delta = << >> /\ inserting = << >> /\ next_pos = 1 /\ next_row_id = m + 1
      /\ next_segment_id \in Nat /\ compacting = NotCompacting
      /\ base_segments = IF BaseRows = {} THEN << >>
                         ELSE [s \in {1} |-> {[row_id |-> r, row |-> 0] : r \in BaseRows}]
  BY <1>2, ZenonT(30) DEF DbInit, TableInit
<1>5. base_segments \in [DOMAIN base_segments -> SUBSET StoredRow] /\ DOMAIN base_segments \subseteq 0..1
  <2>1. {[row_id |-> r, row |-> 0] : r \in BaseRows} \in SUBSET StoredRow
    BY TableAssumption DEF StoredRow
  <2>2. CASE BaseRows = {}
    BY <1>4, <2>2
  <2>3. CASE BaseRows # {}
    BY <1>4, <2>1, <2>3
  <2> QED BY <2>2, <2>3, ZenonT(30)
<1>6. ASSUME NEW b \in base PROVE b.row_id \in BaseRows
  <2>1. PICK s \in DOMAIN base_segments : b \in base_segments[s]
    BY ZenonT(30) DEF base, Range
  <2>2. BaseRows = {} => DOMAIN base_segments = {}
    BY <1>4
  <2>3. base_segments[s] = {[row_id |-> r, row |-> 0] : r \in BaseRows}
    BY <1>4, <2>1, <2>2, ZenonT(30)
  <2>4. PICK r \in BaseRows : b = [row_id |-> r, row |-> 0]
    BY <2>1, <2>3, ZenonT(30)
  <2> QED BY <2>4, ZenonT(30)
<1>7. MemoryShape
  <2>1. Bounded(DOMAIN base_segments)
    BY <1>5, BoundedSets
  <2>2. compacting \in [running : BOOLEAN, oldest_active : Nat, todo : SUBSET DOMAIN delta,
                        live_stable_rows : SUBSET StoredRow,
                        stably_deleted_row_ids : SUBSET Nat, retained : SUBSET DOMAIN delta]
    BY <1>4, Zenon DEF NotCompacting
  <2> QED BY <1>3, <1>4, <1>5, <2>1, <2>2, TableAssumption DEF MemoryShape
<1>8. /\ phase = "closed" /\ redo = ForEachWorker({}) /\ redo_step = ForEachWorker("begin")
      /\ redo_txn = ForEachWorker(0) /\ expected = ForEachWorker(0) /\ active_txn_ids = {}
      /\ logging = << >> /\ ending = << >> /\ checkpoint = NoCheckpoint
  BY ZenonT(30) DEF DbInit, RecoveryInit, TableInit, TMInit
<1>9. WorkersShape
  BY <1>8, ZenonT(30) DEF WorkersShape, ForEachWorker, Busy
<1>10. ClientsShape
  BY <1>4, <1>8 DEF ClientsShape, NotCompacting, NoCheckpoint
<1>11. RowIdsRaised
  <2>1. \A b \in base \cup compacting.live_stable_rows : b.row_id < next_row_id
    <3>1. compacting.live_stable_rows = {} /\ next_row_id = m + 1 /\ m \in Nat
      BY <1>3, <1>4, TableAssumption DEF NotCompacting
    <3>2. \A b \in base : b.row_id \in Nat /\ b.row_id <= m
      BY <1>3, <1>6, TableAssumption, ZenonT(30)
    <3> QED BY <3>1, <3>2
  <2>2. \A w \in Workers : redo_step[w] # "raise"
    BY <1>8, ZenonT(30) DEF ForEachWorker
  <2> QED BY <1>4, <2>1, <2>2 DEF RowIdsRaised
<1>12. FileShape
  <2>1. /\ wal_file = << >> /\ synced = 0 /\ syncing = 0 /\ next_lsn = 1 /\ last_wal_lsn = 0
        /\ crashes = 0 /\ logical = << >> /\ segment_files = << >> /\ manifest = NoManifest
    BY Zenon DEF DbInit, WalInit, RecoveryInit
  <2>2. checkpoint \in [step : {"none", "compact", "save", "saving", "manifest"},
                        wal_lsn : Nat, todo : SUBSET DOMAIN base_segments, runs : Nat]
    BY <1>8, Zenon DEF NoCheckpoint
  <2>3. manifest \in Manifest /\ Bounded(manifest.segment_files)
    BY <2>1, EmptyManifest, ZenonT(30)
  <2> QED BY <1>8, <2>1, <2>2, <2>3 DEF FileShape, Manifest, NoCheckpoint
<1> QED BY <1>1, <1>7, <1>9, <1>10, <1>11, <1>12, ZenonT(30) DEF DbInv

\* Every step keeps DbInv.
LEMMA DbStepInv ==
  ASSUME DbInv, [DbNext]_dbVars
  PROVE  DbInv'
<1>1. CASE DbNext
  BY <1>1, DbBeginInv, DbWriteInv, DbFinishInv, DbDeltaInsertInv, DbAppendInv, DbEndInv,
     DbSyncInv, DbCheckpointInv, DbRecoverInv, KillInv, PowerLossInv, ZenonT(30) DEF DbNext
<1>2. CASE UNCHANGED dbVars
  <2>1. /\ UNCHANGED <<tmVars, tableVars>>
        /\ UNCHANGED <<walVars, phase, workerVars, last_wal_lsn, fileVars, checkpoint>>
        /\ UNCHANGED <<clientVars, logical>>
    BY <1>2, ZenonT(30) DEF dbVars, vars, recoveryVars, redoVars
  <2>2. TMInv' /\ MemoryShape' /\ RowIdsRaised' /\ FileShape'
    BY <2>1, ManagerFrame, MemoryFrame, RaisedStutter, FileFrame, ZenonT(30)
       DEF DbInv, walVars, clientVars, tableVars, baseVars
  <2>3. WorkersShape' /\ ClientsShape'
    BY <2>1, ZenonT(30) DEF DbInv, WorkersShape, Busy, ClientsShape, workerVars, tmVars, tableVars, clientVars,
                walVars
  <2> QED BY <2>2, <2>3, ZenonT(30) DEF DbInv
<1> QED BY <1>1, <1>2, ZenonT(30)

\* In every reachable state the parts fit together: who may be at work in which phase of
\* the process, that what the workers replay is in the log, that every row id of the
\* table is below the allocator or about to be.
THEOREM DbInvariant == DbSpec => []DbInv
<1>1. DbInit => DbInv
  BY DbInitInv, Zenon
<1>2. DbInv /\ [DbNext]_dbVars => DbInv'
  BY DbStepInv, Zenon
<1> QED BY <1>1, <1>2, PTL DEF DbSpec

\* When Recover has returned, and from then on while the process runs, a later Insert
\* never meets a row id of the table: InsertWithRowId's loop has put the allocator past
\* every replayed row, in whatever order the workers got to it, and LoadBaseSegments past
\* every row of the checkpoint.
THEOREM RowIdsStayFresh == DbSpec => []RowIdsFresh
<1>1. DbInv => RowIdsFresh
  <2> SUFFICES ASSUME DbInv, Recovered \/ phase = "open"
               PROVE  \A r \in RowIds(base) \cup {delta[p].row_id : p \in DOMAIN delta} :
                        r < next_row_id
    BY ZenonT(30) DEF RowIdsFresh
  <2>1. \A w \in Workers : redo_step[w] = "begin"
    BY ZenonT(30) DEF DbInv, WorkersShape, Busy, Recovered
  <2>2. \A x : Raised(x) => x < next_row_id
    BY <2>1, ZenonT(30) DEF Raised
  <2> QED BY <2>2, ZenonT(30) DEF DbInv, RowIdsRaised, RowIds
<1> QED BY <1>1, DbInvariant, PTL

\* Outside an open database at most the workers' transactions are active.
LEMMA FewActive ==
  ASSUME DbInv, phase # "open"
  PROVE  Cardinality(active_txn_ids) <= NumWorkers
<1>1. IsFiniteSet(Workers) /\ Cardinality(Workers) = NumWorkers
  BY FS_Interval, RecoveryAssumption DEF Workers
<1>2. PICK ids : ids = {redo_txn[w] : w \in Workers}
  BY ZenonT(30)
<1>3. redo_txn \in Surjection(Workers, ids)
  BY <1>2 DEF DbInv, WorkersShape, Surjection
<1>4. IsFiniteSet(ids) /\ Cardinality(ids) <= NumWorkers
  BY <1>1, <1>3, FS_Surjection, Zenon
<1>5. active_txn_ids \in SUBSET ids
  BY <1>2 DEF DbInv, WorkersShape
<1>6. IsFiniteSet(active_txn_ids) /\ Cardinality(active_txn_ids) <= Cardinality(ids)
  BY <1>4, <1>5, FS_Subset, ZenonT(30)
<1>7. Cardinality(active_txn_ids) \in Nat /\ Cardinality(ids) \in Nat
  BY <1>4, <1>6, FS_CardinalityType, ZenonT(30)
<1> QED BY <1>4, <1>6, <1>7, RecoveryAssumption

\* Every variable of the database keeps its type, for every value of the constants.
THEOREM DbTypeCorrect == DbSpec => []DbTypeOK
<1>1. DbInv => DbTypeOK
  <2> SUFFICES ASSUME DbInv
               PROVE  DbTypeOK
    BY ZenonT(30)
  <2>1. /\ phase \in {"closed", "redo", "open"}
        /\ redo_step \in [Workers -> {"begin", "apply", "insert", "raise", "commit"}]
        /\ redo_txn \in [Workers -> Nat] /\ expected \in [Workers -> Nat]
        /\ \A w \in Workers : redo[w] # {} => phase = "redo"
    BY ZenonT(30) DEF DbInv, WorkersShape
  <2>2. synced \in 0..Len(wal_file) /\ syncing \in Nat /\ next_lsn \in Nat \ {0}
    BY ZenonT(30) DEF DbInv, FileShape
  <2>3. \A i \in 1..Len(wal_file) : wal_file[i].type \in WalRecordType \cup {"torn"}
    <3>1. wal_file \in Seq(LogRecord)
      BY ZenonT(30) DEF DbInv, FileShape
    <3>2. \A i \in 1..Len(wal_file) : wal_file[i] \in LogRecord
      BY <3>1
    <3> QED BY <3>2, ZenonT(30) DEF LogRecord
  <2>4. Len(logical) = Len(wal_file)
    BY LogicalAppend DEF DbInv, FileShape
  <2>5. DOMAIN logging \cup DOMAIN ending \subseteq active_txn_ids
    BY DEF DbInv, ClientsShape
  <2> QED BY <2>1, <2>2, <2>3, <2>4, <2>5, FewActive, ZenonT(30) DEF DbTypeOK
<1> QED BY <1>1, DbInvariant, PTL

-----------------------------------------------------------------------------
(* Acknowledged commits *)

\* What the steps other than an append, an end and a crash do to the log.
LEMMA LogKept ==
  ASSUME \/ DbBegin
         \/ \E t \in active_txn_ids : DbWrite(t) \/ DbFinish(t)
         \/ \E t \in DOMAIN inserting : DbDeltaInsert(t)
         \/ DbSync \/ DbCheckpoint \/ DbRecover
  PROVE  /\ UNCHANGED <<wal_file, ending, acked, crashes>>
         /\ UNCHANGED <<synced, syncing>> \/ (synced' = Len(wal_file) /\ syncing' = 0)
<1>1. CASE DbBegin
  BY <1>1, ZenonT(30) DEF DbBegin, walVars
<1>2. ASSUME NEW t \in active_txn_ids, DbWrite(t) \/ DbFinish(t)
      PROVE  UNCHANGED <<wal_file, ending, acked, crashes, synced, syncing>>
  BY <1>2, ZenonT(30) DEF DbWrite, DbFinish, walVars
<1>3. ASSUME NEW t \in DOMAIN inserting, DbDeltaInsert(t)
      PROVE  UNCHANGED <<wal_file, ending, acked, crashes, synced, syncing>>
  BY <1>3, ZenonT(30) DEF DbDeltaInsert, walVars
<1>4. CASE DbSync
  BY <1>4, ZenonT(30) DEF DbSync, SyncRecord, clientVars
<1>5. CASE DbCheckpoint
  <2>1. UNCHANGED walVars \/ Flush
    BY <1>5, ZenonT(30) DEF DbCheckpoint, Checkpoint, CheckpointBegin, CheckpointCompact, SaveBegin, SaveEnd,
                TruncateManifest, WriteManifest, CheckpointFails
  <2>2. UNCHANGED <<ending, acked, crashes>>
    BY <1>5, ZenonT(30) DEF DbCheckpoint, clientVars
  <2> QED BY <2>1, <2>2, ZenonT(30) DEF Flush, walVars
<1>6. CASE DbRecover
  <2>1. UNCHANGED walVars \/ OpenForAppend(StartingLsn)
    <3>1. Recover => UNCHANGED walVars
      BY ZenonT(30) DEF Recover
    <3>2. OpenWriter => OpenForAppend(StartingLsn)
      BY ZenonT(30) DEF OpenWriter
    <3>3. \A w \in Workers : ApplyOp(w) => UNCHANGED walVars
      BY Zenon DEF ApplyOp, RedoBegin, RedoApply, RedoInsert, RedoRaise, RedoCommit
    <3> QED BY <1>6, <3>1, <3>2, <3>3, ZenonT(30) DEF DbRecover, Redo
  <2>2. UNCHANGED <<ending, acked, crashes>>
    BY <1>6, ZenonT(30) DEF DbRecover, clientVars
  <2> QED BY <2>1, <2>2, ZenonT(30) DEF OpenForAppend, walVars
<1> QED BY <1>1, <1>2, <1>3, <1>4, <1>5, <1>6, ZenonT(30)

\* What is safe is part of the log.
LEMMA SafeInLog ==
  ASSUME FileShape
  PROVE  Safe \in 0..Len(wal_file) /\ Len(wal_file) \in Nat /\ wal_file \in Seq(LogRecord)
BY DEF FileShape, Safe

\* Steps that keep the log and force no less of it keep AckInv.
LEMMA AckKept ==
  ASSUME DbInv, AckInv, UNCHANGED <<wal_file, ending, acked>>,
         UNCHANGED <<synced, syncing>> \/ (synced' = Len(wal_file) /\ syncing' = 0)
  PROVE  AckInv'
<1>1. Safe \in 0..Len(wal_file) /\ Len(wal_file) \in Nat
  BY SafeInLog, Zenon DEF DbInv
<1>2. \A t : CommitsOf(t)' = CommitsOf(t) /\ CommitsOf(t) \subseteq 1..Len(wal_file)
  BY Zenon DEF CommitsOf
<1>3. CASE UNCHANGED <<synced, syncing>>
  <2>1. Safe' = Safe
    BY <1>3, ZenonT(30) DEF Safe
  <2> QED BY <1>2, <1>3, <2>1, ZenonT(30) DEF AckInv
<1>4. CASE synced' = Len(wal_file) /\ syncing' = 0
  <2>1. Safe' = Len(wal_file)
    BY <1>4, Zenon DEF Safe
  <2>2. acked \in 0..Len(wal_file)
    BY <1>1 DEF AckInv
  <2>3. \A t : \A i \in CommitsOf(t) : i <= Len(wal_file)
    BY <1>1, <1>2
  <2> QED BY <1>1, <1>2, <2>1, <2>2, <2>3, ZenonT(30) DEF AckInv
<1> QED BY <1>3, <1>4, Zenon

\* An append keeps AckInv: a COMMIT is forced before its client goes on, or need not be.
LEMMA AckAppend ==
  ASSUME Forcing, DbInv, AckInv, NEW t \in DOMAIN logging, DbAppend(t)
  PROVE  AckInv'
<1>1. FileShape /\ ClientsShape /\ AppendRecord(logging[t])
  BY Zenon DEF DbInv, DbAppend
<1>2. PICK n : n = Len(wal_file)
  BY ZenonT(30)
<1>3. PICK rec : rec = logging[t]
  BY ZenonT(30)
<1>4. /\ Len(wal_file') = n + 1 /\ \A i \in 1..n : wal_file'[i] = wal_file[i]
      /\ wal_file'[n + 1].txn_id = t /\ wal_file'[n + 1].type = rec.type
  BY <1>1, <1>2, <1>3, AppendEffect, ZenonT(30)
<1>5. Safe \in 0..n /\ n \in Nat
  BY <1>1, <1>2, SafeInLog, ZenonT(30)
<1>6. /\ syncing = 0 /\ synced' = synced /\ syncing' = (IF ShouldSync(rec) THEN rec.txn_id ELSE 0)
      /\ acked' = acked /\ rec.txn_id = t
      /\ ending' = IF rec.type \in {"kCommit", "kAbort"} THEN Extend(ending, t, rec.type) ELSE ending
  BY <1>1, <1>3, ZenonT(30) DEF AppendRecord, DbAppend, ClientsShape
<1>7. Safe' \in Safe..(n + 1) /\ ("power" \notin Crashes => Safe' = n + 1)
  BY <1>2, <1>4, <1>5, <1>6 DEF Safe
<1>8. acked' \in 0..Safe' /\ \A i \in 1..acked' : wal_file'[i] # Torn
  BY <1>4, <1>5, <1>6, <1>7 DEF AckInv
<1>9. ASSUME NEW u \in DOMAIN ending', ending'[u] = "kCommit"
      PROVE  CommitsOf(u)' # {} /\ (syncing' = u \/ \A i \in CommitsOf(u)' : i <= Safe')
  <2>1. CASE u # t
    <3>1. u \in DOMAIN ending /\ ending[u] = "kCommit"
      BY <1>6, <1>9, <2>1, ZenonT(30) DEF Extend
    <3>2. CommitsOf(u)' = CommitsOf(u)
      <4>1. \A i \in 1..(n + 1) : i \in 1..n \/ i = n + 1
        BY <1>5
      <4>2. \A i \in 1..n : i \in 1..(n + 1)
        BY <1>5
      <4> QED BY <1>2, <1>4, <2>1, <4>1, <4>2, ZenonT(30) DEF CommitsOf
    <3>3. u # 0
      <4>1. u \in active_txn_ids
        BY <1>1, <3>1, Zenon DEF ClientsShape
      <4> QED BY <4>1, ActiveIds DEF DbInv
    <3>4. CommitsOf(u) # {} /\ \A i \in CommitsOf(u) : i <= Safe
      BY <1>6, <3>1, <3>3, ZenonT(30) DEF AckInv
    <3>5. \A i \in CommitsOf(u) : i \in Nat
      BY <1>2, <1>5 DEF CommitsOf
    <3> QED BY <1>5, <1>7, <3>2, <3>4, <3>5
  <2>2. CASE u = t
    <3>1. rec.type = "kCommit"
      <4>1. t \notin DOMAIN ending
        BY <1>1, Zenon DEF ClientsShape
      <4> QED BY <1>6, <1>9, <2>2, <4>1, ZenonT(30) DEF Extend
    <3>2. n + 1 \in CommitsOf(u)' /\ \A i \in CommitsOf(u)' : i <= n + 1
      BY <1>4, <1>5, <2>2, <3>1 DEF CommitsOf
    <3>3. CASE ShouldSync(rec)
      BY <1>6, <2>2, <3>2, <3>3, ZenonT(30)
    <3>4. CASE ~ShouldSync(rec)
      <4>1. "power" \notin Crashes
        BY <3>1, <3>4, WalAssumption, ZenonT(30) DEF ShouldSync, Forcing
      <4> QED BY <1>7, <3>2, <4>1, ZenonT(30)
    <3> QED BY <3>3, <3>4, Zenon
  <2> QED BY <2>1, <2>2, ZenonT(30)
<1> QED BY <1>8, <1>9, ZenonT(30) DEF AckInv

\* Database::Commit's return keeps AckInv where no client works behind a torn record.
LEMMA AckEnd ==
  ASSUME DbInv, TailWhole, AckInv, NEW t \in DOMAIN ending, DbEnd(t)
  PROVE  AckInv'
<1>1. /\ UNCHANGED <<wal_file, synced, syncing>> /\ syncing # t
      /\ \/ ending[t] = "kCommit" /\ acked' = Max({acked, CommitAt(t)})
         \/ acked' = acked
      /\ ending' = Restrict(ending, DOMAIN ending \ {t})
  BY ZenonT(30) DEF DbEnd, walVars
<1>2. Safe' = Safe /\ \A u : CommitsOf(u)' = CommitsOf(u)
  BY <1>1, ZenonT(30) DEF Safe, CommitsOf
<1>3. Safe \in 0..Len(wal_file) /\ Len(wal_file) \in Nat
  BY SafeInLog, ZenonT(30) DEF DbInv
<1>4. \A i \in 1..Len(wal_file) : wal_file[i] # Torn
  BY LoggingOpen, ZenonT(30) DEF DbInv, TailWhole
<1>5. acked' \in 0..Safe
  <2>1. acked \in 0..Safe
    BY ZenonT(30) DEF AckInv
  <2>2. CASE ending[t] = "kCommit" /\ acked' = Max({acked, CommitAt(t)})
    <3>1. PICK S : S = CommitsOf(t)
      BY ZenonT(30)
    <3>2. S # {} /\ (\A i \in S : i <= Safe) /\ S \in SUBSET (1..Len(wal_file))
      BY <1>1, <2>2, <3>1, ZenonT(30) DEF AckInv, CommitsOf
    <3>3. S \in SUBSET Nat /\ Safe \in Nat
      BY <1>3, <3>2
    <3>4. PICK c : c = CommitAt(t)
      BY ZenonT(30)
    <3>5. c = Max(S)
      BY <3>1, <3>4, ZenonT(30) DEF CommitAt, CommitsOf
    <3>6. c \in S
      BY <3>2, <3>3, <3>5, MaxIsGreatest, ZenonT(30)
    <3>7. c \in 0..Safe
      BY <3>2, <3>3, <3>6
    <3>8. {acked, c} \in SUBSET Nat /\ {acked, c} # {} /\ \A x \in {acked, c} : x <= Safe
      BY <1>3, <2>1, <3>7
    <3>9. Max({acked, c}) \in {acked, c}
      BY <3>3, <3>8, MaxIsGreatest, Zenon
    <3> QED BY <2>1, <2>2, <3>4, <3>7, <3>9, ZenonT(30)
  <2> QED BY <1>1, <2>1, <2>2, ZenonT(30)
<1>6. \A i \in 1..acked' : wal_file'[i] # Torn
  BY <1>1, <1>3, <1>4, <1>5
<1>7. DOMAIN ending' = DOMAIN ending \ {t} /\ \A u \in DOMAIN ending' : ending'[u] = ending[u]
  BY <1>1, Zenon DEF Restrict
<1> QED BY <1>1, <1>2, <1>5, <1>6, <1>7, ZenonT(30) DEF AckInv

\* A crash keeps AckInv: it takes none of what is safe.
LEMMA AckCrash ==
  ASSUME DbInv, AckInv, Kill \/ PowerLoss
  PROVE  AckInv'
<1>1. Safe \in 0..Len(wal_file) /\ Len(wal_file) \in Nat /\ FileShape /\ synced \in 0..Len(wal_file)
  BY SafeInLog, ZenonT(30) DEF DbInv, FileShape
<1>2. ending' = << >> /\ acked' = acked
  BY Zenon DEF Kill, PowerLoss, MemoryLost
<1>3. Len(wal_file') \in Nat /\ Safe' \in Nat /\ Safe <= Safe'
      /\ \A i \in 1..Safe : wal_file'[i] = wal_file[i]
  <2>1. CASE Kill
    <3>1. PICK file \in KilledFiles(Appending) : LogLeft(file)
      BY <2>1, Zenon DEF Kill
    <3>2. wal_file' = file /\ synced' = synced
      BY <2>1, <3>1, Zenon DEF Kill, LogLeft
    <3>3. /\ file \in Seq(LogRecord) /\ Len(file) \in {Len(wal_file), Len(wal_file) + 1}
          /\ \A i \in 1..Len(wal_file) : file[i] = wal_file[i]
      BY <1>1, <3>1, FilesKilled, ZenonT(30)
    <3> QED BY <1>1, <3>2, <3>3 DEF Safe
  <2>2. CASE PowerLoss
    <3>1. PICK file \in PowerLossFiles(Appending) : LogLeft(file) /\ synced' = Len(file)
      BY <2>2, ZenonT(30) DEF PowerLoss
    <3>2. wal_file' = file /\ "power" \in Crashes
      BY <2>2, <3>1, ZenonT(30) DEF PowerLoss, LogLeft
    <3>3. PICK n \in synced..Len(wal_file) :
            /\ file \in Seq(LogRecord) /\ Len(file) \in {n, n + 1}
            /\ \A i \in 1..n : file[i] = wal_file[i]
      BY <1>1, <3>1, FilesLeft, ZenonT(30)
    <3>4. Safe = synced /\ Safe' = Len(file)
      BY <3>1, <3>2, ZenonT(30) DEF Safe
    <3> QED BY <1>1, <3>2, <3>3, <3>4
  <2> QED BY <2>1, <2>2, ZenonT(30)
<1>4. acked' \in 0..Safe' /\ \A i \in 1..acked' : wal_file'[i] # Torn
  BY <1>1, <1>2, <1>3 DEF AckInv
<1> QED BY <1>2, <1>4 DEF AckInv

\* Every step keeps AckInv where no client works behind a torn record.
LEMMA AckStep ==
  ASSUME Forcing, DbInv, TailWhole, AckInv, [DbNext]_dbVars
  PROVE  AckInv'
<1>1. CASE \/ DbBegin
           \/ \E t \in active_txn_ids : DbWrite(t) \/ DbFinish(t)
           \/ \E t \in DOMAIN inserting : DbDeltaInsert(t)
           \/ DbSync \/ DbCheckpoint \/ DbRecover
  <2>1. /\ UNCHANGED <<wal_file, ending, acked>>
        /\ UNCHANGED <<synced, syncing>> \/ (synced' = Len(wal_file) /\ syncing' = 0)
    BY <1>1, LogKept, ZenonT(30)
  <2> QED BY <2>1, AckKept, ZenonT(30)
<1>2. CASE UNCHANGED dbVars
  <2>1. UNCHANGED <<wal_file, ending, acked, synced, syncing>>
    BY <1>2, Zenon DEF dbVars, walVars, clientVars
  <2> QED BY <2>1, AckKept, ZenonT(30)
<1> QED BY <1>1, <1>2, AckAppend, AckEnd, AckCrash, ZenonT(30) DEF DbNext

\* What AckInv is for: the reader reaches every acknowledged COMMIT.
LEMMA AckedRead ==
  ASSUME DbInv, AckInv
  PROVE  AckedCommitsSurvive
<1>1. wal_file \in Seq(LogRecord) /\ Safe \in 0..Len(wal_file) /\ Len(wal_file) \in Nat
  BY SafeInLog, Zenon DEF DbInv
<1>2. PICK n : n = Len(ReadAll(wal_file))
  BY ZenonT(30)
<1>3. n \in 0..Len(wal_file) /\ (n < Len(wal_file) => wal_file[n + 1] = Torn)
  BY <1>1, <1>2, ReadAllShape, Zenon
<1>4. acked \in 0..Safe /\ \A i \in 1..acked : wal_file[i] # Torn
  BY Zenon DEF AckInv
<1>5. ~(n < acked)
  <2> SUFFICES ASSUME n < acked
               PROVE  FALSE
    BY Zenon
  <2>1. n + 1 \in 1..acked /\ n < Len(wal_file)
    BY <1>1, <1>3, <1>4
  <2> QED BY <1>3, <1>4, <2>1, ZenonT(30)
<1> QED BY <1>1, <1>2, <1>3, <1>4, <1>5 DEF AckedCommitsSurvive

\* Where a COMMIT is forced as the crashes call for, and while no client works behind a
\* torn record: the last COMMIT that Database::Commit has returned for lies where no crash
\* reaches and behind nothing torn, and a Commit about to return has its COMMIT in the log,
\* forced or being forced, over any number of crashes, restarts and checkpoints.
THEOREM AckInvariant ==
  ASSUME Forcing
  PROVE  DbSpec /\ []TailWhole => []AckInv
<1>1. DbInit => AckInv
  <2> SUFFICES ASSUME DbInit
               PROVE  AckInv
    BY Zenon
  <2>1. wal_file = << >> /\ synced = 0 /\ acked = 0 /\ ending = << >>
    BY Zenon DEF DbInit, WalInit
  <2> QED BY <2>1 DEF AckInv, Safe
<1>2. DbInv /\ TailWhole /\ AckInv /\ [DbNext]_dbVars => AckInv'
  BY AckStep, Zenon
<1> QED BY <1>1, <1>2, DbInvariant, PTL DEF DbSpec

\* So an acknowledged commit can be lost in one way only: by a client of a later process
\* whose records are appended behind a piece that a crash left.  As long as none works
\* there, every COMMIT that Database::Commit has returned for stays in the part of the log
\* that ReadAll returns.
THEOREM AckedCommitsKept ==
  ASSUME Forcing
  PROVE  DbSpec /\ []TailWhole => []AckedCommitsSurvive
<1>1. DbInv /\ AckInv => AckedCommitsSurvive
  BY AckedRead, Zenon
<1> QED BY <1>1, AckInvariant, DbInvariant, PTL

-----------------------------------------------------------------------------
(* LSNs *)

\* Of the steps in a process only an append, Recover and OpenWriter matter to LsnInv.
LEMMA LsnKept ==
  ASSUME \/ DbBegin
         \/ \E t \in active_txn_ids : DbWrite(t) \/ DbFinish(t)
         \/ \E t \in DOMAIN inserting : DbDeltaInsert(t)
         \/ \E t \in DOMAIN ending : DbEnd(t)
         \/ DbSync \/ DbCheckpoint
         \/ \E w \in Workers : ApplyOp(w) /\ UNCHANGED clientVars
         \/ UNCHANGED dbVars
  PROVE  UNCHANGED <<wal_file, next_lsn, last_wal_lsn, phase, crashes>>
<1>1. CASE DbBegin
  BY <1>1, Zenon DEF DbBegin, walVars, recoveryVars, redoVars
<1>2. ASSUME NEW t \in active_txn_ids, DbWrite(t) \/ DbFinish(t)
      PROVE  UNCHANGED <<wal_file, next_lsn, last_wal_lsn, phase, crashes>>
  BY <1>2, Zenon DEF DbWrite, DbFinish, walVars, recoveryVars, redoVars
<1>3. ASSUME NEW t \in DOMAIN inserting, DbDeltaInsert(t)
      PROVE  UNCHANGED <<wal_file, next_lsn, last_wal_lsn, phase, crashes>>
  BY <1>3, Zenon DEF DbDeltaInsert, walVars, recoveryVars, redoVars
<1>4. ASSUME NEW t \in DOMAIN ending, DbEnd(t)
      PROVE  UNCHANGED <<wal_file, next_lsn, last_wal_lsn, phase, crashes>>
  BY <1>4, Zenon DEF DbEnd, walVars, recoveryVars, redoVars
<1>5. CASE DbSync
  BY <1>5, ZenonT(30) DEF DbSync, SyncRecord, clientVars, recoveryVars, redoVars
<1>6. CASE DbCheckpoint
  <2>1. (UNCHANGED walVars \/ Flush) /\ UNCHANGED redoVars
    BY <1>6, ZenonT(30) DEF DbCheckpoint, Checkpoint, CheckpointBegin, CheckpointCompact, SaveBegin, SaveEnd,
                TruncateManifest, WriteManifest, CheckpointFails
  <2> QED BY <1>6, <2>1, ZenonT(30) DEF DbCheckpoint, clientVars, Flush, walVars, redoVars
<1>7. ASSUME NEW w \in Workers, ApplyOp(w), UNCHANGED clientVars
      PROVE  UNCHANGED <<wal_file, next_lsn, last_wal_lsn, phase, crashes>>
  <2>1. UNCHANGED walVars /\ UNCHANGED phase /\ UNCHANGED last_wal_lsn
    BY <1>7, Zenon DEF ApplyOp, RedoBegin, RedoApply, RedoInsert, RedoRaise, RedoCommit
  <2> QED BY <1>7, <2>1, ZenonT(30) DEF walVars, clientVars
<1>8. CASE UNCHANGED dbVars
  BY <1>8, Zenon DEF dbVars, walVars, recoveryVars, redoVars, clientVars
<1> QED BY <1>1, <1>2, <1>3, <1>4, <1>5, <1>6, <1>7, <1>8, ZenonT(30)

\* LSNs are numbers.
LEMMA LsnsNat ==
  ASSUME NEW file \in Seq(LogRecord)
  PROVE  \A i \in 1..Len(file) : file[i].lsn \in Nat
<1>1. \A i \in 1..Len(file) : file[i] \in LogRecord
  OBVIOUS
<1> QED BY <1>1, ZenonT(30) DEF LogRecord

\* An append keeps LsnInv: its LSN is past those of the log.
LEMMA LsnAppend ==
  ASSUME DbInv, LsnInv, NEW t \in DOMAIN logging, DbAppend(t)
  PROVE  LsnInv'
<1>1. FileShape /\ ClientsShape /\ AppendRecord(logging[t])
  BY Zenon DEF DbInv, DbAppend
<1>2. PICK n : n = Len(wal_file)
  BY ZenonT(30)
<1>3. /\ Len(wal_file') = n + 1 /\ \A i \in 1..n : wal_file'[i] = wal_file[i]
      /\ wal_file'[n + 1].lsn = next_lsn
  BY <1>1, <1>2, AppendEffect, ZenonT(30)
<1>4. n \in Nat /\ next_lsn \in Nat /\ \A i \in 1..n : wal_file[i].lsn \in Nat
  BY <1>1, <1>2, LsnsNat DEF FileShape
<1>5. /\ phase = "open" /\ phase' = "open" /\ crashes < ClientLives /\ crashes' = crashes
      /\ next_lsn' = next_lsn + 1
  BY <1>1, LoggingOpen, Zenon DEF DbAppend, AppendRecord, recoveryVars, redoVars
<1>6. \A i \in 1..n : wal_file[i] # Torn => wal_file[i].lsn < next_lsn
  BY <1>2, <1>5, Zenon DEF LsnInv
<1>7. \A i \in 1..(n + 1) : wal_file'[i] # Torn => wal_file'[i].lsn < next_lsn'
  <2>1. \A i \in 1..(n + 1) : i \in 1..n \/ i = n + 1
    BY <1>4
  <2> QED BY <1>3, <1>4, <1>5, <1>6, <2>1
<1>8. LsnsIncrease'
  <2> SUFFICES ASSUME NEW i \in 1..(n + 1), NEW j \in 1..(n + 1), i < j,
                      wal_file'[i] # Torn, wal_file'[j] # Torn
               PROVE  wal_file'[i].lsn < wal_file'[j].lsn
    BY <1>3, Zenon DEF LsnsIncrease
  <2>1. i \in 1..n /\ (j \in 1..n \/ j = n + 1)
    BY <1>4
  <2>2. CASE j \in 1..n
    BY <1>2, <1>3, <2>1, <2>2, ZenonT(30) DEF LsnInv, LsnsIncrease
  <2>3. CASE j = n + 1
    BY <1>3, <1>6, <2>1, <2>3, ZenonT(30)
  <2> QED BY <2>1, <2>2, <2>3, ZenonT(30)
<1> QED BY <1>3, <1>5, <1>7, <1>8, ZenonT(30) DEF LsnInv

\* Recover keeps LsnInv where it reads all of the log and of the checkpoint.
LEMMA LsnRecover ==
  ASSUME DbInv, RestartsWhole, LsnInv, Recover, UNCHANGED clientVars
  PROVE  LsnInv'
<1>1. phase = "closed" /\ phase' = "redo" /\ wal_file' = wal_file /\ crashes' = crashes
  BY Zenon DEF Recover, walVars, clientVars
<1>2. LsnsIncrease'
  BY <1>1, Zenon DEF LsnInv, LsnsIncrease
<1>3. ASSUME crashes < ClientLives, NEW i \in 1..Len(wal_file), wal_file[i] # Torn
      PROVE  wal_file[i].lsn <= last_wal_lsn'
  <2>1. PICK records : records = ReadAll(wal_file)
    BY ZenonT(30)
  <2>2. wal_file \in Seq(LogRecord) /\ manifest.last_lsn \in Nat
    BY Zenon DEF DbInv, FileShape
  <2>3. PICK n : n = Len(records)
    BY Zenon
  <2>4. /\ records \in Seq(LogRecord) /\ n \in 0..Len(wal_file)
        /\ \A k \in 1..n : records[k] = wal_file[k] /\ wal_file[k] # Torn
    BY <2>1, <2>2, <2>3, ReadAllShape, ZenonT(30)
  <2>5. i <= n /\ SegmentsLoad
    BY <1>1, <1>3, <2>1, <2>3, ZenonT(30) DEF RestartsWhole
  <2>6. n \in 1..Len(wal_file) /\ i \in 1..n
    BY <2>4, <2>5
  <2>7. \A k \in 1..Len(wal_file) : wal_file[k].lsn \in Nat
    BY <2>2, LsnsNat, ZenonT(30)
  <2>8. wal_file[i].lsn <= wal_file[n].lsn
    <3>1. CASE i = n
      BY <2>6, <2>7, <3>1
    <3>2. CASE i < n
      BY <1>3, <2>4, <2>6, <2>7, <3>2 DEF LsnInv, LsnsIncrease
    <3> QED BY <2>6, <3>1, <3>2
  <2>9. LastValidLsn(records) = wal_file[n].lsn
    <3>1. records # << >>
      BY <2>3, <2>4, <2>6
    <3> QED BY <2>3, <2>4, <2>6, <3>1 DEF LastValidLsn
  <2>10. last_wal_lsn' = Max({wal_file[n].lsn, manifest.last_lsn})
    BY <2>1, <2>5, <2>9, ZenonT(30) DEF Recover
  <2>11. PICK a : a = wal_file[n].lsn
    BY Zenon
  <2>12. PICK b : b = manifest.last_lsn
    BY Zenon
  <2>13. a \in Nat /\ b \in Nat
    BY <2>2, <2>6, <2>7, <2>11, <2>12, ZenonT(30)
  <2>14. a <= Max({a, b})
    <3>1. {a, b} \in SUBSET Nat /\ {a, b} # {} /\ a + b \in Nat /\ \A x \in {a, b} : x <= a + b
      BY <2>13
    <3> QED BY <3>1, MaxIsGreatest, ZenonT(30)
  <2>15. Max({a, b}) \in Nat
    <3>1. {a, b} \in SUBSET Nat /\ {a, b} # {} /\ a + b \in Nat /\ \A x \in {a, b} : x <= a + b
      BY <2>13
    <3> QED BY <2>13, <3>1, MaxIsGreatest, ZenonT(30)
  <2> QED BY <2>6, <2>7, <2>8, <2>10, <2>11, <2>12, <2>13, <2>14, <2>15
<1> QED BY <1>1, <1>2, <1>3, ZenonT(30) DEF LsnInv

\* The writer opened behind the log keeps LsnInv.
LEMMA LsnOpen ==
  ASSUME DbInv, LsnInv, OpenWriter, UNCHANGED clientVars
  PROVE  LsnInv'
<1>1. /\ phase = "redo" /\ phase' = "open" /\ wal_file' = wal_file /\ crashes' = crashes
      /\ next_lsn' = last_wal_lsn + 1
  BY ZenonT(30) DEF OpenWriter, Recovered, OpenForAppend, StartingLsn, clientVars
<1>2. last_wal_lsn \in Nat /\ \A i \in 1..Len(wal_file) : wal_file[i].lsn \in Nat
  BY LsnsNat, ZenonT(30) DEF DbInv, FileShape
<1> QED BY <1>1, <1>2 DEF LsnInv, LsnsIncrease

\* A crash keeps LsnInv: what is left is a prefix of the log.
LEMMA LsnCrash ==
  ASSUME DbInv, LsnInv, Kill \/ PowerLoss
  PROVE  LsnInv'
<1>1. phase' = "closed"
  BY Zenon DEF Kill, PowerLoss, MemoryLost
<1>2. PICK n \in 0..Len(wal_file) :
        /\ Len(wal_file') \in {n, n + 1} /\ \A i \in 1..n : wal_file'[i] = wal_file[i]
        /\ Len(wal_file') = n + 1 => wal_file'[n + 1] = Torn
  <2>1. FileShape /\ Len(wal_file) \in Nat /\ synced \in Nat
    BY DEF DbInv, FileShape
  <2>2. PICK file \in PowerLossFiles(Appending) : wal_file' = file
    BY Zenon DEF Kill, PowerLoss, LogLeft, PowerLossFiles
  <2>3. PICK n \in synced..Len(wal_file) :
          /\ Len(file) \in {n, n + 1} /\ \A i \in 1..n : file[i] = wal_file[i]
          /\ Len(file) = n + 1 => file[n + 1] = Torn
    BY <2>1, <2>2, FilesLeft, Zenon
  <2>4. n \in 0..Len(wal_file)
    BY <2>1, <2>3
  <2> QED BY <2>2, <2>3, <2>4, ZenonT(30)
<1>3. Len(wal_file) \in Nat
  BY DEF DbInv, FileShape
<1>4. LsnsIncrease'
  <2> SUFFICES ASSUME NEW i \in 1..Len(wal_file'), NEW j \in 1..Len(wal_file'), i < j,
                      wal_file'[i] # Torn, wal_file'[j] # Torn
               PROVE  wal_file'[i].lsn < wal_file'[j].lsn
    BY Zenon DEF LsnsIncrease
  <2>1. i \in 1..n /\ j \in 1..n
    BY <1>2, <1>3
  <2>2. i \in 1..Len(wal_file) /\ j \in 1..Len(wal_file)
    BY <1>2, <1>3, <2>1
  <2> QED BY <1>2, <2>1, <2>2, Zenon DEF LsnInv, LsnsIncrease
<1> QED BY <1>1, <1>4, ZenonT(30) DEF LsnInv

\* Every step keeps LsnInv where a process that will serve clients reads all there is.
LEMMA LsnStep ==
  ASSUME DbInv, RestartsWhole, LsnInv, [DbNext]_dbVars
  PROVE  LsnInv'
<1>1. CASE UNCHANGED <<wal_file, next_lsn, last_wal_lsn, phase, crashes>>
  BY <1>1, ZenonT(30) DEF LsnInv, LsnsIncrease
<1>2. CASE DbRecover
  BY <1>1, <1>2, LsnRecover, LsnOpen, LsnKept, ZenonT(30) DEF DbRecover, Redo
<1> QED BY <1>1, <1>2, LsnKept, LsnAppend, LsnCrash, ZenonT(30) DEF DbNext

\* Over any number of crashes, the LSN that the constructor gives its writer, and the one
\* that Append gives the next record, are past every LSN of the log, unless a process
\* serves clients after a recovery that could not load a checkpoint segment or that
\* stopped in front of intact records.
THEOREM LsnInvariant == DbSpec /\ []RestartsWhole => []LsnInv
<1>1. DbInit => LsnInv
  BY DEF DbInit, WalInit, LsnInv, LsnsIncrease
<1>2. DbInv /\ RestartsWhole /\ LsnInv /\ [DbNext]_dbVars => LsnInv'
  BY LsnStep, ZenonT(30)
<1> QED BY <1>1, <1>2, DbInvariant, PTL DEF DbSpec

\* So LSNs grow along the log, over any number of crashes and restarts: those two are the
\* only ways to an LSN that the log or its checkpoint already has.
THEOREM LsnsKeepIncreasing == DbSpec /\ []RestartsWhole => []LsnsIncrease
<1>1. LsnInv => LsnsIncrease
  BY DEF LsnInv
<1> QED BY <1>1, LsnInvariant, PTL

-----------------------------------------------------------------------------
(* One life: no client comes back after a crash *)

\* A process that has not started does nothing but start.
LEMMA ClosedStarts ==
  ASSUME DbInv, phase = "closed", DbNext, ~Kill, ~PowerLoss
  PROVE  Recover \/ UNCHANGED <<phase, manifest>>
<1>1. active_txn_ids = {} /\ checkpoint.step = "none" /\ ~compacting.running
  BY WorkersRest, ZenonT(30) DEF DbInv, WorkersShape, ClientsShape, Busy
<1>2. DOMAIN inserting = {} /\ DOMAIN logging = {} /\ DOMAIN ending = {}
  BY <1>1, ZenonT(30) DEF DbInv, ClientsShape
<1>3. ~DbBegin
  BY Zenon DEF DbBegin, Serving
<1>4. ~DbCheckpoint
  BY <1>1, Zenon DEF DbCheckpoint, Checkpoint, CheckpointBegin, CheckpointCompact, SaveBegin, SaveEnd,
              TruncateManifest, WriteManifest, CheckpointFails
<1>5. DbSync => UNCHANGED <<phase, manifest>>
  BY Zenon DEF DbSync, recoveryVars, redoVars, fileVars
<1>6. DbRecover => Recover
  <2>1. ~OpenWriter
    BY Zenon DEF OpenWriter, Recovered
  <2>2. \A w \in Workers : ~ApplyOp(w)
    BY WorkersRest, ZenonT(30) DEF DbInv, ApplyOp, RedoBegin, RedoApply, RedoInsert, RedoRaise, RedoCommit
  <2> QED BY <2>1, <2>2, Zenon DEF DbRecover, Redo
<1> QED BY <1>1, <1>2, <1>3, <1>4, <1>5, <1>6, ZenonT(30) DEF DbNext

\* before the first crash nothing is torn, and the first process starts from nothing
FirstLife ==
  crashes = 0 => /\ \A i \in 1..Len(wal_file) : wal_file[i] # Torn
                 /\ phase = "closed" => wal_file = << >> /\ manifest.segment_files = {}

\* Every step keeps FirstLife.
LEMMA FirstLifeStep ==
  ASSUME DbInv, FirstLife, [DbNext]_dbVars
  PROVE  FirstLife'
<1>1. CASE Kill \/ PowerLoss
  <2>1. crashes' = crashes + 1 /\ crashes \in Nat
    BY <1>1, ZenonT(30) DEF Kill, PowerLoss, DbInv, FileShape
  <2> QED BY <2>1 DEF FirstLife
<1>2. ASSUME NEW t \in DOMAIN logging, DbAppend(t)
      PROVE  FirstLife'
  <2>1. FileShape /\ ClientsShape /\ AppendRecord(logging[t])
    BY <1>2, Zenon DEF DbInv, DbAppend
  <2>2. PICK n : n = Len(wal_file)
    BY ZenonT(30)
  <2>3. /\ Len(wal_file') = n + 1 /\ \A i \in 1..n : wal_file'[i] = wal_file[i]
        /\ wal_file'[n + 1].type = logging[t].type
    BY <2>1, <2>2, AppendEffect, ZenonT(30)
  <2>4. wal_file'[n + 1] # Torn
    <3>1. Torn.type = "torn" /\ logging[t].type # "torn"
      BY <2>1, Zenon DEF Torn, WalRecord, ClientsShape, WalRecordType, DataRecords
    <3> QED BY <2>3, <3>1, Zenon
  <2>5. phase' = "open" /\ crashes' = crashes
    BY <1>2, <2>1, LoggingOpen, ZenonT(30) DEF DbAppend, recoveryVars, redoVars
  <2>6. n \in Nat /\ \A i \in 1..(n + 1) : i \in 1..n \/ i = n + 1
    BY <2>1, <2>2 DEF FileShape
  <2> QED BY <2>2, <2>3, <2>4, <2>5, <2>6, ZenonT(30) DEF FirstLife
<1>3. CASE UNCHANGED dbVars
  BY <1>3, Zenon DEF FirstLife, dbVars, walVars, recoveryVars, redoVars, fileVars, clientVars
<1>4. CASE DbNext /\ ~Kill /\ ~PowerLoss /\ wal_file' = wal_file /\ crashes' = crashes
  <2>1. CASE phase = "closed"
    <3>1. Recover \/ UNCHANGED <<phase, manifest>>
      BY <1>4, <2>1, ClosedStarts, Zenon
    <3>2. Recover => phase' = "redo"
      BY Zenon DEF Recover
    <3> QED BY <1>4, <3>1, <3>2, Zenon DEF FirstLife
  <2>2. CASE phase # "closed"
    <3>1. phase' # "closed"
      <4>1. CASE UNCHANGED phase
        BY <2>2, <4>1, Zenon
      <4>2. CASE DbRecover
        BY <2>2, <4>1, <4>2, LsnKept, ZenonT(30) DEF DbRecover, Redo, Recover, OpenWriter
      <4>3. CASE \E t \in DOMAIN logging : DbAppend(t)
        BY <4>1, <4>3, Zenon DEF DbAppend, recoveryVars, redoVars
      <4> QED BY <1>4, <4>1, <4>2, <4>3, LsnKept, ZenonT(30) DEF DbNext
    <3> QED BY <1>4, <3>1, Zenon DEF FirstLife
  <2> QED BY <2>1, <2>2, Zenon
<1>5. CASE \E t \in DOMAIN ending : DbEnd(t)
  <2>1. UNCHANGED <<wal_file, crashes>> /\ DbNext
    BY <1>5, Zenon DEF DbEnd, walVars, DbNext
  <2> QED BY <1>1, <1>4, <2>1, Zenon
<1> QED BY <1>1, <1>2, <1>3, <1>4, <1>5, LogKept, ZenonT(30) DEF DbNext

\* Before the first crash the log is whole.
LEMMA FirstLifeInvariant == DbSpec => []FirstLife
<1>1. DbInit => FirstLife
  <2>1. DbInit => wal_file = << >> /\ manifest = NoManifest
    BY Zenon DEF DbInit, WalInit, RecoveryInit
  <2>2. NoManifest.segment_files = {}
    BY Zenon DEF NoManifest
  <2> QED BY <2>1, <2>2, EmptyLog, Zenon DEF FirstLife
<1>2. DbInv /\ FirstLife /\ [DbNext]_dbVars => FirstLife'
  BY FirstLifeStep, Zenon
<1> QED BY <1>1, <1>2, DbInvariant, PTL DEF DbSpec

\* If clients work with the first process only, then whatever crashes follow, and however
\* often recovery itself is interrupted, no acknowledged COMMIT is lost.
THEOREM FirstLifeDurable ==
  ASSUME Forcing, ClientLives <= 1
  PROVE  DbSpec => []AckedCommitsSurvive
<1>1. DbInv /\ FirstLife => TailWhole
  BY DatabaseAssumption DEF DbInv, FileShape, FirstLife, TailWhole
<1> QED BY <1>1, FirstLifeInvariant, DbInvariant, AckedCommitsKept, PTL

\* Then LSNs grow along the log as well.
THEOREM FirstLifeLsns ==
  ASSUME ClientLives <= 1
  PROVE  DbSpec => []LsnsIncrease
<1>1. DbInv /\ FirstLife => RestartsWhole
  <2> SUFFICES ASSUME DbInv, FirstLife, phase = "closed", crashes < ClientLives
               PROVE  SegmentsLoad /\ \A i \in 1..Len(wal_file) : wal_file[i] # Torn => i <= Len(ReadAll(wal_file))
    BY ZenonT(30) DEF RestartsWhole
  <2>1. crashes = 0
    BY DatabaseAssumption DEF DbInv, FileShape
  <2>2. wal_file = << >> /\ manifest.segment_files = {}
    BY <2>1, Zenon DEF FirstLife
  <2> QED BY <2>2, EmptyLog, Zenon DEF SegmentsLoad
<1> QED BY <1>1, FirstLifeInvariant, DbInvariant, LsnsKeepIncreasing, PTL
=============================================================================
