--------------------------- MODULE RecoveryProofs ---------------------------
(***************************************************************************)
(* Every step of recovery, with any number of workers, keeps DbInv.        *)
(***************************************************************************)
EXTENDS DatabaseStepProofs

\* more time than by default for every step that names no prover
USE SMTT(30), ZenonT(30)

\* What ReadAll returns: the records in front of the first torn one.
LEMMA ReadAllShape ==
  ASSUME NEW file \in Seq(LogRecord)
  PROVE  /\ ReadAll(file) \in Seq(LogRecord) /\ Len(ReadAll(file)) \in 0..Len(file)
         /\ \A i \in 1..Len(ReadAll(file)) : ReadAll(file)[i] = file[i] /\ file[i] # Torn
         /\ Len(ReadAll(file)) < Len(file) => file[Len(ReadAll(file)) + 1] = Torn
<1> DEFINE S == {i \in 1..Len(file) : file[i] = Torn} \cup {Len(file) + 1}
<1>1. Len(file) \in Nat
  OBVIOUS
<1>2. S \in SUBSET Nat /\ S # {}
  BY <1>1
<1>3. PICK m : m = Min(S)
  BY ZenonT(30)
<1>4. m \in S /\ \A x \in S : m <= x
  BY <1>2, <1>3, MinIsLeast, ZenonT(30)
<1>5. m \in 1..(Len(file) + 1)
  BY <1>1, <1>4
<1>6. ReadAll(file) = SubSeq(file, 1, m - 1)
  BY <1>3, Zenon DEF ReadAll
<1>7. m - 1 \in 0..Len(file)
  BY <1>1, <1>5
<1>8. ReadAll(file) \in Seq(LogRecord) /\ Len(ReadAll(file)) = m - 1
  BY <1>6, <1>7
<1>9. ASSUME NEW i \in 1..(m - 1) PROVE ReadAll(file)[i] = file[i] /\ file[i] # Torn
  <2>1. i \in Nat /\ i < m /\ i \in 1..Len(file)
    BY <1>1, <1>5
  <2>2. i \notin S
    BY <1>4, <1>5, <2>1
  <2> QED BY <1>6, <1>7, <2>1, <2>2
<1>10. m - 1 < Len(file) => file[m] = Torn
  BY <1>1, <1>4, <1>5
<1> QED BY <1>5, <1>7, <1>8, <1>9, <1>10

\* LoadBaseSegments puts the allocator past every row it loads.
LEMMA LoadMemory ==
  ASSUME DbInv, phase = "closed", SegmentsLoad, UNCHANGED redo_step,
         LoadBaseSegments([s \in manifest.segment_files |-> segment_files[s].rows])
  PROVE  MemoryShape' /\ RowIdsRaised'
<1>1. PICK files : files = manifest.segment_files
  BY Zenon
<1>2. /\ files \subseteq DOMAIN segment_files /\ Bounded(files)
      /\ \A s \in files : segment_files[s].rows \subseteq StoredRow
  BY <1>1, ZenonT(30) DEF SegmentsLoad, LoadsFromFile, DbInv, FileShape
<1>3. PICK segs : segs = [s \in files |-> segment_files[s].rows]
  BY ZenonT(30)
<1>4. DOMAIN segs = files /\ segs \in [files -> SUBSET StoredRow]
  BY <1>2, <1>3, ZenonT(30)
<1>5. PICK rows : rows = UNION Range(segs)
  BY ZenonT(30)
<1>6. rows \subseteq StoredRow
  BY <1>4, <1>5, ZenonT(30) DEF Range
<1>7. /\ base_segments' = segs
      /\ next_row_id' = Max({next_row_id} \cup {b.row_id + 1 : b \in rows})
      /\ next_segment_id' = Max({next_segment_id} \cup {s + 1 : s \in files})
      /\ delta' = delta /\ next_pos' = next_pos /\ inserting' = inserting
      /\ compacting' = compacting
  BY <1>1, <1>3, <1>4, <1>5, ZenonT(30) DEF LoadBaseSegments, deltaVars
<1>8. next_row_id \in 1..(MaxRow + 1) /\ MaxRow \in Nat /\ next_segment_id \in Nat
  BY TableAssumption, ZenonT(30) DEF DbInv, MemoryShape
<1>9. /\ next_row_id' \in 1..(MaxRow + 1) /\ next_row_id <= next_row_id'
      /\ \A b \in rows : b.row_id < next_row_id'
  <2> DEFINE S == {next_row_id} \cup {b.row_id + 1 : b \in rows}
  <2>1. \A b \in rows : b.row_id \in 0..MaxRow
    BY <1>6, Zenon DEF StoredRow
  <2>2. S \in SUBSET Nat /\ S # {} /\ MaxRow + 1 \in Nat /\ \A x \in S : x \in 1..(MaxRow + 1)
    BY <1>8, <2>1
  <2>3. \A x \in S : x <= MaxRow + 1
    BY <1>8, <2>2
  <2> HIDE DEF S
  <2>4. Max(S) \in S /\ \A x \in S : x <= Max(S)
    BY <2>2, <2>3, MaxIsGreatest, ZenonT(30)
  <2>5. next_row_id \in S /\ \A b \in rows : b.row_id + 1 \in S
    BY Zenon DEF S
  <2>6. next_row_id' = Max(S)
    BY <1>7, Zenon DEF S
  <2>7. next_row_id' \in 1..(MaxRow + 1) /\ \A x \in S : x <= next_row_id'
    <3>1. next_row_id' \in S /\ \A x \in S : x <= next_row_id'
      BY <2>4, <2>6, ZenonT(30)
    <3>2. next_row_id' \in 1..(MaxRow + 1)
      BY <2>2, <3>1, ZenonT(30)
    <3> QED BY <3>1, <3>2, ZenonT(30)
  <2>8. next_row_id <= next_row_id'
    BY <2>5, <2>7, Zenon
  <2>9. ASSUME NEW b \in rows
        PROVE  b.row_id < next_row_id'
    <3>1. b.row_id + 1 <= next_row_id'
      BY <2>5, <2>7, Zenon
    <3> QED BY <1>8, <2>1, <2>7, <3>1
  <2> QED BY <2>7, <2>8, <2>9, ZenonT(30)
<1>10. next_segment_id' \in Nat
  <2> DEFINE S == {next_segment_id} \cup {s + 1 : s \in files}
  <2>1. PICK n \in Nat : files \subseteq 0..n
    BY <1>2, ZenonT(30) DEF Bounded
  <2>2. S \in SUBSET Nat /\ S # {} /\ next_segment_id + n + 1 \in Nat
        /\ \A x \in S : x <= next_segment_id + n + 1
    BY <1>8, <2>1
  <2> HIDE DEF S
  <2>3. Max(S) \in S
    BY <2>2, MaxIsGreatest, ZenonT(30)
  <2>4. next_segment_id' = Max(S)
    BY <1>7, Zenon DEF S
  <2> QED BY <2>2, <2>3, <2>4, ZenonT(30)
<1>11. Bounded(DOMAIN base_segments)' /\ base' = rows
  BY <1>2, <1>4, <1>5, <1>7, ZenonT(30) DEF Bounded, base
<1>12. MemoryShape'
  BY <1>4, <1>7, <1>9, <1>10, <1>11, ZenonT(30) DEF DbInv, MemoryShape
<1>13. \A w \in Workers : redo_step'[w] = "begin"
  BY WorkersRest, Zenon DEF DbInv
<1>14. /\ \A p \in DOMAIN delta : delta[p].row_id \in Nat /\ delta[p].row_id < next_row_id
       /\ \A t \in DOMAIN inserting : inserting[t].row_id \in Nat /\ inserting[t].row_id < next_row_id
       /\ \A b \in compacting.live_stable_rows : b.row_id \in Nat /\ b.row_id < next_row_id
  BY RestRaised DEF DbInv, MemoryShape, StoredRecord, StoredRow
<1>15. /\ \A p \in DOMAIN delta' : delta'[p].row_id < next_row_id'
       /\ \A t \in DOMAIN inserting' : inserting'[t].row_id < next_row_id'
       /\ \A b \in compacting'.live_stable_rows : b.row_id < next_row_id'
  <2>1. \A x \in Nat : x < next_row_id => x < next_row_id'
    BY <1>8, <1>9
  <2> QED BY <1>7, <1>14, <2>1, Zenon
<1>16. RowIdsRaised'
  BY <1>9, <1>11, <1>13, <1>15, ZenonT(30) DEF RowIdsRaised, Raised
<1> QED BY <1>12, <1>16, Zenon

\* Recover up to the workers keeps DbInv.
LEMMA RecoverInv ==
  ASSUME DbInv, Recover, UNCHANGED <<clientVars, logical>>
  PROVE  DbInv'
<1>1. /\ phase = "closed" /\ phase' = "redo" /\ UNCHANGED tmVars
      /\ UNCHANGED <<walVars, redo_step, redo_txn, expected, fileVars, checkpoint>>
      /\ inserting' = inserting /\ compacting' = compacting
  BY Zenon DEF Recover, LoadBaseSegments, vars, tableVars
<1>2. TMInv'
  BY <1>1, ManagerFrame, ZenonT(30) DEF DbInv
<1>3. PICK records : records = ReadAll(wal_file)
  BY Zenon
<1>4. records \in Seq(LogRecord) /\ Len(records) \in 0..Len(wal_file) /\ wal_file \in Seq(LogRecord)
  BY <1>3, ReadAllShape, ZenonT(30) DEF DbInv, FileShape
<1>5. MemoryShape' /\ RowIdsRaised'
  <2>1. CASE SegmentsLoad
    BY <1>1, <2>1, LoadMemory, ZenonT(30) DEF Recover
  <2>2. CASE ~SegmentsLoad
    <3>1. UNCHANGED tableVars
      BY <2>2, Zenon DEF Recover, vars
    <3> QED BY <1>1, <3>1, MemoryFrame, RaisedFrame, ZenonT(30) DEF DbInv
  <2> QED BY <2>1, <2>2, ZenonT(30)
<1>6. last_wal_lsn' \in Nat
  <2>1. CASE SegmentsLoad
    <3>1. LastValidLsn(records) \in Nat /\ manifest.last_lsn \in Nat
      <4>1. manifest.last_lsn \in Nat
        BY Zenon DEF DbInv, FileShape
      <4>2. records # << >> => records[Len(records)] \in LogRecord
        BY <1>4
      <4> QED BY <4>1, <4>2, Zenon DEF LastValidLsn, LogRecord
    <3>2. PICK a, b : a = LastValidLsn(records) /\ b = manifest.last_lsn
      BY Zenon
    <3>3. a + b \in Nat /\ {a, b} \in SUBSET Nat /\ \A x \in {a, b} : x <= a + b
      BY <3>1, <3>2
    <3>4. Max({a, b}) \in {a, b}
      BY <3>3, MaxIsGreatest, ZenonT(30)
    <3> QED BY <1>3, <2>1, <3>1, <3>2, <3>4, ZenonT(30) DEF Recover
  <2>2. CASE ~SegmentsLoad
    BY <2>2, ZenonT(30) DEF Recover, DbInv, FileShape
  <2> QED BY <2>1, <2>2, ZenonT(30)
<1>7. FileShape'
  <2>1. /\ UNCHANGED <<wal_file, synced, syncing, next_lsn, crashes, logical, segment_files,
                       manifest, checkpoint>>
        /\ checkpoint.step = "none" /\ checkpoint.todo = {}
    BY <1>1, ZenonT(30) DEF walVars, fileVars, clientVars, DbInv, ClientsShape, FileShape
  <2>2. checkpoint' \in CheckpointLocals'
    BY <2>1, ZenonT(30) DEF CheckpointLocals, DbInv, FileShape
  <2> QED BY <1>6, <2>1, <2>2, ZenonT(30) DEF DbInv, FileShape, CheckpointLocals
<1>8. redo' \in [Workers -> SUBSET (1..Len(wal_file))]
  <2>1. CASE SegmentsLoad
    <3>1. redo' = Shards(RedoOps(records, manifest.last_lsn))
      BY <1>3, <2>1, Zenon DEF Recover
    <3>2. RedoOps(records, manifest.last_lsn) \subseteq 1..Len(wal_file)
      BY <1>4 DEF RedoOps
    <3> QED BY <3>1, <3>2, Zenon DEF Shards
  <2>2. CASE ~SegmentsLoad
    BY <2>2, ZenonT(30) DEF Recover, DbInv, WorkersShape
  <2> QED BY <2>1, <2>2, Zenon
<1>9. WorkersShape'
  <2>1. \A w \in Workers : redo_step[w] = "begin"
    BY <1>1, WorkersRest, ZenonT(30) DEF DbInv
  <2>2. active_txn_ids = {} /\ active_txn_ids' = {}
    BY <1>1, <2>1, ZenonT(30) DEF DbInv, WorkersShape, Busy, tmVars
  <2>3. wal_file' = wal_file /\ redo_step' = redo_step /\ redo_txn' = redo_txn
        /\ expected' = expected
    BY <1>1, ZenonT(30) DEF walVars
  <2> QED BY <1>1, <1>8, <2>1, <2>2, <2>3, ZenonT(30) DEF DbInv, WorkersShape, Busy
<1>10. ClientsShape'
  BY <1>1, ZenonT(30) DEF DbInv, ClientsShape, clientVars, tmVars
<1> QED BY <1>2, <1>5, <1>7, <1>9, <1>10, ZenonT(30) DEF DbInv

\* The operation a worker is at is a record of the log.
LEMMA OpShape ==
  ASSUME FileShape, WorkersShape, NEW w \in Workers, redo[w] # {}
  PROVE  Op(w) \in LogRecord /\ Min(redo[w]) \in redo[w]
<1>1. redo[w] \in SUBSET (1..Len(wal_file)) /\ wal_file \in Seq(LogRecord)
  BY Zenon DEF WorkersShape, FileShape
<1>2. Min(redo[w]) \in redo[w]
  BY <1>1, MinIsLeast
<1> QED BY <1>1, <1>2 DEF Op

\* A worker that is not raising the allocator moves on: what was raised stays so.
LEMMA RaisedPersists ==
  ASSUME WorkersShape, NEW w \in Workers, redo_step[w] # "raise", NEW step,
         redo_step' = [redo_step EXCEPT ![w] = step],
         \A v \in Workers \ {w} : redo'[v] = redo[v],
         wal_file' = wal_file, next_row_id' = next_row_id
  PROVE  \A x : Raised(x) => Raised(x)'
<1> SUFFICES ASSUME NEW x, Raised(x) PROVE Raised(x)'
  BY Zenon
<1>1. CASE x < next_row_id
  BY <1>1, Zenon DEF Raised
<1>2. CASE \E v \in Workers : redo_step[v] = "raise" /\ Op(v).row_id = x
  <2>1. PICK v \in Workers : redo_step[v] = "raise" /\ Op(v).row_id = x
    BY <1>2, ZenonT(30)
  <2>2. redo_step'[v] = "raise" /\ Op(v)' = Op(v)
    BY <2>1, ZenonT(30) DEF WorkersShape, Op
  <2> QED BY <2>1, <2>2, ZenonT(30) DEF Raised
<1> QED BY <1>1, <1>2, Zenon DEF Raised

\* A worker in the middle of its operation moves to the next step of it.
LEMMA WorkerMoves ==
  ASSUME WorkersShape, NEW w \in Workers, Busy(w),
         NEW step \in {"apply", "insert", "raise", "commit"},
         redo_step' = [redo_step EXCEPT ![w] = step],
         redo' = redo, redo_txn' = redo_txn, phase' = phase, wal_file' = wal_file,
         active_txn_ids' = active_txn_ids, expected' \in [Workers -> Nat],
         step = "insert" => redo_txn[w] \in DOMAIN inserting',
         \A v \in Workers \ {w} : redo_step[v] = "insert" => redo_txn[v] \in DOMAIN inserting'
  PROVE  WorkersShape'
<1>1. redo_step' \in [Workers -> {"begin", "apply", "insert", "raise", "commit"}]
  BY Zenon DEF WorkersShape
<1>2. \A v \in Workers : Busy(v)' <=> Busy(v)
  BY Zenon DEF WorkersShape, Busy
<1>3. \A v \in Workers : redo_step'[v] = "insert" => redo_txn[v] \in DOMAIN inserting'
  BY Zenon DEF WorkersShape
<1> QED BY <1>1, <1>2, <1>3, ZenonT(30) DEF WorkersShape

\* A worker is at work only while recovery runs, with nobody else.
LEMMA BusyRedo ==
  ASSUME DbInv, NEW w \in Workers, Busy(w)
  PROVE  /\ phase = "redo" /\ redo[w] # {} /\ redo_txn[w] \in active_txn_ids /\ redo_txn[w] \in Nat
         /\ Op(w) \in LogRecord
         /\ DOMAIN logging = {} /\ DOMAIN ending = {}
<1>1. phase = "redo" /\ redo[w] # {} /\ redo_txn[w] \in active_txn_ids
  BY Zenon DEF DbInv, WorkersShape
<1> QED BY <1>1, OpShape, ActiveIds DEF DbInv, ClientsShape

\* The files are no business of the workers.
LEMMA RedoFiles ==
  ASSUME DbInv,
         UNCHANGED <<walVars, phase, last_wal_lsn, fileVars, checkpoint, clientVars, logical>>,
         UNCHANGED <<base_segments, compacting>>,
         DOMAIN inserting' \subseteq active_txn_ids', phase = "redo"
  PROVE  FileShape' /\ ClientsShape'
<1>1. FileShape'
  BY FileFrame, ZenonT(30) DEF DbInv, clientVars
<1>2. ClientsShape'
  BY DEF DbInv, ClientsShape, clientVars
<1> QED BY <1>1, <1>2, Zenon

\* ApplyOp's Begin keeps DbInv.
LEMMA RedoBeginInv ==
  ASSUME DbInv, NEW w \in Workers, RedoBegin(w), UNCHANGED <<clientVars, logical>>
  PROVE  DbInv'
<1>1. /\ redo[w] # {} /\ redo_step[w] = "begin" /\ Begin /\ phase = "redo"
      /\ redo_step' = [redo_step EXCEPT ![w] = "apply"]
      /\ redo_txn' = [redo_txn EXCEPT ![w] = next_id]
      /\ UNCHANGED <<walVars, phase, redo, expected, last_wal_lsn, fileVars, checkpoint>>
      /\ UNCHANGED tableVars
  BY ZenonT(30) DEF RedoBegin, Begin, DbInv, WorkersShape
<1>2. TMInv'
  BY <1>1, BeginInv, ZenonT(30) DEF DbInv, Begin
<1>3. PICK t : t = next_id
  BY Zenon
<1>4. t \in Nat /\ t \notin active_txn_ids /\ active_txn_ids' = active_txn_ids \cup {t}
  BY <1>1, <1>3, ActiveIds, ZenonT(30) DEF DbInv, Begin, TMBegin
<1>5. MemoryShape'
  BY <1>1, MemoryFrame, ZenonT(30) DEF DbInv
<1>6. /\ delta' = delta /\ inserting' = inserting /\ compacting' = compacting
      /\ base_segments' = base_segments /\ next_row_id' = next_row_id /\ wal_file' = wal_file
  BY <1>1, Zenon DEF tableVars, deltaVars, baseVars, walVars
<1>7. RowIdsRaised'
  <2>1. \A x : Raised(x) => Raised(x)'
    BY <1>1, <1>6, RaisedPersists, ZenonT(30) DEF DbInv
  <2>2. \A v \in Workers : redo_step'[v] = "raise" => redo_step[v] = "raise"
    BY <1>1, ZenonT(30) DEF DbInv, WorkersShape
  <2> QED BY <1>1, <1>6, <2>1, <2>2, ZenonT(30) DEF DbInv, RowIdsRaised, base
<1>8. FileShape' /\ ClientsShape'
  <2>1. DOMAIN inserting' \subseteq active_txn_ids'
    BY <1>4, <1>6, ZenonT(30) DEF DbInv, ClientsShape
  <2> QED BY <1>1, <1>6, <2>1, RedoFiles, ZenonT(30)
<1>9. WorkersShape'
  <2>1. /\ redo_step' \in [Workers -> {"begin", "apply", "insert", "raise", "commit"}]
        /\ redo_txn' \in [Workers -> Nat] /\ redo_txn'[w] = t /\ redo_step'[w] = "apply"
        /\ \A v \in Workers \ {w} : redo_step'[v] = redo_step[v] /\ redo_txn'[v] = redo_txn[v]
    BY <1>1, <1>3, <1>4, ZenonT(30) DEF DbInv, WorkersShape
  <2>2. \A v \in Workers \ {w} : (Busy(v)' <=> Busy(v)) /\ (Busy(v) => redo_txn[v] # t)
    BY <1>4, <2>1, ZenonT(30) DEF Busy, DbInv, WorkersShape
  <2>3. Busy(w)' /\ ~Busy(w)
    BY <1>1, <2>1, ZenonT(30) DEF Busy
  <2>4. \A v \in Workers :
          /\ redo'[v] # {} => phase' = "redo"
          /\ Busy(v)' => redo'[v] # {} /\ redo_txn'[v] \in active_txn_ids'
          /\ redo_step'[v] = "insert" => redo_txn'[v] \in DOMAIN inserting'
    BY <1>1, <1>4, <1>6, <2>1, <2>2, <2>3 DEF DbInv, WorkersShape
  <2>5. \A v \in Workers : \A u \in Workers \ {v} :
          Busy(v)' /\ Busy(u)' => redo_txn'[v] # redo_txn'[u]
    BY <2>1, <2>2, <2>3 DEF DbInv, WorkersShape
  <2>6. \A u \in active_txn_ids' : \E v \in Workers : Busy(v)' /\ redo_txn'[v] = u
    <3> SUFFICES ASSUME NEW u \in active_txn_ids'
                 PROVE  \E v \in Workers : Busy(v)' /\ redo_txn'[v] = u
      BY ZenonT(30)
    <3>1. CASE u = t
      BY <2>1, <2>3, <3>1, ZenonT(30)
    <3>2. CASE u \in active_txn_ids
      <4>1. PICK v \in Workers : Busy(v) /\ redo_txn[v] = u
        BY <1>1, <3>2, ZenonT(30) DEF DbInv, WorkersShape
      <4> QED BY <2>1, <2>2, <2>3, <4>1, ZenonT(30)
    <3> QED BY <1>4, <3>1, <3>2
  <2>7. /\ phase' \in {"closed", "redo", "open"} /\ expected' \in [Workers -> Nat]
        /\ redo' \in [Workers -> SUBSET (1..Len(wal_file'))]
    BY <1>1, <1>6, ZenonT(30) DEF DbInv, WorkersShape
  <2> QED BY <2>1, <2>4, <2>5, <2>6, <2>7, ZenonT(30) DEF WorkersShape
<1> QED BY <1>2, <1>5, <1>7, <1>8, <1>9, ZenonT(30) DEF DbInv

\* What the middle steps of ApplyOp have in common: the worker moves on, the files stay.
LEMMA RedoMoves ==
  ASSUME DbInv, NEW w \in Workers, Busy(w),
         NEW step \in {"apply", "insert", "raise", "commit"},
         redo_step' = [redo_step EXCEPT ![w] = step],
         UNCHANGED <<walVars, phase, redo, redo_txn, last_wal_lsn, fileVars, checkpoint>>,
         UNCHANGED <<clientVars, logical>>, UNCHANGED <<tmVars, base_segments, compacting>>,
         expected' \in [Workers -> Nat],
         step = "insert" => redo_txn[w] \in DOMAIN inserting',
         DOMAIN inserting' \subseteq DOMAIN inserting \cup {redo_txn[w]},
         DOMAIN inserting \ {redo_txn[w]} \subseteq DOMAIN inserting',
         MemoryShape', RowIdsRaised'
  PROVE  DbInv'
<1>1. phase = "redo" /\ redo_txn[w] \in active_txn_ids
  BY BusyRedo, ZenonT(30)
<1>2. TMInv' /\ active_txn_ids' = active_txn_ids
  BY ManagerFrame, ZenonT(30) DEF DbInv, tmVars
<1>3. DOMAIN inserting' \subseteq active_txn_ids'
  BY <1>1, <1>2, ZenonT(30) DEF DbInv, ClientsShape
<1>4. FileShape' /\ ClientsShape'
  BY <1>1, <1>3, RedoFiles, ZenonT(30)
<1>5. \A v \in Workers \ {w} : redo_step[v] = "insert" => redo_txn[v] \in DOMAIN inserting'
  BY ZenonT(30) DEF DbInv, WorkersShape, Busy
<1>6. WorkersShape'
  BY <1>2, <1>5, WorkerMoves, ZenonT(30) DEF DbInv, walVars
<1> QED BY <1>2, <1>4, <1>6, ZenonT(30) DEF DbInv

\* ApplyOp's operation keeps DbInv.
LEMMA RedoApplyInv ==
  ASSUME DbInv, NEW w \in Workers, RedoApply(w), UNCHANGED <<clientVars, logical>>
  PROVE  DbInv'
<1>1. /\ redo_step[w] = "apply" /\ Busy(w)
      /\ UNCHANGED <<walVars, phase, redo, redo_txn, last_wal_lsn, fileVars, checkpoint>>
  BY Zenon DEF RedoApply, Busy
<1>2. PICK op : op = Op(w)
  BY Zenon
<1>3. PICK t : t = redo_txn[w]
  BY Zenon
<1>4. t \in Nat /\ op \in LogRecord
  BY <1>1, <1>2, <1>3, BusyRedo, ZenonT(30)
<1>5. MemoryShape /\ RowIdsRaised /\ next_row_id \in Nat /\ expected \in [Workers -> Nat]
      /\ redo_step \in [Workers -> {"begin", "apply", "insert", "raise", "commit"}]
  BY DEF DbInv, MemoryShape, WorkersShape
<1>6. ASSUME NEW step, redo_step' = [redo_step EXCEPT ![w] = step], next_row_id' = next_row_id
      PROVE  \A x : Raised(x) => Raised(x)'
  BY <1>1, <1>6, RaisedPersists, ZenonT(30) DEF DbInv, walVars
<1>7. ASSUME NEW step, redo_step' = [redo_step EXCEPT ![w] = step], expected' = expected,
             step # "raise"
      PROVE  \A v \in Workers : redo_step'[v] = "raise" => expected'[v] <= next_row_id
  BY <1>5, <1>7, Zenon DEF RowIdsRaised
<1>8. CASE /\ InsertWithRowId(t, op.row_id, op.row)
           /\ redo_step' = [redo_step EXCEPT ![w] = "raise"]
           /\ expected' = [expected EXCEPT ![w] = next_row_id]
  <2>1. UNCHANGED <<tmVars, base_segments, compacting>> /\ inserting' = inserting
        /\ next_row_id' = next_row_id
    BY <1>8, ZenonT(30) DEF InsertWithRowId, baseVars
  <2>2. \A v \in Workers : redo_step'[v] = "raise" => expected'[v] <= next_row_id
    BY <1>5, <1>8 DEF RowIdsRaised
  <2>3. Raised(op.row_id)'
    <3>1. redo_step'[w] = "raise" /\ Op(w)' = op
      BY <1>1, <1>2, <1>5, <1>8, ZenonT(30) DEF Op, walVars
    <3> QED BY <3>1, ZenonT(30) DEF Raised
  <2>4. op.row_id \in 0..MaxRow /\ op.row \in Nat
    BY <1>4, ZenonT(30) DEF LogRecord
  <2>5. MemoryShape' /\ RowIdsRaised'
    BY <1>4, <1>5, <1>6, <1>8, <2>1, <2>2, <2>3, <2>4, InsertWithRowIdMemory, ZenonT(30)
  <2>6. expected' \in [Workers -> Nat]
    BY <1>5, <1>8, ZenonT(30)
  <2> QED BY <1>1, <1>8, <2>1, <2>5, <2>6, RedoMoves, ZenonT(30)
<1>9. CASE /\ Update(t, op.row_id) /\ expected' = expected
           /\ redo_step' = [redo_step EXCEPT ![w] = "insert"]
  <2>1. UNCHANGED <<tmVars, base_segments, compacting>> /\ next_row_id' = next_row_id
    BY <1>9, ZenonT(30) DEF Update, baseVars
  <2>2. MemoryShape' /\ RowIdsRaised' /\ DOMAIN inserting' = DOMAIN inserting \cup {t}
    BY <1>4, <1>5, <1>6, <1>7, <1>9, <2>1, UpdateMemory, ZenonT(30)
  <2> QED BY <1>1, <1>3, <1>5, <1>9, <2>1, <2>2, RedoMoves, ZenonT(30)
<1>10. CASE /\ Delete(t, op.row_id) /\ expected' = expected
            /\ redo_step' = [redo_step EXCEPT ![w] = "commit"]
  <2>1. UNCHANGED <<tmVars, base_segments, compacting>> /\ next_row_id' = next_row_id
        /\ inserting' = inserting
    BY <1>10, ZenonT(30) DEF Delete, baseVars
  <2>2. MemoryShape' /\ RowIdsRaised'
    BY <1>4, <1>5, <1>6, <1>7, <1>10, <2>1, DeleteMemory, ZenonT(30)
  <2> QED BY <1>1, <1>5, <1>10, <2>1, <2>2, RedoMoves, ZenonT(30)
<1>11. CASE /\ UNCHANGED vars /\ expected' = expected
            /\ redo_step' = [redo_step EXCEPT ![w] = "commit"]
  <2>1. UNCHANGED <<tmVars, base_segments, compacting>> /\ next_row_id' = next_row_id
        /\ inserting' = inserting /\ delta' = delta /\ UNCHANGED tableVars
    BY <1>11, ZenonT(30) DEF vars, tableVars, baseVars, deltaVars
  <2>2. MemoryShape'
    BY <1>5, <2>1, MemoryFrame, ZenonT(30)
  <2>3. RowIdsRaised'
    BY <1>5, <1>6, <1>7, <1>11, <2>1, ZenonT(30) DEF RowIdsRaised, base
  <2> QED BY <1>1, <1>5, <1>11, <2>1, <2>2, <2>3, RedoMoves, ZenonT(30)
<1> QED BY <1>2, <1>3, <1>8, <1>9, <1>10, <1>11, ZenonT(30) DEF RedoApply

\* The second half of a replayed Update keeps it.
LEMMA RedoInsertInv ==
  ASSUME DbInv, NEW w \in Workers, RedoInsert(w), UNCHANGED <<clientVars, logical>>
  PROVE  DbInv'
<1>1. /\ redo_step[w] = "insert" /\ Busy(w) /\ DeltaInsert(redo_txn[w], Op(w).row)
      /\ UNCHANGED <<walVars, phase, redo, redo_txn, last_wal_lsn, fileVars, checkpoint>>
      /\ redo_step' = [redo_step EXCEPT ![w] = "commit"] /\ expected' = expected
  BY ZenonT(30) DEF RedoInsert, Busy
<1>2. PICK v : v = Op(w).row
  BY Zenon
<1>3. PICK t : t = redo_txn[w]
  OBVIOUS
<1>4. t \in Nat /\ v \in Nat /\ DeltaInsert(t, v)
  BY <1>1, <1>2, <1>3, BusyRedo, ZenonT(30) DEF LogRecord
<1>5. /\ MemoryShape /\ RowIdsRaised /\ expected \in [Workers -> Nat] /\ t \in DOMAIN inserting
      /\ redo_step \in [Workers -> {"begin", "apply", "insert", "raise", "commit"}]
  BY <1>1, <1>3, ZenonT(30) DEF DbInv, WorkersShape
<1>6. UNCHANGED <<tmVars, base_segments, compacting>> /\ next_row_id' = next_row_id
  BY <1>4, ZenonT(30) DEF DeltaInsert, baseVars
<1>7. \A x : Raised(x) => Raised(x)'
  BY <1>1, <1>6, RaisedPersists, ZenonT(30) DEF DbInv, walVars
<1>8. \A u \in Workers : redo_step'[u] = "raise" => expected'[u] <= next_row_id
  BY <1>1, <1>5, ZenonT(30) DEF RowIdsRaised
<1>9. MemoryShape' /\ RowIdsRaised' /\ DOMAIN inserting' = DOMAIN inserting \ {t}
  BY <1>4, <1>5, <1>7, <1>8, DeltaInsertMemory, ZenonT(30)
<1> QED BY <1>1, <1>3, <1>5, <1>6, <1>9, RedoMoves, ZenonT(30)

\* The allocator only ever grows under the workers: what it was past it stays past.
LEMMA RaisedGrows ==
  ASSUME MemoryShape, RowIdsRaised,
         UNCHANGED <<delta, next_pos, baseVars, inserting, compacting>>,
         next_row_id' \in next_row_id..(MaxRow + 1),
         \A x \in Nat : Raised(x) => Raised(x)',
         \A v \in Workers : redo_step'[v] = "raise" => expected'[v] <= next_row_id'
  PROVE  MemoryShape' /\ RowIdsRaised'
<1>1. MemoryShape'
  BY TableAssumption DEF MemoryShape, baseVars
<1>2. \A b \in base \cup compacting.live_stable_rows : b.row_id \in Nat
  BY TableAssumption DEF MemoryShape, StoredRow, base, Range
<1>3. (\A p \in DOMAIN delta : Raised(delta[p].row_id))'
  BY DEF RowIdsRaised, MemoryShape, StoredRecord
<1>4. (\A t \in DOMAIN inserting : Raised(inserting[t].row_id))'
  BY DEF RowIdsRaised, MemoryShape
<1>5. (\A b \in base \cup compacting.live_stable_rows : b.row_id < next_row_id)'
  <2>1. base' = base /\ compacting' = compacting
    BY ZenonT(30) DEF base, baseVars
  <2>2. next_row_id \in Nat /\ next_row_id' \in Nat /\ next_row_id <= next_row_id'
    BY TableAssumption DEF MemoryShape
  <2> QED BY <1>2, <2>1, <2>2 DEF RowIdsRaised
<1> QED BY <1>1, <1>3, <1>4, <1>5, ZenonT(30) DEF RowIdsRaised

\* A turn of InsertWithRowId's loop keeps DbInv.
LEMMA RedoRaiseInv ==
  ASSUME DbInv, NEW w \in Workers, RedoRaise(w), UNCHANGED <<clientVars, logical>>
  PROVE  DbInv'
<1>1. /\ redo_step[w] = "raise" /\ Busy(w)
      /\ UNCHANGED <<walVars, phase, redo, redo_txn, last_wal_lsn, fileVars, checkpoint>>
  BY Zenon DEF RedoRaise, Busy
<1>2. PICK r : r = Op(w).row_id
  BY Zenon
<1>3. /\ r \in 0..MaxRow /\ MaxRow \in Nat
      /\ next_row_id \in 1..(MaxRow + 1) /\ expected \in [Workers -> Nat]
      /\ MemoryShape /\ RowIdsRaised
      /\ redo_step \in [Workers -> {"begin", "apply", "insert", "raise", "commit"}]
  BY <1>1, <1>2, BusyRedo, TableAssumption, ZenonT(30) DEF LogRecord, DbInv, MemoryShape, WorkersShape
<1>4. \A v \in Workers : redo_step[v] = "raise" => expected[v] <= next_row_id
  BY <1>3, ZenonT(30) DEF RowIdsRaised
<1>5. \A v \in Workers : Op(v)' = Op(v)
  BY <1>1, ZenonT(30) DEF Op, walVars
<1>6. CASE /\ next_row_id' \in next_row_id..(MaxRow + 1) /\ r < next_row_id'
           /\ redo_step' = [redo_step EXCEPT ![w] = "commit"] /\ expected' = expected
           /\ UNCHANGED <<tmVars, deltaVars, baseVars, inserting, compacting>>
  <2>1. \A x \in Nat : Raised(x) => Raised(x)'
    <3> SUFFICES ASSUME NEW x \in Nat, Raised(x)
                 PROVE  Raised(x)'
      BY ZenonT(30)
    <3>1. CASE x = r \/ x < next_row_id
      <4>1. x < next_row_id'
        BY <1>3, <1>6, <3>1
      <4> QED BY <4>1, ZenonT(30) DEF Raised
    <3>2. CASE \E v \in Workers \ {w} : redo_step[v] = "raise" /\ Op(v).row_id = x
      <4>1. PICK v \in Workers \ {w} : redo_step[v] = "raise" /\ Op(v).row_id = x
        BY <3>2, ZenonT(30)
      <4>2. redo_step'[v] = "raise"
        BY <1>3, <1>6, <4>1, ZenonT(30)
      <4> QED BY <1>5, <4>1, <4>2, ZenonT(30) DEF Raised
    <3> QED BY <1>2, <3>1, <3>2, ZenonT(30) DEF Raised
  <2>2. \A v \in Workers : redo_step'[v] = "raise" => expected'[v] <= next_row_id'
    BY <1>3, <1>4, <1>6
  <2>3. MemoryShape' /\ RowIdsRaised'
    BY <1>3, <1>6, <2>1, <2>2, RaisedGrows, ZenonT(30) DEF deltaVars
  <2> QED BY <1>1, <1>3, <1>6, <2>3, RedoMoves, ZenonT(30) DEF baseVars
<1>7. CASE /\ expected' = [expected EXCEPT ![w] = next_row_id]
           /\ UNCHANGED vars /\ redo_step' = redo_step
  <2>1. UNCHANGED tableVars /\ UNCHANGED <<tmVars, base_segments, compacting, inserting>>
        /\ UNCHANGED <<delta, next_pos, baseVars, inserting, compacting>>
        /\ next_row_id' = next_row_id
    BY <1>7, ZenonT(30) DEF vars, tableVars, baseVars, deltaVars
  <2>2. \A x \in Nat : Raised(x) => Raised(x)'
    BY <1>5, <1>7, <2>1, ZenonT(30) DEF Raised
  <2>3. /\ \A v \in Workers : redo_step'[v] = "raise" => expected'[v] <= next_row_id'
        /\ expected' \in [Workers -> Nat] /\ next_row_id' \in next_row_id..(MaxRow + 1)
    BY <1>3, <1>4, <1>7, <2>1
  <2>4. MemoryShape' /\ RowIdsRaised'
    BY <1>3, <2>1, <2>2, <2>3, RaisedGrows, ZenonT(30)
  <2>5. redo_step' = [redo_step EXCEPT ![w] = "raise"]
    BY <1>1, <1>3, <1>7, ZenonT(30)
  <2> QED BY <1>1, <2>1, <2>3, <2>4, <2>5, RedoMoves, ZenonT(30)
<1>8. CASE /\ expected[w] > r /\ redo_step' = [redo_step EXCEPT ![w] = "commit"]
           /\ UNCHANGED <<vars, expected>>
  <2>1. next_row_id' \in next_row_id..(MaxRow + 1) /\ r < next_row_id'
    BY <1>1, <1>3, <1>4, <1>8 DEF vars, tableVars
  <2> QED BY <1>6, <1>8, <2>1, ZenonT(30) DEF vars, tableVars
<1>9. CASE /\ expected[w] <= r /\ RaiseRowId(expected[w], r)
           /\ redo_step' = [redo_step EXCEPT ![w] = "commit"] /\ UNCHANGED expected
  <2>1. next_row_id' \in next_row_id..(MaxRow + 1) /\ r < next_row_id'
    BY <1>3, <1>9 DEF RaiseRowId
  <2> QED BY <1>6, <1>9, <2>1, ZenonT(30) DEF RaiseRowId
<1> QED BY <1>2, <1>7, <1>8, <1>9, Zenon DEF RedoRaise

\* ApplyOp's Commit keeps DbInv.
LEMMA RedoCommitInv ==
  ASSUME DbInv, NEW w \in Workers, RedoCommit(w), UNCHANGED <<clientVars, logical>>
  PROVE  DbInv'
<1>1. /\ redo_step[w] = "commit" /\ Busy(w) /\ Commit(redo_txn[w])
      /\ redo_step' = [redo_step EXCEPT ![w] = "begin"]
      /\ redo' = [redo EXCEPT ![w] = @ \ {Min(@)}]
      /\ redo_txn' = [redo_txn EXCEPT ![w] = 0] /\ expected' = [expected EXCEPT ![w] = 0]
      /\ UNCHANGED <<walVars, phase, last_wal_lsn, fileVars, checkpoint>>
  BY ZenonT(30) DEF RedoCommit, Busy
<1>2. PICK t : t = redo_txn[w]
  BY ZenonT(30)
<1>3. t \in active_txn_ids /\ phase = "redo"
  BY <1>1, <1>2, BusyRedo, ZenonT(30)
<1>4. UNCHANGED tableVars /\ t \notin DOMAIN inserting /\ TMCommit(t)
  BY <1>1, <1>2, ZenonT(30) DEF Commit, Idle
<1>5. TMInv' /\ active_txn_ids' = active_txn_ids \ {t}
  BY <1>3, <1>4, FinishActive, ZenonT(30) DEF DbInv
<1>6. UNCHANGED <<delta, next_pos, baseVars, inserting, compacting>> /\ next_row_id' = next_row_id
      /\ UNCHANGED <<base_segments, compacting>> /\ wal_file' = wal_file
  BY <1>1, <1>4, ZenonT(30) DEF tableVars, deltaVars, baseVars, walVars
<1>7. MemoryShape'
  BY <1>4, MemoryFrame, ZenonT(30) DEF DbInv
<1>8. FileShape' /\ ClientsShape'
  <2>1. DOMAIN inserting' \subseteq active_txn_ids'
    BY <1>4, <1>5, <1>6, ZenonT(30) DEF DbInv, ClientsShape
  <2> QED BY <1>1, <1>3, <1>6, <2>1, RedoFiles, ZenonT(30)
<1>9. /\ redo \in [Workers -> SUBSET (1..Len(wal_file))]
      /\ redo_step \in [Workers -> {"begin", "apply", "insert", "raise", "commit"}]
      /\ redo_txn \in [Workers -> Nat] /\ expected \in [Workers -> Nat]
  BY ZenonT(30) DEF DbInv, WorkersShape
<1>10. /\ redo_step'[w] = "begin" /\ redo'[w] \subseteq redo[w]
       /\ \A v \in Workers \ {w} : /\ redo'[v] = redo[v] /\ redo_step'[v] = redo_step[v]
                                   /\ redo_txn'[v] = redo_txn[v] /\ expected'[v] = expected[v]
  BY <1>1, <1>9, ZenonT(30)
<1>11. RowIdsRaised'
  <2>1. \A x \in Nat : Raised(x) => Raised(x)'
    BY <1>1, <1>6, <1>10, RaisedPersists, ZenonT(30) DEF DbInv
  <2>2. \A v \in Workers : redo_step'[v] = "raise" => expected'[v] <= next_row_id'
    BY <1>6, <1>10, ZenonT(30) DEF DbInv, RowIdsRaised
  <2>3. next_row_id' \in next_row_id..(MaxRow + 1)
    BY <1>6, TableAssumption DEF DbInv, MemoryShape
  <2> QED BY <1>6, <2>1, <2>2, <2>3, RaisedGrows, ZenonT(30) DEF DbInv
<1>12. WorkersShape'
  <2>1. /\ redo' \in [Workers -> SUBSET (1..Len(wal_file'))]
        /\ redo_step' \in [Workers -> {"begin", "apply", "insert", "raise", "commit"}]
        /\ redo_txn' \in [Workers -> Nat] /\ expected' \in [Workers -> Nat]
    BY <1>1, <1>6, <1>9, ZenonT(30)
  <2>2. ~Busy(w)' /\ \A v \in Workers \ {w} : Busy(v)' <=> Busy(v)
    BY <1>10, ZenonT(30) DEF Busy
  <2>3. \A v \in Workers \ {w} : Busy(v) => redo_txn[v] # t
    BY <1>1, <1>2, ZenonT(30) DEF DbInv, WorkersShape
  <2>4. \A v \in Workers :
          /\ redo'[v] # {} => phase' = "redo"
          /\ Busy(v)' => redo'[v] # {} /\ redo_txn'[v] \in active_txn_ids'
          /\ redo_step'[v] = "insert" => redo_txn'[v] \in DOMAIN inserting'
    BY <1>1, <1>3, <1>5, <1>6, <1>10, <2>2, <2>3 DEF DbInv, WorkersShape
  <2>5. \A v \in Workers : \A u \in Workers \ {v} :
          Busy(v)' /\ Busy(u)' => redo_txn'[v] # redo_txn'[u]
    BY <1>10, <2>2 DEF DbInv, WorkersShape
  <2>6. \A u \in active_txn_ids' : \E v \in Workers : Busy(v)' /\ redo_txn'[v] = u
    <3> SUFFICES ASSUME NEW u \in active_txn_ids'
                 PROVE  \E v \in Workers : Busy(v)' /\ redo_txn'[v] = u
      BY Zenon
    <3>1. PICK v \in Workers : Busy(v) /\ redo_txn[v] = u
      BY <1>3, <1>5, Zenon DEF DbInv, WorkersShape
    <3>2. v # w
      BY <1>2, <1>5, <3>1, ZenonT(30)
    <3> QED BY <1>10, <2>2, <3>1, <3>2, Zenon
  <2>7. phase' \in {"closed", "redo", "open"}
    BY <1>1, <1>3, Zenon
  <2> QED BY <2>1, <2>4, <2>5, <2>6, <2>7, Zenon DEF WorkersShape
<1> QED BY <1>5, <1>7, <1>8, <1>11, <1>12, ZenonT(30) DEF DbInv

\* The constructor's last step keeps DbInv: every worker has been joined.
LEMMA OpenWriterInv ==
  ASSUME DbInv, OpenWriter, UNCHANGED <<clientVars, logical>>
  PROVE  DbInv'
<1>1. /\ \A w \in Workers : redo[w] = {}
      /\ phase = "redo" /\ phase' = "open"
      /\ next_lsn' = last_wal_lsn + 1 /\ UNCHANGED <<wal_file, synced, syncing>>
      /\ UNCHANGED <<vars, workerVars, last_wal_lsn, fileVars, checkpoint>>
  BY Zenon DEF OpenWriter, Recovered, OpenForAppend, StartingLsn
<1>2. UNCHANGED <<tmVars, tableVars>>
  BY <1>1, Zenon DEF vars
<1>3. TMInv' /\ MemoryShape' /\ RowIdsRaised'
  BY <1>1, <1>2, ManagerFrame, MemoryFrame, RaisedStutter, ZenonT(30) DEF DbInv
<1>4. FileShape'
  <2>1. next_lsn' \in Nat \ {0}
    BY <1>1 DEF DbInv, FileShape
  <2> QED BY <1>1, <1>2, <2>1, ZenonT(30) DEF DbInv, FileShape, tableVars, baseVars, fileVars, clientVars
<1>5. WorkersShape'
  BY <1>1, <1>2, Zenon DEF DbInv, WorkersShape, Busy, workerVars, tmVars, tableVars
<1>6. ClientsShape'
  BY <1>1, <1>2, Zenon DEF DbInv, ClientsShape, clientVars, tmVars, tableVars
<1> QED BY <1>3, <1>4, <1>5, <1>6, ZenonT(30) DEF DbInv

\* Recovery keeps DbInv.
LEMMA DbRecoverInv ==
  ASSUME DbInv, DbRecover
  PROVE  DbInv'
<1>1. UNCHANGED <<clientVars, logical>> /\ Redo
  BY Zenon DEF DbRecover
<1>2. CASE Recover
  BY <1>1, <1>2, RecoverInv, ZenonT(30)
<1>3. CASE OpenWriter
  BY <1>1, <1>3, OpenWriterInv, ZenonT(30)
<1>4. CASE \E w \in Workers : ApplyOp(w)
  BY <1>1, <1>4, RedoBeginInv, RedoApplyInv, RedoInsertInv, RedoRaiseInv, RedoCommitInv, ZenonT(30)
     DEF ApplyOp
<1> QED BY <1>1, <1>2, <1>3, <1>4, ZenonT(30) DEF Redo
=============================================================================
