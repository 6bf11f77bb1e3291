------------------------------ MODULE Recovery ------------------------------
(***************************************************************************)
(* recovery::WriteCheckpoint and RecoveryManager::Recover on the table and *)
(* the log.  db::Database recovers with one worker; Recover itself takes   *)
(* any number, each a thread with the operations of its rows.              *)
(*                                                                         *)
(* A checkpoint file is written in place: between the truncation and the   *)
(* last byte it is damaged, and LoadFromFile refuses it.  The manifest is  *)
(* small enough to reach the file in one write, so between the two it is   *)
(* empty, which reads as no checkpoint.                                    *)
(***************************************************************************)
EXTENDS Table, Wal

CONSTANTS
  NumWorkers,      \* config.num_workers
  MaxCheckpoints   \* bound: checkpoints

ASSUME RecoveryAssumption == NumWorkers \in Nat \ {0} /\ MaxCheckpoints \in Nat

Workers == 0..(NumWorkers - 1)

VARIABLES
  phase,          \* of the process: closed, redo (in Recover), open
  redo,           \* by worker: its shard, the places in the log of what it has yet to replay
  redo_step,      \* by worker: where ApplyOp is with the first of them
  redo_txn,       \* by worker: the transaction of that ApplyOp
  expected,       \* by worker: the row id allocator as InsertWithRowId last read it
  last_wal_lsn,   \* stats.last_wal_lsn
  segment_files,  \* by segment id: the rows, and whether the file is whole
  manifest,       \* manifest.txt
  checkpoint      \* the locals of a running WriteCheckpoint

fileVars == <<segment_files, manifest>>
workerVars == <<redo, redo_step, redo_txn, expected>>
redoVars == <<phase, workerVars, last_wal_lsn>>
recoveryVars == <<redoVars, fileVars, checkpoint>>

NoManifest == [written |-> FALSE, last_lsn |-> 0, segment_files |-> {}]
NoCheckpoint == [step |-> "none", wal_lsn |-> 0, todo |-> {}, runs |-> 0]

ForEachWorker(x) == [w \in Workers |-> x]

RecoveryInit ==
  /\ phase = "closed" /\ last_wal_lsn = 0
  /\ redo = ForEachWorker({}) /\ redo_step = ForEachWorker("begin")
  /\ redo_txn = ForEachWorker(0) /\ expected = ForEachWorker(0)
  /\ segment_files = << >>
  /\ manifest = NoManifest
  /\ checkpoint = NoCheckpoint

-----------------------------------------------------------------------------
(* Database::Checkpoint.  checkpoint.h asks that no transaction be in       *)
(* flight; the guards of Database's Begin keep it so until it returns.      *)

\* wrong: a checkpoint starts under the clients' transactions
CheckpointBusy ==
  /\ phase = "open" /\ checkpoint.step = "none" /\ checkpoint.runs < MaxCheckpoints
  /\ Flush
  /\ checkpoint' = [checkpoint EXCEPT !.step = "compact", !.wal_lsn = last_lsn,
                                      !.runs = @ + 1]
  /\ UNCHANGED <<vars, redoVars, fileVars>>

CheckpointBegin ==
  /\ phase = "open" /\ checkpoint.step = "none" /\ checkpoint.runs < MaxCheckpoints
  /\ active_txn_ids = {}
  /\ Flush
  /\ checkpoint' = [checkpoint EXCEPT !.step = "compact", !.wal_lsn = last_lsn,
                                      !.runs = @ + 1]
  /\ UNCHANGED <<vars, redoVars, fileVars>>

CheckpointCompact ==
  /\ checkpoint.step = "compact"
  /\ \/ (CompactBegin \/ CompactRecord) /\ UNCHANGED checkpoint
     \/ /\ CompactEnd
        /\ checkpoint' = [checkpoint EXCEPT !.step = "save", !.todo = DOMAIN base_segments']
  /\ UNCHANGED <<walVars, redoVars, fileVars>>

\* SaveToFile truncates the file ...
SaveBegin ==
  /\ checkpoint.step = "save" /\ checkpoint.todo # {}
  /\ segment_files' = Extend(segment_files, Min(checkpoint.todo),
                              [rows |-> {}, whole |-> FALSE])
  /\ checkpoint' = [checkpoint EXCEPT !.step = "saving"]
  /\ UNCHANGED <<vars, walVars, redoVars, manifest>>

\* ... and fills it
SaveEnd ==
  LET s == Min(checkpoint.todo) IN
  /\ checkpoint.step = "saving"
  /\ segment_files' = Extend(segment_files, s, [rows |-> base_segments[s], whole |-> TRUE])
  /\ checkpoint' = [checkpoint EXCEPT !.step = "save", !.todo = @ \ {s}]
  /\ UNCHANGED <<vars, walVars, redoVars, manifest>>

TruncateManifest ==
  /\ checkpoint.step = "save" /\ checkpoint.todo = {}
  /\ manifest' = NoManifest
  /\ checkpoint' = [checkpoint EXCEPT !.step = "manifest"]
  /\ UNCHANGED <<vars, walVars, redoVars, segment_files>>

WriteManifest ==
  /\ checkpoint.step = "manifest"
  /\ manifest' = [written |-> TRUE, last_lsn |-> checkpoint.wal_lsn,
                  segment_files |-> DOMAIN base_segments]
  /\ checkpoint' = [checkpoint EXCEPT !.step = "none"]
  /\ UNCHANGED <<vars, walVars, redoVars, segment_files>>

\* the directory cannot be created, or a file cannot be opened or written:
\* WriteCheckpoint returns false and the process goes on
CheckpointFails ==
  /\ \/ checkpoint.step = "compact" /\ ~compacting.running
     \/ checkpoint.step \in {"save", "saving", "manifest"}
  /\ checkpoint' = [checkpoint EXCEPT !.step = "none", !.todo = {}]
  /\ UNCHANGED <<vars, walVars, redoVars, fileVars>>

Checkpoint ==
  \/ CheckpointBegin \/ CheckpointCompact \/ SaveBegin \/ SaveEnd
  \/ TruncateManifest \/ WriteManifest \/ CheckpointFails

-----------------------------------------------------------------------------
(* RecoveryManager::Recover *)

CommittedTxnIds(records) ==
  {records[i].txn_id : i \in {j \in 1..Len(records) : records[j].type = "kCommit"}}

\* wrong: whatever is in the log is replayed
ReplaysAll(records, checkpoint_lsn) ==
  {i \in 1..Len(records) : records[i].lsn > checkpoint_lsn /\ records[i].type \in DataRecords}

\* wrong: the records the checkpoint holds are replayed on top of it
ReplaysCheckpointed(records, checkpoint_lsn) ==
  {i \in 1..Len(records) : /\ records[i].type \in DataRecords
                           /\ records[i].txn_id \in CommittedTxnIds(records)}

\* the vector of operations to replay, as places in the log, which does not change meanwhile
RedoOps(records, checkpoint_lsn) ==
  {i \in 1..Len(records) : /\ records[i].lsn > checkpoint_lsn
                           /\ records[i].type \in DataRecords
                           /\ records[i].txn_id \in CommittedTxnIds(records)}

\* wrong: the operations are dealt out to the workers in turn
ShardByLsn(op) == op.lsn % NumWorkers

ShardOf(op) == op.row_id % NumWorkers

Shards(ops) == [w \in Workers |-> {i \in ops : ShardOf(wal_file[i]) = w}]

\* the operation worker w is at
Op(w) == wal_file[Min(redo[w])]

\* Segment::LoadFromFile returns a segment: nothing is missing, every checksum agrees
LoadsFromFile(s) == s \in DOMAIN segment_files /\ segment_files[s].whole

\* every segment file the manifest names can be loaded
SegmentsLoad == \A s \in manifest.segment_files : LoadsFromFile(s)

\* the manifest and the log are read; a segment that does not load ends it at once
Recover ==
  LET records == ReadAll(wal_file) IN
  /\ phase = "closed"
  /\ phase' = "redo"
  /\ IF SegmentsLoad
     THEN /\ LoadBaseSegments([s \in manifest.segment_files |-> segment_files[s].rows])
          /\ redo' = Shards(RedoOps(records, manifest.last_lsn))
          /\ last_wal_lsn' = Max({LastValidLsn(records), manifest.last_lsn})
     ELSE UNCHANGED <<vars, redo, last_wal_lsn>>
  /\ UNCHANGED <<walVars, redo_step, redo_txn, expected, fileVars, checkpoint>>

\* ApplyOp by worker w: Begin, the operation, Commit
RedoBegin(w) ==
  /\ redo[w] # {} /\ redo_step[w] = "begin"
  /\ Begin
  /\ redo_txn' = [redo_txn EXCEPT ![w] = next_id]
  /\ redo_step' = [redo_step EXCEPT ![w] = "apply"]
  /\ UNCHANGED <<walVars, phase, redo, expected, last_wal_lsn, fileVars, checkpoint>>

\* the outcome of an Update or Delete is not looked at
RedoApply(w) ==
  LET op == Op(w)
      t == redo_txn[w]
      GoesTo(step) == redo_step' = [redo_step EXCEPT ![w] = step] IN
  /\ redo_step[w] = "apply"
  /\ \/ /\ op.type = "kInsert" /\ InsertWithRowId(t, op.row_id, op.row)
        /\ GoesTo("raise") /\ expected' = [expected EXCEPT ![w] = next_row_id]
     \/ op.type = "kUpdate" /\ Update(t, op.row_id) /\ GoesTo("insert") /\ UNCHANGED expected
     \/ op.type = "kDelete" /\ Delete(t, op.row_id) /\ GoesTo("commit") /\ UNCHANGED expected
     \/ /\ op.type # "kInsert" /\ ClaimResult(op.row_id, t) # "kOk"
        /\ GoesTo("commit") /\ UNCHANGED <<vars, expected>>
  /\ UNCHANGED <<walVars, phase, redo, redo_txn, last_wal_lsn, fileVars, checkpoint>>

RedoInsert(w) ==
  /\ redo_step[w] = "insert"
  /\ DeltaInsert(redo_txn[w], Op(w).row)
  /\ redo_step' = [redo_step EXCEPT ![w] = "commit"]
  /\ UNCHANGED <<walVars, phase, redo, redo_txn, expected, last_wal_lsn, fileVars, checkpoint>>

\* one turn of InsertWithRowId's loop; a failed exchange reads the allocator again
RedoRaise(w) ==
  LET r == Op(w).row_id IN
  /\ redo_step[w] = "raise"
  /\ \/ /\ expected[w] > r
        /\ redo_step' = [redo_step EXCEPT ![w] = "commit"]
        /\ UNCHANGED <<vars, expected>>
     \/ /\ expected[w] <= r /\ RaiseRowId(expected[w], r)
        /\ redo_step' = [redo_step EXCEPT ![w] = "commit"]
        /\ UNCHANGED expected
     \/ /\ expected[w] <= r /\ next_row_id # expected[w]
        /\ expected' = [expected EXCEPT ![w] = next_row_id]
        /\ UNCHANGED <<vars, redo_step>>
  /\ UNCHANGED <<walVars, phase, redo, redo_txn, last_wal_lsn, fileVars, checkpoint>>

\* wrong: the worker applies the same operation again and again
RedoRepeats(w) ==
  /\ redo_step[w] = "commit"
  /\ Commit(redo_txn[w])
  /\ redo_step' = [redo_step EXCEPT ![w] = "begin"]
  /\ UNCHANGED <<walVars, phase, redo, redo_txn, expected, last_wal_lsn, fileVars, checkpoint>>

RedoCommit(w) ==
  /\ redo_step[w] = "commit"
  /\ Commit(redo_txn[w])
  /\ redo_step' = [redo_step EXCEPT ![w] = "begin"]
  /\ redo' = [redo EXCEPT ![w] = @ \ {Min(@)}]
  /\ redo_txn' = [redo_txn EXCEPT ![w] = 0] /\ expected' = [expected EXCEPT ![w] = 0]
  /\ UNCHANGED <<walVars, phase, last_wal_lsn, fileVars, checkpoint>>

\* every worker has been joined: Recover has returned
Recovered == phase = "redo" /\ \A w \in Workers : redo[w] = {}

\* wrong: the first record of the new process repeats the last LSN of the old one
StartingLsnRepeats == last_wal_lsn

StartingLsn == last_wal_lsn + 1

\* the constructor opens the log for append
OpenWriter ==
  /\ Recovered
  /\ OpenForAppend(StartingLsn)
  /\ phase' = "open"
  /\ UNCHANGED <<vars, workerVars, last_wal_lsn, fileVars, checkpoint>>

ApplyOp(w) == RedoBegin(w) \/ RedoApply(w) \/ RedoInsert(w) \/ RedoRaise(w) \/ RedoCommit(w)

Redo == Recover \/ OpenWriter \/ \E w \in Workers : ApplyOp(w)
=============================================================================
