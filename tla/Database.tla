------------------------------ MODULE Database ------------------------------
(***************************************************************************)
(* db::Database: client threads, the table, the log, checkpoints, crashes  *)
(* and recovery.                                                           *)
(*                                                                         *)
(* A write goes to the table and then to the log; Commit and Abort go to   *)
(* the log and then to the table.  No lock spans the two, so the threads   *)
(* interleave between them.  Each transaction is used by one thread.       *)
(*                                                                         *)
(* A crash takes the memory of the process and whatever Wal says of the    *)
(* log; a power failure may also take checkpoint files, which nobody       *)
(* forces.  A clean close is a kill that happens to lose nothing.          *)
(*                                                                         *)
(* logical and acked are history variables: the committed contents that    *)
(* each prefix of the log amounts to, and the position of the last COMMIT  *)
(* whose Database::Commit has returned.                                    *)
(***************************************************************************)
EXTENDS Recovery

CONSTANTS
  ClientTxns,    \* bound: transactions of clients
  ClientLives,   \* bound: processes that serve clients
  MaxCrashes,    \* bound: crashes
  Crashes,       \* kinds of crash: "kill", "power"
  Aborts         \* whether clients call Abort

ASSUME DatabaseAssumption ==
  /\ ClientTxns \in Nat /\ ClientLives \in Nat /\ MaxCrashes \in Nat
  /\ Crashes \subseteq {"kill", "power"} /\ Aborts \in BOOLEAN

VARIABLES
  logging,   \* the record a thread is about to append
  ending,    \* threads between a COMMIT or ABORT record and the table's Commit or Abort
  begun,     \* transactions begun by clients so far
  crashes,   \* crashes so far
  logical, acked

clientVars == <<logging, ending, begun, crashes>>
dbVars == <<vars, walVars, recoveryVars, clientVars, logical, acked>>

Logical(n) == IF n = 0 THEN {} ELSE logical[n]

DbInit ==
  /\ TableInit /\ WalInit /\ RecoveryInit
  /\ logging = << >> /\ ending = << >> /\ begun = 0 /\ crashes = 0
  /\ logical = << >> /\ acked = 0

-----------------------------------------------------------------------------
Ready(t) == t \in active_txn_ids /\ Idle(t) /\ t \notin DOMAIN logging \cup DOMAIN ending

\* no two writes of the clients have the same contents
Contents(pos) == pos + crashes * MaxPos

Serving == phase = "open" /\ crashes < ClientLives /\ checkpoint.step = "none"

DbBegin ==
  /\ Serving /\ begun < ClientTxns
  /\ Begin
  /\ logging' = Extend(logging, next_id, WalRecord(next_id, "kBegin", 0, 0))
  /\ begun' = begun + 1
  /\ UNCHANGED <<walVars, recoveryVars, ending, crashes, logical, acked>>

\* the table's part of Insert, Update and Delete
DbWrite(t) ==
  /\ Serving /\ Ready(t)
  /\ \/ Insert(t) /\ UNCHANGED logging
     \/ \E r \in 1..(next_row_id - 1) :
          \/ Update(t, r) /\ UNCHANGED logging
          \/ Delete(t, r) /\ logging' = Extend(logging, t, WalRecord(t, "kDelete", r, 0))
  /\ UNCHANGED <<walVars, recoveryVars, ending, begun, crashes, logical, acked>>

DbDeltaInsert(t) ==
  LET type == IF inserting[t].locked THEN "kUpdate" ELSE "kInsert" IN
  /\ Serving
  /\ DeltaInsert(t, Contents(next_pos))
  /\ logging' = Extend(logging, t, WalRecord(t, type, inserting[t].row_id, Contents(next_pos)))
  /\ UNCHANGED <<walVars, recoveryVars, ending, begun, crashes, logical, acked>>

\* wrong: the table commits before the record is written
CommitsFirst(t) ==
  /\ Serving /\ Ready(t)
  /\ Commit(t)
  /\ logging' = Extend(logging, t, WalRecord(t, "kCommit", 0, 0))
  /\ UNCHANGED <<walVars, recoveryVars, ending, begun, crashes, logical, acked>>

\* Commit and Abort up to the append
DbFinish(t) ==
  /\ Serving /\ Ready(t)
  /\ \E type \in {"kCommit"} \cup (IF Aborts THEN {"kAbort"} ELSE {}) :
       logging' = Extend(logging, t, WalRecord(t, type, 0, 0))
  /\ UNCHANGED <<vars, walVars, recoveryVars, ending, begun, crashes, logical, acked>>

\* what the log amounts to once rec is behind it
Effect(rec) ==
  LET t == rec.txn_id
      now == Logical(Len(wal_file)) IN
  IF rec.type = "kCommit"
  THEN Without(now, wrote[t]) \cup {b \in view[t] : b.row_id \in wrote[t]}
  ELSE now

\* WalWriter::Append
DbAppend(t) ==
  LET rec == logging[t] IN
  /\ AppendRecord(rec)
  /\ logging' = Restrict(logging, DOMAIN logging \ {t})
  /\ ending' = IF rec.type \in {"kCommit", "kAbort"} THEN Extend(ending, t, rec.type) ELSE ending
  /\ logical' = Append(logical, Effect(rec))
  /\ UNCHANGED <<vars, recoveryVars, begun, crashes, acked>>

DbSync ==
  /\ SyncRecord
  /\ UNCHANGED <<vars, recoveryVars, clientVars, logical, acked>>

CommitAt(t) == Max({i \in 1..Len(wal_file) : wal_file[i].txn_id = t /\ wal_file[i].type = "kCommit"})

\* the append has returned: the table's Commit or Abort
DbEnd(t) ==
  /\ syncing # t
  /\ \/ ending[t] = "kCommit" /\ Commit(t) /\ acked' = Max({acked, CommitAt(t)})
     \/ ending[t] = "kAbort" /\ Abort(t) /\ UNCHANGED acked
  /\ ending' = Restrict(ending, DOMAIN ending \ {t})
  /\ UNCHANGED <<walVars, recoveryVars, logging, begun, crashes, logical>>

DbCheckpoint == Checkpoint /\ UNCHANGED <<clientVars, logical, acked>>

DbRecover == Redo /\ UNCHANGED <<clientVars, logical, acked>>

-----------------------------------------------------------------------------
\* the memory of the process is gone
MemoryLost ==
  /\ next_id' = 1 /\ last_commit_ts' = 0 /\ active_snapshots' = NoSnapshots
  /\ active_txn_ids' = {} /\ status' = << >> /\ txn' = << >>
  /\ delta' = << >> /\ next_pos' = 1
  /\ base_segments' = << >> /\ next_segment_id' = 1 /\ next_row_id' = 1
  /\ inserting' = << >> /\ scanning' = << >> /\ compacting' = NotCompacting
  /\ metrics' = [runs |-> 0, rows_promoted |-> 0, rows_retired |-> 0]
  /\ store' = {} /\ view' = << >> /\ wrote' = << >>
  /\ logging' = << >> /\ ending' = << >> /\ syncing' = 0 /\ next_lsn' = 1
  /\ phase' = "closed" /\ last_wal_lsn' = 0
  /\ redo' = ForEachWorker({}) /\ redo_step' = ForEachWorker("begin")
  /\ redo_txn' = ForEachWorker(0) /\ expected' = ForEachWorker(0)
  /\ checkpoint' = [NoCheckpoint EXCEPT !.runs = checkpoint.runs]

\* the log is now `file'
LogLeft(file) ==
  /\ wal_file' = file
  /\ logical' = [i \in 1..Len(file) |-> IF file[i] # Torn THEN logical[i] ELSE Logical(i - 1)]

Appending == syncing = 0 /\ logging # << >>

Kill ==
  /\ "kill" \in Crashes /\ phase # "closed" /\ crashes < MaxCrashes
  /\ crashes' = crashes + 1
  /\ MemoryLost
  /\ \E file \in KilledFiles(Appending) : LogLeft(file)
  /\ UNCHANGED <<synced, fileVars, begun, acked>>

PowerLoss ==
  /\ "power" \in Crashes /\ phase # "closed" /\ crashes < MaxCrashes
  /\ crashes' = crashes + 1
  /\ MemoryLost
  /\ \E file \in PowerLossFiles(Appending) : LogLeft(file) /\ synced' = Len(file)
  /\ \E lost \in SUBSET DOMAIN segment_files :
       segment_files' = [s \in DOMAIN segment_files |->
         IF s \in lost THEN [rows |-> {}, whole |-> FALSE] ELSE segment_files[s]]
  /\ manifest' \in {manifest, NoManifest}
  /\ UNCHANGED <<begun, acked>>

DbNext ==
  \/ DbBegin
  \/ \E t \in active_txn_ids : DbWrite(t) \/ DbFinish(t)
  \/ \E t \in DOMAIN inserting : DbDeltaInsert(t)
  \/ \E t \in DOMAIN logging : DbAppend(t)
  \/ \E t \in DOMAIN ending : DbEnd(t)
  \/ DbSync \/ DbCheckpoint \/ DbRecover \/ Kill \/ PowerLoss

\* the constructor runs on one thread that nothing else can hold up
DbSpec == DbInit /\ [][DbNext]_dbVars /\ WF_dbVars(DbRecover)

-----------------------------------------------------------------------------
(* Properties *)

\* what a transaction that begins now reads (MaterializeVisibleRows)
Gone(rec) == rec.deleted_txn # 0 /\ Committed(rec.deleted_txn)
Visible(p) == ~delta[p].is_base_tombstone /\ Committed(delta[p].created_txn) /\ ~Gone(delta[p])

VisibleRows ==
  LET seen == {p \in DOMAIN delta : Visible(p)}
      last == {p \in seen : \A q \in seen : delta[q].row_id = delta[p].row_id => q <= p}
      hidden == {delta[p].row_id : p \in seen \cup
                   {q \in DOMAIN delta : delta[q].is_base_tombstone /\ Gone(delta[q])}} IN
  {[row_id |-> delta[p].row_id, row |-> delta[p].row] : p \in last} \cup Without(base, hidden)

\* Every variable has its type.
DbTypeOK ==
  /\ phase \in {"closed", "redo", "open"}
  /\ redo_step \in [Workers -> {"begin", "apply", "insert", "raise", "commit"}]
  /\ redo_txn \in [Workers -> Nat] /\ expected \in [Workers -> Nat]
  /\ synced \in 0..Len(wal_file) /\ syncing \in Nat /\ next_lsn \in Nat \ {0}
  /\ \A i \in 1..Len(wal_file) : wal_file[i].type \in WalRecordType \cup {"torn"}
  /\ Len(logical) = Len(wal_file)
  /\ \A w \in Workers : redo[w] # {} => phase = "redo"
  /\ Cardinality(active_txn_ids) <= NumWorkers \/ phase = "open"
  /\ DOMAIN logging \cup DOMAIN ending \subseteq active_txn_ids

\* When Recover returns, readers will see exactly the committed state the log that
\* survived amounts to: operations of transactions without a COMMIT are left out, a
\* checkpoint and the replay behind it add up, and replaying operation by operation in
\* LSN order (not transaction by transaction) rebuilds every row.
RecoveryRestores == Recovered => VisibleRows = Logical(Len(wal_file))

\* No COMMIT whose Database::Commit has returned is ever cut off or left behind a
\* damaged record, in the modes that force it.
AckedCommitsSurvive == acked <= Len(ReadAll(wal_file))


\* the last record of the log that a checkpoint with this LSN covers
UpTo(lsn) == Max({i \in 1..Len(wal_file) : wal_file[i] # Torn /\ wal_file[i].lsn <= lsn} \cup {0})

\* The segments of a complete checkpoint hold exactly the committed contents of the
\* log up to its LSN.
CheckpointCapturesLog ==
  manifest.written =>
    /\ SegmentsLoad
    /\ UNION {segment_files[s].rows : s \in manifest.segment_files} = Logical(UpTo(manifest.last_lsn))

\* A replayed Update or Delete finds its row, whatever the other workers are doing:
\* ApplyOp never silently drops one.
ReplayNeverRefused ==
  \A w \in Workers :
    redo_step[w] = "apply" /\ Op(w).type # "kInsert"
      => ClaimResult(Op(w).row_id, redo_txn[w]) = "kOk"

\* Once Recover has returned, the row id allocator is past every row id of the table,
\* in whatever order the workers raised it: a later Insert never meets a replayed row.
RowIdsFresh ==
  Recovered \/ phase = "open" =>
    \A r \in RowIds(base) \cup {delta[p].row_id : p \in DOMAIN delta} : r < next_row_id

\* LSNs grow along the log, over restarts too, so the checkpoint's LSN cuts it in two.
LsnsIncrease ==
  \A i, j \in 1..Len(wal_file) :
    i < j /\ Torn \notin {wal_file[i], wal_file[j]} => wal_file[i].lsn < wal_file[j].lsn

\* A recovered row was part of a committed state at some time: aborted and unresolved
\* transactions are dropped.
OnlyCommittedReplayed ==
  Recovered => \A b \in VisibleRows : \E n \in 0..Len(wal_file) : b \in Logical(n)

\* Recovery ends, however often it is interrupted.
RecoveryEnds == phase = "closed" ~> phase = "open"

-----------------------------------------------------------------------------
(* The inductive invariants of the proofs *)

LogRecord == [lsn : Nat, txn_id : Nat, type : WalRecordType \cup {"torn"},
              row_id : 0..MaxRow, row : Nat]
StoredRow == [row_id : 0..MaxRow, row : Nat]
StoredRecord == [row_id : 0..MaxRow, created_txn : Nat, deleted_txn : Nat, row : Nat,
                 is_base_tombstone : BOOLEAN]

Bounded(S) == Max(S \cup {0}) \in Nat /\ S \subseteq 0..Max(S \cup {0})

\* the table: every row id is within the bound, every record in progress exists
MemoryShape ==
  /\ next_pos \in Nat \ {0} /\ next_row_id \in 1..(MaxRow + 1) /\ next_segment_id \in Nat
  /\ delta \in [DOMAIN delta -> StoredRecord] /\ DOMAIN delta \subseteq Nat
  /\ base_segments \in [DOMAIN base_segments -> SUBSET StoredRow]
  /\ Bounded(DOMAIN base_segments)
  /\ inserting \in [DOMAIN inserting -> [row_id : 0..MaxRow, locked : BOOLEAN]]
  /\ compacting \in [running : BOOLEAN, oldest_active : Nat, todo : SUBSET DOMAIN delta,
                     live_stable_rows : SUBSET StoredRow,
                     stably_deleted_row_ids : SUBSET Nat, retained : SUBSET DOMAIN delta]

\* the files, and what is written to them
FileShape ==
  /\ wal_file \in Seq(LogRecord) /\ synced \in 0..Len(wal_file) /\ syncing \in Nat
  /\ next_lsn \in Nat \ {0} /\ last_wal_lsn \in Nat /\ crashes \in Nat
  /\ logical = [i \in 1..Len(wal_file) |-> logical[i]]
  /\ segment_files \in [DOMAIN segment_files -> [rows : SUBSET StoredRow, whole : BOOLEAN]]
  /\ manifest \in [written : BOOLEAN, last_lsn : Nat, segment_files : SUBSET Nat]
  /\ Bounded(manifest.segment_files)
  /\ checkpoint \in [step : {"none", "compact", "save", "saving", "manifest"},
                     wal_lsn : Nat, todo : SUBSET DOMAIN base_segments, runs : Nat]
  /\ checkpoint.step = "saving" => checkpoint.todo # {}
  /\ checkpoint.step \notin {"save", "saving"} => checkpoint.todo = {}

\* who may be doing what in each phase of the process
Busy(w) == redo_step[w] # "begin"

WorkersShape ==
  /\ phase \in {"closed", "redo", "open"}
  /\ redo \in [Workers -> SUBSET (1..Len(wal_file))]
  /\ redo_step \in [Workers -> {"begin", "apply", "insert", "raise", "commit"}]
  /\ redo_txn \in [Workers -> Nat] /\ expected \in [Workers -> Nat]
  /\ \A w \in Workers :
       /\ redo[w] # {} => phase = "redo"
       /\ Busy(w) => redo[w] # {} /\ redo_txn[w] \in active_txn_ids
       /\ redo_step[w] = "insert" => redo_txn[w] \in DOMAIN inserting
       /\ \A v \in Workers \ {w} : Busy(w) /\ Busy(v) => redo_txn[w] # redo_txn[v]
  /\ phase # "open" => \A t \in active_txn_ids : \E w \in Workers : Busy(w) /\ redo_txn[w] = t

ClientsShape ==
  /\ logging \in [DOMAIN logging -> LogRecord]
  /\ \A t \in DOMAIN logging : logging[t].txn_id = t /\ logging[t].type \in WalRecordType
  /\ DOMAIN inserting \cup DOMAIN logging \cup DOMAIN ending \subseteq active_txn_ids
  /\ DOMAIN logging \cap DOMAIN ending = {}
  /\ DOMAIN inserting \cap (DOMAIN logging \cup DOMAIN ending) = {}
  /\ phase # "open" => /\ DOMAIN logging = {} /\ DOMAIN ending = {}
                       /\ ~compacting.running /\ checkpoint.step = "none"
  /\ DOMAIN logging \cup DOMAIN ending # {} => crashes < ClientLives

\* the allocator is past the row, or the worker that inserted it is about to see to that
Raised(r) ==
  r < next_row_id \/ \E w \in Workers : redo_step[w] = "raise" /\ Op(w).row_id = r

RowIdsRaised ==
  /\ \A p \in DOMAIN delta : Raised(delta[p].row_id)
  /\ \A t \in DOMAIN inserting : Raised(inserting[t].row_id)
  /\ \A b \in base \cup compacting.live_stable_rows : b.row_id < next_row_id
  /\ \A w \in Workers : redo_step[w] = "raise" => expected[w] <= next_row_id

\* What every step of clients, checkpoints, crashes and recovery keeps: who may be at
\* work in which phase of the process, with transactions of whom, and that next_row_id_
\* is past every row but those whose InsertWithRowId has not yet come to raise it.
DbInv ==
  TMInv /\ MemoryShape /\ FileShape /\ WorkersShape /\ ClientsShape /\ RowIdsRaised

\* a COMMIT that a client is told of is forced, where the crashes call for it
Forcing == Durability # "kNoSync" \/ "power" \notin Crashes

\* the records that no crash can take
Safe == IF "power" \in Crashes THEN synced ELSE Len(wal_file)

CommitsOf(t) ==
  {i \in 1..Len(wal_file) : wal_file[i].txn_id = t /\ wal_file[i].type = "kCommit"}

\* The last COMMIT whose Commit returned lies in front of any torn record and where no
\* crash reaches, and a Commit between Append and its return has written its COMMIT and
\* is either forcing it or has it forced.
AckInv ==
  /\ acked \in 0..Safe
  /\ \A i \in 1..acked : wal_file[i] # Torn
  /\ \A t \in DOMAIN ending : ending[t] = "kCommit" =>
       CommitsOf(t) # {} /\ (syncing = t \/ \A i \in CommitsOf(t) : i <= Safe)

\* no client works behind a torn record
TailWhole ==
  phase = "open" /\ crashes < ClientLives => \A i \in 1..Len(wal_file) : wal_file[i] # Torn

\* a process that will serve clients starts from the whole of the log and its checkpoint
RestartsWhole ==
  phase = "closed" /\ crashes < ClientLives =>
    /\ SegmentsLoad
    /\ \A i \in 1..Len(wal_file) : wal_file[i] # Torn => i <= Len(ReadAll(wal_file))

\* LSNs grow along the log, and in a process that serves clients the LSN that the next
\* record will get is past all of them: already while Recover runs, by last_wal_lsn,
\* from which the constructor takes the LSN the writer starts with.
LsnInv ==
  /\ LsnsIncrease
  /\ crashes < ClientLives => \A i \in 1..Len(wal_file) : wal_file[i] # Torn =>
       /\ phase = "redo" => wal_file[i].lsn <= last_wal_lsn
       /\ phase = "open" => wal_file[i].lsn < next_lsn
=============================================================================
