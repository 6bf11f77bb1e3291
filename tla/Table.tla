------------------------------- MODULE Table -------------------------------
(***************************************************************************)
(* table::Table with its mvcc::DeltaLayer and TransactionManager: inserts, *)
(* claims, scans and compaction by concurrent client threads.              *)
(*                                                                         *)
(* The vector records_ is a function from positions to records: push_back  *)
(* takes the next position and Compact keeps a subset of them, so position *)
(* order is vector order.  The base segments are the set of their rows.    *)
(* The payload of a row is the position it was appended at, so no two      *)
(* writes are ever confused.                                               *)
(*                                                                         *)
(* Locks.  table_mu_ is held shared by writers and exclusively by Compact; *)
(* the delta's mu_ and the manager's mu_ are held for one step.  Begin,    *)
(* Commit, Abort and the status reads of a scan take only the manager's    *)
(* mu_, so they run between the steps of a Compact.  A claim reads several *)
(* statuses one after the other, but only an active one can still change,  *)
(* and an active one other than the claimer's ends the search: it is one   *)
(* step.  Each transaction is used by one thread.                          *)
(*                                                                         *)
(* store, view and wrote are history variables: what the committed         *)
(* transactions add up to, what each transaction should see, and the rows  *)
(* it wrote.  No guard reads them.                                         *)
(***************************************************************************)
EXTENDS TransactionManager

CONSTANTS
  BaseRows,        \* row ids of the base the table is loaded with
  Writes,          \* kinds of write the clients issue
  MaxPos,          \* bound: records appended to the delta
  MaxRow,          \* bound: row ids
  MaxScans,        \* bound: scans open at once
  MaxCompactions   \* bound: runs of Compact

ASSUME TableAssumption ==
  /\ BaseRows \subseteq Nat \ {0}
  /\ Writes \subseteq {"insert", "update", "delete"}
  /\ MaxPos \in Nat /\ MaxRow \in Nat /\ MaxScans \in Nat /\ MaxCompactions \in Nat
  /\ \A r \in BaseRows : r <= MaxRow

VARIABLES
  delta,        \* records_ of the delta layer
  next_pos,     \* position of the next push_back
  base_segments,    \* base_segments_: the rows of each segment, by segment id
  next_segment_id,  \* next_segment_id_
  next_row_id,  \* next_row_id_
  inserting,    \* threads about to call DeltaLayer::Insert
  scanning,     \* threads between SnapshotForScan and the end of MaterializeVisibleRows
  compacting,   \* the locals of a running Compact
  metrics,      \* metrics_ without the durations
  store, view, wrote

deltaVars == <<delta, next_pos>>
baseVars == <<base_segments, next_segment_id>>
tableVars == <<deltaVars, baseVars, next_row_id, inserting, scanning, compacting, metrics>>
historyVars == <<store, view, wrote>>
vars == <<tmVars, tableVars, historyVars>>

DeltaRecord == [row_id : Nat, created_txn : Nat, deleted_txn : Nat, row : Nat,
                is_base_tombstone : BOOLEAN]
BaseRow == [row_id : Nat, row : Nat]

RowIds(rows) == {b.row_id : b \in rows}
base == UNION Range(base_segments)
Without(rows, ids) == {b \in rows : b.row_id \notin ids}

-----------------------------------------------------------------------------
(* Visibility (delta.cpp) *)

\* wrong: a commit of the reader's own instant is not seen (< for <=)
SeenStrictly(id, reader) ==
  \/ id = reader
  \/ Committed(id) /\ GetStatus(id).commit_ts < txn[reader].snapshot_ts

\* an effect of transaction id is seen by reader: its own, or committed by its snapshot
SeenBy(id, reader) == id = reader \/ CommittedBy(id, txn[reader].snapshot_ts)

IsVisible(rec, reader) ==
  /\ rec.created_txn = 0 \/ SeenBy(rec.created_txn, reader)
  /\ rec.deleted_txn = 0 \/ ~SeenBy(rec.deleted_txn, reader)

-----------------------------------------------------------------------------
(* Claiming a version (ClaimOrInsertBaseTombstone) *)

RecordsOf(r) == {p \in DOMAIN delta : delta[p].row_id = r}

\* wrong: a claim whose transaction is still active is taken over
OutcomeSteals(rec, w) ==
  LET d == rec.deleted_txn IN
  IF (d # 0 /\ (d = w \/ Committed(d))) \/ ~IsVisible(rec, w) THEN "skip" ELSE "claim"

\* wrong: a version is claimed without looking at who created it
OutcomeBlind(rec, w) ==
  LET d == rec.deleted_txn IN
  CASE d # 0 /\ d # w /\ GetStatus(d).state = "kActive" -> "conflict"
    [] d # 0 /\ (d = w \/ Committed(d)) -> "skip"
    [] OTHER -> "claim"

\* what the reverse scan does at one record of the row
Outcome(rec, w) ==
  LET d == rec.deleted_txn IN
  CASE d # 0 /\ d # w /\ GetStatus(d).state = "kActive" -> "conflict"
    [] d # 0 /\ d # w /\ Committed(d) -> "skip"
    [] d = w -> "skip"
    [] OTHER -> IF IsVisible(rec, w) THEN "claim" ELSE "skip"

\* p is where the reverse scan over row r stops
StopsAt(p, r, w) ==
  /\ p \in RecordsOf(r)
  /\ Outcome(delta[p], w) # "skip"
  /\ \A q \in RecordsOf(r) : q > p => Outcome(delta[q], w) = "skip"

RowIdExistsInBase(r) == r \in RowIds(base)

\* wrong: an abandoned row of the delta is no obstacle to a base tombstone
TombstoneAnyway(r, w) ==
  RowIdExistsInBase(r) /\ \A p \in RecordsOf(r) : Outcome(delta[p], w) = "skip"

NeedsTombstone(r, w) == RecordsOf(r) = {} /\ RowIdExistsInBase(r)

\* the WriteResult the call returns
ClaimResult(r, w) ==
  IF \E p \in DOMAIN delta : StopsAt(p, r, w)
  THEN IF \E p \in DOMAIN delta : StopsAt(p, r, w) /\ Outcome(delta[p], w) = "claim"
       THEN "kOk" ELSE "kConflict"
  ELSE IF NeedsTombstone(r, w) THEN "kOk" ELSE "kNotFound"

Push(rec) ==
  /\ next_pos <= MaxPos
  /\ delta' = Extend(delta, next_pos, rec)
  /\ next_pos' = next_pos + 1

\* the call returns kOk; otherwise it changes nothing and the write returns false
Claim(r, w) ==
  \/ \E p \in DOMAIN delta :
       /\ StopsAt(p, r, w)
       /\ Outcome(delta[p], w) = "claim"
       /\ delta' = [delta EXCEPT ![p].deleted_txn = w]
       /\ UNCHANGED next_pos
  \/ /\ NeedsTombstone(r, w)
     /\ Push([row_id |-> r, created_txn |-> 0, deleted_txn |-> w, row |-> 0,
              is_base_tombstone |-> TRUE])

-----------------------------------------------------------------------------
(* Compact's locals *)

NotCompacting == [running |-> FALSE, oldest_active |-> 0, todo |-> {},
                  live_stable_rows |-> {}, stably_deleted_row_ids |-> {}, retained |-> {}]

Stable(id) == CommittedBy(id, compacting.oldest_active)

IsHead(p) == \A q \in RecordsOf(delta[p].row_id) : q <= p

Superseded(rec) == rec.deleted_txn # 0 /\ Stable(rec.deleted_txn)

\* wrong: the head is copied into the rebuilt base whether or not it was deleted
PromotesDeleted(p) ==
  LET rec == delta[p] IN IsHead(p) /\ ~rec.is_base_tombstone /\ Stable(rec.created_txn)

\* the head version is copied into the rebuilt base
Promotes(p) ==
  LET rec == delta[p] IN
  IsHead(p) /\ ~rec.is_base_tombstone /\ Stable(rec.created_txn) /\ rec.deleted_txn = 0

\* the head is a tombstone whose base row the rewrite leaves out
Purges(p) == IsHead(p) /\ delta[p].is_base_tombstone /\ Superseded(delta[p])

\* wrong: a superseded version goes as soon as its deleter has committed
RetiresEarly(p) ==
  LET rec == delta[p] IN
  \/ ~rec.is_base_tombstone /\ Aborted(rec.created_txn)
  \/ ~IsHead(p) /\ rec.deleted_txn # 0 /\ Committed(rec.deleted_txn)
  \/ Promotes(p) \/ Purges(p)

\* the record does not go into `retained'
Retires(p) ==
  LET rec == delta[p] IN
  \/ ~rec.is_base_tombstone /\ Aborted(rec.created_txn)
  \/ ~IsHead(p) /\ Superseded(rec)
  \/ IsHead(p) /\ rec.is_base_tombstone /\ (Superseded(rec) \/ Aborted(rec.deleted_txn))
  \/ /\ IsHead(p) /\ ~rec.is_base_tombstone /\ Stable(rec.created_txn)
     /\ rec.deleted_txn = 0 \/ Superseded(rec)

-----------------------------------------------------------------------------
TableInit ==
  /\ TMInit
  /\ delta = << >>
  /\ next_pos = 1
  /\ base_segments = IF BaseRows = {} THEN << >>
                     ELSE [s \in {1} |-> {[row_id |-> r, row |-> 0] : r \in BaseRows}]
  /\ next_segment_id = IF BaseRows = {} THEN 1 ELSE 2
  /\ next_row_id = Max(BaseRows \cup {0}) + 1
  /\ inserting = << >>
  /\ scanning = << >>
  /\ compacting = NotCompacting
  /\ metrics = [runs |-> 0, rows_promoted |-> 0, rows_retired |-> 0]
  /\ store = base
  /\ view = << >>
  /\ wrote = << >>

\* the thread of t is between calls
Idle(t) == txn[t].state = "kActive" /\ t \notin DOMAIN inserting \cup DOMAIN scanning

Begin ==
  /\ TMBegin
  /\ view' = Extend(view, next_id, store)
  /\ wrote' = Extend(wrote, next_id, {})
  /\ UNCHANGED <<tableVars, store>>

Commit(t) ==
  /\ Idle(t)
  /\ TMCommit(t)
  /\ store' = Without(store, wrote[t]) \cup {b \in view[t] : b.row_id \in wrote[t]}
  /\ view' = Restrict(view, DOMAIN view \ {t})
  /\ UNCHANGED <<tableVars, wrote>>

Abort(t) ==
  /\ Idle(t)
  /\ TMAbort(t)
  /\ view' = Restrict(view, DOMAIN view \ {t})
  /\ UNCHANGED <<tableVars, store, wrote>>

\* Table::Insert up to the point where it takes table_mu_
Insert(t) ==
  /\ "insert" \in Writes /\ Idle(t) /\ next_row_id <= MaxRow
  /\ next_row_id' = next_row_id + 1
  /\ inserting' = Extend(inserting, t, [row_id |-> next_row_id, locked |-> FALSE])
  /\ UNCHANGED <<tmVars, deltaVars, baseVars, scanning, compacting, metrics, historyVars>>

\* Table::Update up to the delta_.Insert: it keeps table_mu_ shared meanwhile
Update(t, r) ==
  /\ "update" \in Writes /\ Idle(t) /\ ~compacting.running
  /\ Claim(r, t)
  /\ inserting' = Extend(inserting, t, [row_id |-> r, locked |-> TRUE])
  /\ wrote' = [wrote EXCEPT ![t] = @ \cup {r}]
  /\ UNCHANGED <<tmVars, baseVars, next_row_id, scanning, compacting, metrics, store, view>>

\* DeltaLayer::Insert of contents v as row r, by t
AddVersion(t, r, v) ==
  /\ ~compacting.running
  /\ Push([row_id |-> r, created_txn |-> t, deleted_txn |-> 0, row |-> v,
           is_base_tombstone |-> FALSE])
  /\ view' = [view EXCEPT ![t] = Without(@, {r}) \cup {[row_id |-> r, row |-> v]}]
  /\ wrote' = [wrote EXCEPT ![t] = @ \cup {r}]

\* the last step of Table::Insert and Table::Update
DeltaInsert(t, v) ==
  /\ AddVersion(t, inserting[t].row_id, v)
  /\ inserting' = Restrict(inserting, DOMAIN inserting \ {t})
  /\ UNCHANGED <<tmVars, baseVars, next_row_id, scanning, compacting, metrics, store>>

\* Table::InsertWithRowId up to its loop; only the workers of recovery call it
InsertWithRowId(t, r, v) ==
  /\ AddVersion(t, r, v)
  /\ UNCHANGED <<tmVars, baseVars, next_row_id, inserting, scanning, compacting, metrics,
                 store>>

\* wrong: the allocator is set without looking at what it became since
SetRowId(expected, r) ==
  /\ next_row_id' = r + 1
  /\ UNCHANGED <<tmVars, deltaVars, baseVars, inserting, scanning, compacting, metrics,
                 historyVars>>

\* the loop of InsertWithRowId: a compare_exchange that finds what was expected
RaiseRowId(expected, r) ==
  /\ next_row_id = expected
  /\ next_row_id' = r + 1
  /\ UNCHANGED <<tmVars, deltaVars, baseVars, inserting, scanning, compacting, metrics,
                 historyVars>>

Delete(t, r) ==
  /\ "delete" \in Writes /\ Idle(t) /\ ~compacting.running
  /\ Claim(r, t)
  /\ view' = [view EXCEPT ![t] = Without(@, {r})]
  /\ wrote' = [wrote EXCEPT ![t] = @ \cup {r}]
  /\ UNCHANGED <<tmVars, baseVars, next_row_id, inserting, scanning, compacting, metrics, store>>

\* Table::LoadBaseSegments; only recovery calls it, on a table nobody else uses
LoadBaseSegments(segments) ==
  LET rows == UNION Range(segments) IN
  /\ base_segments' = segments
  /\ next_row_id' = Max({next_row_id} \cup {b.row_id + 1 : b \in rows})
  /\ next_segment_id' = Max({next_segment_id} \cup {s + 1 : s \in DOMAIN segments})
  /\ store' = rows
  /\ UNCHANGED <<tmVars, deltaVars, inserting, scanning, compacting, metrics, view, wrote>>

-----------------------------------------------------------------------------
(* SnapshotForScan, then MaterializeVisibleRows one record at a time        *)

SnapshotForScan(t) ==
  /\ Idle(t) /\ ~compacting.running
  /\ Cardinality(DOMAIN scanning) < MaxScans
  /\ scanning' = Extend(scanning, t,
                  [segments |-> base, delta_records |-> delta, todo |-> DOMAIN delta,
                   from_delta |-> {}, suppress_base |-> {}])
  /\ UNCHANGED <<tmVars, deltaVars, baseVars, next_row_id, inserting, compacting, metrics,
                 historyVars>>

\* wrong: a tombstone hides the base row from every reader
ScanStepHidesBase(sc, rec, t) ==
  IF rec.is_base_tombstone
  THEN [sc EXCEPT !.suppress_base = @ \cup {rec.row_id}]
  ELSE IF IsVisible(rec, t)
  THEN [sc EXCEPT !.from_delta = Without(@, {rec.row_id})
                                   \cup {[row_id |-> rec.row_id, row |-> rec.row]},
                  !.suppress_base = @ \cup {rec.row_id}]
  ELSE sc

ScanStep(sc, rec, t) ==
  IF rec.is_base_tombstone
  THEN [sc EXCEPT !.suppress_base =
          @ \cup (IF SeenBy(rec.deleted_txn, t) THEN {rec.row_id} ELSE {})]
  ELSE IF IsVisible(rec, t)
  THEN [sc EXCEPT !.from_delta = Without(@, {rec.row_id})
                                   \cup {[row_id |-> rec.row_id, row |-> rec.row]},
                  !.suppress_base = @ \cup {rec.row_id}]
  ELSE sc

ScanRecord(t) ==
  LET sc == scanning[t]
      p == Min(sc.todo) IN
  /\ sc.todo # {}
  /\ scanning' = [scanning EXCEPT ![t] =
        [ScanStep(sc, sc.delta_records[p], t) EXCEPT !.todo = @ \ {p}]]
  /\ UNCHANGED <<tmVars, deltaVars, baseVars, next_row_id, inserting, compacting, metrics,
                 historyVars>>

\* the rows MaterializeVisibleRows returns once the loop over the records is over
ScanResult(sc) == sc.from_delta \cup Without(sc.segments, sc.suppress_base)

ScanEnd(t) ==
  /\ scanning[t].todo = {}
  /\ scanning' = Restrict(scanning, DOMAIN scanning \ {t})
  /\ UNCHANGED <<tmVars, deltaVars, baseVars, next_row_id, inserting, compacting, metrics,
                 historyVars>>

-----------------------------------------------------------------------------
(* Compact: take table_mu_ and the watermark, classify one record at a time *)
(* with the statuses of that moment, install                                *)

CompactBegin ==
  /\ ~compacting.running /\ metrics.runs < MaxCompactions
  /\ \A t \in DOMAIN inserting : ~inserting[t].locked
  /\ compacting' = [NotCompacting EXCEPT !.running = TRUE,
                      !.oldest_active = OldestActiveSnapshot, !.todo = DOMAIN delta]
  /\ UNCHANGED <<tmVars, deltaVars, baseVars, next_row_id, inserting, scanning, metrics,
                 historyVars>>

CompactRecord ==
  LET p == Min(compacting.todo) IN
  /\ compacting.todo # {}
  /\ compacting' = [compacting EXCEPT
       !.todo = @ \ {p},
       !.live_stable_rows = @ \cup (IF Promotes(p)
          THEN {[row_id |-> delta[p].row_id, row |-> delta[p].row]} ELSE {}),
       !.stably_deleted_row_ids = @ \cup (IF Purges(p) THEN {delta[p].row_id} ELSE {}),
       !.retained = @ \cup (IF Retires(p) THEN {} ELSE {p})]
  /\ UNCHANGED <<tmVars, deltaVars, baseVars, next_row_id, inserting, scanning, metrics,
                 historyVars>>

\* base_segments_ is rebuilt as one new segment when a row moves in or out
InstallBase ==
  LET live == compacting.live_stable_rows
      purged == compacting.stably_deleted_row_ids IN
  IF live = {} /\ purged = {} THEN UNCHANGED baseVars
  ELSE /\ base_segments' = [s \in {next_segment_id} |-> Without(base, purged) \cup live]
       /\ next_segment_id' = next_segment_id + 1

CompactEnd ==
  LET promoted == Cardinality(compacting.live_stable_rows) IN
  /\ compacting.running /\ compacting.todo = {}
  /\ InstallBase
  /\ delta' = Restrict(delta, compacting.retained)
  /\ metrics' = [runs |-> metrics.runs + 1,
        rows_promoted |-> metrics.rows_promoted + promoted,
        rows_retired |-> metrics.rows_retired
           + (Cardinality(DOMAIN delta) - Cardinality(compacting.retained) - promoted)]
  /\ compacting' = NotCompacting
  /\ UNCHANGED <<tmVars, next_pos, next_row_id, inserting, scanning, historyVars>>

-----------------------------------------------------------------------------
TxnStep(t) ==
  \/ Commit(t) \/ Abort(t) \/ Insert(t) \/ SnapshotForScan(t)
  \/ \E r \in 1..(next_row_id - 1) : Update(t, r) \/ Delete(t, r)

Next ==
  \/ Begin
  \/ \E t \in active_txn_ids : TxnStep(t)
  \/ \E t \in DOMAIN inserting : DeltaInsert(t, next_pos)
  \/ \E t \in DOMAIN scanning : ScanRecord(t) \/ ScanEnd(t)
  \/ CompactBegin \/ CompactRecord \/ CompactEnd

Spec == TableInit /\ [][Next]_vars

-----------------------------------------------------------------------------
(* Properties *)

\* Every variable has its type.
TypeOK ==
  /\ TMTypeOK
  /\ delta \in [DOMAIN delta -> DeltaRecord] /\ DOMAIN delta \subseteq 1..(next_pos - 1)
  /\ next_pos \in Nat \ {0} /\ next_row_id \in Nat \ {0} /\ next_segment_id \in Nat \ {0}
  /\ base_segments \in [DOMAIN base_segments -> SUBSET BaseRow]
  /\ DOMAIN base_segments \subseteq 1..(next_segment_id - 1)
  /\ inserting \in [DOMAIN inserting -> [row_id : Nat, locked : BOOLEAN]]
  /\ DOMAIN inserting \cup DOMAIN scanning \subseteq active_txn_ids
  /\ compacting \in [running : BOOLEAN, oldest_active : Nat, todo : SUBSET DOMAIN delta,
                     live_stable_rows : SUBSET BaseRow, stably_deleted_row_ids : SUBSET Nat,
                     retained : SUBSET DOMAIN delta]
  /\ IsFiniteSet(compacting.live_stable_rows)
  /\ metrics \in [runs : Nat, rows_promoted : Nat, rows_retired : Int]
  /\ store \subseteq BaseRow
  /\ view \in [active_txn_ids -> SUBSET BaseRow]
  /\ wrote \in [DOMAIN txn -> SUBSET Nat]

\* A finished scan returns exactly the rows of the reader's snapshot with its own
\* writes laid over it, whatever committed or was compacted while it ran.
ScanReturnsSnapshot ==
  \A t \in DOMAIN scanning : scanning[t].todo = {} => ScanResult(scanning[t]) = view[t]

Overlap(t, u) == ~CommittedBy(t, txn[u].snapshot_ts) /\ ~CommittedBy(u, txn[t].snapshot_ts)

\* Two transactions that both wrote a row and did not abort never overlap: one had
\* committed by the snapshot the other reads from (first claimer wins; Compact never
\* drops the evidence while a transaction that needs it is active).
FirstClaimerWins ==
  \A t, u \in DOMAIN txn :
    t # u /\ ~Aborted(t) /\ ~Aborted(u) /\ Overlap(t, u) => wrote[t] \cap wrote[u] = {}

Contended(t, r) ==
  \E u \in DOMAIN txn \ {t} :
    r \in wrote[u] /\ ~Aborted(u) /\ ~CommittedBy(u, txn[t].snapshot_ts)

\* Update and Delete find a row exactly when the writer can see it and no concurrent
\* transaction has written it: no false conflict after an abort, no missed one.
ClaimIsExact ==
  \A t \in active_txn_ids \ DOMAIN inserting : \A r \in 1..(next_row_id - 1) :
    ClaimResult(r, t) = "kOk" <=> r \in RowIds(view[t]) /\ ~Contended(t, r)

\* Every record ever pushed is still in the delta or is counted once by the metrics,
\* and the unsigned rows_retired never wraps below zero.
MetricsAddUp ==
  /\ metrics.rows_retired >= 0
  /\ next_pos - 1 = Cardinality(DOMAIN delta) + metrics.rows_promoted + metrics.rows_retired

\* A scan returns no two versions of one row.
OneVersionPerRow ==
  \A t \in DOMAIN scanning : scanning[t].todo = {} =>
    \A b, c \in ScanResult(scanning[t]) : b.row_id = c.row_id => b = c

-----------------------------------------------------------------------------
(* The inductive invariant of the proofs *)

\* the version can still be seen by somebody: its creator did not abort
Live(p) == ~Aborted(delta[p].created_txn)

\* every transaction a record names exists, and a tombstone is created by nobody
RecordsRefer ==
  \A p \in DOMAIN delta :
    /\ delta[p].created_txn \in DOMAIN txn \cup {0}
    /\ delta[p].deleted_txn \in DOMAIN txn \cup {0}
    /\ delta[p].is_base_tombstone <=> delta[p].created_txn = 0
    /\ delta[p].is_base_tombstone => delta[p].deleted_txn # 0
    /\ delta[p].row_id < next_row_id

\* a claim that stands was made by a transaction that saw the version
ClaimsSee ==
  \A p \in DOMAIN delta :
    LET rec == delta[p] IN
    rec.deleted_txn # 0 /\ ~Aborted(rec.deleted_txn)
      => rec.created_txn = 0 \/ SeenBy(rec.created_txn, rec.deleted_txn)

\* the live versions of a row form a chain: the earlier one is deleted, by a
\* transaction the creator of the later one is or saw
VersionChain ==
  \A p, q \in DOMAIN delta :
    p < q /\ delta[p].row_id = delta[q].row_id /\ Live(p) /\ Live(q)
      => /\ delta[p].deleted_txn # 0 /\ delta[q].created_txn # 0
         /\ SeenBy(delta[p].deleted_txn, delta[q].created_txn)

\* between the claim and the insert of an Update the writer has the row to itself
UpdateOwns ==
  \A t \in DOMAIN inserting : inserting[t].locked =>
    /\ inserting[t].row_id \in wrote[t]
    /\ ~compacting.running
    /\ \A p \in RecordsOf(inserting[t].row_id) :
         Live(p) => delta[p].deleted_txn # 0 /\ SeenBy(delta[p].deleted_txn, t)

\* a row id drawn by Insert is nowhere yet
InsertFresh ==
  /\ \A t \in DOMAIN inserting : inserting[t].row_id < next_row_id
  /\ \A t \in DOMAIN inserting : ~inserting[t].locked =>
       LET r == inserting[t].row_id IN
       /\ RecordsOf(r) = {}
       /\ r \notin RowIds(base) \cup RowIds(compacting.live_stable_rows)
       /\ \A u \in DOMAIN txn : r \notin wrote[u]
       /\ \A u \in DOMAIN inserting \ {t} : inserting[u].row_id # r
  /\ \A b \in base \cup compacting.live_stable_rows : b.row_id < next_row_id
  /\ \A u \in DOMAIN txn : \A r \in wrote[u] : r < next_row_id

\* committed at or below every snapshot that is or can be read
Settled(t) ==
  CommittedBy(t, last_commit_ts)
    /\ \A u \in active_txn_ids : CommittedBy(t, txn[u].snapshot_ts)

\* a write leaves its transaction's name in the delta until it is settled
WritesLeaveTrace ==
  \A t \in DOMAIN txn : \A r \in wrote[t] : ~Aborted(t) =>
    \/ Settled(t)
    \/ \E p \in RecordsOf(r) : t \in {delta[p].created_txn, delta[p].deleted_txn}

\* a running Compact has a safe watermark and has left out only what it may
CompactSound ==
  compacting.running =>
    /\ compacting.oldest_active \in 0..last_commit_ts
    /\ \A t \in active_txn_ids : compacting.oldest_active <= txn[t].snapshot_ts
    /\ \A p \in DOMAIN delta \ (compacting.todo \cup compacting.retained) : Retires(p)

\* a running Compact puts each record it has looked at in one place at most
CompactAccounts ==
  compacting.running =>
    Cardinality(compacting.live_stable_rows) + Cardinality(compacting.retained)
      + Cardinality(compacting.todo) <= Cardinality(DOMAIN delta)

\* The invariant the proofs carry: the above, with FirstClaimerWins itself.
TableInv ==
  /\ TMInv /\ TypeOK /\ RecordsRefer /\ ClaimsSee /\ VersionChain /\ UpdateOwns
  /\ InsertFresh /\ WritesLeaveTrace /\ CompactSound /\ FirstClaimerWins
=============================================================================
