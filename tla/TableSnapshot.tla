--------------------------- MODULE TableSnapshot ----------------------------
(***************************************************************************)
(* What readers of the table are shown, and the invariant behind it: at    *)
(* every moment the base segments and the delta, read with the effects a   *)
(* transaction sees, are that transaction's view.                          *)
(***************************************************************************)
EXTENDS Table

-----------------------------------------------------------------------------
(* When scans show snapshots *)

\* While a Compact runs the delta holds no new version of a row that is also in the
\* base.  Compact does not see to this itself: table_duplicate shows what follows.
CompactsNoUpdatedBase ==
  compacting.running =>
    \A p \in DOMAIN delta :
      ~delta[p].is_base_tombstone => delta[p].row_id \notin RowIds(base)

\* uses of a table that never bring it about: clients that only insert and delete, a table
\* that is never compacted, and one that starts empty and is compacted once
UpdateFreeCompaction ==
  \/ "update" \notin Writes
  \/ MaxCompactions = 0
  \/ BaseRows = {} /\ MaxCompactions = 1

\* what shows that they do not
UseInv ==
  /\ metrics.runs <= MaxCompactions
  /\ compacting.running => metrics.runs < MaxCompactions
  /\ BaseRows = {} /\ metrics.runs = 0 => base = {}
  /\ "update" \notin Writes =>
       /\ \A t \in DOMAIN inserting : ~inserting[t].locked
       /\ \A p \in DOMAIN delta :
            ~delta[p].is_base_tombstone => delta[p].row_id \notin RowIds(base)

-----------------------------------------------------------------------------
(* The rows a set of effects makes of base rows and delta records: what    *)
(* MaterializeVisibleRows computes, without its order and its locals       *)

\* the transactions whose effects t sees, and those a transaction begun now would see
Seen(t) == {u \in DOMAIN txn : SeenBy(u, t)}
Past == {u \in DOMAIN txn : Committed(u)}

VisibleIn(rec, seen) ==
  (rec.created_txn = 0 \/ rec.created_txn \in seen) /\ rec.deleted_txn \notin seen

Hides(rec, seen) ==
  IF rec.is_base_tombstone THEN rec.deleted_txn \in seen ELSE VisibleIn(rec, seen)

RowOf(rec) == [row_id |-> rec.row_id, row |-> rec.row]

FromDelta(recs, ps, seen) ==
  {RowOf(recs[p]) : p \in {p \in ps : ~recs[p].is_base_tombstone /\ VisibleIn(recs[p], seen)}}

Suppressed(recs, ps, seen) == {recs[p].row_id : p \in {p \in ps : Hides(recs[p], seen)}}

Reads(rows, recs, seen) ==
  FromDelta(recs, DOMAIN recs, seen) \cup Without(rows, Suppressed(recs, DOMAIN recs, seen))

-----------------------------------------------------------------------------
(* The inductive invariant, on top of TableInv *)

\* between its claim and its insert an Update has taken the row away and not put it back
Claiming(t) ==
  IF t \in DOMAIN inserting /\ inserting[t].locked THEN {inserting[t].row_id} ELSE {}

\* the shared state reads as every view, and as the store for whoever begins next
ViewAgrees ==
  /\ \A t \in active_txn_ids :
       /\ Reads(base, delta, Seen(t)) = Without(view[t], Claiming(t))
       /\ Claiming(t) \subseteq RowIds(view[t])
  /\ Reads(base, delta, Past) = store

\* a transaction named by a record has written the record's row
RecordsWritten ==
  \A p \in DOMAIN delta : \A t \in {delta[p].created_txn, delta[p].deleted_txn} :
    t # 0 => delta[p].row_id \in wrote[t]

\* a tombstone stands for a base row, and a base row is changed by way of a tombstone
BaseCovered ==
  /\ \A p \in DOMAIN delta :
       delta[p].row_id \in RowIds(base)
         <=> \E q \in RecordsOf(delta[p].row_id) : delta[q].is_base_tombstone
  /\ \A b, c \in base : b.row_id = c.row_id => b = c

\* a scan's copies of base and delta read as rows and show no row twice, and its locals
\* account for the records it has been through
Scans(sc, seen, rows) ==
  LET recs == sc.delta_records
      done == DOMAIN recs \ sc.todo IN
  /\ DOMAIN sc = {"segments", "delta_records", "todo", "from_delta", "suppress_base"}
  /\ DOMAIN recs \subseteq Nat /\ sc.todo \subseteq DOMAIN recs
  /\ Reads(sc.segments, recs, seen) = rows
  /\ \A p, q \in DOMAIN recs :
       recs[p].row_id = recs[q].row_id
         /\ VisibleIn(recs[p], seen) /\ VisibleIn(recs[q], seen) => p = q
  /\ sc.from_delta = FromDelta(recs, done, seen)
  /\ sc.suppress_base = Suppressed(recs, done, seen)

\* every scan is on its way to the view of its transaction
ScanAgrees ==
  \A t \in DOMAIN scanning :
    t \notin DOMAIN inserting /\ Scans(scanning[t], Seen(t), view[t])

\* what a running Compact has collected, and what it has kept
CompactExact ==
  LET done == DOMAIN delta \ compacting.todo IN
  compacting.running =>
    /\ compacting.live_stable_rows = {RowOf(delta[p]) : p \in {p \in done : Promotes(p)}}
    /\ compacting.stably_deleted_row_ids = {delta[p].row_id : p \in {p \in done : Purges(p)}}
    /\ \A p \in compacting.retained :
         ~Purges(p) /\ \A q \in RecordsOf(delta[p].row_id) : ~Promotes(q)

\* The invariant the proofs of snapshot reads carry besides TableInv: at every moment,
\* in the middle of claims, scans and compactions too, MaterializeVisibleRows over base
\* and delta would give each transaction its own view, and a begun one is on its way there.
SnapshotInv ==
  /\ ViewAgrees /\ RecordsWritten /\ BaseCovered /\ ScanAgrees /\ CompactExact
  /\ next_row_id <= MaxRow + 1
=============================================================================
