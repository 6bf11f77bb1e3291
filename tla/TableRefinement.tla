-------------------------- MODULE TableRefinement ---------------------------
(***************************************************************************)
(* The table implements SnapshotIsolation.                                 *)
(***************************************************************************)
EXTENDS TableSnapshot

\* the rows the active transactions have written, and those committed since they began
Wrote == [t \in active_txn_ids |-> wrote[t]]
MissedBy(t) ==
  UNION {wrote[u] : u \in {u \in DOMAIN txn : Committed(u) /\ ~CommittedBy(u, txn[t].snapshot_ts)}}
Missed == [t \in active_txn_ids |-> MissedBy(t)]

\* the answer to a scan appears when its loop over the delta records is over
Answer == [t \in {t \in DOMAIN scanning : scanning[t].todo = {}} |-> ScanResult(scanning[t])]

\* a claim and the insert that follows it are two writes of the same row
SI == INSTANCE SnapshotIsolation WITH
  InitialStore <- {[row_id |-> r, row |-> 0] : r \in BaseRows},
  RowId <- 0..MaxRow,
  Payload <- 0..MaxPos,
  wrote <- Wrote,
  missed <- Missed,
  answer <- Answer

\* The table implements snapshot isolation: whatever versions, claims and compactions it
\* takes, its clients cannot tell it from private copies with first writer wins.
ImplementsSI == SI!Spec
=============================================================================
