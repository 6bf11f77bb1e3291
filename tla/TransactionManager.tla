------------------------- MODULE TransactionManager -------------------------
(***************************************************************************)
(* mvcc::TransactionManager: transaction ids and commit timestamps from    *)
(* one counter, the statuses of finished transactions, and the multiset of *)
(* snapshots in use.  Every method runs under mu_, so each is one action.  *)
(*                                                                         *)
(* txn holds the Transaction handles the callers own; the field txn_id of  *)
(* a handle is its index.  A handle is used only while it is active: no    *)
(* caller commits or aborts one twice (that would erase an end() iterator).*)
(***************************************************************************)
EXTENDS Integers, FiniteSets, FiniteSetsExt, Functions

CONSTANT MaxTxns    \* bound: transactions begun

ASSUME MaxTxnsAssumption == MaxTxns \in Nat

VARIABLES
  next_id,          \* next_id_
  last_commit_ts,   \* last_commit_ts_
  active_snapshots, \* active_snapshots_, a std::multiset: the copies of each element
  active_txn_ids,   \* active_txn_ids_
  status,           \* status_: finished transactions only
  txn               \* the callers' Transaction handles

tmVars == <<next_id, last_commit_ts, active_snapshots, active_txn_ids, status, txn>>

Extend(f, x, v) == [y \in DOMAIN f \cup {x} |-> IF y = x THEN v ELSE f[y]]

-----------------------------------------------------------------------------
TxnState == {"kActive", "kCommitted", "kAborted"}

Transaction == [snapshot_ts : Nat, commit_ts : Nat, state : TxnState]

TxnStatus == [state : TxnState, commit_ts : Nat]

GetStatus(id) ==
  IF id \in DOMAIN status THEN status[id] ELSE [state |-> "kActive", commit_ts |-> 0]

Committed(id) == GetStatus(id).state = "kCommitted"
Aborted(id) == GetStatus(id).state = "kAborted"

\* the test every visibility and stability check of the code repeats
CommittedBy(id, ts) == Committed(id) /\ GetStatus(id).commit_ts <= ts

-----------------------------------------------------------------------------
NoSnapshots == [ts \in {} |-> 0]

Copies(ts) == IF ts \in DOMAIN active_snapshots THEN active_snapshots[ts] ELSE 0

InsertSnapshot(ts) == Extend(active_snapshots, ts, Copies(ts) + 1)

(* Wrong variants of the definitions that follow them: each is a mistake   *)
(* the code could have made, and some property below must fail under it.   *)

\* the watermark looks at the newest snapshot in use (rbegin for begin)
NewestActiveSnapshot ==
  IF active_snapshots = NoSnapshots THEN last_commit_ts
  ELSE Max(DOMAIN active_snapshots)

\* erase(key) instead of erase(iterator): every reader of the snapshot loses its entry
EraseKey(ts) == Restrict(active_snapshots, DOMAIN active_snapshots \ {ts})

\* Commit and Abort forget to leave active_txn_ids_
StaysActive(t) == active_txn_ids

OldestActiveSnapshot ==
  IF active_snapshots = NoSnapshots THEN last_commit_ts
  ELSE Min(DOMAIN active_snapshots)

EraseSnapshot(ts) ==
  IF Copies(ts) = 1 THEN Restrict(active_snapshots, DOMAIN active_snapshots \ {ts})
  ELSE [active_snapshots EXCEPT ![ts] = @ - 1]

EraseActive(t) == active_txn_ids \ {t}

-----------------------------------------------------------------------------
TMInit ==
  /\ next_id = 1
  /\ last_commit_ts = 0
  /\ active_snapshots = NoSnapshots
  /\ active_txn_ids = {}
  /\ status = << >>
  /\ txn = << >>

TMBegin ==
  /\ Cardinality(DOMAIN txn) < MaxTxns
  /\ next_id' = next_id + 1
  /\ txn' = Extend(txn, next_id,
                   [snapshot_ts |-> last_commit_ts, commit_ts |-> 0, state |-> "kActive"])
  /\ active_snapshots' = InsertSnapshot(last_commit_ts)
  /\ active_txn_ids' = active_txn_ids \cup {next_id}
  /\ UNCHANGED <<last_commit_ts, status>>

\* what Commit and Abort have in common: record the outcome, leave both active tables
TMFinish(t, st) ==
  /\ txn[t].state = "kActive"
  /\ txn' = [txn EXCEPT ![t].state = st.state, ![t].commit_ts = st.commit_ts]
  /\ status' = Extend(status, t, st)
  /\ active_txn_ids' = EraseActive(t)
  /\ active_snapshots' = EraseSnapshot(txn[t].snapshot_ts)

\* wrong: the commit timestamp is the transaction's id
CommitTsIsTxnId(t) ==
  /\ next_id' = next_id + 1
  /\ last_commit_ts' = Max({last_commit_ts, t})
  /\ TMFinish(t, [state |-> "kCommitted", commit_ts |-> t])

\* wrong: last_commit_ts_ is not advanced
CommitForgetsLast(t) ==
  /\ next_id' = next_id + 1
  /\ TMFinish(t, [state |-> "kCommitted", commit_ts |-> next_id])
  /\ UNCHANGED last_commit_ts

TMCommit(t) ==
  /\ next_id' = next_id + 1
  /\ last_commit_ts' = next_id
  /\ TMFinish(t, [state |-> "kCommitted", commit_ts |-> next_id])

TMAbort(t) ==
  /\ TMFinish(t, [state |-> "kAborted", commit_ts |-> 0])
  /\ UNCHANGED <<next_id, last_commit_ts>>

TMNext ==
  \/ TMBegin
  \/ \E t \in DOMAIN txn : TMCommit(t) \/ TMAbort(t)

TMSpec == TMInit /\ [][TMNext]_tmVars

-----------------------------------------------------------------------------
(* Properties *)

\* a multiset of timestamps: each has as many copies as the function says
SnapshotCounts ==
  /\ active_snapshots \in [DOMAIN active_snapshots -> Nat \ {0}]
  /\ DOMAIN active_snapshots \subseteq Nat

\* Every field has its type; the manager's tables agree with the handles on who is active.
TMTypeOK ==
  /\ next_id \in Nat \ {0}
  /\ last_commit_ts \in Nat
  /\ SnapshotCounts
  /\ txn \in [DOMAIN txn -> Transaction] /\ DOMAIN txn \subseteq 1..(next_id - 1)
  /\ status \in [DOMAIN status -> TxnStatus]
  /\ active_txn_ids = DOMAIN txn \ DOMAIN status
  /\ DOMAIN status \subseteq DOMAIN txn

Readers(ts) == {t \in active_txn_ids : txn[t].snapshot_ts = ts}

\* active_snapshots_ holds each snapshot as many times as there are active
\* transactions reading from it, so ending one of two readers of the same
\* snapshot leaves the other's entry in place (Commit and Abort erase one
\* iterator, not a key).
SnapshotsTracked ==
  \A ts \in DOMAIN active_snapshots \cup {txn[t].snapshot_ts : t \in active_txn_ids} :
    Copies(ts) = Cardinality(Readers(ts))

\* The watermark Compact relies on is at or below every snapshot in use and
\* every snapshot a later Begin can take (OldestActiveSnapshot).
WatermarkSafe ==
  /\ OldestActiveSnapshot <= last_commit_ts
  /\ \A t \in active_txn_ids : OldestActiveSnapshot <= txn[t].snapshot_ts

\* The watermark never goes back: what Compact once treated as unneeded is never needed again.
WatermarkMonotone == [][OldestActiveSnapshot' >= OldestActiveSnapshot]_tmVars

\* A snapshot timestamp stands for the moment its transaction began: a commit is
\* at or below the snapshot exactly when it drew its timestamp from the shared
\* counter before the reader drew its id.
SnapshotIsBeginOrder ==
  \A t, u \in DOMAIN txn : Committed(u) =>
    (CommittedBy(u, txn[t].snapshot_ts) <=> GetStatus(u).commit_ts < t)

CommitsSeen(t) == {u \in DOMAIN txn : CommittedBy(u, txn[t].snapshot_ts)}

\* The set of commits an active transaction reads never changes while it is active,
\* however many others begin, commit and abort meanwhile.
SnapshotFixed ==
  [][\A t \in active_txn_ids : CommitsSeen(t)' = CommitsSeen(t)]_tmVars

\* What the proofs add to the type invariant: ids, snapshots and commit timestamps
\* interleave on the one counter, and the handles agree with status_.
Clocked ==
  /\ last_commit_ts < next_id
  /\ \A t \in DOMAIN txn : txn[t].snapshot_ts < t /\ txn[t].snapshot_ts <= last_commit_ts
  /\ \A t \in DOMAIN txn \ DOMAIN status : txn[t].state = "kActive"
  /\ \A t \in DOMAIN status :
       /\ txn[t].state = status[t].state /\ status[t].state # "kActive"
       /\ status[t].state = "kCommitted" => t < status[t].commit_ts
                                           /\ status[t].commit_ts <= last_commit_ts
  /\ \A t \in DOMAIN txn, u \in DOMAIN status :
       status[u].state = "kCommitted" =>
         status[u].commit_ts <= txn[t].snapshot_ts \/ t < status[u].commit_ts

TMInv == TMTypeOK /\ Clocked /\ SnapshotsTracked
=============================================================================
