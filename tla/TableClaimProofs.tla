-------------------------- MODULE TableClaimProofs --------------------------
(***************************************************************************)
(* The transaction manager: its snapshots are counted, its watermark is    *)
(* safe and never goes back.  Then who sees whom, and the steps of the     *)
(* table that change no version: the manager's, a scan's and the first     *)
(* step of Insert.  Then claims on a version or on a base row: one that    *)
(* succeeds is made on the newest live version of the row, by a            *)
(* transaction that sees everybody who wrote it.                           *)
(***************************************************************************)
EXTENDS Table, FiniteSetTheorems, WellFoundedInduction, TLAPS

\* more time than by default for every step that names no prover
USE SMTT(30), ZenonT(30)

-----------------------------------------------------------------------------
(* The transaction manager, for any bound on transactions *)

\* A non-empty set of naturals has a least element, and Min picks it.
LEMMA MinIsLeast ==
  ASSUME NEW S \in SUBSET Nat, S # {}
  PROVE  Min(S) \in S /\ \A x \in S : Min(S) <= x
<1> DEFINE R == {ss \in Nat \X Nat : ss[1] < ss[2]}
<1>1. IsWellFoundedOn(R, Nat)
  BY NatLessThanWellFounded, ZenonT(30) DEF OpToRel
<1>2. PICK x \in S : \A y \in S : ~(<<y, x>> \in R)
  <2> HIDE DEF R
  <2> QED BY <1>1, WFMin, ZenonT(30)
<1>3. ASSUME NEW y \in S PROVE x <= y
  <2>1. <<y, x>> \in R <=> y < x
    OBVIOUS
  <2> HIDE DEF R
  <2> QED BY <1>2, <2>1
<1> QED BY <1>3, ZenonT(30) DEF Min

\* A bounded non-empty set of naturals has a greatest element, and Max picks it.
LEMMA MaxIsGreatest ==
  ASSUME NEW S \in SUBSET Nat, S # {}, NEW bound \in Nat, \A x \in S : x <= bound
  PROVE  Max(S) \in S /\ \A x \in S : x <= Max(S)
<1> DEFINE U == {n \in Nat : \A x \in S : x <= n}
           m == Min(U)
<1>1. m \in U /\ \A n \in U : m <= n
  <2>1. U \in SUBSET Nat /\ U # {}
    OBVIOUS
  <2> HIDE DEF U
  <2> QED BY <2>1, MinIsLeast
<1> HIDE DEF m
<1>2. m \in Nat /\ \A x \in S : x <= m
  BY <1>1
<1>3. m \in S
  <2> SUFFICES ASSUME m \notin S PROVE FALSE
    OBVIOUS
  <2>1. \A x \in S : x \in Nat /\ x < m
    BY <1>2
  <2>2. m - 1 \in Nat /\ \A x \in S : x <= m - 1
    <3>1. PICK x \in S : TRUE
      BY ZenonT(30)
    <3>2. m - 1 \in Nat
      BY <1>2, <2>1, <3>1
    <3>3. ASSUME NEW y \in S PROVE y <= m - 1
      <4>1. y \in Nat /\ y < m
        BY <2>1
      <4> QED BY <1>2, <4>1
    <3> QED BY <3>2, <3>3
  <2>3. m - 1 \in U
    BY <2>2
  <2> QED BY <1>1, <1>2, <2>3
<1>4. \E x \in S : \A y \in S : x >= y
  BY <1>2, <1>3
<1>5. Max(S) \in S /\ \A y \in S : Max(S) >= y
  BY <1>4, ZenonT(30) DEF Max
<1> QED BY <1>5

-----------------------------------------------------------------------------
\* The readers of a snapshot are finitely many, and the multiset counts them,
\* for snapshots it does not hold as well.
LEMMA ReadersCounted ==
  ASSUME TMInv, NEW ts
  PROVE  /\ IsFiniteSet(Readers(ts))
         /\ Cardinality(Readers(ts)) \in Nat
         /\ Copies(ts) = Cardinality(Readers(ts))
<1>1. IsFiniteSet(Readers(ts))
  <2>1. Readers(ts) \in SUBSET (1..(next_id - 1))
    BY DEF TMInv, TMTypeOK, Readers
  <2>2. IsFiniteSet(1..(next_id - 1))
    <3>1. 1 \in Int /\ next_id - 1 \in Int
      BY DEF TMInv, TMTypeOK
    <3> QED BY <3>1, FS_Interval, Zenon
  <2> QED BY <2>1, <2>2, FS_Subset, ZenonT(30)
<1>2. Cardinality(Readers(ts)) \in Nat
  BY <1>1, FS_CardinalityType, Zenon
<1>3. Copies(ts) = Cardinality(Readers(ts))
  <2>1. CASE ts \in DOMAIN active_snapshots \cup {txn[t].snapshot_ts : t \in active_txn_ids}
    BY <2>1 DEF TMInv, SnapshotsTracked
  <2>2. CASE ts \notin DOMAIN active_snapshots \cup {txn[t].snapshot_ts : t \in active_txn_ids}
    <3>1. Readers(ts) = {}
      BY <2>2 DEF Readers
    <3>2. Copies(ts) = 0
      BY <2>2 DEF Copies
    <3> QED BY <3>1, <3>2, FS_EmptySet, Zenon
  <2> QED BY <2>1, <2>2, Zenon
<1> QED BY <1>1, <1>2, <1>3, Zenon

\* The empty manager satisfies the invariant.
LEMMA TMInitInv == TMInit => TMInv
<1> SUFFICES ASSUME TMInit PROVE TMInv
  OBVIOUS
<1>1. TMTypeOK
  BY DEF TMInit, TMTypeOK, SnapshotCounts, NoSnapshots
<1>2. Clocked
  BY DEF TMInit, Clocked
<1>3. SnapshotsTracked
  BY DEF TMInit, SnapshotsTracked, NoSnapshots
<1> QED BY <1>1, <1>2, <1>3, Zenon DEF TMInv

-----------------------------------------------------------------------------
\* Begin keeps the invariant.
LEMMA BeginInv ==
  ASSUME TMInv, TMBegin
  PROVE  TMInv'
<1> USE DEF TMInv
<1>1. TMTypeOK'
  <2>1. SnapshotCounts'
    BY DEF TMTypeOK, TMBegin, SnapshotCounts, InsertSnapshot, Extend, Copies
  <2>2. txn' \in [DOMAIN txn' -> Transaction] /\ DOMAIN txn' = DOMAIN txn \cup {next_id}
    BY DEF TMTypeOK, TMBegin, Extend, Transaction, TxnState
  <2>3. DOMAIN txn' \subseteq 1..(next_id' - 1)
    BY <2>2 DEF TMTypeOK, TMBegin
  <2>4. next_id' \in Nat \ {0} /\ last_commit_ts' = last_commit_ts /\ status' = status
    BY DEF TMTypeOK, TMBegin
  <2>5. active_txn_ids' = DOMAIN txn' \ DOMAIN status'
    BY <2>2 DEF TMTypeOK, TMBegin
  <2>6. DOMAIN status' \subseteq DOMAIN txn'
    BY <2>2, <2>4, Zenon DEF TMTypeOK
  <2> QED BY <2>1, <2>2, <2>3, <2>4, <2>5, <2>6, Zenon DEF TMTypeOK
<1>2. Clocked'
  BY DEF TMTypeOK, Clocked, TMBegin, Extend, Transaction, TxnStatus
<1>3. SnapshotsTracked'
  <2> SUFFICES ASSUME NEW ts PROVE (Copies(ts) = Cardinality(Readers(ts)))'
    BY DEF SnapshotsTracked
  <2>1. next_id \notin Readers(ts)
    BY DEF TMTypeOK, Readers
  <2>2. Readers(ts)' = IF ts = last_commit_ts THEN Readers(ts) \cup {next_id} ELSE Readers(ts)
    BY DEF TMTypeOK, TMBegin, Extend, Readers
  <2>3. Copies(ts)' = IF ts = last_commit_ts THEN Copies(ts) + 1 ELSE Copies(ts)
    BY DEF TMTypeOK, TMBegin, SnapshotCounts, InsertSnapshot, Extend, Copies
  <2>4. Cardinality(Readers(ts) \cup {next_id}) = Cardinality(Readers(ts)) + 1
    BY <2>1, ReadersCounted, FS_AddElement, Zenon
  <2> QED BY <2>2, <2>3, <2>4, ReadersCounted, Zenon
<1> QED BY <1>1, <1>2, <1>3, Zenon

\* Commit and Abort share this part: one reader leaves.
LEMMA FinishTracked ==
  ASSUME TMInv, NEW t \in DOMAIN txn, NEW st, TMFinish(t, st)
  PROVE  /\ t \in active_txn_ids
         /\ SnapshotCounts'
         /\ SnapshotsTracked'
<1> USE DEF TMInv
<1>1. t \in active_txn_ids
  BY DEF TMTypeOK, Clocked, TMFinish
<1> DEFINE mine == txn[t].snapshot_ts
<1>2. t \in Readers(mine)
  BY <1>1, Zenon DEF Readers
<1>3. Copies(mine) > 0
  BY <1>2, ReadersCounted, FS_EmptySet
<1>4. SnapshotCounts /\ mine \in DOMAIN active_snapshots
  BY <1>3 DEF TMTypeOK, Copies
<1>5. active_snapshots' = EraseSnapshot(mine)
  BY DEF TMFinish
<1> HIDE DEF mine
<1>6. SnapshotCounts'
  <2>1. CASE Copies(mine) = 1
    BY <1>4, <1>5, <2>1, Zenon DEF EraseSnapshot, SnapshotCounts, Restrict
  <2>2. CASE Copies(mine) # 1
    BY <1>3, <1>4, <1>5, <2>2 DEF EraseSnapshot, SnapshotCounts, Copies
  <2> QED BY <2>1, <2>2, Zenon
<1>7. SnapshotsTracked'
  <2> SUFFICES ASSUME NEW ts PROVE (Copies(ts) = Cardinality(Readers(ts)))'
    BY DEF SnapshotsTracked
  <2>1. Readers(ts)' = IF ts = mine THEN Readers(ts) \ {t} ELSE Readers(ts)
    BY DEF TMTypeOK, TMFinish, EraseActive, Readers, mine
  <2>2. Cardinality(Readers(mine) \ {t}) = Cardinality(Readers(mine)) - 1
    BY <1>2, ReadersCounted, FS_RemoveElement, Zenon
  <2>3. Copies(ts)' = IF ts = mine THEN Copies(ts) - 1 ELSE Copies(ts)
    BY <1>3, <1>4, <1>5 DEF EraseSnapshot, SnapshotCounts, Copies, Restrict
  <2> QED BY <2>1, <2>2, <2>3, ReadersCounted, Zenon
<1> QED BY <1>1, <1>6, <1>7, Zenon

\* What Commit and Abort do to the handles and to status_.
FinishEffect(t, st) ==
  /\ txn' \in [DOMAIN txn -> Transaction] /\ DOMAIN txn' = DOMAIN txn
  /\ \A u \in DOMAIN txn : txn'[u].snapshot_ts = txn[u].snapshot_ts
  /\ \A u \in DOMAIN txn \ {t} : txn'[u].state = txn[u].state
  /\ txn'[t].state = st.state
  /\ t \notin DOMAIN status
  /\ DOMAIN status' = DOMAIN status \cup {t} /\ status' \in [DOMAIN status' -> TxnStatus]
  /\ status'[t] = st /\ \A u \in DOMAIN status : status'[u] = status[u]
  /\ active_txn_ids' = active_txn_ids \ {t}

\* What Commit and Abort have in common keeps the tables consistent.
LEMMA FinishTables ==
  ASSUME TMInv, NEW t \in DOMAIN txn, NEW st \in TxnStatus, TMFinish(t, st)
  PROVE  FinishEffect(t, st)
<1>1. t \notin DOMAIN status
  BY FinishTracked, Zenon DEF TMInv, TMTypeOK
<1>2. /\ txn' \in [DOMAIN txn -> Transaction] /\ DOMAIN txn' = DOMAIN txn
      /\ \A u \in DOMAIN txn : txn'[u].snapshot_ts = txn[u].snapshot_ts
      /\ \A u \in DOMAIN txn \ {t} : txn'[u].state = txn[u].state
      /\ txn'[t].state = st.state
  BY ZenonT(30) DEF TMInv, TMTypeOK, TMFinish, Transaction, TxnStatus
<1>3. /\ DOMAIN status' = DOMAIN status \cup {t} /\ status' \in [DOMAIN status' -> TxnStatus]
      /\ status'[t] = st /\ \A u \in DOMAIN status : status'[u] = status[u]
  BY <1>1 DEF TMInv, TMTypeOK, TMFinish, Extend
<1>4. active_txn_ids' = active_txn_ids \ {t}
  BY Zenon DEF TMFinish, EraseActive
<1> QED BY <1>1, <1>2, <1>3, <1>4, Zenon DEF FinishEffect

\* The type invariant after one of them, the counters aside.
LEMMA FinishTypes ==
  ASSUME TMInv, NEW t \in DOMAIN txn, NEW st \in TxnStatus, TMFinish(t, st),
         next_id' \in Nat, next_id' >= next_id, last_commit_ts' \in Nat
  PROVE  TMTypeOK'
<1>1. FinishEffect(t, st)
  BY FinishTables
<1>2. SnapshotCounts'
  BY FinishTracked, Zenon
<1>3. DOMAIN txn' \subseteq 1..(next_id' - 1)
  BY <1>1 DEF FinishEffect, TMInv, TMTypeOK
<1> QED BY <1>1, <1>2, <1>3 DEF FinishEffect, TMInv, TMTypeOK

\* Commit keeps the invariant.
LEMMA CommitInv ==
  ASSUME TMInv, NEW t \in DOMAIN txn, TMCommit(t)
  PROVE  TMInv'
<1> DEFINE st == [state |-> "kCommitted", commit_ts |-> next_id]
<1>1. st \in TxnStatus /\ TMFinish(t, st)
  BY DEF TMInv, TMTypeOK, TMCommit, TxnStatus, TxnState
<1> HIDE DEF st
<1>2. st.state = "kCommitted" /\ st.commit_ts = next_id
  BY DEF st
<1>3. FinishEffect(t, st) /\ SnapshotsTracked'
  BY <1>1, FinishTables, FinishTracked, Zenon
<1>4. last_commit_ts' = next_id /\ next_id' = next_id + 1 /\ next_id \in Nat
  BY DEF TMCommit, TMInv, TMTypeOK
<1>5. TMTypeOK'
  BY <1>1, <1>4, FinishTypes
<1>6. Clocked'
  BY <1>2, <1>3, <1>4 DEF TMInv, TMTypeOK, Clocked, FinishEffect, Transaction, TxnStatus
<1> QED BY <1>3, <1>5, <1>6, Zenon DEF TMInv

\* Abort keeps the invariant.
LEMMA AbortInv ==
  ASSUME TMInv, NEW t \in DOMAIN txn, TMAbort(t)
  PROVE  TMInv'
<1> DEFINE st == [state |-> "kAborted", commit_ts |-> 0]
<1>1. st \in TxnStatus /\ TMFinish(t, st)
  BY DEF TMInv, TMTypeOK, TMAbort, TxnStatus, TxnState
<1> HIDE DEF st
<1>2. st.state = "kAborted"
  BY Zenon DEF st
<1>3. FinishEffect(t, st) /\ SnapshotsTracked'
  BY <1>1, FinishTables, FinishTracked, Zenon
<1>4. last_commit_ts' = last_commit_ts /\ next_id' = next_id
      /\ next_id \in Nat /\ last_commit_ts \in Nat
  BY DEF TMAbort, TMInv, TMTypeOK
<1>5. TMTypeOK'
  BY <1>1, <1>4, FinishTypes
<1>6. Clocked'
  BY <1>2, <1>3, <1>4, ZenonT(30) DEF TMInv, TMTypeOK, Clocked, FinishEffect, Transaction, TxnStatus
<1> QED BY <1>3, <1>5, <1>6, Zenon DEF TMInv

\* TMInv is inductive.
LEMMA TMStepInv ==
  ASSUME TMInv, [TMNext]_tmVars
  PROVE  TMInv'
<1>1. CASE TMBegin
  BY <1>1, BeginInv
<1>2. ASSUME NEW t \in DOMAIN txn, TMCommit(t) PROVE TMInv'
  BY <1>2, CommitInv, Zenon
<1>3. ASSUME NEW t \in DOMAIN txn, TMAbort(t) PROVE TMInv'
  BY <1>3, AbortInv, Zenon
<1>4. CASE UNCHANGED tmVars
  <2>1. TMTypeOK'
    BY <1>4, Zenon DEF tmVars, TMInv, TMTypeOK, SnapshotCounts
  <2>2. Clocked'
    BY <1>4, Zenon DEF tmVars, TMInv, Clocked
  <2>3. SnapshotsTracked'
    <3>1. \A ts : Copies(ts)' = Copies(ts)
      BY <1>4, Zenon DEF tmVars, Copies
    <3>2. \A ts : Readers(ts)' = Readers(ts)
      BY <1>4 DEF tmVars, Readers
    <3> QED BY <1>4, <3>1, <3>2, Zenon DEF tmVars, TMInv, SnapshotsTracked
  <2> QED BY <2>1, <2>2, <2>3, Zenon DEF TMInv
<1> QED BY <1>1, <1>2, <1>3, <1>4, Zenon DEF TMNext

-----------------------------------------------------------------------------
WatermarkIsSnapshot ==
  /\ OldestActiveSnapshot \in Nat
  /\ \/ OldestActiveSnapshot = last_commit_ts
     \/ \E u \in active_txn_ids : OldestActiveSnapshot = txn[u].snapshot_ts

\* The watermark is last_commit_ts_ or a snapshot in use, and is below all of them.
LEMMA Watermark == TMInv => WatermarkIsSnapshot /\ WatermarkSafe
<1> SUFFICES ASSUME TMInv PROVE WatermarkIsSnapshot /\ WatermarkSafe
  OBVIOUS
<1> USE DEF WatermarkIsSnapshot
<1> DEFINE S == DOMAIN active_snapshots
<1>1. \A u \in active_txn_ids : txn[u].snapshot_ts \in S
  <2> SUFFICES ASSUME NEW u \in active_txn_ids PROVE txn[u].snapshot_ts \in S
    OBVIOUS
  <2>1. u \in Readers(txn[u].snapshot_ts)
    BY DEF Readers
  <2>2. Copies(txn[u].snapshot_ts) # 0
    BY <2>1, ReadersCounted, FS_EmptySet, Zenon
  <2> QED BY <2>2 DEF Copies
<1>2. \A ts \in S : \E u \in active_txn_ids : txn[u].snapshot_ts = ts
  <2> SUFFICES ASSUME NEW ts \in S PROVE Readers(ts) # {}
    BY DEF Readers
  <2>1. Copies(ts) # 0
    BY DEF TMInv, TMTypeOK, SnapshotCounts, Copies
  <2> QED BY <2>1, ReadersCounted, FS_EmptySet, Zenon
<1>3. CASE S = {}
  <2>1. active_snapshots = NoSnapshots
    BY <1>3 DEF TMInv, TMTypeOK, SnapshotCounts, NoSnapshots
  <2>2. OldestActiveSnapshot = last_commit_ts /\ active_txn_ids = {}
    BY <1>1, <1>3, <2>1, Zenon DEF OldestActiveSnapshot
  <2> QED BY <2>2 DEF WatermarkSafe, TMInv, TMTypeOK
<1>4. CASE S # {}
  <2>1. active_snapshots # NoSnapshots
    BY <1>4, Zenon DEF NoSnapshots
  <2>2. S \in SUBSET Nat
    BY DEF TMInv, TMTypeOK, SnapshotCounts
  <2>3. OldestActiveSnapshot \in S /\ \A ts \in S : OldestActiveSnapshot <= ts
    BY <1>4, <2>1, <2>2, MinIsLeast, Zenon DEF OldestActiveSnapshot
  <2>4. PICK u \in active_txn_ids : OldestActiveSnapshot = txn[u].snapshot_ts
    BY <1>2, <2>3, Zenon
  <2>5. OldestActiveSnapshot <= last_commit_ts
    BY <2>4 DEF TMInv, TMTypeOK, Clocked
  <2> QED BY <1>1, <2>2, <2>3, <2>4, <2>5, Zenon DEF WatermarkSafe
<1> QED BY <1>3, <1>4, ZenonT(30)

-----------------------------------------------------------------------------
\* Begin, Commit and Abort keep the counter, the statuses and the multiset consistent.
THEOREM TMInvariant == TMSpec => []TMInv
<1>1. TMInv /\ [TMNext]_tmVars => TMInv'
  BY TMStepInv
<1> QED BY TMInitInv, <1>1, PTL DEF TMSpec

\* active_snapshots_ counts the readers of each snapshot.
THEOREM SnapshotsCounted == TMSpec => []SnapshotsTracked
<1>1. TMInv => SnapshotsTracked
  BY Zenon DEF TMInv
<1> QED BY <1>1, TMInvariant, PTL

\* OldestActiveSnapshot is at or below every snapshot that is or can be in use.
THEOREM WatermarkSafety == TMSpec => []WatermarkSafe
<1>1. TMInv => WatermarkSafe
  BY Watermark, Zenon
<1> QED BY <1>1, TMInvariant, PTL

\* A snapshot timestamp stands for the moment of Begin.
THEOREM BeginOrder == TMSpec => []SnapshotIsBeginOrder
<1>1. TMInv => SnapshotIsBeginOrder
  BY DEF TMInv, TMTypeOK, Clocked, SnapshotIsBeginOrder, Committed, CommittedBy, GetStatus,
         Transaction, TxnStatus
<1> QED BY <1>1, TMInvariant, PTL

\* No step of the manager lowers the watermark.
THEOREM WatermarkNeverLowered == TMSpec => WatermarkMonotone
<1>0. TMInv' => WatermarkIsSnapshot'
  BY Watermark, PTL
<1>1. ASSUME TMInv, TMInv', [TMNext]_tmVars
      PROVE  OldestActiveSnapshot' >= OldestActiveSnapshot
  <2> DEFINE old == OldestActiveSnapshot
             new == OldestActiveSnapshot'
  <2>1. old \in Nat /\ new \in Nat
    BY <1>0, <1>1, Watermark, Zenon DEF WatermarkIsSnapshot
  <2>2. old <= last_commit_ts /\ \A u \in active_txn_ids : old <= txn[u].snapshot_ts
    BY <1>1, Watermark DEF WatermarkSafe
  <2>3. new = last_commit_ts' \/ \E u \in active_txn_ids' : new = txn'[u].snapshot_ts
    BY <1>0, <1>1, Zenon DEF WatermarkIsSnapshot
  <2> HIDE DEF old, new
  <2>4. /\ last_commit_ts' >= last_commit_ts
        /\ \A u \in active_txn_ids' :
             \/ txn'[u].snapshot_ts = last_commit_ts
             \/ u \in active_txn_ids /\ txn'[u].snapshot_ts = txn[u].snapshot_ts
    <3>1. CASE TMBegin
      BY <1>1, <3>1 DEF TMBegin, TMInv, TMTypeOK, Extend
    <3>2. ASSUME NEW t \in DOMAIN txn, TMCommit(t) \/ TMAbort(t)
          PROVE  <2>4
      <4>1. /\ active_txn_ids' \subseteq active_txn_ids
            /\ \A u \in DOMAIN txn : txn'[u].snapshot_ts = txn[u].snapshot_ts
        BY <1>1, <3>2 DEF TMCommit, TMAbort, TMFinish, EraseActive, TMInv, TMTypeOK, Transaction
      <4>2. last_commit_ts' >= last_commit_ts
        BY <1>1, <3>2 DEF TMCommit, TMAbort, TMInv, TMTypeOK, Clocked
      <4> QED BY <1>1, <4>1, <4>2, Zenon DEF TMInv, TMTypeOK
    <3>3. CASE UNCHANGED tmVars
      BY <1>1, <3>3 DEF tmVars, TMInv, TMTypeOK
    <3> QED BY <1>1, <3>1, <3>2, <3>3, Zenon DEF TMNext
  <2>5. last_commit_ts \in Nat /\ last_commit_ts' \in Nat
    BY <1>1, Zenon DEF TMInv, TMTypeOK
  <2>6. new >= old
    BY <2>1, <2>2, <2>3, <2>4, <2>5
  <2> QED BY <2>6 DEF old, new
<1> QED BY <1>1, TMInvariant, PTL DEF TMSpec, WatermarkMonotone

\* The commits an active transaction reads are fixed when it begins.
THEOREM SnapshotsFixed == TMSpec => SnapshotFixed
<1>1. ASSUME TMInv, [TMNext]_tmVars
      PROVE  \A t \in active_txn_ids : CommitsSeen(t)' = CommitsSeen(t)
  <2> TAKE t \in active_txn_ids
  <2>1. t \in DOMAIN txn /\ txn[t].snapshot_ts \in Nat /\ txn[t].snapshot_ts < next_id
    BY <1>1 DEF TMInv, TMTypeOK, Clocked, Transaction
  <2>2. CASE TMBegin
    BY <1>1, <2>1, <2>2 DEF TMBegin, TMInv, TMTypeOK, Extend, CommitsSeen, CommittedBy,
                            Committed, GetStatus
  <2>3. ASSUME NEW u \in DOMAIN txn, TMCommit(u) PROVE CommitsSeen(t)' = CommitsSeen(t)
    <3> DEFINE st == [state |-> "kCommitted", commit_ts |-> next_id]
    <3>1. FinishEffect(u, st)
      BY <1>1, <2>3, FinishTables, Zenon DEF TMCommit, TMInv, TMTypeOK, TxnStatus, TxnState
    <3> QED BY <1>1, <2>1, <3>1 DEF FinishEffect, TMInv, TMTypeOK, CommitsSeen, CommittedBy,
                                   Committed, GetStatus
  <2>4. ASSUME NEW u \in DOMAIN txn, TMAbort(u) PROVE CommitsSeen(t)' = CommitsSeen(t)
    <3> DEFINE st == [state |-> "kAborted", commit_ts |-> 0]
    <3>1. FinishEffect(u, st)
      BY <1>1, <2>4, FinishTables, Zenon DEF TMAbort, TMInv, TMTypeOK, TxnStatus, TxnState
    <3> QED BY <1>1, <2>1, <3>1, Zenon DEF FinishEffect, TMInv, TMTypeOK, CommitsSeen, CommittedBy,
                                   Committed, GetStatus
  <2>5. CASE UNCHANGED tmVars
    BY <2>5 DEF tmVars, CommitsSeen, CommittedBy, Committed, GetStatus
  <2> QED BY <1>1, <2>2, <2>3, <2>4, <2>5, Zenon DEF TMNext
<1> QED BY <1>1, TMInvariant, PTL DEF TMSpec, SnapshotFixed

-----------------------------------------------------------------------------
(* Who sees whom *)

\* No transaction has id 0, so 0 is neither committed nor aborted.
LEMMA Nobody ==
  ASSUME TMInv
  PROVE  ~Aborted(0) /\ ~Committed(0) /\ 0 \notin DOMAIN txn
BY DEF TMInv, TMTypeOK, Aborted, Committed, GetStatus

\* An active transaction is neither committed nor aborted.
LEMMA ActiveUnfinished ==
  ASSUME TMInv, NEW t \in active_txn_ids
  PROVE  ~Aborted(t) /\ ~Committed(t) /\ t \in DOMAIN txn /\ t # 0
BY DEF TMInv, TMTypeOK, Aborted, Committed, GetStatus

\* Seeing is transitive: a committed by the snapshot of b, and b by that of c, were
\* committed in this order.
LEMMA SeenByTransitive ==
  ASSUME TMInv, NEW a, NEW b \in DOMAIN txn, NEW c \in DOMAIN txn,
         SeenBy(a, b), SeenBy(b, c)
  PROVE  SeenBy(a, c)
<1>1. CASE a = b \/ b = c
  BY <1>1, Zenon
<1>2. CASE CommittedBy(a, txn[b].snapshot_ts) /\ CommittedBy(b, txn[c].snapshot_ts)
  BY <1>2 DEF SeenBy, CommittedBy, Committed, GetStatus, TMInv, TMTypeOK, Clocked,
              Transaction, TxnStatus
<1> QED BY <1>1, <1>2 DEF SeenBy

-----------------------------------------------------------------------------
(* What the manager's steps leave alone *)

\* outcomes are final, snapshots are fixed, and a new commit is later than all of them
ManagerGrows ==
  /\ DOMAIN txn \subseteq DOMAIN txn'
  /\ \A t \in DOMAIN txn : txn'[t].snapshot_ts = txn[t].snapshot_ts
  /\ \A t \in DOMAIN txn' \ DOMAIN txn : txn'[t].snapshot_ts = last_commit_ts
  /\ \A t \in active_txn_ids' : t \in active_txn_ids \/ t \notin DOMAIN txn
  /\ last_commit_ts' >= last_commit_ts
  /\ \A t : Aborted(t) => Aborted(t)'
  /\ \A t, ts : CommittedBy(t, ts) => CommittedBy(t, ts)'
  /\ \A t : \A ts \in 0..last_commit_ts : CommittedBy(t, ts)' => CommittedBy(t, ts)

\* Begin, Commit and Abort are steps of the transaction manager.
LEMMA ManagerStep ==
  ASSUME TMInv, [TMNext]_tmVars
  PROVE  ManagerGrows
<1> USE DEF Aborted, CommittedBy, Committed, GetStatus
<1>1. CASE TMBegin
  BY <1>1 DEF TMBegin, Extend, ManagerGrows, TMInv, TMTypeOK
<1>2. ASSUME NEW t \in DOMAIN txn, TMCommit(t) PROVE ManagerGrows
  <2> DEFINE st == [state |-> "kCommitted", commit_ts |-> next_id]
  <2>1. FinishEffect(t, st)
    BY <1>2, FinishTables, Zenon DEF TMCommit, TMInv, TMTypeOK, TxnStatus, TxnState
  <2>2. last_commit_ts' = next_id /\ next_id > last_commit_ts
        /\ next_id \in Nat /\ last_commit_ts \in Nat
    BY <1>2, Zenon DEF TMCommit, TMInv, TMTypeOK, Clocked
  <2> QED BY <2>1, <2>2 DEF FinishEffect, ManagerGrows, TMInv, TMTypeOK
<1>3. ASSUME NEW t \in DOMAIN txn, TMAbort(t) PROVE ManagerGrows
  <2> DEFINE st == [state |-> "kAborted", commit_ts |-> 0]
  <2>1. FinishEffect(t, st)
    BY <1>3, FinishTables, Zenon DEF TMAbort, TMInv, TMTypeOK, TxnStatus, TxnState
  <2>2. last_commit_ts' = last_commit_ts /\ last_commit_ts \in Nat
    BY <1>3, Zenon DEF TMAbort, TMInv, TMTypeOK
  <2> QED BY <2>1, <2>2 DEF FinishEffect, ManagerGrows, TMInv, TMTypeOK
<1>4. CASE UNCHANGED tmVars
  BY <1>4 DEF tmVars, ManagerGrows, TMInv, TMTypeOK
<1> QED BY <1>1, <1>2, <1>3, <1>4, Zenon DEF TMNext

\* Whether one transaction sees another is decided when both have begun, and stays so.
LEMMA SeeingIsFixed ==
  ASSUME TMInv, [TMNext]_tmVars, NEW c \in DOMAIN txn, NEW a
  PROVE  /\ SeenBy(a, c)' <=> SeenBy(a, c)
         /\ CommittedBy(a, txn[c].snapshot_ts)' <=> CommittedBy(a, txn[c].snapshot_ts)
<1>1. ManagerGrows
  BY ManagerStep, Zenon
<1>2. txn[c].snapshot_ts \in 0..last_commit_ts
  BY DEF TMInv, TMTypeOK, Clocked, Transaction
<1>3. CommittedBy(a, txn[c].snapshot_ts)' <=> CommittedBy(a, txn[c].snapshot_ts)
  BY <1>1, <1>2, Zenon DEF ManagerGrows
<1> QED BY <1>1, <1>3 DEF SeenBy, ManagerGrows

-----------------------------------------------------------------------------
(* Steps of the manager: everything of the table stays as it is *)

\* A manager step disturbs no claim and no version chain.
LEMMA ManagerKeepsChains ==
  ASSUME TableInv, [TMNext]_tmVars, UNCHANGED tableVars
  PROVE  RecordsRefer' /\ ClaimsSee' /\ VersionChain'
<1>1. ManagerGrows
  BY ManagerStep, Zenon DEF TableInv
<1>2. \A a : \A c \in DOMAIN txn : SeenBy(a, c)' <=> SeenBy(a, c)
  BY SeeingIsFixed, Zenon DEF TableInv
<1>3. \A p \in DOMAIN delta : Live(p)' => Live(p)
  BY <1>1, Zenon DEF ManagerGrows, Live, tableVars, deltaVars
<1>4. delta' = delta /\ next_row_id' = next_row_id
  BY Zenon DEF tableVars, deltaVars
<1>5. RecordsRefer'
  BY <1>1, <1>4, Zenon DEF TableInv, RecordsRefer, ManagerGrows
<1>6. ClaimsSee'
  BY <1>1, <1>2, <1>4, Zenon DEF TableInv, RecordsRefer, ClaimsSee, ManagerGrows
<1>7. VersionChain'
  BY <1>2, <1>3, <1>4 DEF TableInv, RecordsRefer, VersionChain
<1> QED BY <1>5, <1>6, <1>7, Zenon

\* A manager step disturbs no thread between its claim and its insert.
LEMMA ManagerKeepsInserts ==
  ASSUME TableInv, [TMNext]_tmVars, UNCHANGED tableVars,
         \A t \in DOMAIN txn : wrote'[t] = wrote[t],
         \A t \in DOMAIN txn' \ DOMAIN txn : wrote'[t] = {}
  PROVE  UpdateOwns' /\ InsertFresh'
<1>1. ManagerGrows
  BY ManagerStep, Zenon DEF TableInv
<1>2. \A a : \A c \in DOMAIN txn : SeenBy(a, c)' <=> SeenBy(a, c)
  BY SeeingIsFixed, Zenon DEF TableInv
<1>3. \A p \in DOMAIN delta : Live(p)' => Live(p)
  BY <1>1, Zenon DEF ManagerGrows, Live, tableVars, deltaVars
<1>4. /\ delta' = delta /\ next_row_id' = next_row_id /\ inserting' = inserting
      /\ compacting' = compacting /\ base' = base
  BY Zenon DEF tableVars, deltaVars, baseVars, base, Range
<1>5. DOMAIN inserting \subseteq DOMAIN txn
  BY DEF TableInv, TypeOK, TMTypeOK
<1>6. \A r : RecordsOf(r)' = RecordsOf(r)
  BY <1>4, Zenon DEF RecordsOf
<1>7. UpdateOwns'
  BY <1>2, <1>3, <1>4, <1>5, <1>6 DEF TableInv, UpdateOwns, RecordsOf
<1>8. InsertFresh'
  BY <1>1, <1>4, <1>6, Zenon DEF TableInv, InsertFresh, ManagerGrows, RowIds
<1> QED BY <1>7, <1>8, Zenon

\* A manager step leaves traces, exclusion and a running Compact sound.
LEMMA ManagerKeepsHistory ==
  ASSUME TableInv, [TMNext]_tmVars, UNCHANGED tableVars,
         \A t \in DOMAIN txn : wrote'[t] = wrote[t],
         \A t \in DOMAIN txn' \ DOMAIN txn : wrote'[t] = {}
  PROVE  WritesLeaveTrace' /\ CompactSound' /\ FirstClaimerWins'
<1>1. ManagerGrows
  BY ManagerStep DEF TableInv
<1>2. /\ delta' = delta /\ compacting' = compacting
      /\ \A r : RecordsOf(r)' = RecordsOf(r)
  BY Zenon DEF tableVars, deltaVars, RecordsOf
<1>3. /\ last_commit_ts \in Nat /\ last_commit_ts' \in Nat
      /\ \A t \in DOMAIN txn : txn[t].snapshot_ts \in 0..last_commit_ts
      /\ \A t \in DOMAIN status : status[t].commit_ts \in Nat
      /\ active_txn_ids \subseteq DOMAIN txn
  BY TMStepInv DEF TableInv, TMInv, TMTypeOK, Clocked, Transaction, TxnStatus
<1>4. \A t \in active_txn_ids' : \/ t \in active_txn_ids
                                 \/ txn'[t].snapshot_ts = last_commit_ts
  <2>1. active_txn_ids' \subseteq DOMAIN txn'
    BY TMStepInv, Zenon DEF TableInv, TMInv, TMTypeOK
  <2> QED BY <1>1, <2>1, Zenon DEF ManagerGrows
<1>5. ASSUME NEW t, Settled(t) PROVE Settled(t)'
  <2>1. CommittedBy(t, last_commit_ts')
    BY <1>1, <1>3, <1>5 DEF Settled, CommittedBy, Committed, GetStatus, ManagerGrows
  <2>2. CommittedBy(t, last_commit_ts)'
    BY <1>1, <2>1, Zenon DEF ManagerGrows
  <2>3. \A u \in active_txn_ids' : CommittedBy(t, txn[u].snapshot_ts)'
    BY <1>1, <1>3, <1>4, <1>5, Zenon DEF Settled, ManagerGrows
  <2> QED BY <2>2, <2>3, Zenon DEF Settled
<1>6. WritesLeaveTrace'
  BY <1>1, <1>2, <1>5, Zenon DEF TableInv, WritesLeaveTrace, ManagerGrows
<1>7. CompactSound'
  <2> SUFFICES ASSUME compacting.running
               PROVE  /\ compacting.oldest_active \in 0..last_commit_ts'
                      /\ \A t \in active_txn_ids' : compacting.oldest_active <= txn'[t].snapshot_ts
                      /\ \A p \in DOMAIN delta \ (compacting.todo \cup compacting.retained) :
                           Retires(p)'
    BY <1>2, Zenon DEF CompactSound
  <2>1. /\ compacting.oldest_active \in 0..last_commit_ts'
        /\ \A t \in active_txn_ids' : compacting.oldest_active <= txn'[t].snapshot_ts
    BY <1>1, <1>3, <1>4 DEF TableInv, CompactSound, ManagerGrows
  <2>2. ASSUME NEW p, Retires(p) PROVE Retires(p)'
    <3>1. \A t : (Stable(t) => Stable(t)') /\ (Aborted(t) => Aborted(t)')
      BY <1>1, <1>2, Zenon DEF Stable, ManagerGrows
    <3>2. IsHead(p)' <=> IsHead(p)
      BY <1>2, Zenon DEF IsHead
    <3> QED BY <1>2, <2>2, <3>1, <3>2, Zenon DEF Retires, Superseded
  <2> QED BY <2>1, <2>2, Zenon DEF TableInv, CompactSound
<1>8. FirstClaimerWins'
  <2> SUFFICES ASSUME NEW t \in DOMAIN txn', NEW u \in DOMAIN txn',
                      t # u, ~Aborted(t)', ~Aborted(u)', Overlap(t, u)'
               PROVE  wrote'[t] \cap wrote'[u] = {}
    BY Zenon DEF FirstClaimerWins
  <2>1. CASE t \in DOMAIN txn /\ u \in DOMAIN txn
    <3>1. Overlap(t, u)
      BY <2>1, SeeingIsFixed, Zenon DEF TableInv, Overlap
    <3> QED BY <1>1, <2>1, <3>1, Zenon DEF TableInv, FirstClaimerWins, ManagerGrows
  <2>2. CASE t \notin DOMAIN txn \/ u \notin DOMAIN txn
    BY <2>2
  <2> QED BY <2>1, <2>2, Zenon
<1> QED BY <1>6, <1>7, <1>8, Zenon

\* Begin keeps the invariant.
LEMMA TableBegin ==
  ASSUME TableInv, Begin
  PROVE  TableInv'
<1>1. TMBegin /\ [TMNext]_tmVars /\ UNCHANGED tableVars
  BY DEF Begin, TMNext
<1>2. TMInv'
  BY <1>1, TMStepInv, Zenon DEF TableInv
<1>3. /\ DOMAIN txn' = DOMAIN txn \cup {next_id} /\ next_id \notin DOMAIN txn
      /\ active_txn_ids' = active_txn_ids \cup {next_id}
      /\ next_id \in Nat
  BY <1>1 DEF TMBegin, Extend, TableInv, TMInv, TMTypeOK
<1>4. /\ \A t \in DOMAIN txn : wrote'[t] = wrote[t]
      /\ \A t \in DOMAIN txn' \ DOMAIN txn : wrote'[t] = {}
      /\ wrote' \in [DOMAIN txn' -> SUBSET Nat]
  BY <1>3, Zenon DEF Begin, Extend, TableInv, TypeOK
<1>5. TypeOK'
  <2>1. view' \in [active_txn_ids' -> SUBSET BaseRow]
    BY <1>3, Zenon DEF Begin, Extend, TableInv, TypeOK
  <2> QED BY <1>1, <1>2, <1>3, <1>4, <2>1, Zenon
          DEF Begin, TableInv, TMInv, TypeOK, tableVars, deltaVars, baseVars
<1> QED BY <1>1, <1>2, <1>4, <1>5, ManagerKeepsChains, ManagerKeepsInserts, ManagerKeepsHistory, ZenonT(30)
        DEF TableInv

\* Commit and Abort.
LEMMA TableFinish ==
  ASSUME TableInv, NEW t \in active_txn_ids, Commit(t) \/ Abort(t)
  PROVE  TableInv'
<1>1. [TMNext]_tmVars /\ UNCHANGED tableVars /\ wrote' = wrote /\ t \in DOMAIN txn
  BY DEF Commit, Abort, TMNext, TableInv, TMInv, TMTypeOK
<1>2. TMInv'
  BY <1>1, TMStepInv, Zenon DEF TableInv
<1>3. DOMAIN txn' = DOMAIN txn /\ active_txn_ids' = active_txn_ids \ {t}
  BY Zenon DEF Commit, Abort, TMCommit, TMAbort, TMFinish, EraseActive, TableInv, TMInv, TMTypeOK
<1>4. TypeOK'
  <2>1. view' \in [active_txn_ids' -> SUBSET BaseRow]
    BY <1>3, Zenon DEF Commit, Abort, Restrict, TableInv, TypeOK
  <2>2. store' \subseteq BaseRow
    BY Zenon DEF Commit, Abort, Without, TableInv, TypeOK
  <2>3. DOMAIN inserting \cup DOMAIN scanning \subseteq active_txn_ids'
    BY <1>3, ZenonT(30) DEF Commit, Abort, Idle, TableInv, TypeOK
  <2> QED BY <1>1, <1>2, <1>3, <2>1, <2>2, <2>3, Zenon
          DEF TableInv, TMInv, TypeOK, tableVars, deltaVars, baseVars
<1> QED BY <1>1, <1>2, <1>3, <1>4, ManagerKeepsChains, ManagerKeepsInserts, ManagerKeepsHistory, Zenon
        DEF TableInv

-----------------------------------------------------------------------------
(* Steps of the table leave the manager, and so all seeing, as it is *)

\* A step that leaves the manager alone keeps its part of the invariant.
LEMMA ManagerIdle ==
  ASSUME TMInv, UNCHANGED tmVars
  PROVE  /\ TMInv' /\ TMTypeOK'
         /\ txn' = txn /\ active_txn_ids' = active_txn_ids /\ last_commit_ts' = last_commit_ts
         /\ \A a : Aborted(a)' <=> Aborted(a)
         /\ \A a, c : SeenBy(a, c)' <=> SeenBy(a, c)
         /\ \A a, ts : CommittedBy(a, ts)' <=> CommittedBy(a, ts)
         /\ \A t, u : Overlap(t, u)' <=> Overlap(t, u)
         /\ \A t : Settled(t)' <=> Settled(t)
<1>1. TMInv'
  BY TMStepInv
<1> QED BY <1>1 DEF TMInv, tmVars, SeenBy, Overlap, Settled, Aborted, CommittedBy,
                    Committed, GetStatus

\* SnapshotForScan and the scan itself keep the invariant: they write nothing shared.
LEMMA TableScan ==
  ASSUME TableInv,
         UNCHANGED <<tmVars, deltaVars, baseVars, next_row_id, inserting, compacting, metrics,
                     historyVars>>,
         DOMAIN scanning' \subseteq active_txn_ids
  PROVE  TableInv'
<1>1. /\ delta' = delta /\ next_pos' = next_pos /\ base_segments' = base_segments
      /\ next_segment_id' = next_segment_id /\ inserting' = inserting
      /\ compacting' = compacting /\ metrics' = metrics /\ next_row_id' = next_row_id
      /\ store' = store /\ view' = view /\ wrote' = wrote /\ UNCHANGED tmVars
  BY DEF deltaVars, baseVars, historyVars
<1> HIDE DEF tmVars
<1>2. /\ \A r : RecordsOf(r)' = RecordsOf(r)
      /\ base' = base
  BY <1>1, Zenon DEF RecordsOf, base, Range
<1>3. /\ \A p : Live(p)' <=> Live(p)
      /\ \A p : Retires(p)' <=> Retires(p)
  BY <1>1, <1>2, ManagerIdle, ZenonT(30) DEF TableInv, Live, Retires, IsHead, Superseded, Stable
<1>4. TypeOK'
  BY <1>1, ManagerIdle, Zenon DEF TableInv, TypeOK
<1>5. RecordsRefer' /\ ClaimsSee' /\ VersionChain'
  BY <1>1, <1>3, ManagerIdle, ZenonT(30) DEF TableInv, RecordsRefer, ClaimsSee, VersionChain
<1>6. UpdateOwns'
  BY <1>1, <1>2, <1>3, ManagerIdle, Zenon DEF TableInv, UpdateOwns
<1>7. InsertFresh' /\ WritesLeaveTrace'
  <2>1. /\ txn' = txn /\ \A t : Aborted(t)' <=> Aborted(t)
        /\ \A t : Settled(t)' <=> Settled(t)
    BY <1>1, ManagerIdle, Zenon DEF TableInv
  <2>2. InsertFresh'
    BY <1>1, <1>2, <2>1, Zenon DEF TableInv, InsertFresh, RowIds
  <2>3. WritesLeaveTrace'
    BY <1>1, <1>2, <2>1, Zenon DEF TableInv, WritesLeaveTrace
  <2> QED BY <2>2, <2>3, Zenon
<1>8. CompactSound' /\ FirstClaimerWins'
  BY <1>1, <1>3, ManagerIdle, Zenon DEF TableInv, CompactSound, FirstClaimerWins
<1> QED BY <1>4, <1>5, <1>6, <1>7, <1>8, ManagerIdle, Zenon DEF TableInv

\* Drawing a row id keeps the invariant: the id is fresh.
LEMMA TableInsert ==
  ASSUME TableInv, NEW t \in active_txn_ids, Insert(t)
  PROVE  TableInv'
<1>1. /\ delta' = delta /\ next_pos' = next_pos /\ base_segments' = base_segments
      /\ next_segment_id' = next_segment_id /\ scanning' = scanning
      /\ compacting' = compacting /\ metrics' = metrics
      /\ store' = store /\ view' = view /\ wrote' = wrote /\ UNCHANGED tmVars
  BY Zenon DEF Insert, deltaVars, baseVars, historyVars
<1>2. /\ next_row_id' = next_row_id + 1 /\ next_row_id \in Nat
      /\ t \notin DOMAIN inserting
      /\ DOMAIN inserting' = DOMAIN inserting \cup {t}
      /\ inserting'[t] = [row_id |-> next_row_id, locked |-> FALSE]
      /\ \A u \in DOMAIN inserting : inserting'[u] = inserting[u]
      /\ inserting' \in [DOMAIN inserting' -> [row_id : Nat, locked : BOOLEAN]]
  BY DEF Insert, Idle, Extend, TableInv, TypeOK
<1>3. /\ \A r : RecordsOf(r)' = RecordsOf(r)
      /\ base' = base
  BY <1>1, Zenon DEF RecordsOf, base, Range
<1>4. /\ \A p : Live(p)' <=> Live(p)
      /\ \A p : Retires(p)' <=> Retires(p)
  BY <1>1, <1>3, ManagerIdle, Zenon DEF TableInv, Live, Retires, IsHead, Superseded, Stable
<1>5. TypeOK'
  BY <1>1, <1>2, ManagerIdle DEF TableInv, TypeOK
<1>6. RecordsRefer' /\ ClaimsSee' /\ VersionChain'
  <2>1. TMInv /\ txn' = txn
    BY <1>1, Zenon DEF TableInv, tmVars
  <2>2. RecordsRefer'
    <3>1. \A p \in DOMAIN delta : delta[p].row_id \in Nat
      BY Zenon DEF TableInv, TypeOK, DeltaRecord
    <3> QED BY <1>1, <1>2, <2>1, <3>1 DEF TableInv, RecordsRefer
  <2>3. ClaimsSee'
    BY <1>1, <2>1, ManagerIdle, Zenon DEF TableInv, ClaimsSee
  <2>4. VersionChain'
    BY <1>1, <1>4, <2>1, ManagerIdle, ZenonT(30) DEF TableInv, VersionChain
  <2> QED BY <2>2, <2>3, <2>4, Zenon
<1>7. UpdateOwns'
  BY <1>1, <1>2, <1>3, <1>4, ManagerIdle DEF TableInv, UpdateOwns
<1>8. InsertFresh'
  <2>1. /\ \A b \in base \cup compacting.live_stable_rows : b.row_id \in Nat
        /\ \A p \in DOMAIN delta : delta[p].row_id \in Nat
        /\ \A u \in DOMAIN inserting : inserting[u].row_id \in Nat
        /\ \A u \in DOMAIN txn : wrote[u] \subseteq Nat
    BY DEF TableInv, TypeOK, DeltaRecord, BaseRow, base, Range
  <2>2. RecordsOf(next_row_id) = {}
    BY <1>2, <2>1 DEF RecordsOf, TableInv, RecordsRefer
  <2>3. InsertFresh /\ txn' = txn
    BY <1>1, Zenon DEF TableInv, tmVars
  <2>4. /\ \A u \in DOMAIN inserting' : inserting'[u].row_id < next_row_id'
        /\ \A b \in base' \cup compacting'.live_stable_rows : b.row_id < next_row_id'
        /\ \A u \in DOMAIN txn' : \A r \in wrote'[u] : r < next_row_id'
    BY <1>1, <1>2, <1>3, <2>1, <2>3 DEF InsertFresh
  <2>5. ASSUME NEW u \in DOMAIN inserting', ~inserting'[u].locked
        PROVE  LET r == inserting'[u].row_id IN
               /\ RecordsOf(r) = {}
               /\ r \notin RowIds(base) \cup RowIds(compacting.live_stable_rows)
               /\ \A v \in DOMAIN txn : r \notin wrote[v]
               /\ \A v \in DOMAIN inserting' \ {u} : inserting'[v].row_id # r
    <3>1. CASE u = t
      BY <1>2, <2>1, <2>2, <2>3, <3>1 DEF InsertFresh, RowIds
    <3>2. CASE u # t
      BY <1>2, <2>1, <2>3, <2>5, <3>2 DEF InsertFresh
    <3> QED BY <3>1, <3>2, Zenon
  <2> QED BY <1>1, <1>3, <2>3, <2>4, <2>5, Zenon DEF InsertFresh, RowIds
<1>9. WritesLeaveTrace' /\ CompactSound' /\ FirstClaimerWins'
  BY <1>1, <1>3, <1>4, ManagerIdle, Zenon DEF TableInv, WritesLeaveTrace, CompactSound, FirstClaimerWins
<1> QED BY <1>1, <1>5, <1>6, <1>7, <1>8, <1>9, ManagerIdle, ZenonT(30) DEF TableInv

-----------------------------------------------------------------------------
(* Claims *)

\* w takes the version at q: it is visible to w and nobody's claim on it stands
LEMMA ClaimedVersion ==
  ASSUME TableInv, NEW w \in active_txn_ids, NEW q \in DOMAIN delta,
         Outcome(delta[q], w) = "claim"
  PROVE  /\ delta[q].deleted_txn = 0 \/ Aborted(delta[q].deleted_txn)
         /\ delta[q].created_txn = 0 \/ SeenBy(delta[q].created_txn, w)
         /\ Live(q)
<1> DEFINE d == delta[q].deleted_txn
           c == delta[q].created_txn
<1>1. d # w /\ IsVisible(delta[q], w)
  BY DEF Outcome
<1>2. ~(d # 0 /\ GetStatus(d).state = "kActive") /\ ~(d # 0 /\ Committed(d))
  BY <1>1, Zenon DEF Outcome
<1>3. GetStatus(d).state \in TxnState
  BY DEF GetStatus, TableInv, TypeOK, TMTypeOK, TxnStatus, TxnState
<1>4. d = 0 \/ Aborted(d)
  BY <1>2, <1>3, Zenon DEF TxnState, Aborted, Committed
<1>5. c = 0 \/ SeenBy(c, w)
  BY <1>1 DEF IsVisible
<1>6. Live(q)
  <2>1. TMInv
    BY DEF TableInv
  <2>2. CASE c = 0
    BY <2>1, <2>2, Nobody, Zenon DEF Live
  <2>3. CASE c = w
    BY <2>1, <2>3, ActiveUnfinished, Zenon DEF Live
  <2>4. CASE CommittedBy(c, txn[w].snapshot_ts)
    BY <2>4 DEF Live, CommittedBy, Committed, Aborted
  <2> QED BY <1>5, <2>2, <2>3, <2>4, Zenon DEF SeenBy
<1> QED BY <1>4, <1>5, <1>6, Zenon

\* ... it is the newest live version of the row, all earlier ones were deleted by
\* transactions w sees, and w sees everybody who has touched the row and not aborted
ClaimIsSound(r, w, q) ==
  /\ \A p \in RecordsOf(r) : Live(p) => p <= q
  /\ \A p \in RecordsOf(r) : Live(p) /\ p # q =>
       delta[p].deleted_txn # 0 /\ SeenBy(delta[p].deleted_txn, w)
  /\ \A p \in RecordsOf(r) : \A t \in {delta[p].created_txn, delta[p].deleted_txn} :
       t # 0 /\ ~Aborted(t) => SeenBy(t, w)

\* A claim of a version is made by a transaction that sees every live version.
LEMMA ClaimSound ==
  ASSUME TableInv, NEW w \in active_txn_ids, NEW r, NEW q \in RecordsOf(r),
         Outcome(delta[q], w) = "claim"
  PROVE  ClaimIsSound(r, w, q)
<1>1. /\ delta[q].deleted_txn = 0 \/ Aborted(delta[q].deleted_txn)
      /\ delta[q].created_txn = 0 \/ SeenBy(delta[q].created_txn, w)
      /\ Live(q) /\ q \in DOMAIN delta
  BY ClaimedVersion DEF RecordsOf
<1>2. TMInv /\ w \in DOMAIN txn /\ ~Aborted(w)
  BY ActiveUnfinished, Zenon DEF TableInv
<1>3. DOMAIN delta \subseteq Nat
  BY DEF TableInv, TypeOK
<1>4. \A a, b : SeenBy(a, b) /\ Aborted(a) => a = b
  BY DEF SeenBy, CommittedBy, Committed, Aborted
<1>5. ASSUME NEW p \in RecordsOf(r), Live(p) PROVE p <= q
  <2> SUFFICES ASSUME q < p PROVE FALSE
    BY <1>1, <1>3 DEF RecordsOf
  <2>1. delta[q].deleted_txn # 0 /\ SeenBy(delta[q].deleted_txn, delta[p].created_txn)
    BY <1>1, <1>5, Zenon DEF RecordsOf, TableInv, VersionChain
  <2> QED BY <1>1, <1>4, <1>5, <2>1, Zenon DEF Live
<1>6. ASSUME NEW p \in RecordsOf(r), Live(p), p # q
      PROVE  delta[p].deleted_txn # 0 /\ SeenBy(delta[p].deleted_txn, w)
  <2>1. p < q
    BY <1>1, <1>3, <1>5, <1>6 DEF RecordsOf
  <2>2. /\ delta[p].deleted_txn # 0 /\ delta[q].created_txn # 0
        /\ SeenBy(delta[p].deleted_txn, delta[q].created_txn)
    BY <1>1, <1>6, <2>1, Zenon DEF RecordsOf, TableInv, VersionChain
  <2>3. delta[q].created_txn \in DOMAIN txn
    BY <1>1, <2>2, Zenon DEF TableInv, RecordsRefer
  <2> QED BY <1>1, <1>2, <2>2, <2>3, SeenByTransitive, Zenon
<1>7. ASSUME NEW p \in RecordsOf(r), NEW t \in {delta[p].created_txn, delta[p].deleted_txn},
             t # 0, ~Aborted(t)
      PROVE  SeenBy(t, w)
  <2>1. p \in DOMAIN delta
    BY Zenon DEF RecordsOf
  <2>2. CASE Live(p) /\ p = q
    BY <1>1, <1>7, <2>2
  <2>3. CASE Live(p) /\ p # q
    <3>1. delta[p].deleted_txn # 0 /\ SeenBy(delta[p].deleted_txn, w)
      BY <1>6, <2>3, Zenon
    <3>2. ~Aborted(delta[p].deleted_txn) /\ delta[p].deleted_txn \in DOMAIN txn
      BY <1>2, <1>4, <2>1, <3>1, Zenon DEF TableInv, RecordsRefer
    <3>3. delta[p].created_txn = 0 \/ SeenBy(delta[p].created_txn, delta[p].deleted_txn)
      BY <2>1, <3>1, <3>2, Zenon DEF TableInv, ClaimsSee
    <3> QED BY <1>2, <1>7, <3>1, <3>2, <3>3, SeenByTransitive, Zenon
  <2>4. CASE ~Live(p)
    <3>1. t = delta[p].deleted_txn /\ Aborted(delta[p].created_txn) /\ delta[p].created_txn # 0
      BY <1>2, <1>7, <2>4, Nobody, Zenon DEF Live
    <3>2. SeenBy(delta[p].created_txn, t)
      BY <1>7, <2>1, <3>1, Zenon DEF TableInv, ClaimsSee
    <3> QED BY <1>4, <1>7, <3>1, <3>2, Zenon
  <2> QED BY <2>2, <2>3, <2>4, Zenon
<1> QED BY <1>5, <1>6, <1>7, Zenon DEF ClaimIsSound

\* What a successful ClaimOrInsertBaseTombstone leaves at position q, be it the claimed
\* version or a new tombstone, and what w knows about the row at that moment.
Claimed(r, w, q) ==
  /\ delta' \in [DOMAIN delta \cup {q} -> DeltaRecord]
  /\ next_pos' \in Nat \ {0} /\ DOMAIN delta \cup {q} \subseteq 1..(next_pos' - 1)
  /\ \A p \in DOMAIN delta \ {q} : delta'[p] = delta[p]
  /\ delta'[q].row_id = r /\ delta'[q].deleted_txn = w
  /\ delta'[q].created_txn \in DOMAIN txn \cup {0}
  /\ delta'[q].created_txn = 0 \/ SeenBy(delta'[q].created_txn, w)
  /\ delta'[q].is_base_tombstone <=> delta'[q].created_txn = 0
  /\ q \notin DOMAIN delta => RecordsOf(r) = {}
  /\ q \in DOMAIN delta =>
       /\ delta[q].row_id = r /\ delta'[q].created_txn = delta[q].created_txn
       /\ delta[q].deleted_txn = 0 \/ Aborted(delta[q].deleted_txn)
  /\ \A p \in RecordsOf(r) : Live(p) => p <= q
  /\ \A p \in RecordsOf(r) : Live(p) /\ p # q =>
       delta[p].deleted_txn # 0 /\ SeenBy(delta[p].deleted_txn, w)
  /\ \A t \in DOMAIN txn : r \in wrote[t] /\ ~Aborted(t) => SeenBy(t, w)
  /\ \A u \in DOMAIN inserting : inserting[u].row_id # r

\* Claiming a version of the delta has the effect the later lemmas use.
LEMMA ClaimVersion ==
  ASSUME TableInv, NEW w \in active_txn_ids, w \notin DOMAIN inserting,
         NEW r, NEW q \in DOMAIN delta, StopsAt(q, r, w), Outcome(delta[q], w) = "claim",
         delta' = [delta EXCEPT ![q].deleted_txn = w], UNCHANGED next_pos
  PROVE  Claimed(r, w, q)
<1>1. q \in RecordsOf(r) /\ delta[q].row_id = r
  BY DEF StopsAt, RecordsOf
<1>2. /\ delta[q].deleted_txn = 0 \/ Aborted(delta[q].deleted_txn)
      /\ delta[q].created_txn = 0 \/ SeenBy(delta[q].created_txn, w)
      /\ Live(q)
  BY ClaimedVersion
<1>3. ClaimIsSound(r, w, q)
  BY <1>1, ClaimSound, Zenon
<1>4. TMInv /\ w \in DOMAIN txn /\ w \in Nat
  BY DEF TableInv, TMInv, TMTypeOK
<1>5. /\ delta' \in [DOMAIN delta \cup {q} -> DeltaRecord]
      /\ next_pos' \in Nat \ {0} /\ DOMAIN delta \cup {q} \subseteq 1..(next_pos' - 1)
      /\ \A p \in DOMAIN delta \ {q} : delta'[p] = delta[p]
      /\ delta'[q].row_id = r /\ delta'[q].deleted_txn = w
      /\ delta'[q].created_txn = delta[q].created_txn
      /\ delta'[q].is_base_tombstone = delta[q].is_base_tombstone
  <2> DEFINE rec == delta[q]
             new == [rec EXCEPT !.deleted_txn = w]
  <2>1. delta \in [DOMAIN delta -> DeltaRecord] /\ DOMAIN delta \subseteq 1..(next_pos - 1)
        /\ next_pos \in Nat \ {0}
    BY DEF TableInv, TypeOK
  <2>2. delta' = [delta EXCEPT ![q] = new] /\ DOMAIN delta \cup {q} = DOMAIN delta
    BY Zenon
  <2>3. rec \in DeltaRecord
    BY <2>1
  <2>4. /\ new \in DeltaRecord /\ new.row_id = rec.row_id /\ new.deleted_txn = w
        /\ new.created_txn = rec.created_txn
        /\ new.is_base_tombstone = rec.is_base_tombstone
    BY <1>4, <2>3, Zenon DEF DeltaRecord
  <2> HIDE DEF new
  <2> QED BY <1>1, <2>1, <2>2, <2>4, ZenonT(30)
<1>6. ASSUME NEW t \in DOMAIN txn, r \in wrote[t], ~Aborted(t) PROVE SeenBy(t, w)
  <2>1. CASE Settled(t)
    BY <2>1, Zenon DEF Settled, SeenBy
  <2>2. CASE \E p \in RecordsOf(r) : t \in {delta[p].created_txn, delta[p].deleted_txn}
    BY <1>3, <1>4, <1>6, <2>2, Nobody, ZenonT(30) DEF ClaimIsSound
  <2> QED BY <1>6, <2>1, <2>2, Zenon DEF TableInv, WritesLeaveTrace
<1>7. ASSUME NEW u \in DOMAIN inserting, inserting[u].row_id = r PROVE FALSE
  <2>1. u \in active_txn_ids /\ inserting[u].locked
    BY <1>1, <1>7, ZenonT(30) DEF TableInv, TypeOK, InsertFresh
  <2>2. delta[q].deleted_txn # 0 /\ SeenBy(delta[q].deleted_txn, u)
    BY <1>1, <1>2, <1>7, <2>1, ZenonT(30) DEF TableInv, UpdateOwns
  <2>3. ~Aborted(u)
    BY <1>4, <2>1, ActiveUnfinished, Zenon
  <2> QED BY <1>2, <2>2, <2>3, Zenon DEF SeenBy, CommittedBy, Committed, Aborted
<1>8. /\ delta[q].created_txn \in DOMAIN txn \cup {0}
      /\ delta[q].is_base_tombstone <=> delta[q].created_txn = 0
  BY Zenon DEF TableInv, RecordsRefer
<1> QED BY <1>1, <1>2, <1>3, <1>5, <1>6, <1>7, <1>8, Zenon DEF Claimed, ClaimIsSound

\* Adding a base tombstone has the effect the later lemmas use.
LEMMA ClaimTombstone ==
  ASSUME TableInv, NEW w \in active_txn_ids, w \notin DOMAIN inserting,
         NEW r \in Nat, NeedsTombstone(r, w),
         Push([row_id |-> r, created_txn |-> 0, deleted_txn |-> w, row |-> 0,
               is_base_tombstone |-> TRUE])
  PROVE  Claimed(r, w, next_pos)
<1>1. TMInv /\ w \in DOMAIN txn /\ w \in Nat
  BY DEF TableInv, TMInv, TMTypeOK
<1>2. next_pos \in Nat \ {0} /\ DOMAIN delta \subseteq 1..(next_pos - 1)
      /\ next_pos \notin DOMAIN delta /\ next_pos' = next_pos + 1
  BY DEF TableInv, TypeOK, Push
<1>3. /\ delta' \in [DOMAIN delta \cup {next_pos} -> DeltaRecord]
      /\ \A p \in DOMAIN delta \ {next_pos} : delta'[p] = delta[p]
      /\ delta'[next_pos] = [row_id |-> r, created_txn |-> 0, deleted_txn |-> w, row |-> 0,
                             is_base_tombstone |-> TRUE]
  BY <1>1, <1>2, Zenon DEF TableInv, TypeOK, DeltaRecord, Push, Extend
<1>4. RecordsOf(r) = {} /\ r \in RowIds(base)
  BY Zenon DEF NeedsTombstone, RowIdExistsInBase
<1>5. ASSUME NEW t \in DOMAIN txn, r \in wrote[t], ~Aborted(t)
      PROVE  Settled(t)
  BY <1>4, <1>5, Zenon DEF TableInv, WritesLeaveTrace
<1>6. ASSUME NEW u \in DOMAIN inserting, inserting[u].row_id = r PROVE FALSE
  <2>1. u \in active_txn_ids /\ inserting[u].locked
    BY <1>4, <1>6, Zenon DEF TableInv, TypeOK, InsertFresh
  <2>2. r \in wrote[u]
    BY <1>6, <2>1, Zenon DEF TableInv, UpdateOwns
  <2>3. u \in DOMAIN txn /\ ~Aborted(u) /\ ~Committed(u)
    BY <1>1, <2>1, ActiveUnfinished, Zenon
  <2> QED BY <1>5, <2>2, <2>3, Zenon DEF Settled, CommittedBy
<1>7. \A t \in DOMAIN txn : r \in wrote[t] /\ ~Aborted(t) => SeenBy(t, w)
  BY <1>5, Zenon DEF Settled, SeenBy
<1>8. DOMAIN delta \cup {next_pos} \subseteq 1..(next_pos' - 1)
  BY <1>2
<1> QED BY <1>2, <1>3, <1>4, <1>6, <1>7, <1>8 DEF Claimed

\* Either way of claiming has that effect.
LEMMA ClaimEffect ==
  ASSUME TableInv, NEW w \in active_txn_ids, w \notin DOMAIN inserting, NEW r \in Nat,
         Claim(r, w)
  PROVE  \E q : Claimed(r, w, q)
<1>1. CASE \E p \in DOMAIN delta : /\ StopsAt(p, r, w)
                                   /\ Outcome(delta[p], w) = "claim"
                                   /\ delta' = [delta EXCEPT ![p].deleted_txn = w]
                                   /\ UNCHANGED next_pos
  BY <1>1, ClaimVersion, ZenonT(30)
<1>2. CASE /\ NeedsTombstone(r, w)
           /\ Push([row_id |-> r, created_txn |-> 0, deleted_txn |-> w, row |-> 0,
                    is_base_tombstone |-> TRUE])
  BY <1>2, ClaimTombstone, Zenon
<1> QED BY <1>1, <1>2, Zenon DEF Claim

\* A claim keeps the chain of versions of every row.
LEMMA ClaimKeepsChains ==
  ASSUME TableInv, NEW w \in active_txn_ids, NEW r \in Nat, r < next_row_id,
         NEW q, Claimed(r, w, q), UNCHANGED tmVars, UNCHANGED next_row_id
  PROVE  RecordsRefer' /\ ClaimsSee' /\ VersionChain'
<1>1. TMInv /\ w \in DOMAIN txn /\ w # 0 /\ ~Aborted(w)
  BY ActiveUnfinished, Zenon DEF TableInv
<1>2. DOMAIN delta' = DOMAIN delta \cup {q} /\ txn' = txn /\ next_row_id' = next_row_id
  BY Zenon DEF Claimed, tmVars
<1>3. RecordsRefer'
  BY <1>1, <1>2 DEF TableInv, RecordsRefer, Claimed
<1>4. ClaimsSee'
  <2> SUFFICES ASSUME NEW p \in DOMAIN delta', delta'[p].deleted_txn # 0,
                      ~Aborted(delta'[p].deleted_txn)
               PROVE  delta'[p].created_txn = 0
                      \/ SeenBy(delta'[p].created_txn, delta'[p].deleted_txn)
    BY <1>1, ManagerIdle, Zenon DEF ClaimsSee
  <2>1. CASE p = q
    BY <2>1, Zenon DEF Claimed
  <2>2. CASE p # q
    BY <1>2, <2>2, Zenon DEF Claimed, TableInv, ClaimsSee
  <2> QED BY <2>1, <2>2, Zenon
<1>5. VersionChain'
  <2> SUFFICES ASSUME NEW p \in DOMAIN delta', NEW o \in DOMAIN delta', p < o,
                      delta'[p].row_id = delta'[o].row_id, Live(p)', Live(o)'
               PROVE  /\ delta'[p].deleted_txn # 0 /\ delta'[o].created_txn # 0
                      /\ SeenBy(delta'[p].deleted_txn, delta'[o].created_txn)
    BY <1>1, ManagerIdle, Zenon DEF VersionChain
  <2>1. \A x \in DOMAIN delta : /\ delta'[x].row_id = delta[x].row_id
                                /\ delta'[x].created_txn = delta[x].created_txn
                                /\ Live(x)' <=> Live(x)
    BY <1>1, ManagerIdle, Zenon DEF Claimed, Live
  <2>2. q \in Nat /\ DOMAIN delta' \subseteq Nat
    BY <1>2 DEF Claimed
  <2>3. CASE q \notin DOMAIN delta
    <3>1. p # q /\ o # q
      <4>1. RecordsOf(r) = {} /\ delta'[q].row_id = r
        BY <2>3, Zenon DEF Claimed
      <4>2. \A x \in DOMAIN delta : delta'[x].row_id # r
        BY <2>1, <4>1, Zenon DEF RecordsOf
      <4>3. DOMAIN delta' = DOMAIN delta \cup {q} /\ p # o
        BY <1>2, <2>2
      <4> QED BY <4>1, <4>2, <4>3, Zenon
    <3>2. /\ p \in DOMAIN delta /\ delta'[p] = delta[p]
          /\ o \in DOMAIN delta /\ delta'[o] = delta[o]
      BY <1>2, <3>1, Zenon DEF Claimed
    <3> QED BY <2>1, <3>2, Zenon DEF TableInv, VersionChain
  <2>4. CASE q \in DOMAIN delta
    <3>1. p # q
      <4> SUFFICES ASSUME p = q PROVE FALSE
        BY Zenon
      <4>1. o \in RecordsOf(r) /\ Live(o)
        BY <1>2, <2>1, <2>4, Zenon DEF Claimed, RecordsOf
      <4>2. o <= q
        BY <4>1, Zenon DEF Claimed
      <4>3. o \in Nat
        BY <2>2, Zenon
      <4> QED BY <2>2, <4>2, <4>3
    <3>2. /\ p \in DOMAIN delta /\ delta'[p] = delta[p] /\ o \in DOMAIN delta
      BY <1>2, <2>4, <3>1, Zenon DEF Claimed
    <3> QED BY <2>1, <3>2, Zenon DEF TableInv, VersionChain
  <2> QED BY <2>3, <2>4, Zenon
<1> QED BY <1>3, <1>4, <1>5, Zenon

\* A claim keeps the writers apart.  inserting' is left open: Delete leaves it alone,
\* Update adds the writer with the table lock held.
LEMMA ClaimKeepsWriters ==
  ASSUME TableInv, NEW w \in active_txn_ids, NEW r \in Nat, r < next_row_id,
         NEW q, Claimed(r, w, q), UNCHANGED <<tmVars, baseVars, next_row_id, compacting>>,
         ~compacting.running,
         wrote' = [wrote EXCEPT ![w] = @ \cup {r}],
         \/ inserting' = inserting
         \/ /\ w \notin DOMAIN inserting
            /\ inserting' = Extend(inserting, w, [row_id |-> r, locked |-> TRUE])
  PROVE  UpdateOwns' /\ InsertFresh'
<1>1. /\ TMInv /\ w \in DOMAIN txn /\ UNCHANGED tmVars /\ txn' = txn
      /\ next_row_id' = next_row_id /\ compacting' = compacting /\ base' = base
  BY Zenon DEF TableInv, TMInv, TMTypeOK, tmVars, baseVars, base, Range
<1>2. DOMAIN delta' = DOMAIN delta \cup {q}
  BY Zenon DEF Claimed
<1>3. \A x \in DOMAIN delta : /\ delta'[x].row_id = delta[x].row_id
                              /\ Live(x)' <=> Live(x)
  BY <1>1, ManagerIdle, Zenon DEF Claimed, Live
<1>6. /\ \A u \in DOMAIN inserting : inserting'[u] = inserting[u] /\ inserting[u].row_id # r
      /\ \A u \in DOMAIN inserting' : \/ u \in DOMAIN inserting
                                      \/ u = w /\ inserting'[u] = [row_id |-> r, locked |-> TRUE]
  BY ZenonT(30) DEF Extend, Claimed
<1>7. /\ \A u \in DOMAIN txn : wrote'[u] = IF u = w THEN wrote[u] \cup {r} ELSE wrote[u]
      /\ DOMAIN inserting \subseteq DOMAIN txn
  BY <1>1, ZenonT(30) DEF TableInv, TypeOK, TMInv, TMTypeOK
<1>8. UpdateOwns'
  <2> SUFFICES ASSUME NEW t \in DOMAIN inserting', inserting'[t].locked
               PROVE  /\ inserting'[t].row_id \in wrote'[t]
                      /\ ~compacting.running
                      /\ \A p \in RecordsOf(inserting[t].row_id)' :
                           Live(p)' => /\ delta'[p].deleted_txn # 0
                                       /\ SeenBy(delta'[p].deleted_txn, t)
    BY <1>1, ManagerIdle, Zenon DEF UpdateOwns
  <2>1. CASE t \in DOMAIN inserting
    <3>1. inserting'[t] = inserting[t] /\ inserting[t].row_id # r
      BY <1>6, <2>1, Zenon
    <3>2. \A p \in RecordsOf(inserting[t].row_id) : p \in DOMAIN delta /\ delta'[p] = delta[p]
      BY <3>1, Zenon DEF RecordsOf, Claimed
    <3>3. RecordsOf(inserting[t].row_id)' = RecordsOf(inserting[t].row_id)
      BY <1>2, <1>3, <3>1, ZenonT(30) DEF RecordsOf, Claimed
    <3>4. /\ inserting[t].row_id \in wrote[t] /\ ~compacting.running
          /\ \A p \in RecordsOf(inserting[t].row_id) :
               Live(p) => delta[p].deleted_txn # 0 /\ SeenBy(delta[p].deleted_txn, t)
      BY <2>1, <3>1, Zenon DEF TableInv, UpdateOwns
    <3>5. inserting[t].row_id \in wrote'[t]
      BY <1>7, <2>1, <3>4
    <3> QED BY <1>3, <3>1, <3>2, <3>3, <3>4, <3>5, Zenon
  <2>2. CASE t \notin DOMAIN inserting
    <3>1. t = w /\ inserting'[t].row_id = r
      BY <1>6, <2>2
    <3>2. RecordsOf(inserting[t].row_id)' = RecordsOf(r) \cup {q}
      BY <1>2, <1>3, <3>1, Zenon DEF RecordsOf, Claimed
    <3>3. w # 0
      BY <1>1, Nobody, Zenon
    <3>4. ASSUME NEW p \in RecordsOf(r), p # q, Live(p)
          PROVE  delta'[p].deleted_txn # 0 /\ SeenBy(delta'[p].deleted_txn, w)
      BY <3>4, Zenon DEF Claimed, RecordsOf
    <3>5. delta'[q].deleted_txn = w /\ SeenBy(w, w)
      BY Zenon DEF Claimed, SeenBy
    <3>6. \A p \in RecordsOf(r) : Live(p)' => Live(p)
      BY <1>3, Zenon DEF RecordsOf
    <3>7. ASSUME NEW p \in RecordsOf(r) \cup {q}, Live(p)'
          PROVE  delta'[p].deleted_txn # 0 /\ SeenBy(delta'[p].deleted_txn, w)
      BY <3>3, <3>4, <3>5, <3>6, <3>7, Zenon
    <3>8. r \in wrote'[w]
      BY <1>1, <1>7
    <3> QED BY <3>1, <3>2, <3>7, <3>8, Zenon
  <2> QED BY <2>1, <2>2, Zenon
<1>9. InsertFresh'
  <2>1. \A u \in DOMAIN inserting' : inserting'[u].row_id < next_row_id
    <3>1. \A u \in DOMAIN inserting : inserting[u].row_id < next_row_id
      BY Zenon DEF TableInv, InsertFresh
    <3>2. ASSUME NEW u \in DOMAIN inserting' PROVE inserting'[u].row_id < next_row_id
      <4>1. CASE u \in DOMAIN inserting
        BY <1>6, <3>1, <4>1, Zenon
      <4>2. CASE u \notin DOMAIN inserting
        BY <1>6, <4>2
      <4> QED BY <4>1, <4>2, Zenon
    <3> QED BY <3>2, Zenon
  <2>2. ASSUME NEW t \in DOMAIN inserting', ~inserting'[t].locked
        PROVE  LET x == inserting'[t].row_id IN
               /\ t \in DOMAIN inserting /\ x = inserting[t].row_id /\ x # r
               /\ RecordsOf(x) = {}
               /\ x \notin RowIds(base) \cup RowIds(compacting.live_stable_rows)
               /\ \A u \in DOMAIN txn : x \notin wrote'[u]
               /\ \A u \in DOMAIN inserting' \ {t} : inserting'[u].row_id # x
    <3>1. t \in DOMAIN inserting /\ inserting'[t] = inserting[t] /\ inserting[t].row_id # r
      BY <1>6, <2>2
    <3>2. /\ RecordsOf(inserting[t].row_id) = {}
          /\ inserting[t].row_id \notin RowIds(base) \cup RowIds(compacting.live_stable_rows)
          /\ \A u \in DOMAIN txn : inserting[t].row_id \notin wrote[u]
          /\ \A u \in DOMAIN inserting \ {t} : inserting[u].row_id # inserting[t].row_id
      BY <2>2, <3>1, Zenon DEF TableInv, InsertFresh
    <3>3. \A u \in DOMAIN txn : inserting[t].row_id \notin wrote'[u]
      BY <1>7, <3>1, <3>2
    <3>4. \A u \in DOMAIN inserting' \ {t} : inserting'[u].row_id # inserting[t].row_id
      BY <1>6, <3>1, <3>2
    <3> QED BY <3>1, <3>2, <3>3, <3>4, Zenon
  <2>3. \A u \in DOMAIN txn : \A x \in wrote'[u] : x < next_row_id
    <3>1. \A u \in DOMAIN txn : \A x \in wrote[u] : x < next_row_id
      BY Zenon DEF TableInv, InsertFresh
    <3> QED BY <1>7, <3>1
  <2>4. \A t \in DOMAIN inserting' : ~inserting'[t].locked =>
          RecordsOf(inserting[t].row_id)' = {}
    <3> SUFFICES ASSUME NEW t \in DOMAIN inserting', ~inserting'[t].locked,
                        NEW p \in RecordsOf(inserting[t].row_id)'
                 PROVE  FALSE
      BY Zenon
    <3>1. inserting'[t].row_id # r /\ RecordsOf(inserting'[t].row_id) = {}
      BY <2>2, Zenon
    <3>2. p \in DOMAIN delta \cup {q} /\ delta'[p].row_id = inserting'[t].row_id
      BY <1>2, Zenon DEF RecordsOf
    <3>3. delta'[q].row_id = r
      BY Zenon DEF Claimed
    <3> QED BY <1>3, <3>1, <3>2, <3>3, Zenon DEF RecordsOf
  <2>5. \A b \in base \cup compacting.live_stable_rows : b.row_id < next_row_id
    BY Zenon DEF TableInv, InsertFresh
  <2>6. ASSUME NEW t \in DOMAIN inserting', ~inserting'[t].locked
        PROVE  /\ RecordsOf(inserting[t].row_id)' = {}
               /\ inserting'[t].row_id \notin RowIds(base) \cup RowIds(compacting.live_stable_rows)
               /\ \A u \in DOMAIN txn : inserting'[t].row_id \notin wrote'[u]
               /\ \A u \in DOMAIN inserting' \ {t} : inserting'[u].row_id # inserting'[t].row_id
    BY <2>2, <2>4, <2>6, Zenon
  <2> QED BY <1>1, <2>1, <2>3, <2>5, <2>6, Zenon DEF InsertFresh, RowIds
<1> QED BY <1>8, <1>9, Zenon
=============================================================================
