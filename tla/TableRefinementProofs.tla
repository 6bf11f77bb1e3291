----------------------- MODULE TableRefinementProofs ------------------------
(***************************************************************************)
(* Scans return the reader's snapshot, claims are exact, and the table     *)
(* implements SnapshotIsolation step by step, as long as no Compact meets  *)
(* an updated base row; and clients that never update, or that compact too *)
(* seldom, never bring that about.                                         *)
(***************************************************************************)
EXTENDS TableSnapshotProofs, TableProofs, TableRefinement

\* more time than by default for every step that names no prover
USE SMTT(30), ZenonT(30)

-----------------------------------------------------------------------------
(* Snapshot reads *)

\* The shared rows and records read as every view, as long as no Compact meets an updated
\* base row.
THEOREM SnapshotInvariant == Spec /\ []CompactsNoUpdatedBase => []SnapshotInv
<1>1. TableInv /\ SnapshotInv /\ CompactsNoUpdatedBase /\ [Next]_vars => SnapshotInv'
  BY SnapshotStep, Zenon
<1> QED BY SnapshotInitInv, <1>1, TableInvariant, PTL DEF Spec

\* Then a finished scan returns the rows of its reader's snapshot with the reader's own
\* writes laid over it, whatever MaterializeVisibleRows ran beside.
THEOREM ScansAreSnapshots == Spec /\ []CompactsNoUpdatedBase => []ScanReturnsSnapshot
<1>1. TableInv /\ SnapshotInv => ScanReturnsSnapshot
  BY ScansResult, ZenonT(30) DEF SnapshotInv, ScanAgrees, ScanReturnsSnapshot
<1> QED BY <1>1, TableInvariant, SnapshotInvariant, PTL

\* And ClaimOrInsertBaseTombstone returns kOk exactly when the writer sees the row and no
\* concurrent transaction has written it.
THEOREM ClaimsAreExact == Spec /\ []CompactsNoUpdatedBase => []ClaimIsExact
<1>1. TableInv /\ SnapshotInv => ClaimIsExact
  BY ClaimExact, Zenon
<1> QED BY <1>1, TableInvariant, SnapshotInvariant, PTL

-----------------------------------------------------------------------------
(* What a step leaves alone in the abstract state *)

\* Only the manager changes what an active transaction has missed.
LEMMA MissedKept ==
  ASSUME TMInv, UNCHANGED tmVars, \A u \in DOMAIN txn : Committed(u) => wrote'[u] = wrote[u]
  PROVE  Missed' = Missed
<1>1. active_txn_ids' = active_txn_ids /\ txn' = txn /\ status' = status
  BY Zenon DEF tmVars
<1>2. \A u : (Committed(u)' <=> Committed(u)) /\ \A ts : CommittedBy(u, ts)' <=> CommittedBy(u, ts)
  BY <1>1, Zenon DEF CommittedBy, Committed, GetStatus
<1>3. \A t : MissedBy(t)' = MissedBy(t)
  BY <1>1, <1>2, ZenonT(30) DEF MissedBy
<1> QED BY <1>1, <1>3, ZenonT(30) DEF Missed

\* A step that touches neither the manager, nor a scan, nor a history is not seen.
LEMMA Stutters ==
  ASSUME TableInv, UNCHANGED <<tmVars, scanning, historyVars>>
  PROVE  UNCHANGED SI!siVars
<1>1. /\ UNCHANGED tmVars /\ scanning' = scanning /\ store' = store /\ view' = view
      /\ wrote' = wrote /\ active_txn_ids' = active_txn_ids
  BY ZenonT(30) DEF historyVars, tmVars
<1>2. Missed' = Missed
  BY <1>1, MissedKept, ZenonT(30) DEF TableInv
<1>3. Wrote' = Wrote
  BY <1>1, ZenonT(30) DEF Wrote
<1>4. Answer' = Answer
  BY <1>1, ZenonT(30) DEF Answer, ScanResult
<1> QED BY <1>1, <1>2, <1>3, <1>4, ZenonT(30) DEF SI!siVars

-----------------------------------------------------------------------------
(* Begin, Commit and Abort *)

\* Begin takes a copy of the store and has missed nothing.
LEMMA BeginRefines ==
  ASSUME TableInv, Begin
  PROVE  SI!Next
<1>0. PICK n : n = next_id
  BY ZenonT(30)
<1>1. /\ TMInv /\ TMBegin /\ [TMNext]_tmVars /\ scanning' = scanning /\ store' = store
      /\ n \notin DOMAIN txn /\ n \notin active_txn_ids
      /\ view' = Extend(view, n, store) /\ wrote' = Extend(wrote, n, {})
  BY <1>0 DEF Begin, TMNext, tableVars, TableInv, TMInv, TMTypeOK
<1>2. /\ DOMAIN txn' = DOMAIN txn \cup {n} /\ active_txn_ids' = active_txn_ids \cup {n}
      /\ status' = status /\ txn'[n].snapshot_ts = last_commit_ts
      /\ \A t \in DOMAIN txn : txn'[t] = txn[t]
  BY <1>0, <1>1, Zenon DEF TMBegin, Extend
<1>3. DOMAIN view = active_txn_ids /\ DOMAIN wrote = DOMAIN txn /\ active_txn_ids \subseteq DOMAIN txn
  BY Zenon DEF TableInv, TypeOK, TMTypeOK
<1>4. /\ \A u : Committed(u)' <=> Committed(u)
      /\ \A u, ts : CommittedBy(u, ts)' <=> CommittedBy(u, ts)
      /\ ~Committed(n)
      /\ \A u : Committed(u) => CommittedBy(u, last_commit_ts)
  <2>1. \A u : Committed(u) => CommittedBy(u, last_commit_ts)
    BY <1>1, ZenonT(30) DEF CommittedBy, Committed, GetStatus, TMInv, TMTypeOK, Clocked
  <2> QED BY <1>1, <1>2, <2>1, ZenonT(30) DEF CommittedBy, Committed, GetStatus, TMInv, TMTypeOK
<1>5. \A u \in DOMAIN txn : wrote'[u] = wrote[u]
  BY <1>1, <1>3, ZenonT(30) DEF Extend
<1>6. \A t \in active_txn_ids : MissedBy(t)' = MissedBy(t)
  BY <1>2, <1>3, <1>4, <1>5 DEF MissedBy
<1>7. MissedBy(n)' = {}
  BY <1>2, <1>4, Zenon DEF MissedBy
<1>8. Missed' = SI!With(Missed, n, {})
  BY <1>1, <1>2, <1>6, <1>7, ZenonT(30) DEF Missed, SI!With
<1>9. Wrote' = SI!With(Wrote, n, {})
  BY <1>1, <1>2, <1>3, ZenonT(30) DEF Wrote, SI!With, Extend
<1>10. Answer' = Answer
  BY <1>1, ZenonT(30) DEF Answer, ScanResult
<1>11. view' = SI!With(view, n, store) /\ n \in DOMAIN view' \ SI!Running
  BY <1>1, <1>3, ZenonT(30) DEF SI!With, SI!Running, Extend
<1>12. SI!Begin(n)
  BY <1>1, <1>3, <1>8, <1>9, <1>10, <1>11, ZenonT(30) DEF SI!Begin, SI!Running
<1> QED BY <1>11, <1>12, ZenonT(30) DEF SI!Next

\* What the end of t changes in the abstract state, whichever way it ends.
LEMMA FinishRefines ==
  ASSUME TableInv, NEW t \in active_txn_ids, [TMNext]_tmVars, UNCHANGED tableVars,
         active_txn_ids' = active_txn_ids \ {t}, wrote' = wrote,
         view' = Restrict(view, DOMAIN view \ {t})
  PROVE  /\ view' = SI!Less(view, t) /\ Wrote' = SI!Less(Wrote, t) /\ Answer' = Answer
         /\ \A u \in active_txn_ids \ {t} : \A a :
              CommittedBy(a, txn[u].snapshot_ts)' <=> CommittedBy(a, txn[u].snapshot_ts)
<1>1. scanning' = scanning /\ TMInv
  BY Zenon DEF tableVars, TableInv
<1>2. view' = SI!Less(view, t)
  BY Zenon DEF SI!Less, SI!Restrict, Restrict
<1>3. Wrote' = SI!Less(Wrote, t)
  BY Zenon DEF SI!Less, SI!Restrict, Wrote
<1>4. Answer' = Answer
  BY <1>1, Zenon DEF Answer, ScanResult
<1>5. \A u \in active_txn_ids \ {t} : \A a :
        CommittedBy(a, txn[u].snapshot_ts)' <=> CommittedBy(a, txn[u].snapshot_ts)
  BY <1>1, SeeingIsFixed, ZenonT(30) DEF TMInv, TMTypeOK
<1> QED BY <1>2, <1>3, <1>4, <1>5, ZenonT(30)

\* Commit installs the written rows, and every other active transaction misses them.
LEMMA CommitRefines ==
  ASSUME TableInv, NEW t \in active_txn_ids, Commit(t)
  PROVE  SI!Commit(t)
<1>1. /\ TMInv /\ TMCommit(t) /\ [TMNext]_tmVars /\ UNCHANGED tableVars /\ wrote' = wrote
      /\ t \in DOMAIN txn /\ view' = Restrict(view, DOMAIN view \ {t})
  BY ZenonT(30) DEF Commit, TMNext, TableInv, TMInv, TMTypeOK
<1>2. /\ DOMAIN txn' = DOMAIN txn /\ active_txn_ids' = active_txn_ids \ {t}
      /\ \A a : Committed(a)' <=> Committed(a) \/ a = t
  BY <1>1, ZenonT(30) DEF TMCommit, TMFinish, EraseActive, Extend, Committed, GetStatus, TMInv, TMTypeOK
<1>3. /\ view' = SI!Less(view, t) /\ Wrote' = SI!Less(Wrote, t) /\ Answer' = Answer
      /\ \A u \in active_txn_ids \ {t} : \A a :
           CommittedBy(a, txn[u].snapshot_ts)' <=> CommittedBy(a, txn[u].snapshot_ts)
  BY <1>1, <1>2, FinishRefines, ZenonT(30)
<1>4. ~Committed(t) /\ \A ts : ~CommittedBy(t, ts)
  BY <1>1, ActiveUnfinished, ZenonT(30) DEF CommittedBy
<1>5. \A u \in active_txn_ids \ {t} : MissedBy(u)' = MissedBy(u) \cup wrote[t]
  BY <1>1, <1>2, <1>3, <1>4, ZenonT(30) DEF MissedBy
<1>6. Wrote[t] = wrote[t]
  BY Zenon DEF Wrote
<1>7. Missed' = [u \in DOMAIN Missed \ {t} |-> Missed[u] \cup Wrote[t]]
  BY <1>2, <1>5, <1>6, ZenonT(30) DEF Missed
<1>8. store' = SI!Drop(store, Wrote[t]) \cup {b \in view[t] : b.row_id \in Wrote[t]}
  BY <1>6, ZenonT(30) DEF Commit, SI!Drop, Without
<1> QED BY <1>3, <1>7, <1>8, ZenonT(30) DEF SI!Commit

\* Abort throws the private copy away.
LEMMA AbortRefines ==
  ASSUME TableInv, NEW t \in active_txn_ids, Abort(t)
  PROVE  SI!Abort(t)
<1>1. /\ TMInv /\ TMAbort(t) /\ [TMNext]_tmVars /\ UNCHANGED tableVars /\ wrote' = wrote
      /\ t \in DOMAIN txn /\ view' = Restrict(view, DOMAIN view \ {t}) /\ store' = store
  BY ZenonT(30) DEF Abort, TMNext, TableInv, TMInv, TMTypeOK
<1>2. /\ DOMAIN txn' = DOMAIN txn /\ active_txn_ids' = active_txn_ids \ {t}
      /\ \A a : Committed(a)' <=> Committed(a)
  <2>1. ~Committed(t)
    BY <1>1, ActiveUnfinished, ZenonT(30)
  <2> QED BY <1>1, <2>1, ZenonT(30)
          DEF TMAbort, TMFinish, EraseActive, Extend, Committed, GetStatus, TMInv, TMTypeOK
<1>3. /\ view' = SI!Less(view, t) /\ Wrote' = SI!Less(Wrote, t) /\ Answer' = Answer
      /\ \A u \in active_txn_ids \ {t} : \A a :
           CommittedBy(a, txn[u].snapshot_ts)' <=> CommittedBy(a, txn[u].snapshot_ts)
  BY <1>1, <1>2, FinishRefines, ZenonT(30)
<1>4. \A u \in active_txn_ids \ {t} : MissedBy(u)' = MissedBy(u)
  BY <1>1, <1>2, <1>3, ZenonT(30) DEF MissedBy
<1>5. Missed' = SI!Less(Missed, t)
  BY <1>2, <1>4, ZenonT(30) DEF Missed, SI!Less, SI!Restrict
<1> QED BY <1>1, <1>3, <1>5, ZenonT(30) DEF SI!Abort

-----------------------------------------------------------------------------
(* Writes *)

\* Where no concurrent transaction has written a row, nobody running has, and no commit of
\* it was missed.
LEMMA Uncontended ==
  ASSUME TableInv, NEW t \in active_txn_ids, NEW r, ~Contended(t, r)
  PROVE  r \notin Missed[t] /\ \A u \in SI!Running \ {t} : r \notin Wrote[u]
<1>1. TMInv /\ SI!Running = active_txn_ids /\ active_txn_ids \subseteq DOMAIN txn
  BY ZenonT(30) DEF TableInv, TypeOK, TMTypeOK, SI!Running
<1>2. r \notin MissedBy(t)
  <2> SUFFICES ASSUME NEW u \in DOMAIN txn, Committed(u), ~CommittedBy(u, txn[t].snapshot_ts),
                      r \in wrote[u]
               PROVE  FALSE
    BY ZenonT(30) DEF MissedBy
  <2>1. u # t /\ ~Aborted(u)
    BY <1>1, ActiveUnfinished, ZenonT(30) DEF Committed, Aborted
  <2> QED BY <2>1, ZenonT(30) DEF Contended
<1>3. ASSUME NEW u \in active_txn_ids \ {t} PROVE r \notin wrote[u]
  <2>1. u \in DOMAIN txn \ {t} /\ ~Aborted(u) /\ ~CommittedBy(u, txn[t].snapshot_ts)
    BY <1>1, ActiveUnfinished, ZenonT(30) DEF CommittedBy
  <2> QED BY <2>1, ZenonT(30) DEF Contended
<1> QED BY <1>1, <1>2, <1>3 DEF Missed, Wrote

\* What all writes of row r by t have in common.
LEMMA WriteRefines ==
  ASSUME TableInv, NEW t \in active_txn_ids, NEW r, UNCHANGED tmVars, scanning' = scanning,
         store' = store, wrote' = [wrote EXCEPT ![t] = @ \cup {r}]
  PROVE  /\ Wrote' = [Wrote EXCEPT ![t] = @ \cup {r}]
         /\ store' = store /\ Missed' = Missed /\ Answer' = Answer
<1>1. TMInv /\ t \in DOMAIN txn /\ ~Committed(t) /\ active_txn_ids' = active_txn_ids
      /\ DOMAIN wrote = DOMAIN txn
  BY ActiveUnfinished, ZenonT(30) DEF TableInv, TypeOK, tmVars
<1>2. Wrote' = [Wrote EXCEPT ![t] = @ \cup {r}]
  <2>1. active_txn_ids \subseteq DOMAIN wrote
    BY <1>1, ZenonT(30) DEF TMInv, TMTypeOK
  <2> QED BY <1>1, <2>1, ZenonT(30) DEF Wrote
<1>3. Missed' = Missed
  BY <1>1, MissedKept, ZenonT(30)
<1>4. Answer' = Answer
  BY Zenon DEF Answer, ScanResult
<1> QED BY <1>2, <1>3, <1>4, ZenonT(30)

\* A claim that succeeds writes a row its transaction sees and has to itself.
LEMMA ClaimRefines ==
  ASSUME TableInv, SnapshotInv, NEW t \in active_txn_ids, NEW r \in 1..(next_row_id - 1),
         Update(t, r) \/ Delete(t, r)
  PROVE  SI!Write(t, r)
<1>1. /\ UNCHANGED tmVars /\ scanning' = scanning /\ store' = store /\ Claim(r, t)
      /\ t \notin DOMAIN inserting /\ wrote' = [wrote EXCEPT ![t] = @ \cup {r}]
  BY Zenon DEF Update, Delete, Idle
<1>2. ClaimResult(r, t) = "kOk"
  BY <1>1, ZenonT(30) DEF Claim, ClaimResult, NeedsTombstone, StopsAt
<1>3. r \in RowIds(view[t]) /\ ~Contended(t, r)
  BY <1>1, <1>2, ClaimExact, ZenonT(30) DEF ClaimIsExact
<1>4. SI!MayWrite(t, r)
  BY <1>3, Uncontended, ZenonT(30) DEF SI!MayWrite, SI!RowsOf, RowIds
<1>5. UNCHANGED view \/ view' = [view EXCEPT ![t] = SI!Drop(@, {r})]
  BY Zenon DEF Update, Delete, SI!Drop, Without
<1>6. /\ Wrote' = [Wrote EXCEPT ![t] = @ \cup {r}]
      /\ store' = store /\ Missed' = Missed /\ Answer' = Answer
  BY <1>1, WriteRefines, ZenonT(30)
<1> QED BY <1>4, <1>5, <1>6, ZenonT(30) DEF SI!Write

\* The insert that ends Update puts back a row its transaction took; the one that ends
\* Insert adds a row nobody has.
LEMMA InsertRefines ==
  ASSUME TableInv, SnapshotInv, NEW t \in DOMAIN inserting, DeltaInsert(t, next_pos)
  PROVE  t \in active_txn_ids /\ \E r \in 0..MaxRow : SI!Write(t, r)
<1>1. PICK r, n : r = inserting[t].row_id /\ n = next_pos
  BY Zenon
<1>2. /\ UNCHANGED tmVars /\ scanning' = scanning /\ store' = store
      /\ wrote' = [wrote EXCEPT ![t] = @ \cup {r}]
      /\ view' = [view EXCEPT ![t] = Without(@, {r}) \cup {[row_id |-> r, row |-> n]}]
      /\ n <= MaxPos
  BY <1>1, Zenon DEF DeltaInsert, AddVersion, Push
<1>3. t \in active_txn_ids /\ t \in DOMAIN txn /\ TMInv /\ n \in 0..MaxPos
  <2>1. t \in active_txn_ids /\ TMInv /\ n \in Nat
    BY <1>1, Zenon DEF TableInv, TypeOK
  <2> QED BY <1>2, <2>1, ActiveUnfinished, TableAssumption
<1>4. r \in 0..MaxRow
  BY <1>1, TableAssumption DEF TableInv, TypeOK, InsertFresh, SnapshotInv
<1>5. ~Contended(t, r)
  <2>1. CASE inserting[t].locked
    <3>1. r \in wrote[t]
      BY <1>1, <2>1, ZenonT(30) DEF TableInv, UpdateOwns
    <3>2. ~Aborted(t) /\ \A ts : ~CommittedBy(t, ts)
      BY <1>3, ActiveUnfinished, ZenonT(30) DEF CommittedBy
    <3> QED BY <1>3, <3>1, <3>2, ZenonT(30) DEF TableInv, FirstClaimerWins, Overlap, Contended
  <2>2. CASE ~inserting[t].locked
    BY <1>1, <2>2, ZenonT(30) DEF TableInv, InsertFresh, Contended
  <2> QED BY <2>1, <2>2, ZenonT(30)
<1>6. \/ r \in RowIds(view[t])
      \/ r \notin RowIds(store) /\ \A u \in active_txn_ids : r \notin RowIds(view[u])
  <2>1. CASE inserting[t].locked
    BY <1>1, <1>3, <2>1, ZenonT(30) DEF SnapshotInv, ViewAgrees, Claiming
  <2>2. CASE ~inserting[t].locked
    <3>1. /\ RecordsOf(r) = {} /\ r \notin RowIds(base)
          /\ \A u \in DOMAIN inserting \ {t} : inserting[u].row_id # r
      BY <1>1, <2>2, ZenonT(30) DEF TableInv, InsertFresh
    <3>2. \A seen : r \notin RowIds(Reads(base, delta, seen))
      <4> SUFFICES ASSUME NEW seen, NEW b \in Reads(base, delta, seen), b.row_id = r PROVE FALSE
        BY Zenon DEF RowIds
      <4> QED BY <3>1, InReads DEF RecordsOf, RowIds, RowOf
    <3>3. r \notin RowIds(store)
      BY <3>2, Zenon DEF SnapshotInv, ViewAgrees
    <3>4. ASSUME NEW u \in active_txn_ids PROVE r \notin RowIds(view[u])
      <4>1. r \notin Claiming(u)
        BY <2>2, <3>1, ZenonT(30) DEF Claiming
      <4>2. r \notin RowIds(Without(view[u], Claiming(u)))
        BY <3>2, ZenonT(30) DEF SnapshotInv, ViewAgrees
      <4> QED BY <4>1, <4>2, ZenonT(30) DEF RowIds, Without
    <3> QED BY <3>3, <3>4, ZenonT(30)
  <2> QED BY <2>1, <2>2, ZenonT(30)
<1>7. SI!MayWrite(t, r)
  <2>1. SI!Running = active_txn_ids
    BY ZenonT(30) DEF TableInv, TypeOK, SI!Running
  <2> QED BY <1>3, <1>5, <1>6, <2>1, Uncontended, ZenonT(30) DEF SI!MayWrite, SI!RowsOf, RowIds
<1>8. \E v \in 0..MaxPos :
        view' = [view EXCEPT ![t] = SI!Drop(@, {r}) \cup {[row_id |-> r, row |-> v]}]
  BY <1>2, <1>3, ZenonT(30) DEF SI!Drop, Without
<1>9. /\ Wrote' = [Wrote EXCEPT ![t] = @ \cup {r}]
      /\ store' = store /\ Missed' = Missed /\ Answer' = Answer
  BY <1>2, <1>3, WriteRefines, ZenonT(30)
<1>10. SI!Write(t, r)
  BY <1>7, <1>8, <1>9, ZenonT(30) DEF SI!Write
<1> QED BY <1>3, <1>4, <1>10, ZenonT(30)

-----------------------------------------------------------------------------
(* Scans *)

\* A step of t's scan after which it goes on is not seen; after the last one the rows it
\* returns are there to be read.
LEMMA ScanRefines ==
  ASSUME TableInv, SnapshotInv', NEW t \in active_txn_ids,
         UNCHANGED <<tmVars, historyVars>>,
         DOMAIN scanning' = DOMAIN scanning \cup {t},
         \A u \in DOMAIN scanning \ {t} : scanning'[u] = scanning[u],
         t \in DOMAIN scanning => scanning[t].todo # {}
  PROVE  SI!Read(t) \/ UNCHANGED SI!siVars
<1>1. /\ store' = store /\ view' = view /\ wrote' = wrote /\ active_txn_ids' = active_txn_ids
      /\ UNCHANGED tmVars
  BY ZenonT(30) DEF historyVars, tmVars
<1>2. Missed' = Missed /\ Wrote' = Wrote
  BY <1>1, MissedKept, ZenonT(30) DEF TableInv, Wrote
<1>3. CASE scanning'[t].todo = {}
  <2>1. ScanResult(scanning[t])' = view[t]
    <3>1. Scans(scanning[t], Seen(t), view[t])'
      BY Zenon DEF SnapshotInv, ScanAgrees
    <3>2. PICK sc, seen : sc = scanning'[t] /\ seen = Seen(t)'
      BY Zenon
    <3>3. ScanResult(sc) = view'[t]
      BY <1>3, <3>1, <3>2, ScansResult, ZenonT(30)
    <3> QED BY <1>1, <3>2, <3>3, ZenonT(30) DEF ScanResult
  <2>2. Answer' = SI!With(Answer, t, view[t])
    BY <1>3, <2>1, ZenonT(30) DEF Answer, SI!With, ScanResult
  <2> QED BY <1>1, <1>2, <2>2, ZenonT(30) DEF SI!Read
<1>4. CASE scanning'[t].todo # {}
  <2>1. Answer' = Answer
    BY <1>4, ZenonT(30) DEF Answer, ScanResult
  <2> QED BY <1>1, <1>2, <2>1, ZenonT(30) DEF SI!siVars
<1> QED BY <1>3, <1>4, ZenonT(30)

\* The reader has looked at the rows.
LEMMA ScanEndRefines ==
  ASSUME TableInv, NEW t \in DOMAIN scanning, ScanEnd(t)
  PROVE  SI!Done(t)
<1>1. /\ store' = store /\ view' = view /\ wrote' = wrote /\ active_txn_ids' = active_txn_ids
      /\ UNCHANGED tmVars /\ scanning' = Restrict(scanning, DOMAIN scanning \ {t})
  BY Zenon DEF ScanEnd, historyVars, tmVars
<1>2. Missed' = Missed /\ Wrote' = Wrote
  BY <1>1, MissedKept, ZenonT(30) DEF TableInv, Wrote
<1>3. Answer' = SI!Less(Answer, t)
  BY <1>1, ZenonT(30) DEF Answer, SI!Less, SI!Restrict, Restrict, ScanResult
<1> QED BY <1>1, <1>2, <1>3, ZenonT(30) DEF SI!Done

-----------------------------------------------------------------------------
(* The refinement *)

\* A freshly loaded table is an initial state of snapshot isolation.
LEMMA RefinesInit == TableInit => SI!Init
<1> SUFFICES ASSUME TableInit PROVE SI!Init
  BY Zenon
<1>1. /\ active_txn_ids = {} /\ scanning = << >> /\ view = << >> /\ store = base
  BY Zenon DEF TableInit, TMInit
<1>2. base = {[row_id |-> r, row |-> 0] : r \in BaseRows}
  <2>1. CASE BaseRows = {}
    <3>1. base_segments = << >>
      BY <2>1, Zenon DEF TableInit
    <3> QED BY <2>1, <3>1 DEF base, Range
  <2>2. CASE BaseRows # {}
    <3> DEFINE rows == {[row_id |-> r, row |-> 0] : r \in BaseRows}
    <3>1. base_segments = [s \in {1} |-> rows]
      BY <2>2, ZenonT(30) DEF TableInit
    <3> HIDE DEF rows
    <3>2. base = rows
      BY <3>1, ZenonT(30) DEF base, Range
    <3> QED BY <3>2, Zenon DEF rows
  <2> QED BY <2>1, <2>2, ZenonT(30)
<1>3. Wrote = << >> /\ Missed = << >>
  BY <1>1 DEF Wrote, Missed
<1>4. Answer = << >>
  <2>1. {t \in DOMAIN scanning : scanning[t].todo = {}} = {}
    BY <1>1
  <2> QED BY <2>1 DEF Answer
<1> QED BY <1>1, <1>2, <1>3, <1>4, ZenonT(30) DEF SI!Init

\* Every step of the table is a step of snapshot isolation or is not seen.
LEMMA RefinesStep ==
  ASSUME TableInv, SnapshotInv, SnapshotInv', [Next]_vars
  PROVE  [SI!Next]_(SI!siVars)
<1>1. SI!Running = active_txn_ids /\ TMInv /\ DOMAIN inserting \cup DOMAIN scanning \subseteq active_txn_ids
  BY ZenonT(30) DEF TableInv, TypeOK, SI!Running
<1>2. CASE Begin
  BY <1>2, BeginRefines, ZenonT(30)
<1>3. ASSUME NEW t \in active_txn_ids, TxnStep(t) PROVE [SI!Next]_(SI!siVars)
  <2>1. CASE Commit(t)
    BY <1>1, <2>1, CommitRefines, ZenonT(30) DEF SI!Next
  <2>2. CASE Abort(t)
    BY <1>1, <2>2, AbortRefines, ZenonT(30) DEF SI!Next
  <2>3. CASE Insert(t)
    BY <2>3, Stutters, ZenonT(30) DEF Insert
  <2>4. CASE SnapshotForScan(t)
    <3>1. /\ UNCHANGED <<tmVars, historyVars>>
          /\ DOMAIN scanning' = DOMAIN scanning \cup {t} /\ t \notin DOMAIN scanning
          /\ \A u \in DOMAIN scanning \ {t} : scanning'[u] = scanning[u]
      BY <2>4, ZenonT(30) DEF SnapshotForScan, Idle, Extend
    <3> QED BY <1>1, <3>1, ScanRefines, ZenonT(30) DEF SI!Next
  <2>5. ASSUME NEW r \in 1..(next_row_id - 1), Update(t, r) \/ Delete(t, r)
        PROVE  [SI!Next]_(SI!siVars)
    <3>1. r \in 0..MaxRow
      BY TableAssumption DEF SnapshotInv, TableInv, TypeOK
    <3> QED BY <1>1, <2>5, <3>1, ClaimRefines, ZenonT(30) DEF SI!Next
  <2> QED BY <1>3, <2>1, <2>2, <2>3, <2>4, <2>5, ZenonT(30) DEF TxnStep
<1>4. ASSUME NEW t \in DOMAIN inserting, DeltaInsert(t, next_pos) PROVE [SI!Next]_(SI!siVars)
  BY <1>1, <1>4, InsertRefines, Zenon DEF SI!Next
<1>5. ASSUME NEW t \in DOMAIN scanning, ScanRecord(t) PROVE [SI!Next]_(SI!siVars)
  <2>1. /\ UNCHANGED <<tmVars, historyVars>>
        /\ DOMAIN scanning' = DOMAIN scanning \cup {t} /\ scanning[t].todo # {}
        /\ \A u \in DOMAIN scanning \ {t} : scanning'[u] = scanning[u]
    BY <1>5, ZenonT(30) DEF ScanRecord
  <2> QED BY <1>1, <2>1, ScanRefines, ZenonT(30) DEF SI!Next
<1>6. ASSUME NEW t \in DOMAIN scanning, ScanEnd(t) PROVE [SI!Next]_(SI!siVars)
  BY <1>1, <1>6, ScanEndRefines, ZenonT(30) DEF SI!Next
<1>7. CASE CompactBegin \/ CompactRecord \/ CompactEnd
  BY <1>7, Stutters, ZenonT(30) DEF CompactBegin, CompactRecord, CompactEnd
<1>8. CASE UNCHANGED vars
  BY <1>8, Stutters, ZenonT(30) DEF vars, tableVars
<1> QED BY <1>2, <1>3, <1>4, <1>5, <1>6, <1>7, <1>8, ZenonT(30) DEF Next

\* As long as no Compact meets an updated base row, the table with its versions, claims
\* and compactions implements private copies with first writer wins.
THEOREM TableImplementsSI == Spec /\ []CompactsNoUpdatedBase => ImplementsSI
<1>1. TableInv /\ SnapshotInv /\ SnapshotInv' /\ [Next]_vars => [SI!Next]_(SI!siVars)
  BY RefinesStep, ZenonT(30)
<1> QED BY RefinesInit, <1>1, TableInvariant, SnapshotInvariant, PTL DEF Spec, ImplementsSI, SI!Spec

-----------------------------------------------------------------------------
(* Uses of a table under which all this holds *)

\* Steps that write nothing and compact nothing.
LEMMA UseKept ==
  ASSUME UseInv, delta' = delta, base_segments' = base_segments, metrics' = metrics,
         compacting'.running = compacting.running,
         \A t \in DOMAIN inserting' : inserting'[t].locked =>
           t \in DOMAIN inserting /\ inserting[t].locked
  PROVE  UseInv'
<1>1. base' = base
  BY ZenonT(30) DEF base, Range
<1> QED BY <1>1, ZenonT(30) DEF UseInv

\* A claim changes no version's row, and adds at most a tombstone.
LEMMA UseClaim ==
  ASSUME TableInv, UseInv, NEW w \in active_txn_ids, NEW r \in 1..(next_row_id - 1),
         Update(w, r) \/ Delete(w, r)
  PROVE  UseInv'
<1>1. /\ base_segments' = base_segments /\ compacting' = compacting /\ metrics' = metrics
      /\ Claim(r, w) /\ w \notin DOMAIN inserting
  BY ZenonT(30) DEF Update, Delete, Idle, baseVars
<1>2. base' = base
  BY <1>1, ZenonT(30) DEF base, Range
<1>3. PICK q : Takes(r, w, q)
  <2>1. r \in Nat
    OBVIOUS
  <2> QED BY <1>1, <2>1, ClaimTakes, ZenonT(30)
<1>4. /\ DOMAIN delta' = DOMAIN delta \cup {q}
      /\ \A p \in DOMAIN delta : /\ delta'[p].row_id = delta[p].row_id
                                 /\ delta'[p].is_base_tombstone = delta[p].is_base_tombstone
      /\ q \notin DOMAIN delta => delta'[q].is_base_tombstone
  <2>1. q \notin DOMAIN delta => delta'[q].is_base_tombstone
    BY <1>3, ZenonT(30) DEF Takes
  <2> QED BY <1>3, <2>1, TakesEffect, ZenonT(30)
<1>5. "update" \notin Writes => inserting' = inserting
  BY ZenonT(30) DEF Update, Delete
<1> QED BY <1>1, <1>2, <1>4, <1>5, ZenonT(30) DEF UseInv

\* The push_back of an Insert adds a row the base does not have.
LEMMA UseDeltaInsert ==
  ASSUME TableInv, UseInv, NEW t \in DOMAIN inserting, DeltaInsert(t, next_pos)
  PROVE  UseInv'
<1>1. PICK r, n : r = inserting[t].row_id /\ n = next_pos
  BY ZenonT(30)
<1>2. /\ base_segments' = base_segments /\ compacting' = compacting /\ metrics' = metrics
      /\ delta' = Extend(delta, n, [row_id |-> r, created_txn |-> t, deleted_txn |-> 0,
                                    row |-> n, is_base_tombstone |-> FALSE])
      /\ inserting' = Restrict(inserting, DOMAIN inserting \ {t})
  BY <1>1, ZenonT(30) DEF DeltaInsert, AddVersion, Push, baseVars
<1>3. base' = base
  BY <1>2, ZenonT(30) DEF base, Range
<1>4. /\ DOMAIN delta' = DOMAIN delta \cup {n} /\ delta'[n].row_id = r
      /\ \A p \in DOMAIN delta \ {n} : delta'[p] = delta[p]
  BY <1>2, ZenonT(30) DEF Extend
<1>5. ~inserting[t].locked => r \notin RowIds(base)
  BY <1>1, ZenonT(30) DEF TableInv, InsertFresh
<1>6. \A u \in DOMAIN inserting' : u \in DOMAIN inserting /\ inserting'[u] = inserting[u]
  BY <1>2, ZenonT(30) DEF Restrict
<1> QED BY <1>2, <1>3, <1>4, <1>5, <1>6, ZenonT(30) DEF UseInv

\* A Compact moves no row into the base that it keeps a version of.
LEMMA UseCompactEnd ==
  ASSUME TableInv, SnapshotInv, UseInv, CompactEnd
  PROVE  UseInv'
<1>1. /\ DOMAIN delta' = compacting.retained /\ compacting.retained \subseteq DOMAIN delta
      /\ \A p \in DOMAIN delta' : delta'[p] = delta[p]
      /\ \A b : b \in base' <=>
           \/ b \in base /\ ~\E p \in RecordsOf(b.row_id) : Purges(p)
           \/ \E p \in DOMAIN delta : Promotes(p) /\ b = RowOf(delta[p])
  BY CompactEndEffect, Zenon
<1>2. /\ compacting.running /\ ~compacting'.running /\ inserting' = inserting
      /\ metrics'.runs = metrics.runs + 1 /\ metrics.runs \in Nat /\ MaxCompactions \in Nat
  BY TableAssumption, ZenonT(30) DEF CompactEnd, NotCompacting, TableInv, TypeOK
<1>3. ASSUME NEW p \in DOMAIN delta', delta[p].row_id \notin RowIds(base)
      PROVE  delta'[p].row_id \notin RowIds(base')
  <2> SUFFICES ASSUME NEW b \in base', b.row_id = delta[p].row_id PROVE FALSE
    BY <1>1, ZenonT(30) DEF RowIds
  <2>1. PICK q \in DOMAIN delta : Promotes(q) /\ b = RowOf(delta[q])
    BY <1>1, <1>3, ZenonT(30) DEF RowIds
  <2>2. q \in RecordsOf(delta[p].row_id)
    BY <2>1, ZenonT(30) DEF RecordsOf, RowOf
  <2> QED BY <1>1, <1>2, <2>1, <2>2, ZenonT(30) DEF SnapshotInv, CompactExact
<1> QED BY <1>1, <1>2, <1>3 DEF UseInv

\* Every step of the table keeps what these uses rest on.
LEMMA UseStep ==
  ASSUME TableInv, SnapshotInv, UseInv, [Next]_vars
  PROVE  UseInv'
<1>1. CASE Begin
  BY <1>1, UseKept, ZenonT(30) DEF Begin, tableVars, deltaVars, baseVars
<1>2. ASSUME NEW t \in active_txn_ids, TxnStep(t) PROVE UseInv'
  <2>1. CASE Commit(t) \/ Abort(t)
    BY <2>1, UseKept, ZenonT(30) DEF Commit, Abort, tableVars, deltaVars, baseVars
  <2>2. CASE Insert(t)
    BY <2>2, UseKept, ZenonT(30) DEF Insert, Extend, deltaVars, baseVars
  <2>3. CASE SnapshotForScan(t)
    BY <2>3, UseKept, ZenonT(30) DEF SnapshotForScan, deltaVars, baseVars
  <2>4. ASSUME NEW r \in 1..(next_row_id - 1), Update(t, r) \/ Delete(t, r) PROVE UseInv'
    BY <2>4, UseClaim, ZenonT(30)
  <2> QED BY <1>2, <2>1, <2>2, <2>3, <2>4, ZenonT(30) DEF TxnStep
<1>3. ASSUME NEW t \in DOMAIN inserting, DeltaInsert(t, next_pos) PROVE UseInv'
  BY <1>3, UseDeltaInsert, ZenonT(30)
<1>4. ASSUME NEW t \in DOMAIN scanning, ScanRecord(t) \/ ScanEnd(t) PROVE UseInv'
  BY <1>4, UseKept, ZenonT(30) DEF ScanRecord, ScanEnd, deltaVars, baseVars
<1>5. CASE CompactBegin
  <2>1. /\ delta' = delta /\ base_segments' = base_segments /\ metrics' = metrics
        /\ inserting' = inserting /\ metrics.runs < MaxCompactions
    BY <1>5, ZenonT(30) DEF CompactBegin, deltaVars, baseVars
  <2>2. base' = base
    BY <2>1, ZenonT(30) DEF base, Range
  <2> QED BY <2>1, <2>2, ZenonT(30) DEF UseInv
<1>6. CASE CompactRecord
  <2>1. compacting'.running = compacting.running
    BY <1>6, ZenonT(30) DEF CompactRecord, TableInv, TypeOK
  <2> QED BY <1>6, <2>1, UseKept, ZenonT(30) DEF CompactRecord, deltaVars, baseVars
<1>7. CASE CompactEnd
  BY <1>7, UseCompactEnd, ZenonT(30)
<1>8. CASE UNCHANGED vars
  BY <1>8, UseKept, ZenonT(30) DEF vars, tableVars, deltaVars, baseVars
<1> QED BY <1>1, <1>2, <1>3, <1>4, <1>5, <1>6, <1>7, <1>8, ZenonT(30) DEF Next

\* A freshly loaded table.
LEMMA UseInit == TableInit => UseInv
<1> SUFFICES ASSUME TableInit PROVE UseInv
  BY ZenonT(30)
<1>1. /\ delta = << >> /\ inserting = << >> /\ ~compacting.running /\ metrics.runs = 0
      /\ MaxCompactions \in Nat
  BY TableAssumption, Zenon DEF TableInit, NotCompacting
<1>2. BaseRows = {} => base = {}
  <2>1. BaseRows = {} => base_segments = << >>
    BY Zenon DEF TableInit
  <2> QED BY <2>1 DEF base, Range
<1> QED BY <1>1, <1>2 DEF UseInv

\* Clients that only insert and delete, and tables that are never compacted or start empty
\* and are compacted once, never have an updated base row compacted.
THEOREM UpdatesSpared ==
  ASSUME UpdateFreeCompaction
  PROVE  Spec => [](SnapshotInv /\ CompactsNoUpdatedBase)
<1>1. TableInv /\ UseInv => CompactsNoUpdatedBase
  BY UpdateFreeCompaction, TableAssumption
     DEF UpdateFreeCompaction, UseInv, CompactsNoUpdatedBase, RowIds, TableInv, TypeOK
<1>2. TableInv /\ SnapshotInv /\ UseInv /\ [Next]_vars => SnapshotInv' /\ UseInv'
  BY <1>1, SnapshotStep, UseStep, Zenon
<1> QED BY SnapshotInitInv, UseInit, <1>1, <1>2, TableInvariant, PTL DEF Spec

\* For these uses the table is snapshot isolated without further condition: scans return
\* the reader's snapshot, claims are exact, and the table implements SnapshotIsolation.
THEOREM TableIsIsolated ==
  ASSUME UpdateFreeCompaction
  PROVE  Spec => []ScanReturnsSnapshot /\ []ClaimIsExact /\ ImplementsSI
BY UpdateFreeCompaction, UpdatesSpared, ScansAreSnapshots, ClaimsAreExact, TableImplementsSI, PTL

-----------------------------------------------------------------------------
\* No view shows a row twice.
LEMMA ViewsUnique ==
  ASSUME TableInv, SnapshotInv, NEW t \in active_txn_ids \ DOMAIN inserting,
         NEW b \in view[t], NEW c \in view[t], b.row_id = c.row_id
  PROVE  b = c
<1>1. Reads(base, delta, Seen(t)) = view[t]
  BY ReadsView, Zenon DEF SnapshotInv, Claiming
<1>2. Coherent(Seen(t))
  BY SeenCoherent, Zenon DEF TableInv
<1> DEFINE V(x, p) == ~delta[p].is_base_tombstone /\ Hides(delta[p], Seen(t)) /\ x = RowOf(delta[p])
           B(x) == /\ x \in base
                   /\ \A p \in DOMAIN delta : delta[p].row_id = x.row_id => ~Hides(delta[p], Seen(t))
<1>3. \A x \in view[t] : (\E p \in DOMAIN delta : V(x, p)) \/ B(x)
  BY <1>1, InReads
<1>4. ASSUME NEW x, NEW p \in DOMAIN delta, V(x, p), NEW y, y.row_id = x.row_id PROVE ~B(y)
  BY <1>4, Zenon DEF RowOf
<1>5. ASSUME NEW p \in DOMAIN delta, V(b, p), NEW q \in DOMAIN delta, V(c, q) PROVE b = c
  <2>1. delta[p].row_id = delta[q].row_id
    BY <1>5, Zenon DEF RowOf
  <2>2. VisibleIn(delta[p], Seen(t)) /\ VisibleIn(delta[q], Seen(t))
    BY <1>5, Zenon DEF Hides
  <2> QED BY <1>2, <1>5, <2>1, <2>2, OneVisible, Zenon
<1>6. B(b) /\ B(c) => b = c
  BY DEF SnapshotInv, BaseCovered
<1> QED BY <1>3, <1>4, <1>5, <1>6, ZenonT(30)

\* A scan returns no two versions of a row unless a Compact has met an updated base row:
\* the condition table_duplicate breaks is the only one there is.
THEOREM ScansShowNoDuplicate == Spec /\ []CompactsNoUpdatedBase => []OneVersionPerRow
<1>1. TableInv /\ SnapshotInv => OneVersionPerRow
  <2> SUFFICES ASSUME TableInv, SnapshotInv, NEW t \in DOMAIN scanning, scanning[t].todo = {},
                      NEW b \in ScanResult(scanning[t]), NEW c \in ScanResult(scanning[t]),
                      b.row_id = c.row_id
               PROVE  b = c
    BY Zenon DEF OneVersionPerRow
  <2>1. t \in active_txn_ids \ DOMAIN inserting
    BY ZenonT(30) DEF TableInv, TypeOK, SnapshotInv, ScanAgrees
  <2>2. ScanResult(scanning[t]) = view[t]
    BY ScansResult, ZenonT(30) DEF SnapshotInv, ScanAgrees
  <2> QED BY <2>1, <2>2, ViewsUnique
<1> QED BY <1>1, TableInvariant, SnapshotInvariant, PTL
=============================================================================
