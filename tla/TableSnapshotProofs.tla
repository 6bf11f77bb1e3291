------------------------ MODULE TableSnapshotProofs -------------------------
(***************************************************************************)
(* SnapshotInv is inductive relative to TableInv, as long as no Compact    *)
(* meets an updated base row; scans and claims are exact where it holds.   *)
(***************************************************************************)
EXTENDS TableClaimProofs, TableSnapshot

\* more time than by default for every step that names no prover
USE SMTT(30), ZenonT(30)

-----------------------------------------------------------------------------
(* Sets of effects a reader may see *)

\* no member aborted, and a member's own snapshot is in the set
Coherent(seen) ==
  /\ seen \subseteq DOMAIN txn /\ 0 \notin seen
  /\ \A u \in seen : ~Aborted(u)
  /\ \A u \in seen : \A a : SeenBy(a, u) => a \in seen

\* What an active transaction sees is coherent, and is what SeenBy says.
LEMMA SeenCoherent ==
  ASSUME TMInv, NEW t \in active_txn_ids
  PROVE  /\ Coherent(Seen(t)) /\ t \in Seen(t)
         /\ \A a : a \in Seen(t) <=> SeenBy(a, t)
<1>1. t \in DOMAIN txn /\ ~Aborted(t) /\ 0 \notin DOMAIN txn
  BY ActiveUnfinished, Nobody, Zenon
<1>2. \A a : a \in Seen(t) <=> SeenBy(a, t)
  BY <1>1, Zenon DEF Seen, SeenBy, CommittedBy, Committed, GetStatus, TMInv, TMTypeOK
<1>3. t \in Seen(t) /\ Seen(t) \subseteq DOMAIN txn
  BY <1>1, Zenon DEF Seen, SeenBy
<1>4. \A u \in Seen(t) : ~Aborted(u)
  BY <1>1, Zenon DEF Seen, SeenBy, CommittedBy, Committed, Aborted
<1>5. ASSUME NEW u \in Seen(t), NEW a, SeenBy(a, u) PROVE a \in Seen(t)
  BY <1>1, <1>2, <1>3, <1>5, SeenByTransitive, Zenon
<1> QED BY <1>1, <1>2, <1>3, <1>4, <1>5, Zenon DEF Coherent

\* So is the set of all that has been committed.
LEMMA PastCoherent ==
  ASSUME TMInv
  PROVE  Coherent(Past)
<1>1. 0 \notin DOMAIN txn
  BY Nobody, Zenon
<1>2. \A a : Committed(a) => a \in DOMAIN txn
  BY DEF Committed, GetStatus, TMInv, TMTypeOK
<1>3. ASSUME NEW u \in Past, NEW a, SeenBy(a, u) PROVE a \in Past
  BY <1>2, <1>3, Zenon DEF Past, SeenBy, CommittedBy
<1>4. \A u \in Past : ~Aborted(u)
  BY DEF Past, Committed, Aborted
<1> QED BY <1>1, <1>3, <1>4, Zenon DEF Coherent, Past

\* The test of the code and the set agree.
LEMMA VisibleIsVisibleIn ==
  ASSUME TMInv, NEW t \in active_txn_ids, NEW rec
  PROVE  IsVisible(rec, t) <=> VisibleIn(rec, Seen(t))
<1>1. /\ 0 \notin Seen(t)
      /\ \A a : a \in Seen(t) <=> SeenBy(a, t)
  BY SeenCoherent, Zenon DEF Coherent
<1> QED BY <1>1, Zenon DEF IsVisible, VisibleIn

\* In a coherent set, once a version is seen the live ones before it are seen deleted.
LEMMA EarlierIsGone ==
  ASSUME TableInv, NEW seen, Coherent(seen), NEW p \in DOMAIN delta, NEW q \in DOMAIN delta,
         p < q, delta[p].row_id = delta[q].row_id, Live(p),
         delta[q].created_txn = 0 \/ delta[q].created_txn \in seen
  PROVE  delta[p].deleted_txn \in seen /\ delta[q].created_txn \in seen
<1>1. TMInv
  BY Zenon DEF TableInv
<1>2. Live(q)
  BY <1>1, Nobody, Zenon DEF Live, Coherent
<1> QED BY <1>2, Zenon DEF TableInv, VersionChain, Coherent

\* A coherent set shows at most one record of a row, tombstones included.
LEMMA OneVisible ==
  ASSUME TableInv, NEW seen, Coherent(seen), NEW p \in DOMAIN delta, NEW q \in DOMAIN delta,
         delta[p].row_id = delta[q].row_id,
         VisibleIn(delta[p], seen), VisibleIn(delta[q], seen)
  PROVE  p = q
<1>1. Live(p) /\ Live(q)
  BY Nobody, Zenon DEF Live, Coherent, VisibleIn, TableInv
<1>2. p \in Nat /\ q \in Nat
  BY DEF TableInv, TypeOK
<1>3. ~(p < q) /\ ~(q < p)
  BY <1>1, EarlierIsGone, Zenon DEF VisibleIn
<1> QED BY <1>2, <1>3

\* A row has one tombstone at most.
LEMMA OneTombstone ==
  ASSUME TableInv, NEW p \in DOMAIN delta, NEW q \in DOMAIN delta,
         delta[p].row_id = delta[q].row_id,
         delta[p].is_base_tombstone, delta[q].is_base_tombstone
  PROVE  p = q
<1>1. Live(p) /\ Live(q) /\ delta[p].created_txn = 0 /\ delta[q].created_txn = 0
  BY Nobody, Zenon DEF Live, TableInv, RecordsRefer
<1>2. p \in Nat /\ q \in Nat
  BY DEF TableInv, TypeOK
<1>3. ~(p < q) /\ ~(q < p)
  BY <1>1, Zenon DEF TableInv, VersionChain
<1> QED BY <1>2, <1>3

-----------------------------------------------------------------------------
(* What Reads depends on *)

\* A row is read from a version that hides the base, or from the base where nothing does.
LEMMA InReads ==
  ASSUME NEW rows, NEW recs, NEW seen, NEW b
  PROVE  b \in Reads(rows, recs, seen) <=>
           \/ \E p \in DOMAIN recs : /\ ~recs[p].is_base_tombstone /\ Hides(recs[p], seen)
                                     /\ b = RowOf(recs[p])
           \/ b \in rows /\ \A p \in DOMAIN recs :
                              recs[p].row_id = b.row_id => ~Hides(recs[p], seen)
BY DEF Reads, FromDelta, Suppressed, Without, Hides

\* at p the records of recs and of recs2 hide the same of row r, in seen and in seen2
HidesAlike(r, p, recs, seen, recs2, seen2) ==
  p \in DOMAIN recs /\ recs[p].row_id = r /\ Hides(recs[p], seen) =>
    /\ p \in DOMAIN recs2 /\ Hides(recs2[p], seen2)
    /\ RowOf(recs2[p]) = RowOf(recs[p]) /\ recs2[p].row_id = recs[p].row_id
    /\ recs2[p].is_base_tombstone = recs[p].is_base_tombstone

\* Two states whose hiding records of a row agree read alike at that row.
LEMMA ReadsAlike ==
  ASSUME NEW rows, NEW recs, NEW seen, NEW recs2, NEW seen2, NEW b,
         \A p : HidesAlike(b.row_id, p, recs, seen, recs2, seen2),
         \A p : HidesAlike(b.row_id, p, recs2, seen2, recs, seen)
  PROVE  b \in Reads(rows, recs, seen) <=> b \in Reads(rows, recs2, seen2)
<1>1. \A p : RowOf(recs[p]).row_id = recs[p].row_id /\ RowOf(recs2[p]).row_id = recs2[p].row_id
  BY Zenon DEF RowOf
<1>2. (\E p \in DOMAIN recs : /\ ~recs[p].is_base_tombstone /\ Hides(recs[p], seen)
                              /\ b = RowOf(recs[p]))
      <=> (\E p \in DOMAIN recs2 : /\ ~recs2[p].is_base_tombstone /\ Hides(recs2[p], seen2)
                                   /\ b = RowOf(recs2[p]))
  BY <1>1, Zenon DEF HidesAlike
<1>3. (\A p \in DOMAIN recs : recs[p].row_id = b.row_id => ~Hides(recs[p], seen))
      <=> (\A p \in DOMAIN recs2 : recs2[p].row_id = b.row_id => ~Hides(recs2[p], seen2))
  BY Zenon DEF HidesAlike
<1> QED BY <1>2, <1>3, InReads

\* Equality of what is read, row by row.
LEMMA ReadsEqual ==
  ASSUME NEW rows, NEW recs, NEW seen, NEW rows2, NEW recs2, NEW seen2,
         \A b : b \in Reads(rows, recs, seen) <=> b \in Reads(rows2, recs2, seen2)
  PROVE  Reads(rows, recs, seen) = Reads(rows2, recs2, seen2)
BY DEF Reads

\* A row whose record is visible is read, from the delta or, past a tombstone, from the base.
LEMMA VisibleIsRead ==
  ASSUME TableInv, BaseCovered, NEW seen, Coherent(seen), NEW q \in DOMAIN delta,
         VisibleIn(delta[q], seen)
  PROVE  delta[q].row_id \in RowIds(Reads(base, delta, seen))
<1> DEFINE r == delta[q].row_id
<1>1. CASE ~delta[q].is_base_tombstone
  <2>1. RowOf(delta[q]) \in Reads(base, delta, seen)
    BY <1>1, InReads, ZenonT(30) DEF Hides
  <2>2. RowOf(delta[q]).row_id = r
    BY Zenon DEF RowOf
  <2> QED BY <2>1, <2>2, Zenon DEF RowIds
<1>2. CASE delta[q].is_base_tombstone
  <2>1. PICK b \in base : b.row_id = r
    BY <1>2 DEF BaseCovered, RecordsOf, RowIds
  <2>2. ASSUME NEW p \in DOMAIN delta, delta[p].row_id = r, Hides(delta[p], seen) PROVE FALSE
    <3>1. CASE delta[p].is_base_tombstone
      <4>1. p = q
        BY <1>2, <2>2, <3>1, OneTombstone, Zenon
      <4> QED BY <1>2, <2>2, <4>1, Zenon DEF Hides, VisibleIn
    <3>2. CASE ~delta[p].is_base_tombstone
      <4>1. p = q
        BY <2>2, <3>2, OneVisible, ZenonT(30) DEF Hides
      <4> QED BY <1>2, <3>2, <4>1, Zenon
    <3> QED BY <3>1, <3>2, Zenon
  <2>3. b \in Reads(base, delta, seen)
    BY <2>1, <2>2, InReads, ZenonT(30)
  <2> QED BY <2>1, <2>3, Zenon DEF RowIds
<1> QED BY <1>1, <1>2, Zenon

\* Conversely a row that is read has a visible record, or is a base row without records.
LEMMA ReadIsVisible ==
  ASSUME TableInv, BaseCovered, NEW seen, Coherent(seen), NEW r,
         r \in RowIds(Reads(base, delta, seen))
  PROVE  \/ \E q \in RecordsOf(r) : VisibleIn(delta[q], seen)
         \/ RecordsOf(r) = {} /\ r \in RowIds(base)
<1>1. PICK b \in Reads(base, delta, seen) : b.row_id = r
  BY Zenon DEF RowIds
<1>2. CASE \E p \in DOMAIN delta : /\ ~delta[p].is_base_tombstone /\ Hides(delta[p], seen)
                                   /\ b = RowOf(delta[p])
  BY <1>1, <1>2 DEF RecordsOf, Hides, RowOf
<1>3. CASE b \in base /\ \A p \in DOMAIN delta :
                           delta[p].row_id = b.row_id => ~Hides(delta[p], seen)
  <2>1. r \in RowIds(base)
    BY <1>1, <1>3, Zenon DEF RowIds
  <2>2. ASSUME NEW p \in RecordsOf(r) PROVE \E q \in RecordsOf(r) : VisibleIn(delta[q], seen)
    <3>1. PICK q \in RecordsOf(r) : delta[q].is_base_tombstone
      BY <2>1, <2>2, ZenonT(30) DEF BaseCovered, RecordsOf
    <3>2. delta[q].created_txn = 0 /\ q \in DOMAIN delta /\ delta[q].row_id = r
      BY <3>1, Zenon DEF TableInv, RecordsRefer, RecordsOf
    <3>3. VisibleIn(delta[q], seen)
      BY <1>1, <1>3, <3>1, <3>2, ZenonT(30) DEF VisibleIn, Hides
    <3> QED BY <3>1, <3>3, Zenon
  <2> QED BY <2>1, <2>2, Zenon
<1> QED BY <1>1, <1>2, <1>3, InReads

-----------------------------------------------------------------------------
(* Claims *)

\* The search of a claim stops at the visible record unless somebody is in the way.
LEMMA StopsAtVisible ==
  ASSUME TableInv, RecordsWritten, NEW t \in active_txn_ids, NEW r, NEW q \in RecordsOf(r),
         VisibleIn(delta[q], Seen(t)), ~Contended(t, r)
  PROVE  StopsAt(q, r, t) /\ Outcome(delta[q], t) = "claim"
<1>1. TMInv /\ Coherent(Seen(t)) /\ t \in Seen(t) /\ \A a : a \in Seen(t) <=> SeenBy(a, t)
  BY SeenCoherent, Zenon DEF TableInv
<1>2. ASSUME NEW p \in RecordsOf(r), delta[p].deleted_txn # 0, delta[p].deleted_txn # t,
             ~Aborted(delta[p].deleted_txn)
      PROVE  CommittedBy(delta[p].deleted_txn, txn[t].snapshot_ts)
  <2>1. delta[p].deleted_txn \in DOMAIN txn /\ r \in wrote[delta[p].deleted_txn]
    BY <1>2, Zenon DEF RecordsOf, RecordsWritten, TableInv, RecordsRefer
  <2> QED BY <1>2, <2>1, Zenon DEF Contended
<1>3. ASSUME NEW p \in RecordsOf(r) PROVE Outcome(delta[p], t) # "conflict"
  <2> DEFINE d == delta[p].deleted_txn
  <2>1. ~(d # 0 /\ d # t /\ GetStatus(d).state = "kActive")
    BY <1>2, <1>3, Zenon DEF CommittedBy, Committed, Aborted
  <2> QED BY <2>1, Zenon DEF Outcome
<1>4. IsVisible(delta[q], t) /\ q \in DOMAIN delta /\ delta[q].row_id = r
  BY <1>1, VisibleIsVisibleIn, Zenon DEF RecordsOf
<1>5. Outcome(delta[q], t) = "claim"
  <2> DEFINE d == delta[q].deleted_txn
  <2>1. ~SeenBy(d, t)
    BY <1>1, Zenon DEF VisibleIn
  <2>2. d # t /\ ~(d # 0 /\ d # t /\ Committed(d))
    BY <1>2, <2>1, Zenon DEF SeenBy, Committed, Aborted
  <2>3. Outcome(delta[q], t) # "conflict"
    BY <1>3, Zenon
  <2> QED BY <1>4, <2>2, <2>3, Zenon DEF Outcome
<1>6. ASSUME NEW p \in RecordsOf(r), p > q PROVE Outcome(delta[p], t) = "skip"
  <2>1. p \in DOMAIN delta /\ delta[p].row_id = r /\ p # q
    BY <1>4, <1>6 DEF RecordsOf, TableInv, TypeOK
  <2>2. ~VisibleIn(delta[p], Seen(t))
    BY <1>1, <1>4, <2>1, OneVisible, Zenon
  <2>3. ~IsVisible(delta[p], t)
    BY <1>1, <2>2, VisibleIsVisibleIn, Zenon
  <2>4. Outcome(delta[p], t) # "conflict"
    BY <1>3, Zenon
  <2> QED BY <2>3, <2>4 DEF Outcome
<1> QED BY <1>5, <1>6, Zenon DEF StopsAt

\* Who makes a claim has seen everybody else who wrote the row.
LEMMA ClaimUncontended ==
  ASSUME TableInv, NEW t \in active_txn_ids, NEW r,
         \/ \E q \in RecordsOf(r) : Outcome(delta[q], t) = "claim"
         \/ RecordsOf(r) = {}
  PROVE  ~Contended(t, r)
<1>1. TMInv
  BY Zenon DEF TableInv
<1>2. ASSUME NEW u \in DOMAIN txn \ {t}, r \in wrote[u], ~Aborted(u)
      PROVE  CommittedBy(u, txn[t].snapshot_ts)
  <2>1. CASE Settled(u)
    BY <2>1, Zenon DEF Settled
  <2>2. CASE \E p \in RecordsOf(r) : u \in {delta[p].created_txn, delta[p].deleted_txn}
    <3>1. PICK q \in RecordsOf(r) : Outcome(delta[q], t) = "claim"
      BY <2>2, Zenon
    <3>2. ClaimIsSound(r, t, q)
      BY <3>1, ClaimSound, Zenon
    <3>3. u # 0
      BY <1>1, Nobody, Zenon
    <3> QED BY <1>2, <2>2, <3>2, <3>3, ZenonT(30) DEF ClaimIsSound, SeenBy
  <2> QED BY <1>2, <2>1, <2>2, ZenonT(30) DEF TableInv, WritesLeaveTrace
<1> QED BY <1>2, Zenon DEF Contended

\* A transaction that is not in the middle of an Update reads its view.
LEMMA ReadsView ==
  ASSUME TableInv, ViewAgrees, NEW t \in active_txn_ids, Claiming(t) = {}
  PROVE  Reads(base, delta, Seen(t)) = view[t]
<1>1. view[t] \in SUBSET BaseRow
  BY Zenon DEF TableInv, TypeOK
<1>2. Without(view[t], {}) = view[t]
  BY <1>1 DEF Without
<1> QED BY <1>2, ZenonT(30) DEF ViewAgrees

\* Where the shared state reads as the view, a claim succeeds exactly as it should.
LEMMA ClaimExact ==
  ASSUME TableInv, SnapshotInv
  PROVE  ClaimIsExact
<1> SUFFICES ASSUME NEW t \in active_txn_ids \ DOMAIN inserting, NEW r \in 1..(next_row_id - 1)
             PROVE  ClaimResult(r, t) = "kOk" <=> r \in RowIds(view[t]) /\ ~Contended(t, r)
  BY Zenon DEF ClaimIsExact
<1>1. /\ TMInv /\ Coherent(Seen(t)) /\ BaseCovered /\ RecordsWritten
  BY SeenCoherent, Zenon DEF TableInv, SnapshotInv
<1>2. Reads(base, delta, Seen(t)) = view[t]
  BY ReadsView, Zenon DEF SnapshotInv, Claiming
<1>3. ASSUME NEW q \in DOMAIN delta, StopsAt(q, r, t), Outcome(delta[q], t) = "claim"
      PROVE  r \in RowIds(view[t]) /\ ~Contended(t, r)
  <2>1. q \in RecordsOf(r) /\ delta[q].row_id = r
    BY <1>3, Zenon DEF StopsAt, RecordsOf
  <2>2. IsVisible(delta[q], t)
    BY <1>3, Zenon DEF Outcome
  <2>3. VisibleIn(delta[q], Seen(t))
    BY <1>1, <2>2, VisibleIsVisibleIn, Zenon
  <2>4. r \in RowIds(view[t])
    BY <1>1, <1>2, <2>1, <2>3, VisibleIsRead, ZenonT(30)
  <2>5. ~Contended(t, r)
    BY <1>3, <2>1, ClaimUncontended, Zenon
  <2> QED BY <2>4, <2>5, Zenon
<1>4. ASSUME NeedsTombstone(r, t) PROVE r \in RowIds(view[t]) /\ ~Contended(t, r)
  <2>1. RecordsOf(r) = {}
    BY <1>4, Zenon DEF NeedsTombstone
  <2>2. PICK b \in base : b.row_id = r
    BY <1>4, Zenon DEF NeedsTombstone, RowIdExistsInBase, RowIds
  <2>3. b \in view[t]
    BY <1>2, <2>1, <2>2, InReads DEF RecordsOf
  <2> QED BY <2>1, <2>2, <2>3, ClaimUncontended, Zenon DEF RowIds
<1>5. ASSUME r \in RowIds(view[t]), ~Contended(t, r) PROVE ClaimResult(r, t) = "kOk"
  <2>1. CASE \E q \in RecordsOf(r) : VisibleIn(delta[q], Seen(t))
    BY <1>1, <1>5, <2>1, StopsAtVisible, Zenon DEF ClaimResult, RecordsOf
  <2>2. CASE RecordsOf(r) = {} /\ r \in RowIds(base)
    BY <2>2, Zenon DEF ClaimResult, StopsAt, NeedsTombstone, RowIdExistsInBase
  <2> QED BY <1>1, <1>2, <1>5, <2>1, <2>2, ReadIsVisible, Zenon
<1> QED BY <1>3, <1>4, <1>5, Zenon DEF ClaimResult

-----------------------------------------------------------------------------
(* What every step but a scan's own leaves alone *)

\* The effects a transaction sees are the same as long as it is active.
LEMMA SeenFixed ==
  ASSUME TMInv, [TMNext]_tmVars, NEW t \in active_txn_ids, t \in active_txn_ids'
  PROVE  Seen(t)' = Seen(t)
<1>1. TMInv' /\ t \in DOMAIN txn
  BY TMStepInv, ActiveUnfinished, ZenonT(30)
<1>2. \A a : SeenBy(a, t)' <=> SeenBy(a, t)
  BY <1>1, SeeingIsFixed, ZenonT(30)
<1>3. \A a : a \in Seen(t) <=> SeenBy(a, t)
  BY SeenCoherent, ZenonT(30)
<1>4. \A a : a \in Seen(t)' <=> SeenBy(a, t)'
  BY <1>1, <1>2, <1>3, ZenonT(30) DEF Seen, ManagerGrows, SeenBy, CommittedBy, Committed, GetStatus, TMInv, TMTypeOK
<1> QED BY <1>2, <1>3, <1>4, ZenonT(30) DEF Seen

\* Scans go on with what they copied, whatever the others do.
LEMMA ScansUndisturbed ==
  ASSUME TableInv, ScanAgrees, [TMNext]_tmVars, scanning' = scanning,
         DOMAIN scanning \subseteq active_txn_ids',
         \A t \in DOMAIN scanning : t \notin DOMAIN inserting' /\ view'[t] = view[t]
  PROVE  ScanAgrees'
<1>1. DOMAIN scanning \subseteq active_txn_ids /\ TMInv
  BY Zenon DEF TableInv, TypeOK
<1>2. \A t \in DOMAIN scanning : Seen(t)' = Seen(t)
  BY <1>1, SeenFixed, Zenon
<1> QED BY <1>2, Zenon DEF ScanAgrees

\* What is stable at the watermark of a running Compact does not change while it runs.
LEMMA StableFixed ==
  ASSUME TableInv, [TMNext]_tmVars, compacting.running,
         compacting'.oldest_active = compacting.oldest_active
  PROVE  \A a : Stable(a)' <=> Stable(a)
<1>1. ManagerGrows
  BY ManagerStep, Zenon DEF TableInv
<1>2. compacting.oldest_active \in 0..last_commit_ts
  BY Zenon DEF TableInv, CompactSound
<1> QED BY <1>1, <1>2, Zenon DEF Stable, ManagerGrows

\* So the classification of a record does not either.
LEMMA ClassFixed ==
  ASSUME TableInv, [TMNext]_tmVars, compacting.running,
         compacting'.oldest_active = compacting.oldest_active, delta' = delta
  PROVE  /\ \A p : Promotes(p)' <=> Promotes(p)
         /\ \A p : Purges(p)' <=> Purges(p)
         /\ \A r : RecordsOf(r)' = RecordsOf(r)
<1>1. \A a : Stable(a)' <=> Stable(a)
  BY StableFixed, Zenon
<1>2. \A r : RecordsOf(r)' = RecordsOf(r)
  BY DEF RecordsOf
<1> QED BY <1>1, <1>2, Zenon DEF Promotes, Purges, IsHead, Superseded

\* A Compact in progress is undisturbed by the others' steps.
LEMMA CompactUndisturbed ==
  ASSUME TableInv, CompactExact, [TMNext]_tmVars, compacting' = compacting,
         compacting.running => delta' = delta
  PROVE  CompactExact'
<1> SUFFICES ASSUME compacting.running PROVE CompactExact'
  BY DEF CompactExact
<1>1. /\ \A p : Promotes(p)' <=> Promotes(p)
      /\ \A p : Purges(p)' <=> Purges(p)
      /\ \A r : RecordsOf(r)' = RecordsOf(r)
  BY ClassFixed, Zenon
<1> QED BY <1>1, Zenon DEF CompactExact

-----------------------------------------------------------------------------
(* Begin, Commit and Abort *)

\* What the steps of the manager have in common: only seeing and the histories change.
LEMMA ManagerKeepsSnapshot ==
  ASSUME TableInv, SnapshotInv, [TMNext]_tmVars, UNCHANGED tableVars,
         DOMAIN scanning \subseteq active_txn_ids',
         \A t \in DOMAIN txn : wrote'[t] = wrote[t],
         \A t \in active_txn_ids \cap active_txn_ids' : view'[t] = view[t]
  PROVE  /\ RecordsWritten' /\ BaseCovered' /\ ScanAgrees' /\ CompactExact'
         /\ next_row_id' <= MaxRow + 1
         /\ base' = base /\ delta' = delta
         /\ \A t : Claiming(t)' = Claiming(t)
         /\ \A t \in active_txn_ids \cap active_txn_ids' :
              /\ Reads(base, delta, Seen(t)') = Without(view'[t], Claiming(t))
              /\ Claiming(t) \subseteq RowIds(view'[t])
<1>1. /\ delta' = delta /\ base_segments' = base_segments /\ inserting' = inserting
      /\ scanning' = scanning /\ compacting' = compacting /\ next_row_id' = next_row_id
  BY Zenon DEF tableVars, deltaVars, baseVars
<1>2. base' = base /\ \A r : RecordsOf(r)' = RecordsOf(r)
  BY <1>1, Zenon DEF base, Range, RecordsOf
<1>3. RecordsWritten'
  BY <1>1 DEF SnapshotInv, RecordsWritten, TableInv, RecordsRefer
<1>4. BaseCovered'
  BY <1>1, <1>2, Zenon DEF SnapshotInv, BaseCovered
<1>5. ScanAgrees'
  <2>1. \A t \in DOMAIN scanning : t \notin DOMAIN inserting' /\ view'[t] = view[t]
    BY <1>1, Zenon DEF SnapshotInv, ScanAgrees, TableInv, TypeOK
  <2> QED BY <1>1, <2>1, ScansUndisturbed, Zenon DEF SnapshotInv
<1>6. CompactExact'
  BY <1>1, CompactUndisturbed, Zenon DEF SnapshotInv
<1>7. \A t : Claiming(t)' = Claiming(t)
  BY <1>1, Zenon DEF Claiming
<1>8. \A t \in active_txn_ids \cap active_txn_ids' : Seen(t)' = Seen(t)
  BY SeenFixed, Zenon DEF TableInv
<1>9. \A t \in active_txn_ids \cap active_txn_ids' :
        /\ Reads(base, delta, Seen(t)') = Without(view'[t], Claiming(t))
        /\ Claiming(t) \subseteq RowIds(view'[t])
  BY <1>8 DEF SnapshotInv, ViewAgrees
<1> QED BY <1>1, <1>2, <1>3, <1>4, <1>5, <1>6, <1>7, <1>9, ZenonT(30) DEF SnapshotInv

\* Begin: the new transaction sees what has been committed, and that reads as the store.
LEMMA SnapshotBegin ==
  ASSUME TableInv, SnapshotInv, Begin
  PROVE  SnapshotInv'
<1>0. PICK n : n = next_id
  BY Zenon
<1>1. /\ TMInv /\ TMBegin /\ [TMNext]_tmVars /\ UNCHANGED tableVars /\ store' = store
      /\ n \notin DOMAIN txn /\ n \notin active_txn_ids
  BY <1>0 DEF Begin, TMNext, TableInv, TMInv, TMTypeOK
<1>2. /\ DOMAIN txn' = DOMAIN txn \cup {n} /\ active_txn_ids' = active_txn_ids \cup {n}
      /\ status' = status /\ txn'[n].snapshot_ts = last_commit_ts
  BY <1>0, <1>1, Zenon DEF TMBegin, Extend
<1>3. /\ \A t \in active_txn_ids : view'[t] = view[t]
      /\ view'[n] = store
      /\ \A t \in DOMAIN txn : wrote'[t] = wrote[t]
  BY <1>0, <1>1, Zenon DEF Begin, Extend, TableInv, TypeOK
<1>4. /\ RecordsWritten' /\ BaseCovered' /\ ScanAgrees' /\ CompactExact'
      /\ next_row_id' <= MaxRow + 1
      /\ base' = base /\ delta' = delta
      /\ \A t : Claiming(t)' = Claiming(t)
      /\ \A t \in active_txn_ids :
           /\ Reads(base, delta, Seen(t)') = Without(view'[t], Claiming(t))
           /\ Claiming(t) \subseteq RowIds(view'[t])
  <2>1. DOMAIN scanning \subseteq active_txn_ids'
    BY <1>2, Zenon DEF TableInv, TypeOK
  <2>2. active_txn_ids \cap active_txn_ids' = active_txn_ids
    BY <1>2, Zenon
  <2> QED BY <1>1, <1>3, <2>1, <2>2, ManagerKeepsSnapshot, Zenon
<1>5. Past' = Past
  <2>1. \A a : Committed(a) => a \in DOMAIN txn
    BY <1>1, Zenon DEF Committed, GetStatus, TMInv, TMTypeOK
  <2>2. \A a : Committed(a)' <=> Committed(a)
    BY <1>2, Zenon DEF Committed, GetStatus
  <2> QED BY <1>2, <2>1, <2>2, Zenon DEF Past
<1>6. \A a \in DOMAIN txn : a \in Seen(n)' <=> a \in Past
  <2>1. \A a : CommittedBy(a, txn[n].snapshot_ts)' <=> CommittedBy(a, last_commit_ts)
    BY <1>2, Zenon DEF CommittedBy, Committed, GetStatus
  <2>2. \A a : CommittedBy(a, last_commit_ts) <=> Committed(a)
    BY <1>1, ZenonT(30) DEF CommittedBy, Committed, GetStatus, TMInv, TMTypeOK, Clocked
  <2> QED BY <1>1, <1>2, <2>1, <2>2, ZenonT(30) DEF Seen, SeenBy, Past
<1>7. Reads(base, delta, Seen(n)') = Reads(base, delta, Past)
  <2>1. \A p \in DOMAIN delta : Hides(delta[p], Seen(n)') <=> Hides(delta[p], Past)
    <3> SUFFICES ASSUME NEW p \in DOMAIN delta
                 PROVE  Hides(delta[p], Seen(n)') <=> Hides(delta[p], Past)
      BY Zenon
    <3>1. /\ delta[p].created_txn \in DOMAIN txn \cup {0}
          /\ delta[p].deleted_txn \in DOMAIN txn \cup {0}
      BY Zenon DEF TableInv, RecordsRefer
    <3>2. 0 \notin Seen(n)' /\ 0 \notin Past
      BY <1>0, <1>1, <1>2, Nobody, ZenonT(30) DEF Seen, Past, TMInv, TMTypeOK
    <3> QED BY <1>6, <3>1, <3>2, Zenon DEF Hides, VisibleIn
  <2>2. \A b, p : /\ HidesAlike(b.row_id, p, delta, Seen(n)', delta, Past)
                  /\ HidesAlike(b.row_id, p, delta, Past, delta, Seen(n)')
    BY <2>1, Zenon DEF HidesAlike
  <2>3. \A b : b \in Reads(base, delta, Seen(n)') <=> b \in Reads(base, delta, Past)
    BY <2>2, ReadsAlike, ZenonT(30)
  <2> QED BY <2>3, ReadsEqual, Zenon
<1>8. Claiming(n) = {}
  BY <1>1, ZenonT(30) DEF Claiming, TableInv, TypeOK
<1>9. Reads(base, delta, Seen(n)') = Without(view'[n], Claiming(n))
  <2>1. store \in SUBSET BaseRow
    BY DEF TableInv, TypeOK
  <2>2. Without(store, {}) = store
    BY <2>1, Zenon DEF Without
  <2> QED BY <1>3, <1>7, <1>8, <2>2, ZenonT(30) DEF SnapshotInv, ViewAgrees
<1>10. ViewAgrees'
  BY <1>1, <1>2, <1>4, <1>5, <1>8, <1>9, ZenonT(30) DEF SnapshotInv, ViewAgrees
<1> QED BY <1>4, <1>10, Zenon DEF SnapshotInv

\* Commit: on the rows it wrote the committed effects now are those its writer saw, since
\* nobody it did not see has written them; on the others nothing changes.
LEMMA SnapshotCommit ==
  ASSUME TableInv, SnapshotInv, NEW t \in active_txn_ids, Commit(t)
  PROVE  SnapshotInv'
<1>1. /\ TMInv /\ TMCommit(t) /\ [TMNext]_tmVars /\ UNCHANGED tableVars
      /\ wrote' = wrote /\ t \in DOMAIN txn /\ t \notin DOMAIN inserting
      /\ t \notin DOMAIN scanning
  BY Zenon DEF Commit, Idle, TMNext, TableInv, TMInv, TMTypeOK
<1>2. /\ DOMAIN txn' = DOMAIN txn /\ active_txn_ids' = active_txn_ids \ {t}
      /\ \A a : Committed(a)' <=> Committed(a) \/ a = t
  BY <1>1, Zenon DEF TMCommit, TMFinish, EraseActive, Extend, Committed, GetStatus, TMInv, TMTypeOK
<1>3. \A u \in active_txn_ids \cap active_txn_ids' : view'[u] = view[u]
  BY <1>2, Zenon DEF Commit, Restrict, TableInv, TypeOK
<1>4. /\ RecordsWritten' /\ BaseCovered' /\ ScanAgrees' /\ CompactExact'
      /\ next_row_id' <= MaxRow + 1
      /\ base' = base /\ delta' = delta
      /\ \A u : Claiming(u)' = Claiming(u)
      /\ \A u \in active_txn_ids \cap active_txn_ids' :
           /\ Reads(base, delta, Seen(u)') = Without(view'[u], Claiming(u))
           /\ Claiming(u) \subseteq RowIds(view'[u])
  <2>1. DOMAIN scanning \subseteq active_txn_ids'
    BY <1>1, <1>2, Zenon DEF TableInv, TypeOK
  <2> QED BY <1>1, <1>3, <2>1, ManagerKeepsSnapshot, Zenon
<1>5. Past' = Past \cup {t} /\ t \notin Past
  BY <1>1, <1>2, ActiveUnfinished, Zenon DEF Past
<1>6. Reads(base, delta, Seen(t)) = view[t] /\ Reads(base, delta, Past) = store
  BY <1>1, ReadsView, Zenon DEF SnapshotInv, ViewAgrees, Claiming
<1>7. Coherent(Seen(t)) /\ t \in Seen(t) /\ \A a : a \in Seen(t) <=> SeenBy(a, t)
  BY <1>1, SeenCoherent, Zenon
<1>8. ASSUME NEW p \in DOMAIN delta, delta[p].row_id \in wrote[t],
             NEW a \in {delta[p].created_txn, delta[p].deleted_txn}
      PROVE  a \in Past' <=> a \in Seen(t)
  <2>1. CASE a = 0
    BY <1>1, <1>5, <1>7, <2>1, Nobody, Zenon DEF Coherent, Past
  <2>2. CASE a = t
    BY <1>5, <1>7, <2>2, Zenon
  <2>3. CASE a # 0 /\ a # t
    <3>1. a \in DOMAIN txn /\ delta[p].row_id \in wrote[a]
      BY <1>8, <2>3, Zenon DEF SnapshotInv, RecordsWritten, TableInv, RecordsRefer
    <3>2. a \in Seen(t) => a \in Past
      BY <1>7, <2>3, <3>1, Zenon DEF SeenBy, CommittedBy, Past
    <3>3. ASSUME a \in Past, a \notin Seen(t) PROVE FALSE
      <4>1. Committed(a) /\ ~Aborted(a) /\ ~CommittedBy(a, txn[t].snapshot_ts)
        BY <1>7, <3>3, Zenon DEF Past, SeenBy, Committed, Aborted
      <4>2. ~Aborted(t) /\ ~CommittedBy(t, txn[a].snapshot_ts)
        BY <1>1, ActiveUnfinished, Zenon DEF CommittedBy
      <4> QED BY <1>1, <1>8, <2>3, <3>1, <4>1, <4>2, ZenonT(30)
              DEF TableInv, FirstClaimerWins, Overlap
    <3> QED BY <1>5, <2>3, <3>2, <3>3, Zenon
  <2> QED BY <2>1, <2>2, <2>3, Zenon
<1>9. ASSUME NEW p \in DOMAIN delta, delta[p].row_id \notin wrote[t],
             NEW a \in {delta[p].created_txn, delta[p].deleted_txn}
      PROVE  a \in Past' <=> a \in Past
  <2>1. a # t
    BY <1>1, <1>9, ActiveUnfinished, Zenon DEF SnapshotInv, RecordsWritten
  <2> QED BY <1>5, <2>1, Zenon
<1>10. ASSUME NEW b, b.row_id \in wrote[t]
       PROVE  b \in Reads(base, delta, Past') <=> b \in view[t]
  <2>1. \A p \in DOMAIN delta : delta[p].row_id = b.row_id =>
          (Hides(delta[p], Past') <=> Hides(delta[p], Seen(t)))
    BY <1>8, <1>10, Zenon DEF Hides, VisibleIn
  <2>2. \A p : /\ HidesAlike(b.row_id, p, delta, Past', delta, Seen(t))
               /\ HidesAlike(b.row_id, p, delta, Seen(t), delta, Past')
    BY <2>1, Zenon DEF HidesAlike
  <2> QED BY <1>6, <2>2, ReadsAlike
<1>11. ASSUME NEW b, b.row_id \notin wrote[t]
       PROVE  b \in Reads(base, delta, Past') <=> b \in store
  <2>1. \A p \in DOMAIN delta : delta[p].row_id = b.row_id =>
          (Hides(delta[p], Past') <=> Hides(delta[p], Past))
    BY <1>9, <1>11, Zenon DEF Hides, VisibleIn
  <2>2. \A p : /\ HidesAlike(b.row_id, p, delta, Past', delta, Past)
               /\ HidesAlike(b.row_id, p, delta, Past, delta, Past')
    BY <2>1, Zenon DEF HidesAlike
  <2> QED BY <1>6, <2>2, ReadsAlike, Zenon
<1>12. Reads(base, delta, Past') = store'
  <2>1. store' = Without(store, wrote[t]) \cup {b \in view[t] : b.row_id \in wrote[t]}
    BY Zenon DEF Commit
  <2>2. \A b : b \in Reads(base, delta, Past') <=> b \in store'
    BY <1>10, <1>11, <2>1, Zenon DEF Without
  <2> QED BY <2>1, <2>2, Zenon DEF Reads
<1>13. ViewAgrees'
  BY <1>2, <1>4, <1>12, Zenon DEF ViewAgrees
<1> QED BY <1>4, <1>13, ZenonT(30) DEF SnapshotInv

\* Abort: nobody saw the effects of the transaction but itself.
LEMMA SnapshotAbort ==
  ASSUME TableInv, SnapshotInv, NEW t \in active_txn_ids, Abort(t)
  PROVE  SnapshotInv'
<1>1. /\ TMInv /\ TMAbort(t) /\ [TMNext]_tmVars /\ UNCHANGED tableVars /\ store' = store
      /\ wrote' = wrote /\ t \in DOMAIN txn /\ t \notin DOMAIN scanning
  BY Zenon DEF Abort, Idle, TMNext, TableInv, TMInv, TMTypeOK
<1>2. /\ DOMAIN txn' = DOMAIN txn /\ active_txn_ids' = active_txn_ids \ {t}
      /\ \A a : Committed(a)' <=> Committed(a)
  <2>1. ~Committed(t)
    BY <1>1, ActiveUnfinished, ZenonT(30)
  <2> QED BY <1>1, <2>1, Zenon
          DEF TMAbort, TMFinish, EraseActive, Extend, Committed, GetStatus, TMInv, TMTypeOK
<1>3. \A u \in active_txn_ids \cap active_txn_ids' : view'[u] = view[u]
  BY <1>2, Zenon DEF Abort, Restrict, TableInv, TypeOK
<1>4. /\ RecordsWritten' /\ BaseCovered' /\ ScanAgrees' /\ CompactExact'
      /\ next_row_id' <= MaxRow + 1
      /\ base' = base /\ delta' = delta
      /\ \A u : Claiming(u)' = Claiming(u)
      /\ \A u \in active_txn_ids \cap active_txn_ids' :
           /\ Reads(base, delta, Seen(u)') = Without(view'[u], Claiming(u))
           /\ Claiming(u) \subseteq RowIds(view'[u])
  <2>1. DOMAIN scanning \subseteq active_txn_ids'
    BY <1>1, <1>2, ZenonT(30) DEF TableInv, TypeOK
  <2> QED BY <1>1, <1>3, <2>1, ManagerKeepsSnapshot, ZenonT(30)
<1>5. Past' = Past
  BY <1>2, Zenon DEF Past
<1>6. ViewAgrees'
  BY <1>1, <1>2, <1>4, <1>5, Zenon DEF SnapshotInv, ViewAgrees
<1> QED BY <1>4, <1>6, Zenon DEF SnapshotInv

-----------------------------------------------------------------------------
(* Writers *)

\* A step that leaves the manager alone changes nobody's sight.
LEMMA SightIdle ==
  ASSUME TMInv, UNCHANGED tmVars
  PROVE  Past' = Past /\ \A t : Seen(t)' = Seen(t)
<1>1. txn' = txn /\ status' = status
  BY DEF tmVars
<1> QED BY <1>1, Zenon DEF Past, Seen, SeenBy, CommittedBy, Committed, GetStatus

\* Insert draws a row id; nobody reads differently.
LEMMA SnapshotInsert ==
  ASSUME TableInv, SnapshotInv, NEW t \in active_txn_ids, Insert(t)
  PROVE  SnapshotInv'
<1>1. /\ TMInv /\ UNCHANGED tmVars /\ delta' = delta /\ base_segments' = base_segments
      /\ scanning' = scanning /\ compacting' = compacting /\ store' = store /\ view' = view
      /\ wrote' = wrote /\ t \notin DOMAIN inserting \cup DOMAIN scanning
      /\ next_row_id <= MaxRow /\ next_row_id' = next_row_id + 1
      /\ inserting' = Extend(inserting, t, [row_id |-> next_row_id, locked |-> FALSE])
  BY Zenon DEF Insert, Idle, deltaVars, baseVars, historyVars, TableInv
<1>2. base' = base /\ \A r : RecordsOf(r)' = RecordsOf(r)
  BY <1>1, Zenon DEF base, Range, RecordsOf
<1>3. active_txn_ids' = active_txn_ids /\ [TMNext]_tmVars
  BY <1>1, Zenon DEF tmVars
<1>4. Past' = Past /\ \A u : Seen(u)' = Seen(u)
  BY <1>1, SightIdle, Zenon
<1>5. \A u : Claiming(u)' = Claiming(u)
  BY <1>1, ZenonT(30) DEF Claiming, Extend
<1>6. ViewAgrees'
  BY <1>1, <1>2, <1>3, <1>4, <1>5, ZenonT(30) DEF SnapshotInv, ViewAgrees
<1>7. RecordsWritten' /\ BaseCovered'
  BY <1>1, <1>2, ZenonT(30) DEF SnapshotInv, RecordsWritten, BaseCovered
<1>8. ScanAgrees'
  <2>1. \A u \in DOMAIN scanning : u \notin DOMAIN inserting'
    BY <1>1, Zenon DEF SnapshotInv, ScanAgrees, Extend
  <2> QED BY <1>1, <1>3, <2>1, ScansUndisturbed, ZenonT(30) DEF SnapshotInv, TableInv, TypeOK
<1>9. CompactExact'
  BY <1>1, <1>3, CompactUndisturbed, Zenon DEF SnapshotInv
<1>10. next_row_id' <= MaxRow + 1
  <2>1. next_row_id \in Nat /\ MaxRow \in Nat
    BY TableAssumption, Zenon DEF TableInv, TypeOK
  <2> QED BY <1>1, <2>1
<1> QED BY <1>6, <1>7, <1>8, <1>9, <1>10, ZenonT(30) DEF SnapshotInv

\* a claim on row r by w at position q takes a visible version or a base row
Takes(r, w, q) ==
  /\ Claimed(r, w, q)
  /\ q \in DOMAIN delta => delta'[q].row = delta[q].row /\ VisibleIn(delta[q], Seen(w))
  /\ q \notin DOMAIN delta => r \in RowIds(base) /\ delta'[q].is_base_tombstone

\* Every successful claim does.
LEMMA ClaimTakes ==
  ASSUME TableInv, NEW w \in active_txn_ids, w \notin DOMAIN inserting, NEW r \in Nat,
         Claim(r, w)
  PROVE  \E q : Takes(r, w, q)
<1>1. ASSUME NEW q \in DOMAIN delta, StopsAt(q, r, w), Outcome(delta[q], w) = "claim",
             delta' = [delta EXCEPT ![q].deleted_txn = w], UNCHANGED next_pos
      PROVE  Takes(r, w, q)
  <2>1. Claimed(r, w, q)
    BY <1>1, ClaimVersion, ZenonT(30)
  <2>2. delta'[q].row = delta[q].row
    BY <1>1 DEF TableInv, TypeOK, DeltaRecord
  <2>3. IsVisible(delta[q], w)
    BY <1>1, Zenon DEF Outcome
  <2>4. VisibleIn(delta[q], Seen(w))
    BY <2>3, VisibleIsVisibleIn, Zenon DEF TableInv
  <2> QED BY <2>1, <2>2, <2>4, Zenon DEF Takes
<1>2. ASSUME NeedsTombstone(r, w),
             Push([row_id |-> r, created_txn |-> 0, deleted_txn |-> w, row |-> 0,
                   is_base_tombstone |-> TRUE])
      PROVE  Takes(r, w, next_pos)
  <2>1. Claimed(r, w, next_pos)
    BY <1>2, ClaimTombstone, Zenon
  <2>2. next_pos \notin DOMAIN delta /\ delta'[next_pos].is_base_tombstone
    BY <1>2 DEF TableInv, TypeOK, Push, Extend
  <2>3. r \in RowIds(base)
    BY <1>2, Zenon DEF NeedsTombstone, RowIdExistsInBase
  <2> QED BY <2>1, <2>2, <2>3, Zenon DEF Takes
<1> QED BY <1>1, <1>2, Zenon DEF Claim

\* A claim keeps every record but one, and of that one all but the deleter.
LEMMA TakesEffect ==
  ASSUME TableInv, NEW w \in active_txn_ids, NEW r, NEW q, Takes(r, w, q)
  PROVE  /\ DOMAIN delta' = DOMAIN delta \cup {q}
         /\ \A p \in DOMAIN delta \ {q} : delta'[p] = delta[p]
         /\ delta'[q].row_id = r /\ delta'[q].deleted_txn = w
         /\ \A p \in DOMAIN delta : /\ RowOf(delta'[p]) = RowOf(delta[p])
                                    /\ delta'[p].row_id = delta[p].row_id
                                    /\ delta'[p].created_txn = delta[p].created_txn
                                    /\ delta'[p].is_base_tombstone = delta[p].is_base_tombstone
<1>1. /\ DOMAIN delta' = DOMAIN delta \cup {q}
      /\ \A p \in DOMAIN delta \ {q} : delta'[p] = delta[p]
      /\ delta'[q].row_id = r /\ delta'[q].deleted_txn = w
  BY Zenon DEF Takes, Claimed
<1>2. ASSUME q \in DOMAIN delta
      PROVE  /\ delta'[q].row = delta[q].row /\ delta'[q].row_id = delta[q].row_id
             /\ delta'[q].created_txn = delta[q].created_txn
             /\ delta'[q].is_base_tombstone = delta[q].is_base_tombstone
  <2>1. /\ delta'[q].row = delta[q].row /\ delta'[q].row_id = delta[q].row_id
        /\ delta'[q].created_txn = delta[q].created_txn
        /\ delta'[q].is_base_tombstone <=> delta'[q].created_txn = 0
    BY <1>2, Zenon DEF Takes, Claimed
  <2>2. delta[q].is_base_tombstone <=> delta[q].created_txn = 0
    BY <1>2, ZenonT(30) DEF TableInv, RecordsRefer
  <2>3. delta[q] \in DeltaRecord /\ delta'[q] \in DeltaRecord
    BY <1>2, Zenon DEF TableInv, TypeOK, Takes, Claimed
  <2> QED BY <2>1, <2>2, <2>3, ZenonT(30) DEF DeltaRecord
<1> QED BY <1>1, <1>2, Zenon DEF RowOf

\* Who does not see the claimer reads as before.
LEMMA ClaimUnseen ==
  ASSUME TableInv, NEW w \in active_txn_ids, NEW r, NEW q, Takes(r, w, q),
         NEW seen, Coherent(seen), w \notin seen
  PROVE  Reads(base, delta', seen) = Reads(base, delta, seen)
<1>1. /\ DOMAIN delta' = DOMAIN delta \cup {q}
      /\ \A p \in DOMAIN delta \ {q} : delta'[p] = delta[p]
      /\ delta'[q].row_id = r /\ delta'[q].deleted_txn = w
      /\ \A p \in DOMAIN delta : /\ RowOf(delta'[p]) = RowOf(delta[p])
                                 /\ delta'[p].row_id = delta[p].row_id
                                 /\ delta'[p].created_txn = delta[p].created_txn
                                 /\ delta'[p].is_base_tombstone = delta[p].is_base_tombstone
  BY TakesEffect, ZenonT(30)
<1>2. \A p \in DOMAIN delta : delta'[p].deleted_txn \in seen <=> delta[p].deleted_txn \in seen
  <2>1. q \in DOMAIN delta => delta[q].deleted_txn = 0 \/ Aborted(delta[q].deleted_txn)
    BY Zenon DEF Takes, Claimed
  <2> QED BY <1>1, <2>1, Zenon DEF Coherent
<1>3. \A p \in DOMAIN delta : Hides(delta'[p], seen) <=> Hides(delta[p], seen)
  BY <1>1, <1>2, Zenon DEF Hides, VisibleIn
<1>4. q \notin DOMAIN delta => ~Hides(delta'[q], seen)
  BY <1>1, Zenon DEF Takes, Hides
<1>5. \A b, p : /\ HidesAlike(b.row_id, p, delta', seen, delta, seen)
                /\ HidesAlike(b.row_id, p, delta, seen, delta', seen)
  BY <1>1, <1>3, <1>4, Zenon DEF HidesAlike
<1>6. \A b : b \in Reads(base, delta', seen) <=> b \in Reads(base, delta, seen)
  BY <1>5, ReadsAlike, Zenon
<1> QED BY <1>6, ReadsEqual, Zenon

\* The claimer itself no longer reads the row, and did read it.
LEMMA ClaimSeen ==
  ASSUME TableInv, BaseCovered, NEW w \in active_txn_ids, NEW r, NEW q, Takes(r, w, q)
  PROVE  /\ Reads(base, delta', Seen(w)) = Without(Reads(base, delta, Seen(w)), {r})
         /\ r \in RowIds(Reads(base, delta, Seen(w)))
<1> DEFINE seen == Seen(w)
<1>1. Coherent(seen) /\ w \in seen /\ \A a : a \in seen <=> SeenBy(a, w)
  BY SeenCoherent, Zenon DEF TableInv
<1> HIDE DEF seen
<1>2. /\ DOMAIN delta' = DOMAIN delta \cup {q}
      /\ \A p \in DOMAIN delta \ {q} : delta'[p] = delta[p]
      /\ delta'[q].row_id = r /\ delta'[q].deleted_txn = w
      /\ \A p \in DOMAIN delta : /\ RowOf(delta'[p]) = RowOf(delta[p])
                                 /\ delta'[p].row_id = delta[p].row_id
                                 /\ delta'[p].created_txn = delta[p].created_txn
                                 /\ delta'[p].is_base_tombstone = delta[p].is_base_tombstone
  BY TakesEffect, ZenonT(30)
<1>3. ASSUME NEW p \in RecordsOf(r), p # q,
             delta[p].created_txn = 0 \/ delta[p].created_txn \in seen
      PROVE  delta[p].deleted_txn \in seen
  <2>1. Live(p)
    BY <1>1, <1>3, Nobody, Zenon DEF Live, Coherent, TableInv
  <2> QED BY <1>1, <1>3, <2>1, ZenonT(30) DEF Takes, Claimed
<1>4. ASSUME NEW b, b.row_id = r PROVE b \notin Reads(base, delta', seen)
  <2>1. ASSUME NEW p \in DOMAIN delta', ~delta'[p].is_base_tombstone, Hides(delta'[p], seen),
               b = RowOf(delta'[p])
        PROVE  FALSE
    <3>1. VisibleIn(delta'[p], seen)
      BY <2>1, Zenon DEF Hides
    <3>2. p # q
      BY <1>1, <1>2, <3>1, Zenon DEF VisibleIn
    <3>3. p \in RecordsOf(r) /\ delta'[p] = delta[p]
      BY <1>2, <1>4, <2>1, <3>2, Zenon DEF RecordsOf, RowOf
    <3> QED BY <1>3, <3>1, <3>2, <3>3, Zenon DEF VisibleIn
  <2>2. ASSUME b \in base PROVE \E p \in DOMAIN delta' : delta'[p].row_id = r /\ Hides(delta'[p], seen)
    <3>1. CASE delta'[q].is_base_tombstone
      BY <1>1, <1>2, <3>1, Zenon DEF Hides
    <3>2. CASE ~delta'[q].is_base_tombstone
      <4>1. q \in DOMAIN delta /\ delta[q].row_id = r /\ ~delta[q].is_base_tombstone
        BY <1>2, <3>2, Zenon DEF Takes
      <4>2. PICK p \in RecordsOf(r) : delta[p].is_base_tombstone
        BY <1>4, <2>2, <4>1, ZenonT(30) DEF BaseCovered, RowIds
      <4>3. p \in DOMAIN delta /\ delta[p].row_id = r /\ p # q
        BY <4>1, <4>2, Zenon DEF RecordsOf
      <4>4. delta[p].created_txn = 0
        BY <4>2, <4>3, Zenon DEF TableInv, RecordsRefer
      <4>5. delta[p].deleted_txn \in seen
        BY <1>3, <4>3, <4>4, Zenon
      <4> QED BY <1>2, <4>2, <4>3, <4>5, Zenon DEF Hides
    <3> QED BY <3>1, <3>2, Zenon
  <2> QED BY <1>4, <2>1, <2>2, InReads, Zenon
<1>5. ASSUME NEW b, b.row_id # r
      PROVE  b \in Reads(base, delta', seen) <=> b \in Reads(base, delta, seen)
  <2>1. \A p : /\ HidesAlike(b.row_id, p, delta', seen, delta, seen)
               /\ HidesAlike(b.row_id, p, delta, seen, delta', seen)
    BY <1>2, <1>5, Zenon DEF HidesAlike
  <2> QED BY <2>1, ReadsAlike, Zenon
<1>6. Reads(base, delta', seen) = Without(Reads(base, delta, seen), {r})
  <2>1. \A b : b \in Reads(base, delta', seen) <=> b \in Without(Reads(base, delta, seen), {r})
    BY <1>4, <1>5, Zenon DEF Without
  <2> QED BY <2>1, Zenon DEF Reads, Without
<1>7. r \in RowIds(Reads(base, delta, seen))
  <2>1. CASE q \in DOMAIN delta
    <3>1. VisibleIn(delta[q], seen) /\ delta[q].row_id = r
      BY <1>2, <2>1, Zenon DEF Takes, seen
    <3> QED BY <1>1, <2>1, <3>1, VisibleIsRead, Zenon
  <2>2. CASE q \notin DOMAIN delta
    <3>1. RecordsOf(r) = {} /\ r \in RowIds(base)
      BY <2>2, Zenon DEF Takes, Claimed
    <3>2. PICK b \in base : b.row_id = r
      BY <3>1, Zenon DEF RowIds
    <3>3. b \in Reads(base, delta, seen)
      BY <3>1, <3>2, InReads, Zenon DEF RecordsOf
    <3> QED BY <3>2, <3>3, Zenon DEF RowIds
  <2> QED BY <2>1, <2>2, Zenon
<1> QED BY <1>6, <1>7, Zenon DEF seen

\* Delete, and the first half of Update.
LEMMA SnapshotClaim ==
  ASSUME TableInv, SnapshotInv, NEW w \in active_txn_ids, NEW r \in 1..(next_row_id - 1),
         Update(w, r) \/ Delete(w, r)
  PROVE  SnapshotInv'
<1>1. /\ TMInv /\ UNCHANGED tmVars /\ base_segments' = base_segments
      /\ next_row_id' = next_row_id /\ compacting' = compacting /\ scanning' = scanning
      /\ store' = store /\ ~compacting.running /\ Claim(r, w)
      /\ w \notin DOMAIN inserting \cup DOMAIN scanning
      /\ wrote' = [wrote EXCEPT ![w] = @ \cup {r}]
  BY Zenon DEF Update, Delete, Idle, TableInv, baseVars
<1>2. \/ /\ inserting' = Extend(inserting, w, [row_id |-> r, locked |-> TRUE]) /\ view' = view
      \/ /\ inserting' = inserting /\ view' = [view EXCEPT ![w] = Without(@, {r})]
  BY Zenon DEF Update, Delete
<1>3. PICK q : Takes(r, w, q)
  <2>1. r \in Nat
    OBVIOUS
  <2> QED BY <1>1, <2>1, ClaimTakes, Zenon
<1>4. /\ DOMAIN delta' = DOMAIN delta \cup {q}
      /\ \A p \in DOMAIN delta \ {q} : delta'[p] = delta[p]
      /\ delta'[q].row_id = r /\ delta'[q].deleted_txn = w
      /\ \A p \in DOMAIN delta : /\ RowOf(delta'[p]) = RowOf(delta[p])
                                 /\ delta'[p].row_id = delta[p].row_id
                                 /\ delta'[p].created_txn = delta[p].created_txn
                                 /\ delta'[p].is_base_tombstone = delta[p].is_base_tombstone
  BY <1>3, TakesEffect, ZenonT(30)
<1>5. base' = base /\ active_txn_ids' = active_txn_ids /\ [TMNext]_tmVars /\ w \in DOMAIN txn
  BY <1>1, ActiveUnfinished, Zenon DEF base, Range, tmVars
<1>6. Past' = Past /\ \A u : Seen(u)' = Seen(u)
  BY <1>1, SightIdle, Zenon
<1>7. ASSUME NEW u \in active_txn_ids \ {w}
      PROVE  /\ Reads(base, delta', Seen(u)) = Without(view'[u], Claiming(u)')
             /\ Claiming(u)' \subseteq RowIds(view'[u])
  <2>1. w \notin Seen(u) /\ Coherent(Seen(u))
    BY <1>1, SeenCoherent, ActiveUnfinished, Zenon DEF SeenBy, CommittedBy
  <2>2. Reads(base, delta', Seen(u)) = Reads(base, delta, Seen(u))
    BY <1>3, <2>1, ClaimUnseen, Zenon
  <2>3. view'[u] = view[u] /\ Claiming(u)' = Claiming(u)
    BY <1>2, <1>7, ZenonT(30) DEF Claiming, Extend, TableInv, TypeOK
  <2> QED BY <2>2, <2>3, Zenon DEF SnapshotInv, ViewAgrees
<1>8. /\ Reads(base, delta', Seen(w)) = Without(view'[w], Claiming(w)')
      /\ Claiming(w)' \subseteq RowIds(view'[w])
  <2>1. Reads(base, delta, Seen(w)) = view[w]
    BY <1>1, ReadsView, Zenon DEF SnapshotInv, Claiming
  <2>2. Reads(base, delta', Seen(w)) = Without(view[w], {r}) /\ r \in RowIds(view[w])
    BY <1>3, <2>1, ClaimSeen, Zenon DEF SnapshotInv
  <2>3. CASE inserting' = Extend(inserting, w, [row_id |-> r, locked |-> TRUE]) /\ view' = view
    <3>1. Claiming(w)' = {r}
      BY <2>3, Zenon DEF Claiming, Extend
    <3> QED BY <2>2, <2>3, <3>1, Zenon
  <2>4. CASE inserting' = inserting /\ view' = [view EXCEPT ![w] = Without(@, {r})]
    <3>1. Claiming(w)' = {} /\ view'[w] = Without(view[w], {r})
      BY <1>1, <2>4, ZenonT(30) DEF Claiming, TableInv, TypeOK
    <3>2. Without(Without(view[w], {r}), {}) = Without(view[w], {r})
      BY Zenon DEF Without
    <3> QED BY <2>2, <3>1, <3>2, ZenonT(30)
  <2> QED BY <1>2, <2>3, <2>4, Zenon
<1>9. Reads(base, delta', Past) = store
  <2>1. w \notin Past /\ Coherent(Past)
    BY <1>1, ActiveUnfinished, PastCoherent, Zenon DEF Past
  <2> QED BY <1>3, <2>1, ClaimUnseen, Zenon DEF SnapshotInv, ViewAgrees
<1>10. ViewAgrees'
  BY <1>1, <1>5, <1>6, <1>7, <1>8, <1>9, ZenonT(30) DEF ViewAgrees
<1>11. RecordsWritten'
  <2> SUFFICES ASSUME NEW p \in DOMAIN delta',
                      NEW t \in {delta'[p].created_txn, delta'[p].deleted_txn}, t # 0
               PROVE  delta'[p].row_id \in wrote'[t]
    BY Zenon DEF RecordsWritten
  <2>1. \A u \in DOMAIN txn : wrote[u] \subseteq wrote'[u]
    BY <1>1, ZenonT(30) DEF TableInv, TypeOK
  <2>2. r \in wrote'[w]
    BY <1>1, <1>5, ZenonT(30) DEF TableInv, TypeOK
  <2>3. CASE p \in DOMAIN delta /\ t \in {delta[p].created_txn, delta[p].deleted_txn}
    <3>1. delta[p].row_id \in wrote[t]
      BY <2>3, Zenon DEF SnapshotInv, RecordsWritten
    <3>2. t \in DOMAIN txn
      BY <2>3 DEF TableInv, RecordsRefer
    <3> QED BY <1>4, <2>1, <2>3, <3>1, <3>2, ZenonT(30)
  <2>4. CASE p = q /\ t = w
    BY <1>4, <2>2, <2>4, ZenonT(30)
  <2>5. p = q /\ q \notin DOMAIN delta => t = w
    BY <1>3, <1>4, ZenonT(30) DEF Takes, Claimed
  <2> QED BY <1>4, <2>3, <2>4, <2>5, ZenonT(30)
<1>12. BaseCovered'
  <2>1. ASSUME NEW p \in DOMAIN delta'
        PROVE  delta'[p].row_id \in RowIds(base)
                 <=> \E x \in RecordsOf(delta[p].row_id)' : delta'[x].is_base_tombstone
    <3>1. CASE q \notin DOMAIN delta /\ delta'[p].row_id = r
      <4>1. r \in RowIds(base) /\ delta'[q].is_base_tombstone
        BY <1>3, <3>1, ZenonT(30) DEF Takes
      <4>2. q \in RecordsOf(r)'
        BY <1>4, Zenon DEF RecordsOf
      <4> QED BY <3>1, <4>1, <4>2, ZenonT(30)
    <3>2. CASE q \in DOMAIN delta \/ delta'[p].row_id # r
      <4>1. p \in DOMAIN delta /\ delta'[p].row_id = delta[p].row_id
        BY <1>4, <2>1, <3>2, ZenonT(30)
      <4>2. RecordsOf(delta[p].row_id)' = RecordsOf(delta[p].row_id)
        BY <1>4, <3>2, <4>1, ZenonT(30) DEF RecordsOf
      <4> QED BY <1>4, <4>1, <4>2, ZenonT(30) DEF SnapshotInv, BaseCovered, RecordsOf
    <3> QED BY <3>1, <3>2, ZenonT(30)
  <2> QED BY <1>5, <2>1, ZenonT(30) DEF SnapshotInv, BaseCovered
<1>13. ScanAgrees'
  <2>1. \A u \in DOMAIN scanning : u \notin DOMAIN inserting' /\ view'[u] = view[u]
    BY <1>1, <1>2 DEF SnapshotInv, ScanAgrees, Extend, TableInv, TypeOK
  <2> QED BY <1>1, <1>5, <2>1, ScansUndisturbed, ZenonT(30) DEF SnapshotInv, TableInv, TypeOK
<1>14. CompactExact'
  BY <1>1, <1>5, CompactUndisturbed, Zenon DEF SnapshotInv
<1> QED BY <1>1, <1>10, <1>11, <1>12, <1>13, <1>14, ZenonT(30) DEF SnapshotInv

\* The push_back that ends Insert and Update: its writer reads the new version, alone.
LEMMA SnapshotDeltaInsert ==
  ASSUME TableInv, SnapshotInv, NEW t \in DOMAIN inserting, DeltaInsert(t, next_pos)
  PROVE  SnapshotInv'
<1>1. PICK r, n : r = inserting[t].row_id /\ n = next_pos
  BY Zenon
<1> DEFINE rec == [row_id |-> r, created_txn |-> t, deleted_txn |-> 0, row |-> n,
                   is_base_tombstone |-> FALSE]
           new == [row_id |-> r, row |-> n]
<1>2. /\ TMInv /\ UNCHANGED tmVars /\ base_segments' = base_segments
      /\ next_row_id' = next_row_id /\ compacting' = compacting /\ scanning' = scanning
      /\ store' = store /\ ~compacting.running
      /\ delta' = Extend(delta, n, rec)
      /\ inserting' = Restrict(inserting, DOMAIN inserting \ {t})
      /\ view' = [view EXCEPT ![t] = Without(@, {r}) \cup {new}]
      /\ wrote' = [wrote EXCEPT ![t] = @ \cup {r}]
  BY <1>1, Zenon DEF DeltaInsert, AddVersion, Push, TableInv, baseVars
<1>3. t \in active_txn_ids /\ t \in DOMAIN txn /\ t # 0 /\ t \notin Past /\ t \notin DOMAIN scanning
  <2>1. t \in active_txn_ids
    BY Zenon DEF TableInv, TypeOK
  <2> QED BY <1>2, <2>1, ActiveUnfinished, Zenon DEF Past, SnapshotInv, ScanAgrees
<1>4. /\ n \notin DOMAIN delta /\ DOMAIN delta' = DOMAIN delta \cup {n} /\ delta'[n] = rec
      /\ \A p \in DOMAIN delta : delta'[p] = delta[p]
  <2>1. n \notin DOMAIN delta
    BY <1>1 DEF TableInv, TypeOK
  <2> HIDE DEF rec
  <2> QED BY <1>2, <2>1, Zenon DEF Extend
<1>5. /\ rec.row_id = r /\ rec.created_txn = t /\ rec.deleted_txn = 0
      /\ ~rec.is_base_tombstone /\ RowOf(rec) = new /\ new.row_id = r
  BY Zenon DEF RowOf
<1> HIDE DEF rec, new
<1>6. base' = base /\ active_txn_ids' = active_txn_ids /\ [TMNext]_tmVars
  BY <1>2, Zenon DEF base, Range, tmVars
<1>7. Past' = Past /\ \A u : Seen(u)' = Seen(u)
  BY <1>2, SightIdle, Zenon
<1>8. ASSUME NEW seen, Coherent(seen), t \notin seen
      PROVE  Reads(base, delta', seen) = Reads(base, delta, seen)
  <2>1. ~Hides(delta'[n], seen)
    BY <1>3, <1>4, <1>5, <1>8, Zenon DEF Hides, VisibleIn
  <2>2. \A b, p : /\ HidesAlike(b.row_id, p, delta', seen, delta, seen)
                  /\ HidesAlike(b.row_id, p, delta, seen, delta', seen)
    BY <1>4, <2>1, Zenon DEF HidesAlike
  <2>3. \A b : b \in Reads(base, delta', seen) <=> b \in Reads(base, delta, seen)
    BY <2>2, ReadsAlike, Zenon
  <2> QED BY <2>3, ReadsEqual, Zenon
<1>9. ASSUME NEW u \in active_txn_ids \ {t}
      PROVE  /\ Reads(base, delta', Seen(u)) = Without(view'[u], Claiming(u)')
             /\ Claiming(u)' \subseteq RowIds(view'[u])
  <2>1. t \notin Seen(u) /\ Coherent(Seen(u))
    BY <1>2, <1>3, SeenCoherent, ActiveUnfinished, ZenonT(30) DEF SeenBy, CommittedBy
  <2>2. view'[u] = view[u] /\ Claiming(u)' = Claiming(u)
    BY <1>2, <1>9, ZenonT(30) DEF Claiming, Restrict, TableInv, TypeOK
  <2> QED BY <1>8, <2>1, <2>2, Zenon DEF SnapshotInv, ViewAgrees
<1>10. Reads(base, delta, Seen(t)) = Without(view[t], {r})
  <2>1. CASE inserting[t].locked
    BY <1>1, <1>3, <2>1, Zenon DEF SnapshotInv, ViewAgrees, Claiming
  <2>2. CASE ~inserting[t].locked
    <3>1. Claiming(t) = {}
      BY <2>2, Zenon DEF Claiming
    <3>2. Reads(base, delta, Seen(t)) = view[t]
      BY <1>3, <3>1, ReadsView, Zenon DEF SnapshotInv
    <3>3. RecordsOf(r) = {} /\ r \notin RowIds(base)
      BY <1>1, <2>2, ZenonT(30) DEF TableInv, InsertFresh
    <3>4. \A b \in Reads(base, delta, Seen(t)) : b.row_id # r
      <4>1. \A p \in DOMAIN delta : RowOf(delta[p]).row_id # r
        BY <3>3, Zenon DEF RecordsOf, RowOf
      <4>2. \A b \in base : b.row_id # r
        BY <3>3, Zenon DEF RowIds
      <4> QED BY <4>1, <4>2, InReads, Zenon
    <3>5. view[t] \in SUBSET BaseRow
      BY <1>3, Zenon DEF TableInv, TypeOK
    <3> QED BY <3>2, <3>4, <3>5, Zenon DEF Without
  <2> QED BY <2>1, <2>2, Zenon
<1>11. Reads(base, delta', Seen(t)) = Without(view[t], {r}) \cup {new}
  <2> DEFINE seen == Seen(t)
  <2>1. t \in seen /\ 0 \notin seen
    BY <1>2, <1>3, SeenCoherent, Zenon DEF Coherent
  <2>2. \A b \in Reads(base, delta, seen) : b.row_id # r
    BY <1>10, Zenon DEF Without
  <2> HIDE DEF seen
  <2>3. Hides(rec, seen)
    BY <1>5, <2>1, Zenon DEF Hides, VisibleIn
  <2>4. ASSUME NEW b, b.row_id # r
        PROVE  b \in Reads(base, delta', seen) <=> b \in Reads(base, delta, seen)
    <3>1. \A p : /\ HidesAlike(b.row_id, p, delta', seen, delta, seen)
                 /\ HidesAlike(b.row_id, p, delta, seen, delta', seen)
      BY <1>4, <1>5, <2>4, Zenon DEF HidesAlike
    <3> QED BY <3>1, ReadsAlike, Zenon
  <2>5. ASSUME NEW b, b.row_id = r PROVE b \in Reads(base, delta', seen) <=> b = new
    <3>1. ASSUME NEW p \in DOMAIN delta, ~delta[p].is_base_tombstone, Hides(delta[p], seen),
                 b = RowOf(delta[p])
          PROVE  FALSE
      BY <2>2, <2>5, <3>1, InReads, ZenonT(30)
    <3>2. (\E p \in DOMAIN delta' : /\ ~delta'[p].is_base_tombstone /\ Hides(delta'[p], seen)
                                    /\ b = RowOf(delta'[p]))
          <=> b = new
      BY <1>4, <1>5, <2>3, <3>1, Zenon
    <3>3. ~\A p \in DOMAIN delta' : delta'[p].row_id = b.row_id => ~Hides(delta'[p], seen)
      BY <1>4, <1>5, <2>3, <2>5, ZenonT(30)
    <3> QED BY <3>2, <3>3, InReads, Zenon
  <2>6. \A b : b \in Reads(base, delta', seen) <=> b \in Reads(base, delta, seen) \cup {new}
    BY <1>5, <2>2, <2>4, <2>5, ZenonT(30)
  <2>7. Reads(base, delta', seen) = Reads(base, delta, seen) \cup {new}
    BY <2>6, Zenon DEF Reads
  <2> QED BY <1>10, <2>7, Zenon DEF seen
<1>12. /\ Reads(base, delta', Seen(t)) = Without(view'[t], Claiming(t)')
       /\ Claiming(t)' \subseteq RowIds(view'[t])
  <2>1. Claiming(t)' = {}
    BY <1>2, ZenonT(30) DEF Claiming, Restrict
  <2>2. view'[t] = Without(view[t], {r}) \cup {new}
    BY <1>2, <1>3, ZenonT(30) DEF TableInv, TypeOK
  <2>3. Without(view'[t], {}) = view'[t]
    BY <2>2, Zenon DEF Without
  <2> QED BY <1>11, <2>1, <2>2, <2>3, ZenonT(30)
<1>13. ViewAgrees'
  <2>1. Reads(base, delta', Past) = store
    BY <1>2, <1>3, <1>8, PastCoherent, ZenonT(30) DEF SnapshotInv, ViewAgrees
  <2> QED BY <1>2, <1>6, <1>7, <1>9, <1>12, <2>1, ZenonT(30) DEF ViewAgrees
<1>14. RecordsWritten'
  <2>1. \A u \in DOMAIN txn : wrote[u] \subseteq wrote'[u]
    BY <1>2, ZenonT(30) DEF TableInv, TypeOK
  <2>2. r \in wrote'[t]
    BY <1>2, <1>3, ZenonT(30) DEF TableInv, TypeOK
  <2>3. ASSUME NEW p \in DOMAIN delta, NEW u \in {delta[p].created_txn, delta[p].deleted_txn}, u # 0
        PROVE  delta'[p].row_id \in wrote'[u]
    <3>1. delta[p].row_id \in wrote[u]
      BY <2>3, Zenon DEF SnapshotInv, RecordsWritten
    <3>2. u \in DOMAIN txn
      BY <2>3 DEF TableInv, RecordsRefer
    <3> QED BY <1>4, <2>1, <3>1, <3>2, ZenonT(30)
  <2> QED BY <1>4, <1>5, <2>2, <2>3, ZenonT(30) DEF RecordsWritten
<1>15. BaseCovered'
  <2>1. \A x : RecordsOf(x)' = RecordsOf(x) \cup (IF x = r THEN {n} ELSE {})
    BY <1>4, <1>5, ZenonT(30) DEF RecordsOf
  <2>2. r \in RowIds(base) <=> \E x \in RecordsOf(r) : delta[x].is_base_tombstone
    <3>1. CASE ~inserting[t].locked
      BY <1>1, <3>1, ZenonT(30) DEF TableInv, InsertFresh
    <3>2. CASE inserting[t].locked
      <4>1. r \in wrote[t]
        BY <1>1, <3>2, Zenon DEF TableInv, UpdateOwns
      <4>2. ~Aborted(t) /\ ~Settled(t)
        BY <1>2, <1>3, ActiveUnfinished, Zenon DEF Settled, CommittedBy
      <4>3. PICK p \in RecordsOf(r) : TRUE
        BY <1>3, <4>1, <4>2, Zenon DEF TableInv, WritesLeaveTrace
      <4> QED BY <4>3 DEF SnapshotInv, BaseCovered, RecordsOf
    <3> QED BY <3>1, <3>2, Zenon
  <2>3. \A x : (\E y \in RecordsOf(x)' : delta'[y].is_base_tombstone)
                 <=> (\E y \in RecordsOf(x) : delta[y].is_base_tombstone)
    BY <1>4, <1>5, <2>1, ZenonT(30) DEF RecordsOf
  <2> QED BY <1>4, <1>5, <1>6, <2>2, <2>3, ZenonT(30) DEF SnapshotInv, BaseCovered
<1>16. ScanAgrees'
  <2>1. \A u \in DOMAIN scanning : u \notin DOMAIN inserting' /\ view'[u] = view[u]
    BY <1>2, <1>3, ZenonT(30) DEF SnapshotInv, ScanAgrees, Restrict, TableInv, TypeOK
  <2> QED BY <1>2, <1>6, <2>1, ScansUndisturbed, ZenonT(30) DEF SnapshotInv, TableInv, TypeOK
<1>17. CompactExact'
  BY <1>2, <1>6, CompactUndisturbed, Zenon DEF SnapshotInv
<1> QED BY <1>2, <1>13, <1>14, <1>15, <1>16, <1>17, Zenon DEF SnapshotInv

-----------------------------------------------------------------------------
(* Scans *)

\* A finished loop has computed what is to be read.
LEMMA ScansResult ==
  ASSUME NEW sc, NEW seen, NEW rows, Scans(sc, seen, rows), sc.todo = {}
  PROVE  ScanResult(sc) = rows
<1>1. DOMAIN sc.delta_records \ sc.todo = DOMAIN sc.delta_records
  BY Zenon
<1> QED BY <1>1, Zenon DEF Scans, ScanResult, Reads

\* One record of the loop.
LEMMA ScansStep ==
  ASSUME TMInv, NEW t \in active_txn_ids, NEW sc, NEW rows, Scans(sc, Seen(t), rows),
         sc.todo # {}
  PROVE  LET p == Min(sc.todo) IN
         Scans([ScanStep(sc, sc.delta_records[p], t) EXCEPT !.todo = @ \ {p}], Seen(t), rows)
<1> DEFINE p == Min(sc.todo)
           recs == sc.delta_records
           rec == recs[p]
           done == DOMAIN recs \ sc.todo
           seen == Seen(t)
           sc2 == ScanStep(sc, rec, t)
           sc3 == [sc2 EXCEPT !.todo = @ \ {p}]
           row == IF ~rec.is_base_tombstone /\ VisibleIn(rec, seen) THEN {RowOf(rec)} ELSE {}
           hidden == IF Hides(rec, seen) THEN {rec.row_id} ELSE {}
<1>1. /\ DOMAIN sc = {"segments", "delta_records", "todo", "from_delta", "suppress_base"}
      /\ DOMAIN recs \subseteq Nat /\ sc.todo \subseteq DOMAIN recs
      /\ Reads(sc.segments, recs, seen) = rows
      /\ \A x, y \in DOMAIN recs :
           recs[x].row_id = recs[y].row_id
             /\ VisibleIn(recs[x], seen) /\ VisibleIn(recs[y], seen) => x = y
      /\ sc.from_delta = FromDelta(recs, done, seen)
      /\ sc.suppress_base = Suppressed(recs, done, seen)
  BY Zenon DEF Scans
<1>2. p \in sc.todo
  BY <1>1, MinIsLeast, Zenon
<1>3. /\ IsVisible(rec, t) <=> VisibleIn(rec, seen)
      /\ \A a : SeenBy(a, t) <=> a \in seen
  BY VisibleIsVisibleIn, SeenCoherent, Zenon
<1> HIDE DEF p, seen
<1>4. /\ DOMAIN sc2 = DOMAIN sc /\ sc2.segments = sc.segments
      /\ sc2.delta_records = recs /\ sc2.todo = sc.todo
      /\ sc2.suppress_base = sc.suppress_base \cup hidden
      /\ sc2.from_delta = IF ~rec.is_base_tombstone /\ VisibleIn(rec, seen)
                          THEN Without(sc.from_delta, {rec.row_id}) \cup {RowOf(rec)}
                          ELSE sc.from_delta
  BY <1>1, <1>3, Zenon DEF ScanStep, Hides, RowOf
<1>5. Without(sc.from_delta, {rec.row_id}) = sc.from_delta \/ ~VisibleIn(rec, seen)
  <2> SUFFICES ASSUME VisibleIn(rec, seen), NEW b \in sc.from_delta PROVE b.row_id # rec.row_id
    BY <1>1, Zenon DEF Without, FromDelta
  <2>1. PICK q \in done : VisibleIn(recs[q], seen) /\ b = RowOf(recs[q])
    BY <1>1, Zenon DEF FromDelta
  <2>2. recs[q].row_id # rec.row_id
    BY <1>1, <1>2, <2>1, Zenon
  <2> QED BY <2>1, <2>2, Zenon DEF RowOf
<1>6. sc2.from_delta = sc.from_delta \cup row
  BY <1>4, <1>5, Zenon
<1> HIDE DEF sc2
<1>7. /\ DOMAIN sc3 = DOMAIN sc /\ sc3.segments = sc.segments
      /\ sc3.delta_records = recs /\ sc3.todo = sc.todo \ {p}
      /\ sc3.suppress_base = sc.suppress_base \cup hidden
      /\ sc3.from_delta = sc.from_delta \cup row
  BY <1>1, <1>4, <1>6, Zenon
<1>8. DOMAIN recs \ (sc.todo \ {p}) = done \cup {p}
  BY <1>1, <1>2
<1>9. FromDelta(recs, done \cup {p}, seen) = FromDelta(recs, done, seen) \cup row
  BY DEF FromDelta
<1>10. Suppressed(recs, done \cup {p}, seen) = Suppressed(recs, done, seen) \cup hidden
  BY DEF Suppressed
<1>11. sc3.todo \subseteq DOMAIN recs
  BY <1>1, <1>7, Zenon
<1> HIDE DEF sc3, row, hidden
<1>12. Scans(sc3, seen, rows)
  BY <1>1, <1>7, <1>8, <1>9, <1>10, <1>11, ZenonT(30) DEF Scans
<1> QED BY <1>12, Zenon DEF sc3, sc2, p, seen

\* What a scan's steps leave alone.
LEMMA ScanKeepsRest ==
  ASSUME TableInv, SnapshotInv,
         UNCHANGED <<tmVars, deltaVars, baseVars, next_row_id, inserting, compacting, metrics,
                     historyVars>>,
         ScanAgrees'
  PROVE  SnapshotInv'
<1>1. /\ delta' = delta /\ base_segments' = base_segments /\ inserting' = inserting
      /\ compacting' = compacting /\ next_row_id' = next_row_id
      /\ store' = store /\ view' = view /\ wrote' = wrote /\ UNCHANGED tmVars /\ TMInv
  BY Zenon DEF deltaVars, baseVars, historyVars, TableInv
<1>2. base' = base /\ active_txn_ids' = active_txn_ids /\ [TMNext]_tmVars
      /\ \A r : RecordsOf(r)' = RecordsOf(r)
  BY <1>1, Zenon DEF base, Range, RecordsOf, tmVars
<1>3. Past' = Past /\ \A u : Seen(u)' = Seen(u)
  BY <1>1, SightIdle, Zenon
<1>4. \A u : Claiming(u)' = Claiming(u)
  BY <1>1, Zenon DEF Claiming
<1>5. ViewAgrees'
  BY <1>1, <1>2, <1>3, <1>4, Zenon DEF SnapshotInv, ViewAgrees
<1>6. RecordsWritten' /\ BaseCovered'
  BY <1>1, <1>2, Zenon DEF SnapshotInv, RecordsWritten, BaseCovered
<1>7. CompactExact'
  BY <1>1, <1>2, CompactUndisturbed, Zenon DEF SnapshotInv
<1> QED BY <1>1, <1>5, <1>6, <1>7, Zenon DEF SnapshotInv

\* SnapshotForScan copies a base and a delta that read as the view.
LEMMA SnapshotScanBegin ==
  ASSUME TableInv, SnapshotInv, NEW t \in active_txn_ids, SnapshotForScan(t)
  PROVE  SnapshotInv'
<1> DEFINE sc == [segments |-> base, delta_records |-> delta, todo |-> DOMAIN delta,
                  from_delta |-> {}, suppress_base |-> {}]
<1>1. /\ UNCHANGED <<tmVars, deltaVars, baseVars, next_row_id, inserting, compacting, metrics,
                     historyVars>>
      /\ TMInv /\ inserting' = inserting /\ view' = view
      /\ t \notin DOMAIN inserting \cup DOMAIN scanning
      /\ scanning' = Extend(scanning, t, sc)
  BY Zenon DEF SnapshotForScan, Idle, historyVars, TableInv
<1>2. Scans(sc, Seen(t), view[t])
  <2>1. Reads(base, delta, Seen(t)) = view[t]
    BY <1>1, ReadsView, Zenon DEF SnapshotInv, Claiming
  <2>2. \A p, q \in DOMAIN delta :
          delta[p].row_id = delta[q].row_id
            /\ VisibleIn(delta[p], Seen(t)) /\ VisibleIn(delta[q], Seen(t)) => p = q
    BY <1>1, SeenCoherent, OneVisible, Zenon
  <2>3. FromDelta(delta, {}, Seen(t)) = {} /\ Suppressed(delta, {}, Seen(t)) = {}
    BY Zenon DEF FromDelta, Suppressed
  <2>4. DOMAIN delta \subseteq Nat
    BY DEF TableInv, TypeOK
  <2>5. /\ DOMAIN sc = {"segments", "delta_records", "todo", "from_delta", "suppress_base"}
        /\ sc.segments = base /\ sc.delta_records = delta /\ sc.todo = DOMAIN delta
        /\ sc.from_delta = {} /\ sc.suppress_base = {}
    OBVIOUS
  <2>6. DOMAIN delta \ DOMAIN delta = {}
    BY Zenon
  <2> HIDE DEF sc
  <2> QED BY <2>1, <2>2, <2>3, <2>4, <2>5, <2>6, ZenonT(30) DEF Scans
<1> HIDE DEF sc
<1>3. \A u : Seen(u)' = Seen(u)
  BY <1>1, SightIdle, Zenon
<1>4. ScanAgrees'
  BY <1>1, <1>2, <1>3, Zenon DEF SnapshotInv, ScanAgrees, Extend
<1> QED BY <1>1, <1>4, ScanKeepsRest, Zenon

\* The steps of the loop and its end.
LEMMA SnapshotScan ==
  ASSUME TableInv, SnapshotInv, NEW t \in DOMAIN scanning, ScanRecord(t) \/ ScanEnd(t)
  PROVE  SnapshotInv'
<1>1. /\ UNCHANGED <<tmVars, deltaVars, baseVars, next_row_id, inserting, compacting, metrics,
                     historyVars>>
      /\ TMInv /\ inserting' = inserting /\ view' = view /\ t \in active_txn_ids
  BY Zenon DEF ScanRecord, ScanEnd, historyVars, TableInv, TypeOK
<1>2. \A u : Seen(u)' = Seen(u)
  BY <1>1, SightIdle, Zenon
<1>3. \A u \in DOMAIN scanning :
        u \notin DOMAIN inserting /\ Scans(scanning[u], Seen(u), view[u])
  BY Zenon DEF SnapshotInv, ScanAgrees
<1>4. CASE ScanRecord(t)
  <2> DEFINE sc == scanning[t]
             p == Min(sc.todo)
             sc2 == [ScanStep(sc, sc.delta_records[p], t) EXCEPT !.todo = @ \ {p}]
  <2>1. scanning' = [scanning EXCEPT ![t] = sc2] /\ sc.todo # {}
    BY <1>4, Zenon DEF ScanRecord
  <2>2. Scans(sc2, Seen(t), view[t])
    BY <1>1, <1>3, <2>1, ScansStep, ZenonT(30)
  <2> HIDE DEF sc2
  <2>3. ScanAgrees'
    BY <1>1, <1>2, <1>3, <2>1, <2>2, ZenonT(30) DEF ScanAgrees
  <2> QED BY <1>1, <2>3, ScanKeepsRest, ZenonT(30)
<1>5. CASE ScanEnd(t)
  <2>1. ScanAgrees'
    BY <1>1, <1>2, <1>3, <1>5, ZenonT(30) DEF ScanEnd, ScanAgrees, Restrict
  <2> QED BY <1>1, <2>1, ScanKeepsRest
<1> QED BY <1>4, <1>5, Zenon

-----------------------------------------------------------------------------
(* Compact *)

\* What the steps of Compact before its last leave alone.
LEMMA CompactKeepsRest ==
  ASSUME TableInv, SnapshotInv,
         UNCHANGED <<tmVars, deltaVars, baseVars, next_row_id, inserting, scanning, metrics,
                     historyVars>>,
         CompactExact'
  PROVE  SnapshotInv'
<1>1. /\ delta' = delta /\ base_segments' = base_segments /\ inserting' = inserting
      /\ scanning' = scanning /\ next_row_id' = next_row_id
      /\ store' = store /\ view' = view /\ wrote' = wrote /\ UNCHANGED tmVars /\ TMInv
  BY Zenon DEF deltaVars, baseVars, historyVars, TableInv
<1>2. base' = base /\ active_txn_ids' = active_txn_ids /\ [TMNext]_tmVars
      /\ \A r : RecordsOf(r)' = RecordsOf(r)
  BY <1>1, Zenon DEF base, Range, RecordsOf, tmVars
<1>3. Past' = Past /\ \A u : Seen(u)' = Seen(u)
  BY <1>1, SightIdle, ZenonT(30)
<1>4. \A u : Claiming(u)' = Claiming(u)
  BY <1>1, ZenonT(30) DEF Claiming
<1>5. ViewAgrees'
  BY <1>1, <1>2, <1>3, <1>4, ZenonT(30) DEF SnapshotInv, ViewAgrees
<1>6. RecordsWritten' /\ BaseCovered'
  BY <1>1, <1>2, ZenonT(30) DEF SnapshotInv, RecordsWritten, BaseCovered
<1>7. ScanAgrees'
  BY <1>1, <1>3, Zenon DEF SnapshotInv, ScanAgrees
<1> QED BY <1>1, <1>5, <1>6, <1>7, ZenonT(30) DEF SnapshotInv

\* Compact begins with nothing collected.
LEMMA SnapshotCompactBegin ==
  ASSUME TableInv, SnapshotInv, CompactBegin
  PROVE  SnapshotInv'
<1>1. UNCHANGED <<tmVars, deltaVars, baseVars, next_row_id, inserting, scanning, metrics,
                  historyVars>>
  BY Zenon DEF CompactBegin
<1>2. compacting' = [running |-> TRUE, oldest_active |-> OldestActiveSnapshot,
                     todo |-> DOMAIN delta, live_stable_rows |-> {},
                     stably_deleted_row_ids |-> {}, retained |-> {}]
      /\ delta' = delta
  BY <1>1, ZenonT(30) DEF CompactBegin, NotCompacting, deltaVars
<1>3. /\ compacting'.todo = DOMAIN delta' /\ compacting'.live_stable_rows = {}
      /\ compacting'.stably_deleted_row_ids = {} /\ compacting'.retained = {}
  BY <1>2, Zenon
<1>4. DOMAIN delta' \ compacting'.todo = {}
  BY <1>3, Zenon
<1>5. CompactExact'
  BY <1>3, <1>4, Zenon DEF CompactExact
<1> QED BY <1>1, <1>5, CompactKeepsRest, Zenon

\* Where the head of a row is promoted, every older record of the row is retired.
LEMMA PromotionClears ==
  ASSUME TableInv, compacting.running, NEW p \in DOMAIN delta,
         NEW q \in RecordsOf(delta[p].row_id), Promotes(q)
  PROVE  Retires(p)
<1>1. /\ q \in DOMAIN delta /\ delta[q].row_id = delta[p].row_id
      /\ p \in RecordsOf(delta[q].row_id) /\ p \in Nat /\ q \in Nat
  BY DEF RecordsOf, TableInv, TypeOK
<1>2. p <= q /\ Stable(delta[q].created_txn) /\ ~delta[q].is_base_tombstone
      /\ delta[q].deleted_txn = 0
  BY <1>1, Zenon DEF Promotes, IsHead
<1>3. CASE p = q
  BY <1>3, Zenon DEF Promotes, Retires
<1>4. CASE p # q /\ ~Live(p)
  <2>1. ~delta[p].is_base_tombstone
    BY <1>4, Nobody, Zenon DEF Live, TableInv, RecordsRefer
  <2> QED BY <1>4, <2>1, Zenon DEF Live, Retires
<1>5. CASE p # q /\ Live(p)
  <2>1. ~IsHead(p)
    <3>1. q \in RecordsOf(delta[p].row_id) /\ ~(q <= p)
      BY <1>1, <1>2, <1>5
    <3> QED BY <3>1, Zenon DEF IsHead
  <2>2. TMInv /\ delta[q].created_txn \in DOMAIN txn
    BY <1>1, <1>2, ZenonT(30) DEF TableInv, RecordsRefer
  <2>3. Live(q)
    BY <1>2, ZenonT(30) DEF Live, Stable, CommittedBy, Committed, Aborted
  <2>4. delta[p].deleted_txn # 0 /\ SeenBy(delta[p].deleted_txn, delta[q].created_txn)
    <3>1. p < q
      BY <1>1, <1>2, <1>5
    <3>2. VersionChain
      BY Zenon DEF TableInv
    <3> QED BY <1>1, <1>5, <2>3, <3>1, <3>2, ZenonT(30) DEF VersionChain
  <2>5. Stable(delta[p].deleted_txn)
    <3> DEFINE d == delta[p].deleted_txn
               c == delta[q].created_txn
    <3>1. CASE d = c
      BY <1>2, <3>1, ZenonT(30)
    <3>2. CASE CommittedBy(d, txn[c].snapshot_ts)
      <4>1. c \in DOMAIN status /\ status[c].state = "kCommitted"
            /\ status[c].commit_ts <= compacting.oldest_active
        BY <1>2, <2>2, ZenonT(30) DEF Stable, CommittedBy, Committed, GetStatus
      <4>2. txn[c].snapshot_ts < c /\ c < status[c].commit_ts
        BY <2>2, <4>1, ZenonT(30) DEF TMInv, Clocked
      <4>3. compacting.oldest_active \in Nat /\ TMTypeOK
        BY Zenon DEF TableInv, TypeOK
      <4>4. txn[c].snapshot_ts \in Nat /\ c \in Nat /\ status[c].commit_ts \in Nat
        BY <2>2, <4>1, <4>3 DEF TMTypeOK, Transaction, TxnStatus
      <4>5. GetStatus(d).commit_ts \in Nat
        BY <4>3, Zenon DEF GetStatus, TMTypeOK, TxnStatus
      <4>6. txn[c].snapshot_ts <= compacting.oldest_active
        BY <4>1, <4>2, <4>3, <4>4
      <4>7. GetStatus(d).commit_ts <= txn[c].snapshot_ts /\ Committed(d)
        BY <3>2, Zenon DEF CommittedBy
      <4>8. GetStatus(d).commit_ts <= compacting.oldest_active
        BY <4>3, <4>4, <4>5, <4>6, <4>7
      <4> QED BY <4>7, <4>8, ZenonT(30) DEF Stable, CommittedBy
    <3> QED BY <2>4, <3>1, <3>2, ZenonT(30) DEF SeenBy
  <2> QED BY <2>1, <2>4, <2>5, Zenon DEF Retires, Superseded
<1> QED BY <1>3, <1>4, <1>5, ZenonT(30)

\* Compact classifies one record.
LEMMA SnapshotCompactRecord ==
  ASSUME TableInv, SnapshotInv, CompactRecord
  PROVE  SnapshotInv'
<1>1. PICK p : p = Min(compacting.todo)
  BY Zenon
<1> DEFINE promoted == IF Promotes(p)
                       THEN {[row_id |-> delta[p].row_id, row |-> delta[p].row]} ELSE {}
           purged == IF Purges(p) THEN {delta[p].row_id} ELSE {}
           kept == IF Retires(p) THEN {} ELSE {p}
           done == DOMAIN delta \ compacting.todo
<1>2. UNCHANGED <<tmVars, deltaVars, baseVars, next_row_id, inserting, scanning, metrics,
                  historyVars>>
  BY Zenon DEF CompactRecord
<1> SUFFICES ASSUME compacting'.running PROVE CompactExact'
  BY <1>2, CompactKeepsRest, ZenonT(30) DEF CompactExact
<1>3. compacting \in [running : BOOLEAN, oldest_active : Nat, todo : SUBSET DOMAIN delta,
                 live_stable_rows : SUBSET BaseRow, stably_deleted_row_ids : SUBSET Nat,
                 retained : SUBSET DOMAIN delta]
  BY Zenon DEF TableInv, TypeOK
<1>4. p \in compacting.todo /\ p \in DOMAIN delta
  <2>1. compacting.todo \in SUBSET Nat /\ compacting.todo # {} /\ compacting.todo \subseteq DOMAIN delta
    BY <1>3 DEF CompactRecord, TableInv, TypeOK
  <2>2. p \in compacting.todo
    BY <1>1, <2>1, MinIsLeast, Zenon
  <2> QED BY <2>1, <2>2, ZenonT(30)
<1>5. compacting' = [compacting EXCEPT !.todo = @ \ {p},
                       !.live_stable_rows = @ \cup promoted,
                       !.stably_deleted_row_ids = @ \cup purged,
                       !.retained = @ \cup kept]
  BY <1>1, Zenon DEF CompactRecord
<1> HIDE DEF promoted, purged, kept
<1>6. /\ compacting'.running = compacting.running
      /\ compacting'.oldest_active = compacting.oldest_active
      /\ compacting'.todo = compacting.todo \ {p}
      /\ compacting'.live_stable_rows = compacting.live_stable_rows \cup promoted
      /\ compacting'.stably_deleted_row_ids = compacting.stably_deleted_row_ids \cup purged
      /\ compacting'.retained = compacting.retained \cup kept
  BY <1>3, <1>5, ZenonT(30)
<1>7. delta' = delta /\ [TMNext]_tmVars /\ compacting.running
  BY <1>2, <1>6, Zenon DEF deltaVars
<1>8. /\ \A x : Promotes(x)' <=> Promotes(x)
      /\ \A x : Purges(x)' <=> Purges(x)
      /\ \A r : RecordsOf(r)' = RecordsOf(r)
  BY <1>6, <1>7, ClassFixed, Zenon
<1>9. DOMAIN delta \ (compacting.todo \ {p}) = done \cup {p}
  BY <1>4, Zenon
<1>10. {RowOf(delta[x]) : x \in {x \in done \cup {p} : Promotes(x)}}
       = compacting.live_stable_rows \cup promoted
  <2>1. compacting.live_stable_rows = {RowOf(delta[x]) : x \in {x \in done : Promotes(x)}}
    BY <1>7, Zenon DEF SnapshotInv, CompactExact
  <2>2. promoted = IF Promotes(p) THEN {RowOf(delta[p])} ELSE {}
    BY Zenon DEF promoted, RowOf
  <2> QED BY <2>1, <2>2, Zenon
<1>11. {delta[x].row_id : x \in {x \in done \cup {p} : Purges(x)}}
       = compacting.stably_deleted_row_ids \cup purged
  <2>1. compacting.stably_deleted_row_ids = {delta[x].row_id : x \in {x \in done : Purges(x)}}
    BY <1>7, Zenon DEF SnapshotInv, CompactExact
  <2> QED BY <2>1, Zenon DEF purged
<1>12. ASSUME NEW x \in kept
       PROVE  ~Purges(x) /\ \A q \in RecordsOf(delta[x].row_id) : ~Promotes(q)
  <2>1. x = p /\ ~Retires(p)
    BY Zenon DEF kept
  <2>2. ~Purges(p)
    BY <2>1, Zenon DEF Purges, Retires
  <2> QED BY <1>4, <1>7, <2>1, <2>2, PromotionClears, Zenon
<1>13. \A x \in compacting.retained :
         ~Purges(x) /\ \A q \in RecordsOf(delta[x].row_id) : ~Promotes(q)
  BY <1>7, Zenon DEF SnapshotInv, CompactExact
<1>14. \A x \in compacting'.retained :
         ~Purges(x)' /\ \A q \in RecordsOf(delta[x].row_id)' : ~Promotes(q)'
  BY <1>6, <1>7, <1>8, <1>12, <1>13, ZenonT(30)
<1>15. DOMAIN delta' \ compacting'.todo = done \cup {p}
  BY <1>6, <1>7, <1>9, Zenon
<1> HIDE DEF done
<1>16. compacting'.live_stable_rows
         = {RowOf(delta'[x]) : x \in {x \in done \cup {p} : Promotes(x)'}}
  BY <1>6, <1>7, <1>8, <1>10, Zenon
<1>17. compacting'.stably_deleted_row_ids
         = {delta'[x].row_id : x \in {x \in done \cup {p} : Purges(x)'}}
  BY <1>6, <1>7, <1>8, <1>11, ZenonT(30)
<1> QED BY <1>7, <1>14, <1>15, <1>16, <1>17, ZenonT(30) DEF CompactExact

\* Whoever reads at or above the watermark sees what is stable there.
LEMMA StableSeen ==
  ASSUME TableInv, compacting.running, NEW a, Stable(a)
  PROVE  a \in Past /\ \A t \in active_txn_ids : a \in Seen(t)
<1>1. /\ compacting.oldest_active \in 0..last_commit_ts /\ last_commit_ts \in Nat
      /\ \A u \in active_txn_ids : /\ compacting.oldest_active <= txn[u].snapshot_ts
                                   /\ txn[u].snapshot_ts \in Nat
  BY Zenon DEF TableInv, CompactSound, TypeOK, TMTypeOK, Transaction
<1>2. a \in DOMAIN txn /\ Committed(a) /\ GetStatus(a).commit_ts \in Nat
      /\ GetStatus(a).commit_ts <= compacting.oldest_active
  BY DEF Stable, CommittedBy, Committed, GetStatus, TableInv, TypeOK, TMTypeOK, TxnStatus
<1> QED BY <1>1, <1>2 DEF Past, Seen, SeenBy, CommittedBy

\* What the last step of a Compact makes of base and delta.
LEMMA CompactEndEffect ==
  ASSUME TableInv, SnapshotInv, CompactEnd
  PROVE  /\ DOMAIN delta' = compacting.retained /\ compacting.retained \subseteq DOMAIN delta
         /\ \A p \in DOMAIN delta' : delta'[p] = delta[p]
         /\ \A p \in DOMAIN delta \ compacting.retained : Retires(p)
         /\ \A r : RecordsOf(r)' = RecordsOf(r) \cap compacting.retained
         /\ \A b : b \in base' <=>
              \/ b \in base /\ ~\E p \in RecordsOf(b.row_id) : Purges(p)
              \/ \E p \in DOMAIN delta : Promotes(p) /\ b = RowOf(delta[p])
<1>1. compacting.running /\ compacting.todo = {} /\ compacting.retained \subseteq DOMAIN delta
  BY ZenonT(30) DEF CompactEnd, TableInv, TypeOK
<1>2. DOMAIN delta' = compacting.retained /\ \A p \in DOMAIN delta' : delta'[p] = delta[p]
  BY <1>1, ZenonT(30) DEF CompactEnd, Restrict
<1>3. \A p \in DOMAIN delta \ compacting.retained : Retires(p)
  BY <1>1, ZenonT(30) DEF TableInv, CompactSound
<1>4. DOMAIN delta \ compacting.todo = DOMAIN delta
  BY <1>1, Zenon
<1>5. /\ compacting.live_stable_rows = {RowOf(delta[p]) : p \in {p \in DOMAIN delta : Promotes(p)}}
      /\ compacting.stably_deleted_row_ids = {delta[p].row_id : p \in {p \in DOMAIN delta : Purges(p)}}
  BY <1>1, <1>4, ZenonT(30) DEF SnapshotInv, CompactExact
<1>6. \A b : b \in base' <=>
        \/ b \in base /\ b.row_id \notin compacting.stably_deleted_row_ids
        \/ b \in compacting.live_stable_rows
  <2>1. CASE compacting.live_stable_rows = {} /\ compacting.stably_deleted_row_ids = {}
    <3>1. base' = base
      BY <2>1, Zenon DEF CompactEnd, InstallBase, baseVars, base, Range
    <3> QED BY <2>1, <3>1, ZenonT(30)
  <2>2. CASE ~(compacting.live_stable_rows = {} /\ compacting.stably_deleted_row_ids = {})
    <3> DEFINE rows == Without(base, compacting.stably_deleted_row_ids)
                         \cup compacting.live_stable_rows
    <3>1. base_segments' = [s \in {next_segment_id} |-> rows]
      BY <2>2, Zenon DEF CompactEnd, InstallBase
    <3> HIDE DEF rows
    <3>2. base' = rows
      BY <3>1, Zenon DEF base, Range
    <3> QED BY <3>2, Zenon DEF rows, Without
  <2> QED BY <2>1, <2>2, ZenonT(30)
<1>7. \A b : b.row_id \in compacting.stably_deleted_row_ids
               <=> \E p \in RecordsOf(b.row_id) : Purges(p)
  BY <1>5, Zenon DEF RecordsOf
<1>8. \A b : b \in compacting.live_stable_rows
               <=> \E p \in DOMAIN delta : Promotes(p) /\ b = RowOf(delta[p])
  BY <1>5, Zenon
<1>9. \A r : RecordsOf(r)' = RecordsOf(r) \cap compacting.retained
  BY <1>1, <1>2, Zenon DEF RecordsOf
<1> QED BY <1>1, <1>2, <1>3, <1>6, <1>7, <1>8, <1>9, ZenonT(30)

\* The last step of a Compact is read by nobody: for every set of effects that holds what
\* is stable, the new base and the retained records read as the old base and delta.
LEMMA CompactUnread ==
  ASSUME TableInv, SnapshotInv, CompactsNoUpdatedBase, CompactEnd,
         NEW seen, Coherent(seen), \A a : Stable(a) => a \in seen
  PROVE  Reads(base', delta', seen) = Reads(base, delta, seen)
<1>1. /\ DOMAIN delta' = compacting.retained /\ compacting.retained \subseteq DOMAIN delta
      /\ \A p \in DOMAIN delta' : delta'[p] = delta[p]
      /\ \A p \in DOMAIN delta \ compacting.retained : Retires(p)
      /\ \A b : b \in base' <=>
           \/ b \in base /\ ~\E p \in RecordsOf(b.row_id) : Purges(p)
           \/ \E p \in DOMAIN delta : Promotes(p) /\ b = RowOf(delta[p])
  BY CompactEndEffect, Zenon
<1>2. compacting.running /\ compacting.todo = {}
  BY Zenon DEF CompactEnd
<1>3. \A p \in compacting.retained :
        ~Purges(p) /\ \A q \in RecordsOf(delta[p].row_id) : ~Promotes(q)
  BY <1>2, ZenonT(30) DEF SnapshotInv, CompactExact
<1>4. \A p \in DOMAIN delta : ~delta[p].is_base_tombstone => delta[p].row_id \notin RowIds(base)
  BY <1>2, Zenon DEF CompactsNoUpdatedBase
<1>5. ASSUME NEW p \in DOMAIN delta, Promotes(p)
      PROVE  ~delta[p].is_base_tombstone /\ Hides(delta[p], seen)
  BY <1>5, Zenon DEF Promotes, Hides, VisibleIn, Coherent
<1>6. ASSUME NEW p \in DOMAIN delta, Hides(delta[p], seen), p \notin compacting.retained
      PROVE  Promotes(p) \/ Purges(p) \/ (delta[p].is_base_tombstone /\ ~IsHead(p))
  <2>1. Retires(p)
    BY <1>1, <1>6, Zenon
  <2>2. CASE delta[p].is_base_tombstone
    <3>1. delta[p].deleted_txn \in seen
      BY <1>6, <2>2, Zenon DEF Hides
    <3>2. ~Aborted(delta[p].deleted_txn)
      BY <3>1, Zenon DEF Coherent
    <3> QED BY <2>1, <2>2, <3>2, ZenonT(30) DEF Retires, Purges
  <2>3. CASE ~delta[p].is_base_tombstone
    <3>1. VisibleIn(delta[p], seen)
      BY <1>6, <2>3, ZenonT(30) DEF Hides
    <3>2. delta[p].created_txn \in seen /\ delta[p].deleted_txn \notin seen
      BY <2>3, <3>1, ZenonT(30) DEF VisibleIn, TableInv, RecordsRefer
    <3>3. ~Aborted(delta[p].created_txn) /\ ~Superseded(delta[p])
      BY <3>2, Zenon DEF Coherent, Superseded
    <3> QED BY <2>1, <2>3, <3>3, Zenon DEF Retires, Promotes
  <2> QED BY <2>2, <2>3, ZenonT(30)
<1>7. ASSUME NEW b PROVE b \in Reads(base', delta', seen) <=> b \in Reads(base, delta, seen)
  <2> DEFINE Version(recs) == \E p \in DOMAIN recs : /\ ~recs[p].is_base_tombstone
                                                    /\ Hides(recs[p], seen) /\ b = RowOf(recs[p])
             Bare(recs) == \A p \in DOMAIN recs : recs[p].row_id = b.row_id => ~Hides(recs[p], seen)
  <2>1. /\ b \in Reads(base', delta', seen) <=> Version(delta') \/ (b \in base' /\ Bare(delta'))
        /\ b \in Reads(base, delta, seen) <=> Version(delta) \/ (b \in base /\ Bare(delta))
    BY InReads, Zenon
  <2>2. CASE \E p \in RecordsOf(b.row_id) : Promotes(p)
    <3>1. PICK p \in RecordsOf(b.row_id) : Promotes(p)
      BY <2>2, Zenon
    <3>2. p \in DOMAIN delta /\ delta[p].row_id = b.row_id
      BY Zenon DEF RecordsOf
    <3>3. \A x \in DOMAIN delta' : delta'[x].row_id # b.row_id
      BY <1>1, <1>3, <3>1, <3>2, ZenonT(30) DEF RecordsOf
    <3>4. b \notin base
      BY <1>4, <1>5, <3>1, <3>2, ZenonT(30) DEF RowIds
    <3>5. \A x \in DOMAIN delta : Hides(delta[x], seen) /\ ~delta[x].is_base_tombstone
                                    /\ delta[x].row_id = b.row_id => x = p
      BY <1>5, <3>1, <3>2, OneVisible, ZenonT(30) DEF Hides
    <3>6. Version(delta) <=> b = RowOf(delta[p])
      <4>1. \A x : RowOf(delta[x]).row_id = delta[x].row_id
        BY Zenon DEF RowOf
      <4> QED BY <1>5, <3>1, <3>2, <3>5, <4>1, ZenonT(30)
    <3>7. ~Version(delta') /\ Bare(delta')
      <4>1. \A x : RowOf(delta'[x]).row_id = delta'[x].row_id
        BY Zenon DEF RowOf
      <4> QED BY <3>3, <4>1, ZenonT(30)
    <3>8. b \in base' <=> b = RowOf(delta[p])
      <4>1. ASSUME NEW x \in DOMAIN delta, Promotes(x), b = RowOf(delta[x]) PROVE x = p
        BY <1>5, <3>5, <4>1, ZenonT(30) DEF RowOf
      <4> QED BY <1>1, <3>1, <3>2, <3>4, <4>1, ZenonT(30)
    <3> QED BY <2>1, <3>4, <3>6, <3>7, <3>8, ZenonT(30)
  <2>3. CASE ~\E p \in RecordsOf(b.row_id) : Promotes(p)
    <3>1. Version(delta') <=> Version(delta)
      <4>1. ASSUME NEW p \in DOMAIN delta, ~delta[p].is_base_tombstone, Hides(delta[p], seen),
                   b = RowOf(delta[p])
            PROVE  p \in DOMAIN delta'
        <5>1. ~Promotes(p)
          BY <2>3, <4>1, Zenon DEF RecordsOf, RowOf
        <5> QED BY <1>1, <1>6, <4>1, <5>1, ZenonT(30) DEF Purges
      <4> QED BY <1>1, <4>1, Zenon
    <3>2. b \in base' => b \in base
      <4>1. ASSUME NEW p \in DOMAIN delta, Promotes(p), b = RowOf(delta[p]) PROVE FALSE
        BY <2>3, <4>1, Zenon DEF RecordsOf, RowOf
      <4> QED BY <1>1, <4>1, Zenon
    <3>3. ASSUME b \in base PROVE (b \in base' /\ Bare(delta')) <=> Bare(delta)
      <4>1. \A p \in RecordsOf(b.row_id) : delta[p].is_base_tombstone /\ p \in DOMAIN delta
        BY <1>4, <3>3, Zenon DEF RecordsOf, RowIds
      <4>2. \A p \in RecordsOf(b.row_id) : IsHead(p)
        <5>1. \A p, q \in RecordsOf(b.row_id) : p = q
          BY <4>1, OneTombstone, ZenonT(30) DEF RecordsOf
        <5>2. \A p \in RecordsOf(b.row_id) : p \in Nat /\ delta[p].row_id = b.row_id
          BY DEF RecordsOf, TableInv, TypeOK
        <5> QED BY <5>1, <5>2 DEF IsHead
      <4>3. ASSUME Bare(delta) PROVE b \in base' /\ Bare(delta')
        <5>1. ASSUME NEW p \in RecordsOf(b.row_id), Purges(p) PROVE FALSE
          <6>1. Hides(delta[p], seen)
            BY <5>1, Zenon DEF Purges, Superseded, Hides
          <6> QED BY <4>3, <6>1, Zenon DEF RecordsOf
        <5>2. b \in base'
          BY <1>1, <3>3, <5>1, Zenon
        <5>3. Bare(delta')
          BY <1>1, <4>3, ZenonT(30)
        <5> QED BY <5>2, <5>3, Zenon
      <4>4. ASSUME b \in base', Bare(delta') PROVE Bare(delta)
        <5> SUFFICES ASSUME NEW p \in DOMAIN delta, delta[p].row_id = b.row_id,
                            Hides(delta[p], seen)
                     PROVE  FALSE
          BY Zenon
        <5>1. p \in RecordsOf(b.row_id)
          BY Zenon DEF RecordsOf
        <5>2. ~Promotes(p)
          BY <2>3, <5>1, ZenonT(30)
        <5>3. ~Purges(p)
          <6>1. ~\E x \in DOMAIN delta : Promotes(x) /\ b = RowOf(delta[x])
            BY <2>3 DEF RecordsOf, RowOf
          <6> QED BY <1>1, <4>4, <5>1, <6>1, Zenon
        <5>4. p \in DOMAIN delta'
          BY <1>1, <1>6, <4>2, <5>1, <5>2, <5>3, ZenonT(30)
        <5> QED BY <1>1, <4>4, <5>4, ZenonT(30)
      <4> QED BY <4>3, <4>4, Zenon
    <3> QED BY <2>1, <3>1, <3>2, <3>3, ZenonT(30)
  <2> QED BY <2>2, <2>3, Zenon
<1> QED BY <1>7, ReadsEqual, Zenon

\* The last step of a Compact.
LEMMA SnapshotCompactEnd ==
  ASSUME TableInv, SnapshotInv, CompactsNoUpdatedBase, CompactEnd
  PROVE  SnapshotInv'
<1>1. /\ DOMAIN delta' = compacting.retained /\ compacting.retained \subseteq DOMAIN delta
      /\ \A p \in DOMAIN delta' : delta'[p] = delta[p]
      /\ \A r : RecordsOf(r)' = RecordsOf(r) \cap compacting.retained
      /\ \A b : b \in base' <=>
           \/ b \in base /\ ~\E p \in RecordsOf(b.row_id) : Purges(p)
           \/ \E p \in DOMAIN delta : Promotes(p) /\ b = RowOf(delta[p])
  BY CompactEndEffect, Zenon
<1>2. /\ inserting' = inserting /\ scanning' = scanning /\ next_row_id' = next_row_id
      /\ store' = store /\ view' = view /\ wrote' = wrote /\ UNCHANGED tmVars /\ TMInv
      /\ active_txn_ids' = active_txn_ids /\ compacting.running /\ ~compacting'.running
  BY Zenon DEF CompactEnd, NotCompacting, historyVars, tmVars, TableInv
<1>3. Past' = Past /\ \A u : Seen(u)' = Seen(u)
  BY <1>2, SightIdle, Zenon
<1>4. \A u : Claiming(u)' = Claiming(u)
  BY <1>2, Zenon DEF Claiming
<1>5. /\ \A p \in compacting.retained :
           ~Purges(p) /\ \A q \in RecordsOf(delta[p].row_id) : ~Promotes(q)
      /\ \A p \in DOMAIN delta :
           ~delta[p].is_base_tombstone => delta[p].row_id \notin RowIds(base)
  BY <1>2, Zenon DEF SnapshotInv, CompactExact, CompactsNoUpdatedBase
<1>6. ViewAgrees'
  <2>1. Reads(base', delta', Past) = Reads(base, delta, Past)
    BY <1>2, PastCoherent, StableSeen, CompactUnread, ZenonT(30)
  <2>2. \A t \in active_txn_ids : Reads(base', delta', Seen(t)) = Reads(base, delta, Seen(t))
    BY <1>2, SeenCoherent, StableSeen, CompactUnread, ZenonT(30)
  <2> QED BY <1>2, <1>3, <1>4, <2>1, <2>2, ZenonT(30) DEF SnapshotInv, ViewAgrees
<1>7. RecordsWritten'
  <2>1. \A p \in DOMAIN delta' : p \in DOMAIN delta /\ delta'[p] = delta[p]
    BY <1>1, Zenon
  <2> QED BY <1>2, <2>1 DEF SnapshotInv, RecordsWritten
<1>8. BaseCovered'
  <2>1. ASSUME NEW p \in DOMAIN delta', delta[p].row_id \in RowIds(base')
        PROVE  p \in RecordsOf(delta[p].row_id)' /\ delta'[p].is_base_tombstone
    <3>1. PICK b \in base' : b.row_id = delta[p].row_id
      BY <2>1, ZenonT(30) DEF RowIds
    <3>2. p \in DOMAIN delta /\ p \in compacting.retained /\ p \in RecordsOf(delta[p].row_id)
      BY <1>1, ZenonT(30) DEF RecordsOf
    <3>3. b \in base
      <4>1. \A x \in DOMAIN delta : Promotes(x) => b # RowOf(delta[x])
        <5> SUFFICES ASSUME NEW x \in DOMAIN delta, Promotes(x), b = RowOf(delta[x])
                     PROVE  FALSE
          BY Zenon
        <5>1. x \in RecordsOf(delta[p].row_id)
          BY <3>1, ZenonT(30) DEF RecordsOf, RowOf
        <5> QED BY <1>5, <3>2, <5>1, ZenonT(30)
      <4> QED BY <1>1, <4>1, ZenonT(30)
    <3>4. delta[p].is_base_tombstone
      BY <1>5, <3>1, <3>2, <3>3, ZenonT(30) DEF RowIds
    <3> QED BY <1>1, <3>2, <3>4, Zenon
  <2>2. ASSUME NEW p \in DOMAIN delta', NEW q \in RecordsOf(delta[p].row_id)',
               delta'[q].is_base_tombstone
        PROVE  delta[p].row_id \in RowIds(base')
    <3>1. q \in compacting.retained /\ q \in RecordsOf(delta[p].row_id) /\ q \in DOMAIN delta
          /\ delta[q].is_base_tombstone /\ delta[q].row_id = delta[p].row_id
      BY <1>1, <2>2, Zenon DEF RecordsOf
    <3>2. PICK b \in base : b.row_id = delta[p].row_id
      <4>1. p \in DOMAIN delta
        BY <1>1, Zenon
      <4>2. delta[p].row_id \in RowIds(base)
        BY <3>1, <4>1, ZenonT(30) DEF SnapshotInv, BaseCovered
      <4> QED BY <4>2, Zenon DEF RowIds
    <3>3. \A x \in RecordsOf(b.row_id) : x = q
      <4>1. \A x \in RecordsOf(b.row_id) : /\ delta[x].is_base_tombstone /\ x \in DOMAIN delta
                                           /\ delta[x].row_id = delta[q].row_id
        BY <1>5, <3>1, <3>2, Zenon DEF RecordsOf, RowIds
      <4> QED BY <3>1, <4>1, OneTombstone, Zenon
    <3>4. b \in base'
      BY <1>1, <1>5, <3>1, <3>3, ZenonT(30)
    <3> QED BY <3>2, <3>4, Zenon DEF RowIds
  <2>3. ASSUME NEW b \in base', NEW c \in base', b.row_id = c.row_id PROVE b = c
    <3>1. ASSUME NEW p \in DOMAIN delta, Promotes(p) PROVE RowOf(delta[p]).row_id \notin RowIds(base)
      BY <1>5, <3>1, Zenon DEF Promotes, RowOf
    <3>2. ASSUME NEW p \in DOMAIN delta, Promotes(p), NEW q \in DOMAIN delta, Promotes(q),
                 RowOf(delta[p]).row_id = RowOf(delta[q]).row_id
          PROVE  p = q
      <4>1. p \in RecordsOf(delta[q].row_id) /\ q \in RecordsOf(delta[p].row_id)
            /\ p \in Nat /\ q \in Nat
        <5>1. DOMAIN delta \subseteq Nat
          BY DEF TableInv, TypeOK
        <5> QED BY <3>2, <5>1, ZenonT(30) DEF RecordsOf, RowOf
      <4>2. p <= q /\ q <= p
        BY <3>2, <4>1, Zenon DEF Promotes, IsHead
      <4> QED BY <4>1, <4>2
    <3>3. CASE b \in base /\ c \in base
      BY <2>3, <3>3, Zenon DEF SnapshotInv, BaseCovered
    <3>4. CASE b \in base /\ c \notin base
      <4>1. PICK p \in DOMAIN delta : Promotes(p) /\ c = RowOf(delta[p])
        BY <1>1, <3>4, Zenon
      <4> QED BY <2>3, <3>1, <3>4, <4>1, Zenon DEF RowIds
    <3>5. CASE b \notin base /\ c \in base
      <4>1. PICK p \in DOMAIN delta : Promotes(p) /\ b = RowOf(delta[p])
        BY <1>1, <3>5, ZenonT(30)
      <4> QED BY <2>3, <3>1, <3>5, <4>1, ZenonT(30) DEF RowIds
    <3>6. CASE b \notin base /\ c \notin base
      <4>1. PICK p \in DOMAIN delta : Promotes(p) /\ b = RowOf(delta[p])
        BY <1>1, <3>6, Zenon
      <4>2. PICK q \in DOMAIN delta : Promotes(q) /\ c = RowOf(delta[q])
        BY <1>1, <3>6, Zenon
      <4> QED BY <2>3, <3>2, <4>1, <4>2, ZenonT(30)
    <3> QED BY <3>3, <3>4, <3>5, <3>6, ZenonT(30)
  <2> QED BY <1>1, <2>1, <2>2, <2>3, Zenon DEF BaseCovered
<1>9. ScanAgrees'
  BY <1>2, <1>3, Zenon DEF SnapshotInv, ScanAgrees
<1>10. CompactExact'
  BY <1>2, Zenon DEF CompactExact
<1> QED BY <1>2, <1>6, <1>7, <1>8, <1>9, <1>10, ZenonT(30) DEF SnapshotInv

-----------------------------------------------------------------------------
(* The invariant *)

\* A freshly loaded table reads as its base.
LEMMA SnapshotInitInv == TableInit => SnapshotInv
<1> SUFFICES ASSUME TableInit PROVE SnapshotInv
  BY Zenon
<1>1. /\ txn = << >> /\ active_txn_ids = {} /\ delta = << >> /\ scanning = << >>
      /\ compacting = NotCompacting /\ store = base
  BY Zenon DEF TableInit, TMInit
<1>2. next_row_id <= MaxRow + 1
  <2> DEFINE m == Max(BaseRows \cup {0})
  <2>1. m \in BaseRows \cup {0}
    <3>1. BaseRows \cup {0} \in SUBSET Nat /\ MaxRow \in Nat
          /\ \A x \in BaseRows \cup {0} : x <= MaxRow
      BY TableAssumption
    <3> QED BY <3>1, MaxIsGreatest, ZenonT(30)
  <2>2. next_row_id = m + 1
    BY Zenon DEF TableInit
  <2> HIDE DEF m
  <2> QED BY <2>1, <2>2, TableAssumption
<1>3. ViewAgrees
  <2>1. \A b : b \in Reads(base, delta, Past) <=> b \in base
    BY <1>1, InReads
  <2>2. Reads(base, delta, Past) = base
    BY <2>1, Zenon DEF Reads
  <2> QED BY <1>1, <2>2, Zenon DEF ViewAgrees
<1>4. BaseCovered
  <2>1. base \subseteq {[row_id |-> r, row |-> 0] : r \in BaseRows}
    <3>1. CASE BaseRows = {}
      <4>1. base_segments = << >>
        BY <3>1, Zenon DEF TableInit
      <4> QED BY <4>1 DEF base, Range
    <3>2. CASE BaseRows # {}
      <4> DEFINE rows == {[row_id |-> r, row |-> 0] : r \in BaseRows}
      <4>1. base_segments = [s \in {1} |-> rows]
        BY <3>2, Zenon DEF TableInit
      <4> HIDE DEF rows
      <4>2. base = rows
        BY <4>1, ZenonT(30) DEF base, Range
      <4> QED BY <4>2, Zenon DEF rows
    <3> QED BY <3>1, <3>2, Zenon
  <2>2. ASSUME NEW b \in base, NEW c \in base, b.row_id = c.row_id PROVE b = c
    <3>1. PICK r \in BaseRows : b = [row_id |-> r, row |-> 0]
      BY <2>1, Zenon
    <3>2. PICK u \in BaseRows : c = [row_id |-> u, row |-> 0]
      BY <2>1, Zenon
    <3> QED BY <2>2, <3>1, <3>2, ZenonT(30)
  <2>3. DOMAIN delta = {}
    BY <1>1
  <2> QED BY <2>2, <2>3, Zenon DEF BaseCovered
<1>5. RecordsWritten /\ ScanAgrees
  BY <1>1 DEF RecordsWritten, ScanAgrees
<1>6. CompactExact
  BY <1>1, Zenon DEF CompactExact, NotCompacting
<1> QED BY <1>2, <1>3, <1>4, <1>5, <1>6, ZenonT(30) DEF SnapshotInv

\* Every step of the table keeps the invariant, as long as a Compact that ends has met no
\* updated base row.
LEMMA SnapshotStep ==
  ASSUME TableInv, SnapshotInv, CompactsNoUpdatedBase, [Next]_vars
  PROVE  SnapshotInv'
<1>1. CASE Begin
  BY <1>1, SnapshotBegin, Zenon
<1>2. ASSUME NEW t \in active_txn_ids, TxnStep(t) PROVE SnapshotInv'
  <2>1. CASE Commit(t)
    BY <2>1, SnapshotCommit, Zenon
  <2>2. CASE Abort(t)
    BY <2>2, SnapshotAbort, Zenon
  <2>3. CASE Insert(t)
    BY <2>3, SnapshotInsert
  <2>4. CASE SnapshotForScan(t)
    BY <2>4, SnapshotScanBegin
  <2>5. ASSUME NEW r \in 1..(next_row_id - 1), Update(t, r) \/ Delete(t, r) PROVE SnapshotInv'
    BY <2>5, SnapshotClaim, ZenonT(30)
  <2> QED BY <1>2, <2>1, <2>2, <2>3, <2>4, <2>5, ZenonT(30) DEF TxnStep
<1>3. ASSUME NEW t \in DOMAIN inserting, DeltaInsert(t, next_pos) PROVE SnapshotInv'
  BY <1>3, SnapshotDeltaInsert, ZenonT(30)
<1>4. ASSUME NEW t \in DOMAIN scanning, ScanRecord(t) \/ ScanEnd(t) PROVE SnapshotInv'
  BY <1>4, SnapshotScan, Zenon
<1>5. CASE CompactBegin
  BY <1>5, SnapshotCompactBegin
<1>6. CASE CompactRecord
  BY <1>6, SnapshotCompactRecord
<1>7. CASE CompactEnd
  BY <1>7, SnapshotCompactEnd, ZenonT(30)
<1>8. CASE UNCHANGED vars
  <2>1. /\ UNCHANGED <<tmVars, deltaVars, baseVars, next_row_id, inserting, scanning, metrics,
                       historyVars>>
        /\ compacting' = compacting /\ delta' = delta
    BY <1>8, ZenonT(30) DEF vars, tableVars, deltaVars
  <2>2. CompactExact'
    BY <2>1, CompactUndisturbed, Zenon DEF SnapshotInv
  <2> QED BY <2>1, <2>2, CompactKeepsRest, ZenonT(30)
<1> QED BY <1>1, <1>2, <1>3, <1>4, <1>5, <1>6, <1>7, <1>8, ZenonT(30) DEF Next
=============================================================================
