---------------------------- MODULE TableProofs -----------------------------
(***************************************************************************)
(* The writers, Compact, and the theorems about the table.  TableInv is    *)
(* inductive for any base, any mix of writes and any bounds; type          *)
(* correctness and FirstClaimerWins follow, and the counters of Compact.   *)
(*                                                                         *)
(* The last part is about a table with its compactor and the callers of    *)
(* Stop: it takes only steps of the table, so what is proved of the table  *)
(* holds of it, and once every caller of Stop has returned, nothing        *)
(* compacts.  For any number of callers, any threshold and any clients.    *)
(***************************************************************************)
EXTENDS TableClaimProofs, Compactor

\* more time than by default for every step that names no prover
USE SMTT(30), ZenonT(30)

-----------------------------------------------------------------------------
(* Writers *)

\* A claim leaves a trace and collides with no concurrent writer.
LEMMA ClaimKeepsHistory ==
  ASSUME TableInv, NEW w \in active_txn_ids, NEW r \in Nat,
         NEW q, Claimed(r, w, q), UNCHANGED <<tmVars, compacting>>, ~compacting.running,
         wrote' = [wrote EXCEPT ![w] = @ \cup {r}]
  PROVE  WritesLeaveTrace' /\ CompactSound' /\ FirstClaimerWins'
<1>1. TMInv /\ w \in DOMAIN txn /\ UNCHANGED tmVars /\ txn' = txn /\ ~Aborted(w)
  BY ActiveUnfinished, Zenon DEF TableInv, tmVars
<1>2. \A u \in DOMAIN txn : wrote'[u] = IF u = w THEN wrote[u] \cup {r} ELSE wrote[u]
  BY <1>1, ZenonT(30) DEF TableInv, TypeOK
<1>3. WritesLeaveTrace'
  <2> SUFFICES ASSUME NEW t \in DOMAIN txn, NEW x \in wrote'[t], ~Aborted(t), ~Settled(t)
               PROVE  \E p \in RecordsOf(x)' : t \in {delta'[p].created_txn, delta'[p].deleted_txn}
    BY <1>1, ManagerIdle, ZenonT(30) DEF WritesLeaveTrace
  <2>1. CASE t = w /\ x = r
    <3>1. q \in RecordsOf(x)' /\ delta'[q].deleted_txn = t
      BY <2>1, Zenon DEF Claimed, RecordsOf
    <3> QED BY <3>1, Zenon
  <2>2. CASE ~(t = w /\ x = r)
    <3> x \in wrote[t]
      BY <1>2, <2>2
    <3>1. PICK p \in RecordsOf(x) : t \in {delta[p].created_txn, delta[p].deleted_txn}
      BY Zenon DEF TableInv, WritesLeaveTrace
    <3>2. p \in RecordsOf(x)' /\ delta'[p].created_txn = delta[p].created_txn
      BY Zenon DEF RecordsOf, Claimed
    <3>3. delta[p].deleted_txn = t => delta'[p].deleted_txn = t
      <4>1. CASE p = q
        BY <1>1, <4>1, Nobody, Zenon DEF RecordsOf, Claimed
      <4>2. CASE p # q
        BY <4>2, Zenon DEF RecordsOf, Claimed
      <4> QED BY <4>1, <4>2, Zenon
    <3> QED BY <3>1, <3>2, <3>3, Zenon
  <2> QED BY <2>1, <2>2, Zenon
<1>4. CompactSound'
  BY Zenon DEF CompactSound
<1>5. FirstClaimerWins'
  <2> SUFFICES ASSUME NEW t \in DOMAIN txn, NEW u \in DOMAIN txn, t # u,
                      ~Aborted(t), ~Aborted(u), Overlap(t, u)
               PROVE  wrote'[t] \cap wrote'[u] = {}
    BY <1>1, ManagerIdle, Zenon DEF FirstClaimerWins
  <2>1. wrote[t] \cap wrote[u] = {}
    BY Zenon DEF TableInv, FirstClaimerWins
  <2>2. t = w => r \notin wrote[u]
    BY Zenon DEF Claimed, SeenBy, Overlap
  <2>3. u = w => r \notin wrote[t]
    BY DEF Claimed, SeenBy, Overlap
  <2> QED BY <1>2, <2>1, <2>2, <2>3
<1> QED BY <1>3, <1>4, <1>5, Zenon

\* Delete, and the first half of Update.
LEMMA TableClaim ==
  ASSUME TableInv, NEW w \in active_txn_ids, NEW r \in 1..(next_row_id - 1),
         Update(w, r) \/ Delete(w, r)
  PROVE  TableInv'
<1>1. /\ TMInv /\ UNCHANGED tmVars /\ UNCHANGED baseVars /\ next_row_id' = next_row_id
      /\ compacting' = compacting /\ scanning' = scanning /\ metrics' = metrics
      /\ store' = store /\ ~compacting.running /\ Claim(r, w) /\ w \notin DOMAIN inserting
      /\ wrote' = [wrote EXCEPT ![w] = @ \cup {r}]
  BY Zenon DEF Update, Delete, Idle, TableInv
<1>2. r \in Nat /\ r < next_row_id
  BY DEF TableInv, TypeOK
<1>3. \/ inserting' = inserting
      \/ inserting' = Extend(inserting, w, [row_id |-> r, locked |-> TRUE])
  BY Zenon DEF Update, Delete
<1>4. PICK q : Claimed(r, w, q)
  BY <1>1, <1>2, ClaimEffect, Zenon
<1>5. RecordsRefer' /\ ClaimsSee' /\ VersionChain'
  BY <1>1, <1>2, <1>4, ClaimKeepsChains, Zenon
<1>6. UpdateOwns' /\ InsertFresh'
  BY <1>1, <1>2, <1>3, <1>4, ClaimKeepsWriters, ZenonT(30)
<1>7. WritesLeaveTrace' /\ CompactSound' /\ FirstClaimerWins'
  BY <1>1, <1>2, <1>4, ClaimKeepsHistory, ZenonT(30)
<1>8. TypeOK'
  <2>1. /\ delta' \in [DOMAIN delta' -> DeltaRecord] /\ DOMAIN delta' \subseteq 1..(next_pos' - 1)
        /\ next_pos' \in Nat \ {0} /\ DOMAIN delta \subseteq DOMAIN delta'
    BY <1>4, Zenon DEF Claimed
  <2>2. /\ inserting' \in [DOMAIN inserting' -> [row_id : Nat, locked : BOOLEAN]]
        /\ DOMAIN inserting' \subseteq DOMAIN inserting \cup {w}
    <3> DEFINE Entry == [row_id : Nat, locked : BOOLEAN]
               new == [row_id |-> r, locked |-> TRUE]
    <3>1. inserting \in [DOMAIN inserting -> Entry]
      BY DEF TableInv, TypeOK
    <3>2. new \in Entry
      BY <1>2, Zenon
    <3> HIDE DEF Entry, new
    <3>3. inserting' = inserting \/ inserting' = Extend(inserting, w, new)
      BY <1>3, Zenon DEF new
    <3>4. inserting' \in [DOMAIN inserting' -> Entry]
          /\ DOMAIN inserting' \subseteq DOMAIN inserting \cup {w}
      BY <3>1, <3>2, <3>3, ZenonT(30) DEF Extend
    <3> QED BY <3>4, Zenon DEF Entry
  <2>3. view' \in [active_txn_ids -> SUBSET BaseRow]
    BY DEF Update, Delete, Without, TableInv, TypeOK
  <2>4. wrote' \in [DOMAIN txn -> SUBSET Nat]
    BY <1>1, <1>2, ZenonT(30) DEF TableInv, TypeOK
  <2>5. compacting \in [running : BOOLEAN, oldest_active : Nat, todo : SUBSET DOMAIN delta',
                        live_stable_rows : SUBSET BaseRow, stably_deleted_row_ids : SUBSET Nat,
                        retained : SUBSET DOMAIN delta']
    BY <2>1 DEF TableInv, TypeOK
  <2> QED BY <1>1, <2>1, <2>2, <2>3, <2>4, <2>5, ManagerIdle, ZenonT(30) DEF TableInv, TypeOK, baseVars
<1> QED BY <1>1, <1>5, <1>6, <1>7, <1>8, ManagerIdle, Zenon DEF TableInv

-----------------------------------------------------------------------------
\* The push_back that ends Insert and Update.
LEMMA TableDeltaInsert ==
  ASSUME TableInv, NEW t \in DOMAIN inserting, DeltaInsert(t, next_pos)
  PROVE  TableInv'
<1> DEFINE r == inserting[t].row_id
           rec == [row_id |-> r, created_txn |-> t, deleted_txn |-> 0, row |-> next_pos,
                   is_base_tombstone |-> FALSE]
<1>1. /\ TMInv /\ UNCHANGED tmVars /\ UNCHANGED baseVars /\ next_row_id' = next_row_id
      /\ compacting' = compacting /\ scanning' = scanning /\ metrics' = metrics
      /\ store' = store /\ ~compacting.running /\ base' = base /\ txn' = txn
  BY Zenon DEF DeltaInsert, AddVersion, TableInv, baseVars, base, Range, tmVars
<1>2. t \in active_txn_ids /\ t \in DOMAIN txn /\ t # 0 /\ t \in Nat /\ ~Aborted(t) /\ ~Committed(t)
  <2>1. t \in active_txn_ids
    BY Zenon DEF TableInv, TypeOK
  <2> QED BY <1>1, <2>1, ActiveUnfinished DEF TMInv, TMTypeOK
<1>3. r \in Nat /\ r < next_row_id
  BY Zenon DEF TableInv, TypeOK, InsertFresh
<1>4. /\ next_pos \in Nat \ {0} /\ next_pos' = next_pos + 1 /\ DOMAIN delta \subseteq 1..(next_pos - 1)
      /\ next_pos \notin DOMAIN delta
      /\ delta' = Extend(delta, next_pos, rec)
  <2>1. next_pos \in Nat \ {0} /\ DOMAIN delta \subseteq 1..(next_pos - 1)
    BY Zenon DEF TableInv, TypeOK
  <2> QED BY <2>1 DEF DeltaInsert, AddVersion, Push
<1>5. rec \in DeltaRecord /\ rec.row_id = r /\ rec.created_txn = t /\ rec.deleted_txn = 0
      /\ ~rec.is_base_tombstone
  BY <1>2, <1>3, <1>4, Zenon DEF DeltaRecord
<1>6. /\ DOMAIN inserting' = DOMAIN inserting \ {t}
      /\ \A u \in DOMAIN inserting' : inserting'[u] = inserting[u]
  BY Zenon DEF DeltaInsert, AddVersion, Restrict
<1>7. /\ wrote' \in [DOMAIN txn -> SUBSET Nat]
      /\ \A u \in DOMAIN txn : wrote'[u] = IF u = t THEN wrote[u] \cup {r} ELSE wrote[u]
  BY <1>2, <1>3, ZenonT(30) DEF DeltaInsert, AddVersion, TableInv, TypeOK
<1>8. TypeOK'
  <2>1. view' \in [active_txn_ids -> SUBSET BaseRow]
    <3> DEFINE new == [row_id |-> r, row |-> next_pos]
               rows == Without(view[t], {r}) \cup {new}
    <3>1. view \in [active_txn_ids -> SUBSET BaseRow]
      BY Zenon DEF TableInv, TypeOK
    <3>2. new \in BaseRow
      BY <1>3, <1>4, Zenon DEF BaseRow
    <3> HIDE DEF new
    <3>3. rows \subseteq BaseRow
      BY <1>2, <3>1, <3>2, Zenon DEF Without
    <3>4. view' = [view EXCEPT ![t] = rows]
      BY Zenon DEF DeltaInsert, AddVersion, new
    <3> HIDE DEF rows
    <3> QED BY <1>2, <3>1, <3>3, <3>4, ZenonT(30)
  <2> HIDE DEF rec
  <2>2. /\ delta' \in [DOMAIN delta' -> DeltaRecord] /\ DOMAIN delta' \subseteq 1..(next_pos' - 1)
        /\ next_pos' \in Nat \ {0} /\ DOMAIN delta \subseteq DOMAIN delta'
    BY <1>4, <1>5 DEF Extend, TableInv, TypeOK
  <2>3. inserting' \in [DOMAIN inserting' -> [row_id : Nat, locked : BOOLEAN]]
    BY Zenon DEF DeltaInsert, AddVersion, Restrict, TableInv, TypeOK
  <2>4. compacting \in [running : BOOLEAN, oldest_active : Nat, todo : SUBSET DOMAIN delta',
                        live_stable_rows : SUBSET BaseRow, stably_deleted_row_ids : SUBSET Nat,
                        retained : SUBSET DOMAIN delta']
    BY <2>2, Zenon DEF TableInv, TypeOK
  <2> QED BY <1>1, <1>6, <1>7, <2>1, <2>2, <2>3, <2>4, ManagerIdle, ZenonT(30) DEF TableInv, TypeOK, baseVars
<1> HIDE DEF rec
<1>9. /\ DOMAIN delta' = DOMAIN delta \cup {next_pos} /\ delta'[next_pos] = rec
      /\ \A p \in DOMAIN delta : delta'[p] = delta[p] /\ p < next_pos
      /\ \A p \in DOMAIN delta : Live(p)' <=> Live(p)
  BY <1>1, <1>4, ManagerIdle DEF Extend, Live
<1>10. \A p \in RecordsOf(r) : Live(p) => delta[p].deleted_txn # 0 /\ SeenBy(delta[p].deleted_txn, t)
  BY Zenon DEF TableInv, UpdateOwns, InsertFresh
<1>11. \A u \in DOMAIN txn \ {t} : r \in wrote[u] /\ ~Aborted(u) => ~Overlap(t, u)
  <2>1. CASE inserting[t].locked
    BY <1>2, <2>1, ZenonT(30) DEF TableInv, UpdateOwns, FirstClaimerWins
  <2>2. CASE ~inserting[t].locked
    BY <2>2, Zenon DEF TableInv, InsertFresh
  <2> QED BY <2>1, <2>2, Zenon
<1>12. \A u \in DOMAIN inserting \ {t} : inserting[u].row_id # r
  <2> SUFFICES ASSUME NEW u \in DOMAIN inserting \ {t}, inserting[u].row_id = r PROVE FALSE
    BY Zenon
  <2>1. inserting[u].locked
    BY Zenon DEF TableInv, InsertFresh
  <2>2. u \in active_txn_ids
    BY Zenon DEF TableInv, TypeOK
  <2>3. u \in DOMAIN txn /\ ~Aborted(u) /\ ~Committed(u)
    BY <1>1, <2>2, ActiveUnfinished, Zenon
  <2>4. r \in wrote[u] /\ Overlap(t, u)
    BY <1>2, <2>1, <2>3, ZenonT(30) DEF TableInv, UpdateOwns, Overlap, CommittedBy
  <2> QED BY <1>11, <2>3, <2>4, Zenon
<1>13. RecordsRefer'
  BY <1>1, <1>2, <1>3, <1>5, <1>9, ZenonT(30) DEF TableInv, RecordsRefer
<1>14. ClaimsSee'
  <2> SUFFICES ASSUME NEW p \in DOMAIN delta', delta'[p].deleted_txn # 0,
                      ~Aborted(delta'[p].deleted_txn)
               PROVE  delta'[p].created_txn = 0
                      \/ SeenBy(delta'[p].created_txn, delta'[p].deleted_txn)
    BY <1>1, ManagerIdle, Zenon DEF ClaimsSee
  <2> QED BY <1>5, <1>9, Zenon DEF TableInv, ClaimsSee
<1>15. VersionChain'
  <2> SUFFICES ASSUME NEW p \in DOMAIN delta', NEW o \in DOMAIN delta', p < o,
                      delta'[p].row_id = delta'[o].row_id, Live(p)', Live(o)'
               PROVE  /\ delta'[p].deleted_txn # 0 /\ delta'[o].created_txn # 0
                      /\ SeenBy(delta'[p].deleted_txn, delta'[o].created_txn)
    BY <1>1, ManagerIdle, Zenon DEF VersionChain
  <2>1. p \in DOMAIN delta
    BY <1>4, <1>9
  <2>2. CASE o \in DOMAIN delta
    BY <1>9, <2>1, <2>2, ZenonT(30) DEF TableInv, VersionChain
  <2>3. CASE o = next_pos
    <3>1. p \in RecordsOf(r) /\ Live(p)
      BY <1>5, <1>9, <2>1, <2>3, ZenonT(30) DEF RecordsOf
    <3> QED BY <1>2, <1>5, <1>9, <1>10, <2>1, <2>3, <3>1, ZenonT(30)
  <2> QED BY <1>9, <2>2, <2>3, ZenonT(30)
<1>16. UpdateOwns'
  <2> SUFFICES ASSUME NEW u \in DOMAIN inserting', inserting'[u].locked
               PROVE  /\ inserting'[u].row_id \in wrote'[u]
                      /\ ~compacting.running
                      /\ \A p \in RecordsOf(inserting[u].row_id)' :
                           Live(p)' => /\ delta'[p].deleted_txn # 0
                                       /\ SeenBy(delta'[p].deleted_txn, u)
    BY <1>1, ManagerIdle, ZenonT(30) DEF UpdateOwns
  <2>1. inserting'[u] = inserting[u] /\ u \in DOMAIN inserting \ {t} /\ inserting[u].row_id # r
    BY <1>6, <1>12, Zenon
  <2>2. RecordsOf(inserting[u].row_id)' = RecordsOf(inserting[u].row_id)
    BY <1>5, <1>9, <2>1, ZenonT(30) DEF RecordsOf
  <2>3. u \in DOMAIN txn
    BY <2>1, ZenonT(30) DEF TableInv, TypeOK, TMTypeOK
  <2> QED BY <1>7, <1>9, <2>1, <2>2, <2>3, ZenonT(30) DEF TableInv, UpdateOwns, RecordsOf
<1>17. InsertFresh'
  <2>1. \A u \in DOMAIN inserting' : /\ inserting'[u] = inserting[u] /\ inserting[u].row_id # r
                                     /\ u \in DOMAIN inserting
    BY <1>6, <1>12, Zenon
  <2>2. \A u \in DOMAIN inserting' : RecordsOf(inserting[u].row_id)' = RecordsOf(inserting[u].row_id)
    BY <1>5, <1>9, <2>1 DEF RecordsOf
  <2>3. \A u \in DOMAIN txn : \A x \in wrote'[u] : x < next_row_id
    <3>1. \A u \in DOMAIN txn : \A x \in wrote[u] : x < next_row_id
      BY Zenon DEF TableInv, InsertFresh
    <3> QED BY <1>3, <1>7, <3>1, Zenon
  <2>4. /\ \A u \in DOMAIN inserting' : inserting'[u].row_id < next_row_id
        /\ \A b \in base \cup compacting.live_stable_rows : b.row_id < next_row_id
    BY <2>1, Zenon DEF TableInv, InsertFresh
  <2>5. ASSUME NEW v \in DOMAIN inserting', ~inserting'[v].locked
        PROVE  /\ RecordsOf(inserting[v].row_id)' = {}
               /\ inserting'[v].row_id \notin RowIds(base) \cup RowIds(compacting.live_stable_rows)
               /\ \A u \in DOMAIN txn : inserting'[v].row_id \notin wrote'[u]
               /\ \A u \in DOMAIN inserting' \ {v} : inserting'[u].row_id # inserting'[v].row_id
    <3>1. /\ RecordsOf(inserting[v].row_id) = {}
          /\ inserting[v].row_id \notin RowIds(base) \cup RowIds(compacting.live_stable_rows)
          /\ \A u \in DOMAIN txn : inserting[v].row_id \notin wrote[u]
          /\ \A u \in DOMAIN inserting \ {v} : inserting[u].row_id # inserting[v].row_id
      BY <2>1, <2>5, ZenonT(30) DEF TableInv, InsertFresh
    <3> QED BY <1>7, <2>1, <2>2, <3>1, ZenonT(30)
  <2> QED BY <1>1, <2>3, <2>4, <2>5, ZenonT(30) DEF InsertFresh, RowIds
<1>18. WritesLeaveTrace'
  <2> SUFFICES ASSUME NEW u \in DOMAIN txn, NEW x \in wrote'[u], ~Aborted(u), ~Settled(u)
               PROVE  \E p \in RecordsOf(x)' : u \in {delta'[p].created_txn, delta'[p].deleted_txn}
    BY <1>1, ManagerIdle, Zenon DEF WritesLeaveTrace
  <2>1. CASE u = t /\ x = r
    BY <1>5, <1>9, <2>1, ZenonT(30) DEF RecordsOf
  <2>2. CASE ~(u = t /\ x = r)
    <3> x \in wrote[u]
      BY <1>7, <2>2, Zenon
    <3>1. PICK p \in RecordsOf(x) : u \in {delta[p].created_txn, delta[p].deleted_txn}
      BY Zenon DEF TableInv, WritesLeaveTrace
    <3>2. p \in RecordsOf(x)' /\ delta'[p] = delta[p]
      BY <1>9, Zenon DEF RecordsOf
    <3> QED BY <3>1, <3>2, Zenon
  <2> QED BY <2>1, <2>2, Zenon
<1>19. CompactSound'
  BY <1>1, Zenon DEF CompactSound
<1>20. FirstClaimerWins'
  <2> SUFFICES ASSUME NEW a \in DOMAIN txn, NEW b \in DOMAIN txn, a # b,
                      ~Aborted(a), ~Aborted(b), Overlap(a, b)
               PROVE  wrote'[a] \cap wrote'[b] = {}
    BY <1>1, ManagerIdle, ZenonT(30) DEF FirstClaimerWins
  <2>1. wrote[a] \cap wrote[b] = {}
    BY Zenon DEF TableInv, FirstClaimerWins
  <2>2. (a = t => r \notin wrote[b]) /\ (b = t => r \notin wrote[a])
    BY <1>11 DEF Overlap
  <2> QED BY <1>7, <2>1, <2>2, Zenon
<1> QED BY <1>1, <1>8, <1>13, <1>14, <1>15, <1>16, <1>17, <1>18, <1>19, <1>20, ManagerIdle, ZenonT(30)
        DEF TableInv

-----------------------------------------------------------------------------
(* Compact *)

\* Compact's own steps touch neither the manager nor the writers; while it classifies
\* it touches only its locals.
LEMMA CompactLocal ==
  ASSUME TableInv,
         UNCHANGED <<tmVars, deltaVars, baseVars, next_row_id, inserting, scanning, metrics,
                     historyVars>>,
         compacting' \in [running : BOOLEAN, oldest_active : Nat, todo : SUBSET DOMAIN delta,
                     live_stable_rows : SUBSET BaseRow, stably_deleted_row_ids : SUBSET Nat,
                     retained : SUBSET DOMAIN delta],
         IsFiniteSet(compacting'.live_stable_rows),
         \A b \in compacting'.live_stable_rows : b.row_id < next_row_id,
         \A t \in DOMAIN inserting : ~inserting[t].locked =>
           inserting[t].row_id \notin RowIds(compacting'.live_stable_rows),
         (\E t \in DOMAIN inserting : inserting[t].locked) => ~compacting'.running,
         CompactSound'
  PROVE  TableInv'
<1>1. /\ delta' = delta /\ next_pos' = next_pos /\ base_segments' = base_segments
      /\ next_segment_id' = next_segment_id /\ inserting' = inserting
      /\ scanning' = scanning /\ metrics' = metrics /\ next_row_id' = next_row_id
      /\ store' = store /\ view' = view /\ wrote' = wrote /\ UNCHANGED tmVars /\ TMInv
  BY Zenon DEF deltaVars, baseVars, historyVars, TableInv
<1>2. /\ \A r : RecordsOf(r)' = RecordsOf(r)
      /\ base' = base
      /\ \A p : Live(p)' <=> Live(p)
  BY <1>1, ManagerIdle, ZenonT(30) DEF RecordsOf, base, Range, Live
<1>3. TypeOK'
  BY <1>1, ManagerIdle, ZenonT(30) DEF TableInv, TypeOK
<1>4. RecordsRefer' /\ ClaimsSee' /\ VersionChain'
  BY <1>1, <1>2, ManagerIdle, ZenonT(30) DEF TableInv, RecordsRefer, ClaimsSee, VersionChain
<1>5. UpdateOwns'
  BY <1>1, <1>2, ManagerIdle, ZenonT(30) DEF TableInv, UpdateOwns
<1>6. InsertFresh'
  BY <1>1, <1>2, ManagerIdle, ZenonT(30) DEF TableInv, InsertFresh, RowIds
<1>7. WritesLeaveTrace' /\ FirstClaimerWins'
  BY <1>1, <1>2, ManagerIdle, ZenonT(30) DEF TableInv, WritesLeaveTrace, FirstClaimerWins
<1> QED BY <1>1, <1>3, <1>4, <1>5, <1>6, <1>7, ManagerIdle, ZenonT(30) DEF TableInv

\* Taking table_mu_ and the watermark keeps the invariant.
LEMMA TableCompactBegin ==
  ASSUME TableInv, CompactBegin
  PROVE  TableInv'
<1>1. TMInv /\ OldestActiveSnapshot \in Nat /\ WatermarkSafe
  BY Watermark, Zenon DEF TableInv, WatermarkIsSnapshot
<1>2. UNCHANGED <<tmVars, deltaVars, baseVars, next_row_id, inserting, scanning, metrics,
                  historyVars>>
  BY DEF CompactBegin
<1>3. compacting' = [running |-> TRUE, oldest_active |-> OldestActiveSnapshot,
                     todo |-> DOMAIN delta, live_stable_rows |-> {},
                     stably_deleted_row_ids |-> {}, retained |-> {}]
  BY ZenonT(30) DEF CompactBegin, NotCompacting
<1>4. CompactSound'
  <2>1. txn' = txn /\ active_txn_ids' = active_txn_ids /\ last_commit_ts' = last_commit_ts
        /\ delta' = delta /\ last_commit_ts \in Nat
    BY <1>1, <1>2, Zenon DEF tmVars, deltaVars, TMInv, TMTypeOK
  <2> QED BY <1>1, <1>3, <2>1 DEF CompactSound, WatermarkSafe
<1>5. IsFiniteSet(compacting'.live_stable_rows) /\ RowIds(compacting'.live_stable_rows) = {}
  BY <1>3, FS_EmptySet, Zenon DEF RowIds
<1>6. \A t \in DOMAIN inserting : ~inserting[t].locked
  BY Zenon DEF CompactBegin
<1>7. compacting' \in [running : BOOLEAN, oldest_active : Nat, todo : SUBSET DOMAIN delta,
                  live_stable_rows : SUBSET BaseRow, stably_deleted_row_ids : SUBSET Nat,
                  retained : SUBSET DOMAIN delta]
      /\ compacting'.live_stable_rows = {}
  BY <1>1, <1>3, Zenon
<1> QED BY <1>2, <1>4, <1>5, <1>6, <1>7, CompactLocal, ZenonT(30)

\* Classifying one record with the statuses of the moment keeps the invariant.
LEMMA TableCompactRecord ==
  ASSUME TableInv, CompactRecord
  PROVE  TableInv'
<1> DEFINE p == Min(compacting.todo)
           row == [row_id |-> delta[p].row_id, row |-> delta[p].row]
           promoted == IF Promotes(p) THEN {row} ELSE {}
           purged == IF Purges(p) THEN {delta[p].row_id} ELSE {}
           kept == IF Retires(p) THEN {} ELSE {p}
<1>1. compacting \in [running : BOOLEAN, oldest_active : Nat, todo : SUBSET DOMAIN delta,
                 live_stable_rows : SUBSET BaseRow, stably_deleted_row_ids : SUBSET Nat,
                 retained : SUBSET DOMAIN delta]
      /\ IsFiniteSet(compacting.live_stable_rows)
  BY DEF TableInv, TypeOK
<1>2. p \in DOMAIN delta
  <2>1. compacting.todo \in SUBSET Nat /\ compacting.todo # {} /\ compacting.todo \subseteq DOMAIN delta
    BY <1>1 DEF CompactRecord, TableInv, TypeOK
  <2>2. p \in compacting.todo
    BY <2>1, MinIsLeast, Zenon
  <2> QED BY <2>1, <2>2, Zenon
<1>3. UNCHANGED <<tmVars, deltaVars, baseVars, next_row_id, inserting, scanning, metrics,
                  historyVars>>
  BY Zenon DEF CompactRecord
<1>4. row \in BaseRow /\ delta[p].row_id \in Nat /\ delta[p].row_id < next_row_id
  BY <1>2, Zenon DEF TableInv, TypeOK, RecordsRefer, DeltaRecord, BaseRow
<1>5. compacting' = [compacting EXCEPT !.todo = @ \ {p},
                       !.live_stable_rows = @ \cup promoted,
                       !.stably_deleted_row_ids = @ \cup purged,
                       !.retained = @ \cup kept]
  BY Zenon DEF CompactRecord
<1>6. promoted \in SUBSET BaseRow /\ IsFiniteSet(promoted)
      /\ \A b \in promoted : b.row_id = delta[p].row_id
  <2> HIDE DEF row
  <2>1. IsFiniteSet({}) /\ IsFiniteSet({row})
    BY FS_EmptySet, FS_Singleton, ZenonT(30)
  <2>2. row.row_id = delta[p].row_id
    BY Zenon DEF row
  <2> QED BY <1>4, <2>1, <2>2, Zenon
<1>7. purged \in SUBSET Nat
  BY <1>4, Zenon
<1>8. kept \in SUBSET DOMAIN delta /\ (p \in kept \/ Retires(p))
  BY <1>2, ZenonT(30)
<1> HIDE DEF p, promoted, purged, kept, row
<1>9. /\ compacting' \in [running : BOOLEAN, oldest_active : Nat, todo : SUBSET DOMAIN delta,
                     live_stable_rows : SUBSET BaseRow, stably_deleted_row_ids : SUBSET Nat,
                     retained : SUBSET DOMAIN delta]
      /\ compacting'.running = compacting.running
      /\ compacting'.oldest_active = compacting.oldest_active
      /\ compacting'.todo = compacting.todo \ {p}
      /\ compacting'.live_stable_rows = compacting.live_stable_rows \cup promoted
      /\ compacting'.retained = compacting.retained \cup kept
  BY <1>1, <1>5, <1>6, <1>7, <1>8, ZenonT(30)
<1>10. IsFiniteSet(compacting'.live_stable_rows)
  <2>1. IsFiniteSet(compacting.live_stable_rows) /\ IsFiniteSet(promoted)
    BY <1>1, <1>6, Zenon
  <2>2. IsFiniteSet(compacting.live_stable_rows \cup promoted)
    BY <2>1, FS_Union, ZenonT(30)
  <2> QED BY <1>9, <2>2, Zenon
<1>11. \A b \in compacting'.live_stable_rows : b.row_id < next_row_id
  BY <1>4, <1>6, <1>9, ZenonT(30) DEF TableInv, InsertFresh
<1>12. \A t \in DOMAIN inserting : ~inserting[t].locked =>
         inserting[t].row_id \notin RowIds(compacting'.live_stable_rows)
  BY <1>2, <1>6, <1>9 DEF TableInv, InsertFresh, RowIds, RecordsOf
<1>13. (\E t \in DOMAIN inserting : inserting[t].locked) => ~compacting'.running
  BY <1>9, Zenon DEF TableInv, UpdateOwns
<1>14. CompactSound'
  <2>1. /\ txn' = txn /\ active_txn_ids' = active_txn_ids /\ last_commit_ts' = last_commit_ts
        /\ delta' = delta /\ UNCHANGED tmVars /\ TMInv
    BY <1>3, Zenon DEF tmVars, deltaVars, TableInv
  <2>2. \A x : Retires(x)' <=> Retires(x)
    BY <1>9, <2>1, ManagerIdle, ZenonT(30) DEF Retires, IsHead, Superseded, Stable, RecordsOf
  <2> QED BY <1>8, <1>9, <2>1, <2>2, Zenon DEF TableInv, CompactSound
<1> QED BY <1>3, <1>9, <1>10, <1>11, <1>12, <1>13, <1>14, CompactLocal, ZenonT(30)

\* What Compact drops from the delta names only aborted transactions and settled ones.
LEMMA RetiresSettled ==
  ASSUME TableInv, compacting.running, NEW p \in DOMAIN delta, Retires(p),
         NEW t \in DOMAIN txn, ~Aborted(t), t \in {delta[p].created_txn, delta[p].deleted_txn}
  PROVE  Settled(t)
<1> DEFINE c == delta[p].created_txn
           d == delta[p].deleted_txn
<1>1. TMInv /\ t # 0
  BY Nobody, Zenon DEF TableInv
<1>2. /\ compacting.oldest_active \in 0..last_commit_ts /\ last_commit_ts \in Nat
      /\ \A u \in active_txn_ids : /\ compacting.oldest_active <= txn[u].snapshot_ts
                                   /\ txn[u].snapshot_ts \in Nat
      /\ \A u \in DOMAIN status : status[u].commit_ts \in Nat
  BY <1>1, ZenonT(30) DEF TableInv, CompactSound, TMInv, TMTypeOK, Transaction, TxnStatus
<1>3. Stable(t) => Settled(t)
  BY <1>2 DEF Stable, Settled, CommittedBy, Committed, GetStatus
<1>4. d # 0 /\ ~Aborted(d) => c = 0 \/ SeenBy(c, d)
  BY Zenon DEF TableInv, ClaimsSee
<1>5. ASSUME d # 0, Stable(d) PROVE Stable(t)
  <2>1. ~Aborted(d) /\ d \in DOMAIN txn
    BY <1>5, Zenon DEF Stable, CommittedBy, Committed, Aborted, TableInv, RecordsRefer
  <2>2. CASE t = d
    BY <1>5, <2>2, Zenon
  <2>3. CASE t = c /\ t # d
    <3>1. CommittedBy(c, txn[d].snapshot_ts)
      BY <1>1, <1>4, <1>5, <2>1, <2>3, Zenon DEF SeenBy
    <3> QED BY <1>1, <1>2, <1>5, <2>1, <2>3, <3>1
            DEF Stable, CommittedBy, Committed, GetStatus, TMInv, TMTypeOK, Clocked, Transaction
  <2> QED BY <2>2, <2>3, Zenon
<1>6. CASE ~delta[p].is_base_tombstone /\ Aborted(c)
  <2>1. t = d /\ c # 0
    BY <1>6, Zenon DEF TableInv, RecordsRefer
  <2>2. SeenBy(c, d)
    BY <1>1, <1>4, <2>1, ZenonT(30)
  <2> QED BY <1>6, <2>1, <2>2, Zenon DEF SeenBy, CommittedBy, Committed, Aborted
<1>7. CASE Superseded(delta[p])
  BY <1>3, <1>5, <1>7, Zenon DEF Superseded
<1>8. CASE delta[p].is_base_tombstone /\ Aborted(d)
  BY <1>1, <1>8, Zenon DEF TableInv, RecordsRefer
<1>9. CASE Stable(c) /\ d = 0
  BY <1>1, <1>3, <1>9, Zenon
<1> QED BY <1>6, <1>7, <1>8, <1>9, ZenonT(30) DEF Retires

\* Installing the rebuilt base and the retained records keeps the invariant.
LEMMA TableCompactEnd ==
  ASSUME TableInv, CompactEnd
  PROVE  TableInv'
<1>1. /\ TMInv /\ UNCHANGED tmVars /\ txn' = txn /\ compacting.running /\ compacting.todo = {}
      /\ next_pos' = next_pos /\ next_row_id' = next_row_id /\ inserting' = inserting
      /\ scanning' = scanning /\ store' = store /\ view' = view /\ wrote' = wrote
  BY Zenon DEF CompactEnd, historyVars, tmVars, TableInv
<1>2. /\ compacting \in [running : BOOLEAN, oldest_active : Nat, todo : SUBSET DOMAIN delta,
                 live_stable_rows : SUBSET BaseRow, stably_deleted_row_ids : SUBSET Nat,
                 retained : SUBSET DOMAIN delta]
      /\ IsFiniteSet(compacting.live_stable_rows)
  BY Zenon DEF TableInv, TypeOK
<1>3. /\ DOMAIN delta' = compacting.retained /\ compacting.retained \subseteq DOMAIN delta
      /\ \A p \in DOMAIN delta' : delta'[p] = delta[p]
      /\ \A p \in DOMAIN delta' : Live(p)' <=> Live(p)
      /\ \A r : RecordsOf(r)' = RecordsOf(r) \cap compacting.retained
  <2>1. DOMAIN delta' = compacting.retained /\ compacting.retained \subseteq DOMAIN delta
        /\ \A p \in DOMAIN delta' : delta'[p] = delta[p]
    BY <1>2, Zenon DEF CompactEnd, Restrict
  <2> QED BY <1>1, <2>1, ManagerIdle, Zenon DEF Live, RecordsOf
<1>4. /\ base' \subseteq base \cup compacting.live_stable_rows
      /\ base_segments' \in [DOMAIN base_segments' -> SUBSET BaseRow]
      /\ next_segment_id' \in Nat \ {0}
      /\ DOMAIN base_segments' \subseteq 1..(next_segment_id' - 1)
  <2>1. base \subseteq BaseRow
    BY DEF base, Range, TableInv, TypeOK
  <2>2. CASE UNCHANGED baseVars
    BY <2>2, ZenonT(30) DEF baseVars, base, Range, TableInv, TypeOK
  <2>3. CASE /\ base_segments' = [s \in {next_segment_id} |->
                  Without(base, compacting.stably_deleted_row_ids) \cup compacting.live_stable_rows]
             /\ next_segment_id' = next_segment_id + 1
    <3> DEFINE rows == Without(base, compacting.stably_deleted_row_ids) \cup compacting.live_stable_rows
    <3>1. rows \subseteq base \cup compacting.live_stable_rows /\ rows \subseteq BaseRow
      BY <1>2, <2>1, Zenon DEF Without
    <3> HIDE DEF rows
    <3>2. base_segments' = [s \in {next_segment_id} |-> rows]
      BY <2>3, Zenon DEF rows
    <3>3. base' = rows
      BY <3>2, Zenon DEF base, Range
    <3> QED BY <2>3, <3>1, <3>2, <3>3 DEF TableInv, TypeOK
  <2> QED BY <2>2, <2>3, ZenonT(30) DEF CompactEnd, InstallBase
<1>5. compacting' = NotCompacting /\ ~compacting'.running
      /\ compacting'.live_stable_rows = {} /\ RowIds(compacting'.live_stable_rows) = {}
  BY Zenon DEF CompactEnd, NotCompacting, RowIds
<1>6. TypeOK'
  <2>1. metrics' \in [runs : Nat, rows_promoted : Nat, rows_retired : Int]
    <3>1. Cardinality(compacting.live_stable_rows) \in Nat
      BY <1>2, FS_CardinalityType, Zenon
    <3>2. IsFiniteSet(DOMAIN delta)
      <4>1. DOMAIN delta \subseteq 1..(next_pos - 1) /\ 1 \in Int /\ next_pos - 1 \in Int
        BY DEF TableInv, TypeOK
      <4>2. IsFiniteSet(1..(next_pos - 1))
        BY <4>1, FS_Interval, Zenon
      <4> QED BY <4>1, <4>2, FS_Subset, Zenon
    <3>3. IsFiniteSet(compacting.retained)
      BY <1>3, <3>2, FS_Subset, Zenon
    <3>4. Cardinality(DOMAIN delta) \in Nat /\ Cardinality(compacting.retained) \in Nat
      BY <3>2, <3>3, FS_CardinalityType, Zenon
    <3> QED BY <3>1, <3>4 DEF CompactEnd, TableInv, TypeOK
  <2>2. delta' \in [DOMAIN delta' -> DeltaRecord] /\ DOMAIN delta' \subseteq 1..(next_pos - 1)
    BY <1>3, Zenon DEF CompactEnd, Restrict, TableInv, TypeOK
  <2>3. compacting' \in [running : BOOLEAN, oldest_active : Nat, todo : SUBSET DOMAIN delta',
                 live_stable_rows : SUBSET BaseRow, stably_deleted_row_ids : SUBSET Nat,
                 retained : SUBSET DOMAIN delta']
    BY <1>5, Zenon DEF NotCompacting
  <2>4. IsFiniteSet(compacting'.live_stable_rows)
    BY <1>5, FS_EmptySet, Zenon
  <2> QED BY <1>1, <1>4, <2>1, <2>2, <2>3, <2>4, ManagerIdle, ZenonT(30) DEF TableInv, TypeOK
<1>7. RecordsRefer' /\ ClaimsSee' /\ VersionChain'
  <2>1. RecordsRefer'
    BY <1>1, <1>3, ZenonT(30) DEF TableInv, RecordsRefer
  <2>2. ClaimsSee'
    BY <1>1, <1>3, ManagerIdle, Zenon DEF TableInv, ClaimsSee
  <2>3. VersionChain'
    BY <1>1, <1>3, ManagerIdle, ZenonT(30) DEF TableInv, VersionChain
  <2> QED BY <2>1, <2>2, <2>3, ZenonT(30)
<1>8. UpdateOwns'
  BY <1>1, Zenon DEF TableInv, UpdateOwns
<1>9. InsertFresh'
  BY <1>1, <1>3, <1>4, <1>5, ManagerIdle, ZenonT(30) DEF TableInv, InsertFresh, RowIds
<1>10. WritesLeaveTrace'
  <2> SUFFICES ASSUME NEW t \in DOMAIN txn, NEW r \in wrote[t], ~Aborted(t), ~Settled(t)
               PROVE  \E p \in RecordsOf(r)' : t \in {delta'[p].created_txn, delta'[p].deleted_txn}
    BY <1>1, ManagerIdle, Zenon DEF WritesLeaveTrace
  <2>1. PICK p \in RecordsOf(r) : t \in {delta[p].created_txn, delta[p].deleted_txn}
    BY Zenon DEF TableInv, WritesLeaveTrace
  <2>2. p \in DOMAIN delta
    BY Zenon DEF RecordsOf
  <2>3. p \in compacting.retained
    <3> SUFFICES ASSUME p \notin compacting.retained PROVE FALSE
      BY Zenon
    <3>1. Retires(p)
      BY <1>1, <2>2, ZenonT(30) DEF TableInv, CompactSound
    <3> QED BY <1>1, <2>1, <2>2, <3>1, RetiresSettled, Zenon
  <2> QED BY <1>3, <2>1, <2>3, Zenon
<1>11. CompactSound'
  BY <1>5, Zenon DEF CompactSound
<1>12. FirstClaimerWins'
  BY <1>1, ManagerIdle, Zenon DEF TableInv, FirstClaimerWins
<1> QED BY <1>1, <1>6, <1>7, <1>8, <1>9, <1>10, <1>11, <1>12, ManagerIdle, ZenonT(30) DEF TableInv

-----------------------------------------------------------------------------
\* A freshly loaded table satisfies the invariant.
LEMMA TableInitInv == TableInit => TableInv
<1> SUFFICES ASSUME TableInit PROVE TableInv
  BY Zenon
<1>1. TMInv /\ TMTypeOK
  BY TMInitInv, Zenon DEF TableInit, TMInv
<1>2. txn = << >> /\ active_txn_ids = {} /\ delta = << >> /\ inserting = << >> /\ scanning = << >>
      /\ view = << >> /\ wrote = << >> /\ compacting = NotCompacting
  BY DEF TableInit, TMInit
<1>3. /\ next_row_id \in Nat \ {0} /\ \A r \in BaseRows : r < next_row_id
      /\ BaseRows \subseteq Nat
  <2> DEFINE m == Max(BaseRows \cup {0})
  <2>1. m \in BaseRows \cup {0} /\ \A x \in BaseRows \cup {0} : x <= m
    <3>1. BaseRows \cup {0} \in SUBSET Nat /\ MaxRow \in Nat
          /\ \A x \in BaseRows \cup {0} : x <= MaxRow
      BY TableAssumption
    <3> QED BY <3>1, MaxIsGreatest, ZenonT(30)
  <2>2. next_row_id = m + 1
    BY Zenon DEF TableInit
  <2> HIDE DEF m
  <2> QED BY <2>1, <2>2, TableAssumption
<1>4. /\ base_segments \in [DOMAIN base_segments -> SUBSET BaseRow]
      /\ next_segment_id \in Nat \ {0} /\ DOMAIN base_segments \subseteq 1..(next_segment_id - 1)
      /\ base \subseteq {[row_id |-> r, row |-> 0] : r \in BaseRows}
  <2> DEFINE rows == {[row_id |-> r, row |-> 0] : r \in BaseRows}
  <2>1. rows \subseteq BaseRow
    BY <1>3 DEF BaseRow
  <2>2. CASE BaseRows = {}
    <3>1. base_segments = << >> /\ next_segment_id = 1
      BY <2>2, Zenon DEF TableInit
    <3> QED BY <3>1 DEF base, Range
  <2>3. CASE BaseRows # {}
    <3>1. base_segments = [s \in {1} |-> rows] /\ next_segment_id = 2
      BY <2>3, Zenon DEF TableInit
    <3> HIDE DEF rows
    <3>2. base = rows
      BY <3>1, Zenon DEF base, Range
    <3>3. base_segments \in [DOMAIN base_segments -> SUBSET BaseRow] /\ DOMAIN base_segments = {1}
      BY <2>1, <3>1, Zenon
    <3> QED BY <3>1, <3>2, <3>3 DEF rows
  <2> QED BY <2>2, <2>3, Zenon
<1>5. TypeOK
  <2>1. compacting \in [running : BOOLEAN, oldest_active : Nat, todo : SUBSET DOMAIN delta,
                   live_stable_rows : SUBSET BaseRow, stably_deleted_row_ids : SUBSET Nat,
                   retained : SUBSET DOMAIN delta]
        /\ IsFiniteSet(compacting.live_stable_rows)
    BY <1>2, FS_EmptySet, Zenon DEF NotCompacting
  <2>2. metrics \in [runs : Nat, rows_promoted : Nat, rows_retired : Int]
    BY DEF TableInit
  <2>3. store \subseteq BaseRow
    BY <1>3, <1>4, Zenon DEF TableInit, BaseRow
  <2>4. next_pos = 1
    BY Zenon DEF TableInit
  <2>5. /\ delta \in [DOMAIN delta -> DeltaRecord] /\ DOMAIN delta \subseteq 1..(next_pos - 1)
        /\ inserting \in [DOMAIN inserting -> [row_id : Nat, locked : BOOLEAN]]
        /\ DOMAIN inserting \cup DOMAIN scanning \subseteq active_txn_ids
    BY <1>2, <2>4
  <2> QED BY <1>1, <1>2, <1>3, <1>4, <2>1, <2>2, <2>3, <2>4, <2>5 DEF TypeOK
<1>6. RecordsRefer /\ ClaimsSee /\ VersionChain /\ UpdateOwns /\ CompactSound
      /\ WritesLeaveTrace /\ FirstClaimerWins
  <2>1. RecordsRefer /\ ClaimsSee /\ VersionChain
    BY <1>2 DEF RecordsRefer, ClaimsSee, VersionChain
  <2>2. UpdateOwns /\ CompactSound
    BY <1>2 DEF UpdateOwns, CompactSound, NotCompacting
  <2>3. WritesLeaveTrace /\ FirstClaimerWins
    BY <1>2 DEF WritesLeaveTrace, FirstClaimerWins
  <2> QED BY <2>1, <2>2, <2>3, Zenon
<1>7. InsertFresh
  BY <1>2, <1>3, <1>4 DEF InsertFresh, NotCompacting
<1> QED BY <1>1, <1>5, <1>6, <1>7, Zenon DEF TableInv

\* Every step of the table keeps the invariant.
LEMMA TableStepInv ==
  ASSUME TableInv, [Next]_vars
  PROVE  TableInv'
<1>1. CASE Begin
  BY <1>1, TableBegin, Zenon
<1>2. ASSUME NEW t \in active_txn_ids, TxnStep(t) PROVE TableInv'
  <2>1. CASE Commit(t) \/ Abort(t)
    BY <2>1, TableFinish, Zenon
  <2>2. CASE Insert(t)
    BY <2>2, TableInsert, ZenonT(30)
  <2>3. CASE SnapshotForScan(t)
    BY <2>3, TableScan, ZenonT(30) DEF SnapshotForScan, Extend, TableInv, TypeOK
  <2>4. ASSUME NEW r \in 1..(next_row_id - 1), Update(t, r) \/ Delete(t, r) PROVE TableInv'
    BY <2>4, TableClaim, Zenon
  <2> QED BY <1>2, <2>1, <2>2, <2>3, <2>4, ZenonT(30) DEF TxnStep
<1>3. ASSUME NEW t \in DOMAIN inserting, DeltaInsert(t, next_pos) PROVE TableInv'
  BY <1>3, TableDeltaInsert, Zenon
<1>4. ASSUME NEW t \in DOMAIN scanning, ScanRecord(t) \/ ScanEnd(t) PROVE TableInv'
  <2>1. DOMAIN scanning' \subseteq active_txn_ids
    BY <1>4 DEF ScanRecord, ScanEnd, Restrict, TableInv, TypeOK
  <2> QED BY <1>4, <2>1, TableScan, ZenonT(30) DEF ScanRecord, ScanEnd
<1>5. CASE CompactBegin
  BY <1>5, TableCompactBegin
<1>6. CASE CompactRecord
  BY <1>6, TableCompactRecord
<1>7. CASE CompactEnd
  BY <1>7, TableCompactEnd
<1>8. CASE UNCHANGED vars
  <2>1. DOMAIN scanning' \subseteq active_txn_ids
    BY <1>8, Zenon DEF vars, tableVars, TableInv, TypeOK
  <2> QED BY <1>8, <2>1, TableScan, Zenon DEF vars, tableVars
<1> QED BY <1>1, <1>2, <1>3, <1>4, <1>5, <1>6, <1>7, <1>8, ZenonT(30) DEF Next

-----------------------------------------------------------------------------
\* No step of a client, a scan or a Compact breaks the invariant the claims rest on.
THEOREM TableInvariant == Spec => []TableInv
<1>1. TableInv /\ [Next]_vars => TableInv'
  BY TableStepInv, Zenon
<1> QED BY TableInitInv, <1>1, PTL DEF Spec

\* Every variable keeps its type.
THEOREM TypeCorrect == Spec => []TypeOK
<1>1. TableInv => TypeOK
  BY Zenon DEF TableInv
<1> QED BY <1>1, TableInvariant, PTL

\* ClaimOrInsertBaseTombstone admits one writer of a row at a time, and Compact never
\* forgets a claim that some running transaction could still collide with.
THEOREM WriteExclusion == Spec => []FirstClaimerWins
<1>1. TableInv => FirstClaimerWins
  BY DEF TableInv
<1> QED BY <1>1, TableInvariant, PTL

\* The table drives the manager by Begin, Commit and Abort alone, so the theorems about
\* the manager hold of a table: a Compact never sees its watermark go back.
THEOREM TableDrivesManager == Spec => TMSpec
<1>1. ASSUME TableInv, [Next]_vars PROVE [TMNext]_tmVars
  <2>1. active_txn_ids \subseteq DOMAIN txn
    BY <1>1, ZenonT(30) DEF TableInv, TypeOK, TMTypeOK
  <2>2. CASE Begin
    BY <2>2, Zenon DEF Begin, TMNext
  <2>3. ASSUME NEW t \in active_txn_ids, TxnStep(t) PROVE [TMNext]_tmVars
    BY <2>1, <2>3, ZenonT(30) DEF TxnStep, Commit, Abort, Insert, SnapshotForScan, Update, Delete, TMNext
  <2>4. CASE \E t \in DOMAIN inserting : DeltaInsert(t, next_pos)
    BY <2>4, ZenonT(30) DEF DeltaInsert
  <2>5. CASE \E t \in DOMAIN scanning : ScanRecord(t) \/ ScanEnd(t)
    BY <2>5, ZenonT(30) DEF ScanRecord, ScanEnd
  <2>6. CASE CompactBegin \/ CompactRecord \/ CompactEnd
    BY <2>6, ZenonT(30) DEF CompactBegin, CompactRecord, CompactEnd
  <2>7. CASE UNCHANGED vars
    BY <2>7, Zenon DEF vars
  <2> QED BY <1>1, <2>2, <2>3, <2>4, <2>5, <2>6, <2>7, ZenonT(30) DEF Next
<1>2. TableInit => TMInit
  BY DEF TableInit
<1>3. Spec => [][TMNext]_tmVars
  <2>1. TableInv /\ [Next]_vars => [TMNext]_tmVars
    BY <1>1, ZenonT(30)
  <2> QED BY <2>1, TableInvariant, PTL DEF Spec
<1> QED BY <1>2, <1>3, PTL DEF Spec, TMSpec

-----------------------------------------------------------------------------
(* The counters of Compact.  rows_retired is an unsigned difference of     *)
(* sizes: it stays above zero because a Compact puts every record it looks *)
(* at in one place at most, which CompactAccounts counts.                  *)

\* The delta and the locals of a Compact are finite.
LEMMA Finite ==
  ASSUME TypeOK
  PROVE  /\ IsFiniteSet(DOMAIN delta) /\ IsFiniteSet(compacting.todo)
         /\ IsFiniteSet(compacting.retained) /\ IsFiniteSet(compacting.live_stable_rows)
         /\ Cardinality(DOMAIN delta) \in Nat /\ Cardinality(compacting.todo) \in Nat
         /\ Cardinality(compacting.retained) \in Nat
         /\ Cardinality(compacting.live_stable_rows) \in Nat
<1>1. IsFiniteSet(DOMAIN delta)
  <2>1. DOMAIN delta \in SUBSET (1..(next_pos - 1)) /\ next_pos - 1 \in Int
    BY DEF TypeOK
  <2>2. IsFiniteSet(1..(next_pos - 1))
    BY <2>1, FS_Interval
  <2> QED BY <2>1, <2>2, FS_Subset, Zenon
<1>2. compacting.todo \in SUBSET DOMAIN delta /\ compacting.retained \in SUBSET DOMAIN delta
      /\ IsFiniteSet(compacting.live_stable_rows)
  BY DEF TypeOK
<1>3. IsFiniteSet(compacting.todo) /\ IsFiniteSet(compacting.retained)
  BY <1>1, <1>2, FS_Subset, Zenon
<1> QED BY <1>1, <1>2, <1>3, FS_CardinalityType, Zenon

\* A push_back, outside any Compact, is one more record in the delta.
LEMMA PushCounts ==
  ASSUME TypeOK, MetricsAddUp, ~compacting.running, NEW rec, Push(rec),
         UNCHANGED <<compacting, metrics>>
  PROVE  MetricsAddUp' /\ CompactAccounts'
<1>1. DOMAIN delta' = DOMAIN delta \cup {next_pos} /\ next_pos' = next_pos + 1
  BY Zenon DEF Push, Extend
<1>2. next_pos \notin DOMAIN delta /\ next_pos \in Int
      /\ metrics.rows_promoted \in Int /\ metrics.rows_retired \in Int
  BY DEF TypeOK
<1>3. Cardinality(DOMAIN delta') = Cardinality(DOMAIN delta) + 1
  BY <1>1, <1>2, Finite, FS_AddElement, Zenon
<1>4. Cardinality(DOMAIN delta) \in Nat
  BY Finite, Zenon
<1>5. MetricsAddUp'
  BY <1>1, <1>2, <1>3, <1>4 DEF MetricsAddUp
<1> QED BY <1>5, Zenon DEF CompactAccounts

\* What leaves the positions, the locals of Compact and the counters alone keeps both.
LEMMA NothingMoves ==
  ASSUME MetricsAddUp, CompactAccounts, DOMAIN delta' = DOMAIN delta,
         UNCHANGED <<next_pos, compacting, metrics>>
  PROVE  MetricsAddUp' /\ CompactAccounts'
BY DEF MetricsAddUp, CompactAccounts

\* A claim stamps a record, or pushes a tombstone.
LEMMA ClaimCounts ==
  ASSUME TypeOK, MetricsAddUp, CompactAccounts, ~compacting.running, NEW r, NEW w, Claim(r, w),
         UNCHANGED <<compacting, metrics>>
  PROVE  MetricsAddUp' /\ CompactAccounts'
<1>1. CASE \E p \in DOMAIN delta : delta' = [delta EXCEPT ![p].deleted_txn = w]
                                  /\ UNCHANGED next_pos
  <2>1. DOMAIN delta' = DOMAIN delta /\ next_pos' = next_pos
    BY <1>1, Zenon
  <2> QED BY <2>1, NothingMoves, Zenon
<1>2. CASE Push([row_id |-> r, created_txn |-> 0, deleted_txn |-> w, row |-> 0,
                 is_base_tombstone |-> TRUE])
  BY <1>2, PushCounts, Zenon
<1> QED BY <1>1, <1>2, ZenonT(30) DEF Claim

\* The watermark is taken with every record still to be looked at.
LEMMA BeginAccounts ==
  ASSUME TypeOK, MetricsAddUp, CompactBegin
  PROVE  MetricsAddUp' /\ CompactAccounts'
<1>1. /\ delta' = delta /\ next_pos' = next_pos /\ metrics' = metrics
      /\ compacting'.live_stable_rows = {} /\ compacting'.retained = {}
      /\ compacting'.todo = DOMAIN delta
  BY Zenon DEF CompactBegin, NotCompacting, deltaVars
<1>2. CompactAccounts'
  BY <1>1, Finite, FS_EmptySet DEF CompactAccounts
<1> QED BY <1>1, <1>2, Zenon DEF MetricsAddUp

\* A record that is promoted is retired: looking at one takes it off the list and puts
\* it in one place at most.
LEMMA RecordAccounts ==
  ASSUME TypeOK, MetricsAddUp, CompactAccounts, CompactRecord
  PROVE  MetricsAddUp' /\ CompactAccounts'
<1> DEFINE p == Min(compacting.todo)
           row == [row_id |-> delta[p].row_id, row |-> delta[p].row]
           live == compacting.live_stable_rows
           kept == compacting.retained
           todo == compacting.todo
<1>1. /\ delta' = delta /\ next_pos' = next_pos /\ metrics' = metrics
      /\ compacting'.running = compacting.running
      /\ compacting'.todo = todo \ {p}
      /\ compacting'.live_stable_rows = live \cup (IF Promotes(p) THEN {row} ELSE {})
      /\ compacting'.retained = kept \cup (IF Retires(p) THEN {} ELSE {p})
  BY DEF CompactRecord, deltaVars, TypeOK
<1>2. p \in todo
  <2>1. todo \in SUBSET Nat /\ todo # {}
    BY DEF CompactRecord, TypeOK
  <2> HIDE DEF todo
  <2> QED BY <2>1, MinIsLeast, Zenon DEF todo
<1>3. Promotes(p) => Retires(p)
  BY Zenon DEF Promotes, Retires
<1> HIDE DEF p, row, live, kept, todo
<1>4. /\ IsFiniteSet(todo) /\ IsFiniteSet(kept) /\ IsFiniteSet(live)
      /\ Cardinality(todo) \in Nat /\ Cardinality(kept) \in Nat /\ Cardinality(live) \in Nat
      /\ Cardinality(DOMAIN delta) \in Nat
  BY Finite, Zenon DEF todo, kept, live
<1>5. Cardinality(todo \ {p}) = Cardinality(todo) - 1
  BY <1>2, <1>4, FS_RemoveElement, ZenonT(30)
<1>6. Cardinality(live \cup {row}) \in {Cardinality(live), Cardinality(live) + 1}
  BY <1>4, FS_AddElement, ZenonT(30)
<1>7. Cardinality(kept \cup {p}) \in {Cardinality(kept), Cardinality(kept) + 1}
  BY <1>4, FS_AddElement, ZenonT(30)
<1>8. live \cup {} = live /\ kept \cup {} = kept
  BY Zenon
<1>9. compacting.running => Cardinality(compacting'.live_stable_rows)
        + Cardinality(compacting'.retained) + Cardinality(compacting'.todo)
          <= Cardinality(DOMAIN delta)
  <2>1. compacting.running =>
          Cardinality(live) + Cardinality(kept) + Cardinality(todo) <= Cardinality(DOMAIN delta)
    BY Zenon DEF CompactAccounts, live, kept, todo
  <2>2. CASE Promotes(p)
    BY <1>1, <1>3, <1>4, <1>5, <1>6, <1>8, <2>1, <2>2
  <2>3. CASE ~Promotes(p) /\ Retires(p)
    BY <1>1, <1>4, <1>5, <1>8, <2>1, <2>3
  <2>4. CASE ~Promotes(p) /\ ~Retires(p)
    BY <1>1, <1>4, <1>5, <1>7, <1>8, <2>1, <2>4
  <2> QED BY <2>2, <2>3, <2>4, Zenon
<1> QED BY <1>1, <1>9, ZenonT(30) DEF MetricsAddUp, CompactAccounts

\* What leaves the delta is what the counters grow by.
LEMMA EndAccounts ==
  ASSUME TypeOK, MetricsAddUp, CompactAccounts, CompactEnd
  PROVE  MetricsAddUp' /\ CompactAccounts'
<1> DEFINE live == Cardinality(compacting.live_stable_rows)
           kept == Cardinality(compacting.retained)
           all == Cardinality(DOMAIN delta)
<1>1. /\ metrics'.rows_promoted = metrics.rows_promoted + live
      /\ metrics'.rows_retired = metrics.rows_retired + (all - kept - live)
      /\ next_pos' = next_pos /\ ~compacting'.running
      /\ compacting.running /\ compacting.todo = {}
  BY Zenon DEF CompactEnd, NotCompacting
<1>2. DOMAIN delta' = compacting.retained
  BY Zenon DEF CompactEnd, Restrict, TypeOK
<1>3. live \in Nat /\ kept \in Nat /\ all \in Nat /\ live + kept <= all
  BY <1>1, Finite, FS_EmptySet DEF CompactAccounts
<1>4. metrics.rows_promoted \in Int /\ metrics.rows_retired \in Int /\ next_pos \in Int
  BY DEF TypeOK
<1>5. MetricsAddUp'
  <2>1. Cardinality(DOMAIN delta') = kept
    BY <1>2, Zenon
  <2>2. metrics.rows_retired >= 0
        /\ next_pos - 1 = all + metrics.rows_promoted + metrics.rows_retired
    BY DEF MetricsAddUp
  <2> HIDE DEF live, kept, all
  <2> QED BY <1>1, <1>3, <1>4, <2>1, <2>2 DEF MetricsAddUp
<1> QED BY <1>1, <1>5, Zenon DEF CompactAccounts

\* Every step of the table keeps the accounts.
LEMMA AccountsStep ==
  ASSUME TableInv, MetricsAddUp, CompactAccounts, [Next]_vars
  PROVE  MetricsAddUp' /\ CompactAccounts'
<1>1. TypeOK
  BY Zenon DEF TableInv
<1>2. CASE Begin
  BY <1>2, NothingMoves, Zenon DEF Begin, tableVars, deltaVars
<1>3. ASSUME NEW t \in active_txn_ids, TxnStep(t) PROVE MetricsAddUp' /\ CompactAccounts'
  <2>1. CASE Commit(t) \/ Abort(t)
    BY <2>1, NothingMoves, Zenon DEF Commit, Abort, tableVars, deltaVars
  <2>2. CASE Insert(t) \/ SnapshotForScan(t)
    BY <2>2, NothingMoves, Zenon DEF Insert, SnapshotForScan, deltaVars
  <2>3. ASSUME NEW r \in 1..(next_row_id - 1), Update(t, r) \/ Delete(t, r)
        PROVE  MetricsAddUp' /\ CompactAccounts'
    BY <1>1, <2>3, ClaimCounts, Zenon DEF Update, Delete
  <2> QED BY <1>3, <2>1, <2>2, <2>3, ZenonT(30) DEF TxnStep
<1>4. ASSUME NEW t \in DOMAIN inserting, DeltaInsert(t, next_pos)
      PROVE  MetricsAddUp' /\ CompactAccounts'
  BY <1>1, <1>4, PushCounts, Zenon DEF DeltaInsert, AddVersion
<1>5. ASSUME NEW t \in DOMAIN scanning, ScanRecord(t) \/ ScanEnd(t)
      PROVE  MetricsAddUp' /\ CompactAccounts'
  <2>1. UNCHANGED <<deltaVars, compacting, metrics>>
    BY <1>5, Zenon DEF ScanRecord, ScanEnd
  <2> QED BY <2>1, NothingMoves, Zenon DEF deltaVars
<1>6. CASE CompactBegin \/ CompactRecord \/ CompactEnd
  BY <1>1, <1>6, BeginAccounts, RecordAccounts, EndAccounts, ZenonT(30)
<1>7. CASE UNCHANGED vars
  BY <1>7, NothingMoves, Zenon DEF vars, tableVars, deltaVars
<1> QED BY <1>2, <1>3, <1>4, <1>5, <1>6, <1>7, ZenonT(30) DEF Next

\* rows_promoted and rows_retired account for every record that has left the delta, and
\* the unsigned rows_retired never wraps.
THEOREM MetricsAccount == Spec => []MetricsAddUp
<1>1. TableInit => MetricsAddUp /\ CompactAccounts
  <2> SUFFICES ASSUME TableInit PROVE MetricsAddUp /\ CompactAccounts
    BY Zenon
  <2>1. DOMAIN delta = {} /\ next_pos = 1 /\ ~compacting.running
        /\ metrics.rows_promoted = 0 /\ metrics.rows_retired = 0
    BY DEF TableInit, NotCompacting
  <2> QED BY <2>1, FS_EmptySet DEF MetricsAddUp, CompactAccounts
<1>2. TableInv /\ MetricsAddUp /\ CompactAccounts /\ [Next]_vars
        => MetricsAddUp' /\ CompactAccounts'
  BY AccountsStep, Zenon
<1> QED BY <1>1, <1>2, TableInvariant, PTL DEF Spec

-----------------------------------------------------------------------------
(* The compactor drives a table *)

\* A step of the thread, a caller or a client is a step of the table, or leaves it alone.
LEMMA CompactorStepsTable == [CompactorNext]_<<vars, compactorVars>> => [Next]_vars
<1> SUFFICES ASSUME CompactorNext PROVE [Next]_vars
  BY ZenonT(30)
<1>1. CASE Run
  BY <1>1, ZenonT(30) DEF Run, RunCheck, RunPoll, RunCompact, Next
<1>2. CASE Client
  BY <1>2, ZenonT(30) DEF Client, ClientStep, Next
<1>3. CASE \E s \in Stoppers : Stop(s) \/ Join(s)
  BY <1>3, ZenonT(30) DEF Stop, Join
<1> QED BY <1>1, <1>2, <1>3, ZenonT(30) DEF CompactorNext

\* Clients with a BackgroundCompactor see a Table: Run calls Compact and nothing else.
THEOREM CompactorImplementsTable == CompactorSpec => Spec
<1>1. CompactorInit => TableInit
  BY DEF CompactorInit
<1> QED BY <1>1, CompactorStepsTable, PTL DEF CompactorSpec, CompactorSafety, Spec

\* The invariant of the table holds beside a running compactor.
THEOREM CompactorKeepsTable == CompactorSpec => []TableInv
BY CompactorImplementsTable, TableInvariant, PTL

\* So do its accounts.
THEOREM CompactorAccounts == CompactorSpec => []MetricsAddUp
BY CompactorImplementsTable, MetricsAccount, PTL

-----------------------------------------------------------------------------
(* Stop *)

\* A compactor whose thread has just started satisfies the invariant.
LEMMA CompactorInitInv == CompactorInit => CompactorInv
BY DEF CompactorInit, CompactorInv, TableInit, NotCompacting

\* The thread keeps the invariant: it leaves its loop only when stop_ is set, and no
\* Compact outlives its turn of the loop.
LEMMA RunKeeps ==
  ASSUME CompactorInv, Run
  PROVE  CompactorInv'
<1>1. CASE RunCheck \/ RunPoll
  <2>1. compacting' = compacting /\ stop' = stop /\ stopper' = stopper
        /\ thread # "done" /\ thread # "compact"
        /\ thread' \in {"check", "poll", "compact", "done"}
    BY <1>1, Zenon DEF RunCheck, RunPoll, vars, tableVars
  <2> QED BY <2>1, Zenon DEF CompactorInv
<1>2. CASE RunCompact
  <2>1. stop' = stop /\ stopper' = stopper /\ thread = "compact"
    BY <1>2, Zenon DEF RunCompact
  <2>2. CASE thread' = thread
    BY <2>1, <2>2, Zenon DEF CompactorInv
  <2>3. CASE CompactEnd /\ thread' = "check"
    <3>1. ~compacting'.running
      BY <2>3, Zenon DEF CompactEnd, NotCompacting
    <3> QED BY <2>1, <2>3, <3>1, Zenon DEF CompactorInv
  <2> QED BY <1>2, <2>2, <2>3, Zenon DEF RunCompact
<1> QED BY <1>1, <1>2, Zenon DEF Run

\* Stop keeps it: the first caller waits, a later one leaves the first one waiting.
LEMMA StopKeeps ==
  ASSUME CompactorInv, NEW s \in Stoppers, Stop(s)
  PROVE  CompactorInv'
<1>1. thread' = thread /\ compacting' = compacting /\ stop' = TRUE /\ stopper[s] = "idle"
      /\ stopper' = [stopper EXCEPT ![s] = IF stop THEN "returned" ELSE "join"]
  BY Zenon DEF Stop, vars, tableVars
<1>2. stopper' \in [Stoppers -> {"idle", "join", "returned"}]
  BY <1>1, Zenon DEF CompactorInv
<1>3. thread # "done" => \E u \in Stoppers : stopper'[u] = "join"
  BY <1>1, Zenon DEF CompactorInv
<1> QED BY <1>1, <1>2, <1>3, Zenon DEF CompactorInv

\* A join returns only behind the thread.
LEMMA JoinKeeps ==
  ASSUME CompactorInv, NEW s \in Stoppers, Join(s)
  PROVE  CompactorInv'
<1>1. thread' = thread /\ compacting' = compacting /\ stop' = stop /\ stopper[s] = "join"
      /\ thread = "done" /\ stopper' = [stopper EXCEPT ![s] = "returned"]
  BY Zenon DEF Join, vars, tableVars
<1> QED BY <1>1, Zenon DEF CompactorInv

\* No client starts or ends a Compact.
LEMMA ClientKeeps ==
  ASSUME CompactorInv, Client
  PROVE  CompactorInv'
<1>1. compacting' = compacting
  <2>1. CASE Begin
    BY <2>1, Zenon DEF Begin, tableVars
  <2>2. CASE \E t \in active_txn_ids : TxnStep(t)
    BY <2>2, ZenonT(30) DEF TxnStep, Commit, Abort, Insert, SnapshotForScan, Update, Delete, tableVars
  <2>3. CASE \E t \in DOMAIN inserting : DeltaInsert(t, next_pos)
    BY <2>3, Zenon DEF DeltaInsert
  <2>4. CASE \E t \in DOMAIN scanning : ScanRecord(t) \/ ScanEnd(t)
    BY <2>4, Zenon DEF ScanRecord, ScanEnd
  <2> QED BY <2>1, <2>2, <2>3, <2>4, ZenonT(30) DEF Client, ClientStep
<1>2. stop' = stop /\ thread' = thread /\ stopper' = stopper
  BY Zenon DEF Client, compactorVars
<1> QED BY <1>1, <1>2, Zenon DEF CompactorInv

LEMMA CompactorStepInv ==
  ASSUME CompactorInv, [CompactorNext]_<<vars, compactorVars>>
  PROVE  CompactorInv'
<1>1. CASE UNCHANGED <<vars, compactorVars>>
  BY <1>1, Zenon DEF CompactorInv, vars, tableVars, compactorVars
<1> QED BY <1>1, RunKeeps, StopKeeps, JoinKeeps, ClientKeeps, ZenonT(30) DEF CompactorNext

\* Stop is safe to destroy a table behind: when every caller has returned, the thread
\* has ended and no Compact runs.
THEOREM StoppedIsQuiet == CompactorSpec => []QuietWhenStopped
<1>1. CompactorInv => QuietWhenStopped
  BY CompactorAssumption DEF CompactorInv, QuietWhenStopped
<1> QED BY <1>1, CompactorInitInv, CompactorStepInv, PTL DEF CompactorSpec, CompactorSafety
=============================================================================
