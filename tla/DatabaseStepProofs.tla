------------------------- MODULE DatabaseStepProofs -------------------------
(***************************************************************************)
(* Every step of a process that serves clients keeps DbInv: what clients   *)
(* do, and the steps of a checkpoint.                                      *)
(***************************************************************************)
EXTENDS Database, TableClaimProofs

\* more time than by default for every step that names no prover
USE SMTT(30), ZenonT(30)

-----------------------------------------------------------------------------
(* What the parts of DbInv depend on *)

\* Active transactions have positive ids.
LEMMA ActiveIds ==
  ASSUME TMInv
  PROVE  /\ next_id \in Nat \ {0}
         /\ active_txn_ids \subseteq 1..(next_id - 1) /\ active_txn_ids \subseteq DOMAIN txn
         /\ next_id \notin active_txn_ids
BY DEF TMInv, TMTypeOK

\* Only recovery has workers at work.
LEMMA WorkersRest ==
  ASSUME WorkersShape, phase # "redo"
  PROVE  \A w \in Workers : redo[w] = {} /\ redo_step[w] = "begin"
BY Zenon DEF WorkersShape, Busy

\* When none is, the allocator is past every row id.
LEMMA RestRaised ==
  ASSUME DbInv, phase # "redo"
  PROVE  /\ \A p \in DOMAIN delta : delta[p].row_id < next_row_id
         /\ \A t \in DOMAIN inserting : inserting[t].row_id < next_row_id
         /\ \A b \in base \cup compacting.live_stable_rows : b.row_id < next_row_id
<1>1. \A w \in Workers : redo_step[w] = "begin"
  BY WorkersRest, Zenon DEF DbInv
<1> QED BY <1>1, Zenon DEF DbInv, RowIdsRaised, Raised

\* A step that leaves the table alone keeps its shape.
LEMMA MemoryFrame ==
  ASSUME MemoryShape, UNCHANGED tableVars
  PROVE  MemoryShape'
BY Zenon DEF MemoryShape, tableVars, deltaVars, baseVars

\* Outside recovery it keeps the allocator past every row id as well.
LEMMA RaisedFrame ==
  ASSUME DbInv, phase # "redo", UNCHANGED tableVars, UNCHANGED redo_step
  PROVE  RowIdsRaised'
<1>1. /\ delta' = delta /\ inserting' = inserting /\ base' = base
      /\ compacting' = compacting /\ next_row_id' = next_row_id
  BY Zenon DEF tableVars, deltaVars, baseVars, base
<1>2. \A w \in Workers : redo_step'[w] = "begin"
  BY WorkersRest, Zenon DEF DbInv
<1> QED BY <1>1, <1>2, RestRaised, Zenon DEF RowIdsRaised, Raised

-----------------------------------------------------------------------------
(* Writes *)

\* What a push_back does to the delta.
LEMMA PushShape ==
  ASSUME MemoryShape, NEW rec \in StoredRecord,
         delta' = Extend(delta, next_pos, rec), next_pos' = next_pos + 1
  PROVE  /\ delta' \in [DOMAIN delta' -> StoredRecord] /\ DOMAIN delta' \subseteq Nat
         /\ DOMAIN delta \subseteq DOMAIN delta' /\ next_pos' \in Nat \ {0}
         /\ \A p \in DOMAIN delta' :
              \/ delta'[p].row_id = rec.row_id
              \/ p \in DOMAIN delta /\ delta'[p].row_id = delta[p].row_id
<1>1. /\ delta \in [DOMAIN delta -> StoredRecord] /\ DOMAIN delta \subseteq Nat
      /\ next_pos \in Nat \ {0}
  BY Zenon DEF MemoryShape
<1>2. /\ delta' \in [DOMAIN delta \cup {next_pos} -> StoredRecord]
      /\ \A q \in DOMAIN delta \ {next_pos} : delta'[q] = delta[q]
      /\ delta'[next_pos] = rec
  <2>1. delta' = [y \in DOMAIN delta \cup {next_pos} |-> IF y = next_pos THEN rec ELSE delta[y]]
    BY Zenon DEF Extend
  <2>2. \A y \in DOMAIN delta : delta[y] \in StoredRecord
    BY <1>1, Zenon
  <2> HIDE DEF StoredRecord
  <2> QED BY <2>1, <2>2, Zenon
<1>3. DOMAIN delta' = DOMAIN delta \cup {next_pos}
  BY <1>2, Zenon
<1>4. \A p \in DOMAIN delta' :
        \/ delta'[p].row_id = rec.row_id
        \/ p \in DOMAIN delta /\ delta'[p].row_id = delta[p].row_id
  BY <1>2, <1>3, Zenon
<1> QED BY <1>1, <1>2, <1>3, <1>4

\* What a claim does to the delta: it marks a record of the row, or adds a tombstone
\* for a row of the base.
LEMMA ClaimShape ==
  ASSUME MemoryShape, NEW r, NEW t \in Nat, Claim(r, t)
  PROVE  /\ delta' \in [DOMAIN delta' -> StoredRecord] /\ DOMAIN delta' \subseteq Nat
         /\ DOMAIN delta \subseteq DOMAIN delta' /\ next_pos' \in Nat \ {0}
         /\ r \in 0..MaxRow
         /\ r \in {delta[p].row_id : p \in DOMAIN delta} \cup RowIds(base)
         /\ \A p \in DOMAIN delta' :
              \/ delta'[p].row_id = r
              \/ p \in DOMAIN delta /\ delta'[p].row_id = delta[p].row_id
<1>1. CASE \E p \in DOMAIN delta :
             /\ StopsAt(p, r, t)
             /\ Outcome(delta[p], t) = "claim"
             /\ delta' = [delta EXCEPT ![p].deleted_txn = t]
             /\ UNCHANGED next_pos
  <2>1. PICK p \in DOMAIN delta : /\ p \in RecordsOf(r)
                                  /\ delta' = [delta EXCEPT ![p].deleted_txn = t]
                                  /\ UNCHANGED next_pos
    BY <1>1, ZenonT(30) DEF StopsAt
  <2>2. delta[p].row_id = r /\ delta[p] \in StoredRecord
    BY <2>1, Zenon DEF RecordsOf, MemoryShape
  <2>3. DOMAIN delta' = DOMAIN delta
        /\ \A q \in DOMAIN delta : delta'[q] \in StoredRecord /\ delta'[q].row_id = delta[q].row_id
    BY <2>1 DEF MemoryShape, StoredRecord
  <2>4. delta' \in [DOMAIN delta' -> StoredRecord]
    BY <2>1, <2>3, Zenon DEF MemoryShape
  <2> QED BY <2>1, <2>2, <2>3, <2>4, ZenonT(30) DEF MemoryShape, StoredRecord
<1>2. CASE /\ NeedsTombstone(r, t)
           /\ Push([row_id |-> r, created_txn |-> 0, deleted_txn |-> t, row |-> 0,
                    is_base_tombstone |-> TRUE])
  <2> DEFINE rec == [row_id |-> r, created_txn |-> 0, deleted_txn |-> t, row |-> 0,
                     is_base_tombstone |-> TRUE]
  <2>1. r \in RowIds(base)
    BY <1>2, Zenon DEF NeedsTombstone, RowIdExistsInBase
  <2>2. r \in 0..MaxRow
    BY <2>1 DEF RowIds, base, Range, MemoryShape, StoredRow
  <2>3. rec \in StoredRecord /\ rec.row_id = r
    BY <2>2, Zenon DEF StoredRecord
  <2>4. delta' = Extend(delta, next_pos, rec) /\ next_pos' = next_pos + 1
    BY <1>2, Zenon DEF Push
  <2>5. PICK d : d = rec
    BY ZenonT(30)
  <2> HIDE DEF rec
  <2>6. d \in StoredRecord /\ d.row_id = r /\ delta' = Extend(delta, next_pos, d)
    BY <2>3, <2>4, <2>5, Zenon
  <2> QED BY <2>1, <2>2, <2>4, <2>6, PushShape, Zenon
<1> QED BY <1>1, <1>2, ZenonT(30) DEF Claim

\* What an insert does to it.
LEMMA AddShape ==
  ASSUME MemoryShape, NEW t \in Nat, NEW r \in 0..MaxRow, NEW v \in Nat, AddVersion(t, r, v)
  PROVE  /\ delta' \in [DOMAIN delta' -> StoredRecord] /\ DOMAIN delta' \subseteq Nat
         /\ DOMAIN delta \subseteq DOMAIN delta' /\ next_pos' \in Nat \ {0}
         /\ \A p \in DOMAIN delta' :
              \/ delta'[p].row_id = r
              \/ p \in DOMAIN delta /\ delta'[p].row_id = delta[p].row_id
<1> DEFINE rec == [row_id |-> r, created_txn |-> t, deleted_txn |-> 0, row |-> v,
                   is_base_tombstone |-> FALSE]
<1>1. rec \in StoredRecord /\ rec.row_id = r
  BY Zenon DEF StoredRecord
<1>2. delta' = Extend(delta, next_pos, rec) /\ next_pos' = next_pos + 1
  BY Zenon DEF AddVersion, Push
<1>3. PICK d : d = rec
  BY ZenonT(30)
<1> HIDE DEF rec
<1>4. d \in StoredRecord /\ d.row_id = r /\ delta' = Extend(delta, next_pos, d)
  BY <1>1, <1>2, <1>3, Zenon
<1> QED BY <1>2, <1>4, PushShape, Zenon

\* A write to the delta keeps the table's shape, and the allocator past its row ids.
LEMMA DeltaGrows ==
  ASSUME MemoryShape, RowIdsRaised, NEW r \in 0..MaxRow, Raised(r)',
         delta' \in [DOMAIN delta' -> StoredRecord], DOMAIN delta' \subseteq Nat,
         DOMAIN delta \subseteq DOMAIN delta', next_pos' \in Nat \ {0},
         \A p \in DOMAIN delta' :
           \/ delta'[p].row_id = r
           \/ p \in DOMAIN delta /\ delta'[p].row_id = delta[p].row_id,
         inserting' \in [DOMAIN inserting' -> [row_id : 0..MaxRow, locked : BOOLEAN]],
         \A t \in DOMAIN inserting' :
           \/ inserting'[t].row_id = r
           \/ t \in DOMAIN inserting /\ inserting'[t].row_id = inserting[t].row_id,
         UNCHANGED <<baseVars, next_row_id, compacting>>,
         \A x : Raised(x) => Raised(x)',
         \A w \in Workers : redo_step'[w] = "raise" => expected'[w] <= next_row_id
  PROVE  MemoryShape' /\ RowIdsRaised'
<1>1. /\ base_segments' = base_segments /\ next_segment_id' = next_segment_id
      /\ next_row_id' = next_row_id /\ compacting' = compacting
  BY Zenon DEF baseVars
<1>2. compacting' \in [running : BOOLEAN, oldest_active : Nat, todo : SUBSET DOMAIN delta',
                     live_stable_rows : SUBSET StoredRow,
                     stably_deleted_row_ids : SUBSET Nat, retained : SUBSET DOMAIN delta']
  BY <1>1, Zenon DEF MemoryShape
<1>3. MemoryShape'
  BY <1>1, <1>2, Zenon DEF MemoryShape
<1>4. (\A p \in DOMAIN delta : Raised(delta[p].row_id))'
  <2>1. ASSUME NEW p \in DOMAIN delta', NEW x, x = delta'[p].row_id PROVE Raised(x)'
    BY <2>1, Zenon DEF RowIdsRaised
  <2> QED BY <2>1, Zenon DEF Raised
<1>5. (\A t \in DOMAIN inserting : Raised(inserting[t].row_id))'
  <2>1. ASSUME NEW t \in DOMAIN inserting', NEW x, x = inserting'[t].row_id PROVE Raised(x)'
    BY <2>1, Zenon DEF RowIdsRaised
  <2> QED BY <2>1, Zenon DEF Raised
<1>6. \A b \in (base \cup compacting.live_stable_rows)' : b.row_id < next_row_id'
  BY <1>1, Zenon DEF RowIdsRaised, base
<1> QED BY <1>1, <1>3, <1>4, <1>5, <1>6, ZenonT(30) DEF RowIdsRaised

\* With no worker at work a row id is raised when the allocator is past it.
LEMMA RestStays ==
  ASSUME DbInv, phase # "redo", UNCHANGED <<redo_step, next_row_id>>
  PROVE  /\ \A x : Raised(x) <=> x < next_row_id
         /\ \A x : Raised(x)' <=> x < next_row_id
         /\ \A w \in Workers : redo_step'[w] # "raise"
<1>1. \A w \in Workers : redo_step[w] = "begin" /\ redo_step'[w] = "begin"
  BY WorkersRest, Zenon DEF DbInv
<1> QED BY <1>1, Zenon DEF Raised

\* Drawing a row id keeps them.
LEMMA InsertMemory ==
  ASSUME DbInv, phase # "redo", UNCHANGED redo_step, NEW t \in active_txn_ids, Insert(t)
  PROVE  MemoryShape' /\ RowIdsRaised'
<1> DEFINE ins == [row_id |-> next_row_id, locked |-> FALSE]
<1>1. /\ next_row_id \in 1..(MaxRow + 1) /\ next_row_id <= MaxRow /\ MaxRow \in Nat
      /\ next_row_id' = next_row_id + 1
  BY TableAssumption, Zenon DEF Insert, DbInv, MemoryShape
<1>2. /\ delta' = delta /\ next_pos' = next_pos /\ base_segments' = base_segments
      /\ next_segment_id' = next_segment_id /\ compacting' = compacting
  BY Zenon DEF Insert, deltaVars, baseVars
<1>3. ins \in [row_id : 0..MaxRow, locked : BOOLEAN] /\ ins.row_id = next_row_id
  BY <1>1
<1>4. inserting \in [DOMAIN inserting -> [row_id : 0..MaxRow, locked : BOOLEAN]]
  BY Zenon DEF DbInv, MemoryShape
<1>5. inserting' = Extend(inserting, t, ins)
  BY Zenon DEF Insert
<1> HIDE DEF ins
<1>6. /\ inserting' \in [DOMAIN inserting \cup {t} -> [row_id : 0..MaxRow, locked : BOOLEAN]]
      /\ inserting'[t] = ins
      /\ \A u \in DOMAIN inserting \ {t} : inserting'[u] = inserting[u]
  BY <1>3, <1>4, <1>5, Zenon DEF Extend
<1>7. DOMAIN inserting' = DOMAIN inserting \cup {t}
  BY <1>6, Zenon
<1>8. next_row_id' \in 1..(MaxRow + 1)
  BY <1>1
<1>9. MemoryShape'
  BY <1>2, <1>6, <1>7, <1>8, ZenonT(30) DEF DbInv, MemoryShape
<1>10. \A w \in Workers : redo_step'[w] = "begin"
  BY WorkersRest, Zenon DEF DbInv
<1>11. /\ \A p \in DOMAIN delta : delta[p] \in StoredRecord
       /\ \A b \in base \cup compacting.live_stable_rows : b \in StoredRow
  BY DEF DbInv, MemoryShape, base, Range
<1>12. \A p \in DOMAIN delta' : delta'[p].row_id < next_row_id'
  BY <1>1, <1>2, <1>11, RestRaised DEF StoredRecord
<1>13. \A u \in DOMAIN inserting' : inserting'[u].row_id < next_row_id'
  BY <1>1, <1>3, <1>4, <1>6, <1>7, RestRaised
<1>14. \A b \in (base \cup compacting.live_stable_rows)' : b.row_id < next_row_id'
  BY <1>1, <1>2, <1>11, RestRaised DEF StoredRow, base
<1>15. RowIdsRaised'
  BY <1>10, <1>12, <1>13, <1>14, Zenon DEF RowIdsRaised, Raised
<1> QED BY <1>9, <1>15, Zenon

\* The row a claim finds is in the table, so the allocator is past it or about to be.
LEMMA ClaimRaised ==
  ASSUME MemoryShape, RowIdsRaised, NEW r, NEW t \in Nat, Claim(r, t)
  PROVE  Raised(r)
<1>1. r \in {delta[p].row_id : p \in DOMAIN delta} \cup RowIds(base)
  BY ClaimShape, Zenon
<1>2. CASE r \in {delta[p].row_id : p \in DOMAIN delta}
  BY <1>2, Zenon DEF RowIdsRaised
<1>3. CASE r \in RowIds(base)
  BY <1>3, Zenon DEF RowIdsRaised, Raised, RowIds
<1> QED BY <1>1, <1>2, <1>3, Zenon

\* Update up to its second step keeps the shape and the allocator.
LEMMA UpdateMemory ==
  ASSUME MemoryShape, RowIdsRaised, NEW t \in Nat, NEW r, Update(t, r),
         \A x : Raised(x) => Raised(x)',
         \A w \in Workers : redo_step'[w] = "raise" => expected'[w] <= next_row_id
  PROVE  MemoryShape' /\ RowIdsRaised' /\ DOMAIN inserting' = DOMAIN inserting \cup {t}
<1> DEFINE ins == [row_id |-> r, locked |-> TRUE]
<1>1. Claim(r, t) /\ UNCHANGED <<baseVars, next_row_id, compacting>>
      /\ inserting' = Extend(inserting, t, ins)
  BY Zenon DEF Update
<1>2. /\ delta' \in [DOMAIN delta' -> StoredRecord] /\ DOMAIN delta' \subseteq Nat
      /\ DOMAIN delta \subseteq DOMAIN delta' /\ next_pos' \in Nat \ {0}
      /\ r \in 0..MaxRow
      /\ \A p \in DOMAIN delta' :
           \/ delta'[p].row_id = r
           \/ p \in DOMAIN delta /\ delta'[p].row_id = delta[p].row_id
  BY <1>1, ClaimShape, Zenon
<1>3. Raised(r)'
  BY <1>1, ClaimRaised, Zenon
<1>4. ins \in [row_id : 0..MaxRow, locked : BOOLEAN] /\ ins.row_id = r
  BY <1>2, Zenon
<1>5. inserting \in [DOMAIN inserting -> [row_id : 0..MaxRow, locked : BOOLEAN]]
  BY Zenon DEF MemoryShape
<1> HIDE DEF ins
<1>6. /\ inserting' \in [DOMAIN inserting \cup {t} -> [row_id : 0..MaxRow, locked : BOOLEAN]]
      /\ inserting'[t] = ins
      /\ \A u \in DOMAIN inserting \ {t} : inserting'[u] = inserting[u]
  BY <1>1, <1>4, <1>5, Zenon DEF Extend
<1>7. DOMAIN inserting' = DOMAIN inserting \cup {t}
  BY <1>6, Zenon
<1>8. \A u \in DOMAIN inserting' :
        \/ inserting'[u].row_id = r
        \/ u \in DOMAIN inserting /\ inserting'[u].row_id = inserting[u].row_id
  BY <1>4, <1>6, <1>7, ZenonT(30)
<1>9. inserting' \in [DOMAIN inserting' -> [row_id : 0..MaxRow, locked : BOOLEAN]]
  BY <1>6, <1>7, Zenon
<1> QED BY <1>1, <1>2, <1>3, <1>7, <1>8, <1>9, DeltaGrows, ZenonT(30)

\* Delete keeps them.
LEMMA DeleteMemory ==
  ASSUME MemoryShape, RowIdsRaised, NEW t \in Nat, NEW r, Delete(t, r),
         \A x : Raised(x) => Raised(x)',
         \A w \in Workers : redo_step'[w] = "raise" => expected'[w] <= next_row_id
  PROVE  MemoryShape' /\ RowIdsRaised' /\ r \in 0..MaxRow
<1>1. Claim(r, t) /\ UNCHANGED <<baseVars, next_row_id, compacting>> /\ inserting' = inserting
  BY Zenon DEF Delete
<1>2. /\ delta' \in [DOMAIN delta' -> StoredRecord] /\ DOMAIN delta' \subseteq Nat
      /\ DOMAIN delta \subseteq DOMAIN delta' /\ next_pos' \in Nat \ {0}
      /\ r \in 0..MaxRow
      /\ \A p \in DOMAIN delta' :
           \/ delta'[p].row_id = r
           \/ p \in DOMAIN delta /\ delta'[p].row_id = delta[p].row_id
  BY <1>1, ClaimShape, Zenon
<1>3. Raised(r)'
  BY <1>1, ClaimRaised, Zenon
<1>4. inserting' \in [DOMAIN inserting' -> [row_id : 0..MaxRow, locked : BOOLEAN]]
  BY <1>1 DEF MemoryShape
<1> QED BY <1>1, <1>2, <1>3, <1>4, DeltaGrows, ZenonT(30)

\* The last step of Insert and Update keeps them.
LEMMA DeltaInsertMemory ==
  ASSUME MemoryShape, RowIdsRaised, NEW t \in DOMAIN inserting, t \in Nat, NEW v \in Nat,
         DeltaInsert(t, v),
         \A x : Raised(x) => Raised(x)',
         \A w \in Workers : redo_step'[w] = "raise" => expected'[w] <= next_row_id
  PROVE  /\ MemoryShape' /\ RowIdsRaised' /\ inserting[t].row_id \in 0..MaxRow
         /\ DOMAIN inserting' = DOMAIN inserting \ {t}
<1>1. /\ AddVersion(t, inserting[t].row_id, v)
      /\ inserting' = Restrict(inserting, DOMAIN inserting \ {t})
      /\ UNCHANGED <<baseVars, next_row_id, compacting>>
  BY Zenon DEF DeltaInsert
<1>2. PICK r : r = inserting[t].row_id
  BY Zenon
<1>3. r \in 0..MaxRow /\ Raised(r)
  BY <1>2, Zenon DEF MemoryShape, RowIdsRaised
<1>4. /\ delta' \in [DOMAIN delta' -> StoredRecord] /\ DOMAIN delta' \subseteq Nat
      /\ DOMAIN delta \subseteq DOMAIN delta' /\ next_pos' \in Nat \ {0}
      /\ \A p \in DOMAIN delta' :
           \/ delta'[p].row_id = r
           \/ p \in DOMAIN delta /\ delta'[p].row_id = delta[p].row_id
  BY <1>1, <1>2, <1>3, AddShape, Zenon
<1>5. inserting \in [DOMAIN inserting -> [row_id : 0..MaxRow, locked : BOOLEAN]]
  BY Zenon DEF MemoryShape
<1>6. /\ inserting' \in [DOMAIN inserting \ {t} -> [row_id : 0..MaxRow, locked : BOOLEAN]]
      /\ \A u \in DOMAIN inserting \ {t} : inserting'[u] = inserting[u]
  BY <1>1, <1>5, Zenon DEF Restrict
<1>7. DOMAIN inserting' = DOMAIN inserting \ {t}
  BY <1>6, Zenon
<1>8. inserting' \in [DOMAIN inserting' -> [row_id : 0..MaxRow, locked : BOOLEAN]]
      /\ \A u \in DOMAIN inserting' :
           u \in DOMAIN inserting /\ inserting'[u].row_id = inserting[u].row_id
  BY <1>6, <1>7, Zenon
<1>9. MemoryShape' /\ RowIdsRaised'
  BY <1>1, <1>3, <1>4, <1>8, DeltaGrows, ZenonT(30)
<1> QED BY <1>2, <1>3, <1>7, <1>9, ZenonT(30)

\* So does InsertWithRowId up to its loop, whose turn to raise the allocator comes next.
LEMMA InsertWithRowIdMemory ==
  ASSUME MemoryShape, RowIdsRaised, NEW t \in Nat, NEW r \in 0..MaxRow, NEW v \in Nat,
         InsertWithRowId(t, r, v), Raised(r)',
         \A x : Raised(x) => Raised(x)',
         \A w \in Workers : redo_step'[w] = "raise" => expected'[w] <= next_row_id
  PROVE  MemoryShape' /\ RowIdsRaised'
<1>1. /\ AddVersion(t, r, v) /\ inserting' = inserting
      /\ UNCHANGED <<baseVars, next_row_id, compacting>>
  BY Zenon DEF InsertWithRowId
<1>2. /\ delta' \in [DOMAIN delta' -> StoredRecord] /\ DOMAIN delta' \subseteq Nat
      /\ DOMAIN delta \subseteq DOMAIN delta' /\ next_pos' \in Nat \ {0}
      /\ \A p \in DOMAIN delta' :
           \/ delta'[p].row_id = r
           \/ p \in DOMAIN delta /\ delta'[p].row_id = delta[p].row_id
  BY <1>1, AddShape, ZenonT(30)
<1>3. inserting' \in [DOMAIN inserting' -> [row_id : 0..MaxRow, locked : BOOLEAN]]
  BY <1>1, ZenonT(30) DEF MemoryShape
<1> QED BY <1>1, <1>2, <1>3, DeltaGrows, ZenonT(30)

-----------------------------------------------------------------------------
(* Compact *)

CompactLocals ==
  [running : BOOLEAN, oldest_active : Nat, todo : SUBSET DOMAIN delta,
   live_stable_rows : SUBSET StoredRow,
   stably_deleted_row_ids : SUBSET Nat, retained : SUBSET DOMAIN delta]

\* Compact's classification touches only its locals.
LEMMA CompactLocalMemory ==
  ASSUME DbInv, phase # "redo", UNCHANGED redo_step,
         UNCHANGED <<deltaVars, baseVars, next_row_id, inserting>>,
         compacting' \in CompactLocals,
         \A b \in compacting'.live_stable_rows : b.row_id < next_row_id
  PROVE  MemoryShape' /\ RowIdsRaised'
<1>1. /\ delta' = delta /\ next_pos' = next_pos /\ base_segments' = base_segments
      /\ next_segment_id' = next_segment_id /\ next_row_id' = next_row_id
      /\ inserting' = inserting /\ base' = base
  BY Zenon DEF deltaVars, baseVars, base
<1>2. MemoryShape'
  BY <1>1, ZenonT(30) DEF DbInv, MemoryShape, CompactLocals
<1>3. \A w \in Workers : redo_step'[w] = "begin"
  BY WorkersRest, ZenonT(30) DEF DbInv
<1> QED BY <1>1, <1>2, <1>3, RestRaised, ZenonT(30) DEF RowIdsRaised, Raised

\* Taking the watermark keeps the table's shape and the allocator past its row ids.
LEMMA CompactBeginMemory ==
  ASSUME DbInv, phase # "redo", UNCHANGED redo_step, CompactBegin
  PROVE  MemoryShape' /\ RowIdsRaised'
<1>1. OldestActiveSnapshot \in Nat
  BY Watermark, ZenonT(30) DEF DbInv, WatermarkIsSnapshot, TMInv, TMTypeOK, Transaction
<1>2. compacting' = [running |-> TRUE, oldest_active |-> OldestActiveSnapshot,
                     todo |-> DOMAIN delta, live_stable_rows |-> {},
                     stably_deleted_row_ids |-> {}, retained |-> {}]
  BY ZenonT(30) DEF CompactBegin, NotCompacting
<1>3. compacting' \in CompactLocals /\ compacting'.live_stable_rows = {}
  BY <1>1, <1>2, ZenonT(30) DEF CompactLocals
<1>4. UNCHANGED <<deltaVars, baseVars, next_row_id, inserting>>
  BY DEF CompactBegin
<1> QED BY <1>3, <1>4, CompactLocalMemory, ZenonT(30)

\* So does classifying a record: the row it may promote is one of the table.
LEMMA CompactRecordMemory ==
  ASSUME DbInv, phase # "redo", UNCHANGED redo_step, CompactRecord
  PROVE  MemoryShape' /\ RowIdsRaised'
<1>1. compacting \in CompactLocals /\ DOMAIN delta \subseteq Nat
      /\ delta \in [DOMAIN delta -> StoredRecord]
  BY Zenon DEF DbInv, MemoryShape, CompactLocals
<1>2. PICK p : p = Min(compacting.todo)
  BY Zenon
<1>3. p \in compacting.todo
  BY <1>1, <1>2, MinIsLeast, ZenonT(30) DEF CompactRecord, CompactLocals
<1>4. p \in DOMAIN delta /\ delta[p] \in StoredRecord
  BY <1>1, <1>3, ZenonT(30) DEF CompactLocals
<1>5. PICK b : b = [row_id |-> delta[p].row_id, row |-> delta[p].row]
  BY ZenonT(30)
<1>6. b \in StoredRow /\ b.row_id < next_row_id /\ delta[p].row_id \in Nat
  BY <1>4, <1>5, RestRaised DEF StoredRow, StoredRecord
<1>7. /\ compacting' = [compacting EXCEPT
           !.todo = @ \ {p},
           !.live_stable_rows = @ \cup (IF Promotes(p) THEN {b} ELSE {}),
           !.stably_deleted_row_ids = @ \cup (IF Purges(p) THEN {delta[p].row_id} ELSE {}),
           !.retained = @ \cup (IF Retires(p) THEN {} ELSE {p})]
      /\ UNCHANGED <<deltaVars, baseVars, next_row_id, inserting>>
  BY <1>2, <1>5, Zenon DEF CompactRecord
<1>8. compacting' \in CompactLocals
      /\ compacting'.live_stable_rows \subseteq compacting.live_stable_rows \cup {b}
  BY <1>1, <1>3, <1>4, <1>6, <1>7, ZenonT(30) DEF CompactLocals
<1>9. \A c \in compacting'.live_stable_rows : c.row_id < next_row_id
  BY <1>6, <1>8, RestRaised, ZenonT(30)
<1> QED BY <1>7, <1>8, <1>9, CompactLocalMemory, Zenon

\* The set of segment ids stays bounded.
LEMMA BoundedSets ==
  ASSUME NEW S \in SUBSET Nat, NEW n \in Nat, \A x \in S : x <= n
  PROVE  Bounded(S)
<1>1. (S \cup {0}) \in SUBSET Nat /\ S \cup {0} # {} /\ \A x \in S \cup {0} : x <= n
  OBVIOUS
<1>2. Max(S \cup {0}) \in S \cup {0} /\ \A x \in S \cup {0} : x <= Max(S \cup {0})
  BY <1>1, MaxIsGreatest, ZenonT(30)
<1>3. PICK m : m = Max(S \cup {0})
  BY Zenon
<1>4. m \in Nat /\ \A x \in S : x <= m
  BY <1>1, <1>2, <1>3, ZenonT(30)
<1>5. S \subseteq 0..m
  BY <1>4
<1> QED BY <1>3, <1>4, <1>5, ZenonT(30) DEF Bounded

\* So does installing the result: the new base is made of the old one and promoted rows.
LEMMA CompactEndMemory ==
  ASSUME DbInv, phase # "redo", UNCHANGED redo_step, CompactEnd
  PROVE  MemoryShape' /\ RowIdsRaised'
<1>1. /\ delta' = Restrict(delta, compacting.retained) /\ compacting' = NotCompacting
      /\ next_pos' = next_pos /\ next_row_id' = next_row_id /\ inserting' = inserting
  BY Zenon DEF CompactEnd
<1>2. compacting \in CompactLocals /\ delta \in [DOMAIN delta -> StoredRecord]
      /\ DOMAIN delta \subseteq Nat /\ next_segment_id \in Nat
  BY Zenon DEF DbInv, MemoryShape, CompactLocals
<1>3. PICK kept : kept = compacting.retained
  BY Zenon
<1>4. kept \subseteq DOMAIN delta
  BY <1>2, <1>3, ZenonT(30) DEF CompactLocals
<1>5. delta' \in [kept -> StoredRecord] /\ \A p \in kept : delta'[p] = delta[p]
  BY <1>1, <1>2, <1>3, <1>4, ZenonT(30) DEF Restrict
<1>6. DOMAIN delta' = kept /\ DOMAIN delta' \subseteq Nat
  BY <1>2, <1>4, <1>5, ZenonT(30)
<1>7. compacting' \in CompactLocals' /\ compacting'.live_stable_rows = {}
  BY <1>1, ZenonT(30) DEF NotCompacting, CompactLocals
<1>8. \A b \in base \cup compacting.live_stable_rows : b \in StoredRow /\ b.row_id < next_row_id
  BY RestRaised DEF DbInv, MemoryShape, base, Range
<1>9. /\ base_segments' \in [DOMAIN base_segments' -> SUBSET StoredRow]
      /\ Bounded(DOMAIN base_segments)' /\ next_segment_id' \in Nat
      /\ base' \subseteq base \cup compacting.live_stable_rows
  <2>1. CASE UNCHANGED baseVars
    BY <2>1, Zenon DEF baseVars, DbInv, MemoryShape, base
  <2>2. CASE /\ base_segments' = [s \in {next_segment_id} |->
                  Without(base, compacting.stably_deleted_row_ids)
                    \cup compacting.live_stable_rows]
             /\ next_segment_id' = next_segment_id + 1
    <3>1. PICK rows : rows = Without(base, compacting.stably_deleted_row_ids)
                               \cup compacting.live_stable_rows
      BY ZenonT(30)
    <3>2. rows \subseteq base \cup compacting.live_stable_rows /\ rows \subseteq StoredRow
      BY <1>8, <3>1, Zenon DEF Without
    <3>3. base_segments' = [s \in {next_segment_id} |-> rows]
      BY <2>2, <3>1, Zenon
    <3>4. DOMAIN base_segments' = {next_segment_id} /\ base' = rows
      BY <3>3, ZenonT(30) DEF base, Range
    <3>5. Bounded({next_segment_id})
      BY <1>2, BoundedSets
    <3>6. Bounded(DOMAIN base_segments)'
      BY <3>4, <3>5, Zenon DEF Bounded
    <3> QED BY <1>2, <2>2, <3>2, <3>3, <3>4, <3>6
  <2> QED BY <2>1, <2>2, Zenon DEF CompactEnd, InstallBase
<1>10. MemoryShape'
  BY <1>1, <1>5, <1>6, <1>7, <1>9, Zenon DEF DbInv, MemoryShape, CompactLocals
<1>11. \A w \in Workers : redo_step'[w] = "begin"
  BY WorkersRest, ZenonT(30) DEF DbInv
<1>12. \A p \in DOMAIN delta' : delta'[p].row_id < next_row_id'
  BY <1>1, <1>4, <1>5, <1>6, RestRaised, ZenonT(30)
<1>13. \A b \in (base \cup compacting.live_stable_rows)' : b.row_id < next_row_id'
  BY <1>1, <1>7, <1>8, <1>9, ZenonT(30)
<1>14. \A t \in DOMAIN inserting' : inserting'[t].row_id < next_row_id'
  BY <1>1, RestRaised, ZenonT(30)
<1>15. RowIdsRaised'
  BY <1>11, <1>12, <1>13, <1>14, ZenonT(30) DEF RowIdsRaised, Raised
<1> QED BY <1>10, <1>15, ZenonT(30)

-----------------------------------------------------------------------------
(* Clients *)

\* A step that keeps the workers at rest keeps their shape.
LEMMA WorkersOpen ==
  ASSUME WorkersShape, phase # "redo", phase' = "open", UNCHANGED workerVars
  PROVE  WorkersShape'
<1>1. /\ redo' = redo /\ redo_step' = redo_step /\ redo_txn' = redo_txn
      /\ expected' = expected
  BY Zenon DEF workerVars
<1>2. \A w \in Workers : redo[w] = {} /\ redo_step[w] = "begin"
  BY WorkersRest, ZenonT(30)
<1>3. redo' \in [Workers -> SUBSET (1..Len(wal_file'))]
  BY <1>1, <1>2, ZenonT(30) DEF WorkersShape
<1> QED BY <1>1, <1>2, <1>3, ZenonT(30) DEF WorkersShape, Busy

\* A step that leaves the files and their writers alone keeps their shape.
LEMMA FileFrame ==
  ASSUME FileShape,
         UNCHANGED <<walVars, last_wal_lsn, crashes, logical, fileVars, checkpoint, base_segments>>
  PROVE  FileShape'
BY Zenon DEF FileShape, walVars, fileVars

\* A thread takes up a record to log.
LEMMA TakesUpRecord ==
  ASSUME ClientsShape, NEW t, NEW rec \in LogRecord, rec.txn_id = t,
         rec.type \in WalRecordType, logging' = Extend(logging, t, rec), ending' = ending,
         t \notin DOMAIN ending, t \in active_txn_ids', active_txn_ids \subseteq active_txn_ids',
         DOMAIN inserting' \subseteq DOMAIN inserting, t \notin DOMAIN inserting',
         phase' = "open", crashes' < ClientLives
  PROVE  ClientsShape'
<1>1. logging \in [DOMAIN logging -> LogRecord]
  BY Zenon DEF ClientsShape
<1>2. logging' = [u \in DOMAIN logging \cup {t} |-> IF u = t THEN rec ELSE logging[u]]
  BY Zenon DEF Extend
<1>3. DOMAIN logging' = DOMAIN logging \cup {t} /\ logging' \in [DOMAIN logging' -> LogRecord]
  BY <1>1, <1>2, ZenonT(30)
<1>4. \A u \in DOMAIN logging' : logging'[u].txn_id = u /\ logging'[u].type \in WalRecordType
  BY <1>2, <1>3, Zenon DEF ClientsShape
<1> QED BY <1>3, <1>4 DEF ClientsShape

\* The records that are logged.
LEMMA RecordTypes ==
  ASSUME NEW t \in Nat, NEW type \in WalRecordType, NEW r \in 0..MaxRow, NEW v \in Nat
  PROVE  /\ WalRecord(t, type, r, v) \in LogRecord /\ WalRecord(t, type, r, v).txn_id = t
         /\ WalRecord(t, type, r, v).type = type
BY Zenon DEF WalRecord, LogRecord

\* Database::Begin keeps DbInv.
LEMMA DbBeginInv ==
  ASSUME DbInv, DbBegin
  PROVE  DbInv'
<1>1. /\ phase = "open" /\ phase' = phase /\ crashes < ClientLives /\ crashes' = crashes
      /\ Begin /\ UNCHANGED <<walVars, recoveryVars, ending, crashes, logical>>
      /\ UNCHANGED tableVars
  BY Zenon DEF DbBegin, Serving, Begin, recoveryVars, redoVars
<1>2. TMInv'
  BY <1>1, BeginInv, ZenonT(30) DEF DbInv, Begin
<1>3. MemoryShape' /\ RowIdsRaised'
  <2>1. UNCHANGED redo_step
    BY <1>1, Zenon DEF recoveryVars, redoVars, workerVars
  <2> QED BY <1>1, <2>1, MemoryFrame, RaisedFrame, ZenonT(30) DEF DbInv
<1>4. FileShape'
  BY <1>1, FileFrame, ZenonT(30) DEF DbInv, recoveryVars, redoVars, tableVars, baseVars
<1>5. WorkersShape'
  BY <1>1, WorkersOpen, ZenonT(30) DEF DbInv, recoveryVars, redoVars
<1>6. ClientsShape'
  <2>1. PICK t : t = next_id
    BY Zenon
  <2>2. PICK rec : rec = WalRecord(t, "kBegin", 0, 0)
    BY Zenon
  <2>3. t \in Nat /\ t \notin active_txn_ids /\ active_txn_ids' = active_txn_ids \cup {t}
    BY <1>1, <2>1, ActiveIds, ZenonT(30) DEF DbInv, Begin, TMBegin
  <2>4. rec \in LogRecord /\ rec.txn_id = t /\ rec.type \in WalRecordType
    BY <2>2, <2>3, RecordTypes, TableAssumption DEF WalRecordType
  <2>5. logging' = Extend(logging, t, rec)
    BY <2>1, <2>2, Zenon DEF DbBegin
  <2>6. inserting' = inserting /\ DOMAIN inserting \cup DOMAIN ending \subseteq active_txn_ids
    BY <1>1, Zenon DEF tableVars, DbInv, ClientsShape
  <2> QED BY <1>1, <2>3, <2>4, <2>5, <2>6, TakesUpRecord, ZenonT(30) DEF DbInv
<1> QED BY <1>2, <1>3, <1>4, <1>5, <1>6, ZenonT(30) DEF DbInv

\* Steps that leave the manager alone keep its invariant.
LEMMA ManagerFrame ==
  ASSUME TMInv, UNCHANGED tmVars
  PROVE  TMInv'
BY TMStepInv, ZenonT(30)

\* Commit and Abort up to the append keep it.
LEMMA DbFinishInv ==
  ASSUME DbInv, NEW t \in active_txn_ids, DbFinish(t)
  PROVE  DbInv'
<1>1. /\ phase = "open" /\ phase' = phase /\ crashes < ClientLives /\ crashes' = crashes
      /\ UNCHANGED <<tmVars, tableVars, walVars, recoveryVars, ending, crashes, logical>>
  BY Zenon DEF DbFinish, Serving, vars, recoveryVars, redoVars
<1>2. TMInv'
  BY <1>1, ManagerFrame, ZenonT(30) DEF DbInv
<1>3. MemoryShape' /\ RowIdsRaised'
  <2>1. UNCHANGED redo_step
    BY <1>1, ZenonT(30) DEF recoveryVars, redoVars, workerVars
  <2> QED BY <1>1, <2>1, MemoryFrame, RaisedFrame, ZenonT(30) DEF DbInv
<1>4. FileShape'
  BY <1>1, FileFrame, ZenonT(30) DEF DbInv, recoveryVars, redoVars, tableVars, baseVars
<1>5. WorkersShape'
  BY <1>1, WorkersOpen, ZenonT(30) DEF DbInv, recoveryVars, redoVars
<1>6. ClientsShape'
  <2>1. PICK type \in {"kCommit", "kAbort"} :
          logging' = Extend(logging, t, WalRecord(t, type, 0, 0))
    BY Zenon DEF DbFinish
  <2>2. PICK rec : rec = WalRecord(t, type, 0, 0)
    BY Zenon
  <2>3. t \in Nat /\ active_txn_ids' = active_txn_ids
    BY <1>1, ActiveIds DEF DbInv, tmVars
  <2>4. rec \in LogRecord /\ rec.txn_id = t /\ rec.type \in WalRecordType
    BY <2>2, <2>3, RecordTypes, TableAssumption DEF WalRecordType
  <2>5. inserting' = inserting /\ t \notin DOMAIN inserting /\ t \notin DOMAIN ending
    BY <1>1, Zenon DEF tableVars, DbFinish, Ready, Idle
  <2> QED BY <1>1, <2>1, <2>2, <2>3, <2>4, <2>5, TakesUpRecord, ZenonT(30) DEF DbInv
<1> QED BY <1>2, <1>3, <1>4, <1>5, <1>6, ZenonT(30) DEF DbInv

\* The table's part of Insert, Update and Delete keeps it.
LEMMA DbWriteInv ==
  ASSUME DbInv, NEW t \in active_txn_ids, DbWrite(t)
  PROVE  DbInv'
<1>1. /\ phase = "open" /\ phase' = phase /\ crashes < ClientLives /\ crashes' = crashes
      /\ UNCHANGED <<walVars, recoveryVars, ending, crashes, logical>>
      /\ UNCHANGED redo_step /\ UNCHANGED expected
      /\ t \notin DOMAIN inserting \cup DOMAIN logging \cup DOMAIN ending
  BY Zenon DEF DbWrite, Serving, Ready, Idle, recoveryVars, redoVars, workerVars
<1>2. t \in Nat
  BY ActiveIds DEF DbInv
<1>3. WorkersShape'
  BY <1>1, WorkersOpen, ZenonT(30) DEF DbInv, recoveryVars, redoVars
<1>4. CASE Insert(t) /\ UNCHANGED logging
  <2>1. UNCHANGED <<tmVars, base_segments, compacting>>
    BY <1>4, ZenonT(30) DEF Insert, baseVars
  <2>2. TMInv' /\ FileShape'
    BY <1>1, <2>1, ManagerFrame, FileFrame, ZenonT(30) DEF DbInv, recoveryVars, redoVars
  <2>3. MemoryShape' /\ RowIdsRaised'
    BY <1>1, <1>4, InsertMemory, ZenonT(30)
  <2>4. DOMAIN inserting' = DOMAIN inserting \cup {t}
    BY <1>4, ZenonT(30) DEF Insert, Extend
  <2>5. ClientsShape'
    BY <1>1, <1>4, <2>1, <2>4, ZenonT(30) DEF DbInv, ClientsShape, tmVars, recoveryVars
  <2> QED BY <1>3, <2>2, <2>3, <2>5, ZenonT(30) DEF DbInv
<1>5. ASSUME NEW r \in 1..(next_row_id - 1), Update(t, r), UNCHANGED logging
      PROVE  DbInv'
  <2>1. UNCHANGED <<tmVars, base_segments, compacting, next_row_id>>
    BY <1>5, ZenonT(30) DEF Update, baseVars
  <2>2. TMInv' /\ FileShape'
    BY <1>1, <2>1, ManagerFrame, FileFrame, ZenonT(30) DEF DbInv, recoveryVars, redoVars
  <2>3. /\ \A x : Raised(x) => Raised(x)'
        /\ \A w \in Workers : redo_step'[w] = "raise" => expected'[w] <= next_row_id
    BY <1>1, <2>1, RestStays, ZenonT(30)
  <2>4. MemoryShape' /\ RowIdsRaised' /\ DOMAIN inserting' = DOMAIN inserting \cup {t}
    BY <1>2, <1>5, <2>3, UpdateMemory, ZenonT(30) DEF DbInv
  <2>5. ClientsShape'
    BY <1>1, <1>5, <2>1, <2>4, ZenonT(30) DEF DbInv, ClientsShape, tmVars, recoveryVars
  <2> QED BY <1>3, <2>2, <2>4, <2>5, ZenonT(30) DEF DbInv
<1>6. ASSUME NEW r \in 1..(next_row_id - 1), Delete(t, r),
             logging' = Extend(logging, t, WalRecord(t, "kDelete", r, 0))
      PROVE  DbInv'
  <2>1. UNCHANGED <<tmVars, base_segments, compacting, next_row_id>> /\ inserting' = inserting
    BY <1>6, ZenonT(30) DEF Delete, baseVars
  <2>2. TMInv' /\ FileShape'
    BY <1>1, <2>1, ManagerFrame, FileFrame, ZenonT(30) DEF DbInv, recoveryVars, redoVars
  <2>3. /\ \A x : Raised(x) => Raised(x)'
        /\ \A w \in Workers : redo_step'[w] = "raise" => expected'[w] <= next_row_id
    BY <1>1, <2>1, RestStays, ZenonT(30)
  <2>4. MemoryShape' /\ RowIdsRaised' /\ r \in 0..MaxRow
    BY <1>2, <1>6, <2>3, DeleteMemory, ZenonT(30) DEF DbInv
  <2>5. ClientsShape'
    <3>1. PICK rec : rec = WalRecord(t, "kDelete", r, 0)
      BY Zenon
    <3>2. rec \in LogRecord /\ rec.txn_id = t /\ rec.type \in WalRecordType
      BY <1>2, <2>4, <3>1, RecordTypes DEF WalRecordType, DataRecords
    <3>3. active_txn_ids' = active_txn_ids
      BY <2>1, Zenon DEF tmVars
    <3> QED BY <1>1, <1>6, <2>1, <3>1, <3>2, <3>3, TakesUpRecord, ZenonT(30) DEF DbInv
  <2> QED BY <1>3, <2>2, <2>4, <2>5, ZenonT(30) DEF DbInv
<1> QED BY <1>4, <1>5, <1>6, ZenonT(30) DEF DbWrite

\* The contents of a row are a number.
LEMMA ContentsNat ==
  ASSUME MemoryShape, FileShape
  PROVE  Contents(next_pos) \in Nat
<1>1. next_pos \in Nat /\ crashes \in Nat /\ MaxPos \in Nat
  BY TableAssumption, Zenon DEF MemoryShape, FileShape
<1>2. crashes * MaxPos \in Nat
  BY <1>1
<1> QED BY <1>1, <1>2 DEF Contents

\* The delta insert of Insert and Update keeps it.
LEMMA DbDeltaInsertInv ==
  ASSUME DbInv, NEW t \in DOMAIN inserting, DbDeltaInsert(t)
  PROVE  DbInv'
<1>1. /\ phase = "open" /\ phase' = phase /\ crashes < ClientLives /\ crashes' = crashes
      /\ UNCHANGED <<walVars, recoveryVars, ending, crashes, logical>>
      /\ UNCHANGED redo_step /\ UNCHANGED expected
  BY Zenon DEF DbDeltaInsert, Serving, recoveryVars, redoVars, workerVars
<1>2. PICK v : v = Contents(next_pos)
  BY Zenon
<1>3. v \in Nat /\ DeltaInsert(t, v)
  BY <1>2, ContentsNat, ZenonT(30) DEF DbInv, DbDeltaInsert
<1>4. t \in active_txn_ids /\ t \notin DOMAIN logging \cup DOMAIN ending /\ t \in Nat
  BY ActiveIds DEF DbInv, ClientsShape
<1>5. UNCHANGED <<tmVars, base_segments, compacting, next_row_id>>
  BY <1>3, Zenon DEF DeltaInsert, baseVars
<1>6. TMInv' /\ FileShape' /\ WorkersShape'
  BY <1>1, <1>5, ManagerFrame, FileFrame, WorkersOpen, Zenon DEF DbInv, recoveryVars, redoVars
<1>7. /\ \A x : Raised(x) => Raised(x)'
      /\ \A w \in Workers : redo_step'[w] = "raise" => expected'[w] <= next_row_id
  BY <1>1, <1>5, RestStays, ZenonT(30)
<1>8. /\ MemoryShape' /\ RowIdsRaised' /\ inserting[t].row_id \in 0..MaxRow
      /\ DOMAIN inserting' = DOMAIN inserting \ {t}
  BY <1>3, <1>4, <1>7, DeltaInsertMemory, ZenonT(30) DEF DbInv
<1>9. ClientsShape'
  <2>1. PICK type \in {"kUpdate", "kInsert"} :
          logging' = Extend(logging, t, WalRecord(t, type, inserting[t].row_id, v))
    BY <1>2, ZenonT(30) DEF DbDeltaInsert
  <2>2. PICK rec : rec = WalRecord(t, type, inserting[t].row_id, v)
    BY Zenon
  <2>3. rec \in LogRecord /\ rec.txn_id = t /\ rec.type \in WalRecordType
    BY <1>3, <1>4, <1>8, <2>2, RecordTypes DEF WalRecordType, DataRecords
  <2>4. active_txn_ids' = active_txn_ids
    BY <1>5, Zenon DEF tmVars
  <2> QED BY <1>1, <1>4, <1>8, <2>1, <2>2, <2>3, <2>4, TakesUpRecord, ZenonT(30) DEF DbInv
<1> QED BY <1>6, <1>8, <1>9, ZenonT(30) DEF DbInv

\* What an append does to the file: the record is behind the others, with its LSN.
LEMMA AppendEffect ==
  ASSUME FileShape, ClientsShape, NEW t \in DOMAIN logging, AppendRecord(logging[t])
  PROVE  /\ wal_file' \in Seq(LogRecord) /\ Len(wal_file') = Len(wal_file) + 1
         /\ \A i \in 1..Len(wal_file) : wal_file'[i] = wal_file[i]
         /\ wal_file'[Len(wal_file) + 1] \in LogRecord
         /\ wal_file'[Len(wal_file) + 1].lsn = next_lsn
         /\ wal_file'[Len(wal_file) + 1].txn_id = t
         /\ wal_file'[Len(wal_file) + 1].type = logging[t].type
<1>1. PICK rec : rec = [logging[t] EXCEPT !.lsn = next_lsn]
  BY ZenonT(30)
<1>2. logging[t] \in LogRecord /\ logging[t].txn_id = t /\ next_lsn \in Nat
  BY Zenon DEF ClientsShape, FileShape
<1>3. rec \in LogRecord /\ rec.lsn = next_lsn /\ rec.txn_id = t /\ rec.type = logging[t].type
  BY <1>1, <1>2, ZenonT(30) DEF LogRecord
<1>4. wal_file \in Seq(LogRecord) /\ wal_file' = Append(wal_file, rec)
  BY <1>1, ZenonT(30) DEF FileShape, AppendRecord
<1> QED BY <1>3, <1>4

\* The history of the log gets one more entry.
LEMMA LogicalAppend ==
  ASSUME NEW f, NEW n \in Nat, f = [i \in 1..n |-> f[i]], NEW x
  PROVE  /\ Len(f) = n
         /\ Append(f, x) = [i \in 1..(n + 1) |-> Append(f, x)[i]]
<1>1. f \in Seq({f[i] : i \in 1..n} \cup {x})
  <2>1. PICK S : S = {f[i] : i \in 1..n} \cup {x}
    BY ZenonT(30)
  <2>2. f \in [1..n -> S]
    BY <2>1, Zenon
  <2> QED BY <2>1, <2>2
<1>2. Len(f) = n
  BY <1>1
<1>3. Append(f, x) \in Seq({f[i] : i \in 1..n} \cup {x}) /\ Len(Append(f, x)) = n + 1
  BY <1>1, <1>2
<1> QED BY <1>2, <1>3

\* A thread that logs is at work in an open database.
LEMMA LoggingOpen ==
  ASSUME ClientsShape, DOMAIN logging \cup DOMAIN ending # {}
  PROVE  phase = "open" /\ crashes < ClientLives
BY DEF ClientsShape

\* WalWriter::Append keeps it.
LEMMA DbAppendInv ==
  ASSUME DbInv, NEW t \in DOMAIN logging, DbAppend(t)
  PROVE  DbInv'
<1>1. /\ phase = "open" /\ phase' = phase /\ crashes < ClientLives
      /\ UNCHANGED <<tmVars, tableVars, recoveryVars, crashes>> /\ AppendRecord(logging[t])
      /\ UNCHANGED redo_step
  BY LoggingOpen, ZenonT(30) DEF DbInv, DbAppend, vars, recoveryVars, redoVars, workerVars
<1>2. TMInv' /\ MemoryShape' /\ RowIdsRaised' /\ WorkersShape'
  BY <1>1, ManagerFrame, MemoryFrame, RaisedFrame, WorkersOpen, ZenonT(30) DEF DbInv, recoveryVars, redoVars
<1>3. FileShape'
  <2>1. wal_file' \in Seq(LogRecord) /\ Len(wal_file') = Len(wal_file) + 1
    BY <1>1, AppendEffect, ZenonT(30) DEF DbInv
  <2>2. /\ synced' = synced /\ next_lsn' = next_lsn + 1
        /\ syncing' = IF ShouldSync(logging[t]) THEN logging[t].txn_id ELSE 0
        /\ logging[t].txn_id \in Nat
    BY <1>1, ZenonT(30) DEF AppendRecord, DbInv, ClientsShape, LogRecord
  <2>3. syncing' \in Nat
    BY <2>2, Zenon
  <2>4. logical' = [i \in 1..Len(wal_file') |-> logical'[i]]
    <3>1. PICK x : logical' = Append(logical, x)
      BY Zenon DEF DbAppend
    <3>2. Len(wal_file) \in Nat /\ logical = [i \in 1..Len(wal_file) |-> logical[i]]
      BY DEF DbInv, FileShape
    <3>3. Append(logical, x) = [i \in 1..(Len(wal_file) + 1) |-> Append(logical, x)[i]]
      BY <3>2, LogicalAppend, Zenon
    <3> QED BY <2>1, <3>1, <3>3, Zenon
  <2>5. synced' \in 0..Len(wal_file') /\ next_lsn' \in Nat \ {0}
    BY <2>1, <2>2 DEF DbInv, FileShape
  <2>6. UNCHANGED <<last_wal_lsn, crashes, segment_files, manifest, checkpoint, base_segments>>
    BY <1>1 DEF recoveryVars, redoVars, fileVars, tableVars, baseVars
  <2> QED BY <2>1, <2>3, <2>4, <2>5, <2>6, ZenonT(30) DEF DbInv, FileShape
<1>4. ClientsShape'
  <2>1. /\ logging' = Restrict(logging, DOMAIN logging \ {t})
        /\ ending' = ending \/ ending' = Extend(ending, t, logging[t].type)
    BY Zenon DEF DbAppend
  <2>2. DOMAIN ending' \subseteq DOMAIN ending \cup {t}
    BY <2>1, Zenon DEF Extend
  <2>3. logging \in [DOMAIN logging -> LogRecord]
    BY Zenon DEF DbInv, ClientsShape
  <2>4. /\ DOMAIN logging' = DOMAIN logging \ {t} /\ logging' \in [DOMAIN logging' -> LogRecord]
        /\ \A u \in DOMAIN logging' : logging'[u] = logging[u]
    BY <2>1, <2>3, Zenon DEF Restrict
  <2>5. /\ active_txn_ids' = active_txn_ids /\ inserting' = inserting /\ crashes' = crashes
        /\ compacting' = compacting /\ checkpoint' = checkpoint
    BY <1>1, ZenonT(30) DEF tmVars, tableVars, recoveryVars
  <2>6. t \in active_txn_ids /\ t \notin DOMAIN inserting
    BY Zenon DEF DbInv, ClientsShape
  <2> QED BY <1>1, <2>2, <2>4, <2>5, <2>6 DEF DbInv, ClientsShape
<1> QED BY <1>2, <1>3, <1>4, ZenonT(30) DEF DbInv

\* Forcing the file keeps its shape.
LEMMA Forced ==
  ASSUME FileShape, synced' = Len(wal_file), syncing' \in Nat,
         UNCHANGED <<wal_file, next_lsn, last_wal_lsn, crashes, logical, segment_files,
                     manifest, base_segments>>,
         checkpoint' \in [step : {"none", "compact", "save", "saving", "manifest"},
                     wal_lsn : Nat, todo : SUBSET DOMAIN base_segments, runs : Nat],
         checkpoint'.step = "saving" => checkpoint'.todo # {},
         checkpoint'.step \notin {"save", "saving"} => checkpoint'.todo = {}
  PROVE  FileShape'
<1>1. Len(wal_file) \in Nat
  BY DEF FileShape
<1> QED BY <1>1 DEF FileShape

\* A step that leaves the table and the workers alone leaves the allocator where it was.
LEMMA RaisedStutter ==
  ASSUME RowIdsRaised, UNCHANGED <<tableVars, workerVars, wal_file>>
  PROVE  RowIdsRaised'
<1>1. /\ delta' = delta /\ inserting' = inserting /\ base' = base
      /\ compacting' = compacting /\ next_row_id' = next_row_id
      /\ redo' = redo /\ redo_step' = redo_step /\ expected' = expected /\ wal_file' = wal_file
  BY Zenon DEF tableVars, deltaVars, baseVars, base, workerVars
<1>2. \A w : Op(w)' = Op(w)
  BY <1>1, Zenon DEF Op
<1> QED BY <1>1, <1>2, Zenon DEF RowIdsRaised, Raised

\* The fsync that ends an append keeps it.
LEMMA DbSyncInv ==
  ASSUME DbInv, DbSync
  PROVE  DbInv'
<1>1. /\ UNCHANGED <<tmVars, tableVars, recoveryVars, clientVars, logical, wal_file, next_lsn>>
      /\ synced' = Len(wal_file) /\ syncing' = 0 /\ phase' = phase /\ UNCHANGED workerVars
  BY Zenon DEF DbSync, SyncRecord, vars, recoveryVars, redoVars
<1>2. TMInv' /\ MemoryShape' /\ RowIdsRaised'
  BY <1>1, ManagerFrame, MemoryFrame, RaisedStutter, ZenonT(30) DEF DbInv
<1>3. FileShape'
  BY <1>1, Forced, ZenonT(30) DEF DbInv, FileShape, recoveryVars, redoVars, fileVars, clientVars, tableVars,
       baseVars
<1>4. WorkersShape' /\ ClientsShape'
  BY <1>1 DEF DbInv, WorkersShape, ClientsShape, Busy, workerVars, recoveryVars, redoVars,
       clientVars, tableVars, tmVars
<1> QED BY <1>2, <1>3, <1>4, ZenonT(30) DEF DbInv

\* Commit and Abort of the manager take the transaction out of the active ones.
LEMMA FinishActive ==
  ASSUME TMInv, NEW t \in active_txn_ids, TMCommit(t) \/ TMAbort(t)
  PROVE  TMInv' /\ active_txn_ids' = active_txn_ids \ {t}
<1>1. t \in DOMAIN txn
  BY ActiveIds, Zenon
<1>2. active_txn_ids' = active_txn_ids \ {t}
  BY Zenon DEF TMCommit, TMAbort, TMFinish, EraseActive
<1> QED BY <1>1, <1>2, CommitInv, AbortInv, ZenonT(30)

\* The table's Commit or Abort keeps it.
LEMMA DbEndInv ==
  ASSUME DbInv, NEW t \in DOMAIN ending, DbEnd(t)
  PROVE  DbInv'
<1>1. /\ phase = "open" /\ phase' = phase /\ crashes < ClientLives
      /\ UNCHANGED <<walVars, recoveryVars, logging, crashes, logical>>
      /\ Commit(t) \/ Abort(t)
      /\ ending' = Restrict(ending, DOMAIN ending \ {t})
      /\ UNCHANGED redo_step
  BY LoggingOpen, Zenon DEF DbInv, DbEnd, recoveryVars, redoVars, workerVars
<1>2. UNCHANGED tableVars /\ t \notin DOMAIN inserting /\ (TMCommit(t) \/ TMAbort(t))
  BY <1>1, ZenonT(30) DEF Commit, Abort, Idle
<1>3. t \in active_txn_ids /\ t \notin DOMAIN logging
  BY ZenonT(30) DEF DbInv, ClientsShape
<1>4. TMInv' /\ active_txn_ids' = active_txn_ids \ {t}
  BY <1>2, <1>3, FinishActive, ZenonT(30) DEF DbInv
<1>5. MemoryShape' /\ RowIdsRaised' /\ WorkersShape' /\ FileShape'
  BY <1>1, <1>2, MemoryFrame, RaisedFrame, WorkersOpen, FileFrame, ZenonT(30)
     DEF DbInv, recoveryVars, redoVars, tableVars, baseVars
<1>6. ClientsShape'
  <2>1. DOMAIN ending' = DOMAIN ending \ {t}
    BY <1>1, Zenon DEF Restrict
  <2>2. inserting' = inserting /\ compacting' = compacting /\ checkpoint' = checkpoint
    BY <1>1, <1>2, ZenonT(30) DEF tableVars, recoveryVars
  <2> QED BY <1>1, <1>2, <1>3, <1>4, <2>1, <2>2, ZenonT(30) DEF DbInv, ClientsShape
<1> QED BY <1>4, <1>5, <1>6, ZenonT(30) DEF DbInv

-----------------------------------------------------------------------------
(* Checkpoints *)

CheckpointLocals ==
  [step : {"none", "compact", "save", "saving", "manifest"},
   wal_lsn : Nat, todo : SUBSET DOMAIN base_segments, runs : Nat]

\* A checkpoint runs in an open database, and leaves clients and workers alone.
LEMMA CheckpointSide ==
  ASSUME DbInv, phase = "open", UNCHANGED <<tmVars, inserting, redoVars, clientVars>>
  PROVE  TMInv' /\ WorkersShape' /\ ClientsShape' /\ phase' = "open"
<1>1. phase' = phase /\ UNCHANGED workerVars
  BY Zenon DEF redoVars
<1>2. TMInv' /\ WorkersShape'
  BY <1>1, ManagerFrame, WorkersOpen, ZenonT(30) DEF DbInv
<1>3. ClientsShape'
  BY <1>1, ZenonT(30) DEF DbInv, ClientsShape, clientVars, tmVars
<1> QED BY <1>1, <1>2, <1>3, ZenonT(30)

\* Taking the LSN and flushing the log keeps DbInv.
LEMMA CheckpointBeginInv ==
  ASSUME DbInv, CheckpointBegin, UNCHANGED <<clientVars, logical>>
  PROVE  DbInv'
<1>1. /\ phase = "open" /\ UNCHANGED <<tmVars, tableVars, redoVars, fileVars>>
      /\ checkpoint.step = "none"
      /\ synced' = Len(wal_file) /\ syncing' = syncing /\ wal_file' = wal_file
      /\ next_lsn' = next_lsn /\ crashes' = crashes
      /\ checkpoint' = [checkpoint EXCEPT !.step = "compact", !.wal_lsn = next_lsn - 1,
                                          !.runs = @ + 1]
  BY Zenon DEF CheckpointBegin, Flush, last_lsn, vars, clientVars
<1>2. TMInv' /\ WorkersShape' /\ ClientsShape' /\ MemoryShape' /\ RowIdsRaised'
  BY <1>1, CheckpointSide, MemoryFrame, RaisedFrame, ZenonT(30) DEF DbInv, tableVars, redoVars, workerVars
<1>3. checkpoint \in CheckpointLocals /\ checkpoint.todo = {} /\ next_lsn \in Nat \ {0}
      /\ syncing \in Nat
  BY <1>1, ZenonT(30) DEF DbInv, FileShape, CheckpointLocals
<1>4. checkpoint' \in CheckpointLocals /\ checkpoint'.todo = {} /\ checkpoint'.step = "compact"
  <2>1. PICK lsn : lsn = next_lsn - 1
    BY Zenon
  <2>2. PICK runs : runs = checkpoint.runs + 1
    BY Zenon
  <2>3. lsn \in Nat /\ runs \in Nat
    BY <1>3, <2>1, <2>2 DEF CheckpointLocals
  <2>4. checkpoint' = [checkpoint EXCEPT !.step = "compact", !.wal_lsn = lsn, !.runs = runs]
    BY <1>1, <2>1, <2>2, Zenon
  <2> QED BY <1>3, <2>3, <2>4, ZenonT(30) DEF CheckpointLocals
<1>5. FileShape'
  <2>1. UNCHANGED <<wal_file, next_lsn, last_wal_lsn, crashes, logical, segment_files,
                    manifest, base_segments>>
    BY <1>1, Zenon DEF tableVars, baseVars, fileVars, redoVars
  <2>2. syncing' \in Nat /\ synced' = Len(wal_file)
    BY <1>1, <1>3, Zenon
  <2> QED BY <1>4, <2>1, <2>2, Forced, Zenon DEF DbInv, CheckpointLocals
<1> QED BY <1>2, <1>5, ZenonT(30) DEF DbInv

\* A checkpoint writes its own files and locals.
LEMMA CheckpointWrites ==
  ASSUME DbInv, phase = "open",
         UNCHANGED <<vars, walVars, redoVars, clientVars, logical>>,
         checkpoint' \in CheckpointLocals,
         checkpoint'.step = "saving" => checkpoint'.todo # {},
         checkpoint'.step \notin {"save", "saving"} => checkpoint'.todo = {},
         segment_files' \in [DOMAIN segment_files' -> [rows : SUBSET StoredRow, whole : BOOLEAN]],
         manifest' \in [written : BOOLEAN, last_lsn : Nat, segment_files : SUBSET Nat],
         Bounded(manifest.segment_files)'
  PROVE  DbInv'
<1>1. /\ UNCHANGED <<tmVars, tableVars, inserting>>
      /\ UNCHANGED <<wal_file, synced, syncing, next_lsn, last_wal_lsn, crashes, base_segments>>
      /\ UNCHANGED redo_step
  BY Zenon DEF vars, tableVars, walVars, clientVars, baseVars, redoVars, workerVars
<1>2. TMInv' /\ WorkersShape' /\ ClientsShape' /\ MemoryShape' /\ RowIdsRaised'
  BY <1>1, CheckpointSide, MemoryFrame, RaisedFrame, ZenonT(30) DEF DbInv
<1>3. FileShape'
  BY <1>1, ZenonT(30) DEF DbInv, FileShape, CheckpointLocals
<1> QED BY <1>2, <1>3, ZenonT(30) DEF DbInv

\* A checkpoint that is under way has its database open.
LEMMA CheckpointOpen ==
  ASSUME DbInv, checkpoint.step # "none"
  PROVE  phase = "open" /\ checkpoint \in CheckpointLocals
BY ZenonT(30) DEF DbInv, ClientsShape, FileShape, CheckpointLocals

\* The Compact of a checkpoint keeps DbInv.
LEMMA CheckpointCompactInv ==
  ASSUME DbInv, CheckpointCompact, UNCHANGED <<clientVars, logical>>
  PROVE  DbInv'
<1>1. /\ checkpoint.step = "compact" /\ phase = "open" /\ checkpoint.todo = {}
      /\ checkpoint \in CheckpointLocals
      /\ UNCHANGED <<walVars, redoVars, fileVars>> /\ phase' = phase /\ UNCHANGED redo_step
  BY CheckpointOpen, ZenonT(30) DEF CheckpointCompact, DbInv, FileShape, redoVars, workerVars
<1>2. CompactBegin \/ CompactRecord \/ CompactEnd
  BY Zenon DEF CheckpointCompact
<1>3. MemoryShape' /\ RowIdsRaised'
  BY <1>1, <1>2, CompactBeginMemory, CompactRecordMemory, CompactEndMemory, ZenonT(30)
<1>4. UNCHANGED <<tmVars, inserting>>
  BY <1>2, Zenon DEF CompactBegin, CompactRecord, CompactEnd
<1>5. TMInv' /\ WorkersShape' /\ ClientsShape'
  BY <1>1, <1>4, CheckpointSide, ZenonT(30)
<1>6. checkpoint' \in CheckpointLocals' /\ checkpoint'.step # "saving"
      /\ (checkpoint'.step # "save" => checkpoint'.todo = {})
  <2>1. CASE checkpoint' = checkpoint
    BY <1>1, <2>1, ZenonT(30) DEF CheckpointLocals
  <2>2. CASE checkpoint' = [checkpoint EXCEPT !.step = "save", !.todo = DOMAIN base_segments']
    BY <1>1, <2>2, ZenonT(30) DEF CheckpointLocals
  <2> QED BY <2>1, <2>2, Zenon DEF CheckpointCompact
<1>7. FileShape'
  <2>1. UNCHANGED <<wal_file, synced, syncing, next_lsn, last_wal_lsn, crashes, segment_files,
                    manifest>>
    BY <1>1, ZenonT(30) DEF walVars, redoVars, fileVars, clientVars
  <2> QED BY <1>6, <2>1, ZenonT(30) DEF DbInv, FileShape, CheckpointLocals
<1> QED BY <1>3, <1>5, <1>7, ZenonT(30) DEF DbInv

SegmentFile == [rows : SUBSET StoredRow, whole : BOOLEAN]

\* SaveToFile writes a segment file.
LEMMA SegmentWritten ==
  ASSUME DbInv, NEW s, NEW file \in SegmentFile, segment_files' = Extend(segment_files, s, file)
  PROVE  segment_files' \in [DOMAIN segment_files' -> SegmentFile]
<1>1. segment_files \in [DOMAIN segment_files -> SegmentFile]
  BY Zenon DEF DbInv, FileShape, SegmentFile
<1>2. segment_files' \in [DOMAIN segment_files \cup {s} -> SegmentFile]
  <2>1. segment_files' = [x \in DOMAIN segment_files \cup {s} |->
                            IF x = s THEN file ELSE segment_files[x]]
    BY DEF Extend
  <2> QED BY <1>1, <2>1, ZenonT(30)
<1> QED BY <1>2, Zenon

\* Saving a segment keeps DbInv.
LEMMA CheckpointSaveInv ==
  ASSUME DbInv, SaveBegin \/ SaveEnd, UNCHANGED <<clientVars, logical>>
  PROVE  DbInv'
<1>1. /\ phase = "open" /\ checkpoint \in CheckpointLocals /\ checkpoint.todo # {}
      /\ checkpoint.step \in {"save", "saving"}
      /\ UNCHANGED <<vars, walVars, redoVars, clientVars, logical, manifest>>
  BY CheckpointOpen, ZenonT(30) DEF SaveBegin, SaveEnd, DbInv, FileShape
<1>2. PICK s : s = Min(checkpoint.todo)
  BY Zenon
<1>3. s \in checkpoint.todo /\ s \in DOMAIN base_segments
  <2>1. checkpoint.todo \in SUBSET Nat
    BY <1>1 DEF CheckpointLocals, DbInv, MemoryShape, Bounded
  <2> QED BY <1>1, <1>2, <2>1, MinIsLeast, ZenonT(30) DEF CheckpointLocals
<1>4. base_segments[s] \subseteq StoredRow
  BY <1>3, Zenon DEF DbInv, MemoryShape
<1>5. CASE SaveBegin
  <2>1. PICK file : file = [rows |-> {}, whole |-> FALSE]
    BY ZenonT(30)
  <2>2. file \in SegmentFile /\ segment_files' = Extend(segment_files, s, file)
    BY <1>2, <1>5, <2>1, ZenonT(30) DEF SaveBegin, SegmentFile
  <2>3. checkpoint' = [checkpoint EXCEPT !.step = "saving"]
    BY <1>5, ZenonT(30) DEF SaveBegin
  <2>4. checkpoint' \in CheckpointLocals /\ checkpoint'.step = "saving" /\ checkpoint'.todo # {}
    BY <1>1, <2>3, ZenonT(30) DEF CheckpointLocals
  <2>5. segment_files' \in [DOMAIN segment_files' -> SegmentFile]
    BY <2>2, SegmentWritten, ZenonT(30)
  <2>6. manifest' = manifest
    BY <1>1, ZenonT(30)
  <2> QED BY <1>1, <2>4, <2>5, <2>6, CheckpointWrites, ZenonT(30) DEF SegmentFile, DbInv, FileShape
<1>6. CASE SaveEnd
  <2>1. PICK file : file = [rows |-> base_segments[s], whole |-> TRUE]
    BY ZenonT(30)
  <2>2. file \in SegmentFile /\ segment_files' = Extend(segment_files, s, file)
    BY <1>2, <1>4, <1>6, <2>1, ZenonT(30) DEF SaveEnd, SegmentFile
  <2>3. checkpoint' = [checkpoint EXCEPT !.step = "save", !.todo = @ \ {s}]
    BY <1>2, <1>6, Zenon DEF SaveEnd
  <2>4. checkpoint' \in CheckpointLocals /\ checkpoint'.step = "save"
    BY <1>1, <2>3, ZenonT(30) DEF CheckpointLocals
  <2>5. segment_files' \in [DOMAIN segment_files' -> SegmentFile]
    BY <2>2, SegmentWritten
  <2>6. manifest' = manifest
    BY <1>1
  <2> QED BY <1>1, <2>4, <2>5, <2>6, CheckpointWrites, ZenonT(30) DEF SegmentFile, DbInv, FileShape
<1> QED BY <1>5, <1>6, ZenonT(30)

Manifest == [written : BOOLEAN, last_lsn : Nat, segment_files : SUBSET Nat]

\* No manifest is a manifest.
LEMMA EmptyManifest == NoManifest \in Manifest /\ Bounded(NoManifest.segment_files)
<1>1. Bounded({})
  BY BoundedSets, Zenon
<1> QED BY <1>1, Zenon DEF NoManifest, Manifest

\* Writing the manifest keeps DbInv, and so does giving the checkpoint up.
LEMMA CheckpointManifestInv ==
  ASSUME DbInv, TruncateManifest \/ WriteManifest \/ CheckpointFails,
         UNCHANGED <<clientVars, logical>>
  PROVE  DbInv'
<1>1. /\ phase = "open" /\ checkpoint \in CheckpointLocals
      /\ UNCHANGED <<vars, walVars, redoVars, clientVars, logical, segment_files>>
      /\ segment_files \in [DOMAIN segment_files -> [rows : SUBSET StoredRow, whole : BOOLEAN]]
      /\ manifest \in Manifest /\ Bounded(manifest.segment_files)
  BY CheckpointOpen, Zenon
     DEF TruncateManifest, WriteManifest, CheckpointFails, fileVars, DbInv, FileShape, Manifest
<1>2. checkpoint' \in CheckpointLocals /\ checkpoint'.todo = {}
      /\ checkpoint'.step \in {"none", "manifest"}
  <2>1. CASE TruncateManifest
    BY <1>1, <2>1, Zenon DEF TruncateManifest, CheckpointLocals
  <2>2. CASE WriteManifest
    BY <1>1, <2>2, ZenonT(30) DEF WriteManifest, CheckpointLocals, DbInv, FileShape
  <2>3. CASE CheckpointFails
    BY <1>1, <2>3, ZenonT(30) DEF CheckpointFails, CheckpointLocals
  <2> QED BY <2>1, <2>2, <2>3, Zenon
<1>3. manifest' \in Manifest /\ Bounded(manifest.segment_files)'
  <2>1. CASE TruncateManifest
    <3>1. manifest' = NoManifest
      BY <2>1, Zenon DEF TruncateManifest
    <3> QED BY <3>1, EmptyManifest, Zenon DEF Bounded
  <2>2. CASE WriteManifest
    <3>1. manifest' = [written |-> TRUE, last_lsn |-> checkpoint.wal_lsn,
                       segment_files |-> DOMAIN base_segments]
      BY <2>2, Zenon DEF WriteManifest
    <3>2. Bounded(DOMAIN base_segments) /\ checkpoint.wal_lsn \in Nat
      BY <1>1, Zenon DEF DbInv, MemoryShape, CheckpointLocals
    <3>3. DOMAIN base_segments \subseteq Nat
      BY <3>2 DEF Bounded
    <3> QED BY <3>1, <3>2, <3>3, Zenon DEF Bounded, Manifest
  <2>3. CASE CheckpointFails
    BY <1>1, <2>3, Zenon DEF CheckpointFails, fileVars, Bounded
  <2> QED BY <2>1, <2>2, <2>3, Zenon
<1>4. segment_files' \in [DOMAIN segment_files' -> [rows : SUBSET StoredRow, whole : BOOLEAN]]
  BY <1>1, Zenon
<1> QED BY <1>1, <1>2, <1>3, <1>4, CheckpointWrites, ZenonT(30) DEF Manifest

\* Every step of a checkpoint keeps DbInv.
LEMMA DbCheckpointInv ==
  ASSUME DbInv, DbCheckpoint
  PROVE  DbInv'
BY CheckpointBeginInv, CheckpointCompactInv, CheckpointSaveInv, CheckpointManifestInv, ZenonT(30)
   DEF DbCheckpoint, Checkpoint
=============================================================================
