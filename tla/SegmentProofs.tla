--------------------------- MODULE SegmentProofs ---------------------------
(***************************************************************************)
(* Pruning by bounds, for columns and literals of any size.  It rests on   *)
(* CompareValues being a total preorder: for strings the order of their    *)
(* bytes is one; for numbers it is enough that the conversion to double    *)
(* has a result, whatever it rounds to.                                    *)
(*                                                                         *)
(* That the loop of Build covers every row follows by induction over the   *)
(* rows, of which WidensCovers is the step.                                *)
(***************************************************************************)
EXTENDS Segment, WellFoundedInduction, TLAPS

\* more time than by default for every step that names no prover
USE SMTT(30), ZenonT(30)

Values(type) == IF type = "kString" THEN Seq(Nat) ELSE Int

\* a bound is a pair of values of the column
Bounds(type) == [min : Values(type), max : Values(type)]

\* v lies between the bounds, as CompareValues sees it
Covers(type, bounds, v) ==
  CompareValues(type, v, bounds.min) >= 0 /\ CompareValues(type, v, bounds.max) <= 0

-----------------------------------------------------------------------------
(* operator< of strings *)

LEMMA BytesOf ==
  ASSUME NEW s \in Seq(Nat), NEW i \in 1..Len(s)
  PROVE  s[i] \in Nat
OBVIOUS

\* Two strings are never both in front of each other.
LEMMA BeforeAsymmetric ==
  ASSUME NEW a \in Seq(Nat), NEW b \in Seq(Nat), Before(a, b)
  PROVE  ~Before(b, a)
<1> SUFFICES ASSUME Before(b, a) PROVE FALSE
  OBVIOUS
<1>1. PICK n \in 0..Len(a) : /\ n < Len(b) /\ \A i \in 1..n : a[i] = b[i]
                             /\ n = Len(a) \/ (n < Len(a) /\ a[n + 1] < b[n + 1])
  BY DEF Before
<1>2. PICK m \in 0..Len(b) : /\ m < Len(a) /\ \A i \in 1..m : b[i] = a[i]
                             /\ m = Len(b) \/ (m < Len(b) /\ b[m + 1] < a[m + 1])
  BY DEF Before
<1>3. n < Len(a) /\ m < Len(b) /\ n + 1 \in 1..Len(a) /\ n + 1 \in 1..Len(b)
      /\ m + 1 \in 1..Len(a) /\ m + 1 \in 1..Len(b) => FALSE
  <2> HAVE n < Len(a) /\ m < Len(b) /\ n + 1 \in 1..Len(a) /\ n + 1 \in 1..Len(b)
           /\ m + 1 \in 1..Len(a) /\ m + 1 \in 1..Len(b)
  <2>1. a[n + 1] \in Nat /\ b[n + 1] \in Nat /\ a[m + 1] \in Nat /\ b[m + 1] \in Nat
    OBVIOUS
  <2>2. CASE n < m
    <3>1. n + 1 \in 1..m
      BY <2>2
    <3>2. b[n + 1] = a[n + 1]
      BY <1>2, <3>1
    <3>3. a[n + 1] < b[n + 1]
      BY <1>1
    <3> QED BY <2>1, <3>2, <3>3
  <2>3. CASE m < n
    <3>1. m + 1 \in 1..n
      BY <2>3
    <3>2. a[m + 1] = b[m + 1]
      BY <1>1, <3>1
    <3>3. b[m + 1] < a[m + 1]
      BY <1>2
    <3> QED BY <2>1, <3>2, <3>3
  <2>4. CASE n = m
    BY <1>1, <1>2, <2>1, <2>4
  <2>5. n < m \/ m < n \/ n = m
    OBVIOUS
  <2> QED BY <2>2, <2>3, <2>4, <2>5, ZenonT(30)
<1>4. Len(a) \in Nat /\ Len(b) \in Nat
  OBVIOUS
<1>5. CASE n = Len(a)
  <2>1. m < n /\ m < Len(b) /\ m + 1 \in 1..n /\ m + 1 \in 1..Len(b)
    BY <1>1, <1>2, <1>4, <1>5
  <2>2. b[m + 1] < a[m + 1] /\ a[m + 1] = b[m + 1] /\ a[m + 1] \in Nat
    BY <1>1, <1>2, <1>4, <1>5, <2>1
  <2> QED BY <2>2
<1>6. CASE m = Len(b)
  <2>1. n < m /\ n < Len(a) /\ n + 1 \in 1..m /\ n + 1 \in 1..Len(a)
    BY <1>1, <1>2, <1>4, <1>6
  <2>2. a[n + 1] < b[n + 1] /\ b[n + 1] = a[n + 1] /\ b[n + 1] \in Nat
    BY <1>1, <1>2, <1>4, <1>6, <2>1
  <2> QED BY <2>2
<1>7. CASE n < Len(a) /\ m < Len(b)
  <2>1. n + 1 \in 1..Len(a) /\ n + 1 \in 1..Len(b) /\ m + 1 \in 1..Len(a) /\ m + 1 \in 1..Len(b)
    <3>1. /\ \A i, l \in Nat : i < l => i + 1 \in 1..l
          /\ n \in Nat /\ m \in Nat
      OBVIOUS
    <3> QED BY <1>1, <1>2, <1>4, <1>7, <3>1, ZenonT(30)
  <2> QED BY <1>3, <1>7, <2>1
<1> QED BY <1>1, <1>2, <1>5, <1>6, <1>7

\* A non-empty set of naturals has a least element.
LEMMA LeastIndex ==
  ASSUME NEW S \in SUBSET Nat, S # {}
  PROVE  \E x \in S : \A y \in S : x <= y
<1> DEFINE R == {ss \in Nat \X Nat : ss[1] < ss[2]}
<1>1. IsWellFoundedOn(R, Nat)
  BY NatLessThanWellFounded, ZenonT(30) DEF OpToRel
<1>2. PICK x \in S : \A y \in S : ~(<<y, x>> \in R)
  <2> HIDE DEF R
  <2> QED BY <1>1, WFMin, ZenonT(30)
<1>3. ASSUME NEW y \in S PROVE x <= y
  <2>1. <<y, x>> \in R <=> y < x
    OBVIOUS
  <2> HIDE DEF R
  <2> QED BY <1>2, <2>1
<1> QED BY <1>3, ZenonT(30)

\* the position in front of k
LEMMA PositionBefore ==
  ASSUME NEW l \in Nat, NEW k \in Nat \ {0}, k <= l
  PROVE  k - 1 \in 0..l /\ k - 1 < l /\ (k - 1) + 1 = k /\ k \in 1..l
OBVIOUS

LEMMA PositionsBefore ==
  ASSUME NEW n \in Nat, NEW k \in 1..n
  PROVE  /\ k \in Nat \ {0} /\ k <= n
         /\ \A i \in 1..(k - 1) : i \in 1..n /\ ~(k <= i)
OBVIOUS

\* A string is behind the first or in front of the second of two in order.
LEMMA BeforeSplits ==
  ASSUME NEW a \in Seq(Nat), NEW b \in Seq(Nat), NEW c \in Seq(Nat), Before(a, b)
  PROVE  Before(a, c) \/ Before(c, b)
<1>1. PICK n \in 0..Len(a) : /\ n < Len(b) /\ \A i \in 1..n : a[i] = b[i]
                             /\ n = Len(a) \/ (n < Len(a) /\ a[n + 1] < b[n + 1])
  BY DEF Before
<1> DEFINE differs == {i \in 1..n : i > Len(c) \/ c[i] # a[i]}
<1>2. Len(a) \in Nat /\ Len(b) \in Nat /\ Len(c) \in Nat
  OBVIOUS
<1>3. CASE differs = {}
  <2>1. n <= Len(c) /\ \A i \in 1..n : c[i] = a[i] /\ c[i] = b[i]
    <3>1. ASSUME NEW i \in 1..n PROVE i <= Len(c) /\ c[i] = a[i]
      <4>1. ~(i > Len(c) \/ c[i] # a[i])
        BY <1>3, ZenonT(30)
      <4> QED BY <1>2, <4>1
    <3>2. n <= Len(c)
      <4>1. n \in Nat /\ (n = 0 \/ n \in 1..n)
        OBVIOUS
      <4> QED BY <1>2, <3>1, <4>1
    <3> QED BY <1>1, <3>1, <3>2
  <2>2. CASE n = Len(c)
    BY <1>1, <1>2, <2>1, <2>2 DEF Before
  <2>3. CASE n < Len(c) /\ n = Len(a)
    BY <1>1, <1>2, <2>1, <2>3, ZenonT(30) DEF Before
  <2>4. CASE n < Len(c) /\ n < Len(a)
    <3>1. n + 1 \in 1..Len(a) /\ n + 1 \in 1..Len(b) /\ n + 1 \in 1..Len(c)
      BY <1>1, <1>2, <2>4
    <3>2. a[n + 1] \in Nat /\ b[n + 1] \in Nat /\ c[n + 1] \in Nat
      BY <3>1
    <3>3. a[n + 1] < c[n + 1] \/ c[n + 1] < b[n + 1]
      <4>1. a[n + 1] < b[n + 1]
        BY <1>1, <2>4
      <4> QED BY <3>2, <4>1
    <3> QED BY <1>1, <1>2, <2>1, <2>4, <3>3 DEF Before
  <2> QED BY <1>1, <1>2, <2>1, <2>2, <2>3, <2>4
<1>4. CASE differs # {}
  <2>1. PICK k \in differs : \A i \in differs : k <= i
    <3>1. differs \in SUBSET Nat
      OBVIOUS
    <3> HIDE DEF differs
    <3> QED BY <1>4, <3>1, LeastIndex, ZenonT(30)
  <2> DEFINE m == k - 1
  <2>2. /\ k \in 1..n /\ m \in 0..n /\ m \in 0..Len(a) /\ m < Len(a) /\ m < Len(b)
        /\ m + 1 = k /\ k \in 1..Len(a) /\ k \in 1..Len(b)
        /\ k <= Len(c) => m \in 0..Len(c) /\ m < Len(c) /\ k \in 1..Len(c)
        /\ \A i \in 1..m : i \in 1..n /\ ~(k <= i)
    <3>1. k \in 1..n /\ n \in 0..Len(a) /\ n < Len(b)
      BY <1>1, ZenonT(30)
    <3> HIDE DEF differs
    <3>2. n \in Nat /\ n <= Len(a)
      BY <1>2
    <3>3. k \in Nat \ {0} /\ k <= n /\ \A i \in 1..m : i \in 1..n /\ ~(k <= i)
      BY <3>1, <3>2, PositionsBefore, ZenonT(30)
    <3>4. k <= Len(a) /\ k <= Len(b)
      BY <1>2, <3>1, <3>2, <3>3
    <3>5. m \in 0..n /\ m + 1 = k
      BY <3>2, <3>3, PositionBefore, ZenonT(30)
    <3>6. m \in 0..Len(a) /\ m < Len(a) /\ k \in 1..Len(a)
      BY <1>2, <3>3, <3>4, PositionBefore, ZenonT(30)
    <3>7. m < Len(b) /\ k \in 1..Len(b)
      BY <1>2, <3>3, <3>4, PositionBefore, ZenonT(30)
    <3>8. k <= Len(c) => m \in 0..Len(c) /\ m < Len(c) /\ k \in 1..Len(c)
      BY <1>2, <3>3, PositionBefore, ZenonT(30)
    <3> HIDE DEF m
    <3> QED BY <3>1, <3>3, <3>5, <3>6, <3>7, <3>8, ZenonT(30)
  <2> HIDE DEF m
  <2>3. \A i \in 1..m : i <= Len(c) /\ c[i] = a[i] /\ c[i] = b[i]
    <3> SUFFICES ASSUME NEW i \in 1..m PROVE i <= Len(c) /\ c[i] = a[i] /\ c[i] = b[i]
      OBVIOUS
    <3>1. i \in 1..n /\ i \notin differs
      BY <2>1, <2>2, ZenonT(30)
    <3>2. ~(i > Len(c)) /\ c[i] = a[i]
      BY <3>1, ZenonT(30)
    <3>3. i \in Nat
      BY <3>1
    <3> QED BY <1>1, <1>2, <3>1, <3>2, <3>3
  <2>4. CASE k > Len(c)
    <3>1. m = Len(c)
      <4>1. m \in Nat /\ m >= Len(c)
        BY <1>2, <2>2, <2>4
      <4>2. m = 0 \/ m \in 1..m
        BY <4>1
      <4> QED BY <1>2, <2>3, <4>1, <4>2
    <3>2. m \in 0..Len(c) /\ \A i \in 1..m : c[i] = b[i]
      BY <1>2, <2>3, <3>1
    <3>3. Before(c, b)
      BY <2>2, <3>1, <3>2, ZenonT(30) DEF Before
    <3> QED BY <3>3
  <2>5. CASE k <= Len(c)
    <3>1. /\ m \in 0..Len(c) /\ m < Len(c) /\ k \in 1..Len(c)
      BY <2>2, <2>5, ZenonT(30)
    <3>2. a[k] = b[k]
      BY <1>1, <2>2
    <3>3. c[k] # a[k]
      BY <1>2, <2>5
    <3>4. a[k] \in Nat /\ c[k] \in Nat
      BY <2>2, <3>1, BytesOf
    <3>5. \A i \in 1..m : c[i] = a[i] /\ c[i] = b[i]
      BY <2>3, ZenonT(30)
    <3>6. CASE a[k] < c[k]
      <4>1. a[m + 1] < c[m + 1] /\ \A i \in 1..m : a[i] = c[i]
        BY <2>2, <3>5, <3>6, ZenonT(30)
      <4> QED BY <2>2, <3>1, <4>1 DEF Before
    <3>7. CASE c[k] < a[k]
      <4>1. c[m + 1] < b[m + 1] /\ \A i \in 1..m : c[i] = b[i]
        BY <2>2, <3>2, <3>5, <3>7, ZenonT(30)
      <4> QED BY <2>2, <3>1, <4>1 DEF Before
    <3> QED BY <3>3, <3>4, <3>6, <3>7
  <2> QED BY <1>2, <2>2, <2>4, <2>5
<1> QED BY <1>3, <1>4

-----------------------------------------------------------------------------
(* CompareValues *)

\* CompareValues is a total preorder on the values of a column: the two directions
\* agree, and of two values in order a third is behind the first or before the second.
LEMMA ComparesInOrder ==
  ASSUME NEW type \in ColumnType, \A i \in Int : AsDouble(i) \in Int,
         NEW a \in Values(type), NEW b \in Values(type), NEW c \in Values(type)
  PROVE  /\ CompareValues(type, a, b) \in {-1, 0, 1}
         /\ CompareValues(type, a, b) = -CompareValues(type, b, a)
         /\ CompareValues(type, a, b) = -1
              => CompareValues(type, a, c) = -1 \/ CompareValues(type, c, b) = -1
<1>1. CASE type = "kString"
  <2>1. a \in Seq(Nat) /\ b \in Seq(Nat) /\ c \in Seq(Nat)
    BY <1>1 DEF Values
  <2>2. /\ CompareValues(type, a, b) = IF Before(a, b) THEN -1 ELSE IF Before(b, a) THEN 1 ELSE 0
        /\ CompareValues(type, b, a) = IF Before(b, a) THEN -1 ELSE IF Before(a, b) THEN 1 ELSE 0
        /\ CompareValues(type, a, c) = IF Before(a, c) THEN -1 ELSE IF Before(c, a) THEN 1 ELSE 0
        /\ CompareValues(type, c, b) = IF Before(c, b) THEN -1 ELSE IF Before(b, c) THEN 1 ELSE 0
    BY <1>1 DEF CompareValues
  <2>3. Before(a, b) => ~Before(b, a)
    BY <2>1, BeforeAsymmetric
  <2>4. Before(a, b) => Before(a, c) \/ Before(c, b)
    BY <2>1, BeforeSplits
  <2> QED BY <2>2, <2>3, <2>4
<1>2. CASE type # "kString"
  <2>1. AsDouble(a) \in Int /\ AsDouble(b) \in Int /\ AsDouble(c) \in Int
    BY <1>2 DEF Values
  <2> QED BY <1>2, <2>1 DEF CompareValues
<1> QED BY <1>1, <1>2

-----------------------------------------------------------------------------
(* The bounds *)

\* One row of the loop of Build: the widened bounds cover the value and everything that
\* was covered before.
THEOREM WidensCovers ==
  ASSUME NEW type \in ColumnType, \A i \in Int : AsDouble(i) \in Int,
         NEW bounds \in Bounds(type) \cup {NULL}, NULL \notin Bounds(type),
         NEW v \in Values(type), NEW w \in Values(type),
         w = v \/ (bounds # NULL /\ Covers(type, bounds, w))
  PROVE  Covers(type, Widens(type, bounds, v), w)
<1>1. CASE bounds = NULL
  <2>1. w = v /\ Widens(type, bounds, v) = [min |-> v, max |-> v]
    BY <1>1 DEF Widens
  <2>2. CompareValues(type, v, v) \in Int
        /\ CompareValues(type, v, v) = -CompareValues(type, v, v)
    BY ComparesInOrder
  <2> QED BY <2>1, <2>2 DEF Covers
<1>2. CASE bounds # NULL
  <2> DEFINE C(x, y) == CompareValues(type, x, y)
             lo == IF C(v, bounds.min) < 0 THEN v ELSE bounds.min
             hi == IF C(v, bounds.max) > 0 THEN v ELSE bounds.max
  <2>1. bounds.min \in Values(type) /\ bounds.max \in Values(type)
        /\ Widens(type, bounds, v) = [min |-> lo, max |-> hi]
    BY <1>2 DEF Bounds, Widens
  <2>2. /\ \A x, y \in Values(type) : C(x, y) \in {-1, 0, 1} /\ C(x, y) = -C(y, x)
        /\ \A x, y, z \in Values(type) : C(x, y) = -1 => C(x, z) = -1 \/ C(z, y) = -1
    BY ComparesInOrder
  <2>3. w = v \/ (C(w, bounds.min) >= 0 /\ C(w, bounds.max) <= 0)
    BY DEF Covers
  <2> HIDE DEF C
  <2>4. C(w, lo) >= 0
    BY <2>1, <2>2, <2>3
  <2>5. C(w, hi) <= 0
    BY <2>1, <2>2, <2>3
  <2> QED BY <2>1, <2>4, <2>5 DEF Covers, C
<1> QED BY <1>1, <1>2

\* CanSkip never skips a segment with a row that EvaluatePredicate accepts, if the
\* bounds cover the rows: whatever the operator, the literal and the rounding of numbers.
THEOREM CoveredPrunesNoMatch ==
  ASSUME NEW col, col.type \in ColumnType, \A i \in Int : AsDouble(i) \in Int,
         col.bounds \in Bounds(col.type),
         NEW v \in Values(col.type), Covers(col.type, col.bounds, v),
         NEW op \in PredicateOp, NEW literal \in Values(col.type),
         CanSkip(col, op, literal)
  PROVE  ~EvaluatePredicate(col.type, v, op, literal)
<1> DEFINE C(x, y) == CompareValues(col.type, x, y)
           min == col.bounds.min
           max == col.bounds.max
<1>1. min \in Values(col.type) /\ max \in Values(col.type)
  BY DEF Bounds
<1>2. /\ \A x, y \in Values(col.type) : C(x, y) \in {-1, 0, 1} /\ C(x, y) = -C(y, x)
      /\ \A x, y, z \in Values(col.type) : C(x, y) = -1 => C(x, z) = -1 \/ C(z, y) = -1
  BY ComparesInOrder
<1>3. C(v, min) >= 0 /\ C(v, max) <= 0
  BY DEF Covers
<1>4. /\ op = "kEq" => C(literal, min) < 0 \/ C(literal, max) > 0
      /\ op = "kGt" => C(literal, max) >= 0
      /\ op = "kGe" => C(literal, max) > 0
      /\ op = "kLt" => C(literal, min) <= 0
      /\ op = "kLe" => C(literal, min) < 0
      /\ op # "kNe"
  BY ZenonT(30) DEF CanSkip, PredicateOp
<1>5. SUFFICES ASSUME EvaluatePredicate(col.type, v, op, literal) PROVE FALSE
  OBVIOUS
<1>6. /\ op = "kEq" => C(v, literal) = 0
      /\ op = "kGt" => C(v, literal) > 0
      /\ op = "kGe" => C(v, literal) >= 0
      /\ op = "kLt" => C(v, literal) < 0
      /\ op = "kLe" => C(v, literal) <= 0
  BY <1>5, ZenonT(30) DEF EvaluatePredicate, PredicateOp
<1> HIDE DEF C, min, max
<1>7. C(v, literal) \in {-1, 0, 1} /\ C(literal, v) = -C(v, literal)
  BY <1>2
<1>8. C(literal, min) < 0 => C(literal, v) = -1
  BY <1>1, <1>2, <1>3
<1>9. C(literal, max) > 0 => C(v, literal) = -1
  BY <1>1, <1>2, <1>3
<1>10. C(literal, max) >= 0 => C(v, literal) <= 0
  BY <1>1, <1>2, <1>3
<1>11. C(literal, min) <= 0 => C(v, literal) >= 0
  BY <1>1, <1>2, <1>3
<1> QED BY <1>4, <1>6, <1>7, <1>8, <1>9, <1>10, <1>11 DEF PredicateOp
=============================================================================
