------------------------------ MODULE Segment ------------------------------
(***************************************************************************)
(* storage::Segment in memory: columns of int64 or of dictionary-encoded   *)
(* strings, each with a validity bitmap and the min/max bounds that prune  *)
(* whole segments.  A string is a sequence of bytes.                       *)
(*                                                                         *)
(* CompareValues converts numbers to double.  A double holds               *)
(* MantissaBits = 53 significant bits; the model keeps the rounding and    *)
(* makes the mantissa a parameter, so that small integers can exceed it.   *)
(* ByteBits is a parameter so that a few rows fill more than one byte.     *)
(***************************************************************************)
EXTENDS Integers, Sequences, FiniteSetsExt, SequencesExt

CONSTANTS
  NULL,           \* std::monostate
  MantissaBits,   \* significant bits of a double
  ByteBits        \* bits of a byte

ASSUME SegmentAssumption == MantissaBits \in Nat \ {0} /\ ByteBits \in Nat \ {0}

ColumnType == {"kInt64", "kString"}

PredicateOp == {"kEq", "kNe", "kLt", "kLe", "kGt", "kGe"}

-----------------------------------------------------------------------------
(* types.cpp *)

\* the weight of the last bit of the mantissa for a magnitude n
Unit(n) == 2 ^ Min({e \in 0..n : n < 2 ^ (MantissaBits + e)})

\* to the nearest double, ties to the even mantissa
Rounded(n) ==
  LET u == Unit(n)
      q == n \div u
      rest == 2 * (n % u) IN
  IF rest < u \/ (rest = u /\ q % 2 = 0) THEN q * u ELSE (q + 1) * u

AsDouble(i) == IF i < 0 THEN -Rounded(-i) ELSE Rounded(i)

\* operator< of std::string
Before(a, b) ==
  \E n \in 0..Len(a) :
    /\ n < Len(b) /\ \A i \in 1..n : a[i] = b[i]
    /\ n = Len(a) \/ (n < Len(a) /\ a[n + 1] < b[n + 1])

CompareValues(type, lhs, rhs) ==
  LET Less(a, b) == IF type = "kString" THEN Before(a, b) ELSE AsDouble(a) < AsDouble(b) IN
  IF Less(lhs, rhs) THEN -1 ELSE IF Less(rhs, lhs) THEN 1 ELSE 0

EvaluatePredicate(type, v, op, literal) ==
  /\ v # NULL
  /\ LET cmp == CompareValues(type, v, literal) IN
     CASE op = "kEq" -> cmp = 0
       [] op = "kNe" -> cmp # 0
       [] op = "kLt" -> cmp < 0
       [] op = "kLe" -> cmp <= 0
       [] op = "kGt" -> cmp > 0
       [] op = "kGe" -> cmp >= 0

-----------------------------------------------------------------------------
(* bitmap.h: the bit of row r, from 0, of a bitmap *)

BytesFor(num_rows) == (num_rows + ByteBits - 1) \div ByteBits

LastByteMask(num_rows) ==
  LET used_bits == num_rows % ByteBits IN
  IF used_bits = 0 THEN 2 ^ ByteBits - 1 ELSE 2 ^ used_bits - 1

\* every row valid, the trailing bits cleared
Bitmap(num_rows) ==
  [num_rows |-> num_rows,
   bytes |-> [i \in 1..BytesFor(num_rows) |->
                IF i = BytesFor(num_rows) THEN LastByteMask(num_rows) ELSE 2 ^ ByteBits - 1]]

FromBytes(num_rows, bytes) == [num_rows |-> num_rows, bytes |-> bytes]

IsValid(bitmap, r) == (bitmap.bytes[r \div ByteBits + 1] \div 2 ^ (r % ByteBits)) % 2 = 1

\* SetValid(row, false)
SetInvalid(bitmap, r) ==
  IF IsValid(bitmap, r)
    THEN [bitmap EXCEPT !.bytes[r \div ByteBits + 1] = @ - 2 ^ (r % ByteBits)] ELSE bitmap

CountValid(bitmap) == Cardinality({r \in 0..(bitmap.num_rows - 1) : IsValid(bitmap, r)})

-----------------------------------------------------------------------------
(* dictionary.h: the strings in the order of their codes, which start at 0 *)

\* wrong: a string that is there gets the newest code
InternNewest(values, s) ==
  IF s \in Range(values) THEN [values |-> values, code |-> Len(values) - 1]
  ELSE [values |-> Append(values, s), code |-> Len(values)]

InternOrGet(values, s) ==
  IF s \in Range(values)
    THEN [values |-> values, code |-> (CHOOSE i \in DOMAIN values : values[i] = s) - 1]
    ELSE [values |-> Append(values, s), code |-> Len(values)]

ValueOf(values, code) == values[code + 1]

-----------------------------------------------------------------------------
(* segment.cpp *)

\* wrong: a value that is no new minimum becomes the maximum
WidensOneSide(type, bounds, v) ==
  IF bounds = NULL THEN [min |-> v, max |-> v]
  ELSE IF CompareValues(type, v, bounds.min) < 0 THEN [bounds EXCEPT !.min = v]
  ELSE [bounds EXCEPT !.max = v]

Widens(type, bounds, v) ==
  IF bounds = NULL THEN [min |-> v, max |-> v]
  ELSE [min |-> IF CompareValues(type, v, bounds.min) < 0 THEN v ELSE bounds.min,
        max |-> IF CompareValues(type, v, bounds.max) > 0 THEN v ELSE bounds.max]

\* a column before the loop over the rows; the slot of a NULL keeps the 0 of resize()
EmptyColumn(type, num_rows) ==
  [type |-> type, validity |-> Bitmap(num_rows), data |-> [r \in 1..num_rows |-> 0],
   dictionary |-> << >>, bounds |-> NULL]

\* row r of the loop of Build
BuildRow(col, r, v) ==
  LET interned == InternOrGet(col.dictionary, v) IN
  CASE v = NULL -> [col EXCEPT !.validity = SetInvalid(@, r - 1)]
    [] v # NULL /\ col.type = "kString" ->
         [col EXCEPT !.dictionary = interned.values, !.data[r] = interned.code,
                     !.bounds = Widens(col.type, @, v)]
    [] OTHER -> [col EXCEPT !.data[r] = v, !.bounds = Widens(col.type, @, v)]

\* one column of Segment::Build
BuildColumn(type, values) ==
  FoldLeftDomain(LAMBDA col, r : BuildRow(col, r, values[r]),
                 EmptyColumn(type, Len(values)), values)

ValueAt(col, r) ==
  CASE ~IsValid(col.validity, r - 1) -> NULL
    [] IsValid(col.validity, r - 1) /\ col.type = "kString" -> ValueOf(col.dictionary, col.data[r])
    [] OTHER -> col.data[r]

\* wrong: a literal equal to the least value prunes <=
SkipsBoundary(col, op, literal) ==
  /\ col.bounds # NULL
  /\ LET cmp_min == CompareValues(col.type, literal, col.bounds.min)
         cmp_max == CompareValues(col.type, literal, col.bounds.max) IN
     CASE op = "kEq" -> cmp_min < 0 \/ cmp_max > 0
       [] op = "kGt" -> cmp_max >= 0
       [] op = "kGe" -> cmp_max > 0
       [] op \in {"kLt", "kLe"} -> cmp_min <= 0
       [] op = "kNe" -> FALSE

CanSkip(col, op, literal) ==
  /\ col.bounds # NULL
  /\ LET cmp_min == CompareValues(col.type, literal, col.bounds.min)
         cmp_max == CompareValues(col.type, literal, col.bounds.max) IN
     CASE op = "kEq" -> cmp_min < 0 \/ cmp_max > 0
       [] op = "kGt" -> cmp_max >= 0
       [] op = "kGe" -> cmp_max > 0
       [] op = "kLt" -> cmp_min <= 0
       [] op = "kLe" -> cmp_min < 0
       [] op = "kNe" -> FALSE
=============================================================================
