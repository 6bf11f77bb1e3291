--------------------------- MODULE SegmentFormat ---------------------------
(***************************************************************************)
(* A segment file cell by cell: Build, SaveToFile, what may happen to the  *)
(* file, and LoadFromFile with each of its early returns.                  *)
(*                                                                         *)
(* A number, a character and a checksum are one cell each, and so is the   *)
(* magic.  Rows have the types of the schema.                              *)
(***************************************************************************)
EXTENDS Segment, FileBytes

CONSTANTS
  Schemas,       \* sequences of column types
  ColumnValues,  \* by type: the values of a column, NULL included
  MaxFileRows,   \* bound: rows of the segment
  DamagedTo      \* what a damaged cell is changed to

ASSUME SegmentFormatAssumption == MaxFileRows \in Nat /\ \A s \in Schemas : s \in Seq(ColumnType)

VARIABLES
  schema,    \* full_schema_
  rows,      \* the rows of the segment: by column, the value of each row
  file,      \* the file
  damage,    \* what has happened to it: none, cut, or a cell changed that checks cover or not
  loaded,    \* what LoadFromFile returned
  phase      \* build, saved, loaded

segmentVars == <<schema, rows, file, damage, loaded, phase>>

-----------------------------------------------------------------------------
ColumnTypeByte(type) == IF type = "kString" THEN 3 ELSE 1

Magic == 7

\* wrong: the validity of the rows is not covered
ChecksumOfData(col) ==
  Crc32c(Cells(col.data) \o FlattenSeq([i \in DOMAIN col.dictionary |-> Cells(col.dictionary[i])]))

ComputeColumnChecksum(col) ==
  Crc32c(Cells(col.validity.bytes) \o Cells(col.data)
           \o FlattenSeq([i \in DOMAIN col.dictionary |-> Cells(col.dictionary[i])]))

Build(the_schema, the_rows) ==
  LET column(c) == BuildColumn(the_schema[c], the_rows[c]) IN
  [segment_id |-> 1,
   num_rows |-> Len(Head(the_rows)),
   columns |-> [c \in DOMAIN the_schema |-> column(c)],
   checksums |-> [c \in DOMAIN the_schema |-> ComputeColumnChecksum(column(c))]]

VerifyIntegrity(segment) ==
  \A c \in DOMAIN segment.columns : ComputeColumnChecksum(segment.columns[c]) = segment.checksums[c]

-----------------------------------------------------------------------------
(* SaveToFile *)

WriteTypedValue(type, v) == IF type = "kString" THEN WriteString(v) ELSE <<Cell(v)>>

SaveBounds(col) ==
  IF col.bounds = NULL THEN <<Cell(0)>>
  ELSE <<Cell(1)>> \o WriteTypedValue(col.type, col.bounds.min)
                   \o WriteTypedValue(col.type, col.bounds.max)

SaveDictionary(col) ==
  IF col.type # "kString" THEN << >>
  ELSE <<Cell(Len(col.dictionary))>>
         \o FlattenSeq([i \in DOMAIN col.dictionary |-> WriteString(col.dictionary[i])])

SaveColumn(segment, c) ==
  LET col == segment.columns[c] IN
  <<Cell(ColumnTypeByte(col.type)), Cell(segment.num_rows - CountValid(col.validity))>>
    \o Cells(col.validity.bytes) \o SaveBounds(col)
    \o <<segment.checksums[c]>> \o Cells(col.data) \o SaveDictionary(col)

SaveToFile(segment) ==
  Cells(<<Magic, Len(segment.columns), segment.segment_id, segment.num_rows>>)
    \o FlattenSeq([c \in DOMAIN segment.columns |-> SaveColumn(segment, c)])

-----------------------------------------------------------------------------
(* LoadFromFile *)

ReadTypedValue(type, f, pos) == IF type = "kString" THEN ReadString(f, pos) ELSE NumberAt(f, pos)

HasTypedValue(type, f, pos) == IF type = "kString" THEN HasString(f, pos) ELSE Has(f, pos, 1)

AfterTypedValue(type, f, pos) == IF type = "kString" THEN AfterString(f, pos) ELSE pos + 1

\* the bounds behind the flag at pos
ReadBounds(type, f, pos) ==
  LET max_at == AfterTypedValue(type, f, pos + 1) IN
  IF NumberAt(f, pos) = 0 THEN [ok |-> TRUE, pos |-> pos + 1, bounds |-> NULL]
  ELSE IF HasTypedValue(type, f, pos + 1) /\ HasTypedValue(type, f, max_at)
    THEN [ok |-> TRUE, pos |-> AfterTypedValue(type, f, max_at),
          bounds |-> [min |-> ReadTypedValue(type, f, pos + 1), max |-> ReadTypedValue(type, f, max_at)]]
    ELSE [ok |-> FALSE]

ReadDictionary(f, pos) ==
  LET entry(got, i) ==
        IF got.ok /\ HasString(f, got.pos)
          THEN [ok |-> TRUE, pos |-> AfterString(f, got.pos),
                values |-> Append(got.values, ReadString(f, got.pos))]
          ELSE [got EXCEPT !.ok = FALSE] IN
  IF Has(f, pos, 1)
    THEN FoldLeft(entry, [ok |-> TRUE, pos |-> pos + 1, values |-> << >>],
                  Turns(NumberAt(f, pos), f))
    ELSE [ok |-> FALSE]

\* the turn of the loop for a column of the given type, behind what was loaded so far
LoadColumn(f, num_rows, type, got) ==
  LET bitmap_at == got.pos + 2
      flag_at == bitmap_at + BytesFor(num_rows)
      validity == FromBytes(num_rows, NumbersAt(f, bitmap_at, BytesFor(num_rows)))
      bounds == ReadBounds(type, f, flag_at)
      data_at == bounds.pos + 1
      dictionary == IF type = "kString" THEN ReadDictionary(f, data_at + num_rows)
                    ELSE [ok |-> TRUE, pos |-> data_at + num_rows, values |-> << >>]
      col == [type |-> type, validity |-> validity, data |-> NumbersAt(f, data_at, num_rows),
              dictionary |-> dictionary.values, bounds |-> bounds.bounds] IN
  IF /\ got.ok
     /\ Has(f, got.pos, 2) /\ NumberAt(f, got.pos) = ColumnTypeByte(type)
     /\ Has(f, bitmap_at, BytesFor(num_rows))
     /\ num_rows - CountValid(validity) = NumberAt(f, got.pos + 1)
     /\ Has(f, flag_at, 1) /\ bounds.ok
     /\ Has(f, bounds.pos, 1) /\ Has(f, data_at, num_rows)
     /\ dictionary.ok
     /\ ComputeColumnChecksum(col) = f[bounds.pos + 1]
  THEN [ok |-> TRUE, pos |-> dictionary.pos, columns |-> Append(got.columns, col),
        checksums |-> Append(got.checksums, f[bounds.pos + 1])]
  ELSE [got EXCEPT !.ok = FALSE]

Refused == [segment_id |-> 0]

LoadFromFile(f, the_schema) ==
  LET got == FoldLeft(LAMBDA acc, type : LoadColumn(f, NumberAt(f, 3), type, acc),
                      [ok |-> TRUE, pos |-> 4, columns |-> << >>, checksums |-> << >>], the_schema) IN
  IF Has(f, 0, 4) /\ NumberAt(f, 0) = Magic /\ NumberAt(f, 1) = Len(the_schema) /\ got.ok
    THEN [segment_id |-> NumberAt(f, 2), num_rows |-> NumberAt(f, 3),
          columns |-> got.columns, checksums |-> got.checksums]
    ELSE Refused

-----------------------------------------------------------------------------
\* any n rows
RowsOf(the_schema, n) ==
  FoldLeft(LAMBDA some, type : {Append(cols, col) : cols \in some, col \in [1..n -> ColumnValues[type]]},
           {<< >>}, the_schema)

SegmentInit ==
  /\ schema \in Schemas
  /\ rows = << >> /\ file = << >> /\ damage = "none" /\ loaded = Refused /\ phase = "build"

BuildAndSave(the_rows) ==
  /\ phase = "build"
  /\ rows' = the_rows
  /\ file' = SaveToFile(Build(schema, the_rows))
  /\ phase' = "saved"
  /\ UNCHANGED <<schema, damage, loaded>>

\* the cells that neither a checksum nor another check covers: the segment id, the
\* bounds and the sizes of the dictionaries
Unchecked(segment) ==
  LET size(c) == Len(SaveColumn(segment, c))
      start(c) == 4 + MapThenSumSet(size, 1..(c - 1))
      bounds_at(c) == start(c) + 2 + BytesFor(segment.num_rows)
      checksum_at(c) == bounds_at(c) + Len(SaveBounds(segment.columns[c])) IN
  {3} \cup (UNION {(bounds_at(c) + 1)..checksum_at(c) : c \in DOMAIN segment.columns})
      \cup {checksum_at(c) + segment.num_rows + 2
              : c \in {d \in DOMAIN segment.columns : segment.columns[d].type = "kString"}}

\* a crash in the middle of the write
CutFile(n) ==
  /\ phase = "saved" /\ damage = "none"
  /\ file' = SubSeq(file, 1, n)
  /\ damage' = "cut"
  /\ UNCHANGED <<schema, rows, loaded, phase>>

DamageCell(i, n) ==
  /\ phase = "saved" /\ damage = "none" /\ file[i] # Cell(n)
  /\ file' = [file EXCEPT ![i] = Cell(n)]
  /\ damage' = IF i \in Unchecked(Build(schema, rows)) THEN "unchecked" ELSE "checked"
  /\ UNCHANGED <<schema, rows, loaded, phase>>

Load ==
  /\ phase = "saved"
  /\ loaded' = LoadFromFile(file, schema)
  /\ phase' = "loaded"
  /\ UNCHANGED <<schema, rows, file, damage>>

SegmentNext ==
  \/ \E n \in 0..MaxFileRows : \E the_rows \in RowsOf(schema, n) : BuildAndSave(the_rows)
  \/ Load
  \/ \E n \in 0..(Len(file) - 1) : CutFile(n)
  \/ \E i \in DOMAIN file, n \in DamagedTo : DamageCell(i, n)

-----------------------------------------------------------------------------
(* Properties *)

\* A file that was written to its end loads as the segment that was saved, bounds and
\* checksums included, and its columns give back every value of every row.
SegmentRoundTrip ==
  phase = "loaded" /\ damage = "none" =>
    /\ loaded = Build(schema, rows)
    /\ VerifyIntegrity(loaded)
    /\ \A c \in DOMAIN schema : \A r \in DOMAIN rows[c] : ValueAt(loaded.columns[c], r) = rows[c][r]

\* A file that was cut anywhere, or of which a cell was changed, is refused: a changed
\* count or length never makes LoadFromFile take other bytes for the checked ones.  The
\* segment id, the bounds and the sizes of the dictionaries are not covered.
DamageRefused == phase = "loaded" /\ damage \in {"cut", "checked"} => loaded = Refused

\* The bounds that come back from the file prune no segment with a row that
\* EvaluatePredicate accepts, for numbers and for strings, with every operator.
PrunesNoMatch ==
  phase = "loaded" /\ damage = "none" =>
    \A c \in DOMAIN schema : \A op \in PredicateOp, literal \in ColumnValues[schema[c]] \ {NULL} :
      CanSkip(loaded.columns[c], op, literal) =>
        \A r \in DOMAIN rows[c] : ~EvaluatePredicate(schema[c], rows[c][r], op, literal)
=============================================================================
