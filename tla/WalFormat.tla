----------------------------- MODULE WalFormat -----------------------------
(***************************************************************************)
(* The log file cell by cell: EncodeBody and DecodeBody, the frame that    *)
(* AppendRecord puts around a body, and the loop of ReadAll.  Between the  *)
(* appends a crash may leave the first cells of a frame, which the next    *)
(* process appends to, and a cell of the file may change.                  *)
(*                                                                         *)
(* A number or a character is one cell, except for the length in front of  *)
(* a frame: its two digits show a length that is cut, or completed by what *)
(* is appended behind it.  The checksum is one cell.                       *)
(***************************************************************************)
EXTENDS FileBytes, FiniteSetsExt

CONSTANTS
  LengthBase,    \* a length is a digit and a multiple of LengthBase
  Payloads,      \* records without their LSN
  ChangedTo,     \* what a damaged cell is changed to
  MaxFrames,     \* bound: appends
  MaxTears,      \* bound: appends that are cut short
  MaxChanges     \* bound: damaged cells

ASSUME WalFormatAssumption ==
  LengthBase \in Nat \ {0} /\ MaxFrames \in Nat /\ MaxTears \in Nat /\ MaxChanges \in Nat

VARIABLES
  appended,   \* the records that were appended, also the torn ones
  torn,       \* which of them were cut short
  bytes,      \* the file
  changes,    \* cells damaged so far
  reader      \* ReadAll: whether it runs, its position and its result

formatVars == <<appended, torn, bytes, changes, reader>>

-----------------------------------------------------------------------------
(* record.cpp *)

ValueTag == <<"kNull", "kInt32", "kInt64", "kDouble", "kString">>

TagByte(tag) == CHOOSE i \in 0..4 : ValueTag[i + 1] = tag

WalRecordTypes == <<"kBegin", "kInsert", "kUpdate", "kDelete", "kCommit", "kAbort">>

TypeByte(type) == CHOOSE i \in 1..6 : WalRecordTypes[i] = type

\* the value of v is the cells behind its tag, without the length of a string
AppendValue(v) ==
  <<Cell(TagByte(v.tag))>>
    \o CASE v.tag = "kNull" -> << >>
         [] v.tag = "kString" -> WriteString(v.value)
         [] OTHER -> Cells(v.value)

EncodeBody(rec) ==
  <<Cell(rec.lsn), Cell(rec.txn_id), Cell(TypeByte(rec.type))>>
    \o (IF rec.type \in {"kInsert", "kUpdate", "kDelete"} THEN <<Cell(rec.row_id)>> ELSE << >>)
    \o (IF rec.type \in {"kInsert", "kUpdate"}
          THEN <<Cell(Len(rec.row))>> \o FlattenSeq([i \in DOMAIN rec.row |-> AppendValue(rec.row[i])])
          ELSE << >>)

\* ReadValue behind the values got so far
ReadValue(body, got) ==
  LET pos == got.pos
      tag == ValueTag[NumberAt(body, pos) + 1]
      push(value, n) == [got EXCEPT !.row = Append(@, [tag |-> tag, value |-> value]), !.pos = pos + n]
      fail == [got EXCEPT !.ok = FALSE] IN
  IF ~got.ok \/ ~Has(body, pos, 1) \/ NumberAt(body, pos) > 4 THEN fail
  ELSE CASE tag = "kNull" -> push(<< >>, 1)
         [] tag = "kString" ->
              IF HasString(body, pos + 1)
                THEN push(ReadString(body, pos + 1), AfterString(body, pos + 1) - pos) ELSE fail
         [] OTHER -> IF Has(body, pos, 2) THEN push(NumbersAt(body, pos + 1, 1), 2) ELSE fail

ReadRow(body, pos, num_values) ==
  FoldLeft(LAMBDA got, i : ReadValue(body, got), [ok |-> TRUE, pos |-> pos, row |-> << >>],
           Turns(num_values, body))

NotARecord == [lsn |-> 0]

\* wrong: the row is taken as far as it can be read
DecodesPart(body) ==
  LET type == IF NumberAt(body, 2) \in 1..6 THEN WalRecordTypes[NumberAt(body, 2)] ELSE "unknown"
      record(row_id, row) == [lsn |-> NumberAt(body, 0), txn_id |-> NumberAt(body, 1),
                              type |-> type, row_id |-> row_id, row |-> row] IN
  IF ~Has(body, 0, 3) THEN NotARecord
  ELSE CASE type \in {"kInsert", "kUpdate"} ->
              IF Has(body, 3, 2)
                THEN record(NumberAt(body, 3), ReadRow(body, 5, NumberAt(body, 4)).row)
                ELSE NotARecord
         [] type = "kDelete" -> IF Has(body, 3, 1) THEN record(NumberAt(body, 3), << >>) ELSE NotARecord
         [] OTHER -> record(0, << >>)

DecodeBody(body) ==
  LET type == IF NumberAt(body, 2) \in 1..6 THEN WalRecordTypes[NumberAt(body, 2)] ELSE "unknown"
      got == ReadRow(body, 5, NumberAt(body, 4))
      record(row_id, row) == [lsn |-> NumberAt(body, 0), txn_id |-> NumberAt(body, 1),
                              type |-> type, row_id |-> row_id, row |-> row] IN
  IF ~Has(body, 0, 3) THEN NotARecord
  ELSE CASE type \in {"kInsert", "kUpdate"} ->
              IF Has(body, 3, 2) /\ got.ok THEN record(NumberAt(body, 3), got.row) ELSE NotARecord
         [] type = "kDelete" -> IF Has(body, 3, 1) THEN record(NumberAt(body, 3), << >>) ELSE NotARecord
         [] OTHER -> record(0, << >>)

-----------------------------------------------------------------------------
(* AppendRecord *)

Frame(rec) ==
  LET body == EncodeBody(rec)
      total_len == 1 + Len(body) IN
  <<Cell(total_len % LengthBase), Cell(total_len \div LengthBase), Crc32c(body)>> \o body

WalFormatInit ==
  /\ appended = << >> /\ torn = {} /\ bytes = << >> /\ changes = 0
  /\ reader = [state |-> "idle", pos |-> 0, records |-> << >>, truncated_tail |-> FALSE,
               corrupt_record |-> FALSE, bytes_read |-> 0, last_valid_lsn |-> 0]

NextRecord(p) ==
  [lsn |-> Len(appended) + 1, txn_id |-> p.txn_id, type |-> p.type, row_id |-> p.row_id, row |-> p.row]

AppendFrame(p) ==
  /\ reader.state = "idle" /\ Len(appended) < MaxFrames
  /\ appended' = Append(appended, NextRecord(p))
  /\ bytes' = bytes \o Frame(NextRecord(p))
  /\ UNCHANGED <<torn, changes, reader>>

\* a crash leaves the first n cells; the next process opens the file for append
Tear(p, n) ==
  /\ reader.state = "idle" /\ Len(appended) < MaxFrames /\ Cardinality(torn) < MaxTears
  /\ appended' = Append(appended, NextRecord(p))
  /\ torn' = torn \cup {Len(appended) + 1}
  /\ bytes' = bytes \o SubSeq(Frame(NextRecord(p)), 1, n)
  /\ UNCHANGED <<changes, reader>>

ChangeCell(i, n) ==
  /\ reader.state = "idle" /\ changes < MaxChanges /\ bytes[i] # Cell(n)
  /\ bytes' = [bytes EXCEPT ![i] = Cell(n)]
  /\ changes' = changes + 1
  /\ UNCHANGED <<appended, torn, reader>>

-----------------------------------------------------------------------------
(* ReadAll: one turn of its loop *)

TotalLen == NumberAt(bytes, reader.pos) + LengthBase * NumberAt(bytes, reader.pos + 1)

Body == SubSeq(bytes, reader.pos + 4, reader.pos + 2 + TotalLen)

Truncated == Has(bytes, reader.pos, 2) => ~Has(bytes, reader.pos + 2, TotalLen)

\* wrong: the checksum is not compared
Parses == TotalLen >= 1 /\ DecodeBody(Body) # NotARecord

WellFormed ==
  TotalLen >= 1 /\ bytes[reader.pos + 3] = Crc32c(Body) /\ DecodeBody(Body) # NotARecord

ReadBegin ==
  /\ reader.state = "idle"
  /\ reader' = [reader EXCEPT !.state = "loop"]
  /\ UNCHANGED <<appended, torn, bytes, changes>>

\* wrong: a piece of a header counts as the end of the file
EndsInHeader ==
  /\ reader.state = "loop" /\ ~Has(bytes, reader.pos, 2)
  /\ reader' = [reader EXCEPT !.state = "done"]
  /\ UNCHANGED <<appended, torn, bytes, changes>>

\* the end of the file, exactly behind a record
ReadEnd ==
  /\ reader.state = "loop" /\ reader.pos = Len(bytes)
  /\ reader' = [reader EXCEPT !.state = "done"]
  /\ UNCHANGED <<appended, torn, bytes, changes>>

ReadTruncated ==
  /\ reader.state = "loop" /\ reader.pos < Len(bytes) /\ Truncated
  /\ reader' = [reader EXCEPT !.state = "done", !.truncated_tail = TRUE]
  /\ UNCHANGED <<appended, torn, bytes, changes>>

ReadCorrupt ==
  /\ reader.state = "loop" /\ reader.pos < Len(bytes) /\ ~Truncated /\ ~WellFormed
  /\ reader' = [reader EXCEPT !.state = "done", !.corrupt_record = TRUE]
  /\ UNCHANGED <<appended, torn, bytes, changes>>

ReadRecord ==
  /\ reader.state = "loop" /\ reader.pos < Len(bytes) /\ ~Truncated /\ WellFormed
  /\ LET rec == DecodeBody(Body) IN
     reader' = [reader EXCEPT !.pos = @ + 2 + TotalLen, !.records = Append(@, rec),
                              !.bytes_read = @ + 2 + TotalLen, !.last_valid_lsn = rec.lsn]
  /\ UNCHANGED <<appended, torn, bytes, changes>>

WalFormatNext ==
  \/ \E p \in Payloads : AppendFrame(p) \/ \E n \in 1..(Len(Frame(NextRecord(p))) - 1) : Tear(p, n)
  \/ \E i \in DOMAIN bytes, n \in ChangedTo : ChangeCell(i, n)
  \/ ReadBegin \/ ReadEnd \/ ReadTruncated \/ ReadCorrupt \/ ReadRecord

-----------------------------------------------------------------------------
(* Properties *)

\* the file of the first n records, had nothing happened to it
Written(n) == FlattenSeq([i \in 1..n |-> Frame(appended[i])])

\* how many of the appended records the file still begins with
IntactRecords == Max({n \in 0..Len(appended) : IsPrefix(Written(n), bytes)})

\* ReadAll returns exactly the records that were appended before the first one that is
\* damaged: none of a torn or changed record, and none that lies behind it.
ReaderReturnsIntact ==
  reader.state = "done" =>
    /\ reader.records = SubSeq(appended, 1, IntactRecords)
    /\ reader.bytes_read = Len(Written(IntactRecords))
    /\ reader.last_valid_lsn = IntactRecords

\* ReadAll ends without a flag exactly if it has read the whole file, and it never sets
\* both.
ReaderReportsDamage ==
  reader.state = "done" =>
    /\ (~reader.truncated_tail /\ ~reader.corrupt_record) <=> bytes = Written(IntactRecords)
    /\ ~(reader.truncated_tail /\ reader.corrupt_record)

\* A crash in the middle of the last append reads as a truncated tail, never as
\* corruption, wherever it cut the frame.
TornTailIsTruncated ==
  reader.state = "done" /\ changes = 0 /\ torn = {Len(appended)} => reader.truncated_tail

\* No part of a body decodes to a record: each field is checked against the end.
BodyPartRefused ==
  appended # << >> =>
    LET body == EncodeBody(Last(appended)) IN
    \A n \in 0..(Len(body) - 1) : DecodeBody(SubSeq(body, 1, n)) = NotARecord
=============================================================================
