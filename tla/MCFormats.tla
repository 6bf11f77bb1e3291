----------------------------- MODULE MCFormats -----------------------------
(***************************************************************************)
(* The two file formats for TLC; a behaviour is about one of them.         *)
(*                                                                         *)
(* The log has up to three records: a record without a row, a delete, and  *)
(* rows with a NULL, a number and a string.  One append is cut at any of   *)
(* its cells and one cell changes, in either order.  The last character of *)
(* the string is the first digit of the length of a delete, so a torn      *)
(* record can be completed by the frame behind it.                         *)
(*                                                                         *)
(* A segment has up to three rows, which need two bytes of two bits for    *)
(* their validity and leave a trailing bit, of a number and a string       *)
(* column.  The file is cut anywhere or any of its cells changes.          *)
(***************************************************************************)
EXTENDS WalFormat, SegmentFormat

VARIABLE format   \* the file the behaviour is about

Payload(type, row_id, row) == [txn_id |-> 1, type |-> type, row_id |-> row_id, row |-> row]

SomePayloads ==
  {Payload("kBegin", 0, << >>), Payload("kDelete", 2, << >>),
   Payload("kInsert", 2, <<[tag |-> "kNull", value |-> << >>], [tag |-> "kInt64", value |-> <<2>>]>>),
   Payload("kUpdate", 2, <<[tag |-> "kString", value |-> <<1, 5>>]>>)}

SomeValues == [type \in ColumnType |-> IF type = "kString" THEN {NULL, << >>, <<1, 2>>} ELSE {NULL, 1}]

SomeSchemas == {<<"kInt64", "kString">>}

FormatsInit == format \in {"wal", "segment"} /\ WalFormatInit /\ SegmentInit

FormatsNext ==
  \/ format = "wal" /\ WalFormatNext /\ UNCHANGED <<segmentVars, format>>
  \/ format = "segment" /\ SegmentNext /\ UNCHANGED <<formatVars, format>>

FormatsSpec == FormatsInit /\ [][FormatsNext]_<<formatVars, segmentVars, format>>
=============================================================================
