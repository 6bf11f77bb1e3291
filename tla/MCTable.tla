------------------------------ MODULE MCTable ------------------------------
(***************************************************************************)
(* Instances of the table for TLC.  Three transactions are enough for a    *)
(* writer, a concurrent writer and a reader whose snapshot lies between    *)
(* their commits.  In table_compaction the row is born in the delta, may   *)
(* move to the base and be updated there; five records let two writers     *)
(* claim it in either place, also after an abort; the properties of the    *)
(* transaction manager are checked there too, under the steps the table    *)
(* takes.  table_purge has a row of the base from the start and compacts   *)
(* twice.                                                                  *)
(*                                                                         *)
(* An update of a base row never precedes a compaction in a passing run    *)
(* that scans: table_duplicate shows what scans return then.  Every other  *)
(* pair of operations meets.                                               *)
(***************************************************************************)
EXTENDS TableRefinement
=============================================================================
