---------------------------- MODULE MCQueryExec ----------------------------
(***************************************************************************)
(* Queries over two segments of up to four rows, six in all: a batch of    *)
(* three has a full vector of two lanes and a tail, and a segment has a    *)
(* full batch and a rest.  A double with two bits of mantissa rounds 5 to  *)
(* 4; the validity of four rows takes two bytes of two bits.               *)
(*                                                                         *)
(* No threshold is negative, and no value and lower threshold round to one *)
(* double: beyond that the engines count NULLs and lose matches.           *)
(***************************************************************************)
EXTENDS QueryExec
=============================================================================
