---------------------------- MODULE MCCompactor ----------------------------
(***************************************************************************)
(* The compactor for TLC: a row of the base and one that is new, two       *)
(* transactions that write them, and a delta that reaches its threshold    *)
(* with the second record.  Three compactions are one for a watermark that *)
(* is too low, one that drains the delta, and one to spare.  Two threads   *)
(* call Stop, at any time.                                                 *)
(*                                                                         *)
(* CHECK_DEADLOCK is off: a stopped compactor and clients that have used   *)
(* up their bounds idle.                                                   *)
(***************************************************************************)
EXTENDS Compactor
=============================================================================
