---------------------------- MODULE MCDatabase ----------------------------
(***************************************************************************)
(* Instances of the database for TLC.  Two client transactions with up to  *)
(* four versions of two rows interleave their records in the log; a second *)
(* crash can hit the recovery from the first.  database_crash recovers     *)
(* with two workers, the others with one, as Database does.                *)
(*                                                                         *)
(* A violation run shows one way in which the code departs from what its   *)
(* documentation says; the passing runs leave out what it takes:           *)
(*   database_aborted_claim   an abort and then a checkpoint:              *)
(*                            database_crash has the one,                  *)
(*                            database_checkpoint the other                *)
(*   database_reused_id,      clients after a restart and then another     *)
(*   database_torn_tail       restart: database_checkpoint stops before    *)
(*                            the second, database_power has both and asks *)
(*                            only that recovery ends                      *)
(* A second checkpoint, over the files of the first, is left out of all.   *)
(*                                                                         *)
(* CHECK_DEADLOCK is off: when the bounds are used up, the process idles.  *)
(***************************************************************************)
EXTENDS Database
=============================================================================
