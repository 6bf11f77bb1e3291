----------------------------- MODULE Compactor -----------------------------
(***************************************************************************)
(* compaction::BackgroundCompactor on a table that clients use: a thread   *)
(* that compacts while the delta is at its threshold, and the callers of   *)
(* Stop (one of them may be the destructor) that wait for it to end.       *)
(*                                                                         *)
(* Sleeping is the time that passes before the thread looks at stop_       *)
(* again.  A Compact that would exceed the bound on them is not started.   *)
(***************************************************************************)
EXTENDS Table

CONSTANTS
  DeltaRowThreshold,   \* config_.delta_row_threshold
  Stoppers             \* threads that call Stop

ASSUME CompactorAssumption == DeltaRowThreshold \in Nat /\ Stoppers # {}

VARIABLES
  stop,      \* stop_
  thread,    \* where Run is: check (the loop's condition), poll, compact, done
  stopper    \* by caller: idle, join (in Stop), returned

compactorVars == <<stop, thread, stopper>>

delta_size == Cardinality(DOMAIN delta)

CompactorInit ==
  /\ TableInit
  /\ stop = FALSE /\ thread = "check" /\ stopper = [s \in Stoppers |-> "idle"]

-----------------------------------------------------------------------------
(* Run *)

\* wrong: the loop's condition is not looked at again
CheckIgnoresStop ==
  /\ thread = "check"
  /\ thread' = "poll"
  /\ UNCHANGED <<vars, stop, stopper>>

RunCheck ==
  /\ thread = "check"
  /\ thread' = IF stop THEN "done" ELSE "poll"
  /\ UNCHANGED <<vars, stop, stopper>>

\* wrong: a delta exactly at the threshold is left alone
AboveThreshold == delta_size > DeltaRowThreshold

AtThreshold == delta_size >= DeltaRowThreshold

RunPoll ==
  /\ thread = "poll"
  /\ thread' = IF AtThreshold /\ metrics.runs < MaxCompactions THEN "compact" ELSE "check"
  /\ UNCHANGED <<vars, stop, stopper>>

\* table_.Compact(), on this thread
RunCompact ==
  /\ thread = "compact"
  /\ \/ (CompactBegin \/ CompactRecord) /\ UNCHANGED thread
     \/ CompactEnd /\ thread' = "check"
  /\ UNCHANGED <<stop, stopper>>

Run == RunCheck \/ RunPoll \/ RunCompact

-----------------------------------------------------------------------------
\* wrong: Stop does not wait for the thread
StopOnly(s) ==
  /\ stopper[s] = "idle"
  /\ stop' = TRUE
  /\ stopper' = [stopper EXCEPT ![s] = "returned"]
  /\ UNCHANGED <<vars, thread>>

\* Stop up to the join: only the caller that set stop_ goes on to it
Stop(s) ==
  /\ stopper[s] = "idle"
  /\ stop' = TRUE
  /\ stopper' = [stopper EXCEPT ![s] = IF stop THEN "returned" ELSE "join"]
  /\ UNCHANGED <<vars, thread>>

Join(s) ==
  /\ stopper[s] = "join" /\ thread = "done"
  /\ stopper' = [stopper EXCEPT ![s] = "returned"]
  /\ UNCHANGED <<vars, stop, thread>>

\* what the other threads do to the table
ClientStep ==
  \/ Begin
  \/ \E t \in active_txn_ids : TxnStep(t)
  \/ \E t \in DOMAIN inserting : DeltaInsert(t, next_pos)
  \/ \E t \in DOMAIN scanning : ScanRecord(t) \/ ScanEnd(t)

\* bound: an Update is begun only if the record it ends with has a position left
RoomForUpdates ==
  Cardinality({t \in DOMAIN inserting : inserting[t].locked}) <= MaxPos + 1 - next_pos

Client == ClientStep /\ RoomForUpdates' /\ UNCHANGED compactorVars

CompactorNext == Run \/ Client \/ \E s \in Stoppers : Stop(s) \/ Join(s)

CompactorSafety == CompactorInit /\ [][CompactorNext]_<<vars, compactorVars>>

\* a thread that is between the two halves of an Update, and so holds table_mu_, goes on
FinishUpdate ==
  /\ \E t \in DOMAIN inserting : inserting[t].locked /\ DeltaInsert(t, next_pos)
  /\ UNCHANGED compactorVars

CompactorSpec ==
  /\ CompactorSafety
  /\ WF_<<vars, compactorVars>>(Run)
  /\ WF_<<vars, compactorVars>>(FinishUpdate)
  /\ \A s \in Stoppers : WF_<<vars, compactorVars>>(Join(s))

-----------------------------------------------------------------------------
(* Properties *)

\* Stop comes to an end for every caller, also when the thread is in a Compact, or
\* waits for one with table_mu_ taken by an Update.
StopReturns == \A s \in Stoppers : stopper[s] = "join" ~> stopper[s] = "returned"

\* When every caller of Stop has returned, nothing compacts the table any more, so it
\* may be destroyed.
QuietWhenStopped ==
  (\A s \in Stoppers : stopper[s] = "returned") => thread = "done" /\ ~compacting.running

\* The invariant the proof carries: whoever called Stop has set stop_; while the thread
\* has not ended, the one that set it waits; only the thread compacts.
CompactorInv ==
  /\ thread \in {"check", "poll", "compact", "done"}
  /\ stopper \in [Stoppers -> {"idle", "join", "returned"}]
  /\ \A s \in Stoppers : stopper[s] # "idle" => stop
  /\ stop /\ thread # "done" => \E s \in Stoppers : stopper[s] = "join"
  /\ compacting.running => thread = "compact"

\* no claim of an aborted transaction is left on a version
NoAbortedClaims == \A p \in DOMAIN delta : ~Aborted(delta[p].deleted_txn)

\* Once no transaction is active, and none that aborted has left a claim, the thread
\* brings the delta below its threshold, whatever watermark its last Compact had.
DeltaDrains ==
  (active_txn_ids = {} /\ NoAbortedClaims /\ metrics.runs + 1 < MaxCompactions)
    ~> (delta_size < DeltaRowThreshold \/ active_txn_ids # {} \/ stop)
=============================================================================
