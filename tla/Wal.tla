-------------------------------- MODULE Wal --------------------------------
(***************************************************************************)
(* wal::WalWriter and wal::ReadAll: one append-only file of checksummed    *)
(* records, and what a crash leaves of it.                                 *)
(*                                                                         *)
(* An append writes the record and flushes it to the operating system, and *)
(* forces the file to disk if the durability mode asks for it; mu_ is held *)
(* over both.  A process that dies leaves what was flushed; a power        *)
(* failure also takes any part of the file that was not forced.  Either    *)
(* may leave a piece of a record at the end.  Whatever is appended behind  *)
(* a piece, the reader stops at it: its length runs past the end of the    *)
(* file or its checksum does not match.  Left out are CRC-32C collisions,  *)
(* and a piece that the first bytes of the next frame happen to complete;  *)
(* WalFormat has the latter.                                               *)
(***************************************************************************)
EXTENDS Integers, Sequences, FiniteSetsExt

CONSTANTS
  Durability,   \* config_.durability
  MaxLog        \* bound: entries of the file

ASSUME WalAssumption ==
  /\ Durability \in {"kNoSync", "kSyncEveryCommit", "kSyncEveryRecord"}
  /\ MaxLog \in Nat

VARIABLES
  wal_file,   \* the file, as a sequence of records and torn pieces
  synced,     \* how many of them are on disk for certain
  syncing,    \* the transaction whose append has yet to force the file; 0 for none
  next_lsn    \* next_lsn_

walVars == <<wal_file, synced, syncing, next_lsn>>

DataRecords == {"kInsert", "kUpdate", "kDelete"}

WalRecordType == DataRecords \cup {"kBegin", "kCommit", "kAbort"}

WalRecord(t, type, r, v) == [lsn |-> 0, txn_id |-> t, type |-> type, row_id |-> r, row |-> v]

Torn == WalRecord(0, "torn", 0, 0)

-----------------------------------------------------------------------------
WalInit ==
  /\ wal_file = << >>
  /\ synced = 0
  /\ syncing = 0
  /\ next_lsn = 1

\* wrong: a COMMIT is forced only in the mode that forces every record
SyncsRecordsOnly(rec) == Durability = "kSyncEveryRecord"

ShouldSync(rec) ==
  \/ Durability = "kSyncEveryRecord"
  \/ Durability = "kSyncEveryCommit" /\ rec.type = "kCommit"

\* AppendRecord up to and including the fflush
AppendRecord(rec) ==
  /\ syncing = 0 /\ Len(wal_file) < MaxLog
  /\ wal_file' = Append(wal_file, [rec EXCEPT !.lsn = next_lsn])
  /\ next_lsn' = next_lsn + 1
  /\ syncing' = IF ShouldSync(rec) THEN rec.txn_id ELSE 0
  /\ UNCHANGED synced

\* the fsync that ends it
SyncRecord ==
  /\ syncing # 0
  /\ synced' = Len(wal_file)
  /\ syncing' = 0
  /\ UNCHANGED <<wal_file, next_lsn>>

Flush ==
  /\ syncing = 0
  /\ synced' = Len(wal_file)
  /\ UNCHANGED <<wal_file, syncing, next_lsn>>

last_lsn == next_lsn - 1

\* the constructor: opened for append, behind whatever is there
OpenForAppend(starting_lsn) ==
  /\ next_lsn' = starting_lsn
  /\ UNCHANGED <<wal_file, synced, syncing>>

-----------------------------------------------------------------------------
\* the records ReadAll returns: those in front of the first damaged one
ReadAll(file) ==
  SubSeq(file, 1, Min({i \in 1..Len(file) : file[i] = Torn} \cup {Len(file) + 1}) - 1)

LastValidLsn(records) == IF records = << >> THEN 0 ELSE records[Len(records)].lsn

(* What a crash leaves.  A process that dies in the middle of an append may *)
(* leave a piece of the record; the power failure also cuts the file        *)
(* anywhere behind what was forced.                                         *)
KilledFiles(appending) ==
  {wal_file} \cup (IF appending THEN {Append(wal_file, Torn)} ELSE {})

PowerLossFiles(appending) ==
  KilledFiles(appending) \cup
    UNION {{SubSeq(wal_file, 1, n), Append(SubSeq(wal_file, 1, n), Torn)}
             : n \in synced..(Len(wal_file) - 1)}
=============================================================================
