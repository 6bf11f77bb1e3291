----------------------------- MODULE QueryExec -----------------------------
(***************************************************************************)
(* exec: SUM(aggregate_column) WHERE predicate_column > threshold over the *)
(* base segments, by the Volcano iterators, by vectorized batches through  *)
(* a SIMD kernel, and by the compiled loop.                                *)
(*                                                                         *)
(* The engines read the raw int64 arrays.  Sums stay far from 2^63, where  *)
(* the scalar loops would be undefined and the SIMD ones wrap.  The        *)
(* aggregate of the r-th row of the query is 2^(r-1), so a sum names the   *)
(* rows it was taken over.                                                 *)
(***************************************************************************)
EXTENDS Segment

CONSTANTS
  Values,        \* values of the predicate column
  Thresholds,    \* query.threshold
  MaxSegments,   \* bound: segments of the query
  MaxRows,       \* bound: rows of a segment
  MaxQueryRows,  \* bound: rows of all of them
  Lanes,         \* int64 lanes of the kernel tier: 1 scalar, 2 NEON, 4 AVX2, 8 AVX-512
  BatchSize      \* batch_size of RunVectorized

ASSUME QueryAssumption ==
  /\ MaxSegments \in Nat /\ MaxRows \in Nat /\ MaxQueryRows \in Nat
  /\ Lanes \in Nat \ {0} /\ BatchSize \in Nat \ {0}

VARIABLES
  engine,      \* which of RunVolcano, RunVectorized, RunJit
  segments,    \* the column pairs
  threshold,
  seg_idx,     \* segments taken up so far
  current,     \* the one being read; 0 for none
  row,         \* rows of it done (row_, offset)
  result,      \* AggregateResult
  done

queryVars == <<engine, segments, threshold, seg_idx, current, row, result, done>>

\* rows in front of segment s
RowsBefore(preds, s) == MapThenSumSet(LAMBDA i : Len(preds[i]), 1..(s - 1))

BuildSegments(preds) ==
  [s \in DOMAIN preds |->
     [pred |-> BuildColumn("kInt64", preds[s]),
      agg |-> [r \in DOMAIN preds[s] |-> 2 ^ (RowsBefore(preds, s) + r - 1)],
      num_rows |-> Len(preds[s])]]

QueryInit ==
  /\ engine \in {"volcano", "vectorized", "jit"}
  /\ \E n \in 0..MaxSegments :
       \E preds \in [1..n -> UNION {[1..k -> Values] : k \in 0..MaxRows}] :
         /\ RowsBefore(preds, n + 1) <= MaxQueryRows
         /\ segments = BuildSegments(preds)
  /\ threshold \in Thresholds
  /\ seg_idx = 0 /\ current = 0 /\ row = 0 /\ done = FALSE
  /\ result = [matched_count |-> 0, sum |-> 0]

-----------------------------------------------------------------------------
Plus(a, b) == [matched_count |-> a.matched_count + b.matched_count, sum |-> a.sum + b.sum]

Pred(r) == segments[current].pred.data[r]
Agg(r) == segments[current].agg[r]

\* the masked sum over a set of rows of the current segment
FilterSum(rows) ==
  LET matched == {r \in rows : Pred(r) > threshold} IN
  [matched_count |-> Cardinality(matched), sum |-> MapThenSumSet(Agg, matched)]

\* wrong: the kernel stops with its last full vector
FilterGtSumNoTail(offset, n) == FilterSum((offset + 1)..(offset + (n \div Lanes) * Lanes))

\* FilterGtSum on n rows behind offset: an accumulator per lane, then the tail
FilterGtSum(offset, n) ==
  LET full == (n \div Lanes) * Lanes
      lane(l) == FilterSum({offset + i : i \in {k \in 1..full : k % Lanes = l}})
      tail == FilterSum((offset + full + 1)..(offset + n)) IN
  [matched_count |-> MapThenSumSet(LAMBDA l : lane(l).matched_count, 0..(Lanes - 1))
                       + tail.matched_count,
   sum |-> MapThenSumSet(LAMBDA l : lane(l).sum, 0..(Lanes - 1)) + tail.sum]

-----------------------------------------------------------------------------
\* AdvanceSegment, and the head of the other engines' loops over the segments
AdvanceSegment ==
  /\ current = 0 /\ seg_idx < Len(segments)
  /\ seg_idx' = seg_idx + 1
  /\ row' = 0
  /\ current' = IF CanSkip(segments[seg_idx + 1].pred, "kGt", threshold) THEN 0 ELSE seg_idx + 1
  /\ UNCHANGED <<engine, segments, threshold, result, done>>

Read(n, part) ==
  /\ row' = row + n
  /\ result' = Plus(result, part)
  /\ UNCHANGED <<engine, segments, threshold, seg_idx, current, done>>

RowsLeft == current # 0 /\ row < segments[current].num_rows

\* FilterOp::Next on top of SegmentScanOp::Next, one row of the child
VolcanoNext == engine = "volcano" /\ RowsLeft /\ Read(1, FilterSum({row + 1}))

\* wrong: the offset moves by the full vectors of the batch
VectorBatchVectors ==
  /\ engine = "vectorized" /\ RowsLeft
  /\ LET count == Min({BatchSize, segments[current].num_rows - row}) IN
     Read((count \div Lanes) * Lanes, FilterSum({}))

\* one batch of RunVectorized
VectorBatch ==
  /\ engine = "vectorized" /\ RowsLeft
  /\ LET count == Min({BatchSize, segments[current].num_rows - row}) IN
     Read(count, FilterGtSum(row, count))

\* one turn of the compiled loop
JitLoop == engine = "jit" /\ RowsLeft /\ Read(1, FilterSum({row + 1}))

SegmentDone ==
  /\ current # 0 /\ ~RowsLeft
  /\ current' = 0
  /\ UNCHANGED <<engine, segments, threshold, seg_idx, row, result, done>>

Return ==
  /\ current = 0 /\ seg_idx = Len(segments) /\ ~done
  /\ done' = TRUE
  /\ UNCHANGED <<engine, segments, threshold, seg_idx, current, row, result>>

QueryNext == AdvanceSegment \/ VolcanoNext \/ VectorBatch \/ JitLoop \/ SegmentDone \/ Return

QuerySpec == QueryInit /\ [][QueryNext]_queryVars /\ WF_queryVars(QueryNext)

-----------------------------------------------------------------------------
(* Properties *)

\* the rows of segment s the query asks for, NULL matching nothing
Matches(s) ==
  {r \in 1..segments[s].num_rows :
     LET v == ValueAt(segments[s].pred, r) IN v # NULL /\ (v # NULL => v > threshold)}

MatchCount == MapThenSumSet(LAMBDA s : Cardinality(Matches(s)), DOMAIN segments)

MatchSum(s) == MapThenSumSet(LAMBDA r : segments[s].agg[r], Matches(s))

\* Whatever segments it prunes and however it cuts the rest into batches, lanes and
\* tails, every engine returns the sum and the count the query asks for; so the three
\* agree.
EngineIsExact ==
  done => result = [matched_count |-> MatchCount, sum |-> MapThenSumSet(MatchSum, DOMAIN segments)]

\* Pruning drops no segment with a row that EvaluatePredicate accepts, for any
\* operator, with NULLs, and beyond the integers a double can tell apart.
PruningMatchesEvaluate ==
  \A s \in DOMAIN segments : \A op \in PredicateOp :
    CanSkip(segments[s].pred, op, threshold) =>
      \A r \in 1..segments[s].num_rows :
        ~EvaluatePredicate("kInt64", ValueAt(segments[s].pred, r), op, threshold)

\* Every query returns.
QueryReturns == <>done
=============================================================================
