----------------------------- MODULE ChunkReads -----------------------------
(***************************************************************************)
(* How rows are found: the binary searches over the manifest and inside a  *)
(* chunk file, the sparse index, and the range, point and tail readers of  *)
(* kline, scalar and fixed-record chunks.                                  *)
(*                                                                         *)
(* A chunk is a record with its rows (each with a timestamp and a value),  *)
(* `every`, the sampling step of its sparse index (0: a version 1 file     *)
(* without one), `frame`, the time frame of its header (0: irregular), its *)
(* `state` and the kinds of its sidecars.  Rows are numbered from 0, as in *)
(* the code, and a span of rows is <<first, end>> with end excluded.       *)
(***************************************************************************)
EXTENDS Integers, Sequences, FiniteSets, SequencesExt

CONSTANT ShortRangeMax  \* SHORT_RANGE_MAX_RECORDS

ASSUME ShortRangeAssumption == ShortRangeMax \in Nat

Count(rows)     == Len(rows)
TsAt(rows, i)   == rows[i + 1].ts
StartTs(chunk)  == TsAt(chunk.rows, 0)
EndTs(chunk)    == TsAt(chunk.rows, Count(chunk.rows) - 1)
Indices(s)      == 0..(Len(s) - 1)
Span(rows, first, end) == SubSeq(rows, first + 1, end)

(* The loop every search of the code uses: the first index of 0..n - 1 that*)
(* is not in `before`, if `before` is a prefix of them.                    *)
PartitionPoint(n, before) ==
  LET search[left \in 0..n, right \in 0..n] ==
        IF left >= right THEN left
        ELSE LET mid == left + (right - left) \div 2
             IN  IF mid \in before THEN search[mid + 1, right]
                                ELSE search[left, mid]
  IN  search[0, n]

LowerBound(rows, ts) ==
  PartitionPoint(Count(rows), {i \in Indices(rows) : TsAt(rows, i) < ts})
UpperBound(rows, ts) ==
  PartitionPoint(Count(rows), {i \in Indices(rows) : TsAt(rows, i) <= ts})

-----------------------------------------------------------------------------
(* The manifest: chunks are sorted and do not overlap.                     *)

(* The chunk that may hold ts, as a sequence of at most one.               *)
FindChunkForTs(chunks, ts) ==
  LET left == PartitionPoint(Len(chunks),
                {i \in Indices(chunks) : StartTs(chunks[i + 1]) <= ts})
  IN  IF left # 0 /\ EndTs(chunks[left]) >= ts THEN <<chunks[left]>> ELSE <<>>

FirstChunkWithEndGe(chunks, ts) ==
  PartitionPoint(Len(chunks), {i \in Indices(chunks) : EndTs(chunks[i + 1]) < ts})

FirstChunkWithStartGt(chunks, ts) ==
  PartitionPoint(Len(chunks), {i \in Indices(chunks) : StartTs(chunks[i + 1]) <= ts})

FindChunksForRange(chunks, lo, hi) ==
  IF lo > hi THEN <<>>
  ELSE SubSeq(chunks, FirstChunkWithEndGe(chunks, lo) + 1,
                      FirstChunkWithStartGt(chunks, hi))

-----------------------------------------------------------------------------
(* The sparse index: the row numbers it samples.                           *)

Sample(chunk) ==
  IF chunk.every = 0 THEN <<>>
  ELSE [k \in 1..((Count(chunk.rows) + chunk.every - 1) \div chunk.every) |->
          (k - 1) * chunk.every]

(* Mutant: a timestamp equal to a sample is looked up one block too early. *)
LookupWindowStrict(chunk, ts) ==
  LET entries == Sample(chunk)
      point   == PartitionPoint(Len(entries),
                   {i \in Indices(entries) : TsAt(chunk.rows, entries[i + 1]) < ts})
      index   == IF point = 0 THEN 1 ELSE point
  IN  IF entries = <<>> THEN <<0, Count(chunk.rows)>>
      ELSE <<entries[index], IF index = Len(entries) THEN Count(chunk.rows)
                                                     ELSE entries[index + 1]>>

LookupWindow(chunk, ts) ==
  LET entries == Sample(chunk)
      point   == PartitionPoint(Len(entries),
                   {i \in Indices(entries) : TsAt(chunk.rows, entries[i + 1]) <= ts})
      index   == IF point = 0 THEN 1 ELSE point
  IN  IF entries = <<>> THEN <<0, Count(chunk.rows)>>
      ELSE <<entries[index], IF index = Len(entries) THEN Count(chunk.rows)
                                                     ELSE entries[index + 1]>>

LowerBoundViaSparse(chunk, ts) ==
  LET window == LookupWindow(chunk, ts)
  IN  window[1] + LowerBound(Span(chunk.rows, window[1], window[2]), ts)

UpperBoundViaSparse(chunk, ts) ==
  LET window == LookupWindow(chunk, ts)
  IN  window[1] + UpperBound(Span(chunk.rows, window[1], window[2]), ts)

-----------------------------------------------------------------------------
(* Readers of one chunk                                                    *)

(* The rows of a block that lie in the time window.                        *)
Trim(rows, lo, hi) == Span(rows, LowerBound(rows, lo), UpperBound(rows, hi))

FindByTs(chunk, ts) ==
  LET window == LookupWindow(chunk, ts)
      block  == Span(chunk.rows, window[1], window[2])
      local  == LowerBound(block, ts)
  IN  IF StartTs(chunk) <= ts /\ ts <= EndTs(chunk) /\ local < Count(block)
         /\ TsAt(block, local) = ts
      THEN <<block[local + 1]>> ELSE <<>>

IsShortRange(chunk, lo, hi) ==
  chunk.frame > 0 /\ (hi - lo) \div chunk.frame + 1 <= ShortRangeMax

Misses(chunk, lo, hi) == lo > hi \/ hi < StartTs(chunk) \/ lo > EndTs(chunk)
Covers(chunk, lo, hi) == lo <= StartTs(chunk) /\ hi >= EndTs(chunk)

ViaSparse(chunk, lo, hi) ==
  Span(chunk.rows, LowerBoundViaSparse(chunk, lo), UpperBoundViaSparse(chunk, hi))

(* append_range_in_file of scalar_reader.rs: a short range inside one block*)
(* of the sparse index is cut out of that block.                           *)
ScalarRange(chunk, lo, hi) ==
  LET window == LookupWindow(chunk, lo)
  IN  CASE Misses(chunk, lo, hi) -> <<>>
        [] Covers(chunk, lo, hi) -> chunk.rows
        [] IsShortRange(chunk, lo, hi) /\ chunk.every # 0
             /\ window = LookupWindow(chunk, hi) ->
             Trim(Span(chunk.rows, window[1], window[2]), lo, hi)
        [] IsShortRange(chunk, lo, hi) -> ViaSparse(chunk, lo, hi)
        [] OTHER -> Trim(chunk.rows, lo, hi)

(* append_range_in_file of kline_reader.rs: the same over two neighbouring *)
(* blocks.                                                                 *)
KlineRange(chunk, lo, hi) ==
  LET first == LookupWindow(chunk, lo)
      last  == LookupWindow(chunk, hi)
  IN  CASE Misses(chunk, lo, hi) -> <<>>
        [] Covers(chunk, lo, hi) -> chunk.rows
        [] IsShortRange(chunk, lo, hi) /\ chunk.every # 0
             /\ last[1] <= first[2] ->
             Trim(Span(chunk.rows, first[1], last[2]), lo, hi)
        [] IsShortRange(chunk, lo, hi) -> ViaSparse(chunk, lo, hi)
        [] OTHER -> Trim(chunk.rows, lo, hi)

FixedRange(chunk, lo, hi) ==
  IF Misses(chunk, lo, hi) THEN <<>> ELSE ViaSparse(chunk, lo, hi)

ReadRange(kind, chunk, lo, hi) ==
  CASE kind = "kline"  -> KlineRange(chunk, lo, hi)
    [] kind = "scalar" -> ScalarRange(chunk, lo, hi)
    [] kind = "fixed"  -> FixedRange(chunk, lo, hi)

(* The span of a planned read, before any row is read.                     *)
PlanRange(chunk, lo, hi) ==
  LET first == IF lo <= StartTs(chunk) THEN 0 ELSE LowerBoundViaSparse(chunk, lo)
      last  == IF hi >= EndTs(chunk) THEN Count(chunk.rows)
                                     ELSE UpperBoundViaSparse(chunk, hi)
  IN  [chunk |-> chunk, first |-> first,
       rows |-> IF last < first THEN 0 ELSE last - first]

PlanTail(chunk, take) ==
  LET rows == IF take < Count(chunk.rows) THEN take ELSE Count(chunk.rows)
  IN  [chunk |-> chunk, first |-> Count(chunk.rows) - rows, rows |-> rows]

(* The tails that make up the last n rows of a series, oldest chunk first. *)
TailSpans(chunks, n) ==
  LET later(i) == FoldLeft(LAMBDA sum, c : sum + Count(c.rows), 0,
                           SubSeq(chunks, i + 1, Len(chunks)))
      all == [i \in 1..Len(chunks) |->
                [chunk |-> chunks[i], take |-> n - later(i)]]
      met == SelectSeq(all, LAMBDA e : e.take > 0)
  IN  [i \in 1..Len(met) |-> PlanTail(met[i].chunk, met[i].take)]

SpanRows(span) == Span(span.chunk.rows, span.first, span.first + span.rows)
=============================================================================
