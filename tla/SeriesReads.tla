---------------------------- MODULE SeriesReads ----------------------------
(***************************************************************************)
(* The read operations of a store handle over one series, with the manifest*)
(* fixed: point and range reads, the last n rows, planned reads that worker*)
(* threads fill in parallel, predicate queries over the sidecar indexes,   *)
(* scans of sequence numbers, and the replay cursor.                       *)
(*                                                                         *)
(* Reads of one chunk after the other are one step: nothing else runs on   *)
(* their data.  A planned read is one step per task, in any order between  *)
(* the groups of tasks, and any of them may fail.  A replay batch is one   *)
(* step per chunk that it reads, and may fail at each.                     *)
(***************************************************************************)
EXTENDS ScalarIndex, SequenceScan

CONSTANTS Stores,        \* the series to read: [kind, chunks]
          Times,         \* timestamps that are asked for
          Windows,       \* windows of predicate queries
          Predicates,    \* predicates that are asked for
          ReadThreads,   \* values of set_read_threads
          PlanMinRows,   \* PARALLEL_MIN_BYTES, in rows
          WorkerRows,    \* MIN_WORKER_BYTES, in rows
          TaskRows,      \* TASK_BYTES, in rows
          ReplayKinds,   \* bound: the kinds of series that are replayed
          BatchSizes,    \* batch sizes asked of a replay cursor
          MaxFailures    \* bound: replay reads that fail

ASSUME ReadsAssumption ==
  /\ \A n \in ReadThreads \cup BatchSizes : n \in Nat \ {0}
  /\ {PlanMinRows, WorkerRows, TaskRows} \subseteq Nat \ {0}
  /\ MaxFailures \in Nat

VARIABLES
  series,    \* the series, as its manifest lists it
  step,      \* "idle", "filling", "replay", "batch" or "done"
  asked,     \* the operation and its arguments
  answer,    \* the rows it returned, or the report of a sequence scan
  stats,     \* the counters of a predicate query
  groups,    \* the tasks left to each worker of a planned read
  failed,    \* a task or a batch failed
  slots,     \* the output of a planned read: each slot empty or a row
  cursor,    \* the replay cursor: chunks, chunk index, row, exhausted
  batch,     \* the rows of the batch in progress and its size
  failures   \* replay reads that failed

vars == <<series, step, asked, answer, stats, groups, failed, slots, cursor,
          batch, failures>>

NoAsk    == [op |-> "none"]
NoCursor == [chunks |-> <<>>, chunk |-> 1, row |-> 0, exhausted |-> TRUE]
NoBatch  == [rows |-> <<>>, size |-> 0]
NoStats  == [chunksConsidered |-> 0, chunksScanned |-> 0, chunksPruned |-> 0,
             blocksConsidered |-> 0, blocksScanned |-> 0, blocksPruned |-> 0,
             rowsChecked |-> 0, rowsMatched |-> 0, indexUsed |-> "none",
             fallbackScan |-> FALSE]

Init ==
  /\ series \in Stores
  /\ step = "idle" /\ asked = NoAsk /\ answer = <<>> /\ stats = NoStats
  /\ groups = <<>> /\ failed = FALSE /\ slots = <<>>
  /\ cursor = NoCursor /\ batch = NoBatch /\ failures = 0

Concat(seqs) == FoldLeft(LAMBDA out, s : out \o s, <<>>, seqs)

(* An operation that ends in the step it starts.                           *)
Return(what, rows) ==
  /\ asked' = what /\ answer' = rows /\ step' = "done"
  /\ UNCHANGED <<series, groups, failed, slots, cursor, batch, failures>>

-----------------------------------------------------------------------------
(* get_*_at and get_*_range                                                *)

PointRead(ts) ==
  /\ step = "idle" /\ series.kind # "fixed"
  /\ LET found == FindChunkForTs(series.chunks, ts)
     IN  Return([op |-> "range", lo |-> ts, hi |-> ts],
                IF found = <<>> THEN <<>> ELSE FindByTs(found[1], ts))
  /\ UNCHANGED stats

(* should_plan_read: is the estimated result worth planning?               *)
ShouldPlanRead(chunks, lo, hi) ==
  LET rows     == FoldLeft(LAMBDA sum, c : sum + Count(c.rows), 0, chunks)
      byTime   == (hi - lo) \div series.frame + 1
      estimate == IF series.frame > 0 /\ byTime < rows THEN byTime ELSE rows
  IN  estimate >= PlanMinRows

Planned(chunks, lo, hi) == series.kind # "fixed" /\ ShouldPlanRead(chunks, lo, hi)

RangeRead(lo, hi) ==
  LET chunks == FindChunksForRange(series.chunks, lo, hi)
  IN  /\ step = "idle" /\ ~Planned(chunks, lo, hi)
      /\ Return([op |-> "range", lo |-> lo, hi |-> hi],
                Concat([i \in 1..Len(chunks) |->
                          ReadRange(series.kind, chunks[i], lo, hi)]))
      /\ UNCHANGED stats

(* get_fixed_latest_n reads its tails one after the other.                 *)
FixedLatest(n) ==
  /\ step = "idle" /\ series.kind = "fixed"
  /\ LET spans == TailSpans(series.chunks, n)
     IN  Return([op |-> "latest", n |-> n],
                Concat([i \in 1..Len(spans) |-> SpanRows(spans[i])]))
  /\ UNCHANGED stats

-----------------------------------------------------------------------------
(* read_spans: a planned read                                              *)

Ceil(a, b) == (a + b - 1) \div b

(* The rows in front of span i in the output.                              *)
Offset(spans, i) == FoldLeft(LAMBDA sum, s : sum + s.rows, 0, SubSeq(spans, 1, i - 1))

(* Mutant: the last, shorter task of a span is forgotten.                  *)
SplitWholeTasks(spans) ==
  Concat([i \in 1..Len(spans) |->
    [k \in 1..(spans[i].rows \div TaskRows) |->
       [chunk |-> spans[i].chunk, first |-> spans[i].first + (k - 1) * TaskRows,
        rows  |-> TaskRows, to |-> Offset(spans, i) + (k - 1) * TaskRows]]])

(* A span is cut into tasks of at most TaskRows rows; `to` is the first    *)
(* output slot of a task.                                                  *)
SplitTasks(spans) ==
  Concat([i \in 1..Len(spans) |->
    [k \in 1..Ceil(spans[i].rows, TaskRows) |->
       LET start == (k - 1) * TaskRows
           left  == spans[i].rows - start
       IN  [chunk |-> spans[i].chunk, first |-> spans[i].first + start,
            rows  |-> IF left < TaskRows THEN left ELSE TaskRows,
            to    |-> Offset(spans, i) + start]]])

WholeSpans(spans) ==
  [i \in 1..Len(spans) |->
     [chunk |-> spans[i].chunk, first |-> spans[i].first, rows |-> spans[i].rows,
      to |-> Offset(spans, i)]]

Workers(rows, threads) ==
  LET useful == IF rows < WorkerRows THEN 1 ELSE rows \div WorkerRows
  IN  IF threads = 1 \/ rows < PlanMinRows THEN 1
      ELSE IF useful < threads THEN useful ELSE threads

(* One worker takes the spans in order; several share the tasks in groups. *)
Groups(spans, rows, threads) ==
  LET workers == Workers(rows, threads)
      tasks   == IF workers = 1 THEN WholeSpans(spans) ELSE SplitTasks(spans)
      size    == Ceil(Len(tasks), workers)
  IN  IF workers = 1 \/ Len(tasks) <= 1 THEN <<tasks>>
      ELSE [g \in 1..Ceil(Len(tasks), size) |->
              SubSeq(tasks, (g - 1) * size + 1,
                     IF g * size < Len(tasks) THEN g * size ELSE Len(tasks))]

BeginFill(what, spans, threads) ==
  LET rows == Offset(spans, Len(spans) + 1)
  IN  /\ asked' = what /\ step' = "filling"
      /\ groups' = Groups(spans, rows, threads)
      /\ slots' = [i \in 1..rows |-> <<>>]
      /\ UNCHANGED <<series, answer, stats, failed, cursor, batch, failures>>

PlanRead(lo, hi, threads) ==
  LET chunks == FindChunksForRange(series.chunks, lo, hi)
  IN  /\ step = "idle" /\ Planned(chunks, lo, hi) /\ chunks # <<>>
      /\ BeginFill([op |-> "range", lo |-> lo, hi |-> hi],
                   [i \in 1..Len(chunks) |-> PlanRange(chunks[i], lo, hi)],
                   threads)

KlineLatest(n, threads) ==
  /\ step = "idle" /\ series.kind = "kline"
  /\ BeginFill([op |-> "latest", n |-> n], TailSpans(series.chunks, n), threads)

(* A worker fills the destination of its next task.                        *)
Fill(g) ==
  /\ step = "filling" /\ groups[g] # <<>>
  /\ LET task == Head(groups[g])
     IN  slots' = [i \in 1..Len(slots) |->
                     IF task.to < i /\ i <= task.to + task.rows
                     THEN <<task.chunk.rows[task.first + i - task.to]>>
                     ELSE slots[i]]
  /\ groups' = [groups EXCEPT ![g] = Tail(@)]
  /\ UNCHANGED <<series, step, asked, answer, stats, failed, cursor, batch,
                 failures>>

(* A read error ends the worker's group; the other groups go on.           *)
FillFails(g) ==
  /\ step = "filling" /\ groups[g] # <<>>
  /\ failed' = TRUE
  /\ groups' = [groups EXCEPT ![g] = <<>>]
  /\ UNCHANGED <<series, step, asked, answer, stats, slots, cursor, batch,
                 failures>>

(* Once every group has ended, the slots become the result, or nothing.    *)
Publish ==
  /\ step = "filling" /\ \A g \in DOMAIN groups : groups[g] = <<>>
  /\ step' = "done"
  /\ answer' = IF failed THEN <<>> ELSE Concat(slots)
  /\ UNCHANGED <<series, asked, stats, groups, failed, slots, cursor, batch,
                 failures>>

-----------------------------------------------------------------------------
(* query_scalar_predicate: one chunk after the other                       *)

MarkIndexUsed(used, kind) ==
  CASE used \in {"none", "full_scan"} -> kind
    [] kind = "full_scan" \/ kind = used -> used
    [] OTHER -> "zmap_and_vix"

Add(s, field, n) == [s EXCEPT ![field] = @ + n]

ViaZmap(acc, chunk, p, lo, hi) ==
  LET entries == ZoneMap(chunk.rows)
      ranges  == CandidateRowRanges(entries, p, lo, hi)
      merged  == MergeRowRanges(ranges)
      rows    == ReadRowRanges(chunk.rows, merged)
      seen    == Len(InWindow(entries, lo, hi))
      counted == [acc.stats EXCEPT !.indexUsed = MarkIndexUsed(@, "zmap"),
                                   !.blocksConsidered = @ + seen,
                                   !.blocksPruned = @ + (seen - Len(ranges))]
  IN  IF ranges = <<>>
      THEN [acc EXCEPT !.stats = Add(counted, "chunksPruned", 1)]
      ELSE [rows  |-> acc.rows \o Keep(rows, p, lo, hi),
            stats |-> [counted EXCEPT !.blocksScanned = @ + Len(merged),
                                      !.chunksScanned = @ + 1,
                                      !.rowsChecked = @ + Len(rows)]]

ViaVix(acc, chunk, p, lo, hi) ==
  LET entries == ValueIndex(chunk.rows)
      slices  == MatchingSlices(entries, p)
      rows    == Concat([i \in 1..Len(slices) |->
                           Span(entries, slices[i][1], slices[i][2])])
      counted == [acc.stats EXCEPT !.indexUsed = MarkIndexUsed(@, "vix")]
  IN  IF slices = <<>>
      THEN [acc EXCEPT !.stats = Add(counted, "chunksPruned", 1)]
      ELSE [rows  |-> acc.rows \o Keep(rows, p, lo, hi),
            stats |-> [counted EXCEPT !.chunksScanned = @ + 1,
                                      !.rowsChecked = @ + Len(rows)]]

ViaRawScan(acc, chunk, p, lo, hi) ==
  LET rows    == ScalarRange(chunk, lo, hi)
      counted == [acc.stats EXCEPT !.indexUsed = MarkIndexUsed(@, "full_scan"),
                                   !.fallbackScan = TRUE]
  IN  IF rows = <<>> THEN [acc EXCEPT !.stats = counted]
      ELSE [rows  |-> acc.rows \o SelectSeq(rows, LAMBDA r : Matches(p, r.value)),
            stats |-> [counted EXCEPT !.chunksScanned = @ + 1,
                                      !.rowsChecked = @ + Len(rows)]]

(* What the query does with one chunk depends on the predicate and on the  *)
(* sidecars that the manifest lists.                                       *)
QueryChunk(acc, chunk, p, lo, hi) ==
  LET next == [acc EXCEPT !.stats.chunksConsidered = @ + 1]
  IN  CASE IsDiscreteLookupLike(p) /\ "vix" \in chunk.sidecars ->
             ViaVix(next, chunk, p, lo, hi)
        [] IsContinuousRangeLike(p) /\ "zmap" \in chunk.sidecars ->
             ViaZmap(next, chunk, p, lo, hi)
        [] OTHER -> ViaRawScan(next, chunk, p, lo, hi)

ByTs(rows) == SortSeq(rows, LAMBDA x, y : x.ts < y.ts)

PredicateQuery(p, lo, hi) ==
  LET chunks == FindChunksForRange(series.chunks, lo, hi)
      acc    == FoldLeft(LAMBDA a, c : QueryChunk(a, c, p, lo, hi),
                         [rows |-> <<>>, stats |-> NoStats], chunks)
  IN  /\ step = "idle" /\ series.kind = "scalar" /\ lo <= hi /\ IsValid(p)
      /\ Return([op |-> "predicate", p |-> p, lo |-> lo, hi |-> hi], ByTs(acc.rows))
      /\ stats' = [acc.stats EXCEPT !.rowsMatched = Len(acc.rows)]

(* find_scalar_timestamps: the caller names the index to use; asking for a *)
(* sidecar that a chunk lacks is an error.                                 *)
FindTimestamps(strategy, p, lo, hi) ==
  LET q      == Legacy(p)
      chunks == FindChunksForRange(series.chunks, lo, hi)
      start  == [rows |-> <<>>, stats |-> NoStats]
      read(c) == CASE strategy = "zmap" -> ViaZmap(start, c, q, lo, hi).rows
                   [] strategy = "vix"  ->
                        FindTimestampsViaVix(ValueIndex(c.rows), q, lo, hi)
                   [] strategy = "raw"  -> ViaRawScan(start, c, q, lo, hi).rows
  IN  /\ step = "idle" /\ series.kind = "scalar" /\ lo <= hi /\ p.op \in LegacyOps
      /\ \A i \in 1..Len(chunks) : strategy \in chunks[i].sidecars \cup {"raw"}
      /\ Return([op |-> "predicate", p |-> q, lo |-> lo, hi |-> hi],
                ByTs(Concat([i \in 1..Len(chunks) |-> read(chunks[i])])))
      /\ UNCHANGED stats

-----------------------------------------------------------------------------
(* scan_trade_id_sequence, scan_bbo_sequence, scan_book_delta_sequence     *)

ScanSequence(lo, hi) ==
  /\ step = "idle" /\ series.kind = "fixed" /\ lo <= hi
  /\ Return([op |-> "sequence", lo |-> lo, hi |-> hi],
            <<ScanFixedSequence(series.chunks, lo, hi)>>)
  /\ UNCHANGED stats

-----------------------------------------------------------------------------
(* ReplayCursor                                                            *)

(* The cursor keeps the sealed chunks that meet the window.                *)
ReplayChunks(lo, hi) ==
  SelectSeq(series.chunks,
            LAMBDA c : c.state = "Sealed" /\ EndTs(c) >= lo /\ StartTs(c) <= hi)

(* seek_to_start: every kept chunk has a row at or after lo, so the search *)
(* ends in the first one.                                                  *)
SeekToStart(chunks, lo) ==
  [chunks |-> chunks, chunk |-> 1,
   row |-> IF chunks = <<>> THEN 0 ELSE LowerBound(chunks[1].rows, lo),
   exhausted |-> chunks = <<>>]

(* The same for every record type.                                         *)
NewReplay(lo, hi) ==
  LET chunks == ReplayChunks(lo, hi)
  IN  /\ step = "idle" /\ series.kind \in ReplayKinds /\ lo <= hi
      /\ asked' = [op |-> "replay", lo |-> lo, hi |-> hi]
      /\ step' = IF chunks = <<>> THEN "done" ELSE "replay"
      /\ cursor' = SeekToStart(chunks, lo)
      /\ UNCHANGED <<series, answer, stats, groups, failed, slots, batch, failures>>

NextBatch(n) ==
  /\ step = "replay" /\ ~cursor.exhausted
  /\ step' = "batch"
  /\ batch' = [rows |-> <<>>, size |-> n]
  /\ UNCHANGED <<series, asked, answer, stats, groups, failed, slots, cursor,
                 failures>>

(* read_batch_from_chunk: the rows from `row` on, up to the end of the     *)
(* window, the chunk or the batch, and the row to go on with.              *)
ReadBatch(chunk, row, hi, room) ==
  LET end  == IF row + room < Count(chunk.rows) THEN row + room ELSE Count(chunk.rows)
      late == {i \in row..(end - 1) : TsAt(chunk.rows, i) > hi}
      cut  == CHOOSE i \in late : \A j \in late : i <= j
  IN  IF late = {} THEN [rows |-> Span(chunk.rows, row, end), next |-> end]
      ELSE [rows |-> Span(chunk.rows, row, cut), next |-> Count(chunk.rows)]

(* advance_chunk: the first row of the next chunk, or the end.             *)
AdvanceChunk(c) ==
  [c EXCEPT !.chunk = @ + 1, !.row = 0, !.exhausted = c.chunk = Len(c.chunks)]

(* Mutant: a full batch at the end of a chunk leaves the cursor before it. *)
AdvanceUnlessFull(c, next, full) ==
  IF next >= Count(c.chunks[c.chunk].rows) /\ ~full
  THEN AdvanceChunk(c)
  ELSE IF next >= Count(c.chunks[c.chunk].rows) THEN c ELSE [c EXCEPT !.row = next]

(* Mutant: a chunk that is used up is not left.                            *)
AdvancePastWindow(c, next, full) ==
  IF EndTs(c.chunks[c.chunk]) > asked.hi /\ ~full
  THEN AdvanceChunk(c)
  ELSE [c EXCEPT !.row = next]

(* The cursor after a read that goes on with row `next`: advance_chunk when*)
(* the chunk is used up, or when it reaches past the window with room left.*)
Advance(c, next, full) ==
  IF \/ next >= Count(c.chunks[c.chunk].rows)
     \/ EndTs(c.chunks[c.chunk]) > asked.hi /\ ~full
  THEN AdvanceChunk(c)
  ELSE [c EXCEPT !.row = next]

BatchStep ==
  /\ step = "batch" /\ Len(batch.rows) < batch.size /\ ~cursor.exhausted
  /\ LET got  == ReadBatch(cursor.chunks[cursor.chunk], cursor.row, asked.hi,
                           batch.size - Len(batch.rows))
         rows == batch.rows \o got.rows
     IN  /\ batch' = [batch EXCEPT !.rows = rows]
         /\ cursor' = Advance(cursor, got.next, Len(rows) = batch.size)
  /\ UNCHANGED <<series, step, asked, answer, stats, groups, failed, slots,
                 failures>>

BatchReturn ==
  /\ step = "batch" /\ (Len(batch.rows) = batch.size \/ cursor.exhausted)
  /\ answer' = answer \o batch.rows
  /\ batch' = NoBatch
  /\ step' = IF cursor.exhausted THEN "done" ELSE "replay"
  /\ UNCHANGED <<series, asked, stats, groups, failed, slots, cursor, failures>>

(* A chunk that cannot be read fails the batch: the rows it had taken are  *)
(* dropped, and the cursor stays where it was.                             *)
BatchFails ==
  /\ step = "batch" /\ Len(batch.rows) < batch.size /\ ~cursor.exhausted
  /\ failures < MaxFailures
  /\ failures' = failures + 1
  /\ failed' = (failed \/ batch.rows # <<>>)
  /\ batch' = NoBatch
  /\ step' = "replay"
  /\ UNCHANGED <<series, asked, answer, stats, groups, slots, cursor>>

ReplayStep == (\E n \in BatchSizes : NextBatch(n)) \/ BatchStep \/ BatchReturn

-----------------------------------------------------------------------------
Next ==
  \/ \E ts \in Times : PointRead(ts)
  \/ \E lo, hi \in Times : RangeRead(lo, hi)
  \/ \E n \in Times : FixedLatest(n)
  \/ \E lo, hi \in Times, k \in ReadThreads : PlanRead(lo, hi, k)
  \/ \E n \in Times, k \in ReadThreads : KlineLatest(n, k)
  \/ \E g \in DOMAIN groups : Fill(g) \/ FillFails(g)
  \/ Publish
  \/ \E p \in Predicates, w \in Windows : PredicateQuery(p, w[1], w[2])
  \/ \E p \in Predicates, s \in {"zmap", "vix", "raw"}, w \in Windows :
       FindTimestamps(s, p, w[1], w[2])
  \/ \E lo, hi \in Times : ScanSequence(lo, hi)
  \/ \E lo, hi \in Times : NewReplay(lo, hi)
  \/ ReplayStep
  \/ BatchFails

(* A caller that replays keeps asking for batches; a batch is one call.    *)
Spec == Init /\ [][Next]_vars /\ WF_vars(ReplayStep)

-----------------------------------------------------------------------------
(* The reference: all rows of the series in order, and those of a window.  *)
AllRows == Concat([i \in 1..Len(series.chunks) |-> series.chunks[i].rows])
RowsIn(lo, hi) == SelectSeq(AllRows, LAMBDA r : lo <= r.ts /\ r.ts <= hi)
LastRows(n) == SubSeq(AllRows, IF n < Len(AllRows) THEN Len(AllRows) - n + 1 ELSE 1,
                      Len(AllRows))
SealedRows(lo, hi) ==
  LET sealed == SelectSeq(series.chunks, LAMBDA c : c.state = "Sealed")
  IN  SelectSeq(Concat([i \in 1..Len(sealed) |-> sealed[i].rows]),
                LAMBDA r : lo <= r.ts /\ r.ts <= hi)

(* Point and range reads and the last n rows return exactly the rows that  *)
(* a scan of the whole series would, in order, whichever chunks, blocks of *)
(* the sparse index and shortcuts of the readers they go through.          *)
ReadsAreExact ==
  step = "done" /\ ~failed =>
    /\ asked.op = "range"  => answer = RowsIn(asked.lo, asked.hi)
    /\ asked.op = "latest" => answer = LastRows(asked.n)

(* A planned read publishes every row of the result or none: its tasks     *)
(* cover each slot once, however workers are scheduled and fail, and no    *)
(* slot that was never filled is handed out.                               *)
PublishedWhole ==
  /\ \A g, h \in DOMAIN groups : \A i \in DOMAIN groups[g], j \in DOMAIN groups[h] :
       LET a == groups[g][i]
           b == groups[h][j]
       IN  a # b => a.to + a.rows <= b.to \/ b.to + b.rows <= a.to
  /\ step = "done" /\ slots # <<>> =>
       \/ failed /\ answer = <<>>
       \/ \A i \in 1..Len(slots) : slots[i] # <<>>

(* A predicate query returns the rows of the window that match, whether it *)
(* went through the value index, the zone map or a scan, chunk by chunk.   *)
PredicateExact ==
  step = "done" /\ asked.op = "predicate" =>
    answer = Keep(AllRows, asked.p, asked.lo, asked.hi)

(* The report of a sequence scan accounts for every record of the window,  *)
(* however chunks cut it: it is clean just when the numbers are consecutive*)
(* from the first record to the last, each anomaly names two neighbours,   *)
(* and where nothing runs backwards the distance from the first number to  *)
(* the last is what the records, the duplicates and the gaps add up to.    *)
SequenceAccountsForAll ==
  step = "done" /\ asked.op = "sequence" =>
    LET report    == answer[1]
        rows      == RowsIn(asked.lo, asked.hi)
        n         == Len(rows)
        anomalies == report.gaps \o report.duplicates \o report.violations
        missing   == FoldLeft(LAMBDA sum, g : sum + g.missing, 0, report.gaps)
    IN  /\ report.records = n
        /\ (anomalies = <<>>) <=>
             \A i \in 1..n : rows[i].value = rows[1].value + i - 1
        /\ \A k \in 1..Len(anomalies) :
             LET a == anomalies[k]
             IN  /\ a.next.ordinal = a.prev.ordinal + 1
                 /\ \A o \in {a.prev, a.next} :
                      rows[o.ordinal + 1] = [ts |-> o.ts, value |-> o.sequence]
        /\ n > 0 => /\ report.first = <<rows[1].value>>
                    /\ report.last = <<rows[n].value>>
        /\ n > 0 /\ report.violations = <<>> =>
             report.last[1] - report.first[1] + Len(report.duplicates)
               = n - 1 + missing

(* The batches of a replay, put together, are the sealed rows of the window*)
(* without a gap or a repetition, and all of them once the cursor is       *)
(* exhausted.  A batch that failed after it had taken rows loses them; what*)
(* follows is still in file order, equal timestamps too, and not repeated. *)
ReplayInOrder ==
  asked.op = "replay" =>
    LET expected == SealedRows(asked.lo, asked.hi)
    IN  /\ ~failed => IsPrefix(answer \o batch.rows, expected)
        /\ ~failed /\ step = "done" => answer = expected
        /\ Range(answer) \subseteq Range(expected)
        /\ \A i, j \in 1..Len(answer), k, l \in 1..Len(expected) :
             i < j /\ expected[k] = answer[i] /\ expected[l] = answer[j] => k < l

(* A replay comes to its end: every batch returns, and a caller that keeps *)
(* asking exhausts the cursor.                                             *)
ReplayEnds == step = "batch" ~> cursor.exhausted
=============================================================================
