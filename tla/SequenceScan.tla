---------------------------- MODULE SequenceScan ----------------------------
(***************************************************************************)
(* The storage-level scan of the sequence numbers of a fixed-width series  *)
(* (trade ids, book sequences): what the report holds and how one record,  *)
(* and one chunk, add to it.  The value of a row is its sequence number.   *)
(***************************************************************************)
EXTENDS ChunkReads

NewReport == [chunks |-> 0, records |-> 0, first |-> <<>>, last |-> <<>>,
              gaps |-> <<>>, duplicates |-> <<>>, violations |-> <<>>]

(* An anomaly names the two adjacent records by timestamp and ordinal.     *)
Anomaly(prev, current) == [prev |-> prev, next |-> current]

(* observe_sequence: `previous` is empty for the first record.             *)
Observe(report, previous, current) ==
  LET counted == [report EXCEPT
                    !.records = @ + 1,
                    !.first = IF @ = <<>> THEN <<current.sequence>> ELSE @,
                    !.last = <<current.sequence>>]
      prev    == previous[1]
      delta   == current.sequence - prev.sequence
      pair    == Anomaly(prev, current)
  IN  CASE previous = <<>> -> counted
        [] previous # <<>> /\ delta = 0 ->
             [counted EXCEPT !.duplicates = Append(@, pair)]
        [] previous # <<>> /\ delta < 0 ->
             [counted EXCEPT !.violations = Append(@, pair)]
        [] previous # <<>> /\ delta > 1 ->
             [counted EXCEPT
                !.gaps = Append(@, pair @@ [expected |-> prev.sequence + 1,
                                            missing  |-> delta - 1])]
        [] OTHER -> counted

(* The scan so far, a report and the record before, after one more record. *)
ObserveRow(scan, row) ==
  LET current == [ts |-> row.ts, sequence |-> row.value,
                  ordinal |-> scan.report.records]
  IN  [report |-> Observe(scan.report, scan.previous, current),
       previous |-> <<current>>]

(* Mutant: the record before is forgotten at the start of each chunk.      *)
ScanChunkAfresh(scan, chunk, lo, hi) ==
  LET rows == FixedRange(chunk, lo, hi)
      seen == [scan EXCEPT !.report.chunks = @ + 1, !.previous = <<>>]
  IN  IF rows = <<>> THEN scan ELSE FoldLeft(ObserveRow, seen, rows)

(* The records of one chunk; a chunk without one is not counted.           *)
ScanChunk(scan, chunk, lo, hi) ==
  LET rows == FixedRange(chunk, lo, hi)
      seen == [scan EXCEPT !.report.chunks = @ + 1]
  IN  IF rows = <<>> THEN scan ELSE FoldLeft(ObserveRow, seen, rows)

(* scan_fixed_sequence: the record before is kept from chunk to chunk.     *)
ScanFixedSequence(chunks, lo, hi) ==
  FoldLeft(LAMBDA scan, c : ScanChunk(scan, c, lo, hi),
           [report |-> NewReport, previous |-> <<>>],
           FindChunksForRange(chunks, lo, hi)).report
=============================================================================
