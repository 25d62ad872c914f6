---------------------------- MODULE ScalarIndex ----------------------------
(***************************************************************************)
(* The sidecar indexes of a scalar chunk and the predicates they serve: the*)
(* zone map (.zmap), which keeps the smallest and the largest value of each*)
(* block of rows, and the value index (.vix), the rows sorted by value.    *)
(*                                                                         *)
(* A predicate is a record: its operator, the bounds a and b, a set.       *)
(***************************************************************************)
EXTENDS ChunkReads

CONSTANT ZoneBlock  \* rows summarised by one zone-map entry

ASSUME ZoneAssumption == ZoneBlock \in Nat \ {0}

Matches(p, v) ==
  CASE p.op = "eq"        -> v = p.a
    [] p.op = "ne"        -> v # p.a
    [] p.op = "gt"        -> v > p.a
    [] p.op = "gte"       -> v >= p.a
    [] p.op = "lt"        -> v < p.a
    [] p.op = "lte"       -> v <= p.a
    [] p.op = "between"   -> v >= p.a /\ v <= p.b
    [] p.op = "inside"    -> v > p.a /\ v < p.b
    [] p.op = "in_set"    -> v \in p.set
    [] p.op = "not_in"    -> v \notin p.set

(* validate(); "inside" is the Between that excludes its ends.             *)
IsValid(p) == p.op \in {"between", "inside"} => p.a <= p.b

IsContinuousRangeLike(p) == p.op \in {"gt", "gte", "lt", "lte", "between", "inside"}
IsDiscreteLookupLike(p)  == p.op \in {"eq", "in_set"}

(* Mutant: only the smallest value of the zone is looked at.               *)
MayMatchSmallest(p, min, max) == Matches(p, min)

MayMatchValueRange(p, min, max) ==
  CASE p.op = "eq"        -> min <= p.a /\ max >= p.a
    [] p.op = "ne"        -> ~(min = p.a /\ max = p.a)
    [] p.op = "gt"        -> max > p.a
    [] p.op = "gte"       -> max >= p.a
    [] p.op = "lt"        -> min < p.a
    [] p.op = "lte"       -> min <= p.a
    [] p.op = "between"   -> max >= p.a /\ min <= p.b
    [] p.op = "inside"    -> max > p.a /\ min < p.b
    [] p.op = "in_set"    -> \E v \in p.set : min <= v /\ v <= max
    [] p.op = "not_in"    -> ~(min = max /\ min \in p.set)

(* The compatibility predicate: a Between takes its bounds in any order.   *)
Legacy(p) ==
  IF p.op = "between" /\ p.a > p.b THEN [p EXCEPT !.a = p.b, !.b = p.a] ELSE p

LegacyOps == {"eq", "gt", "gte", "lt", "lte", "between"}

-----------------------------------------------------------------------------
(* The zone map: blocks of rows first..last, both included.                *)

ZoneMap(rows) ==
  [k \in 1..((Count(rows) + ZoneBlock - 1) \div ZoneBlock) |->
     LET first  == (k - 1) * ZoneBlock
         last   == (IF k * ZoneBlock < Count(rows) THEN k * ZoneBlock
                                                   ELSE Count(rows)) - 1
         values == {rows[i + 1].value : i \in first..last}
     IN  [first |-> first, last |-> last,
          startTs |-> TsAt(rows, first), endTs |-> TsAt(rows, last),
          min |-> CHOOSE v \in values : \A w \in values : v <= w,
          max |-> CHOOSE v \in values : \A w \in values : v >= w]]

InWindow(entries, lo, hi) ==
  SelectSeq(entries, LAMBDA e : e.endTs >= lo /\ e.startTs <= hi)

CandidateRowRanges(entries, p, lo, hi) ==
  SelectSeq(InWindow(entries, lo, hi),
            LAMBDA e : MayMatchValueRange(p, e.min, e.max))

(* Neighbouring or overlapping ranges are read in one piece.               *)
MergeRowRanges(ranges) ==
  FoldLeft(LAMBDA merged, r :
             IF merged # <<>> /\ r.first <= merged[Len(merged)].last + 1
             THEN [merged EXCEPT ![Len(merged)].last =
                                   IF r.last > @ THEN r.last ELSE @]
             ELSE Append(merged, [first |-> r.first, last |-> r.last]),
           <<>>, ranges)

ReadRowRanges(rows, ranges) ==
  FoldLeft(LAMBDA out, r : out \o Span(rows, r.first, r.last + 1), <<>>, ranges)

-----------------------------------------------------------------------------
(* The value index                                                         *)

ValueIndex(rows) ==
  SortSeq(rows, LAMBDA x, y : x.value < y.value \/ (x.value = y.value /\ x.ts < y.ts))

LowerValue(entries, v) ==
  PartitionPoint(Len(entries), {i \in Indices(entries) : entries[i + 1].value < v})
UpperValue(entries, v) ==
  PartitionPoint(Len(entries), {i \in Indices(entries) : entries[i + 1].value <= v})

(* The slices of the index that can match; in_set asks for each value once.*)
MatchingSlices(entries, p) ==
  LET len == Len(entries)
      of(v) == <<LowerValue(entries, v), UpperValue(entries, v)>>
      slices ==
        CASE p.op = "eq"      -> <<of(p.a)>>
          [] p.op = "in_set"  -> LET vs == SetToSortSeq(p.set, LAMBDA x, y : x < y)
                                 IN  [i \in 1..Len(vs) |-> of(vs[i])]
          [] p.op = "gt"      -> <<<<UpperValue(entries, p.a), len>>>>
          [] p.op = "gte"     -> <<<<LowerValue(entries, p.a), len>>>>
          [] p.op = "lt"      -> <<<<0, LowerValue(entries, p.a)>>>>
          [] p.op = "lte"     -> <<<<0, UpperValue(entries, p.a)>>>>
          [] p.op = "between" -> <<<<LowerValue(entries, p.a), UpperValue(entries, p.b)>>>>
          [] p.op = "inside"  -> <<<<UpperValue(entries, p.a), LowerValue(entries, p.b)>>>>
          [] OTHER            -> <<<<0, len>>>>
  IN  SelectSeq(slices, LAMBDA s : s[1] < s[2])

(* The rows a query keeps.                                                 *)
Keep(rows, p, lo, hi) ==
  SelectSeq(rows, LAMBDA r : lo <= r.ts /\ r.ts <= hi /\ Matches(p, r.value))

(* PredicateQueryEngine: the matching rows of one chunk through its value  *)
(* index, back in the order of time.                                       *)
FindTimestampsViaVix(entries, p, lo, hi) ==
  LET slices == MatchingSlices(entries, p)
      found  == FoldLeft(LAMBDA out, s : out \o Span(entries, s[1], s[2]), <<>>, slices)
  IN  SortSeq(Keep(found, p, lo, hi), LAMBDA x, y : x.ts < y.ts)
=============================================================================
