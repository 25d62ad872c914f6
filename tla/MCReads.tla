------------------------------ MODULE MCReads ------------------------------
(***************************************************************************)
(* Small series for SeriesReads: every set of timestamps (for klines out of*)
(* 1..5, for fixed records 1..4; for scalars a few, with two patterns of   *)
(* values), cut into chunks in every way, with and without a sparse index, *)
(* regular and irregular: a pair <<every, frame>>.  Trades and book deltas *)
(* may have equal timestamps inside a chunk.                               *)
(***************************************************************************)
EXTENDS SeriesReads

RowsOf(times, Value(_)) ==
  LET ts == SetToSortSeq(times, LAMBDA x, y : x < y)
  IN  [i \in 1..Len(ts) |-> [ts |-> ts[i], value |-> Value(ts[i])]]

(* The rows cut after the positions in `cuts`.                             *)
CutRows(rows, cuts) ==
  LET ends == SetToSortSeq(cuts \cup {Len(rows)}, LAMBDA x, y : x < y)
  IN  [k \in 1..Len(ends) |->
         SubSeq(rows, IF k = 1 THEN 1 ELSE ends[k - 1] + 1, ends[k])]

Series(kind, pieces, every, frame, Sidecars(_), lastState) ==
  [kind |-> kind, frame |-> frame,
   chunks |-> [k \in 1..Len(pieces) |->
                 [rows |-> pieces[k], every |-> every, frame |-> frame,
                  state |-> IF k = Len(pieces) THEN lastState ELSE "Sealed",
                  sidecars |-> Sidecars(k)]]]

Cuttings(rows) == {CutRows(rows, cuts) : cuts \in SUBSET (1..(Len(rows) - 1))}

PiecesOf(times, Value(_)) ==
  UNION {Cuttings(RowsOf(S, Value)) : S \in (SUBSET times) \ {{}}}

KlineStores ==
  {Series("kline", pieces, f[1], f[2], LAMBDA k : {}, "Active") :
     pieces \in PiecesOf(1..5, LAMBDA t : 0), f \in {<<0, 0>>, <<1, 1>>, <<2, 1>>}}

(* Sequence numbers with runs and gaps, and with repetitions and steps     *)
(* backwards.                                                              *)
FixedStores ==
  UNION {{Series("fixed", pieces, every, 0, LAMBDA k : {}, "Active") :
            pieces \in PiecesOf(1..4, LAMBDA t : <<1, 4, 4, 3>>[t])} \cup
         {Series("fixed", pieces, every, 0, LAMBDA k : {}, "Sealed") :
            pieces \in PiecesOf(1..4, LAMBDA t : <<1, 2, 3, 5>>[t])} :
           every \in {0, 2}}

TiedRows(stamps) == [i \in 1..Len(stamps) |-> [ts |-> stamps[i], value |-> i]]

(* No chunk starts at the timestamp its predecessor ends with: an append   *)
(* that does is refused.                                                   *)
AppendedPieces(rows) ==
  {pieces \in Cuttings(rows) :
     \A k \in 1..(Len(pieces) - 1) : Last(pieces[k]).ts < pieces[k + 1][1].ts}

TiedStores ==
  UNION {{Series("fixed", pieces, every, 0, LAMBDA k : {}, "Sealed") :
            pieces \in AppendedPieces(TiedRows(stamps))} :
           stamps \in {<<1, 2, 2, 3>>, <<1, 1, 2, 2>>, <<2, 2, 2, 3>>, <<1, 1, 1, 4, 4>>},
           every \in {0, 2}}

(* A row before a sample has the timestamp of the sample.                  *)
TieCrossesSample(store) ==
  \E k \in DOMAIN store.chunks :
    LET chunk == store.chunks[k]
    IN  \E i \in Range(Sample(chunk)) \ {0} : TsAt(chunk.rows, i - 1) = TsAt(chunk.rows, i)

ScalarPieces ==
  UNION {Cuttings(RowsOf(S, LAMBDA t : (t * t) % 3)) \cup
         Cuttings(RowsOf(S, LAMBDA t : (t + 1) % 3)) :
           S \in {1..5, {1, 2, 4, 5}, {2, 3, 5}, {3}}}

ScalarStores ==
  UNION {{Series("scalar", pieces, f[1], f[2], LAMBDA k : {}, "Sealed"),
          Series("scalar", pieces, f[1], f[2], LAMBDA k : {"zmap", "vix"}, "Sealed"),
          Series("scalar", pieces, f[1], f[2],
                 LAMBDA k : IF k = 1 THEN {"zmap", "vix"} ELSE {}, "Sealed")} :
           pieces \in ScalarPieces, f \in {<<0, 0>>, <<2, 1>>}}

MCStores ==
  KlineStores \cup FixedStores \cup ScalarStores
  \cup {store \in TiedStores : ~TieCrossesSample(store)}

Pred(op, a, b, set) == [op |-> op, a |-> a, b |-> b, set |-> set]

MCPredicates ==
  {Pred(op, a, 0, {}) : op \in {"eq", "ne", "gt", "gte", "lt", "lte"}, a \in 0..2}
  \cup {Pred("between", a, b, {}) : a, b \in 0..2}
  \cup {Pred("inside", a, b, {}) : a \in 0..1, b \in 1..2}
  \cup {Pred(op, 0, 0, set) : op \in {"in_set", "not_in"},
                              set \in {{}, {1}, {0, 2}, {0, 1, 2}}}

MCWindows == {<<1, 5>>, <<2, 4>>, <<3, 3>>, <<0, 2>>, <<4, 6>>, <<1, 1>>}
=============================================================================
