---------------------------- MODULE ChunkCatalog ----------------------------
(***************************************************************************)
(* The metadata algebra of one FastK series: what the engine computes from *)
(* chunk descriptions when it appends, replaces, compacts or recovers.     *)
(*                                                                         *)
(* A chunk FILE is a record [path, id, gen, start, end, rows]: the header  *)
(* fields the engine reads back (chunk_id, generation, start_ts, end_ts)   *)
(* and its rows.  A chunk ENTRY of the manifest is the same record with a  *)
(* `state`.  A path is [month, kind, gen]: "base" is YYYY-MM.chunk (no     *)
(* generation in the name, gen = 0), "delta" is YYYY-MM.delta.gN.chunk and *)
(* "merged" is YYYY-MM.gN.chunk.                                           *)
(*                                                                         *)
(* The manifest is a sorted vector in which validate() rejects overlaps,   *)
(* so a set of entries with disjoint ranges carries the same information.  *)
(* Checksums, offsets, counts kept beside the rows and clocks are left out.*)
(***************************************************************************)
EXTENDS Integers, FiniteSets

ChunkStates == {"Active", "Sealed", "Merging", "Replaced"}

\* Both ends of a chunk's range are inclusive.
RangesOverlap(c, d) == c.start <= d.end /\ c.end >= d.start

Paths(C) == {c.path : c \in C}

InMonth(C, m) == {c \in C : c.path.month = m}

RowsOf(C) == UNION {c.rows : c \in C}

\* The chunk `file` as a manifest entry in state s.
Entry(file, s) ==
  [path |-> file.path, id |-> file.id, gen |-> file.gen, start |-> file.start,
   end |-> file.end, rows |-> file.rows, state |-> s]

\* The file behind a manifest entry.
FileOf(entry) ==
  [path |-> entry.path, id |-> entry.id, gen |-> entry.gen, start |-> entry.start,
   end |-> entry.end, rows |-> entry.rows]

\* A scan of the directory knows only the name: deltas are Active.
DecodeState(path) == IF path.kind = "delta" THEN "Active" ELSE "Sealed"

Scanned(file) == Entry(file, DecodeState(file.path))

(***************************************************************************)
(* Allocation of names, identifiers and generations.                       *)
(***************************************************************************)
\* Mutant of NextGeneration: the largest generation is used again.
NextGenerationReused(C) ==
  {g \in {1} \cup {c.gen : c \in C} : \A c \in C : c.gen <= g}

\* One more than the largest generation in C, or 1: a set with one member.
NextGeneration(C) ==
  {g \in {1} \cup {c.gen + 1 : c \in C} :
     /\ \A c \in C : c.gen < g
     /\ C # {} => \E c \in C : g = c.gen + 1}

\* One more than the largest chunk id in C, or 1: a set with one member.
NextChunkId(C) ==
  {i \in {1} \cup {c.id + 1 : c \in C} :
     /\ \A c \in C : c.id < i
     /\ C # {} => \E c \in C : i = c.id + 1}

BasePath(m)      == [month |-> m, kind |-> "base",   gen |-> 0]
DeltaPath(m, g)  == [month |-> m, kind |-> "delta",  gen |-> g]
MergedPath(m, g) == [month |-> m, kind |-> "merged", gen |-> g]

(***************************************************************************)
(* Manifest edits.                                                         *)
(***************************************************************************)
\* validate(): sorted by start and each start after the previous end.
ValidChunks(C) ==
  /\ \A c \in C : c.start <= c.end
  /\ \A c, d \in C : c # d => ~ RangesOverlap(c, d)

\* Mutant of UpsertChunk: the entry takes the place of its whole month.
UpsertOverMonth(C, entry) == (C \ InMonth(C, entry.path.month)) \cup {entry}

UpsertChunk(C, entry) == {c \in C : c.id # entry.id} \cup {entry}

\* Mutant of ReplaceMonth: the other months are dropped too.
ReplaceEverything(C, m, entry) == {entry}

ReplaceMonth(C, m, entry) == (C \ InMonth(C, m)) \cup {entry}

\* The id of the last Active chunk in time order, 0 for none: one member.
ActiveChunkId(C) ==
  LET live == {c \in C : c.state = "Active"}
  IN  IF live = {} THEN {0}
      ELSE {c.id : c \in {d \in live : \A e \in live : e.start <= d.start}}

(***************************************************************************)
(* Compaction.                                                             *)
(***************************************************************************)
\* can_transition(from, Merging).
CanMerge(state) == state \in {"Active", "Sealed"}

MergeOutputState(sources) ==
  IF \E c \in sources : c.state = "Active" THEN "Active" ELSE "Sealed"

\* evaluate_month: deltas are all readable chunks but the first.  The two count
\* thresholds are one here, the smaller; the byte threshold is not reached.
ShouldMerge(C, m, threshold) ==
  Cardinality({c \in InMonth(C, m) : c.state # "Replaced"}) - 1 >= threshold

(***************************************************************************)
(* Recovery: who survives an overlap.                                      *)
(***************************************************************************)
Covers(c, S) == \A d \in S : c.start <= d.start /\ c.end >= d.end

\* The order of file names of one month: ".chunk" < ".delta." < ".g".
KindRank(kind) == CASE kind = "base" -> 0 [] kind = "delta" -> 1 [] OTHER -> 2

Span(c) == c.end - c.start

\* Mutant of RanksBefore: the generations are ranked in ascending order.
RanksBeforeAscending(c, d) ==
  \/ c.gen < d.gen
  \/ c.gen = d.gen /\ Span(c) > Span(d)

\* c comes before d in the ranking (generation, span, count, path), descending.
RanksBefore(c, d) ==
  \/ c.gen > d.gen
  \/ c.gen = d.gen /\ Span(c) > Span(d)
  \/ c.gen = d.gen /\ Span(c) = Span(d) /\ Cardinality(c.rows) > Cardinality(d.rows)
  \/ /\ c.gen = d.gen /\ Span(c) = Span(d) /\ Cardinality(c.rows) = Cardinality(d.rows)
     /\ KindRank(c.path.kind) > KindRank(d.path.kind)

\* The best ranked chunk that covers the whole overlap window: a set with at
\* most one member, empty when the overlap is ambiguous.
Survivor(S) ==
  {c \in S : /\ Covers(c, S)
             /\ \A d \in S \ {c} : Covers(d, S) => RanksBefore(c, d)}

\* Merging entries without a newer covering chunk return to service.
NormalizeDangling(C, active) ==
  LET newer(c) == {d \in C : d.path # c.path /\ d.gen > c.gen /\ RangesOverlap(d, c)}
      dangling(c) == /\ c.state = "Merging"
                     /\ Survivor(newer(c) \cup {c}) \subseteq {c}
  IN  {IF dangling(c)
       THEN [c EXCEPT !.state = IF active = c.id THEN "Active" ELSE "Sealed"]
       ELSE c : c \in C}

\* Mutant of AdoptCandidate: untracked files are ignored.
AdoptNothing(C, file) == C

\* Mutant of AdoptCandidate: overlaps are not looked at.
AdoptAlways(C, file) ==
  IF file.path \in Paths(C) THEN C ELSE C \cup {Scanned(file)}

\* One candidate file against the entries C recovered so far.
AdoptCandidate(C, file) ==
  LET cand     == Scanned(file)
      overlaps == {c \in C : RangesOverlap(c, cand)}
  IN  IF cand.path \in Paths(C) THEN C
      ELSE IF overlaps = {} THEN C \cup {cand}
      ELSE IF \E c \in overlaps : c.gen >= cand.gen THEN C
      ELSE IF Survivor(overlaps \cup {cand}) = {cand}
           THEN (C \ overlaps) \cup {cand}
      ELSE C

(***************************************************************************)
(* Rebuilding a manifest from the files alone.  overlap_groups sweeps the  *)
(* files in start order and cuts before a start that lies beyond every     *)
(* earlier end: two files share a group when no cut separates them.        *)
(***************************************************************************)
IsCut(S, x) == \A c \in S : c.start < x => c.end < x

SameGroup(S, c, d) ==
  ~ \E e \in S : /\ (c.start < e.start) # (d.start < e.start)
                 /\ IsCut(S, e.start)

OverlapGroup(S, c) == {d \in S : SameGroup(S, c, d)}

\* Every overlap group has a survivor: otherwise the rebuild is refused.
Rebuildable(S) == \A c \in S : Survivor(OverlapGroup(S, c)) # {}

SelectNonOverlapping(S) == {c \in S : Survivor(OverlapGroup(S, c)) = {c}}
=============================================================================
