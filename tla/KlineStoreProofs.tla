-------------------------- MODULE KlineStoreProofs --------------------------
(***************************************************************************)
(* Proofs about KlineStore for every set of timestamps and months, every   *)
(* number of puts and failures and every compaction policy: IInv is an     *)
(* invariant, and with it acknowledged rows stay readable, no timestamp is *)
(* read twice, a store without a marker is settled and its next file names *)
(* are free.  With one invariant more the store implements AppendLog.      *)
(***************************************************************************)
EXTENDS KlineInvariant, TLAPS

(***************************************************************************)
(* Operators of the catalog                                                *)
(***************************************************************************)
\* Allocation (next generation, next_chunk_id): a natural number above all in use.
LEMMA NextGenerationIsNew ==
  ASSUME NEW C \in SUBSET ChunkEntry, NEW g \in NextGeneration(C)
  PROVE  g \in Nat /\ \A c \in C : c.gen < g
BY DEF NextGeneration, ChunkEntry

LEMMA NextChunkIdIsNew ==
  ASSUME NEW C \in SUBSET ChunkEntry, NEW i \in NextChunkId(C)
  PROVE  i \in Nat /\ \A c \in C : c.id < i
BY DEF NextChunkId, ChunkEntry

\* Dropping the state of an entry gives a file with the same header and rows.
LEMMA FileOfEntry ==
  ASSUME NEW c \in ChunkEntry
  PROVE  /\ FileOf(c) \in File
         /\ FileOf(c).path = c.path /\ FileOf(c).id = c.id /\ FileOf(c).gen = c.gen
         /\ FileOf(c).start = c.start /\ FileOf(c).end = c.end /\ FileOf(c).rows = c.rows
BY DEF FileOf, ChunkEntry, File

\* A directory scan gives an entry for the same file, Active or Sealed.
LEMMA ScannedFile ==
  ASSUME NEW f \in File
  PROVE  /\ Scanned(f) \in ChunkEntry
         /\ FileOf(Scanned(f)) = f
         /\ Scanned(f).path = f.path /\ Scanned(f).id = f.id /\ Scanned(f).gen = f.gen
         /\ Scanned(f).start = f.start /\ Scanned(f).end = f.end /\ Scanned(f).rows = f.rows
         /\ Scanned(f).state \in {"Active", "Sealed"}
BY DEF Scanned, Entry, DecodeState, FileOf, ChunkEntry, File, ChunkStates

LEMMA InMonthEntries ==
  ASSUME NEW C \in SUBSET ChunkEntry, NEW m
  PROVE  InMonth(C, m) \subseteq C /\ InMonth(C, m) \in SUBSET ChunkEntry
BY DEF InMonth

LEMMA ActiveChunkIdType ==
  ASSUME NEW C \in SUBSET ChunkEntry
  PROVE  ActiveChunkId(C) \subseteq Nat
BY DEF ActiveChunkId, ChunkEntry

LEMMA NormalizeType ==
  ASSUME NEW C \in SUBSET ChunkEntry, NEW i
  PROVE  NormalizeDangling(C, i) \in SUBSET ChunkEntry
BY DEF NormalizeDangling, ChunkEntry, ChunkStates

LEMMA AdoptType ==
  ASSUME NEW C \in SUBSET ChunkEntry, NEW f \in File
  PROVE  AdoptCandidate(C, f) \in SUBSET ChunkEntry
BY ScannedFile DEF AdoptCandidate

LEMMA RowsOfType ==
  ASSUME NEW C \in SUBSET ChunkEntry
  PROVE  RowsOf(C) \in SUBSET Row
BY DEF RowsOf, ChunkEntry

(***************************************************************************)
(* Type correctness                                                        *)
(***************************************************************************)
LEMMA PutEntryType ==
  ASSUME NEW m \in Months, NEW tracked, NEW g \in Nat, NEW i \in Nat,
         NEW first \in Ts, NEW last \in Ts, NEW rows \in SUBSET Row
  PROVE  PutEntry(m, tracked, g, i, first, last, rows) \in ChunkEntry
BY DEF PutEntry, BasePath, DeltaPath, ChunkEntry, Path, ChunkStates

LEMMA TypeInit == Init => TypeOK
<1> SUFFICES ASSUME Init
             PROVE  TypeOK
  OBVIOUS
<1>1. registered \in BOOLEAN /\ marker \in BOOLEAN /\ changed \in BOOLEAN
  BY Zenon DEF Init
<1>2. puts \in 0..MaxPuts /\ fails \in 0..MaxFails /\ active \in Nat
  BY BoundAssumption DEF Init
<1> QED
  BY <1>1, <1>2 DEF Init, TypeOK, Phases

LEMMA TypePutBegin ==
  ASSUME TypeOK, NEW stamps \in SUBSET Ts, NEW first \in stamps, NEW last \in stamps,
         PutBegin(first, last, stamps)
  PROVE  TypeOK'
<1> DEFINE m == MonthOf[first]
           tracked == InMonth(manifest, m)
           rows == {[ts |-> t, ver |-> puts + 1] : t \in stamps}
<1>1. m \in Months /\ first \in Ts /\ last \in Ts
  BY MonthAssumption
<1>2. puts + 1 \in 1..MaxPuts /\ puts' \in 0..MaxPuts
  BY BoundAssumption DEF PutBegin, TypeOK
<1>3. rows \in SUBSET Row
  BY <1>2 DEF Row
<1>4. PICK g \in NextGeneration(tracked), i \in NextChunkId(manifest) :
        out' = {PutEntry(m, tracked, g, i, first, last, rows)}
  BY DEF PutBegin
<1>5. g \in Nat /\ i \in Nat
  BY NextGenerationIsNew, NextChunkIdIsNew, InMonthEntries DEF TypeOK
<1>6. out' \subseteq ChunkEntry
  BY <1>1, <1>3, <1>4, <1>5, PutEntryType
<1> QED
  BY <1>1, <1>2, <1>3, <1>6 DEF PutBegin, TypeOK, Phases

LEMMA TypeMergeMark ==
  ASSUME TypeOK, MergeMark
  PROVE  TypeOK'
<1> DEFINE sources == InMonth(manifest, month)
<1>1. sources \in SUBSET ChunkEntry
  BY InMonthEntries DEF TypeOK
<1>2. manifest' \subseteq ChunkEntry
  BY <1>1 DEF MergeMark, TypeOK, ChunkEntry, ChunkStates
<1>3. todo' \subseteq File
  BY <1>1, FileOfEntry DEF MergeMark
<1>4. PICK g \in NextGeneration(sources), i \in NextChunkId(manifest), lo, hi \in sources :
        out' = {MergedEntry(sources, g, i, lo.start, hi.end)}
  BY DEF MergeMark
<1>5. g \in Nat /\ i \in Nat
  BY <1>1, NextGenerationIsNew, NextChunkIdIsNew DEF TypeOK
<1>6. lo.start \in Ts /\ hi.end \in Ts
  BY <1>1 DEF ChunkEntry
<1>7. out' \subseteq ChunkEntry
  BY <1>1, <1>4, <1>5, <1>6, RowsOfType
     DEF MergedEntry, MergedPath, MergeOutputState, ChunkEntry, Path, ChunkStates, TypeOK
<1> QED
  BY <1>2, <1>3, <1>7 DEF MergeMark, TypeOK, Phases, durable, callers, counted

LEMMA TypeRecover ==
  ASSUME TypeOK, RecoverBegin \/ RecoverCandidate \/ RecoverSave \/ RecoverClear
  PROVE  TypeOK'
<1>1. CASE RecoverBegin
  BY <1>1, NormalizeType DEF RecoverBegin, TypeOK, Phases, durable, callers, counted
<1>2. CASE RecoverCandidate
  BY <1>2, AdoptType DEF RecoverCandidate, TypeOK, Phases, durable, callers, counted
<1>3. CASE RecoverSave
  BY <1>3, ActiveChunkIdType DEF RecoverSave, TypeOK, Phases, callers, counted
<1>4. CASE RecoverClear
  BY <1>4 DEF RecoverClear, TypeOK, Phases, callers, counted
<1> QED
  BY <1>1, <1>2, <1>3, <1>4

LEMMA TypeNext == TypeOK /\ [Next]_vars => TypeOK'
<1> SUFFICES ASSUME TypeOK, [Next]_vars
             PROVE  TypeOK'
  OBVIOUS
<1> USE DEF durable, callers, counted
<1>1. CASE RegisterBegin \/ RegisterSave
  BY <1>1 DEF RegisterBegin, RegisterSave, TypeOK, Phases
<1>2. ASSUME NEW stamps \in SUBSET Ts, NEW first \in stamps, NEW last \in stamps,
             PutBegin(first, last, stamps)
      PROVE  TypeOK'
  BY <1>2, TypePutBegin
<1>3. CASE PutWriteChunk \/ MergeWriteChunk
  BY <1>3, FileOfEntry DEF PutWriteChunk, MergeWriteChunk, WriteChunk, TypeOK, Phases
<1>4. CASE PutSaveManifest
  BY <1>4 DEF PutSaveManifest, UpsertChunk, TypeOK, Phases, ChunkEntry
<1>5. ASSUME NEW m \in Months, MergeBegin(m)
      PROVE  TypeOK'
  BY <1>5 DEF MergeBegin, TypeOK, Phases
<1>6. CASE MergeUnregistered \/ MergeNothing
  BY <1>6 DEF MergeUnregistered, MergeNothing, TypeOK, Phases
<1>7. CASE MergeMark
  BY <1>7, TypeMergeMark
<1>8. CASE MergeSaveManifest
  <2>1. manifest' \subseteq ChunkEntry
    BY <1>8 DEF MergeSaveManifest, ReplaceMonth, TypeOK
  <2> QED
    BY <1>8, <2>1, ActiveChunkIdType DEF MergeSaveManifest, TypeOK, Phases
<1>9. CASE RemoveObsolete \/ CleanupDone
  BY <1>9 DEF RemoveObsolete, CleanupDone, TypeOK, Phases
<1>10. CASE CommitMarker
  BY <1>10 DEF CommitMarker, TypeOK, Phases
<1>11. CASE RecoverBegin \/ RecoverCandidate \/ RecoverSave \/ RecoverClear
  BY <1>11, TypeRecover
<1>12. CASE Fail
  <2>1. fails' \in 0..MaxFails
    BY <1>12, BoundAssumption DEF Fail, TypeOK
  <2>2. changed' \in BOOLEAN /\ out' = {} /\ meta' = {} /\ todo' = {}
    BY <1>12, Zenon DEF Fail
  <2> QED
    BY <1>12, <2>1, <2>2 DEF Fail, TypeOK, Phases
<1>13. CASE UNCHANGED vars
  BY <1>13 DEF vars, TypeOK
<1> QED
  BY <1>1, <1>2, <1>3, <1>4, <1>5, <1>6, <1>7, <1>8, <1>9, <1>10, <1>11, <1>12, <1>13
     DEF Next, Step

\* Every variable keeps its shape through puts, merges, recoveries and failures.
THEOREM TypeCorrect == Spec => []TypeOK
BY TypeInit, TypeNext, PTL DEF Spec

(***************************************************************************)
(* The shape of chunks and entries                                         *)
(***************************************************************************)
\* Chunks of different months do not overlap: month_key is monotone.
LEMMA OverlapInMonth ==
  ASSUME NEW c, NEW d, c.start \in Ts, c.end \in Ts, d.start \in Ts, d.end \in Ts,
         GoodChunk(c), GoodChunk(d), RangesOverlap(c, d)
  PROVE  c.path.month = d.path.month
<1>1. c.start \in Int /\ c.end \in Int /\ d.start \in Int /\ d.end \in Int
  BY TsAssumption
<1>2. c.start <= d.end /\ d.start <= c.end
  BY <1>1 DEF RangesOverlap
<1>3. CASE c.start <= d.start
  <2>1. MonthOf[d.start] = MonthOf[c.start]
    BY <1>2, <1>3, MonthAssumption DEF GoodChunk
  <2> QED
    BY <2>1 DEF GoodChunk
<1>4. CASE d.start <= c.start
  <2>1. MonthOf[c.start] = MonthOf[d.start]
    BY <1>2, <1>4, MonthAssumption DEF GoodChunk
  <2> QED
    BY <2>1 DEF GoodChunk
<1> QED
  BY <1>1, <1>3, <1>4

LEMMA GoodFileOf ==
  ASSUME NEW c \in ChunkEntry
  PROVE  GoodChunk(FileOf(c)) <=> GoodChunk(c)
BY FileOfEntry DEF GoodChunk

LEMMA WithinTransitive ==
  ASSUME NEW c, NEW d, NEW e, Within(c, d), Within(d, e),
         c.gen \in Nat, d.gen \in Nat, e.gen \in Nat,
         c.start \in Ts, d.start \in Ts, e.start \in Ts,
         c.end \in Ts, d.end \in Ts, e.end \in Ts
  PROVE  Within(c, e)
<1>1. /\ c.start \in Int /\ d.start \in Int /\ e.start \in Int
      /\ c.end \in Int /\ d.end \in Int /\ e.end \in Int
  BY TsAssumption
<1> QED
  BY <1>1 DEF Within

LEMMA SettledImproves ==
  ASSUME NEW C \in SUBSET ChunkEntry, NEW D \in SUBSET ChunkEntry, Improves(C, D),
         NEW f \in File, Settled(f, C)
  PROVE  Settled(f, D)
<1>1. PICK c \in C : FileOf(c) = f \/ Within(f, c)
  BY DEF Settled, Tracked, Superseded
<1>2. PICK d \in D : FileOf(d) = FileOf(c) \/ Within(c, d)
  BY DEF Improves
<1>3. c \in ChunkEntry /\ d \in ChunkEntry
  OBVIOUS
<1>4. CASE FileOf(c) = f /\ FileOf(d) = FileOf(c)
  BY <1>4 DEF Settled, Tracked
<1>5. CASE FileOf(c) = f /\ Within(c, d)
  BY <1>3, <1>5, FileOfEntry DEF Settled, Superseded, Within
<1>6. CASE Within(f, c) /\ FileOf(d) = FileOf(c)
  BY <1>3, <1>6, FileOfEntry DEF Settled, Superseded, Within
<1>7. CASE Within(f, c) /\ Within(c, d)
  BY <1>3, <1>7, WithinTransitive DEF Settled, Superseded, ChunkEntry, File
<1> QED
  BY <1>1, <1>2, <1>4, <1>5, <1>6, <1>7

LEMMA ImprovesTransitive ==
  ASSUME NEW B \in SUBSET ChunkEntry, NEW C \in SUBSET ChunkEntry,
         NEW D \in SUBSET ChunkEntry, Improves(B, C), Improves(C, D)
  PROVE  Improves(B, D)
<1> SUFFICES ASSUME NEW b \in B
             PROVE  \E d \in D : FileOf(d) = FileOf(b) \/ Within(b, d)
  BY DEF Improves
<1>1. PICK c \in C : FileOf(c) = FileOf(b) \/ Within(b, c)
  BY DEF Improves
<1>2. PICK d \in D : FileOf(d) = FileOf(c) \/ Within(c, d)
  BY DEF Improves
<1>3. b \in ChunkEntry /\ c \in ChunkEntry /\ d \in ChunkEntry
  OBVIOUS
<1>4. CASE FileOf(c) = FileOf(b) /\ FileOf(d) = FileOf(c)
  BY <1>4
<1>5. CASE FileOf(c) = FileOf(b) /\ Within(c, d)
  BY <1>3, <1>5, FileOfEntry DEF Within
<1>6. CASE Within(b, c) /\ FileOf(d) = FileOf(c)
  BY <1>3, <1>6, FileOfEntry DEF Within
<1>7. CASE Within(b, c) /\ Within(c, d)
  BY <1>3, <1>7, WithinTransitive DEF ChunkEntry
<1> QED
  BY <1>1, <1>2, <1>4, <1>5, <1>6, <1>7

LEMMA ImprovesRows ==
  ASSUME NEW C \in SUBSET ChunkEntry, NEW D \in SUBSET ChunkEntry, Improves(C, D)
  PROVE  RowsOf(C) \subseteq RowsOf(D)
<1> SUFFICES ASSUME NEW r, NEW c \in C, r \in c.rows
             PROVE  \E d \in D : r \in d.rows
  BY DEF RowsOf
<1>1. PICK d \in D : FileOf(d) = FileOf(c) \/ Within(c, d)
  BY DEF Improves
<1>2. c.rows \subseteq d.rows
  BY <1>1, FileOfEntry DEF Within
<1> QED
  BY <1>2

LEMMA ImprovesSuperset ==
  ASSUME NEW C, NEW D, C \subseteq D
  PROVE  Improves(C, D)
BY DEF Improves

\* A superseded file is not the file of an entry: ranges would overlap.
LEMMA SupersededNotTracked ==
  ASSUME NEW C \in SUBSET ChunkEntry, ValidChunks(C), NEW f, Superseded(f, C),
         NEW c \in C
  PROVE  FileOf(c) # f
<1> SUFFICES ASSUME FileOf(c) = f
             PROVE  FALSE
  OBVIOUS
<1>1. PICK d \in C : Within(f, d)
  BY DEF Superseded
<1>2. c \in ChunkEntry /\ d \in ChunkEntry
  OBVIOUS
<1>3. Within(c, d)
  BY <1>1, <1>2, FileOfEntry DEF Within
<1>4. c # d
  BY <1>2, <1>3 DEF Within, ChunkEntry
<1>5. c.start \in Int /\ c.end \in Int /\ d.start \in Int /\ d.end \in Int /\ c.start <= c.end
  BY <1>2, TsAssumption DEF ChunkEntry, ValidChunks
<1>6. RangesOverlap(c, d)
  BY <1>3, <1>5 DEF Within, RangesOverlap
<1> QED
  BY <1>4, <1>6 DEF ValidChunks

(***************************************************************************)
(* What recovery does to a set of entries                                  *)
(***************************************************************************)
\* The same entries with other states.
Restated(C, D) ==
  /\ \A c \in C : \E d \in D : FileOf(d) = FileOf(c)
  /\ \A d \in D : \E c \in C : FileOf(d) = FileOf(c)
  /\ \A d, e \in D : d # e => \E a, b \in C : a # b /\ FileOf(d) = FileOf(a) /\ FileOf(e) = FileOf(b)

LEMMA RestatedKeeps ==
  ASSUME NEW C \in SUBSET ChunkEntry, NEW D \in SUBSET ChunkEntry, Restated(C, D),
         GoodEntries(C), \A d \in D : d.state # "Replaced"
  PROVE  /\ Improves(C, D)
         /\ GoodEntries(D)
         /\ \A f \in disk : Newer(f, C) => Newer(f, D)
<1>1. Improves(C, D)
  BY DEF Improves, Restated
<1>2. \A d \in D : FileOf(d) \in disk /\ d.state # "Replaced"
  BY DEF Restated, GoodEntries
<1>3. ASSUME NEW d \in D
      PROVE  d.start <= d.end
  <2>1. PICK c \in C : FileOf(d) = FileOf(c)
    BY DEF Restated
  <2> QED
    BY <2>1, FileOfEntry DEF GoodEntries, ValidChunks
<1>4. ASSUME NEW d \in D, NEW e \in D, d # e
      PROVE  ~ RangesOverlap(d, e)
  <2>1. PICK a \in C, b \in C : a # b /\ FileOf(d) = FileOf(a) /\ FileOf(e) = FileOf(b)
    BY <1>4 DEF Restated
  <2>2. ~ RangesOverlap(a, b)
    BY <2>1 DEF GoodEntries, ValidChunks
  <2>3. d.start = a.start /\ d.end = a.end /\ e.start = b.start /\ e.end = b.end
    BY <2>1, FileOfEntry
  <2> QED
    BY <2>2, <2>3 DEF RangesOverlap
<1>5. ASSUME NEW f \in disk, Newer(f, C), NEW d \in D, d.path.month = f.path.month
      PROVE  d.gen < f.gen /\ (Within(d, f) \/ d.end < f.start)
  <2>1. PICK c \in C : FileOf(d) = FileOf(c)
    BY DEF Restated
  <2>2. /\ d.path = c.path /\ d.gen = c.gen /\ d.rows = c.rows
        /\ d.start = c.start /\ d.end = c.end
    BY <2>1, FileOfEntry
  <2> QED
    BY <1>5, <2>2 DEF Newer, Within
<1> QED
  BY <1>1, <1>2, <1>3, <1>4, <1>5 DEF GoodEntries, ValidChunks, Newer

LEMMA RestateOne ==
  ASSUME NEW c \in ChunkEntry, NEW s \in ChunkStates
  PROVE  /\ [c EXCEPT !.state = s] \in ChunkEntry
         /\ FileOf([c EXCEPT !.state = s]) = FileOf(c)
         /\ [c EXCEPT !.state = s].state = s
BY DEF ChunkEntry, FileOf

\* normalize_dangling_merging_states puts every entry back in service and
\* changes nothing but states.
LEMMA NormalizeRestates ==
  ASSUME NEW C \in SUBSET ChunkEntry, NEW i, GoodEntries(C)
  PROVE  /\ Restated(C, NormalizeDangling(C, i))
         /\ Calm(NormalizeDangling(C, i))
<1> DEFINE newer(c) == {d \in C : d.path # c.path /\ d.gen > c.gen /\ RangesOverlap(d, c)}
           dangling(c) == /\ c.state = "Merging"
                          /\ Survivor(newer(c) \cup {c}) \subseteq {c}
           N(c) == IF dangling(c)
                   THEN [c EXCEPT !.state = IF i = c.id THEN "Active" ELSE "Sealed"]
                   ELSE c
           D == {N(c) : c \in C}
<1>1. NormalizeDangling(C, i) = D
  BY DEF NormalizeDangling
<1>2. ASSUME NEW c \in C
      PROVE  newer(c) = {}
  BY DEF GoodEntries, ValidChunks
<1>3. ASSUME NEW c \in C, c.state = "Merging"
      PROVE  dangling(c)
  <2>1. newer(c) \cup {c} = {c}
    BY <1>2
  <2>2. Survivor({c}) \subseteq {c}
    BY DEF Survivor
  <2> QED
    BY <1>3, <2>1, <2>2
<1>4. ASSUME NEW c \in C
      PROVE  /\ FileOf(N(c)) = FileOf(c)
             /\ N(c).state \in {"Active", "Sealed"}
  <2>1. CASE dangling(c)
    BY <2>1, RestateOne DEF ChunkStates
  <2>2. CASE ~ dangling(c)
    BY <1>3, <2>2 DEF GoodEntries, ChunkEntry, ChunkStates
  <2> QED
    BY <2>1, <2>2
<1> HIDE DEF N
<1>5. Restated(C, D)
  <2>1. \A c \in C : \E d \in D : FileOf(d) = FileOf(c)
    BY <1>4
  <2>2. \A d \in D : \E c \in C : FileOf(d) = FileOf(c)
    BY <1>4
  <2>3. \A d, e \in D : d # e =>
          \E a, b \in C : a # b /\ FileOf(d) = FileOf(a) /\ FileOf(e) = FileOf(b)
    BY <1>4
  <2> QED
    BY <2>1, <2>2, <2>3 DEF Restated
<1>6. Calm(D)
  BY <1>4 DEF Calm
<1> QED
  BY <1>1, <1>5, <1>6

\* A candidate that recovery has not placed yet is adopted in place of the
\* entries it overlaps, all of which it contains.
LEMMA AdoptOrphan ==
  ASSUME NEW C \in SUBSET ChunkEntry, disk \subseteq File, GoodDisk, GoodEntries(C), Calm(C),
         NEW f \in disk, ~ Settled(f, C), Newer(f, C)
  PROVE  /\ AdoptCandidate(C, f) =
              (C \ {c \in C : RangesOverlap(c, Scanned(f))}) \cup {Scanned(f)}
         /\ \A c \in C : RangesOverlap(c, Scanned(f)) => Within(c, f)
<1> DEFINE cand == Scanned(f)
           overlaps == {c \in C : RangesOverlap(c, cand)}
<1>1. f \in File /\ cand \in ChunkEntry
  BY ScannedFile
<1>2. /\ cand.path = f.path /\ cand.gen = f.gen /\ cand.start = f.start /\ cand.end = f.end
      /\ cand.rows = f.rows
  BY <1>1, ScannedFile
<1> HIDE DEF cand
<1>3. cand.path \notin Paths(C)
  <2> SUFFICES ASSUME NEW c \in C, c.path = f.path
               PROVE  FALSE
    BY <1>2 DEF Paths
  <2>1. FileOf(c) = f
    BY FileOfEntry DEF GoodEntries, GoodDisk
  <2> QED
    BY <2>1 DEF Settled, Tracked
<1>4. ASSUME NEW c \in overlaps
      PROVE  Within(c, f) /\ c.gen < f.gen
  <2>1. c \in ChunkEntry /\ GoodChunk(c) /\ GoodChunk(f)
    BY GoodFileOf DEF GoodEntries, GoodDisk
  <2>2. RangesOverlap(c, f)
    BY <1>2 DEF RangesOverlap
  <2>3. c.path.month = f.path.month
    BY <1>1, <2>1, <2>2, OverlapInMonth DEF ChunkEntry, File
  <2>4. c.end \in Int /\ f.start \in Int
    BY <1>1, <2>1, TsAssumption DEF ChunkEntry, File
  <2>5. ~ (c.end < f.start)
    BY <2>2, <2>4 DEF RangesOverlap
  <2> QED
    BY <2>3, <2>5 DEF Newer
<1>5. ASSUME overlaps = {}
      PROVE  AdoptCandidate(C, f) = (C \ overlaps) \cup {cand}
  BY <1>3, <1>5 DEF AdoptCandidate, cand
<1>6. ASSUME overlaps # {}
      PROVE  AdoptCandidate(C, f) = (C \ overlaps) \cup {cand}
  <2>1. \A c \in overlaps : c.gen \in Nat /\ c.gen < cand.gen
    BY <1>2, <1>4 DEF ChunkEntry
  <2>2. cand.gen \in Nat /\ cand \notin overlaps
    BY <1>1, <2>1 DEF ChunkEntry
  <2>3. Covers(cand, overlaps \cup {cand})
    <3>1. \A c \in overlaps : cand.start <= c.start /\ cand.end >= c.end
      <4> SUFFICES ASSUME NEW c \in overlaps
                   PROVE  cand.start <= c.start /\ cand.end >= c.end
        OBVIOUS
      <4>1. c.end \in Int /\ cand.end \in Int
        BY <1>1, TsAssumption DEF ChunkEntry
      <4>2. Within(c, f)
        BY <1>4
      <4>3. cand.start <= c.start /\ c.end <= cand.end
        BY <1>2, <4>2 DEF Within
      <4> QED
        BY <4>1, <4>3
    <3>2. cand.start \in Int /\ cand.end \in Int
      BY <1>1, TsAssumption DEF ChunkEntry
    <3> QED
      BY <3>1, <3>2 DEF Covers
  <2>4. \A d \in overlaps : RanksBefore(cand, d) /\ ~ RanksBefore(d, cand)
    BY <2>1, <2>2 DEF RanksBefore
  <2>5. Survivor(overlaps \cup {cand}) = {cand}
    BY <2>2, <2>3, <2>4 DEF Survivor
  <2>6. ~ \E c \in overlaps : c.gen >= cand.gen
    BY <2>1, <2>2
  <2> HIDE DEF overlaps
  <2>7. ~ (cand.path \in Paths(C)) /\ ~ (overlaps = {})
    BY <1>3, <1>6
  <2>8. AdoptCandidate(C, f) =
          IF cand.path \in Paths(C) THEN C
          ELSE IF overlaps = {} THEN C \cup {cand}
          ELSE IF \E c \in overlaps : c.gen >= cand.gen THEN C
          ELSE IF Survivor(overlaps \cup {cand}) = {cand}
               THEN (C \ overlaps) \cup {cand}
          ELSE C
    BY Zenon DEF AdoptCandidate, cand, overlaps
  <2> QED
    BY <2>5, <2>6, <2>7, <2>8
<1>7. AdoptCandidate(C, f) = (C \ overlaps) \cup {cand}
  BY <1>5, <1>6
<1> QED
  BY <1>4, <1>7 DEF cand

(***************************************************************************)
(* Steps that leave files and manifest alone                               *)
(***************************************************************************)
LEMMA StaticParts ==
  ASSUME IInv, UNCHANGED <<disk, manifest>>
  PROVE  GoodDisk' /\ GoodEntries(manifest)' /\ AtMostOneOrphan(manifest)'
BY DEF IInv, GoodDisk, GoodEntries, AtMostOneOrphan

\* Settling every file leaves no orphan.
LEMMA SettledNoOrphan ==
  ASSUME NEW C, AllSettled(C)
  PROVE  AtMostOneOrphan(C)
BY DEF AllSettled, AtMostOneOrphan

\* begin_mutation found no marker: everything is settled.
LEMMA InvBegin ==
  ASSUME IInv, TypeOK',
         RegisterBegin \/ \E m \in Months : MergeBegin(m)
  PROVE  IInv'
<1> USE DEF callers, counted
<1>1. AllSettled(manifest) /\ Calm(manifest) /\ batch = {}
  BY DEF IInv, PhaseInv, RegisterBegin, MergeBegin, MayMutate
<1>2. UNCHANGED <<disk, manifest, acked, batch, out>> /\ marker' /\ pc' \in {"register", "merge"}
  BY DEF RegisterBegin, MergeBegin
<1>3. OutInv'
  BY <1>2 DEF IInv, OutInv, InPut, InMerge
<1>4. PhaseInv'
  BY <1>1, <1>2 DEF PhaseInv, AllSettled, Calm
<1>5. RecoverInv'
  BY <1>2 DEF RecoverInv
<1> QED
  BY <1>2, <1>3, <1>4, <1>5, StaticParts DEF IInv, VisibleRows

LEMMA InvMove ==
  ASSUME IInv, TypeOK',
         RegisterSave \/ MergeUnregistered \/ MergeNothing \/ CleanupDone \/ Fail
  PROVE  IInv'
<1> USE DEF callers, counted, durable
<1>1. UNCHANGED <<disk, manifest, acked, batch, marker>> /\ (out' = out \/ out' = {})
  BY DEF RegisterSave, MergeUnregistered, MergeNothing, CleanupDone, Fail
<1>2. \/ pc \in {"register", "merge", "cleanup"} /\ pc' = "commit"
      \/ pc' = "idle"
  BY DEF RegisterSave, MergeUnregistered, MergeNothing, CleanupDone, Fail
<1>3. OutInv'
  BY <1>1, <1>2 DEF IInv, OutInv, InPut, InMerge
<1>4. PhaseInv'
  BY <1>1, <1>2 DEF IInv, PhaseInv, AllSettled, Calm, VisibleRows
<1>5. RecoverInv'
  BY <1>2 DEF RecoverInv
<1> QED
  BY <1>1, <1>3, <1>4, <1>5, StaticParts DEF IInv, VisibleRows

LEMMA InvCommit ==
  ASSUME IInv, TypeOK', CommitMarker
  PROVE  IInv'
<1>1. UNCHANGED <<disk, manifest>> /\ pc' = "idle" /\ out' = {} /\ batch' = {}
  BY DEF CommitMarker
<1>2. AllSettled(manifest) /\ Calm(manifest) /\ batch \subseteq VisibleRows
  BY DEF IInv, PhaseInv, CommitMarker
<1>3. OutInv'
  BY <1>1 DEF OutInv, InPut, InMerge
<1>4. PhaseInv'
  BY <1>1, <1>2 DEF PhaseInv, AllSettled, Calm
<1>5. RecoverInv'
  BY <1>1 DEF RecoverInv
<1>6. acked' \subseteq VisibleRows'
  BY <1>1, <1>2 DEF CommitMarker, IInv, VisibleRows
<1> QED
  BY <1>1, <1>3, <1>4, <1>5, <1>6, StaticParts DEF IInv

(***************************************************************************)
(* put_kline_chunk                                                         *)
(***************************************************************************)
\* The chunk of an accepted batch is well formed.
LEMMA PutEntryGood ==
  ASSUME NEW stamps \in SUBSET Ts, NEW first \in stamps, NEW last \in stamps,
         \A t \in stamps : first <= t /\ t <= last, MonthOf[last] = MonthOf[first],
         NEW tracked, NEW g, NEW i, NEW v, NEW rows,
         rows = {[ts |-> t, ver |-> v] : t \in stamps}
  PROVE  GoodChunk(PutEntry(MonthOf[first], tracked, g, i, first, last, rows))
<1> DEFINE e == PutEntry(MonthOf[first], tracked, g, i, first, last, rows)
<1>1. /\ e.start = first /\ e.end = last /\ e.gen = g /\ e.rows = rows
      /\ e.path.month = MonthOf[first]
      /\ e.path.kind # "base" => e.path.gen = g
  BY DEF PutEntry, BasePath, DeltaPath
<1>2. \A r \in rows : r.ts \in stamps
  OBVIOUS
<1>3. \A r, s \in rows : r.ts = s.ts => r = s
  OBVIOUS
<1> HIDE DEF e
<1>4. GoodChunk(e)
  BY <1>1, <1>2, <1>3 DEF GoodChunk
<1> QED
  BY <1>4 DEF e

LEMMA InvPutBegin ==
  ASSUME IInv, TypeOK', NEW stamps \in SUBSET Ts, NEW first \in stamps, NEW last \in stamps,
         PutBegin(first, last, stamps)
  PROVE  IInv'
<1> DEFINE m == MonthOf[first]
           tracked == InMonth(manifest, m)
           rows == {[ts |-> t, ver |-> puts + 1] : t \in stamps}
<1>1. AllSettled(manifest) /\ Calm(manifest)
  BY DEF IInv, PhaseInv, PutBegin, MayMutate
<1>2. /\ UNCHANGED <<disk, manifest, acked>> /\ marker' /\ pc' = "put_chunk"
      /\ month' = m /\ batch' = rows
  BY DEF PutBegin
<1>3. PICK g \in NextGeneration(tracked), i \in NextChunkId(manifest) :
        out' = {PutEntry(m, tracked, g, i, first, last, rows)}
  BY DEF PutBegin
<1> DEFINE e == PutEntry(m, tracked, g, i, first, last, rows)
<1>4. GoodChunk(e)
  <2>1. (\A t \in stamps : first <= t /\ t <= last) /\ MonthOf[last] = MonthOf[first]
    BY DEF PutBegin
  <2> QED
    BY <2>1, PutEntryGood, Zenon
<1>5. (\A c \in tracked : c.gen < g) /\ \A c \in manifest : c.id < i
  BY NextGenerationIsNew, NextChunkIdIsNew, InMonthEntries DEF IInv, TypeOK
<1>6. /\ e.path.month = m /\ e.state \in {"Active", "Sealed"} /\ e.gen = g /\ e.id = i
      /\ e.start = first /\ e.rows = rows
  BY DEF PutEntry, BasePath, DeltaPath
<1>7. \A c \in tracked : c.end < first
  BY DEF PutBegin
<1> HIDE DEF e, rows
<1>8. out' = {e}
  BY <1>3 DEF e, rows
<1>9. OutInv'
  BY <1>2, <1>4, <1>5, <1>6, <1>7, <1>8 DEF OutInv, InPut, InMerge
<1>10. PhaseInv'
  BY <1>1, <1>2 DEF PhaseInv, AllSettled, Calm
<1>11. RecoverInv'
  BY <1>2 DEF RecoverInv
<1> QED
  BY <1>2, <1>9, <1>10, <1>11, StaticParts DEF IInv, VisibleRows

(***************************************************************************)
(* Publishing a chunk adds the one file that is not settled                *)
(***************************************************************************)
LEMMA InvWriteChunk ==
  ASSUME IInv, TypeOK', PutWriteChunk \/ MergeWriteChunk
  PROVE  IInv'
<1> USE DEF callers, counted
<1>1. PICK e \in out : e.path \notin Paths(disk) /\ disk' = disk \cup {FileOf(e)}
  BY DEF PutWriteChunk, MergeWriteChunk, WriteChunk
<1>2. /\ UNCHANGED <<manifest, marker, month, out, todo, batch, acked>>
      /\ \/ pc = "put_chunk" /\ pc' = "put_manifest"
         \/ pc = "merge_chunk" /\ pc' = "merge_manifest"
  BY DEF PutWriteChunk, MergeWriteChunk
<1>3. e \in ChunkEntry /\ out = {e}
  BY DEF IInv, TypeOK, OutInv
<1>4. GoodChunk(e) /\ e.path.month = month
  BY <1>2 DEF IInv, OutInv, InPut, InMerge
<1> DEFINE f == FileOf(e)
<1>5. f.path = e.path /\ f.gen = e.gen /\ f.start = e.start /\ f.end = e.end /\ f.rows = e.rows
  BY <1>3, FileOfEntry
<1> HIDE DEF f
<1>6. disk' = disk \cup {f}
  BY <1>1 DEF f
<1>7. GoodDisk'
  <2>1. GoodChunk(f)
    BY <1>3, <1>4, GoodFileOf DEF f
  <2> QED
    BY <1>1, <1>5, <1>6, <2>1 DEF IInv, GoodDisk, Paths
<1>8. GoodEntries(manifest)'
  BY <1>2, <1>6 DEF IInv, GoodEntries
<1>9. AllSettled(manifest)
  BY <1>2 DEF IInv, PhaseInv
<1>10. Newer(f, manifest)
  BY <1>2, <1>4, <1>5 DEF IInv, OutInv, InPut, InMerge, Newer, InMonth, Within
<1>11. AtMostOneOrphan(manifest)'
  BY <1>2, <1>6, <1>9, <1>10 DEF AtMostOneOrphan, AllSettled
<1>12. OutInv'
  <2>1. \A h \in disk' : Settled(h, manifest) \/ FileOf(e) = h
    BY <1>6, <1>9 DEF AllSettled, f
  <2>2. InPut <=> InPut'
    BY <1>2 DEF InPut
  <2>3. InMerge <=> InMerge'
    BY <1>2 DEF InMerge
  <2> QED
    BY <1>1, <1>2, <1>3, <2>1, <2>2, <2>3 DEF IInv, OutInv
<1>13. PhaseInv'
  BY <1>2 DEF IInv, PhaseInv, Calm, VisibleRows
<1>14. RecoverInv'
  BY <1>2 DEF RecoverInv
<1> QED
  BY <1>2, <1>7, <1>8, <1>11, <1>12, <1>13, <1>14 DEF IInv, VisibleRows

(***************************************************************************)
(* A saved manifest in which everything is settled                         *)
(***************************************************************************)
LEMMA SaveSettles ==
  ASSUME IInv, TypeOK', Improves(manifest, manifest'),
         disk' = disk, acked' = acked,
         \A c \in manifest' : FileOf(c) \in disk /\ c.state # "Replaced",
         ValidChunks(manifest'),
         \A f \in disk : Settled(f, manifest) \/ Settled(f, manifest')
  PROVE  /\ GoodDisk' /\ GoodEntries(manifest)' /\ AtMostOneOrphan(manifest)'
         /\ AllSettled(manifest)'
         /\ VisibleRows \subseteq VisibleRows'
         /\ (acked \subseteq VisibleRows)'
<1>1. /\ manifest \in SUBSET ChunkEntry /\ manifest' \in SUBSET ChunkEntry
      /\ disk \subseteq File
  BY DEF IInv, TypeOK
<1>2. GoodDisk'
  BY DEF IInv, GoodDisk
<1>3. GoodEntries(manifest)'
  BY DEF GoodEntries
<1>4. \A f \in disk : Settled(f, manifest')
  BY <1>1, SettledImproves
<1>5. AllSettled(manifest)' /\ AtMostOneOrphan(manifest)'
  BY <1>4 DEF AllSettled, AtMostOneOrphan
<1>6. VisibleRows \subseteq VisibleRows'
  BY <1>1, ImprovesRows DEF VisibleRows
<1> QED
  BY <1>2, <1>3, <1>5, <1>6 DEF IInv

LEMMA InvPutSave ==
  ASSUME IInv, TypeOK', PutSaveManifest
  PROVE  IInv' /\ VisibleRows \subseteq VisibleRows'
<1> USE DEF callers, counted
<1>1. PICK e \in out : manifest' = UpsertChunk(manifest, e)
  BY DEF PutSaveManifest
<1>2. /\ UNCHANGED <<disk, marker, month, out, todo, batch, acked>> /\ pc = "put_manifest"
      /\ pc' \in {"merge", "commit"} /\ ValidChunks(manifest')
  BY DEF PutSaveManifest
<1>3. e \in ChunkEntry /\ out = {e}
  BY DEF IInv, TypeOK, OutInv
<1>4. /\ \A c \in manifest : c.id < e.id
      /\ FileOf(e) \in disk /\ e.state \in {"Active", "Sealed"} /\ e.rows = batch
      /\ \A f \in disk : Settled(f, manifest) \/ FileOf(e) = f
  BY <1>2, <1>3 DEF IInv, OutInv, InPut
<1>5. manifest' = manifest \cup {e}
  BY <1>1, <1>3, <1>4 DEF UpsertChunk, IInv, TypeOK, ChunkEntry
<1>6. Improves(manifest, manifest')
  BY <1>5, ImprovesSuperset
<1>7. \A c \in manifest' : FileOf(c) \in disk /\ c.state # "Replaced"
  BY <1>4, <1>5 DEF IInv, GoodEntries
<1>8. \A f \in disk : Settled(f, manifest) \/ Settled(f, manifest')
  BY <1>4, <1>5 DEF Settled, Tracked
<1>9. /\ GoodDisk' /\ GoodEntries(manifest)' /\ AtMostOneOrphan(manifest)'
      /\ AllSettled(manifest)' /\ (acked \subseteq VisibleRows)'
      /\ VisibleRows \subseteq VisibleRows'
  BY <1>2, <1>6, <1>7, <1>8, SaveSettles
<1>10. Calm(manifest)'
  BY <1>2, <1>4, <1>5 DEF IInv, PhaseInv, Calm
<1>11. (batch \subseteq VisibleRows)'
  BY <1>2, <1>4, <1>5 DEF VisibleRows, RowsOf
<1>12. PhaseInv'
  <2>1. marker'
    BY <1>2 DEF IInv, PhaseInv
  <2> QED
    BY <1>2, <1>9, <1>10, <1>11, <2>1 DEF PhaseInv
<1>13. OutInv'
  BY <1>2 DEF IInv, OutInv, InPut, InMerge
<1>14. RecoverInv'
  BY <1>2 DEF RecoverInv
<1> QED
  BY <1>9, <1>12, <1>13, <1>14 DEF IInv

(***************************************************************************)
(* merge_kline_month                                                       *)
(***************************************************************************)
\* Setting the sources to Merging only restates the manifest.
LEMMA MarkRestates ==
  ASSUME NEW C \in SUBSET ChunkEntry, NEW S \in SUBSET C
  PROVE  Restated(C, (C \ S) \cup {[c EXCEPT !.state = "Merging"] : c \in S})
<1> DEFINE M(c) == [c EXCEPT !.state = "Merging"]
           D == (C \ S) \cup {M(c) : c \in S}
<1>1. \A c \in C : FileOf(M(c)) = FileOf(c)
  BY RestateOne DEF ChunkStates
<1> HIDE DEF M
<1>2. \A c \in C : \E d \in D : FileOf(d) = FileOf(c)
  BY <1>1
<1>3. \A d \in D : \E c \in C : FileOf(d) = FileOf(c)
  BY <1>1
<1>4. \A d, e \in D : d # e =>
        \E a, b \in C : a # b /\ FileOf(d) = FileOf(a) /\ FileOf(e) = FileOf(b)
  BY <1>1
<1>5. Restated(C, D)
  BY <1>2, <1>3, <1>4 DEF Restated
<1> QED
  BY <1>5 DEF M

\* The merged chunk of disjoint good chunks of one month is good and contains them.
LEMMA MergedGood ==
  ASSUME NEW S \in SUBSET ChunkEntry, \A c \in S : GoodChunk(c) /\ c.path.month = month,
         ValidChunks(S), NEW lo \in S, NEW hi \in S,
         \A c \in S : lo.start <= c.start /\ c.end <= hi.end,
         NEW g \in Nat, \A c \in S : c.gen < g, NEW i
  PROVE  LET e == MergedEntry(S, g, i, lo.start, hi.end)
         IN  /\ GoodChunk(e) /\ e.path.month = month /\ e.state \in {"Active", "Sealed"}
             /\ \A c \in S : Within(c, e)
<1> DEFINE e == MergedEntry(S, g, i, lo.start, hi.end)
<1>1. /\ e.start = lo.start /\ e.end = hi.end /\ e.gen = g /\ e.rows = RowsOf(S)
      /\ e.path = MergedPath(month, g) /\ e.state \in {"Active", "Sealed"}
  BY DEF MergedEntry, MergeOutputState
<1>2. e.path.month = month /\ e.path.gen = g
  BY <1>1 DEF MergedPath
<1> HIDE DEF e
<1>3. \A c \in S : c.start \in Int /\ c.end \in Int
  BY TsAssumption DEF ChunkEntry
<1>4. \A c \in S : c.rows \subseteq e.rows
  BY <1>1 DEF RowsOf
<1>5. \A c \in S : Within(c, e)
  BY <1>1, <1>4 DEF Within
<1>6. lo.start <= hi.end
  <2>1. lo.start <= lo.end /\ lo.end <= hi.end
    BY DEF GoodChunk
  <2> QED
    BY <1>3, <2>1
<1>7. ASSUME NEW r \in e.rows
      PROVE  e.start <= r.ts /\ r.ts <= e.end
  <2>1. PICK c \in S : r \in c.rows
    BY <1>1, <1>7 DEF RowsOf
  <2>2. r.ts \in Int
    BY <2>1, TsAssumption DEF ChunkEntry, Row
  <2>3. c.start <= r.ts /\ r.ts <= c.end
    BY <2>1 DEF GoodChunk
  <2>4. lo.start <= c.start /\ c.end <= hi.end
    OBVIOUS
  <2> QED
    BY <1>1, <1>3, <2>2, <2>3, <2>4
<1>8. ASSUME NEW r \in e.rows, NEW s \in e.rows, r.ts = s.ts
      PROVE  r = s
  <2>1. PICK c \in S : r \in c.rows
    BY <1>1, <1>8 DEF RowsOf
  <2>2. PICK d \in S : s \in d.rows
    BY <1>1, <1>8 DEF RowsOf
  <2>3. c.start <= r.ts /\ r.ts <= c.end /\ d.start <= r.ts /\ r.ts <= d.end
    BY <1>8, <2>1, <2>2 DEF GoodChunk
  <2>4. r.ts \in Int
    BY <2>1, TsAssumption DEF ChunkEntry, Row
  <2>5. RangesOverlap(c, d)
    BY <1>3, <2>3, <2>4 DEF RangesOverlap
  <2>6. c = d
    BY <2>5 DEF ValidChunks
  <2> QED
    BY <1>8, <2>1, <2>2, <2>6 DEF GoodChunk
<1>9. GoodChunk(e)
  BY <1>1, <1>2, <1>6, <1>7, <1>8 DEF GoodChunk
<1> QED
  BY <1>1, <1>2, <1>5, <1>9 DEF e

LEMMA GoodManifest ==
  ASSUME IInv, NEW c \in manifest
  PROVE  c \in ChunkEntry /\ GoodChunk(c)
BY GoodFileOf DEF IInv, TypeOK, GoodEntries, GoodDisk

LEMMA InvMergeMark ==
  ASSUME IInv, TypeOK', MergeMark
  PROVE  IInv' /\ VisibleRows \subseteq VisibleRows'
<1> USE DEF callers, counted
<1> DEFINE S == InMonth(manifest, month)
           Marked == {[c EXCEPT !.state = "Merging"] : c \in S}
<1>1. /\ UNCHANGED <<disk, marker, month, batch, acked>> /\ pc = "merge"
      /\ pc' = "merge_chunk" /\ manifest' = (manifest \ S) \cup Marked
      /\ todo' = {FileOf(c) : c \in S}
  BY DEF MergeMark
<1>2. /\ manifest \in SUBSET ChunkEntry /\ manifest' \in SUBSET ChunkEntry
      /\ S \in SUBSET manifest
  BY DEF IInv, TypeOK, InMonth
<1>3. \A d \in Marked : \E c \in S : FileOf(d) = FileOf(c) /\ d.state = "Merging"
  <2> SUFFICES ASSUME NEW c \in S
               PROVE  /\ FileOf([c EXCEPT !.state = "Merging"]) = FileOf(c)
                      /\ [c EXCEPT !.state = "Merging"].state = "Merging"
    OBVIOUS
  <2>1. c \in ChunkEntry /\ "Merging" \in ChunkStates
    BY <1>2 DEF ChunkStates
  <2> QED
    BY <2>1, RestateOne
<1> HIDE DEF Marked
<1>4. Restated(manifest, manifest')
  BY <1>1, <1>2, MarkRestates DEF Marked
<1>5. \A d \in manifest' : d.state # "Replaced"
  BY <1>1, <1>3 DEF IInv, GoodEntries
<1>6. Improves(manifest, manifest') /\ GoodEntries(manifest')
  BY <1>2, <1>4, <1>5, RestatedKeeps DEF IInv
<1>7. /\ GoodDisk' /\ GoodEntries(manifest)' /\ AtMostOneOrphan(manifest)'
      /\ AllSettled(manifest)' /\ (acked \subseteq VisibleRows)'
      /\ VisibleRows \subseteq VisibleRows'
  <2>1. \A c \in manifest' : FileOf(c) \in disk /\ c.state # "Replaced"
    BY <1>6 DEF GoodEntries
  <2>2. ValidChunks(manifest')
    BY <1>6 DEF GoodEntries
  <2>3. \A f \in disk : Settled(f, manifest)
    BY <1>1 DEF IInv, PhaseInv, AllSettled
  <2> QED
    BY <1>1, <1>6, <2>1, <2>2, <2>3, SaveSettles
<1>8. PICK g \in NextGeneration(S), i \in NextChunkId(manifest), lo, hi \in S :
        /\ \A c \in S : lo.start <= c.start /\ c.end <= hi.end
        /\ out' = {MergedEntry(S, g, i, lo.start, hi.end)}
  BY DEF MergeMark
<1> DEFINE e == MergedEntry(S, g, i, lo.start, hi.end)
<1>9. g \in Nat /\ \A c \in S : c.gen < g
  BY <1>2, NextGenerationIsNew
<1>10. /\ GoodChunk(e) /\ e.path.month = month /\ e.state \in {"Active", "Sealed"}
       /\ \A c \in S : Within(c, e)
  <2>1. S \in SUBSET ChunkEntry /\ \A c \in S : GoodChunk(c) /\ c.path.month = month
    BY <1>2, GoodManifest DEF InMonth
  <2>2. ValidChunks(S)
    BY <1>2 DEF IInv, GoodEntries, ValidChunks
  <2> QED
    BY <1>8, <1>9, <2>1, <2>2, MergedGood
<1> HIDE DEF e
<1>11. out' = {e}
  BY <1>8 DEF e
<1>12. \A d \in manifest' : \/ d \in manifest /\ d.path.month # month
                            \/ \E c \in S : FileOf(d) = FileOf(c)
  BY <1>1, <1>3 DEF InMonth
<1>13. \A d \in InMonth(manifest', month) : Within(d, e)
  <2> SUFFICES ASSUME NEW d \in manifest', d.path.month = month
               PROVE  Within(d, e)
    BY DEF InMonth
  <2>1. PICK c \in S : FileOf(d) = FileOf(c)
    BY <1>12
  <2>2. d.gen = c.gen /\ d.start = c.start /\ d.end = c.end /\ d.rows = c.rows
    BY <1>2, <2>1, FileOfEntry
  <2> QED
    BY <1>10, <2>2 DEF Within
<1>14. \A f \in todo' : \E d \in InMonth(manifest', month) : FileOf(d) = f
  <2> SUFFICES ASSUME NEW c \in S
               PROVE  \E d \in manifest' : d.path.month = month /\ FileOf(d) = FileOf(c)
    BY <1>1 DEF InMonth
  <2>1. PICK d \in manifest' : FileOf(d) = FileOf(c)
    BY <1>2, <1>4 DEF Restated
  <2>2. d.path = c.path
    BY <1>2, <2>1, FileOfEntry
  <2> QED
    BY <2>1, <2>2 DEF InMonth
<1>15. \A d \in manifest' : d.path.month # month => d.state \in {"Active", "Sealed"}
  <2> SUFFICES ASSUME NEW d \in manifest', d.path.month # month
               PROVE  d.state \in {"Active", "Sealed"}
    OBVIOUS
  <2>1. d \in manifest
    <3>1. ASSUME NEW c \in S, FileOf(d) = FileOf(c)
          PROVE  FALSE
      BY <1>2, <3>1, FileOfEntry DEF InMonth
    <3> QED
      BY <1>12, <3>1
  <2> QED
    BY <1>1, <2>1 DEF IInv, PhaseInv, Calm
<1>16. OutInv'
  BY <1>1, <1>10, <1>11, <1>13, <1>14, <1>15 DEF OutInv, InPut, InMerge
<1>17. PhaseInv'
  <2>1. marker' /\ (batch \subseteq VisibleRows)'
    BY <1>1, <1>7 DEF IInv, PhaseInv
  <2> QED
    BY <1>1, <1>7, <2>1 DEF PhaseInv
<1>18. RecoverInv'
  BY <1>1 DEF RecoverInv
<1> QED
  BY <1>7, <1>16, <1>17, <1>18 DEF IInv

LEMMA InvMergeSave ==
  ASSUME IInv, TypeOK', MergeSaveManifest
  PROVE  IInv' /\ VisibleRows \subseteq VisibleRows'
<1> USE DEF callers, counted
<1>1. PICK e \in out : manifest' = ReplaceMonth(manifest, month, e)
  BY DEF MergeSaveManifest
<1>2. /\ UNCHANGED <<disk, marker, month, out, todo, batch, acked>> /\ pc = "merge_manifest"
      /\ pc' = "cleanup" /\ ValidChunks(manifest')
  BY DEF MergeSaveManifest
<1>3. e \in ChunkEntry /\ out = {e}
  BY DEF IInv, TypeOK, OutInv
<1>4. /\ e.state \in {"Active", "Sealed"} /\ FileOf(e) \in disk
      /\ \A c \in manifest : c.path.month = month => Within(c, e)
      /\ \A c \in manifest : c.path.month # month => c.state \in {"Active", "Sealed"}
      /\ \A f \in disk : Settled(f, manifest) \/ FileOf(e) = f
      /\ \A f \in todo : \E c \in manifest : c.path.month = month /\ FileOf(c) = f
  BY <1>2, <1>3 DEF IInv, OutInv, InMerge, InMonth
<1>5. manifest' = {c \in manifest : c.path.month # month} \cup {e}
  BY <1>1 DEF ReplaceMonth, InMonth
<1>6. Improves(manifest, manifest')
  BY <1>4, <1>5 DEF Improves
<1>7. \A c \in manifest' : FileOf(c) \in disk /\ c.state # "Replaced"
  BY <1>4, <1>5 DEF IInv, GoodEntries
<1>8. \A f \in disk : Settled(f, manifest) \/ Settled(f, manifest')
  BY <1>4, <1>5 DEF Settled, Tracked
<1>9. /\ GoodDisk' /\ GoodEntries(manifest)' /\ AtMostOneOrphan(manifest)'
      /\ AllSettled(manifest)' /\ (acked \subseteq VisibleRows)'
      /\ VisibleRows \subseteq VisibleRows'
  BY <1>2, <1>6, <1>7, <1>8, SaveSettles
<1>10. Calm(manifest)'
  BY <1>4, <1>5 DEF Calm
<1>11. ASSUME NEW f \in todo
       PROVE  Superseded(f, manifest')
  <2>1. PICK c \in manifest : c.path.month = month /\ FileOf(c) = f
    BY <1>4
  <2>2. c \in ChunkEntry
    BY DEF IInv, TypeOK
  <2>3. Within(f, e)
    BY <1>4, <2>1, <2>2, FileOfEntry DEF Within
  <2> QED
    BY <1>5, <2>3 DEF Superseded
<1>12. PhaseInv'
  <2>1. marker' /\ (batch \subseteq VisibleRows)'
    BY <1>2, <1>9 DEF IInv, PhaseInv
  <2> QED
    BY <1>2, <1>9, <1>10, <1>11, <2>1 DEF PhaseInv
<1>13. OutInv'
  BY <1>2 DEF IInv, OutInv, InPut, InMerge
<1>14. RecoverInv'
  BY <1>2 DEF RecoverInv
<1> QED
  BY <1>9, <1>12, <1>13, <1>14 DEF IInv

\* Cleanup removes superseded files only.
LEMMA InvRemove ==
  ASSUME IInv, TypeOK', RemoveObsolete
  PROVE  IInv'
<1> USE DEF callers, counted
<1>1. PICK f \in todo : disk' \in {disk, disk \ {f}} /\ todo' = todo \ {f}
  BY DEF RemoveObsolete
<1>2. UNCHANGED <<manifest, marker, month, out, batch, acked, pc>> /\ pc = "cleanup"
  BY DEF RemoveObsolete
<1>3. Superseded(f, manifest) /\ AllSettled(manifest)
  BY <1>2 DEF IInv, PhaseInv
<1>4. \A c \in manifest : FileOf(c) # f
  BY <1>3, SupersededNotTracked DEF IInv, TypeOK, GoodEntries
<1>5. GoodDisk' /\ GoodEntries(manifest)'
  BY <1>1, <1>2, <1>4 DEF IInv, GoodDisk, GoodEntries
<1>6. AllSettled(manifest)' /\ AtMostOneOrphan(manifest)'
  BY <1>1, <1>2, <1>3 DEF AllSettled, AtMostOneOrphan
<1>7. PhaseInv'
  BY <1>1, <1>2, <1>6 DEF IInv, PhaseInv, Calm, VisibleRows
<1>8. OutInv'
  BY <1>2 DEF IInv, OutInv, InPut, InMerge
<1>9. RecoverInv'
  BY <1>2 DEF RecoverInv
<1> QED
  BY <1>2, <1>5, <1>6, <1>7, <1>8, <1>9 DEF IInv, VisibleRows

(***************************************************************************)
(* Recovery                                                                *)
(***************************************************************************)
LEMMA InvRecoverBegin ==
  ASSUME IInv, TypeOK', RecoverBegin
  PROVE  IInv'
<1> USE DEF callers, counted, durable
<1>1. /\ UNCHANGED <<disk, manifest, marker, month, out, batch, acked>> /\ pc' = "recover"
      /\ pc = "idle" /\ todo' = disk /\ meta' = NormalizeDangling(manifest, active)
      /\ ~ changed' => meta' = manifest
  BY DEF RecoverBegin
<1>2. /\ manifest \in SUBSET ChunkEntry /\ meta' \in SUBSET ChunkEntry /\ disk \subseteq File
      /\ GoodEntries(manifest)
  BY DEF IInv, TypeOK
<1>3. Restated(manifest, meta') /\ Calm(meta')
  BY <1>1, <1>2, NormalizeRestates
<1>4. \A d \in meta' : d.state # "Replaced"
  BY <1>3 DEF Calm
<1>5. /\ Improves(manifest, meta') /\ GoodEntries(meta')
      /\ \A f \in disk : Newer(f, manifest) => Newer(f, meta')
  BY <1>2, <1>3, <1>4, RestatedKeeps
<1>6. \A f \in disk : Settled(f, manifest) => Settled(f, meta')
  BY <1>2, <1>5, SettledImproves
<1>7. AtMostOneOrphan(meta')
  BY <1>5, <1>6 DEF IInv, AtMostOneOrphan
<1>8. RecoverInv'
  BY <1>1, <1>3, <1>5, <1>7 DEF RecoverInv, GoodEntries, Calm, AtMostOneOrphan
<1>9. PhaseInv'
  BY <1>1 DEF IInv, PhaseInv, AllSettled, Calm
<1>10. OutInv'
  BY <1>1 DEF IInv, OutInv, InPut, InMerge
<1> QED
  BY <1>1, <1>8, <1>9, <1>10, StaticParts DEF IInv, VisibleRows

\* A candidate that is settled changes nothing.
LEMMA AdoptSettled ==
  ASSUME NEW C \in SUBSET ChunkEntry, NEW f \in File, GoodChunk(f), Settled(f, C)
  PROVE  AdoptCandidate(C, f) = C
<1> DEFINE cand == Scanned(f)
           overlaps == {c \in C : RangesOverlap(c, cand)}
<1>1. /\ cand \in ChunkEntry /\ cand.path = f.path /\ cand.gen = f.gen
      /\ cand.start = f.start /\ cand.end = f.end
  BY ScannedFile
<1>2. AdoptCandidate(C, f) =
        IF cand.path \in Paths(C) THEN C
        ELSE IF overlaps = {} THEN C \cup {cand}
        ELSE IF \E c \in overlaps : c.gen >= cand.gen THEN C
        ELSE IF Survivor(overlaps \cup {cand}) = {cand}
             THEN (C \ overlaps) \cup {cand}
        ELSE C
  BY Zenon DEF AdoptCandidate
<1> HIDE DEF cand
<1>3. CASE Tracked(f, C)
  <2>1. cand.path \in Paths(C)
    BY <1>1, <1>3, FileOfEntry DEF Tracked, Paths
  <2> QED
    BY <1>2, <2>1
<1>4. CASE Superseded(f, C)
  <2>1. PICK c \in C : Within(f, c)
    BY <1>4 DEF Superseded
  <2>2. /\ c.start \in Int /\ c.end \in Int /\ f.start \in Int /\ f.end \in Int
        /\ c.gen \in Nat /\ f.gen \in Nat
    BY TsAssumption DEF ChunkEntry, File
  <2>3. f.start <= f.end /\ c.start <= f.start /\ f.end <= c.end /\ f.gen < c.gen
    BY <2>1 DEF Within, GoodChunk
  <2>4. c.start <= cand.end /\ c.end >= cand.start /\ c.gen >= cand.gen
    BY <1>1, <2>2, <2>3
  <2>5. c \in overlaps /\ c.gen >= cand.gen
    BY <2>4 DEF RangesOverlap
  <2> HIDE DEF overlaps
  <2>6. overlaps # {} /\ \E d \in overlaps : d.gen >= cand.gen
    BY <2>5
  <2> QED
    BY <1>2, <2>6
<1> QED
  BY <1>3, <1>4 DEF Settled

\* An adopted orphan keeps the entries good and supersedes what it replaces.
LEMMA AdoptedOrphan ==
  ASSUME NEW C \in SUBSET ChunkEntry, disk \subseteq File, GoodDisk, GoodEntries(C), Calm(C),
         NEW f \in disk, ~ Settled(f, C), Newer(f, C)
  PROVE  LET D == AdoptCandidate(C, f)
         IN  D \in SUBSET ChunkEntry /\ GoodEntries(D) /\ Calm(D) /\ Improves(C, D) /\ Tracked(f, D)
<1> DEFINE cand == Scanned(f)
           D == AdoptCandidate(C, f)
<1>1. /\ D = (C \ {c \in C : RangesOverlap(c, cand)}) \cup {cand}
      /\ \A c \in C : RangesOverlap(c, cand) => Within(c, f)
  BY AdoptOrphan
<1>2. /\ cand \in ChunkEntry /\ FileOf(cand) = f /\ cand.gen = f.gen
      /\ cand.start = f.start /\ cand.end = f.end /\ cand.rows = f.rows
      /\ cand.state \in {"Active", "Sealed"}
  BY ScannedFile
<1> HIDE DEF cand, D
<1>3. D \in SUBSET ChunkEntry /\ Tracked(f, D) /\ Calm(D)
  BY <1>1, <1>2 DEF Tracked, Calm
<1>4. Improves(C, D)
  <2> SUFFICES ASSUME NEW c \in C
               PROVE  \E d \in D : FileOf(d) = FileOf(c) \/ Within(c, d)
    BY DEF Improves
  <2>1. CASE RangesOverlap(c, cand)
    BY <1>1, <1>2, <2>1 DEF Within
  <2>2. CASE ~ RangesOverlap(c, cand)
    BY <1>1, <2>2
  <2> QED
    BY <2>1, <2>2
<1>5. ValidChunks(D)
  <2>1. cand.start <= cand.end
    BY <1>2 DEF GoodDisk, GoodChunk
  <2>2. \A c \in D : c.start <= c.end
    BY <1>1, <2>1 DEF GoodEntries, ValidChunks
  <2>3. \A c \in C : c.start \in Int /\ c.end \in Int
    BY TsAssumption DEF ChunkEntry
  <2>4. cand.start \in Int /\ cand.end \in Int
    BY <1>2, TsAssumption DEF ChunkEntry
  <2>5. \A c \in D \ {cand} : c \in C /\ ~ RangesOverlap(c, cand)
    BY <1>1
  <2>6. \A c \in D \ {cand} : ~ RangesOverlap(cand, c)
    BY <2>3, <2>4, <2>5 DEF RangesOverlap
  <2>7. \A c, d \in D : c # d => ~ RangesOverlap(c, d)
    BY <2>5, <2>6 DEF GoodEntries, ValidChunks
  <2> QED
    BY <2>2, <2>7 DEF ValidChunks
<1>6. GoodEntries(D)
  BY <1>1, <1>2, <1>5 DEF GoodEntries
<1> QED
  BY <1>3, <1>4, <1>6 DEF D

LEMMA InvRecoverCandidate ==
  ASSUME IInv, TypeOK', RecoverCandidate
  PROVE  IInv'
<1> USE DEF callers, counted, durable
<1>1. PICK f \in todo : meta' = AdoptCandidate(meta, f) /\ todo' = todo \ {f}
  BY DEF RecoverCandidate
<1>2. /\ UNCHANGED <<disk, manifest, marker, month, out, batch, acked, pc>> /\ pc = "recover"
      /\ ~ changed' => ~ changed /\ meta' = meta
  BY DEF RecoverCandidate
<1>3. /\ GoodEntries(meta) /\ Calm(meta) /\ Improves(manifest, meta) /\ todo \subseteq disk
      /\ AtMostOneOrphan(meta)
      /\ \A h \in disk : Settled(h, meta) \/ h \in todo
      /\ ~ changed => meta = manifest
  BY <1>2 DEF IInv, RecoverInv
<1>4. /\ meta \in SUBSET ChunkEntry /\ meta' \in SUBSET ChunkEntry
      /\ manifest \in SUBSET ChunkEntry /\ disk \subseteq File /\ GoodDisk
      /\ f \in disk /\ f \in File /\ GoodChunk(f)
  BY <1>3 DEF IInv, TypeOK, GoodDisk
<1>5. /\ GoodEntries(meta') /\ Calm(meta') /\ Improves(meta, meta') /\ AtMostOneOrphan(meta')
      /\ Settled(f, meta')
  <2>1. CASE Settled(f, meta)
    <3>1. meta' = meta
      BY <1>1, <1>4, <2>1, AdoptSettled
    <3> QED
      BY <1>3, <2>1, <3>1, ImprovesSuperset
  <2>2. CASE ~ Settled(f, meta)
    <3>1. Newer(f, meta) /\ \A h \in disk : Settled(h, meta) \/ h = f
      BY <1>3, <1>4, <2>2 DEF AtMostOneOrphan
    <3>2. GoodEntries(meta') /\ Calm(meta') /\ Improves(meta, meta') /\ Tracked(f, meta')
      BY <1>1, <1>3, <1>4, <2>2, <3>1, AdoptedOrphan
    <3>3. \A h \in disk : Settled(h, meta')
      BY <1>4, <3>1, <3>2, SettledImproves DEF Settled
    <3> QED
      BY <1>4, <3>2, <3>3 DEF AtMostOneOrphan
  <2> QED
    BY <2>1, <2>2
<1>6. Improves(manifest, meta')
  BY <1>3, <1>4, <1>5, ImprovesTransitive
<1>7. \A h \in disk : Settled(h, meta) => Settled(h, meta')
  BY <1>4, <1>5, SettledImproves
<1>8. \A h \in disk : Settled(h, meta') \/ h \in todo'
  BY <1>1, <1>3, <1>5, <1>7
<1>9. RecoverInv'
  BY <1>1, <1>2, <1>3, <1>5, <1>6, <1>8 DEF RecoverInv, GoodEntries, Calm, AtMostOneOrphan
<1>10. PhaseInv'
  BY <1>2 DEF IInv, PhaseInv, AllSettled, Calm
<1>11. OutInv'
  BY <1>2 DEF IInv, OutInv, InPut, InMerge
<1> QED
  BY <1>2, <1>9, <1>10, <1>11, StaticParts DEF IInv, VisibleRows

LEMMA InvRecoverSave ==
  ASSUME IInv, TypeOK', RecoverSave
  PROVE  IInv' /\ VisibleRows \subseteq VisibleRows'
<1> USE DEF callers, counted
<1>1. /\ UNCHANGED <<disk, marker, out, batch, acked, todo>> /\ pc = "recover"
      /\ pc' = "recover_clear" /\ todo = {}
      /\ \/ changed /\ manifest' = meta
         \/ ~ changed /\ manifest' = manifest
  BY DEF RecoverSave
<1>2. /\ GoodEntries(meta) /\ Calm(meta) /\ Improves(manifest, meta)
      /\ \A f \in disk : Settled(f, meta)
      /\ ~ changed => meta = manifest
  BY <1>1 DEF IInv, RecoverInv
<1>3. manifest' = meta
  BY <1>1, <1>2
<1>4. /\ GoodDisk' /\ GoodEntries(manifest)' /\ AtMostOneOrphan(manifest)'
      /\ AllSettled(manifest)' /\ (acked \subseteq VisibleRows)'
      /\ VisibleRows \subseteq VisibleRows'
  <2>1. \A c \in manifest' : FileOf(c) \in disk /\ c.state # "Replaced"
    BY <1>2, <1>3 DEF GoodEntries
  <2>2. ValidChunks(manifest') /\ Improves(manifest, manifest')
    BY <1>2, <1>3 DEF GoodEntries
  <2> QED
    BY <1>1, <1>2, <1>3, <2>1, <2>2, SaveSettles
<1>5. Calm(manifest)'
  BY <1>2, <1>3 DEF Calm
<1>6. PhaseInv'
  BY <1>1, <1>4, <1>5 DEF IInv, PhaseInv
<1>7. OutInv'
  BY <1>1 DEF IInv, OutInv, InPut, InMerge
<1>8. RecoverInv'
  BY <1>1 DEF RecoverInv
<1> QED
  BY <1>4, <1>6, <1>7, <1>8 DEF IInv

LEMMA InvRecoverClear ==
  ASSUME IInv, TypeOK', RecoverClear
  PROVE  IInv'
<1> USE DEF counted
<1>1. UNCHANGED <<disk, manifest, out, acked>> /\ pc' = "idle" /\ batch' = {}
  BY DEF RecoverClear
<1>2. AllSettled(manifest) /\ Calm(manifest)
  BY DEF IInv, PhaseInv, RecoverClear
<1>3. PhaseInv'
  BY <1>1, <1>2 DEF PhaseInv, AllSettled, Calm
<1>4. OutInv'
  BY <1>1 DEF IInv, OutInv, InPut, InMerge
<1>5. RecoverInv'
  BY <1>1 DEF RecoverInv
<1> QED
  BY <1>1, <1>3, <1>4, <1>5, StaticParts DEF IInv, VisibleRows

(***************************************************************************)
(* The invariant                                                           *)
(***************************************************************************)
LEMMA InvInit == Init => IInv
<1> SUFFICES ASSUME Init
             PROVE  IInv
  OBVIOUS
<1>1. /\ disk = {} /\ manifest = {} /\ out = {} /\ batch = {} /\ acked = {} /\ pc = "idle"
  BY DEF Init
<1>2. GoodDisk /\ GoodEntries(manifest) /\ AtMostOneOrphan(manifest)
  BY <1>1 DEF GoodDisk, GoodEntries, ValidChunks, AtMostOneOrphan
<1>3. PhaseInv
  BY <1>1 DEF PhaseInv, AllSettled, Calm
<1>4. OutInv
  BY <1>1 DEF OutInv, InPut, InMerge
<1>5. RecoverInv
  BY <1>1 DEF RecoverInv
<1> QED
  BY <1>1, <1>2, <1>3, <1>4, <1>5, TypeInit DEF IInv

LEMMA InvNext == IInv /\ [Next]_vars => IInv' /\ VisibleRows \subseteq VisibleRows'
<1> SUFFICES ASSUME IInv, [Next]_vars
             PROVE  IInv' /\ VisibleRows \subseteq VisibleRows'
  OBVIOUS
<1>1. TypeOK'
  BY TypeNext DEF IInv
<1>2. CASE RegisterBegin \/ \E m \in Months : MergeBegin(m)
  BY <1>1, <1>2, InvBegin DEF RegisterBegin, MergeBegin, VisibleRows
<1>3. CASE RegisterSave \/ MergeUnregistered \/ MergeNothing \/ CleanupDone \/ Fail
  BY <1>1, <1>3, InvMove
     DEF RegisterSave, MergeUnregistered, MergeNothing, CleanupDone, Fail, VisibleRows, durable
<1>4. ASSUME NEW stamps \in SUBSET Ts, NEW first \in stamps, NEW last \in stamps,
             PutBegin(first, last, stamps)
      PROVE  IInv' /\ VisibleRows \subseteq VisibleRows'
  BY <1>1, <1>4, InvPutBegin DEF PutBegin, VisibleRows
<1>5. CASE PutWriteChunk \/ MergeWriteChunk
  BY <1>1, <1>5, InvWriteChunk DEF PutWriteChunk, MergeWriteChunk, VisibleRows
<1>6. CASE PutSaveManifest
  BY <1>1, <1>6, InvPutSave
<1>7. CASE MergeMark
  BY <1>1, <1>7, InvMergeMark
<1>8. CASE MergeSaveManifest
  BY <1>1, <1>8, InvMergeSave
<1>9. CASE RemoveObsolete
  BY <1>1, <1>9, InvRemove DEF RemoveObsolete, VisibleRows
<1>10. CASE CommitMarker
  BY <1>1, <1>10, InvCommit DEF CommitMarker, VisibleRows
<1>11. CASE RecoverBegin
  BY <1>1, <1>11, InvRecoverBegin DEF RecoverBegin, VisibleRows, durable
<1>12. CASE RecoverCandidate
  BY <1>1, <1>12, InvRecoverCandidate DEF RecoverCandidate, VisibleRows, durable
<1>13. CASE RecoverSave
  BY <1>1, <1>13, InvRecoverSave
<1>14. CASE RecoverClear
  BY <1>1, <1>14, InvRecoverClear DEF RecoverClear, VisibleRows
<1>15. CASE UNCHANGED vars
  <2>1. UNCHANGED <<disk, manifest, marker, month, out, batch, acked, pc, todo, meta, changed>>
    BY <1>15 DEF vars, durable, callers, counted
  <2>2. OutInv'
    BY <2>1 DEF IInv, OutInv, InPut, InMerge
  <2>3. PhaseInv'
    BY <2>1 DEF IInv, PhaseInv, AllSettled, Calm, VisibleRows
  <2>4. RecoverInv'
    BY <2>1 DEF IInv, RecoverInv, GoodEntries, Calm, AtMostOneOrphan
  <2> QED
    BY <1>1, <2>1, <2>2, <2>3, <2>4, StaticParts DEF IInv, VisibleRows
<1> QED
  BY <1>2, <1>3, <1>4, <1>5, <1>6, <1>7, <1>8, <1>9, <1>10, <1>11, <1>12, <1>13, <1>14, <1>15
     DEF Next, Step

\* The inductive invariant holds in every reachable state: at most one file is
\* unknown to the manifest, and it is one that recovery may adopt.
THEOREM InvariantHolds == Spec => []IInv
BY InvInit, InvNext, PTL DEF Spec

(***************************************************************************)
(* What follows from it                                                    *)
(***************************************************************************)
\* An acknowledged row has an entry with its file, in every state.
THEOREM AckedRowsReadable == Spec => []AckedReadable
<1>1. IInv => AckedReadable
  BY DEF IInv, GoodEntries, AckedReadable
<1> QED
  BY <1>1, InvariantHolds, PTL

LEMMA OneRow == IInv => OneRowPerTimestamp
<1> SUFFICES ASSUME IInv
             PROVE  OneRowPerTimestamp
  OBVIOUS
<1>1. ValidChunks(manifest)
  BY DEF IInv, GoodEntries
<1>2. ASSUME NEW r \in VisibleRows, NEW s \in VisibleRows, r.ts = s.ts
      PROVE  r = s
  <2>1. PICK c \in manifest : r \in c.rows
    BY <1>2 DEF VisibleRows, RowsOf
  <2>2. PICK d \in manifest : s \in d.rows
    BY <1>2 DEF VisibleRows, RowsOf
  <2>3. c \in ChunkEntry /\ d \in ChunkEntry /\ GoodChunk(c) /\ GoodChunk(d)
    BY GoodManifest
  <2>4. c.start <= r.ts /\ r.ts <= c.end /\ d.start <= r.ts /\ r.ts <= d.end
    BY <1>2, <2>1, <2>2, <2>3 DEF GoodChunk
  <2>5. /\ r.ts \in Int /\ c.start \in Int /\ c.end \in Int
        /\ d.start \in Int /\ d.end \in Int
    BY <2>1, <2>3, TsAssumption DEF ChunkEntry, Row
  <2>6. RangesOverlap(c, d)
    BY <2>4, <2>5 DEF RangesOverlap
  <2>7. c = d
    BY <1>1, <2>6 DEF ValidChunks
  <2> QED
    BY <1>2, <2>1, <2>2, <2>3, <2>7 DEF GoodChunk
<1> QED
  BY <1>1, <1>2 DEF OneRowPerTimestamp

\* Reads see at most one row for a timestamp, in every state.
THEOREM OneRowRead == Spec => []OneRowPerTimestamp
BY OneRow, InvariantHolds, PTL

\* A store without a marker has no entry in the Merging state and no file
\* that is neither tracked nor superseded.
THEOREM CleanIsSettled == Spec => []SettledWhenClean
<1>1. IInv => SettledWhenClean
  <2> SUFFICES ASSUME IInv, MayMutate
               PROVE  /\ \A c \in manifest : c.state \in {"Active", "Sealed"}
                      /\ \A f \in disk : f.path \in Paths(manifest) \/ Superseded(f, manifest)
    BY DEF SettledWhenClean
  <2>1. AllSettled(manifest) /\ Calm(manifest)
    BY DEF IInv, PhaseInv, MayMutate
  <2>2. \A c \in manifest : FileOf(c).path = c.path
    BY FileOfEntry DEF IInv, TypeOK
  <2> QED
    BY <2>1, <2>2 DEF AllSettled, Calm, Settled, Tracked, Paths
<1> QED
  BY <1>1, InvariantHolds, PTL

LEMMA NamesFree == IInv => NextNamesFree
<1> SUFFICES ASSUME IInv, MayMutate, NEW m \in Months,
                    NEW g \in NextGeneration(InMonth(manifest, m)), NEW f \in disk,
                    f.path \in {IF InMonth(manifest, m) = {} THEN BasePath(m)
                                ELSE DeltaPath(m, g), MergedPath(m, g)}
             PROVE  FALSE
  BY DEF NextNamesFree, Paths
<1>1. manifest \in SUBSET ChunkEntry /\ f \in File /\ GoodChunk(f)
  BY DEF IInv, TypeOK, GoodDisk
<1>2. g \in Nat /\ \A c \in InMonth(manifest, m) : c.gen < g
  BY <1>1, InMonthEntries, NextGenerationIsNew
<1>3. f.path.month = m
  BY DEF BasePath, DeltaPath, MergedPath
<1>4. InMonth(manifest, m) # {} => f.path.kind # "base" /\ f.path.gen = g
  BY DEF BasePath, DeltaPath, MergedPath
<1>5. Settled(f, manifest)
  BY DEF IInv, PhaseInv, MayMutate, AllSettled
<1>6. PICK c \in manifest : FileOf(c) = f \/ Within(f, c)
  BY <1>5 DEF Settled, Tracked, Superseded
<1>7. c \in ChunkEntry /\ GoodChunk(c)
  BY GoodManifest
<1>8. c.path.month = m /\ f.gen <= c.gen
  <2>1. CASE FileOf(c) = f
    BY <1>3, <1>7, <2>1, FileOfEntry DEF ChunkEntry
  <2>2. CASE Within(f, c)
    <3>1. /\ f.start \in Int /\ f.end \in Int /\ c.start \in Int /\ c.end \in Int
          /\ f.gen \in Nat /\ c.gen \in Nat
      BY <1>1, <1>7, TsAssumption DEF ChunkEntry, File
    <3>2. f.start <= f.end /\ c.start <= f.start /\ f.end <= c.end /\ f.gen < c.gen
      BY <1>1, <2>2 DEF GoodChunk, Within
    <3>3. RangesOverlap(f, c)
      BY <3>1, <3>2 DEF RangesOverlap
    <3>4. f.path.month = c.path.month
      BY <1>1, <1>7, <3>3, OverlapInMonth DEF ChunkEntry, File
    <3> QED
      BY <1>3, <3>1, <3>2, <3>4
  <2> QED
    BY <1>6, <2>1, <2>2
<1>9. c \in InMonth(manifest, m)
  BY <1>8 DEF InMonth
<1>10. f.gen = g
  BY <1>1, <1>4, <1>9 DEF GoodChunk
<1> QED
  BY <1>2, <1>7, <1>8, <1>9, <1>10 DEF ChunkEntry

\* No leftover of a crash holds the name that the next append or merge needs.
THEOREM NextNamesAreFree == Spec => []NextNamesFree
BY NamesFree, InvariantHolds, PTL

\* No step takes a readable row away.
THEOREM RowsStay == Spec => RowsNeverVanish
<1>1. IInv /\ [Next]_vars => [VisibleRows \subseteq VisibleRows']_vars
  BY InvNext
<1> QED
  BY <1>1, InvariantHolds, PTL DEF Spec, RowsNeverVanish

(***************************************************************************)
(* KlineStore implements AppendLog: the rows that the manifest shows grow  *)
(* by whole batches, at the save of a put or of a recovery, and a batch is *)
(* acknowledged only when it is shown.                                     *)
(***************************************************************************)
\* A file holds shown rows, or it is the batch that is not settled; rows carry
\* the number of a put that was begun, and a merge adds none.
LogInv ==
  /\ \A f \in disk : f.rows \subseteq VisibleRows \/ f.rows = batch
  /\ InMerge => \A e \in out : e.rows \subseteq VisibleRows
  /\ \A r \in VisibleRows \cup batch : r.ver <= puts

\* A step of the log, or none.
LogStep == [Promise!Next]_(Promise!vars)

\* A settled file holds nothing that an entry does not show.
LEMMA SettledRows ==
  ASSUME NEW C \in SUBSET ChunkEntry, NEW f, Settled(f, C)
  PROVE  f.rows \subseteq RowsOf(C)
<1>1. PICK c \in C : FileOf(c) = f \/ Within(f, c)
  BY DEF Settled, Tracked, Superseded
<1>2. f.rows \subseteq c.rows
  BY <1>1, FileOfEntry DEF Within
<1> QED
  BY <1>2 DEF RowsOf

\* The steps between two changes of the manifest.
LEMMA LogQuiet ==
  ASSUME LogInv, UNCHANGED <<disk, manifest, batch, acked, puts>>, ~ InMerge'
  PROVE  LogInv' /\ LogStep
BY DEF LogInv, LogStep, VisibleRows, Promise!vars

LEMMA LogPutBegin ==
  ASSUME IInv, LogInv, NEW stamps \in SUBSET Ts, NEW first \in stamps, NEW last \in stamps,
         PutBegin(first, last, stamps), TypeOK'
  PROVE  LogInv' /\ LogStep
<1> DEFINE rows == {[ts |-> t, ver |-> puts + 1] : t \in stamps}
<1>1. /\ UNCHANGED <<disk, manifest, acked>> /\ batch' = rows /\ puts' = puts + 1
      /\ pc' = "put_chunk"
  BY DEF PutBegin
<1>2. AllSettled(manifest) /\ batch = {}
  BY DEF IInv, PhaseInv, PutBegin, MayMutate
<1>3. puts \in Nat /\ \A r \in VisibleRows : r.ver \in Nat
  BY RowsOfType DEF IInv, TypeOK, VisibleRows, Row
<1>4. \A r \in rows : r.ver = puts + 1
  OBVIOUS
<1>5. rows # {} /\ rows \cap VisibleRows = {}
  <2>1. [ts |-> first, ver |-> puts + 1] \in rows
    OBVIOUS
  <2>2. \A r \in VisibleRows : r.ver # puts + 1
    BY <1>3 DEF LogInv
  <2> QED
    BY <1>4, <2>1, <2>2
<1>6. rows \subseteq Row
  BY <1>1 DEF TypeOK
<1> HIDE DEF rows
<1>7. Promise!Submit
  BY <1>1, <1>2, <1>5, <1>6 DEF Promise!Submit, VisibleRows
<1>8. \A f \in disk : f.rows \subseteq VisibleRows
  BY <1>2, SettledRows DEF AllSettled, IInv, TypeOK, VisibleRows
<1>9. \A r \in VisibleRows \cup rows : r.ver <= puts + 1
  BY <1>3, <1>4 DEF LogInv
<1>10. LogInv'
  BY <1>1, <1>8, <1>9 DEF LogInv, VisibleRows, InMerge
<1> QED
  BY <1>7, <1>10 DEF LogStep, Promise!Next

LEMMA LogWriteChunk ==
  ASSUME IInv, LogInv, PutWriteChunk \/ MergeWriteChunk
  PROVE  LogInv' /\ LogStep
<1> USE DEF callers, counted
<1>1. PICK e \in out : disk' = disk \cup {FileOf(e)}
  BY DEF PutWriteChunk, MergeWriteChunk, WriteChunk
<1>2. /\ UNCHANGED <<manifest, out, batch, acked, puts>>
      /\ \/ pc = "put_chunk" /\ pc' = "put_manifest"
         \/ pc = "merge_chunk" /\ pc' = "merge_manifest"
  BY DEF PutWriteChunk, MergeWriteChunk
<1>3. e \in ChunkEntry /\ FileOf(e).rows = e.rows
  BY FileOfEntry DEF IInv, TypeOK
<1>4. e.rows \subseteq VisibleRows \/ e.rows = batch
  BY <1>2 DEF IInv, OutInv, InPut, LogInv, InMerge
<1>5. InMerge' => InMerge
  BY <1>2 DEF InMerge
<1>6. LogInv'
  BY <1>1, <1>2, <1>3, <1>4, <1>5 DEF LogInv, VisibleRows
<1> QED
  BY <1>2, <1>6 DEF LogStep, VisibleRows, Promise!vars

\* A manifest that shows the unsettled batch too, or the same rows.
LEMMA LogSave ==
  ASSUME LogInv, UNCHANGED <<disk, batch, acked, puts>>,
         VisibleRows' = VisibleRows \/ VisibleRows' = VisibleRows \cup batch,
         ~ InMerge' \/ \A e \in out' : e.rows \subseteq VisibleRows
  PROVE  LogInv' /\ LogStep
<1>1. LogInv'
  BY DEF LogInv
<1>2. LogStep
  <2>1. CASE VisibleRows' = VisibleRows
    BY <2>1 DEF LogStep, Promise!vars
  <2>2. CASE batch = {}
    BY <2>2 DEF LogStep, Promise!vars
  <2>3. CASE batch # {} /\ VisibleRows' = VisibleRows \cup batch
    BY <2>3 DEF LogStep, Promise!Next, Promise!Publish
  <2> QED
    BY <2>1, <2>2, <2>3
<1> QED
  BY <1>1, <1>2

LEMMA LogPutSave ==
  ASSUME IInv, LogInv, PutSaveManifest
  PROVE  LogInv' /\ LogStep
<1> USE DEF callers, counted
<1>1. PICK e \in out : manifest' = UpsertChunk(manifest, e)
  BY DEF PutSaveManifest
<1>2. /\ UNCHANGED <<disk, batch, acked, puts>> /\ pc = "put_manifest"
      /\ pc' \in {"merge", "commit"}
  BY DEF PutSaveManifest
<1>3. e \in ChunkEntry /\ (\A c \in manifest : c.id < e.id) /\ e.rows = batch
  BY <1>2 DEF IInv, TypeOK, OutInv, InPut
<1>4. manifest' = manifest \cup {e}
  BY <1>1, <1>3 DEF UpsertChunk, IInv, TypeOK, ChunkEntry
<1>5. VisibleRows' = VisibleRows \cup batch
  BY <1>3, <1>4 DEF VisibleRows, RowsOf
<1>6. ~ InMerge'
  BY <1>2 DEF InMerge
<1> QED
  BY <1>2, <1>5, <1>6, LogSave

LEMMA LogMergeMark ==
  ASSUME IInv, LogInv, MergeMark, TypeOK'
  PROVE  LogInv' /\ LogStep
<1> USE DEF callers, counted
<1> DEFINE S == InMonth(manifest, month)
           D == (manifest \ S) \cup {[c EXCEPT !.state = "Merging"] : c \in S}
<1>1. UNCHANGED <<disk, batch, acked, puts>> /\ manifest' = D
  BY DEF MergeMark
<1>2. manifest \in SUBSET ChunkEntry /\ S \in SUBSET manifest /\ D \in SUBSET ChunkEntry
  BY <1>1 DEF IInv, TypeOK, InMonth
<1>3. Restated(manifest, D)
  BY <1>2, MarkRestates
<1> HIDE DEF D
<1>4. RowsOf(D) = RowsOf(manifest)
  <2>1. (\A d \in D : FileOf(d).rows = d.rows) /\ \A c \in manifest : FileOf(c).rows = c.rows
    BY <1>2, FileOfEntry
  <2>2. \A d \in D : \E c \in manifest : d.rows = c.rows
    BY <1>3, <2>1 DEF Restated
  <2>3. \A c \in manifest : \E d \in D : d.rows = c.rows
    BY <1>3, <2>1 DEF Restated
  <2> QED
    BY <2>2, <2>3 DEF RowsOf
<1>5. VisibleRows' = VisibleRows
  BY <1>1, <1>4 DEF VisibleRows
<1>6. \A e \in out' : e.rows = RowsOf(S)
  BY DEF MergeMark, MergedEntry
<1>7. RowsOf(S) \subseteq VisibleRows
  BY <1>2 DEF RowsOf, VisibleRows
<1> QED
  BY <1>1, <1>5, <1>6, <1>7, LogSave

LEMMA LogMergeSave ==
  ASSUME IInv, LogInv, MergeSaveManifest, VisibleRows \subseteq VisibleRows'
  PROVE  LogInv' /\ LogStep
<1> USE DEF callers, counted
<1>1. PICK e \in out : manifest' = ReplaceMonth(manifest, month, e)
  BY DEF MergeSaveManifest
<1>2. UNCHANGED <<disk, batch, acked, puts>> /\ pc = "merge_manifest" /\ pc' = "cleanup"
  BY DEF MergeSaveManifest
<1>3. e.rows \subseteq VisibleRows
  BY <1>2 DEF LogInv, InMerge
<1>4. VisibleRows' \subseteq VisibleRows
  BY <1>1, <1>3 DEF ReplaceMonth, VisibleRows, RowsOf
<1> QED
  BY <1>2, <1>4, LogSave DEF InMerge

\* A recovery shows the batch of the orphan it adopted, or what was shown.
LEMMA LogRecoverSave ==
  ASSUME IInv, LogInv, RecoverSave, VisibleRows \subseteq VisibleRows'
  PROVE  LogInv' /\ LogStep
<1> USE DEF callers, counted
<1>1. /\ UNCHANGED <<disk, batch, acked, puts>> /\ pc = "recover" /\ pc' = "recover_clear"
      /\ manifest' = meta \/ manifest' = manifest
  BY DEF RecoverSave
<1>2. CASE manifest' = manifest
  BY <1>1, <1>2, LogSave DEF VisibleRows, InMerge
<1>3. CASE manifest' = meta
  <2>1. \A c \in meta : c.rows \subseteq VisibleRows \/ c.rows = batch
    <3> TAKE c \in meta
    <3>1. FileOf(c) \in disk /\ c \in ChunkEntry
      BY <1>1 DEF IInv, RecoverInv, GoodEntries, TypeOK
    <3> QED
      BY <3>1, FileOfEntry DEF LogInv
  <2>2. VisibleRows' = UNION {c.rows : c \in meta}
    BY <1>3 DEF VisibleRows, RowsOf
  <2>3. VisibleRows' \subseteq VisibleRows \cup batch
    BY <2>1, <2>2
  <2>4. CASE \E c \in meta : c.rows = batch
    <3>1. batch \subseteq VisibleRows'
      BY <2>2, <2>4
    <3> QED
      BY <1>1, <2>3, <3>1, LogSave DEF InMerge
  <2>5. CASE \A c \in meta : c.rows \subseteq VisibleRows
    <3>1. VisibleRows' \subseteq VisibleRows
      BY <2>2, <2>5
    <3> QED
      BY <1>1, <3>1, LogSave DEF InMerge
  <2> QED
    BY <2>1, <2>4, <2>5
<1> QED
  BY <1>1, <1>2, <1>3

\* The outcome of a batch is settled: acknowledged, or left to the reader.
LEMMA LogSettle ==
  ASSUME IInv, LogInv, CommitMarker \/ RecoverClear
  PROVE  LogInv' /\ LogStep
<1> USE DEF counted
<1>1. /\ UNCHANGED <<disk, manifest, puts>> /\ batch' = {} /\ pc' = "idle"
      /\ AllSettled(manifest)
      /\ \/ acked' = acked
         \/ acked' = acked \cup batch /\ batch \subseteq VisibleRows
  BY DEF CommitMarker, RecoverClear, IInv, PhaseInv
<1>2. \A f \in disk : f.rows \subseteq VisibleRows
  BY <1>1, SettledRows DEF AllSettled, IInv, TypeOK, VisibleRows
<1>3. LogInv'
  BY <1>1, <1>2 DEF LogInv, VisibleRows, InMerge
<1>4. VisibleRows' = VisibleRows
  BY <1>1 DEF VisibleRows
<1>5. CASE batch = {}
  BY <1>1, <1>3, <1>4, <1>5 DEF LogStep, Promise!vars
<1>6. CASE batch # {} /\ acked' = acked
  BY <1>1, <1>3, <1>4, <1>6 DEF LogStep, Promise!Next, Promise!Settle
<1>7. CASE batch # {} /\ acked' = acked \cup batch /\ batch \subseteq VisibleRows
  BY <1>1, <1>3, <1>4, <1>7 DEF LogStep, Promise!Next, Promise!Acknowledge
<1> QED
  BY <1>1, <1>5, <1>6, <1>7

\* Every step of the store is a step of the log, or none.
LEMMA LogNext ==
  ASSUME IInv, LogInv, [Next]_vars
  PROVE  LogInv' /\ LogStep
<1>1. TypeOK' /\ VisibleRows \subseteq VisibleRows'
  BY TypeNext, InvNext DEF IInv
<1>2. CASE \/ RegisterBegin \/ (\E m \in Months : MergeBegin(m)) \/ RegisterSave
           \/ MergeUnregistered \/ MergeNothing \/ CleanupDone \/ RecoverBegin
           \/ RecoverCandidate \/ Fail
  <2>1. UNCHANGED <<disk, manifest, batch, acked, puts>>
    BY <1>2 DEF RegisterBegin, MergeBegin, RegisterSave, MergeUnregistered, MergeNothing,
       CleanupDone, RecoverBegin, RecoverCandidate, Fail, durable, callers, counted
  <2>2. pc' \notin {"merge_chunk", "merge_manifest"}
    BY <1>2 DEF RegisterBegin, MergeBegin, RegisterSave, MergeUnregistered, MergeNothing,
       CleanupDone, RecoverBegin, RecoverCandidate, Fail
  <2> QED
    BY <2>1, <2>2, LogQuiet DEF InMerge
<1>3. ASSUME NEW stamps \in SUBSET Ts, NEW first \in stamps, NEW last \in stamps,
             PutBegin(first, last, stamps)
      PROVE  LogInv' /\ LogStep
  BY <1>1, <1>3, LogPutBegin
<1>4. CASE PutWriteChunk \/ MergeWriteChunk
  BY <1>4, LogWriteChunk
<1>5. CASE PutSaveManifest
  BY <1>5, LogPutSave
<1>6. CASE MergeMark
  BY <1>1, <1>6, LogMergeMark
<1>7. CASE MergeSaveManifest
  BY <1>1, <1>7, LogMergeSave
<1>8. CASE RemoveObsolete
  <2>1. UNCHANGED <<manifest, batch, acked, puts, pc>> /\ pc = "cleanup" /\ disk' \subseteq disk
    BY <1>8 DEF RemoveObsolete, callers, counted
  <2> QED
    BY <2>1 DEF LogInv, LogStep, VisibleRows, InMerge, Promise!vars
<1>9. CASE CommitMarker \/ RecoverClear
  BY <1>9, LogSettle
<1>10. CASE RecoverSave
  BY <1>1, <1>10, LogRecoverSave
<1>11. CASE UNCHANGED vars
  BY <1>11 DEF LogInv, LogStep, VisibleRows, InMerge, Promise!vars, vars, durable, callers,
     counted
<1> QED
  BY <1>2, <1>3, <1>4, <1>5, <1>6, <1>7, <1>8, <1>9, <1>10, <1>11 DEF Next, Step

\* Through puts, merges, crashes and recoveries a kline series is an append-only
\* log: batches are shown whole, once, and acknowledged only afterwards.
THEOREM StoreIsAppendLog == Spec => ImplementsAppendLog
<1>1. Init => LogInv /\ Promise!Init
  BY DEF Init, LogInv, InMerge, VisibleRows, RowsOf, Promise!Init
<1>2. IInv /\ LogInv /\ [Next]_vars => LogInv' /\ LogStep
  BY LogNext
<1> QED
  BY <1>1, <1>2, InvariantHolds, PTL DEF Spec, ImplementsAppendLog, Promise!Spec, LogStep
=============================================================================
