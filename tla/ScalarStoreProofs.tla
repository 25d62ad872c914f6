------------------------- MODULE ScalarStoreProofs --------------------------
(***************************************************************************)
(* Proofs about ScalarStore for every set of timestamps and months, every  *)
(* number of writes, failures and rebuilds: while replacements cover what  *)
(* they replace, listed sidecars describe their chunks, the next name is   *)
(* free, and every month is a register of whole versions.                  *)
(***************************************************************************)
EXTENDS ScalarStore, TLAPS

(***************************************************************************)
(* The types                                                               *)
(***************************************************************************)
Path == [month : Months, kind : {"base", "merged"}, gen : Nat]

File == [path : Path, id : Nat, gen : Nat, start : Ts, end : Ts, rows : SUBSET Row]

ChunkEntry == [path : Path, id : Nat, gen : Nat, start : Ts, end : Ts, rows : SUBSET Row,
               state : {"Sealed"}]

Sidecar == [path : Path, kind : SidecarKinds, rows : SUBSET Row]

Write == [month : Months, rows : SUBSET Row]

TypeInv ==
  /\ disk \subseteq File /\ todo \subseteq disk /\ (todo # {} => pc = "recover")
  /\ manifest \subseteq ChunkEntry /\ meta \subseteq ChunkEntry
  /\ out \subseteq ChunkEntry /\ obsolete \subseteq ChunkEntry
  /\ index \subseteq Sidecar
  /\ \A s \in sides : s.kind \in SidecarKinds
  /\ registered \in BOOLEAN /\ marker \in BOOLEAN /\ pc \in Phases
  /\ open \subseteq Write /\ acked \in [Months -> SUBSET Row]
  /\ puts \in 0..MaxPuts /\ fails \in 0..MaxFails /\ rebuilds \in 0..MaxRebuilds

(***************************************************************************)
(* The inductive invariant.  Replacements that cover what they replace     *)
(* leave the files of a month in a chain: of any two, the newer contains   *)
(* the range of the older.  A file is settled when it is the entry of its  *)
(* month or below it; the only other files are those of the write that is  *)
(* not settled, which is what a recovery or a rebuild may switch to.       *)
(***************************************************************************)
\* A chunk of one month whose range is that of its rows, under a name that
\* tells its generation.
GoodChunk(c) ==
  /\ \E lo, hi \in c.rows : c.start = lo.ts /\ c.end = hi.ts
  /\ \A r \in c.rows : c.start <= r.ts /\ r.ts <= c.end
  /\ MonthOf[c.start] = c.path.month /\ MonthOf[c.end] = c.path.month
  /\ c.path.gen <= c.gen
  /\ c.path.kind = "merged" => c.path.gen = c.gen
  /\ c.path.kind = "base" => c.path.gen = 0

\* d is newer than c and contains its range.
Within(c, d) ==
  c.path.month = d.path.month /\ c.gen < d.gen /\ d.start <= c.start /\ c.end <= d.end

GoodDisk ==
  /\ \A f \in disk : GoodChunk(f)
  /\ \A f, g \in disk : f.path = g.path => f = g
  /\ \A f, g \in disk : f.path.month = g.path.month => f = g \/ Within(f, g) \/ Within(g, f)

\* Every month has at most one entry, and its file is there.
GoodEntries(C) ==
  /\ \A c \in C : FileOf(c) \in disk
  /\ \A c, d \in C : c.path.month = d.path.month => c = d

Settled(f, C) == \E c \in C : FileOf(c) = f \/ Within(f, c)

AllSettled(C) == \A f \in disk : Settled(f, C)

\* A file that is not settled is the version of the write that is not settled.
OrphanInv ==
  \A f \in disk : Settled(f, manifest) \/
                  \E w \in open : f.path.month = w.month /\ f.rows = w.rows

\* A sidecar belongs to a file of the same rows, or its file was replaced by a
\* newer generation.
IndexInv ==
  /\ \A x \in index, f \in disk : x.path = f.path => x.rows = f.rows
  /\ \A x \in index : \/ x.path \in Paths(disk)
                      \/ \E c \in manifest : c.path.month = x.path.month /\ x.path.gen < c.gen

SidesInv ==
  \A s \in sides : /\ s.path \in Paths(manifest)
                   /\ \E x \in index : x.path = s.path /\ x.kind = s.kind

InWrite == {"chunk", "zmap", "vix", "manifest"}

\* The chunk that a put or an append publishes.
OutInv ==
  /\ \A d, e \in out : d = e
  /\ pc \in InWrite => \A e \in out :
       /\ GoodChunk(e)
       /\ \A c \in manifest : c.id < e.id
       /\ \A c \in InMonth(manifest, e.path.month) : Within(c, e)
       /\ e.path.kind = "base" => InMonth(manifest, e.path.month) = {}
       /\ \E w \in open : w.month = e.path.month /\ w.rows = e.rows
  /\ pc \in InWrite \ {"chunk"} => \A e \in out :
       /\ FileOf(e) \in disk
       /\ \A f \in disk : Settled(f, manifest) \/ f = FileOf(e)
  /\ pc \in {"vix", "manifest"} =>
       \A e \in out : \E x \in index : x.path = e.path /\ x.kind = "zmap"
  /\ pc = "manifest" =>
       \A e \in out : \E x \in index : x.path = e.path /\ x.kind = "vix"

PhaseInv ==
  /\ pc \notin {"idle", "recover", "recover_clear"} => marker
  /\ ~ marker => AllSettled(manifest) /\ open = {}
  /\ pc \in {"register", "chunk", "cleanup", "commit", "recover_clear"} => AllSettled(manifest)
  /\ \A v, w \in open : v = w
  /\ pc = "register" => open = {}
  /\ pc \in {"cleanup", "commit"} =>
       \A w \in open : MonthRows(manifest, w.month) = w.rows
  /\ pc = "cleanup" =>
       \A c \in obsolete : /\ c.path \notin Paths(manifest) /\ c.path.gen <= c.gen
                           /\ \E d \in manifest : Within(c, d)

RecoverInv ==
  pc = "recover" =>
    /\ GoodEntries(meta)
    /\ \A c \in manifest : Settled(FileOf(c), meta)
    /\ \A f \in disk : Settled(f, meta) \/ f \in todo

\* Every version on disk was submitted.
VersionInv ==
  /\ \A f \in disk : f.rows \in versions
  /\ \A e \in out : e.rows \in versions

CoverInv ==
  /\ GoodDisk /\ GoodEntries(manifest) /\ OrphanInv /\ IndexInv /\ SidesInv
  /\ OutInv /\ PhaseInv /\ RecoverInv /\ VersionInv

IInv == TypeInv /\ (workload = "covering" => CoverInv)

(***************************************************************************)
(* Operators of the catalog                                                *)
(***************************************************************************)
\* Allocation (next generation, next_chunk_id): a number above all in use.
LEMMA NextIsNew ==
  ASSUME NEW C \in SUBSET ChunkEntry
  PROVE  /\ \A g \in NextGeneration(C) : g \in Nat /\ \A c \in C : c.gen < g
         /\ \A i \in NextChunkId(C) : i \in Nat /\ \A c \in C : c.id < i
BY DEF NextGeneration, NextChunkId, ChunkEntry

LEMMA FileOfEntry ==
  ASSUME NEW c \in ChunkEntry
  PROVE  /\ FileOf(c) \in File
         /\ FileOf(c).path = c.path /\ FileOf(c).id = c.id /\ FileOf(c).gen = c.gen
         /\ FileOf(c).start = c.start /\ FileOf(c).end = c.end /\ FileOf(c).rows = c.rows
BY DEF FileOf, File, ChunkEntry

\* A directory scan gives the entry of the file.
LEMMA ScannedFile ==
  ASSUME NEW f \in File
  PROVE  /\ Scanned(f) \in ChunkEntry /\ FileOf(Scanned(f)) = f
         /\ Scanned(f).path = f.path /\ Scanned(f).id = f.id /\ Scanned(f).gen = f.gen
         /\ Scanned(f).start = f.start /\ Scanned(f).end = f.end /\ Scanned(f).rows = f.rows
BY DEF Scanned, Entry, DecodeState, FileOf, File, ChunkEntry, Path

\* An entry is determined by its file: there is one state.
LEMMA EntryOfFile ==
  ASSUME NEW c \in ChunkEntry, NEW d \in ChunkEntry, FileOf(c) = FileOf(d)
  PROVE  c = d
<1>1. /\ c.path = d.path /\ c.id = d.id /\ c.gen = d.gen /\ c.start = d.start /\ c.end = d.end
      /\ c.rows = d.rows
  BY FileOfEntry
<1> QED
  BY <1>1 DEF ChunkEntry

LEMMA Numbers ==
  ASSUME NEW c, c \in File \/ c \in ChunkEntry
  PROVE  /\ c.start \in Ts /\ c.end \in Ts /\ c.start \in Int /\ c.end \in Int
         /\ c.gen \in Nat /\ c.path.gen \in Nat /\ c.path.month \in Months /\ c.rows \subseteq Row
BY ScalarAssumption DEF File, ChunkEntry, Path

LEMMA MonthRowsType ==
  ASSUME NEW C \in SUBSET ChunkEntry, NEW m
  PROVE  MonthRows(C, m) \in SUBSET Row
BY DEF MonthRows, RowsOf, InMonth, ChunkEntry

\* The rows of a month with one entry, and with none.
LEMMA MonthOne ==
  ASSUME NEW C, \A c, d \in C : c.path.month = d.path.month => c = d, NEW c \in C
  PROVE  InMonth(C, c.path.month) = {c} /\ MonthRows(C, c.path.month) = c.rows
<1>1. InMonth(C, c.path.month) = {c}
  BY DEF InMonth
<1> QED
  BY <1>1 DEF MonthRows, RowsOf

LEMMA MonthNone ==
  ASSUME NEW C, NEW m, InMonth(C, m) = {}
  PROVE  MonthRows(C, m) = {}
BY DEF MonthRows, RowsOf

(***************************************************************************)
(* Ranges                                                                  *)
(***************************************************************************)
\* A chunk that is good stays so in the manifest.
LEMMA GoodFileOf ==
  ASSUME NEW c \in ChunkEntry
  PROVE  GoodChunk(FileOf(c)) <=> GoodChunk(c)
BY FileOfEntry DEF GoodChunk

LEMMA GoodRange ==
  ASSUME NEW c, c \in File \/ c \in ChunkEntry, GoodChunk(c)
  PROVE  c.start <= c.end
BY Numbers DEF GoodChunk

\* Chunks of different months do not overlap.
LEMMA OverlapInMonth ==
  ASSUME NEW c, NEW d, c \in File \/ c \in ChunkEntry, d \in File \/ d \in ChunkEntry,
         GoodChunk(c), GoodChunk(d), RangesOverlap(c, d)
  PROVE  c.path.month = d.path.month
<1>1. /\ c.start \in Ts /\ c.end \in Ts /\ d.start \in Ts /\ d.end \in Ts
      /\ c.start \in Int /\ c.end \in Int /\ d.start \in Int /\ d.end \in Int
  BY Numbers
<1>2. c.start <= d.end /\ d.start <= c.end
  BY <1>1 DEF RangesOverlap
<1>3. CASE c.start <= d.start
  <2>1. MonthOf[d.start] = MonthOf[c.start]
    BY <1>1, <1>2, <1>3, ScalarAssumption DEF GoodChunk
  <2> QED
    BY <2>1 DEF GoodChunk
<1>4. CASE d.start <= c.start
  <2>1. MonthOf[c.start] = MonthOf[d.start]
    BY <1>1, <1>2, <1>4, ScalarAssumption DEF GoodChunk
  <2> QED
    BY <2>1 DEF GoodChunk
<1> QED
  BY <1>1, <1>3, <1>4

\* Chunks with the ranges of a chain overlap.
LEMMA WithinOverlaps ==
  ASSUME NEW c, NEW d, c \in File \/ c \in ChunkEntry, d \in File \/ d \in ChunkEntry,
         GoodChunk(c), GoodChunk(d), Within(c, d)
  PROVE  RangesOverlap(c, d) /\ RangesOverlap(d, c)
BY Numbers, GoodRange DEF Within, RangesOverlap

LEMMA WithinTransitive ==
  ASSUME NEW c, NEW d, NEW e, Within(c, d), Within(d, e),
         c \in File \/ c \in ChunkEntry, d \in File \/ d \in ChunkEntry,
         e \in File \/ e \in ChunkEntry
  PROVE  Within(c, e)
<1>1. /\ c.start \in Int /\ c.end \in Int /\ c.gen \in Nat
      /\ d.start \in Int /\ d.end \in Int /\ d.gen \in Nat
      /\ e.start \in Int /\ e.end \in Int /\ e.gen \in Nat
  BY Numbers
<1> QED
  BY <1>1 DEF Within

LEMMA WithinFiles ==
  ASSUME NEW c \in ChunkEntry, NEW f
  PROVE  /\ Within(FileOf(c), f) <=> Within(c, f)
         /\ Within(f, FileOf(c)) <=> Within(f, c)
BY FileOfEntry DEF Within

\* What is settled stays settled when every entry is.
LEMMA SettledStep ==
  ASSUME NEW C \in SUBSET ChunkEntry, NEW D \in SUBSET ChunkEntry,
         \A c \in C : Settled(FileOf(c), D), NEW f \in File, Settled(f, C)
  PROVE  Settled(f, D)
<1>1. PICK c \in C : FileOf(c) = f \/ Within(f, c)
  BY DEF Settled
<1>2. PICK d \in D : FileOf(d) = FileOf(c) \/ Within(FileOf(c), d)
  BY DEF Settled
<1>3. c \in ChunkEntry /\ d \in ChunkEntry
  OBVIOUS
<1>4. CASE FileOf(c) = f
  BY <1>2, <1>4 DEF Settled
<1>5. CASE Within(f, c) /\ FileOf(d) = FileOf(c)
  <2>1. Within(f, d)
    BY <1>3, <1>5, WithinFiles
  <2> QED
    BY <2>1 DEF Settled
<1>6. CASE Within(f, c) /\ Within(FileOf(c), d)
  <2>1. Within(c, d)
    BY <1>3, <1>6, WithinFiles
  <2>2. Within(f, d)
    BY <1>3, <1>6, <2>1, WithinTransitive
  <2> QED
    BY <2>2 DEF Settled
<1> QED
  BY <1>1, <1>2, <1>4, <1>5, <1>6

\* An entry of C and a file of its month are in the chain.
LEMMA EntryInChain ==
  ASSUME disk \subseteq File, GoodDisk, NEW C \in SUBSET ChunkEntry, GoodEntries(C),
         NEW c \in C, NEW f \in disk, f.path.month = c.path.month
  PROVE  f = FileOf(c) \/ Within(f, c) \/ Within(c, f)
<1>1. FileOf(c) \in disk /\ FileOf(c).path = c.path /\ c \in ChunkEntry
  BY FileOfEntry DEF GoodEntries
<1>2. f = FileOf(c) \/ Within(f, FileOf(c)) \/ Within(FileOf(c), f)
  BY <1>1 DEF GoodDisk
<1> QED
  BY <1>1, <1>2, WithinFiles

\* The newer chunk of the chain survives an overlap.
LEMMA SurvivorOfTwo ==
  ASSUME NEW c \in ChunkEntry, NEW d \in ChunkEntry, Within(c, d)
  PROVE  Survivor({c} \cup {d}) = {d}
<1>1. /\ c.start \in Int /\ c.end \in Int /\ c.gen \in Nat
      /\ d.start \in Int /\ d.end \in Int /\ d.gen \in Nat
  BY Numbers
<1>2. Covers(d, {c} \cup {d})
  BY <1>1 DEF Covers, Within
<1>3. RanksBefore(d, c) /\ ~ RanksBefore(c, d) /\ c # d
  BY <1>1 DEF RanksBefore, Within
<1> QED
  BY <1>2, <1>3 DEF Survivor

(***************************************************************************)
(* Recovery and rebuild choose the newest file of every month              *)
(***************************************************************************)
LEMMA AdoptSettles ==
  ASSUME disk \subseteq File, GoodDisk, NEW C \in SUBSET ChunkEntry, GoodEntries(C),
         NEW f \in disk
  PROVE  LET D == AdoptCandidate(C, f)
         IN  /\ D \in SUBSET ChunkEntry /\ GoodEntries(D) /\ Settled(f, D)
             /\ \A c \in C : Settled(FileOf(c), D)
<1> DEFINE cand == Scanned(f)
           overlaps == {c \in C : RangesOverlap(c, cand)}
           D == AdoptCandidate(C, f)
<1>1. /\ cand \in ChunkEntry /\ FileOf(cand) = f /\ cand.path = f.path /\ cand.gen = f.gen
      /\ cand.start = f.start /\ cand.end = f.end
  BY ScannedFile
<1>2. \A c \in C : c \in ChunkEntry /\ FileOf(c) \in disk /\ GoodChunk(c) /\ GoodChunk(FileOf(c))
  BY GoodFileOf DEF GoodEntries, GoodDisk
<1>3. GoodChunk(cand)
  BY <1>1, GoodFileOf DEF GoodDisk
<1>4. ASSUME NEW c \in C
      PROVE  RangesOverlap(c, cand) <=> c.path.month = f.path.month
  <2>1. ASSUME RangesOverlap(c, cand)
        PROVE  c.path.month = f.path.month
    BY <1>1, <1>2, <1>3, <2>1, OverlapInMonth
  <2>2. ASSUME c.path.month = f.path.month
        PROVE  RangesOverlap(c, cand)
    <3>1. f = FileOf(c) \/ Within(f, c) \/ Within(c, f)
      BY <2>2, EntryInChain
    <3>2. CASE f = FileOf(c)
      <4>1. c.start = f.start /\ c.end = f.end /\ c.start <= c.end
        BY <1>2, <3>2, FileOfEntry, GoodRange
      <4> QED
        BY <1>1, <1>2, <4>1, Numbers DEF RangesOverlap
    <3>3. CASE Within(f, c) \/ Within(c, f)
      <4>1. Within(cand, c) \/ Within(c, cand)
        BY <1>1, <3>3 DEF Within
      <4> QED
        BY <1>1, <1>2, <1>3, <4>1, WithinOverlaps
    <3> QED
      BY <3>1, <3>2, <3>3
  <2> QED
    BY <2>1, <2>2
<1>5. \A c \in C : Settled(FileOf(c), C)
  BY DEF Settled
<1>6. D = IF cand.path \in Paths(C) THEN C
          ELSE IF overlaps = {} THEN C \cup {cand}
          ELSE IF \E c \in overlaps : c.gen >= cand.gen THEN C
          ELSE IF Survivor(overlaps \cup {cand}) = {cand} THEN (C \ overlaps) \cup {cand}
          ELSE C
  BY DEF AdoptCandidate
<1> HIDE DEF D, cand
<1>7. CASE cand.path \in Paths(C)
  <2>1. PICK c \in C : c.path = cand.path
    BY <1>7 DEF Paths
  <2>2. FileOf(c) = f
    BY <1>1, <1>2, <2>1, FileOfEntry DEF GoodDisk
  <2> QED
    BY <1>5, <1>6, <1>7, <2>2 DEF Settled, D
<1>8. CASE cand.path \notin Paths(C) /\ overlaps = {}
  <2>1. D = C \cup {cand}
    BY <1>6, <1>8
  <2>2. \A c \in C : c.path.month # cand.path.month
    BY <1>1, <1>4, <1>8
  <2>3. GoodEntries(D)
    BY <1>1, <2>1, <2>2 DEF GoodEntries
  <2>4. Settled(f, D) /\ \A c \in C : Settled(FileOf(c), D)
    BY <1>1, <2>1 DEF Settled
  <2> QED
    BY <1>1, <2>1, <2>3, <2>4 DEF D
<1>9. CASE cand.path \notin Paths(C) /\ \E c \in overlaps : c.gen >= cand.gen
  <2>1. PICK c \in C : c.path.month = f.path.month /\ c.gen >= cand.gen
    BY <1>4, <1>9
  <2>2. f = FileOf(c) \/ Within(f, c) \/ Within(c, f)
    BY <2>1, EntryInChain
  <2>3. ~ Within(c, f)
    BY <1>1, <1>2, <2>1, Numbers DEF Within
  <2>4. Settled(f, C)
    BY <2>2, <2>3 DEF Settled
  <2>5. D = C
    BY <1>6, <1>9
  <2> QED
    BY <1>5, <2>4, <2>5 DEF D
<1>10. CASE cand.path \notin Paths(C) /\ overlaps # {} /\ ~ \E c \in overlaps : c.gen >= cand.gen
  <2>1. PICK c \in C : c \in overlaps /\ c.path.month = f.path.month /\ ~ (c.gen >= cand.gen)
    BY <1>4, <1>10
  <2>2. c.gen \in Nat /\ f.gen \in Nat /\ c.gen < f.gen
    BY <1>1, <1>2, <2>1, Numbers
  <2>3. f # FileOf(c) /\ ~ Within(f, c)
    BY <1>2, <2>2, FileOfEntry DEF Within
  <2>4. Within(c, f)
    BY <2>1, <2>3, EntryInChain
  <2>5. Within(c, cand)
    BY <1>1, <2>4 DEF Within
  <2>6. overlaps = {c}
    BY <1>4, <2>1 DEF GoodEntries
  <2>7. Survivor(overlaps \cup {cand}) = {cand}
    BY <1>1, <1>2, <2>5, <2>6, SurvivorOfTwo
  <2>8. D = (C \ {c}) \cup {cand}
    BY <1>6, <1>10, <2>6, <2>7
  <2>9. \A d \in C \ {c} : d.path.month # cand.path.month
    BY <1>1, <2>1 DEF GoodEntries
  <2>10. GoodEntries(D)
    BY <1>1, <2>8, <2>9 DEF GoodEntries
  <2>11. Settled(f, D)
    BY <1>1, <2>8 DEF Settled
  <2>12. Settled(FileOf(c), D)
    BY <1>2, <2>5, <2>8, WithinFiles DEF Settled
  <2>13. \A d \in C : Settled(FileOf(d), D)
    BY <2>8, <2>12 DEF Settled
  <2> QED
    BY <1>1, <2>8, <2>10, <2>11, <2>13 DEF D
<1> QED
  BY <1>7, <1>8, <1>9, <1>10

\* Overlap groups are classes.
LEMMA GroupClass ==
  ASSUME NEW S, NEW c \in S, NEW d \in OverlapGroup(S, c)
  PROVE  OverlapGroup(S, d) = OverlapGroup(S, c) /\ c \in OverlapGroup(S, c)
<1>1. \A e \in S : IsCut(S, e.start) => ((c.start < e.start) <=> (d.start < e.start))
  BY DEF OverlapGroup, SameGroup
<1>2. ASSUME NEW b \in S
      PROVE  SameGroup(S, c, b) <=> SameGroup(S, d, b)
  BY <1>1 DEF SameGroup
<1> QED
  BY <1>2 DEF OverlapGroup, SameGroup

\* Files of one month are in one group.
LEMMA MonthInGroup ==
  ASSUME NEW S \in SUBSET ChunkEntry, NEW c \in S, NEW d \in S, GoodChunk(c), GoodChunk(d),
         Within(c, d)
  PROVE  c \in OverlapGroup(S, d) /\ d \in OverlapGroup(S, c)
<1>1. /\ c.start \in Int /\ c.end \in Int /\ d.start \in Int /\ d.end \in Int
      /\ c.start <= c.end /\ d.start <= c.start /\ c.end <= d.end
  BY Numbers, GoodRange DEF Within
<1>2. ASSUME NEW e \in S, IsCut(S, e.start)
      PROVE  (c.start < e.start) <=> (d.start < e.start)
  <2>1. e.start \in Int
    BY Numbers
  <2>2. d.start < e.start => d.end < e.start
    BY <1>2 DEF IsCut
  <2> QED
    BY <1>1, <2>1, <2>2
<1> QED
  BY <1>2 DEF OverlapGroup, SameGroup

LEMMA RebuildSettles ==
  ASSUME disk \subseteq File, GoodDisk, NEW S, S = {Scanned(f) : f \in disk}, Rebuildable(S)
  PROVE  LET D == SelectNonOverlapping(S)
         IN  D \in SUBSET ChunkEntry /\ GoodEntries(D) /\ AllSettled(D)
<1> DEFINE D == SelectNonOverlapping(S)
<1>1. /\ S \in SUBSET ChunkEntry
      /\ \A c \in S : FileOf(c) \in disk /\ GoodChunk(c)
      /\ \A f \in disk : \E c \in S : FileOf(c) = f
  <2>1. ASSUME NEW f \in disk
        PROVE  Scanned(f) \in ChunkEntry /\ FileOf(Scanned(f)) = f /\ GoodChunk(Scanned(f))
    BY ScannedFile, GoodFileOf DEF GoodDisk
  <2> QED
    BY <2>1
<1>2. ASSUME NEW c \in S, NEW d \in S, c # d, c.path.month = d.path.month
      PROVE  Within(c, d) \/ Within(d, c)
  <2>1. c \in ChunkEntry /\ d \in ChunkEntry
    BY <1>1
  <2>2. FileOf(c) # FileOf(d)
    BY <1>2, <2>1, EntryOfFile
  <2>3. Within(FileOf(c), FileOf(d)) \/ Within(FileOf(d), FileOf(c))
    BY <1>1, <1>2, <2>1, <2>2, FileOfEntry DEF GoodDisk
  <2> QED
    BY <2>1, <2>3, FileOfEntry DEF Within
<1>3. ASSUME NEW c \in S, NEW d \in S, c.gen < d.gen
      PROVE  ~ RanksBefore(c, d)
  BY <1>1, <1>3, Numbers DEF RanksBefore
<1>4. ASSUME NEW c \in S, NEW d \in S, Within(c, d), NEW G, c \in Survivor(G), d \in G
      PROVE  FALSE
  <2>1. Covers(c, G) /\ (c # d /\ Covers(d, G) => RanksBefore(c, d))
    BY <1>4 DEF Survivor
  <2>2. c # d /\ c.gen < d.gen
    BY <1>1, <1>4, Numbers DEF Within
  <2>3. d.start <= c.start /\ c.end <= d.end
    BY <1>4 DEF Within
  <2>4. c.start = d.start /\ c.end = d.end
    BY <1>1, <1>4, <2>1, <2>3, Numbers DEF Covers
  <2>5. Covers(d, G)
    BY <2>1, <2>4 DEF Covers
  <2> QED
    BY <1>3, <2>1, <2>2, <2>5
<1>5. GoodEntries(D)
  <2>1. ASSUME NEW c \in D, NEW d \in D, c.path.month = d.path.month, c # d
        PROVE  FALSE
    <3>1. /\ c \in S /\ d \in S /\ c \in Survivor(OverlapGroup(S, c))
          /\ d \in Survivor(OverlapGroup(S, d))
      BY DEF SelectNonOverlapping
    <3>2. CASE Within(c, d)
      BY <1>1, <1>4, <3>1, <3>2, MonthInGroup
    <3>3. CASE Within(d, c)
      BY <1>1, <1>4, <3>1, <3>3, MonthInGroup
    <3> QED
      BY <1>2, <2>1, <3>1, <3>2, <3>3
  <2>2. \A c \in D : FileOf(c) \in disk
    BY <1>1 DEF SelectNonOverlapping
  <2> QED
    BY <2>1, <2>2 DEF GoodEntries
<1>6. ASSUME NEW f \in disk
      PROVE  Settled(f, D)
  <2>1. PICK a \in S : FileOf(a) = f
    BY <1>1
  <2> DEFINE G == OverlapGroup(S, a)
  <2>2. a \in G /\ \A d \in G : OverlapGroup(S, d) = G /\ d \in S
    BY GroupClass DEF OverlapGroup, SameGroup
  <2>3. PICK c \in G : c \in Survivor(G)
    BY DEF Rebuildable, Survivor
  <2> HIDE DEF G
  <2>4. \A d \in G : c.start <= d.start /\ d.end <= c.end
    BY <1>1, <2>2, <2>3, Numbers DEF Survivor, Covers
  <2>5. ASSUME NEW d \in G
        PROVE  RangesOverlap(c, d) /\ c.path.month = d.path.month
    <3>1. RangesOverlap(c, d)
      <4>1. c \in ChunkEntry /\ d \in ChunkEntry /\ GoodChunk(d)
        BY <1>1, <2>2
      <4>2. /\ c.start \in Int /\ c.end \in Int /\ d.start \in Int /\ d.end \in Int
            /\ d.start <= d.end
        BY <4>1, Numbers, GoodRange
      <4> QED
        BY <2>4, <4>2 DEF RangesOverlap
    <3> QED
      BY <1>1, <2>2, <3>1, OverlapInMonth
  <2>6. ASSUME NEW d \in G, d # c
        PROVE  Within(d, c)
    BY <1>2, <1>4, <2>2, <2>3, <2>5, <2>6
  <2>7. Survivor(G) = {c}
    <3>1. ASSUME NEW d \in Survivor(G), d # c
          PROVE  FALSE
      <4>1. d \in G
        BY DEF Survivor
      <4> QED
        BY <1>4, <2>2, <2>3, <2>6, <3>1, <4>1
    <3> QED
      BY <2>3, <3>1
  <2>8. c \in D
    BY <2>2, <2>3, <2>7 DEF SelectNonOverlapping
  <2>9. a = c \/ Within(a, c)
    BY <2>2, <2>6
  <2> QED
    BY <1>1, <2>1, <2>8, <2>9, WithinFiles DEF Settled
<1>7. D \in SUBSET ChunkEntry
  BY <1>1 DEF SelectNonOverlapping
<1> QED
  BY <1>5, <1>6, <1>7 DEF AllSettled

(***************************************************************************)
(* Type correctness                                                        *)
(***************************************************************************)
LEMMA ScalarEntryType ==
  ASSUME NEW m \in Months, NEW tracked, NEW g \in Nat, NEW i \in Nat, NEW lo \in Ts, NEW hi \in Ts,
         NEW rows \in SUBSET Row
  PROVE  LET e == ScalarEntry(m, tracked, g, i, lo, hi, rows)
         IN  /\ e \in ChunkEntry
             /\ e.path = (IF tracked = {} THEN BasePath(m) ELSE MergedPath(m, g))
             /\ e.id = i /\ e.gen = g /\ e.start = lo /\ e.end = hi /\ e.rows = rows
<1> DEFINE p == IF tracked = {} THEN BasePath(m) ELSE MergedPath(m, g)
<1>1. p \in Path
  BY DEF BasePath, MergedPath, Path
<1>2. ScalarEntry(m, tracked, g, i, lo, hi, rows) =
        [path |-> p, id |-> i, gen |-> g, start |-> lo, end |-> hi, rows |-> rows,
         state |-> "Sealed"]
  BY DEF ScalarEntry
<1> HIDE DEF p
<1> QED
  BY <1>1, <1>2 DEF ChunkEntry, p

LEMMA NewRowsType ==
  ASSUME TypeInv, puts < MaxPuts, NEW stamps \in SUBSET Ts
  PROVE  /\ NewRows(stamps) \in SUBSET Row
         /\ \A r \in NewRows(stamps) : r.ts \in stamps
         /\ \A t \in stamps : \E r \in NewRows(stamps) : r.ts = t
<1>1. puts + 1 \in 1..MaxPuts
  BY ScalarAssumption DEF TypeInv
<1>2. ASSUME NEW t \in stamps
      PROVE  [ts |-> t, ver |-> puts + 1] \in Row /\ [ts |-> t, ver |-> puts + 1].ts = t
  BY <1>1 DEF Row
<1>3. NewRows(stamps) = {[ts |-> t, ver |-> puts + 1] : t \in stamps}
  BY DEF NewRows
<1> QED
  BY <1>2, <1>3

\* The first write of a put or an append: what it prepares.
LEMMA WriteBeginShape ==
  ASSUME TypeInv, NEW m \in Months, NEW rows \in SUBSET Row, WriteBegin(m, rows)
  PROVE  \E e \in ChunkEntry :
           /\ out' = {e} /\ e.rows = rows /\ e.path.month = m
           /\ \A c \in InMonth(manifest, m) : c.gen < e.gen
           /\ \A c \in manifest : c.id < e.id
           /\ e.path = (IF InMonth(manifest, m) = {} THEN BasePath(m) ELSE MergedPath(m, e.gen))
           /\ \E lo, hi \in rows : e.start = lo.ts /\ e.end = hi.ts
           /\ \A r \in rows : e.start <= r.ts /\ r.ts <= e.end
<1>1. PICK g \in NextGeneration(InMonth(manifest, m)), i \in NextChunkId(manifest), lo \in rows,
           hi \in rows :
        /\ \A r \in rows : lo.ts <= r.ts /\ r.ts <= hi.ts
        /\ out' = {ScalarEntry(m, InMonth(manifest, m), g, i, lo.ts, hi.ts, rows)}
  BY DEF WriteBegin
<1>2. manifest \in SUBSET ChunkEntry /\ InMonth(manifest, m) \in SUBSET ChunkEntry
  BY DEF TypeInv, InMonth
<1>3. /\ g \in Nat /\ i \in Nat /\ (\A c \in InMonth(manifest, m) : c.gen < g)
      /\ \A c \in manifest : c.id < i
  BY <1>2, NextIsNew
<1>4. lo.ts \in Ts /\ hi.ts \in Ts
  BY DEF Row
<1> DEFINE e == ScalarEntry(m, InMonth(manifest, m), g, i, lo.ts, hi.ts, rows)
<1>5. /\ e \in ChunkEntry
      /\ e.path = (IF InMonth(manifest, m) = {} THEN BasePath(m) ELSE MergedPath(m, g))
      /\ e.id = i /\ e.gen = g /\ e.start = lo.ts /\ e.end = hi.ts /\ e.rows = rows
  BY <1>3, <1>4, ScalarEntryType
<1>6. e.path.month = m
  BY <1>5 DEF BasePath, MergedPath
<1> HIDE DEF e
<1>7. out' = {e}
  BY <1>1 DEF e
<1> QED
  BY <1>1, <1>3, <1>5, <1>6, <1>7

\* Both kinds of write, with the rows they bring.
LEMMA WriteBegins ==
  ASSUME TypeInv, NEW m \in Months, NEW stamps \in SUBSET Ts \ {{}},
         PutBegin(m, stamps) \/ AppendBegin(m, stamps)
  PROVE  \E rows \in SUBSET Row :
           /\ WriteBegin(m, rows) /\ MayMutate /\ puts < MaxPuts
           /\ \A r \in rows : r \in MonthRows(manifest, m) \/ MonthOf[r.ts] = m
           /\ \/ MonthRows(manifest, m) \subseteq rows
              \/ workload = "covering" => \A c \in InMonth(manifest, m) :
                   \E r, s \in rows : r.ts <= c.start /\ c.end <= s.ts
<1>1. CASE PutBegin(m, stamps)
  <2>1. /\ NewRows(stamps) \in SUBSET Row
        /\ \A r \in NewRows(stamps) : r.ts \in stamps
        /\ \A t \in stamps : \E r \in NewRows(stamps) : r.ts = t
    BY <1>1, NewRowsType DEF PutBegin
  <2>2. ASSUME workload = "covering", NEW c \in InMonth(manifest, m)
        PROVE  \E r, s \in NewRows(stamps) : r.ts <= c.start /\ c.end <= s.ts
    <3>1. PICK s \in stamps, t \in stamps : s <= c.start /\ c.end <= t
      BY <1>1, <2>2 DEF PutBegin
    <3> QED
      BY <2>1, <3>1
  <2> QED
    BY <1>1, <2>1, <2>2 DEF PutBegin
<1>2. CASE AppendBegin(m, stamps)
  <2>1. /\ NewRows(stamps) \in SUBSET Row /\ MonthRows(manifest, m) \in SUBSET Row
        /\ \A r \in NewRows(stamps) : r.ts \in stamps
    BY <1>2, NewRowsType, MonthRowsType DEF AppendBegin, TypeInv
  <2> QED
    BY <1>2, <2>1 DEF AppendBegin
<1> QED
  BY <1>1, <1>2

LEMMA TypeWriteBegin ==
  ASSUME TypeInv, NEW m \in Months, NEW rows \in SUBSET Row, WriteBegin(m, rows), puts < MaxPuts,
         MayMutate
  PROVE  TypeInv'
<1>1. out' \subseteq ChunkEntry
  BY WriteBeginShape
<1>2. open' \subseteq Write
  BY DEF WriteBegin, Write
<1>3. /\ UNCHANGED <<disk, index, manifest, sides, registered, obsolete, meta, todo, acked, fails,
                     rebuilds>>
      /\ puts' = puts + 1 /\ marker' = TRUE /\ pc' = "chunk" /\ todo = {}
  BY DEF WriteBegin, TypeInv, MayMutate
<1> QED
  BY <1>1, <1>2, <1>3, ScalarAssumption DEF TypeInv, Phases

LEMMA TypeRebuilt ==
  ASSUME TypeInv, Rebuilt
  PROVE  /\ manifest' \subseteq ChunkEntry /\ registered' = TRUE
         /\ \A s \in sides' : s.kind \in SidecarKinds
<1>1. \A f \in disk : Scanned(f) \in ChunkEntry
  BY ScannedFile DEF TypeInv
<1>2. manifest' \subseteq {Scanned(f) : f \in disk}
  BY DEF Rebuilt, SelectNonOverlapping
<1>3. ASSUME NEW s \in sides'
      PROVE  s.kind \in SidecarKinds
  <2>1. PICK x \in index : s = [path |-> x.path, kind |-> x.kind]
    BY DEF Rebuilt, SidecarsOnDisk
  <2>2. x.kind \in SidecarKinds /\ s.kind = x.kind
    BY <2>1 DEF TypeInv, Sidecar
  <2> QED
    BY <2>2
<1> QED
  BY <1>1, <1>2, <1>3 DEF Rebuilt

LEMMA AdoptType ==
  ASSUME NEW C \in SUBSET ChunkEntry, NEW f \in File
  PROVE  AdoptCandidate(C, f) \in SUBSET ChunkEntry
BY ScannedFile DEF AdoptCandidate

LEMMA TypeNext ==
  ASSUME TypeInv, [Next]_vars
  PROVE  TypeInv'
<1> USE DEF TypeInv, durable, local, callers, counted, Phases
<1>1. CASE RegisterBegin \/ RegisterSave \/ WriteRefused \/ CleanupDone
  BY <1>1 DEF RegisterBegin, RegisterSave, WriteRefused, CleanupDone, MayMutate
<1>2. ASSUME NEW m \in Months, NEW stamps \in SUBSET Ts \ {{}},
             PutBegin(m, stamps) \/ AppendBegin(m, stamps)
      PROVE  TypeInv'
  BY <1>2, WriteBegins, TypeWriteBegin
<1>3. CASE WriteChunk
  <2>1. PICK e \in out : disk' = disk \cup {FileOf(e)}
    BY <1>3 DEF WriteChunk
  <2>2. FileOf(e) \in File
    BY FileOfEntry
  <2> QED
    BY <1>3, <2>1, <2>2 DEF WriteChunk
<1>4. ASSUME NEW kind \in SidecarKinds, NEW next \in {"vix", "manifest"}, WriteSidecar(kind, next)
      PROVE  TypeInv'
  <2>1. PICK e \in out :
          index' = {s \in index : s.path # e.path \/ s.kind # kind} \cup {SidecarFile(e, kind)}
    BY <1>4 DEF WriteSidecar
  <2>2. SidecarFile(e, kind) \in Sidecar
    BY DEF SidecarFile, Sidecar, ChunkEntry
  <2>3. index' \subseteq Sidecar
    BY <2>1, <2>2
  <2>4. /\ UNCHANGED <<disk, manifest, sides, registered, marker, local, callers, counted>>
        /\ pc' \in Phases /\ todo = {}
    BY <1>4 DEF WriteSidecar, SidecarKinds
  <2> QED
    BY <2>3, <2>4
<1>5. CASE SaveManifest
  <2>1. PICK e \in out :
          /\ manifest' \subseteq manifest \cup {e} /\ obsolete' \subseteq manifest
          /\ sides' \subseteq sides \cup {[path |-> e.path, kind |-> k] : k \in SidecarKinds}
    BY <1>5 DEF SaveManifest, UpsertChunk, ReplaceMonth, InMonth
  <2>2. \A s \in sides' : s.kind \in SidecarKinds
    BY <2>1
  <2> QED
    BY <1>5, <2>1, <2>2 DEF SaveManifest
<1>6. CASE RemoveObsolete
  <2>1. /\ disk' \subseteq disk /\ index' \subseteq index /\ obsolete' \subseteq obsolete
        /\ todo = {} /\ UNCHANGED <<manifest, sides, registered, marker, pc, out, meta, todo>>
        /\ UNCHANGED <<callers, counted>>
    BY <1>6 DEF RemoveObsolete
  <2> QED
    BY <2>1
<1>7. CASE CommitMarker
  <2>1. acked' \in [Months -> SUBSET Row]
    BY <1>7 DEF CommitMarker, Write
  <2> QED
    BY <1>7, <2>1 DEF CommitMarker
<1>8. CASE RecoverBegin
  BY <1>8 DEF RecoverBegin
<1>9. CASE RecoverRebuild
  BY <1>9, TypeRebuilt DEF RecoverRebuild
<1>10. CASE RebuildManifest
  <2>1. rebuilds' \in 0..MaxRebuilds
    BY <1>10, ScalarAssumption DEF RebuildManifest
  <2>2. UNCHANGED <<disk, index, marker, pc, local, callers, puts, fails>>
    BY <1>10 DEF RebuildManifest
  <2>3. /\ manifest' \subseteq ChunkEntry /\ registered' = TRUE
        /\ \A s \in sides' : s.kind \in SidecarKinds
    BY <1>10, TypeRebuilt DEF RebuildManifest
  <2> QED
    BY <2>1, <2>2, <2>3
<1>11. CASE RecoverCandidate
  <2>1. PICK f \in todo : meta' = AdoptCandidate(meta, f) /\ todo' = todo \ {f}
    BY <1>11 DEF RecoverCandidate
  <2>2. meta' \subseteq ChunkEntry
    BY <2>1, AdoptType
  <2> QED
    BY <1>11, <2>1, <2>2 DEF RecoverCandidate
<1>12. CASE RecoverSave
  <2>1. ASSUME NEW s \in sides'
        PROVE  s.kind \in SidecarKinds
    <3>1. CASE s \in sides
      BY <3>1
    <3>2. CASE s \notin sides
      <4>1. PICK x \in index : s = [path |-> x.path, kind |-> x.kind]
        BY <1>12, <2>1, <3>2 DEF RecoverSave, SidecarsOnDisk
      <4>2. x.kind \in SidecarKinds /\ s.kind = x.kind
        BY <4>1 DEF Sidecar
      <4> QED
        BY <4>2
    <3> QED
      BY <3>1, <3>2
  <2> QED
    BY <1>12, <2>1 DEF RecoverSave
<1>13. CASE RecoverClear
  BY <1>13 DEF RecoverClear
<1>14. CASE Fail
  BY <1>14, ScalarAssumption DEF Fail
<1>15. CASE UNCHANGED vars
  BY <1>15 DEF vars
<1> QED
  BY <1>1, <1>2, <1>3, <1>4, <1>5, <1>6, <1>7, <1>8, <1>9, <1>10, <1>11, <1>12, <1>13, <1>14,
     <1>15 DEF Next, Step, SidecarKinds

(***************************************************************************)
(* The content of the months                                               *)
(***************************************************************************)
Content(C) == [m \in Months |-> MonthRows(C, m)]

\* Entries that settle every file show what the manifest shows, but for the
\* month of the write that is not settled, which may show its version.
LEMMA ContentMoves ==
  ASSUME TypeInv, CoverInv, NEW D \in SUBSET ChunkEntry, GoodEntries(D), AllSettled(D)
  PROVE  \/ Content(D) = Content(manifest)
         \/ \E w \in open : Content(D) = [Content(manifest) EXCEPT ![w.month] = w.rows]
<1>1. /\ \A c \in manifest : c \in ChunkEntry /\ FileOf(c) \in disk /\ Settled(FileOf(c), D)
      /\ \A c \in manifest :
           FileOf(c).path = c.path /\ FileOf(c).gen = c.gen /\ FileOf(c).rows = c.rows
      /\ \A d \in D : FileOf(d).path = d.path /\ FileOf(d).gen = d.gen /\ FileOf(d).rows = d.rows
  BY FileOfEntry DEF TypeInv, CoverInv, GoodEntries, AllSettled
<1>2. ASSUME NEW m \in Months
      PROVE  \/ MonthRows(D, m) = MonthRows(manifest, m)
             \/ \E w \in open : w.month = m /\ MonthRows(D, m) = w.rows
  <2>1. CASE InMonth(D, m) = {}
    <3>1. InMonth(manifest, m) = {}
      BY <1>1, <2>1 DEF InMonth, Settled, Within
    <3> QED
      BY <2>1, <3>1, MonthNone
  <2>2. ASSUME NEW d \in D, d.path.month = m
        PROVE  \/ MonthRows(D, m) = MonthRows(manifest, m)
               \/ \E w \in open : w.month = m /\ MonthRows(D, m) = w.rows
    <3>1. MonthRows(D, m) = d.rows /\ FileOf(d) \in disk
      BY <2>2, MonthOne DEF GoodEntries
    <3>2. CASE Settled(FileOf(d), manifest)
      <4>1. PICK c \in manifest : FileOf(c) = FileOf(d) \/ Within(FileOf(d), c)
        BY <3>2 DEF Settled
      <4>2. c.path.month = m
        BY <1>1, <2>2, <4>1 DEF Within
      <4>3. PICK b \in D : FileOf(b) = FileOf(c) \/ Within(FileOf(c), b)
        BY <1>1 DEF Settled
      <4>4. b.path.month = m
        BY <1>1, <4>2, <4>3 DEF Within
      <4>5. b = d
        BY <2>2, <4>4 DEF GoodEntries
      <4>6. FileOf(c) = FileOf(d)
        <5>1. c.gen \in Nat /\ d.gen \in Nat
          BY <1>1, Numbers
        <5>2. SUFFICES ASSUME FileOf(c) # FileOf(d)
                       PROVE  FALSE
          OBVIOUS
        <5>3. d.gen < c.gen /\ c.gen < d.gen
          BY <1>1, <4>1, <4>3, <4>5, <5>2 DEF Within
        <5> QED
          BY <5>1, <5>3
      <4>7. MonthRows(manifest, m) = c.rows
        BY <4>2, MonthOne DEF CoverInv, GoodEntries
      <4> QED
        BY <1>1, <3>1, <4>6, <4>7
    <3>3. CASE ~ Settled(FileOf(d), manifest)
      <4>1. PICK w \in open : FileOf(d).path.month = w.month /\ FileOf(d).rows = w.rows
        BY <3>1, <3>3 DEF CoverInv, OrphanInv
      <4> QED
        BY <1>1, <2>2, <3>1, <4>1
    <3> QED
      BY <3>2, <3>3
  <2> QED
    BY <2>1, <2>2 DEF InMonth
<1>3. CASE \A m \in Months : MonthRows(D, m) = MonthRows(manifest, m)
  BY <1>3 DEF Content
<1>4. ASSUME NEW n \in Months, MonthRows(D, n) # MonthRows(manifest, n)
      PROVE  \E w \in open : Content(D) = [Content(manifest) EXCEPT ![w.month] = w.rows]
  <2>1. PICK w \in open : w.month = n /\ MonthRows(D, n) = w.rows
    BY <1>2, <1>4
  <2>2. \A v \in open : v = w
    BY DEF CoverInv, PhaseInv
  <2>3. \A m \in Months : MonthRows(D, m) = IF m = n THEN w.rows ELSE MonthRows(manifest, m)
    BY <1>2, <2>1, <2>2
  <2>4. Content(D) = [Content(manifest) EXCEPT ![n] = w.rows]
    BY <2>3 DEF Content
  <2> QED
    BY <2>1, <2>4
<1> QED
  BY <1>3, <1>4

\* The manifest moves on to entries that settle every file.
LEMMA ManifestMoves ==
  ASSUME TypeInv, CoverInv, UNCHANGED <<disk, index, open>>, NEW D \in SUBSET ChunkEntry,
         GoodEntries(D), AllSettled(D), manifest' = D
  PROVE  /\ GoodDisk' /\ GoodEntries(manifest)' /\ AllSettled(manifest)'
         /\ OrphanInv' /\ IndexInv'
<1>1. GoodDisk'
  BY DEF CoverInv, GoodDisk
<1>2. GoodEntries(manifest)' /\ AllSettled(manifest)'
  BY DEF GoodEntries, AllSettled, Settled
<1>3. OrphanInv'
  BY <1>2 DEF OrphanInv, AllSettled
<1>4. ASSUME NEW c \in manifest
      PROVE  \E d \in D : c.path.month = d.path.month /\ c.gen <= d.gen
  <2>1. c \in ChunkEntry /\ FileOf(c) \in disk
    BY DEF TypeInv, CoverInv, GoodEntries
  <2>2. PICK d \in D : FileOf(d) = FileOf(c) \/ Within(FileOf(c), d)
    BY <2>1 DEF AllSettled, Settled
  <2>3. /\ FileOf(c).path = c.path /\ FileOf(c).gen = c.gen /\ c.gen \in Nat
        /\ FileOf(d).path = d.path /\ FileOf(d).gen = d.gen /\ d.gen \in Nat
    BY <2>1, FileOfEntry, Numbers
  <2> QED
    BY <2>2, <2>3 DEF Within
<1>5. IndexInv'
  <2>1. ASSUME NEW x \in index, x.path \notin Paths(disk)
        PROVE  \E d \in D : d.path.month = x.path.month /\ x.path.gen < d.gen
    <3>1. PICK c \in manifest : c.path.month = x.path.month /\ x.path.gen < c.gen
      BY <2>1 DEF CoverInv, IndexInv
    <3>2. PICK d \in D : c.path.month = d.path.month /\ c.gen <= d.gen
      BY <1>4
    <3>3. c.gen \in Nat /\ d.gen \in Nat /\ x.path.gen \in Nat
      BY Numbers DEF TypeInv, Sidecar, Path
    <3> QED
      BY <3>1, <3>2, <3>3
  <2>2. \A x \in index, f \in disk : x.path = f.path => x.rows = f.rows
    BY DEF CoverInv, IndexInv
  <2> QED
    BY <2>1, <2>2 DEF IndexInv
<1> QED
  BY <1>1, <1>2, <1>3, <1>5

(***************************************************************************)
(* The steps                                                               *)
(***************************************************************************)
LEMMA StaticParts ==
  ASSUME CoverInv, UNCHANGED <<disk, index, manifest, sides, open>>
  PROVE  /\ GoodDisk' /\ GoodEntries(manifest)' /\ OrphanInv' /\ IndexInv' /\ SidesInv'
         /\ AllSettled(manifest)' <=> AllSettled(manifest)
BY DEF CoverInv, GoodDisk, GoodEntries, OrphanInv, IndexInv, SidesInv, AllSettled, Settled

LEMMA CoverQuiet ==
  ASSUME TypeInv, CoverInv, RegisterBegin \/ RegisterSave \/ WriteRefused \/ CleanupDone \/ Fail
  PROVE  CoverInv' /\ UNCHANGED <<manifest, open, acked>>
<1>1. /\ UNCHANGED <<disk, index, manifest, sides, open, acked, versions>>
      /\ out' = out \/ out' = {}
  BY DEF RegisterBegin, RegisterSave, WriteRefused, CleanupDone, Fail, durable, local, callers
<1>2. /\ GoodDisk' /\ GoodEntries(manifest)' /\ OrphanInv' /\ IndexInv' /\ SidesInv'
      /\ AllSettled(manifest)' <=> AllSettled(manifest)
  BY <1>1, StaticParts
<1>3. pc' \in {"register", "commit", "idle"}
  BY DEF RegisterBegin, RegisterSave, WriteRefused, CleanupDone, Fail
<1>4. OutInv'
  BY <1>1, <1>3 DEF CoverInv, OutInv, InWrite
<1>5. PhaseInv'
  <2>1. CASE RegisterBegin
    BY <1>1, <1>2, <2>1 DEF RegisterBegin, MayMutate, CoverInv, PhaseInv
  <2>2. CASE RegisterSave
    BY <1>1, <1>2, <2>2 DEF RegisterSave, CoverInv, PhaseInv
  <2>3. CASE CleanupDone
    BY <1>1, <1>2, <2>3 DEF CleanupDone, CoverInv, PhaseInv, durable
  <2>4. CASE WriteRefused \/ Fail
    BY <1>1, <1>2, <2>4 DEF WriteRefused, Fail, CoverInv, PhaseInv, durable
  <2> QED
    BY <2>1, <2>2, <2>3, <2>4
<1>6. RecoverInv' /\ VersionInv'
  BY <1>1, <1>3 DEF CoverInv, RecoverInv, VersionInv
<1> QED
  BY <1>1, <1>2, <1>4, <1>5, <1>6 DEF CoverInv

\* A write that covers its month prepares a chunk above the entry of the month.
LEMMA CoverWriteBegin ==
  ASSUME TypeInv, CoverInv, workload = "covering", NEW m \in Months,
         NEW stamps \in SUBSET Ts \ {{}}, PutBegin(m, stamps) \/ AppendBegin(m, stamps)
  PROVE  /\ CoverInv' /\ UNCHANGED <<manifest, acked>> /\ open = {}
         /\ \E rows \in SUBSET Row : open' = {[month |-> m, rows |-> rows]}
<1>1. PICK rows \in SUBSET Row :
        /\ WriteBegin(m, rows) /\ MayMutate
        /\ \A r \in rows : r \in MonthRows(manifest, m) \/ MonthOf[r.ts] = m
        /\ \/ MonthRows(manifest, m) \subseteq rows
           \/ \A c \in InMonth(manifest, m) : \E r, s \in rows : r.ts <= c.start /\ c.end <= s.ts
  BY WriteBegins
<1>2. PICK e \in ChunkEntry :
        /\ out' = {e} /\ e.rows = rows /\ e.path.month = m
        /\ \A c \in InMonth(manifest, m) : c.gen < e.gen
        /\ \A c \in manifest : c.id < e.id
        /\ e.path = (IF InMonth(manifest, m) = {} THEN BasePath(m) ELSE MergedPath(m, e.gen))
        /\ \E lo, hi \in rows : e.start = lo.ts /\ e.end = hi.ts
        /\ \A r \in rows : e.start <= r.ts /\ r.ts <= e.end
  BY <1>1, WriteBeginShape
<1>3. /\ UNCHANGED <<disk, index, manifest, sides, acked>>
      /\ open' = {[month |-> m, rows |-> rows]} /\ versions' = versions \cup {rows}
      /\ marker' = TRUE /\ pc' = "chunk" /\ pc = "idle" /\ ~ marker
  BY <1>1 DEF WriteBegin, MayMutate
<1>4. open = {} /\ AllSettled(manifest)
  BY <1>3 DEF CoverInv, PhaseInv
<1>5. ASSUME NEW c \in InMonth(manifest, m)
      PROVE  /\ MonthRows(manifest, m) = c.rows /\ c \in ChunkEntry /\ GoodChunk(c)
             /\ c.path.month = m
  <2>1. c \in manifest /\ c.path.month = m /\ c \in ChunkEntry
    BY DEF InMonth, TypeInv
  <2>2. GoodChunk(c)
    BY <2>1, GoodFileOf DEF CoverInv, GoodEntries, GoodDisk
  <2> QED
    BY <2>1, <2>2, MonthOne DEF CoverInv, GoodEntries
<1>6. ASSUME NEW c \in InMonth(manifest, m)
      PROVE  Within(c, e)
  <2>1. /\ c.start \in Int /\ c.end \in Int /\ e.start \in Int /\ e.end \in Int
        /\ \A r \in Row : r.ts \in Int
    BY <1>5, Numbers, ScalarAssumption DEF Row
  <2>2. PICK r \in rows, s \in rows : r.ts <= c.start /\ c.end <= s.ts
    <3>1. CASE MonthRows(manifest, m) \subseteq rows
      <4>1. PICK lo \in c.rows, hi \in c.rows : c.start = lo.ts /\ c.end = hi.ts
        BY <1>5 DEF GoodChunk
      <4>2. lo \in rows /\ hi \in rows
        BY <1>5, <3>1
      <4> QED
        BY <2>1, <4>1, <4>2
    <3> QED
      BY <1>1, <3>1
  <2>3. e.start <= c.start /\ c.end <= e.end
    BY <1>2, <2>1, <2>2
  <2> QED
    BY <1>2, <1>5, <2>3 DEF Within
<1>7. GoodChunk(e)
  <2>1. \A r \in rows : MonthOf[r.ts] = m
    <3>1. SUFFICES ASSUME NEW r \in MonthRows(manifest, m)
                   PROVE  MonthOf[r.ts] = m
      BY <1>1
    <3>2. PICK c \in InMonth(manifest, m) : r \in c.rows
      BY DEF MonthRows, RowsOf
    <3>3. GoodChunk(c) /\ c.path.month = m /\ c \in ChunkEntry
      BY <1>5
    <3>4. /\ c.start \in Ts /\ c.end \in Ts /\ r.ts \in Ts
          /\ c.start <= r.ts /\ r.ts <= c.end /\ MonthOf[c.start] = m /\ MonthOf[c.end] = m
      BY <3>2, <3>3, Numbers DEF GoodChunk, Row
    <3> QED
      BY <3>4, ScalarAssumption
  <2>2. MonthOf[e.start] = m /\ MonthOf[e.end] = m
    BY <1>2, <2>1
  <2>3. /\ e.path.gen <= e.gen /\ (e.path.kind = "merged" => e.path.gen = e.gen)
        /\ e.path.kind = "base" => e.path.gen = 0
    BY <1>2, Numbers DEF BasePath, MergedPath
  <2> QED
    BY <1>2, <2>2, <2>3 DEF GoodChunk
<1>8. e.path.kind = "base" => InMonth(manifest, m) = {}
  BY <1>2 DEF MergedPath
<1>9. /\ GoodDisk' /\ GoodEntries(manifest)' /\ IndexInv' /\ SidesInv' /\ AllSettled(manifest)'
  BY <1>3, <1>4 DEF CoverInv, GoodDisk, GoodEntries, IndexInv, SidesInv, AllSettled, Settled
<1>10. OrphanInv'
  BY <1>9 DEF OrphanInv, AllSettled
<1>11. OutInv'
  <2>1. \E w \in open' : w.month = m /\ w.rows = rows
    BY <1>3
  <2>2. InMonth(manifest, m)' = InMonth(manifest, m)
    BY <1>3 DEF InMonth
  <2> QED
    BY <1>2, <1>3, <1>6, <1>7, <1>8, <2>1, <2>2 DEF OutInv, InWrite, InMonth
<1>12. PhaseInv'
  BY <1>3, <1>9 DEF PhaseInv
<1>13. RecoverInv' /\ VersionInv'
  BY <1>2, <1>3 DEF RecoverInv, VersionInv, CoverInv
<1> QED
  BY <1>3, <1>4, <1>9, <1>10, <1>11, <1>12, <1>13 DEF CoverInv

LEMMA CoverWriteChunk ==
  ASSUME TypeInv, CoverInv, WriteChunk
  PROVE  CoverInv' /\ UNCHANGED <<manifest, open, acked>>
<1>1. PICK e \in out : e.path \notin Paths(disk) /\ disk' = disk \cup {FileOf(e)}
  BY DEF WriteChunk
<1>2. /\ UNCHANGED <<index, manifest, sides, marker, out, open, acked, versions>>
      /\ pc = "chunk" /\ pc' = "zmap"
  BY DEF WriteChunk, local, callers
<1> DEFINE f == FileOf(e)
<1>3. /\ e \in ChunkEntry /\ f \in File /\ f.path = e.path /\ f.gen = e.gen /\ f.rows = e.rows
      /\ f.start = e.start /\ f.end = e.end
  BY FileOfEntry DEF TypeInv
<1>4. /\ GoodChunk(e) /\ (\A c \in InMonth(manifest, e.path.month) : Within(c, e))
      /\ e.path.kind = "base" => InMonth(manifest, e.path.month) = {}
      /\ \E w \in open : w.month = e.path.month /\ w.rows = e.rows
      /\ AllSettled(manifest) /\ \A d \in out : d = e
  BY <1>2 DEF CoverInv, OutInv, PhaseInv, InWrite
<1>5. f \notin disk /\ \A g \in disk : g.path # f.path
  BY <1>1, <1>3 DEF Paths
<1>6. ASSUME NEW g \in disk, g.path.month = f.path.month
      PROVE  Within(g, f)
  <2>1. PICK c \in manifest : FileOf(c) = g \/ Within(g, c)
    BY <1>4 DEF AllSettled, Settled
  <2>2. c \in ChunkEntry /\ g \in File
    BY DEF TypeInv
  <2>3. c.path.month = e.path.month
    BY <1>3, <1>6, <2>1, <2>2, FileOfEntry DEF Within
  <2>4. Within(c, f)
    BY <1>3, <1>4, <2>3 DEF InMonth, Within
  <2>5. CASE FileOf(c) = g
    BY <2>2, <2>4, <2>5, WithinFiles
  <2>6. CASE Within(g, c)
    BY <1>3, <2>2, <2>4, <2>6, WithinTransitive
  <2> QED
    BY <2>1, <2>5, <2>6
<1>7. GoodChunk(f)
  BY <1>3, <1>4, GoodFileOf
<1> HIDE DEF f
<1>8. disk' = disk \cup {f}
  BY <1>1 DEF f
<1>9. GoodDisk'
  <2>1. \A g \in disk' : GoodChunk(g)
    BY <1>7, <1>8 DEF CoverInv, GoodDisk
  <2>2. ASSUME NEW g \in disk', NEW h \in disk', g.path = h.path
        PROVE  g = h
    BY <1>5, <1>8, <2>2 DEF CoverInv, GoodDisk
  <2>3. ASSUME NEW g \in disk', NEW h \in disk', g.path.month = h.path.month
        PROVE  g = h \/ Within(g, h) \/ Within(h, g)
    BY <1>6, <1>8, <2>3 DEF CoverInv, GoodDisk
  <2> QED
    BY <2>1, <2>2, <2>3 DEF GoodDisk
<1>10. GoodEntries(manifest)'
  BY <1>2, <1>8 DEF CoverInv, GoodEntries
<1>11. \A g \in disk' : Settled(g, manifest) \/ g = f
  BY <1>4, <1>8 DEF AllSettled
<1>12. \A g : Settled(g, manifest)' <=> Settled(g, manifest)
  BY <1>2 DEF Settled
<1>13. OrphanInv'
  <2>1. PICK w \in open : w.month = e.path.month /\ w.rows = e.rows
    BY <1>4
  <2> QED
    BY <1>2, <1>3, <1>11, <1>12, <2>1 DEF OrphanInv
<1>14. \A x \in index : x.path # f.path
  <2>1. SUFFICES ASSUME NEW x \in index, x.path = f.path
                 PROVE  FALSE
    OBVIOUS
  <2>2. x.path \notin Paths(disk)
    BY <1>1, <1>3, <2>1 DEF f
  <2>3. PICK c \in manifest : c.path.month = x.path.month /\ x.path.gen < c.gen
    BY <2>2 DEF CoverInv, IndexInv
  <2>4. c \in InMonth(manifest, e.path.month)
    BY <1>3, <2>1, <2>3 DEF InMonth, f
  <2>5. e.path.kind # "base" /\ c.gen < e.gen /\ e.path.kind \in {"base", "merged"}
    BY <1>3, <1>4, <2>4 DEF Within, ChunkEntry, Path
  <2>6. e.path.gen = e.gen
    BY <1>4, <2>5 DEF GoodChunk
  <2>7. x.path.gen = e.gen /\ c.gen \in Nat /\ e.gen \in Nat
    BY <1>3, <2>1, <2>6, Numbers DEF TypeInv, f
  <2> QED
    BY <2>3, <2>5, <2>7
<1>15. IndexInv'
  <2>1. \A x \in index, g \in disk \cup {f} : x.path = g.path => x.rows = g.rows
    BY <1>14 DEF CoverInv, IndexInv
  <2>2. \A x \in index : \/ x.path \in Paths(disk')
                         \/ \E c \in manifest : c.path.month = x.path.month /\ x.path.gen < c.gen
    BY <1>8 DEF CoverInv, IndexInv, Paths
  <2> QED
    BY <1>2, <1>8, <2>1, <2>2 DEF IndexInv
<1>16. SidesInv'
  BY <1>2 DEF CoverInv, SidesInv
<1>17. OutInv'
  <2>1. \A d \in out' : d = e
    BY <1>2, <1>4
  <2>2. \A c \in manifest : c.id < e.id
    BY <1>2 DEF CoverInv, OutInv, InWrite
  <2>3. InMonth(manifest, e.path.month)' = InMonth(manifest, e.path.month)
    BY <1>2 DEF InMonth
  <2>4. f \in disk' /\ f = FileOf(e)
    BY <1>8 DEF f
  <2> QED
    BY <1>2, <1>4, <1>11, <1>12, <2>1, <2>2, <2>3, <2>4 DEF OutInv, InWrite, InMonth
<1>18. PhaseInv'
  BY <1>2 DEF CoverInv, PhaseInv
<1>19. RecoverInv' /\ VersionInv'
  BY <1>2, <1>3, <1>8 DEF RecoverInv, VersionInv, CoverInv, f
<1> QED
  BY <1>2, <1>9, <1>10, <1>13, <1>15, <1>16, <1>17, <1>18, <1>19 DEF CoverInv

LEMMA CoverWriteSidecar ==
  ASSUME TypeInv, CoverInv, WriteSidecar("zmap", "vix") \/ WriteSidecar("vix", "manifest")
  PROVE  CoverInv' /\ UNCHANGED <<manifest, open, acked>>
<1>1. PICK kind \in SidecarKinds, next \in {"vix", "manifest"} :
        WriteSidecar(kind, next) /\ (kind = "zmap" <=> next = "vix")
  BY DEF SidecarKinds
<1>2. PICK e \in out :
        index' = {s \in index : s.path # e.path \/ s.kind # kind} \cup {SidecarFile(e, kind)}
  BY <1>1 DEF WriteSidecar
<1>3. /\ UNCHANGED <<disk, manifest, sides, marker, out, open, acked, versions>>
      /\ pc = kind /\ pc' = next
  BY <1>1 DEF WriteSidecar, local, callers
<1>4. /\ FileOf(e) \in disk /\ FileOf(e).path = e.path /\ FileOf(e).rows = e.rows
      /\ \A d \in out : d = e
  BY <1>3, FileOfEntry DEF CoverInv, OutInv, InWrite, SidecarKinds, TypeInv
<1> DEFINE y == SidecarFile(e, kind)
<1>5. y.path = e.path /\ y.kind = kind /\ y.rows = e.rows
  BY DEF SidecarFile
<1> HIDE DEF y
<1>6. index' = {s \in index : s.path # e.path \/ s.kind # kind} \cup {y}
  BY <1>2 DEF y
<1>7. GoodDisk' /\ GoodEntries(manifest)' /\ OrphanInv'
  BY <1>3 DEF CoverInv, GoodDisk, GoodEntries, OrphanInv, Settled
<1>8. IndexInv'
  <2>1. ASSUME NEW x \in index', NEW f \in disk, x.path = f.path
        PROVE  x.rows = f.rows
    <3>1. CASE x = y
      BY <1>4, <1>5, <2>1, <3>1 DEF CoverInv, GoodDisk
    <3>2. CASE x \in index
      BY <2>1, <3>2 DEF CoverInv, IndexInv
    <3> QED
      BY <1>6, <3>1, <3>2
  <2>2. ASSUME NEW x \in index'
        PROVE  \/ x.path \in Paths(disk)
               \/ \E c \in manifest : c.path.month = x.path.month /\ x.path.gen < c.gen
    <3>1. CASE x = y
      BY <1>4, <1>5, <3>1 DEF Paths
    <3>2. CASE x \in index
      BY <3>2 DEF CoverInv, IndexInv
    <3> QED
      BY <1>6, <3>1, <3>2
  <2>3. Paths(disk)' = Paths(disk)
    BY <1>3 DEF Paths
  <2> QED
    BY <1>3, <2>1, <2>2, <2>3 DEF IndexInv
<1>9. ASSUME NEW p, NEW k, \E x \in index : x.path = p /\ x.kind = k
      PROVE  \E x \in index' : x.path = p /\ x.kind = k
  BY <1>5, <1>6, <1>9
<1>10. SidesInv'
  <2>1. \A s \in sides : /\ s.path \in Paths(manifest)
                         /\ \E x \in index' : x.path = s.path /\ x.kind = s.kind
    BY <1>9 DEF CoverInv, SidesInv
  <2> QED
    BY <1>3, <2>1 DEF SidesInv, Paths
<1>11. OutInv'
  <2>1. \E x \in index' : x.path = e.path /\ x.kind = kind
    BY <1>5, <1>6
  <2>2. next = "manifest" => \E x \in index' : x.path = e.path /\ x.kind = "zmap"
    <3>1. next = "manifest" => \E x \in index : x.path = e.path /\ x.kind = "zmap"
      BY <1>1, <1>3 DEF CoverInv, OutInv, SidecarKinds
    <3> QED
      BY <1>9, <3>1
  <2>3. pc \in InWrite \ {"chunk"}
    BY <1>3 DEF InWrite, SidecarKinds
  <2>4. InMonth(manifest, e.path.month)' = InMonth(manifest, e.path.month)
    BY <1>3 DEF InMonth
  <2>5. \A f : Settled(f, manifest)' <=> Settled(f, manifest)
    BY <1>3 DEF Settled
  <2>6. /\ GoodChunk(e) /\ (\A c \in manifest : c.id < e.id)
        /\ (\A c \in InMonth(manifest, e.path.month) : Within(c, e))
        /\ e.path.kind = "base" => InMonth(manifest, e.path.month) = {}
        /\ \E w \in open : w.month = e.path.month /\ w.rows = e.rows
        /\ \A f \in disk : Settled(f, manifest) \/ f = FileOf(e)
    BY <2>3 DEF CoverInv, OutInv
  <2>7. (next = "vix" => kind = "zmap") /\ (next = "manifest" => kind = "vix")
    BY <1>1 DEF SidecarKinds
  <2> QED
    BY <1>3, <1>4, <2>1, <2>2, <2>4, <2>5, <2>6, <2>7 DEF OutInv, InMonth
<1>12. PhaseInv'
  BY <1>3 DEF CoverInv, PhaseInv, AllSettled, Settled, SidecarKinds
<1>13. RecoverInv' /\ VersionInv'
  BY <1>3 DEF RecoverInv, VersionInv, CoverInv
<1> QED
  BY <1>3, <1>7, <1>8, <1>10, <1>11, <1>12, <1>13 DEF CoverInv

LEMMA CoverSave ==
  ASSUME TypeInv, CoverInv, SaveManifest
  PROVE  /\ CoverInv' /\ UNCHANGED <<open, acked>>
         /\ \E w \in open : Content(manifest') = [Content(manifest) EXCEPT ![w.month] = w.rows]
<1>1. PICK e \in out :
        /\ manifest' = IF InMonth(manifest, e.path.month) = {} THEN UpsertChunk(manifest, e)
                       ELSE ReplaceMonth(manifest, e.path.month, e)
        /\ sides' = {s \in sides : s.path \notin Paths(InMonth(manifest, e.path.month))}
                      \cup {[path |-> e.path, kind |-> k] : k \in SidecarKinds}
        /\ obsolete' = InMonth(manifest, e.path.month)
  BY DEF SaveManifest
<1>2. /\ UNCHANGED <<disk, index, marker, out, open, acked, versions>>
      /\ pc = "manifest" /\ pc' = "cleanup"
  BY DEF SaveManifest, callers
<1> DEFINE m == e.path.month
           D == (manifest \ InMonth(manifest, m)) \cup {e}
<1>3. /\ e \in ChunkEntry /\ manifest \in SUBSET ChunkEntry /\ FileOf(e) \in disk
      /\ GoodChunk(e) /\ (\A c \in InMonth(manifest, m) : Within(c, e))
      /\ (\A c \in manifest : c.id < e.id) /\ m \in Months
      /\ \A f \in disk : Settled(f, manifest) \/ f = FileOf(e)
  BY <1>2, Numbers DEF TypeInv, CoverInv, OutInv, InWrite
<1>4. PICK w \in open : w.month = m /\ w.rows = e.rows
  BY <1>2 DEF CoverInv, OutInv, InWrite
<1>5. manifest' = D
  <2>1. \A c \in manifest : c.id # e.id
    BY <1>3 DEF ChunkEntry
  <2> QED
    BY <1>1, <2>1 DEF UpsertChunk, ReplaceMonth
<1>6. D \in SUBSET ChunkEntry /\ \A c \in D : c = e \/ (c \in manifest /\ c.path.month # m)
  BY <1>3 DEF InMonth
<1>7. GoodEntries(D)
  BY <1>3, <1>6 DEF CoverInv, GoodEntries
<1>8. \A c \in manifest : Settled(FileOf(c), D)
  BY <1>3, WithinFiles DEF Settled, InMonth
<1>9. AllSettled(D)
  <2>1. ASSUME NEW f \in disk
        PROVE  Settled(f, D)
    <3>1. CASE f = FileOf(e)
      BY <3>1 DEF Settled
    <3>2. CASE Settled(f, manifest)
      BY <1>3, <1>6, <1>8, <3>2, SettledStep DEF TypeInv
    <3> QED
      BY <1>3, <3>1, <3>2
  <2> QED
    BY <2>1 DEF AllSettled
<1>10. /\ GoodDisk' /\ GoodEntries(manifest)' /\ AllSettled(manifest)'
       /\ OrphanInv' /\ IndexInv'
  BY <1>2, <1>5, <1>6, <1>7, <1>9, ManifestMoves
<1>11. Content(D) = [Content(manifest) EXCEPT ![m] = e.rows]
  <2>1. MonthRows(D, m) = e.rows
    BY <1>7, MonthOne DEF GoodEntries
  <2>2. ASSUME NEW n \in Months, n # m
        PROVE  MonthRows(D, n) = MonthRows(manifest, n)
    <3>1. InMonth(D, n) = InMonth(manifest, n)
      BY <2>2 DEF InMonth
    <3> QED
      BY <3>1 DEF MonthRows
  <2> QED
    BY <1>3, <2>1, <2>2 DEF Content
<1>12. SidesInv'
  <2>1. ASSUME NEW s \in sides'
        PROVE  s.path \in Paths(D) /\ \E x \in index : x.path = s.path /\ x.kind = s.kind
    <3>1. CASE s \in {[path |-> e.path, kind |-> k] : k \in SidecarKinds}
      <4>1. s.path = e.path /\ s.kind \in {"zmap", "vix"}
        BY <3>1 DEF SidecarKinds
      <4>2. \E x \in index : x.path = s.path /\ x.kind = s.kind
        BY <1>2, <4>1 DEF CoverInv, OutInv
      <4> QED
        BY <4>1, <4>2 DEF Paths
    <3>2. CASE s \in sides /\ s.path \notin Paths(InMonth(manifest, m))
      <4>1. s.path \in Paths(manifest) /\ \E x \in index : x.path = s.path /\ x.kind = s.kind
        BY <3>2 DEF CoverInv, SidesInv
      <4> QED
        BY <3>2, <4>1 DEF Paths
    <3> QED
      BY <1>1, <2>1, <3>1, <3>2
  <2>2. Paths(manifest)' = Paths(D)
    BY <1>5 DEF Paths
  <2> QED
    BY <1>2, <2>1, <2>2 DEF SidesInv
<1>13. OutInv'
  BY <1>2 DEF CoverInv, OutInv, InWrite
<1>14. PhaseInv'
  <2>1. ASSUME NEW v \in open'
        PROVE  MonthRows(manifest', v.month) = v.rows
    <3>1. v = w
      BY <1>2 DEF CoverInv, PhaseInv
    <3>2. MonthRows(D, m) = e.rows
      BY <1>7, MonthOne DEF GoodEntries
    <3> QED
      BY <1>4, <1>5, <3>1, <3>2
  <2>2. ASSUME NEW c \in obsolete'
        PROVE  /\ c.path \notin Paths(manifest') /\ c.path.gen <= c.gen
               /\ \E d \in manifest' : Within(c, d)
    <3>1. /\ c \in manifest /\ c.path.month = m /\ Within(c, e)
          /\ c \in ChunkEntry /\ FileOf(c) \in disk
      BY <1>1, <1>3, <2>2 DEF InMonth, CoverInv, GoodEntries
    <3>2. GoodChunk(c)
      BY <3>1, GoodFileOf DEF CoverInv, GoodDisk
    <3>3. c.path # e.path
      <4>1. FileOf(c) # FileOf(e)
        BY <1>3, <3>1, FileOfEntry, Numbers DEF Within
      <4> QED
        BY <1>3, <3>1, <4>1, FileOfEntry DEF CoverInv, GoodDisk
    <3>4. c.path \notin Paths(D)
      BY <1>6, <3>1, <3>3 DEF Paths
    <3> QED
      BY <1>5, <3>1, <3>2, <3>4 DEF GoodChunk
  <2>3. \A v, x \in open' : v = x
    BY <1>2 DEF CoverInv, PhaseInv
  <2>4. marker' = TRUE
    BY <1>2 DEF CoverInv, PhaseInv, TypeInv
  <2> QED
    BY <1>2, <1>10, <2>1, <2>2, <2>3, <2>4 DEF PhaseInv
<1>15. RecoverInv' /\ VersionInv'
  BY <1>2 DEF RecoverInv, VersionInv, CoverInv
<1> QED
  BY <1>2, <1>4, <1>5, <1>10, <1>11, <1>12, <1>13, <1>14, <1>15 DEF CoverInv

LEMMA CoverRemove ==
  ASSUME TypeInv, CoverInv, RemoveObsolete
  PROVE  CoverInv' /\ UNCHANGED <<manifest, open, acked>>
<1>1. PICK c \in obsolete :
        /\ obsolete' = obsolete \ {c} /\ disk' \in {disk, disk \ {FileOf(c)}}
        /\ \E kept \in SUBSET {s \in index : s.path = c.path} :
             index' = {s \in index : s.path # c.path} \cup kept
  BY DEF RemoveObsolete
<1>2. /\ UNCHANGED <<manifest, sides, marker, pc, out, open, acked, versions>> /\ pc = "cleanup"
  BY DEF RemoveObsolete, callers
<1>3. /\ c.path \notin Paths(manifest) /\ c.path.gen <= c.gen /\ c \in ChunkEntry
      /\ \E d \in manifest : Within(c, d)
  BY <1>2 DEF CoverInv, PhaseInv, TypeInv
<1>4. /\ index' \subseteq index /\ \A x \in index : x.path # c.path => x \in index'
  BY <1>1
<1>5. FileOf(c).path = c.path
  BY <1>3, FileOfEntry
<1>6. /\ disk' \subseteq disk /\ \A f \in disk : f.path # c.path => f \in disk'
      /\ \A d \in manifest : d.path # c.path
  BY <1>1, <1>3, <1>5 DEF Paths
<1>7. GoodDisk'
  BY <1>6 DEF CoverInv, GoodDisk
<1>8. GoodEntries(manifest)'
  <2>1. \A d \in manifest : FileOf(d) \in disk /\ FileOf(d).path = d.path
    BY FileOfEntry DEF CoverInv, GoodEntries, TypeInv
  <2> QED
    BY <1>2, <1>6, <2>1 DEF CoverInv, GoodEntries
<1>9. AllSettled(manifest)' /\ OrphanInv'
  <2>1. \A f \in disk' : Settled(f, manifest)
    BY <1>2, <1>6 DEF CoverInv, PhaseInv, AllSettled
  <2> QED
    BY <1>2, <2>1 DEF AllSettled, OrphanInv, Settled
<1>10. IndexInv'
  <2>1. ASSUME NEW x \in index'
        PROVE  \/ x.path \in Paths(disk')
               \/ \E d \in manifest : d.path.month = x.path.month /\ x.path.gen < d.gen
    <3>1. x \in index
      BY <1>4
    <3>2. CASE x.path = c.path
      <4>1. PICK d \in manifest : Within(c, d)
        BY <1>3
      <4>2. c.path.gen < d.gen
        BY <1>3, <4>1, Numbers DEF Within, TypeInv
      <4> QED
        BY <3>2, <4>1, <4>2 DEF Within
    <3>3. CASE x.path # c.path
      BY <1>6, <3>1, <3>3 DEF CoverInv, IndexInv, Paths
    <3> QED
      BY <3>2, <3>3
  <2>2. \A x \in index', f \in disk' : x.path = f.path => x.rows = f.rows
    BY <1>4, <1>6 DEF CoverInv, IndexInv
  <2> QED
    BY <1>2, <2>1, <2>2 DEF IndexInv
<1>11. SidesInv'
  <2>1. ASSUME NEW s \in sides
        PROVE  s.path \in Paths(manifest) /\ \E x \in index' : x.path = s.path /\ x.kind = s.kind
    <3>1. PICK x \in index : x.path = s.path /\ x.kind = s.kind
      BY DEF CoverInv, SidesInv
    <3>2. s.path \in Paths(manifest)
      BY DEF CoverInv, SidesInv
    <3> QED
      BY <1>3, <1>4, <3>1, <3>2
  <2> QED
    BY <1>2, <2>1 DEF SidesInv, Paths
<1>12. OutInv'
  BY <1>2 DEF CoverInv, OutInv, InWrite
<1>13. PhaseInv'
  <2>1. \A d \in obsolete' : /\ d.path \notin Paths(manifest) /\ d.path.gen <= d.gen
                             /\ \E b \in manifest : Within(d, b)
    BY <1>1, <1>2 DEF CoverInv, PhaseInv
  <2> QED
    BY <1>2, <1>9, <2>1 DEF CoverInv, PhaseInv, Paths
<1>14. RecoverInv' /\ VersionInv'
  BY <1>2, <1>6 DEF RecoverInv, VersionInv, CoverInv
<1> QED
  BY <1>2, <1>7, <1>8, <1>9, <1>10, <1>11, <1>12, <1>13, <1>14 DEF CoverInv

LEMMA CoverCommit ==
  ASSUME TypeInv, CoverInv, CommitMarker
  PROVE  /\ CoverInv' /\ UNCHANGED manifest /\ open' = {}
         /\ \/ open = {} /\ UNCHANGED acked
            \/ \E w \in open : /\ MonthRows(manifest, w.month) = w.rows
                               /\ acked' = [acked EXCEPT ![w.month] = w.rows]
<1>1. /\ UNCHANGED <<disk, index, manifest, sides, meta, todo, versions>>
      /\ pc = "commit" /\ pc' = "idle" /\ out' = {} /\ open' = {} /\ marker' = FALSE
  BY DEF CommitMarker
<1>2. AllSettled(manifest) /\ \A w \in open : MonthRows(manifest, w.month) = w.rows
  BY <1>1 DEF CoverInv, PhaseInv
<1>3. \/ open = {} /\ UNCHANGED acked
      \/ \E w \in open : /\ MonthRows(manifest, w.month) = w.rows
                         /\ acked' = [acked EXCEPT ![w.month] = w.rows]
  BY <1>2 DEF CommitMarker
<1>4. GoodDisk' /\ GoodEntries(manifest)' /\ IndexInv' /\ SidesInv' /\ AllSettled(manifest)'
  BY <1>1, <1>2 DEF CoverInv, GoodDisk, GoodEntries, IndexInv, SidesInv, AllSettled, Settled
<1>5. OrphanInv'
  BY <1>4 DEF OrphanInv, AllSettled
<1>6. OutInv' /\ PhaseInv' /\ RecoverInv' /\ VersionInv'
  BY <1>1, <1>4 DEF CoverInv, OutInv, InWrite, PhaseInv, RecoverInv, VersionInv
<1> QED
  BY <1>1, <1>3, <1>4, <1>5, <1>6 DEF CoverInv

LEMMA CoverRecoverBegin ==
  ASSUME TypeInv, CoverInv, RecoverBegin
  PROVE  CoverInv' /\ UNCHANGED <<manifest, open, acked>>
<1>1. /\ UNCHANGED <<disk, index, manifest, sides, marker, out, open, acked, versions>>
      /\ pc' = "recover" /\ meta' = manifest /\ todo' = disk
  BY DEF RecoverBegin, durable, callers
<1>2. /\ GoodDisk' /\ GoodEntries(manifest)' /\ OrphanInv' /\ IndexInv' /\ SidesInv'
      /\ AllSettled(manifest)' <=> AllSettled(manifest)
  BY <1>1, StaticParts
<1>3. OutInv' /\ PhaseInv' /\ VersionInv'
  BY <1>1, <1>2 DEF CoverInv, OutInv, InWrite, PhaseInv, VersionInv
<1>4. RecoverInv'
  <2>1. GoodEntries(meta)'
    BY <1>1, <1>2 DEF GoodEntries
  <2>2. \A c \in manifest' : Settled(FileOf(c), meta')
    BY <1>1 DEF Settled
  <2> QED
    BY <1>1, <2>1, <2>2 DEF RecoverInv
<1> QED
  BY <1>1, <1>2, <1>3, <1>4 DEF CoverInv

LEMMA CoverRecoverCandidate ==
  ASSUME TypeInv, CoverInv, RecoverCandidate
  PROVE  CoverInv' /\ UNCHANGED <<manifest, open, acked>>
<1>1. /\ UNCHANGED <<disk, index, manifest, sides, marker, pc, out, open, acked, versions>>
      /\ pc = "recover"
  BY DEF RecoverCandidate, durable, callers
<1>2. PICK f \in todo : meta' = AdoptCandidate(meta, f) /\ todo' = todo \ {f}
  BY DEF RecoverCandidate
<1>3. /\ disk \subseteq File /\ f \in disk /\ meta \in SUBSET ChunkEntry /\ GoodDisk
      /\ GoodEntries(meta) /\ (\A c \in manifest : Settled(FileOf(c), meta))
      /\ (\A g \in disk : Settled(g, meta) \/ g \in todo)
      /\ \A c \in manifest : FileOf(c) \in File
  BY <1>1, FileOfEntry DEF TypeInv, CoverInv, RecoverInv
<1>4. /\ meta' \in SUBSET ChunkEntry /\ GoodEntries(AdoptCandidate(meta, f)) /\ Settled(f, meta')
      /\ \A c \in meta : Settled(FileOf(c), meta')
  BY <1>2, <1>3, AdoptSettles
<1>5. ASSUME NEW g \in File, Settled(g, meta)
      PROVE  Settled(g, meta')
  BY <1>3, <1>4, <1>5, SettledStep
<1>6. /\ GoodDisk' /\ GoodEntries(manifest)' /\ OrphanInv' /\ IndexInv' /\ SidesInv'
      /\ AllSettled(manifest)' <=> AllSettled(manifest)
  BY <1>1, StaticParts
<1>7. OutInv' /\ PhaseInv' /\ VersionInv'
  BY <1>1, <1>6 DEF CoverInv, OutInv, InWrite, PhaseInv, VersionInv
<1>8. RecoverInv'
  <2>1. GoodEntries(meta)'
    BY <1>1, <1>2, <1>4 DEF GoodEntries
  <2>2. \A c \in manifest' : Settled(FileOf(c), meta')
    BY <1>1, <1>3, <1>5
  <2>3. \A g \in disk' : Settled(g, meta') \/ g \in todo'
    BY <1>1, <1>2, <1>3, <1>4, <1>5
  <2> QED
    BY <2>1, <2>2, <2>3 DEF RecoverInv
<1> QED
  BY <1>1, <1>6, <1>7, <1>8 DEF CoverInv

\* The content of the manifest stays or becomes that of the open write.
Published ==
  \/ Content(manifest') = Content(manifest)
  \/ \E w \in open : Content(manifest') = [Content(manifest) EXCEPT ![w.month] = w.rows]

LEMMA CoverRecoverSave ==
  ASSUME TypeInv, CoverInv, RecoverSave
  PROVE  CoverInv' /\ UNCHANGED <<open, acked>> /\ Published
<1>1. /\ UNCHANGED <<disk, index, marker, out, meta, todo, open, acked, versions>>
      /\ pc = "recover" /\ todo = {} /\ pc' = "recover_clear" /\ manifest' = meta
      /\ sides' = {s \in sides : s.path \in Paths(meta)}
                    \cup SidecarsOnDisk({c \in meta : c.path \notin Paths(manifest)})
  BY DEF RecoverSave, local, callers
<1>2. meta \in SUBSET ChunkEntry /\ GoodEntries(meta) /\ AllSettled(meta)
  BY <1>1 DEF TypeInv, CoverInv, RecoverInv, AllSettled
<1>3. GoodDisk' /\ GoodEntries(manifest)' /\ AllSettled(manifest)' /\ OrphanInv' /\ IndexInv'
  BY <1>1, <1>2, ManifestMoves
<1>4. Published
  BY <1>1, <1>2, ContentMoves DEF Published
<1>5. SidesInv'
  <2>1. ASSUME NEW s \in sides'
        PROVE  s.path \in Paths(meta) /\ \E x \in index : x.path = s.path /\ x.kind = s.kind
    <3>1. CASE s \in sides /\ s.path \in Paths(meta)
      BY <3>1 DEF CoverInv, SidesInv
    <3>2. CASE s \in SidecarsOnDisk({c \in meta : c.path \notin Paths(manifest)})
      BY <3>2 DEF SidecarsOnDisk, Paths
    <3> QED
      BY <1>1, <2>1, <3>1, <3>2
  <2>2. Paths(manifest)' = Paths(meta)
    BY <1>1 DEF Paths
  <2> QED
    BY <1>1, <2>1, <2>2 DEF SidesInv
<1>6. OutInv' /\ PhaseInv' /\ RecoverInv' /\ VersionInv'
  BY <1>1, <1>3 DEF CoverInv, OutInv, InWrite, PhaseInv, RecoverInv, VersionInv
<1> QED
  BY <1>1, <1>3, <1>4, <1>5, <1>6 DEF CoverInv

LEMMA CoverRecoverClear ==
  ASSUME TypeInv, CoverInv, RecoverClear
  PROVE  CoverInv' /\ UNCHANGED <<manifest, acked>> /\ open' = {}
<1>1. /\ UNCHANGED <<disk, index, manifest, sides, out, acked, versions>>
      /\ pc = "recover_clear" /\ pc' = "idle" /\ open' = {}
  BY DEF RecoverClear
<1>2. AllSettled(manifest)
  BY <1>1 DEF CoverInv, PhaseInv
<1>3. GoodDisk' /\ GoodEntries(manifest)' /\ IndexInv' /\ SidesInv' /\ AllSettled(manifest)'
  BY <1>1, <1>2 DEF CoverInv, GoodDisk, GoodEntries, IndexInv, SidesInv, AllSettled, Settled
<1>4. OrphanInv'
  BY <1>3 DEF OrphanInv, AllSettled
<1>5. OutInv' /\ PhaseInv' /\ RecoverInv' /\ VersionInv'
  BY <1>1, <1>3 DEF CoverInv, OutInv, InWrite, PhaseInv, RecoverInv, VersionInv
<1> QED
  BY <1>1, <1>3, <1>4, <1>5 DEF CoverInv

\* A manifest rebuilt from the files, by recovery or by hand.
LEMMA CoverRebuilt ==
  ASSUME TypeInv, CoverInv, RecoverRebuild \/ RebuildManifest
  PROVE  CoverInv' /\ UNCHANGED <<open, acked>> /\ Published
<1>1. /\ UNCHANGED <<disk, index, marker, out, open, acked, versions>> /\ pc = "idle"
      /\ pc' = "idle" \/ (pc' = "recover" /\ meta' = manifest' /\ todo' = disk)
  BY DEF RecoverRebuild, RebuildManifest, local, callers
<1> DEFINE S == {Scanned(f) : f \in disk}
           D == SelectNonOverlapping(S)
<1>2. Rebuildable(S) /\ manifest' = D /\ sides' = SidecarsOnDisk(manifest')
  BY DEF RecoverRebuild, RebuildManifest, Rebuilt
<1>3. disk \subseteq File /\ GoodDisk
  BY DEF TypeInv, CoverInv
<1>4. D \in SUBSET ChunkEntry /\ GoodEntries(D) /\ AllSettled(D)
  BY <1>2, <1>3, RebuildSettles
<1> HIDE DEF S, D
<1>5. GoodDisk' /\ GoodEntries(manifest)' /\ AllSettled(manifest)' /\ OrphanInv' /\ IndexInv'
  BY <1>1, <1>2, <1>4, ManifestMoves
<1>6. Published
  BY <1>2, <1>4, ContentMoves DEF Published
<1>7. SidesInv'
  <2>1. ASSUME NEW s \in sides'
        PROVE  s.path \in Paths(D) /\ \E x \in index : x.path = s.path /\ x.kind = s.kind
    BY <1>2 DEF SidecarsOnDisk
  <2>2. Paths(manifest)' = Paths(D)
    BY <1>2 DEF Paths
  <2> QED
    BY <1>1, <2>1, <2>2 DEF SidesInv
<1>8. OutInv' /\ PhaseInv' /\ VersionInv'
  BY <1>1, <1>5 DEF CoverInv, OutInv, InWrite, PhaseInv, VersionInv
<1>9. RecoverInv'
  <2>1. CASE pc' = "idle"
    BY <2>1 DEF RecoverInv
  <2>2. CASE pc' = "recover" /\ meta' = manifest' /\ todo' = disk
    <3>1. GoodEntries(meta)'
      BY <1>5, <2>2 DEF GoodEntries
    <3>2. \A c \in manifest' : Settled(FileOf(c), meta')
      BY <2>2 DEF Settled
    <3> QED
      BY <1>1, <2>2, <3>1, <3>2 DEF RecoverInv
  <2> QED
    BY <1>1, <2>1, <2>2
<1> QED
  BY <1>1, <1>5, <1>6, <1>7, <1>8, <1>9 DEF CoverInv

\* What a step of a covering workload shows of the months: nothing, a write
\* begun, its version published, acknowledged or given up.
Shown ==
  \/ UNCHANGED <<manifest, open, acked>>
  \/ /\ UNCHANGED <<manifest, acked>> /\ open = {}
     /\ \E m \in Months, rows \in SUBSET Row : open' = {[month |-> m, rows |-> rows]}
  \/ UNCHANGED <<open, acked>> /\ Published
  \/ /\ UNCHANGED manifest /\ open' = {}
     /\ \E w \in open : /\ MonthRows(manifest, w.month) = w.rows
                        /\ acked' = [acked EXCEPT ![w.month] = w.rows]
  \/ UNCHANGED <<manifest, acked>> /\ open' = {}

LEMMA CoverNext ==
  ASSUME TypeInv, CoverInv, workload = "covering", [Next]_vars
  PROVE  CoverInv' /\ Shown
<1>1. CASE RegisterBegin \/ RegisterSave \/ WriteRefused \/ CleanupDone \/ Fail
  BY <1>1, CoverQuiet DEF Shown
<1>2. ASSUME NEW m \in Months, NEW stamps \in SUBSET Ts \ {{}},
             PutBegin(m, stamps) \/ AppendBegin(m, stamps)
      PROVE  CoverInv' /\ Shown
  BY <1>2, CoverWriteBegin DEF Shown
<1>3. CASE WriteChunk
  BY <1>3, CoverWriteChunk DEF Shown
<1>4. CASE WriteSidecar("zmap", "vix") \/ WriteSidecar("vix", "manifest")
  BY <1>4, CoverWriteSidecar DEF Shown
<1>5. CASE SaveManifest
  BY <1>5, CoverSave DEF Shown, Published
<1>6. CASE RemoveObsolete
  BY <1>6, CoverRemove DEF Shown
<1>7. CASE CommitMarker
  BY <1>7, CoverCommit DEF Shown
<1>8. CASE RecoverBegin
  BY <1>8, CoverRecoverBegin DEF Shown
<1>9. CASE RecoverCandidate
  BY <1>9, CoverRecoverCandidate DEF Shown
<1>10. CASE RecoverSave
  BY <1>10, CoverRecoverSave DEF Shown
<1>11. CASE RecoverClear
  BY <1>11, CoverRecoverClear DEF Shown
<1>12. CASE RecoverRebuild \/ RebuildManifest
  BY <1>12, CoverRebuilt DEF Shown
<1>13. CASE UNCHANGED vars
  <2>1. /\ UNCHANGED <<disk, index, manifest, sides, marker, pc, out, obsolete, meta, todo>>
        /\ UNCHANGED <<open, acked, versions>>
    BY <1>13 DEF vars, durable, local, callers
  <2>2. /\ GoodDisk' /\ GoodEntries(manifest)' /\ OrphanInv' /\ IndexInv' /\ SidesInv'
        /\ AllSettled(manifest)' <=> AllSettled(manifest)
    BY <2>1, StaticParts
  <2>3. OutInv' /\ RecoverInv' /\ VersionInv'
    BY <2>1 DEF CoverInv, OutInv, RecoverInv, VersionInv, GoodEntries, Settled, InMonth
  <2>4. PhaseInv'
    BY <2>1, <2>2 DEF CoverInv, PhaseInv, Paths, MonthRows, InMonth, RowsOf
  <2> QED
    BY <2>1, <2>2, <2>3, <2>4 DEF CoverInv, Shown
<1> QED
  BY <1>1, <1>2, <1>3, <1>4, <1>5, <1>6, <1>7, <1>8, <1>9, <1>10, <1>11, <1>12, <1>13
  DEF Next, Step

LEMMA WorkloadStays ==
  ASSUME [Next]_vars
  PROVE  workload' = workload
BY DEF vars, Next, Step, RegisterBegin, RegisterSave, PutBegin, AppendBegin, WriteBegin, WriteChunk,
       WriteRefused, WriteSidecar, SaveManifest, RemoveObsolete, CleanupDone, CommitMarker,
       RecoverBegin, RecoverRebuild, RecoverCandidate, RecoverSave, RecoverClear, RebuildManifest,
       Fail

LEMMA InvInit ==
  ASSUME Init
  PROVE  IInv
<1>1. TypeInv
  <2>1. registered \in BOOLEAN /\ marker \in BOOLEAN
    BY Zenon DEF Init
  <2>2. acked \in [Months -> SUBSET Row]
    BY DEF Init
  <2>3. puts \in 0..MaxPuts /\ fails \in 0..MaxFails /\ rebuilds \in 0..MaxRebuilds
    BY ScalarAssumption DEF Init
  <2> QED
    BY <2>1, <2>2, <2>3 DEF Init, TypeInv, Phases
<1>2. CoverInv
  BY DEF Init, CoverInv, GoodDisk, GoodEntries, OrphanInv, IndexInv, SidesInv, OutInv, InWrite,
         PhaseInv, AllSettled, RecoverInv, VersionInv
<1> QED
  BY <1>1, <1>2 DEF IInv

LEMMA InvNext ==
  ASSUME IInv, [Next]_vars
  PROVE  IInv'
BY TypeNext, CoverNext, WorkloadStays DEF IInv

(***************************************************************************)
(* What the invariant says to callers                                      *)
(***************************************************************************)
LEMMA InvTypeOK ==
  ASSUME TypeInv
  PROVE  TypeOK
<1>1. \A f \in disk : f.rows \subseteq Row /\ f.start \in Ts /\ f.end \in Ts
  BY DEF TypeInv, File
<1>2. ASSUME NEW c \in manifest \cup meta \cup out \cup obsolete
      PROVE  FileOf(c).rows \subseteq Row /\ c.state = "Sealed" /\ c.path.month \in Months
  <2>1. c \in ChunkEntry
    BY DEF TypeInv
  <2> QED
    BY <2>1, FileOfEntry, Numbers DEF ChunkEntry
<1>3. \A s \in index : s.kind \in SidecarKinds /\ s.rows \subseteq Row
  BY DEF TypeInv, Sidecar
<1>4. {registered, marker} \subseteq BOOLEAN
  BY Zenon DEF TypeInv
<1> QED
  BY <1>1, <1>2, <1>3, <1>4 DEF TypeInv, TypeOK

LEMMA InvSidecars ==
  ASSUME IInv
  PROVE  SidecarsMatch
<1> SUFFICES ASSUME workload = "covering", NEW s \in sides
             PROVE  \E x \in index, c \in manifest :
                      /\ x.path = s.path /\ x.kind = s.kind
                      /\ c.path = s.path /\ c.rows = x.rows
  BY DEF SidecarsMatch
<1>1. PICK x \in index : x.path = s.path /\ x.kind = s.kind
  BY DEF IInv, CoverInv, SidesInv
<1>2. PICK c \in manifest : c.path = s.path
  BY DEF IInv, CoverInv, SidesInv, Paths
<1>3. FileOf(c) \in disk /\ FileOf(c).path = c.path /\ FileOf(c).rows = c.rows
  BY FileOfEntry DEF IInv, TypeInv, CoverInv, GoodEntries
<1>4. x.rows = c.rows
  BY <1>1, <1>2, <1>3 DEF IInv, CoverInv, IndexInv
<1> QED
  BY <1>1, <1>2, <1>4

LEMMA InvRetry ==
  ASSUME IInv
  PROVE  RetryNotBlocked
<1> SUFFICES ASSUME workload = "covering", MayMutate, NEW m \in Months,
                    NEW g \in NextGeneration(InMonth(manifest, m)), NEW f \in disk,
                    f.path = IF InMonth(manifest, m) = {} THEN BasePath(m) ELSE MergedPath(m, g)
             PROVE  FALSE
  BY DEF RetryNotBlocked, Paths
<1>1. AllSettled(manifest) /\ GoodChunk(f) /\ manifest \in SUBSET ChunkEntry /\ f \in File
  BY DEF IInv, TypeInv, CoverInv, PhaseInv, GoodDisk, MayMutate
<1>2. PICK c \in manifest : FileOf(c) = f \/ Within(f, c)
  BY <1>1 DEF AllSettled, Settled
<1>3. c \in ChunkEntry /\ FileOf(c).path = c.path /\ FileOf(c).gen = c.gen
  BY <1>1, FileOfEntry
<1>4. c.gen \in Nat /\ f.gen \in Nat
  BY <1>1, <1>3, Numbers
<1>5. f.path.month = m /\ c.path.month = m /\ f.gen <= c.gen
  BY <1>2, <1>3, <1>4 DEF Within, BasePath, MergedPath
<1>6. c \in InMonth(manifest, m)
  BY <1>5 DEF InMonth
<1>7. f.path.kind = "merged" /\ f.path.gen = g
  BY <1>6 DEF MergedPath
<1>8. f.gen = g
  BY <1>1, <1>7 DEF GoodChunk
<1>9. g \in Nat /\ c.gen < g
  <2>1. InMonth(manifest, m) \in SUBSET ChunkEntry
    BY <1>1 DEF InMonth
  <2> QED
    BY <1>6, <2>1, NextIsNew
<1> QED
  BY <1>4, <1>5, <1>8, <1>9

LEMMA InvVersions ==
  ASSUME IInv, workload = "covering"
  PROVE  WholeVersions
<1> SUFFICES ASSUME NEW m \in Months
             PROVE  MonthRows(manifest, m) \in versions \cup {{}}
  BY DEF WholeVersions
<1>1. CASE InMonth(manifest, m) = {}
  BY <1>1, MonthNone
<1>2. ASSUME NEW c \in manifest, c.path.month = m
      PROVE  MonthRows(manifest, m) \in versions
  <2>1. FileOf(c) \in disk /\ FileOf(c).rows = c.rows
    BY FileOfEntry DEF IInv, TypeInv, CoverInv, GoodEntries
  <2>2. MonthRows(manifest, m) = c.rows
    BY <1>2, MonthOne DEF IInv, CoverInv, GoodEntries
  <2> QED
    BY <2>1, <2>2 DEF IInv, CoverInv, VersionInv
<1> QED
  BY <1>1, <1>2 DEF InMonth

(***************************************************************************)
(* The theorems                                                            *)
(***************************************************************************)
\* The inductive invariant: put_scalar_chunk, append_scalar_chunk, recovery and
\* rebuilds keep the files of a month in a chain with its entry on top.
THEOREM ScalarInvariant == Spec => []IInv
<1>1. Init => IInv
  BY InvInit
<1>2. IInv /\ [Next]_vars => IInv'
  BY InvNext
<1> QED
  BY <1>1, <1>2, PTL DEF Spec

\* Files, entries and sidecars keep their shape, whatever the workload.
THEOREM ScalarTypeCorrect == Spec => []TypeOK
<1>1. IInv => TypeOK
  BY InvTypeOK DEF IInv
<1> QED
  BY <1>1, ScalarInvariant, PTL

\* A sidecar that series.meta lists is on disk and indexes the rows of its
\* chunk, through crashes between the chunk, its sidecars, the manifest and the
\* removals of remove_sidecars_for_chunks, and through recovery and rebuilds.
THEOREM ScalarSidecarsMatch == Spec => []SidecarsMatch
<1>1. IInv => SidecarsMatch
  BY InvSidecars
<1> QED
  BY <1>1, ScalarInvariant, PTL

\* No file left by a failed write or a failed removal has the name that the next
\* put_scalar_chunk of the month chooses (atomic_write_new would refuse it).
THEOREM ScalarRetryNotBlocked == Spec => []RetryNotBlocked
<1>1. IInv => RetryNotBlocked
  BY InvRetry
<1> QED
  BY <1>1, ScalarInvariant, PTL

\* While replacements cover what they replace, a month shows the rows of one
\* version that a caller wrote.
THEOREM ScalarWholeVersions == Spec => [](workload = "covering" => WholeVersions)
<1>1. IInv => (workload = "covering" => WholeVersions)
  BY InvVersions
<1> QED
  BY <1>1, ScalarInvariant, PTL

VersionStep == [Promise!Next]_(Promise!vars)

LEMMA CoverVersionStep ==
  ASSUME TypeInv, TypeInv', workload = "covering", workload' = workload, Shown
  PROVE  VersionStep
<1>1. /\ [m \in Months |-> IF workload = "covering" THEN MonthRows(manifest, m) ELSE {}]
           = Content(manifest)
      /\ [m \in Months |-> IF workload = "covering" THEN MonthRows(manifest, m) ELSE {}]'
           = Content(manifest')
      /\ [m \in Months |-> IF workload = "covering" THEN acked[m] ELSE {}] = acked
      /\ [m \in Months |-> IF workload = "covering" THEN acked[m] ELSE {}]' = acked'
      /\ (IF workload = "covering" THEN open ELSE {}) = open
      /\ (IF workload = "covering" THEN open ELSE {})' = open'
  BY DEF TypeInv, Content
<1>2. \A w \in open : w.month \in Months
  BY DEF TypeInv, Write
<1>3. CASE UNCHANGED <<manifest, open, acked>>
  BY <1>1, <1>3 DEF VersionStep, Promise!vars
<1>4. CASE /\ UNCHANGED <<manifest, acked>> /\ open = {}
           /\ \E m \in Months, rows \in SUBSET Row : open' = {[month |-> m, rows |-> rows]}
  <2>1. Promise!Submit
    BY <1>1, <1>4 DEF Promise!Submit
  <2> QED
    BY <2>1 DEF VersionStep, Promise!Next
<1>5. CASE UNCHANGED <<open, acked>> /\ Content(manifest') = Content(manifest)
  BY <1>1, <1>5 DEF VersionStep, Promise!vars
<1>6. CASE /\ UNCHANGED <<open, acked>>
           /\ \E w \in open : Content(manifest') = [Content(manifest) EXCEPT ![w.month] = w.rows]
  <2>1. Promise!Publish
    BY <1>1, <1>6 DEF Promise!Publish
  <2> QED
    BY <2>1 DEF VersionStep, Promise!Next
<1>7. CASE /\ UNCHANGED manifest /\ open' = {}
           /\ \E w \in open : /\ MonthRows(manifest, w.month) = w.rows
                              /\ acked' = [acked EXCEPT ![w.month] = w.rows]
  <2>1. PICK w \in open : /\ MonthRows(manifest, w.month) = w.rows
                          /\ acked' = [acked EXCEPT ![w.month] = w.rows]
    BY <1>7
  <2>2. Content(manifest)[w.month] = w.rows
    BY <1>2, <2>1 DEF Content
  <2>3. Promise!Acknowledge
    BY <1>1, <1>7, <2>1, <2>2 DEF Promise!Acknowledge
  <2> QED
    BY <2>3 DEF VersionStep, Promise!Next
<1>8. CASE UNCHANGED <<manifest, acked>> /\ open' = {}
  <2>1. CASE open = {}
    BY <1>1, <1>8, <2>1 DEF VersionStep, Promise!vars
  <2>2. CASE open # {}
    <3>1. Promise!Settle
      BY <1>1, <1>8, <2>2 DEF Promise!Settle
    <3> QED
      BY <3>1 DEF VersionStep, Promise!Next
  <2> QED
    BY <2>1, <2>2
<1> QED
  BY <1>3, <1>4, <1>5, <1>6, <1>7, <1>8 DEF Shown, Published

LEMMA EveryVersionStep ==
  ASSUME IInv, [Next]_vars
  PROVE  VersionStep
<1>1. workload' = workload /\ IInv'
  BY WorkloadStays, InvNext
<1>2. CASE workload = "covering"
  BY <1>1, <1>2, CoverNext, CoverVersionStep DEF IInv
<1>3. CASE workload # "covering"
  BY <1>1, <1>3 DEF VersionStep, Promise!vars
<1> QED
  BY <1>2, <1>3

\* Crashes, leftovers, recovery and rebuilds of a covering workload show what
\* MonthVersions allows: a month switches from one whole version to the version
\* being written, and put_scalar_chunk reports the version that is readable.
THEOREM ScalarIsMonthVersions == Spec => ImplementsMonthVersions
<1>1. Init => Promise!Init
  <2>1. Init => \A m \in Months : MonthRows(manifest, m) = {}
    BY MonthNone DEF Init, InMonth
  <2> QED
    BY <2>1 DEF Init, Promise!Init
<1>2. IInv /\ [Next]_vars => [Promise!Next]_(Promise!vars)
  BY EveryVersionStep DEF VersionStep
<1> QED
  BY <1>1, <1>2, ScalarInvariant, PTL DEF Spec, ImplementsMonthVersions, Promise!Spec
=============================================================================
