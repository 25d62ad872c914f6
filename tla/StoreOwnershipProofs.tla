------------------------ MODULE StoreOwnershipProofs ------------------------
(***************************************************************************)
(* What the lock, the marker, the seal and the manifest caches promise to  *)
(* any number of processes and handles of a store without a legacy         *)
(* manifest, through any crashes and errors.                               *)
(***************************************************************************)
EXTENDS StoreOwnership, TLAPS

(***************************************************************************)
(* The types                                                               *)
(***************************************************************************)
Months == {b.month : b \in Batches}

Path == [month : Months, kind : {"base", "merged"}, gen : Nat]

File == [path : Path, id : Nat, gen : Nat, start : Int, end : Int, rows : SUBSET Nat]

ChunkEntry == [path : Path, id : Nat, gen : Nat, start : Int, end : Int, rows : SUBSET Nat,
               state : {"Sealed"}]

Meta == [chunks : SUBSET ChunkEntry, legacy : {FALSE}, stamp : Nat]

Cached == [chunks : SUBSET ChunkEntry, stamp : Nat]

TypeInv ==
  /\ workload \in Workloads
  /\ manifest \in Meta /\ files \in SUBSET File
  /\ marker \in BOOLEAN /\ sealed \in BOOLEAN /\ lockfile \in BOOLEAN
  /\ writer \in Procs \cup {NoProc}
  /\ mode \in [Handles -> {"closed", "rw", "ro", "probe"}]
  /\ DOMAIN local = Handles
  /\ shared \in [Procs -> SUBSET Cached]
  /\ pc \in [Procs -> Locked \cup {"idle", "cache"}]
  /\ cur \in [Procs -> SUBSET Handles]
  /\ goal \in [Procs -> {"open", "mutate", "seal"}]
  /\ got \in [Procs -> Meta]
  /\ out \in [Procs -> SUBSET ChunkEntry]
  /\ todo \in [Procs -> SUBSET File]
  /\ acked \in SUBSET ChunkEntry
  /\ commits \in Nat

(***************************************************************************)
(* The lock and the readers                                                *)
(***************************************************************************)
\* The exclusive lock belongs to the process in the middle of an operation that
\* needs it; readers keep it away, and so does a seal.
LockInv ==
  /\ \A p \in Procs : writer = p <=> pc[p] \in Locked
  /\ writer # NoProc => ~ sealed /\ \A h \in Handles : mode[h] # "ro"

\* A closed handle caches nothing, and a reader with its lock what is on disk.
HandleInv ==
  \A h \in Handles :
    /\ mode[h] = "closed" => local[h] = {}
    /\ mode[h] = "ro" => ~ marker /\ \A chunks \in local[h] : chunks = manifest.chunks

(***************************************************************************)
(* The chunks, while puts cover what they replace.  The files of a month   *)
(* are a chain: of any two, the newer contains the range of the older.     *)
(* Every manifest that is cached anywhere has its place in these chains,   *)
(* at or below the entries on disk, whether its files are still there or   *)
(* not.  A recovery that starts from it climbs to the newest files.        *)
(***************************************************************************)
\* A chunk of one batch, under a name that tells its generation.
GoodChunk(c) ==
  /\ \E b \in Batches : c.path.month = b.month /\ c.start = b.start /\ c.end = b.end
  /\ c.path.gen <= c.gen
  /\ c.path.kind = "merged" => c.path.gen = c.gen
  /\ c.path.kind = "base" => c.path.gen = 0

\* d is newer than c and contains its range.
Within(c, d) ==
  c.path.month = d.path.month /\ c.gen < d.gen /\ d.start <= c.start /\ c.end <= d.end

GoodFiles(F) ==
  /\ \A f \in F : GoodChunk(f)
  /\ \A f, g \in F : f.path = g.path => f = g
  /\ \A f, g \in F : f.path.month = g.path.month => f = g \/ Within(f, g) \/ Within(g, f)

\* Chunk c has a place in the chain of its month among the files F, and there is
\* a file at that place or above.
Fits(c, F) ==
  /\ \A f \in F : f.path = c.path => f = FileOf(c)
  /\ \A f \in F : f.path.month = c.path.month => f = FileOf(c) \/ Within(f, c) \/ Within(c, f)
  /\ \E f \in F : f = FileOf(c) \/ Within(c, f)

\* Entries that fit the files, at most one for a month.
Sound(C, F) ==
  /\ \A c \in C : GoodChunk(c) /\ Fits(c, F)
  /\ \A c, d \in C : c.path.month = d.path.month => c = d

\* File f is an entry of C, or below the entry of its month.
Settled(f, C) == \E c \in C : FileOf(c) = f \/ Within(f, c)

AllSettled(F, C) == \A f \in F : Settled(f, C)

\* A manifest with the entries C was on disk before the one with the entries M.
Stale(C, M, F) == Sound(C, F) /\ \A c \in C : Settled(FileOf(c), M)

\* The entry that a put adds to the manifest with the entries M.
Fresh(e, M) ==
  /\ GoodChunk(e)
  /\ \A c \in InMonth(M, e.path.month) : Within(c, e)
  /\ e.path.kind = "base" => InMonth(M, e.path.month) = {}

\* The entries on disk have their files and stand for every acknowledged put.
DiskInv ==
  /\ GoodFiles(files)
  /\ Sound(manifest.chunks, files)
  /\ \A c \in manifest.chunks : FileOf(c) \in files
  /\ \A a \in acked : \E c \in manifest.chunks :
       c.path.month = a.path.month /\ (c = a \/ c.gen > a.gen)
  /\ manifest.stamp = 0 => manifest.chunks = {}
  /\ manifest.chunks = {} => \A f, g \in files : f = g
  /\ ~ marker => AllSettled(files, manifest.chunks)

\* What process p holds in each phase.  A put works from the manifest on disk; a
\* recovery may work from an older one.
WorkInv(p) ==
  /\ \A s \in shared[p] : Stale(s.chunks, manifest.chunks, files)
  /\ pc[p] = "cache" => Stale(got[p].chunks, manifest.chunks, files)
  /\ pc[p] = "load" => shared[p] = {}
  /\ pc[p] \in {"load", "arm", "write", "remove", "commit", "clear"} =>
       AllSettled(files, manifest.chunks)
  /\ pc[p] \in {"arm", "write", "save"} => got[p].chunks = manifest.chunks
  /\ pc[p] \in {"write", "save"} => \A e \in out[p] : Fresh(e, manifest.chunks)
  /\ pc[p] \in {"write", "save", "remove", "commit"} => marker /\ \A d, e \in out[p] : d = e
  /\ pc[p] = "save" => \A e \in out[p] :
       FileOf(e) \in files /\ \A f \in files : Settled(f, manifest.chunks) \/ f = FileOf(e)
  /\ pc[p] \in {"remove", "commit"} => out[p] \subseteq manifest.chunks
  /\ pc[p] = "remove" =>
       \A e \in out[p] : \A c \in InMonth(got[p].chunks, e.path.month) : Within(c, e)
  /\ pc[p] = "adopt" =>
       /\ Sound(got[p].chunks, files)
       /\ todo[p] \subseteq files
       /\ \A f \in files : Settled(f, got[p].chunks) \/ f \in todo[p]

CoverInv == DiskInv /\ \A p \in Procs : WorkInv(p)

\* The inductive invariant of ownership.
OwnInv ==
  /\ ~ Legacy
  /\ TypeInv
  /\ LockInv
  /\ HandleInv
  /\ workload = "covering" => CoverInv

(***************************************************************************)
(* Chunks and ranges                                                       *)
(***************************************************************************)
\* Allocation (next generation, next_chunk_id): a number above all in use.
LEMMA NextIsNew ==
  ASSUME NEW C \in SUBSET ChunkEntry
  PROVE  /\ \A g \in NextGeneration(C) : g \in Nat /\ g > 0 /\ \A c \in C : c.gen < g
         /\ \A i \in NextChunkId(C) : i \in Nat
BY DEF NextGeneration, NextChunkId, ChunkEntry

LEMMA FileOfEntry ==
  ASSUME NEW c \in ChunkEntry
  PROVE  /\ FileOf(c) \in File
         /\ FileOf(c).path = c.path /\ FileOf(c).id = c.id /\ FileOf(c).gen = c.gen
         /\ FileOf(c).start = c.start /\ FileOf(c).end = c.end /\ FileOf(c).rows = c.rows
BY DEF FileOf, File, ChunkEntry

\* A directory scan gives the entry of the file.
LEMMA ScannedFile ==
  ASSUME NEW f \in File
  PROVE  /\ Scanned(f) \in ChunkEntry /\ FileOf(Scanned(f)) = f
         /\ Scanned(f).path = f.path /\ Scanned(f).id = f.id /\ Scanned(f).gen = f.gen
         /\ Scanned(f).start = f.start /\ Scanned(f).end = f.end /\ Scanned(f).rows = f.rows
BY DEF Scanned, Entry, DecodeState, FileOf, File, ChunkEntry, Path

\* An entry is determined by its file: there is one state.
LEMMA EntryOfFile ==
  ASSUME NEW c \in ChunkEntry, NEW d \in ChunkEntry, FileOf(c) = FileOf(d)
  PROVE  c = d
<1>1. /\ c.path = d.path /\ c.id = d.id /\ c.gen = d.gen /\ c.start = d.start /\ c.end = d.end
      /\ c.rows = d.rows
  BY FileOfEntry
<1> QED
  BY <1>1 DEF ChunkEntry

LEMMA Numbers ==
  ASSUME NEW c, c \in File \/ c \in ChunkEntry
  PROVE  /\ c.start \in Int /\ c.end \in Int
         /\ c.gen \in Nat /\ c.path.gen \in Nat /\ c.path.month \in Months
BY DEF File, ChunkEntry, Path

\* A chunk that is good stays so in the manifest.
LEMMA GoodFileOf ==
  ASSUME NEW c \in ChunkEntry
  PROVE  GoodChunk(FileOf(c)) <=> GoodChunk(c)
BY FileOfEntry DEF GoodChunk

LEMMA GoodRange ==
  ASSUME NEW c, GoodChunk(c)
  PROVE  c.start <= c.end
BY OwnershipAssumption DEF GoodChunk

\* Chunks of different months do not overlap.
LEMMA OverlapInMonth ==
  ASSUME NEW c, NEW d, GoodChunk(c), GoodChunk(d), RangesOverlap(c, d)
  PROVE  c.path.month = d.path.month
<1>1. PICK a \in Batches : c.path.month = a.month /\ c.start = a.start /\ c.end = a.end
  BY DEF GoodChunk
<1>2. PICK b \in Batches : d.path.month = b.month /\ d.start = b.start /\ d.end = b.end
  BY DEF GoodChunk
<1>3. RangesOverlap(a, b)
  BY <1>1, <1>2 DEF RangesOverlap
<1> QED
  BY <1>1, <1>2, <1>3, OwnershipAssumption

\* Chunks with the ranges of a chain overlap.
LEMMA WithinOverlaps ==
  ASSUME NEW c, NEW d, c \in File \/ c \in ChunkEntry, d \in File \/ d \in ChunkEntry,
         GoodChunk(c), GoodChunk(d), Within(c, d)
  PROVE  RangesOverlap(c, d) /\ RangesOverlap(d, c)
BY Numbers, GoodRange DEF Within, RangesOverlap

LEMMA WithinTransitive ==
  ASSUME NEW c, NEW d, NEW e, Within(c, d), Within(d, e),
         c \in File \/ c \in ChunkEntry, d \in File \/ d \in ChunkEntry,
         e \in File \/ e \in ChunkEntry
  PROVE  Within(c, e)
<1>1. /\ c.start \in Int /\ c.end \in Int /\ c.gen \in Nat
      /\ d.start \in Int /\ d.end \in Int /\ d.gen \in Nat
      /\ e.start \in Int /\ e.end \in Int /\ e.gen \in Nat
  BY Numbers
<1> QED
  BY <1>1 DEF Within

LEMMA WithinFiles ==
  ASSUME NEW c \in ChunkEntry, NEW f
  PROVE  /\ Within(FileOf(c), f) <=> Within(c, f)
         /\ Within(f, FileOf(c)) <=> Within(f, c)
BY FileOfEntry DEF Within

\* What is settled stays settled when every entry is.
LEMMA SettledStep ==
  ASSUME NEW C \in SUBSET ChunkEntry, NEW D \in SUBSET ChunkEntry,
         \A c \in C : Settled(FileOf(c), D), NEW f \in File, Settled(f, C)
  PROVE  Settled(f, D)
<1>1. PICK c \in C : FileOf(c) = f \/ Within(f, c)
  BY DEF Settled
<1>2. PICK d \in D : FileOf(d) = FileOf(c) \/ Within(FileOf(c), d)
  BY DEF Settled
<1>3. c \in ChunkEntry /\ d \in ChunkEntry
  OBVIOUS
<1>4. CASE FileOf(c) = f
  BY <1>2, <1>4 DEF Settled
<1>5. CASE Within(f, c) /\ FileOf(d) = FileOf(c)
  <2>1. Within(f, d)
    BY <1>3, <1>5, WithinFiles
  <2> QED
    BY <2>1 DEF Settled
<1>6. CASE Within(f, c) /\ Within(FileOf(c), d)
  <2>1. Within(c, d)
    BY <1>3, <1>6, WithinFiles
  <2>2. Within(f, d)
    BY <1>3, <1>6, <2>1, WithinTransitive
  <2> QED
    BY <2>2 DEF Settled
<1> QED
  BY <1>1, <1>2, <1>4, <1>5, <1>6

\* The newer chunk of the chain survives an overlap.
LEMMA SurvivorOfTwo ==
  ASSUME NEW c \in ChunkEntry, NEW d \in ChunkEntry, Within(c, d)
  PROVE  Survivor({c} \cup {d}) = {d}
<1>1. /\ c.start \in Int /\ c.end \in Int /\ c.gen \in Nat
      /\ d.start \in Int /\ d.end \in Int /\ d.gen \in Nat
  BY Numbers
<1>2. Covers(d, {c} \cup {d})
  BY <1>1 DEF Covers, Within
<1>3. RanksBefore(d, c) /\ ~ RanksBefore(c, d) /\ c # d
  BY <1>1 DEF RanksBefore, Within
<1> QED
  BY <1>2, <1>3 DEF Survivor

(***************************************************************************)
(* Recovery chooses the newest file of every month                         *)
(***************************************************************************)
\* The entry of a file fits the files.
LEMMA ScannedFits ==
  ASSUME NEW F \in SUBSET File, GoodFiles(F), NEW f \in F
  PROVE  GoodChunk(Scanned(f)) /\ Fits(Scanned(f), F)
<1>1. Scanned(f) \in ChunkEntry /\ FileOf(Scanned(f)) = f /\ Scanned(f).path = f.path
  BY ScannedFile
<1>2. GoodChunk(Scanned(f))
  BY <1>1, GoodFileOf DEF GoodFiles
<1>3. \A g \in F : Within(g, f) => Within(g, Scanned(f))
  BY <1>1, WithinFiles
<1>4. \A g \in F : Within(f, g) => Within(Scanned(f), g)
  BY <1>1, WithinFiles
<1> QED
  BY <1>1, <1>2, <1>3, <1>4 DEF Fits, GoodFiles

\* One candidate (recover_series_dir): it ends up as an entry or below one, and so
\* do the entries there were.
LEMMA AdoptSettles ==
  ASSUME NEW F \in SUBSET File, GoodFiles(F), NEW C \in SUBSET ChunkEntry, Sound(C, F),
         NEW f \in F
  PROVE  LET D == AdoptCandidate(C, f)
         IN  /\ D \in SUBSET ChunkEntry /\ Sound(D, F) /\ Settled(f, D)
             /\ \A c \in C : Settled(FileOf(c), D)
<1> DEFINE cand == Scanned(f)
           overlaps == {c \in C : RangesOverlap(c, cand)}
           D == AdoptCandidate(C, f)
<1>1. /\ cand \in ChunkEntry /\ FileOf(cand) = f /\ cand.path = f.path /\ cand.gen = f.gen
      /\ cand.start = f.start /\ cand.end = f.end
  BY ScannedFile
<1>2. \A c \in C : c \in ChunkEntry /\ GoodChunk(c) /\ Fits(c, F)
  BY DEF Sound
<1>3. GoodChunk(cand) /\ Fits(cand, F)
  BY ScannedFits
<1>a. \A c \in C : c.path.month = f.path.month => f = FileOf(c) \/ Within(f, c) \/ Within(c, f)
  BY <1>2 DEF Fits
<1>4. ASSUME NEW c \in C
      PROVE  RangesOverlap(c, cand) <=> c.path.month = f.path.month
  <2>1. ASSUME RangesOverlap(c, cand)
        PROVE  c.path.month = f.path.month
    BY <1>1, <1>2, <1>3, <2>1, OverlapInMonth
  <2>2. ASSUME c.path.month = f.path.month
        PROVE  RangesOverlap(c, cand)
    <3>1. f = FileOf(c) \/ Within(f, c) \/ Within(c, f)
      BY <1>a, <2>2
    <3>2. CASE f = FileOf(c)
      <4>1. c.start = f.start /\ c.end = f.end /\ c.start <= c.end
        BY <1>2, <3>2, FileOfEntry, GoodRange
      <4> QED
        BY <1>1, <1>2, <4>1, Numbers DEF RangesOverlap
    <3>3. CASE Within(f, c) \/ Within(c, f)
      <4>1. Within(cand, c) \/ Within(c, cand)
        BY <1>1, <3>3 DEF Within
      <4> QED
        BY <1>1, <1>2, <1>3, <4>1, WithinOverlaps
    <3> QED
      BY <3>1, <3>2, <3>3
  <2> QED
    BY <2>1, <2>2
<1>5. \A c \in C : Settled(FileOf(c), C)
  BY DEF Settled
<1>6. D = IF cand.path \in Paths(C) THEN C
          ELSE IF overlaps = {} THEN C \cup {cand}
          ELSE IF \E c \in overlaps : c.gen >= cand.gen THEN C
          ELSE IF Survivor(overlaps \cup {cand}) = {cand} THEN (C \ overlaps) \cup {cand}
          ELSE C
  BY DEF AdoptCandidate
<1> HIDE DEF D, cand
<1>7. CASE cand.path \in Paths(C)
  <2>1. PICK c \in C : c.path = cand.path
    BY <1>7 DEF Paths
  <2>2. FileOf(c) = f
    BY <1>1, <1>2, <2>1 DEF Fits
  <2> QED
    BY <1>5, <1>6, <1>7, <2>2 DEF Settled, D
<1>8. CASE cand.path \notin Paths(C) /\ overlaps = {}
  <2>1. D = C \cup {cand}
    BY <1>6, <1>8
  <2>2. \A c \in C : c.path.month # cand.path.month
    BY <1>1, <1>4, <1>8
  <2>3. Sound(D, F)
    BY <1>3, <2>1, <2>2 DEF Sound
  <2>4. Settled(f, D) /\ \A c \in C : Settled(FileOf(c), D)
    BY <1>1, <2>1 DEF Settled
  <2> QED
    BY <1>1, <2>1, <2>3, <2>4 DEF D
<1>9. CASE cand.path \notin Paths(C) /\ \E c \in overlaps : c.gen >= cand.gen
  <2>1. PICK c \in C : c.path.month = f.path.month /\ c.gen >= cand.gen
    BY <1>4, <1>9
  <2>2. f = FileOf(c) \/ Within(f, c) \/ Within(c, f)
    BY <1>a, <2>1
  <2>3. ~ Within(c, f)
    BY <1>1, <1>2, <2>1, Numbers DEF Within
  <2>4. Settled(f, C)
    BY <2>2, <2>3 DEF Settled
  <2>5. D = C
    BY <1>6, <1>9
  <2> QED
    BY <1>5, <2>4, <2>5 DEF D
<1>10. CASE cand.path \notin Paths(C) /\ overlaps # {} /\ ~ \E c \in overlaps : c.gen >= cand.gen
  <2>1. PICK c \in C : c \in overlaps /\ c.path.month = f.path.month /\ ~ (c.gen >= cand.gen)
    BY <1>4, <1>10
  <2>2. c.gen \in Nat /\ f.gen \in Nat /\ c.gen < f.gen
    BY <1>1, <1>2, <2>1, Numbers
  <2>3. f # FileOf(c) /\ ~ Within(f, c)
    BY <1>2, <2>2, FileOfEntry DEF Within
  <2>4. Within(c, f)
    BY <1>a, <2>1, <2>3
  <2>5. Within(c, cand)
    BY <1>1, <2>4 DEF Within
  <2>6. overlaps = {c}
    BY <1>4, <2>1 DEF Sound
  <2>7. Survivor(overlaps \cup {cand}) = {cand}
    BY <1>1, <1>2, <2>5, <2>6, SurvivorOfTwo
  <2>8. D = (C \ {c}) \cup {cand}
    BY <1>6, <1>10, <2>6, <2>7
  <2>9. \A d \in C \ {c} : d.path.month # cand.path.month
    BY <1>1, <2>1 DEF Sound
  <2>10. Sound(D, F)
    BY <1>3, <2>8, <2>9 DEF Sound
  <2>11. Settled(f, D)
    BY <1>1, <2>8 DEF Settled
  <2>12. Settled(FileOf(c), D)
    BY <1>2, <2>5, <2>8, WithinFiles DEF Settled
  <2>13. \A d \in C : Settled(FileOf(d), D)
    BY <2>8, <2>12 DEF Settled
  <2> QED
    BY <1>1, <2>8, <2>10, <2>11, <2>13 DEF D
<1> QED
  BY <1>7, <1>8, <1>9, <1>10

\* Adoption keeps the shapes, in every workload.
LEMMA AdoptType ==
  ASSUME NEW C \in SUBSET ChunkEntry, NEW f \in File
  PROVE  AdoptCandidate(C, f) \in SUBSET ChunkEntry
BY ScannedFile DEF AdoptCandidate

\* Entries that fit the files and settle them all are files.
LEMMA SettlesAreFiles ==
  ASSUME NEW F \in SUBSET File, NEW D \in SUBSET ChunkEntry, Sound(D, F), AllSettled(F, D),
         NEW d \in D
  PROVE  FileOf(d) \in F
<1>1. d \in ChunkEntry
  OBVIOUS
<1>2. PICK f \in F : f = FileOf(d) \/ Within(d, f)
  BY DEF Sound, Fits
<1>3. PICK c \in D : FileOf(c) = f \/ Within(f, c)
  BY DEF AllSettled, Settled
<1>4. c \in ChunkEntry /\ c.path.month = f.path.month /\ f.path.month = d.path.month
  BY <1>1, <1>2, <1>3, FileOfEntry DEF Within
<1>5. c = d
  BY <1>4 DEF Sound
<1>6. ~ (Within(d, f) /\ Within(f, d))
  BY <1>1, Numbers DEF Within
<1>7. ~ (Within(d, f) /\ FileOf(d) = f)
  BY <1>1, FileOfEntry, Numbers DEF Within
<1> QED
  BY <1>2, <1>3, <1>5, <1>6, <1>7

\* A single file rebuilds the manifest with its entry.
LEMMA RebuildOne ==
  ASSUME NEW F \in SUBSET File, GoodFiles(F), \A f, g \in F : f = g,
         NEW S, S = {Scanned(f) : f \in F}
  PROVE  LET D == SelectNonOverlapping(S)
         IN  Sound(D, F) /\ AllSettled(F, D) /\ \A d \in D : FileOf(d) \in F
<1> DEFINE D == SelectNonOverlapping(S)
<1>1. \A c \in S : \E f \in F : c = Scanned(f) /\ FileOf(c) = f /\ GoodChunk(c) /\ Fits(c, F)
  BY ScannedFile, ScannedFits
<1>2. \A c, d \in S : c = d
  BY <1>1
<1>3. ASSUME NEW c \in S
      PROVE  Survivor(OverlapGroup(S, c)) = {c}
  <2>1. OverlapGroup(S, c) = {c}
    BY <1>2 DEF OverlapGroup, SameGroup
  <2>2. Covers(c, {c})
    <3>1. c.start \in Int /\ c.end \in Int
      BY ScannedFile, Numbers
    <3> QED
      BY <3>1 DEF Covers
  <2>3. Survivor({c}) = {c}
    BY <2>2 DEF Survivor
  <2> QED
    BY <2>1, <2>3
<1>4. D = S
  BY <1>3 DEF SelectNonOverlapping
<1>5. Sound(D, F)
  BY <1>1, <1>2, <1>4 DEF Sound
<1>6. AllSettled(F, D)
  <2>1. ASSUME NEW f \in F
        PROVE  Settled(f, S)
    BY ScannedFile DEF Settled
  <2> QED
    BY <1>4, <2>1 DEF AllSettled
<1> QED
  BY <1>1, <1>4, <1>5, <1>6

(***************************************************************************)
(* What a put does to chunks that are known elsewhere                      *)
(***************************************************************************)
\* A new chunk is above everything that is settled, under another name.
LEMMA FreshIsAbove ==
  ASSUME NEW M \in SUBSET ChunkEntry, NEW e \in ChunkEntry, Fresh(e, M),
         NEW x \in File, GoodChunk(x), Settled(x, M)
  PROVE  /\ x.path.month = e.path.month => Within(x, e)
         /\ x.path # e.path
<1>1. PICK m \in M : FileOf(m) = x \/ Within(x, m)
  BY DEF Settled
<1>2. m \in ChunkEntry /\ m.path.month = x.path.month
  BY <1>1, FileOfEntry DEF Within
<1>3. ASSUME x.path.month = e.path.month
      PROVE  Within(x, e)
  <2>1. Within(m, e)
    BY <1>2, <1>3 DEF Fresh, InMonth
  <2>2. CASE FileOf(m) = x
    BY <1>2, <2>1, <2>2, WithinFiles
  <2>3. CASE Within(x, m)
    BY <1>2, <2>1, <2>3, WithinTransitive
  <2> QED
    BY <1>1, <2>2, <2>3
<1>4. ASSUME x.path = e.path
      PROVE  FALSE
  <2>1. m \in InMonth(M, e.path.month) /\ Within(x, e)
    BY <1>2, <1>3, <1>4 DEF InMonth
  <2>2. e.path.kind = "merged"
    BY <2>1 DEF Fresh, ChunkEntry, Path
  <2>3. x.path.gen = e.gen
    BY <1>4, <2>2 DEF Fresh, GoodChunk
  <2>4. x.gen < e.gen /\ x.path.gen <= x.gen
    BY <2>1 DEF Within, GoodChunk
  <2> QED
    BY <2>3, <2>4, Numbers
<1> QED
  BY <1>3, <1>4

\* The file of the new chunk is published.
LEMMA FreshFile ==
  ASSUME NEW F \in SUBSET File, GoodFiles(F), NEW M \in SUBSET ChunkEntry,
         AllSettled(F, M), NEW e \in ChunkEntry, Fresh(e, M),
         NEW G, G = F \cup {FileOf(e)}
  PROVE  /\ GoodFiles(G)
         /\ \A C \in SUBSET ChunkEntry : Stale(C, M, F) => Stale(C, M, G)
<1>1. FileOf(e) \in File /\ GoodChunk(FileOf(e)) /\ FileOf(e).path = e.path
  BY FileOfEntry, GoodFileOf DEF Fresh
<1>2. \A f \in F : f.path # e.path /\ (f.path.month = e.path.month => Within(f, FileOf(e)))
  BY FreshIsAbove, WithinFiles DEF GoodFiles, AllSettled
<1>3. GoodFiles(G)
  BY <1>1, <1>2 DEF GoodFiles
<1>4. ASSUME NEW C \in SUBSET ChunkEntry, Stale(C, M, F)
      PROVE  Stale(C, M, G)
  <2>1. ASSUME NEW c \in C
        PROVE  GoodChunk(c) /\ Fits(c, G)
    <3>1. c \in ChunkEntry /\ GoodChunk(c) /\ Fits(c, F) /\ Settled(FileOf(c), M)
      BY <1>4 DEF Stale, Sound
    <3>2. FileOf(c) \in File /\ GoodChunk(FileOf(c)) /\ FileOf(c).path = c.path
      BY <3>1, FileOfEntry, GoodFileOf
    <3>3. c.path # e.path /\ (c.path.month = e.path.month => Within(FileOf(c), e))
      BY <3>1, <3>2, FreshIsAbove
    <3>4. c.path.month = e.path.month => Within(c, FileOf(e))
      BY <3>1, <3>3, WithinFiles
    <3> QED
      BY <1>1, <3>1, <3>3, <3>4 DEF Fits
  <2> QED
    BY <1>4, <2>1 DEF Stale, Sound
<1> QED
  BY <1>3, <1>4

\* Files below a chunk that stays are removed.
LEMMA FilesRemoved ==
  ASSUME NEW F \in SUBSET File, GoodFiles(F), NEW M \in SUBSET ChunkEntry, NEW e \in ChunkEntry,
         NEW G \in SUBSET F, FileOf(e) \in G, \A f \in F \ G : Within(f, e)
  PROVE  /\ GoodFiles(G)
         /\ \A C \in SUBSET ChunkEntry : Stale(C, M, F) => Stale(C, M, G)
<1>1. GoodFiles(G)
  BY DEF GoodFiles
<1>2. ASSUME NEW C \in SUBSET ChunkEntry, Stale(C, M, F)
      PROVE  Stale(C, M, G)
  <2>1. ASSUME NEW c \in C
        PROVE  GoodChunk(c) /\ Fits(c, G)
    <3>1. c \in ChunkEntry /\ GoodChunk(c) /\ Fits(c, F)
      BY <1>2 DEF Stale, Sound
    <3>2. PICK f \in F : f = FileOf(c) \/ Within(c, f)
      BY <3>1 DEF Fits
    <3>3. CASE f \in G
      BY <3>1, <3>2, <3>3 DEF Fits
    <3>4. CASE f \notin G
      <4>1. Within(f, e)
        BY <3>4
      <4>2. Within(c, e)
        BY <3>1, <3>2, <4>1, WithinFiles, WithinTransitive
      <4>3. Within(c, FileOf(e))
        BY <4>2, WithinFiles
      <4> QED
        BY <3>1, <4>3 DEF Fits
    <3> QED
      BY <3>3, <3>4
  <2> QED
    BY <1>2, <2>1 DEF Stale, Sound
<1> QED
  BY <1>1, <1>2

\* A manifest is saved in which the entries there were are settled.
LEMMA ManifestSaved ==
  ASSUME NEW F \in SUBSET File, NEW M \in SUBSET ChunkEntry, NEW N \in SUBSET ChunkEntry,
         \A c \in M : Settled(FileOf(c), N)
  PROVE  \A C \in SUBSET ChunkEntry : Stale(C, M, F) => Stale(C, N, F)
<1>1. ASSUME NEW C \in SUBSET ChunkEntry, Stale(C, M, F), NEW c \in C
      PROVE  Settled(FileOf(c), N)
  BY <1>1, FileOfEntry, SettledStep DEF Stale
<1> QED
  BY <1>1 DEF Stale

(***************************************************************************)
(* Steps                                                                   *)
(***************************************************************************)
\* The step of one process: the others stay as they are, and the store changes
\* only under the lock.
Moves(p) ==
  /\ workload' = workload
  /\ \A q \in Procs \ {p} :
       /\ pc'[q] = pc[q] /\ got'[q] = got[q] /\ out'[q] = out[q] /\ todo'[q] = todo[q]
       /\ shared'[q] = shared[q]
  /\ pc[p] \in Locked \/ UNCHANGED <<manifest, files, marker, sealed, acked>>

\* What SealedIsFrozen says of a step.
Frozen == sealed => UNCHANGED <<manifest, files, sealed>>

\* What is left to show of a step of process p.
LEMMA StepFrame ==
  ASSUME OwnInv, NEW p \in Procs, Moves(p), TypeInv', LockInv', HandleInv',
         workload = "covering" => CoverInv'
  PROVE  OwnInv' /\ Frozen
<1>1. Frozen
  BY OwnershipAssumption DEF OwnInv, LockInv, Moves, Frozen
<1> QED
  BY <1>1 DEF OwnInv, Moves

\* A process that does not move keeps what it holds, when the manifests that are
\* cached elsewhere keep their places.
LEMMA OthersKeep ==
  ASSUME OwnInv, workload = "covering", NEW p \in Procs, Moves(p),
         NEW q \in Procs, q # p,
         \A C \in SUBSET ChunkEntry :
           Stale(C, manifest.chunks, files) => Stale(C, manifest'.chunks, files')
  PROVE  WorkInv(q)'
<1>0. WorkInv(q)
  BY DEF OwnInv, CoverInv
<1>1. /\ pc'[q] = pc[q] /\ got'[q] = got[q] /\ out'[q] = out[q] /\ todo'[q] = todo[q]
      /\ shared'[q] = shared[q]
  BY DEF Moves
<1>2. CASE UNCHANGED <<manifest, files, marker, sealed, acked>>
  BY <1>0, <1>1, <1>2 DEF WorkInv
<1>3. CASE pc[p] \in Locked
  <2>1. pc[q] \notin Locked
    BY <1>3 DEF OwnInv, LockInv
  <2>2. /\ pc'[q] \notin {"load", "arm", "write", "remove", "commit", "clear"}
        /\ pc'[q] # "save" /\ pc'[q] # "adopt"
    BY <1>1, <2>1 DEF Locked
  <2>3. got[q].chunks \in SUBSET ChunkEntry /\ \A s \in shared[q] : s.chunks \in SUBSET ChunkEntry
    <3>1. got[q] \in Meta /\ shared[q] \in SUBSET Cached
      BY DEF OwnInv, TypeInv
    <3> QED
      BY <3>1 DEF Meta, Cached
  <2>4. \A s \in shared'[q] : Stale(s.chunks, manifest'.chunks, files')
    BY <1>0, <1>1, <2>3 DEF WorkInv
  <2>5. pc'[q] = "cache" => Stale(got'[q].chunks, manifest'.chunks, files')
    BY <1>0, <1>1, <2>3 DEF WorkInv
  <2> QED
    BY <2>2, <2>4, <2>5 DEF WorkInv
<1> QED
  BY <1>2, <1>3 DEF Moves

\* A step that changes the store, under the lock.
LEMMA CoverChange ==
  ASSUME OwnInv, workload = "covering", NEW p \in Procs, Moves(p),
         \A C \in SUBSET ChunkEntry :
           Stale(C, manifest.chunks, files) => Stale(C, manifest'.chunks, files'),
         DiskInv', WorkInv(p)'
  PROVE  CoverInv'
<1>1. \A q \in Procs : WorkInv(q)'
  BY OthersKeep
<1> QED
  BY <1>1 DEF CoverInv

\* A step that does not change chunks or manifest.
LEMMA CoverQuiet ==
  ASSUME OwnInv, workload = "covering", NEW p \in Procs, Moves(p),
         UNCHANGED <<manifest, files, acked>>,
         ~ marker' => AllSettled(files, manifest.chunks), WorkInv(p)'
  PROVE  CoverInv'
<1>1. DiskInv'
  BY DEF OwnInv, CoverInv, DiskInv
<1>2. \A C \in SUBSET ChunkEntry :
        Stale(C, manifest.chunks, files) => Stale(C, manifest'.chunks, files')
  OBVIOUS
<1> QED
  BY <1>1, <1>2, CoverChange

\* An idle process holds nothing but its cache.
LEMMA IdleWork ==
  ASSUME NEW p \in Procs, pc'[p] \in {"idle", "recover", "seal", "snapshot"},
         \A s \in shared'[p] : Stale(s.chunks, manifest'.chunks, files')
  PROVE  WorkInv(p)'
BY DEF WorkInv

\* A store that nobody has opened.
LEMMA InitInv == ASSUME Init, ~ Legacy PROVE OwnInv
<1> USE OwnershipAssumption
<1>0. Nothing \in Meta
  BY DEF Nothing, Meta
<1>1. manifest \in Meta
  <2>1. Legacy = FALSE
    BY OwnershipAssumption
  <2>2. Registered = [chunks |-> {}, legacy |-> FALSE, stamp |-> 1]
    BY <2>1 DEF Registered
  <2>3. Registered \in Meta
    BY <2>2 DEF Meta
  <2> QED
    BY <1>0, <2>3 DEF Init
<1>2. TypeInv
  BY <1>0, <1>1 DEF Init, TypeInv
<1>3. LockInv /\ HandleInv
  BY DEF Init, LockInv, HandleInv, Locked
<1>4. manifest.chunks = {}
  BY DEF Init, Registered, Nothing
<1>5. CoverInv
  BY <1>4 DEF Init, CoverInv, DiskInv, WorkInv, GoodFiles, Sound, AllSettled
<1> QED
  BY <1>2, <1>3, <1>5 DEF OwnInv

\* A reader gets its shared lock when nobody writes and nothing is pending.
LEMMA OpenReadOnlyStep ==
  ASSUME OwnInv, NEW h \in Handles, OpenReadOnly(h)
  PROVE  OwnInv' /\ Frozen
<1> DEFINE p == ProcOf[h]
<1>0. p \in Procs
  BY OwnershipAssumption
<1> USE DEF OpenReadOnly, disk, work, counted
<1>1. Moves(p)
  BY <1>0 DEF OwnInv, TypeInv, Moves
<1>2. TypeInv'
  BY <1>0 DEF OwnInv, TypeInv
<1>3. LockInv'
  BY <1>0 DEF OwnInv, TypeInv, LockInv
<1>4. HandleInv'
  BY <1>0 DEF OwnInv, TypeInv, HandleInv
<1>5. ASSUME workload = "covering" PROVE CoverInv'
  <2>1. WorkInv(p)'
    BY <1>0, IdleWork DEF OwnInv, TypeInv
  <2> QED
    BY <1>0, <1>1, <1>5, <2>1, CoverQuiet DEF OwnInv, CoverInv, DiskInv
<1> QED
  BY <1>0, <1>1, <1>2, <1>3, <1>4, <1>5, StepFrame

\* Where there is nothing to lock, a read-only handle has no lock.
LEMMA OpenUnlockedStep ==
  ASSUME OwnInv, NEW h \in Handles, OpenUnlocked(h)
  PROVE  OwnInv' /\ Frozen
<1> DEFINE p == ProcOf[h]
<1>0. p \in Procs
  BY OwnershipAssumption
<1> USE DEF OpenUnlocked, disk, work, counted
<1>1. Moves(p)
  BY <1>0 DEF OwnInv, TypeInv, Moves
<1>2. TypeInv'
  BY <1>0 DEF OwnInv, TypeInv
<1>3. LockInv'
  BY <1>0 DEF OwnInv, TypeInv, LockInv
<1>4. HandleInv'
  BY <1>0 DEF OwnInv, TypeInv, HandleInv
<1>5. ASSUME workload = "covering" PROVE CoverInv'
  <2>1. WorkInv(p)'
    BY <1>0, IdleWork DEF OwnInv, TypeInv
  <2> QED
    BY <1>0, <1>1, <1>5, <2>1, CoverQuiet DEF OwnInv, CoverInv, DiskInv
<1> QED
  BY <1>0, <1>1, <1>2, <1>3, <1>4, <1>5, StepFrame

\* A writable open of a store without a marker takes no lock.
LEMMA OpenWritableStep ==
  ASSUME OwnInv, NEW h \in Handles, OpenWritable(h)
  PROVE  OwnInv' /\ Frozen
<1> DEFINE p == ProcOf[h]
<1>0. p \in Procs
  BY OwnershipAssumption
<1> USE DEF OpenWritable, disk, caches, work, counted
<1>1. Moves(p)
  BY <1>0 DEF OwnInv, TypeInv, Moves
<1>2. TypeInv'
  BY <1>0 DEF OwnInv, TypeInv
<1>3. LockInv'
  BY <1>0 DEF OwnInv, TypeInv, LockInv
<1>4. HandleInv'
  BY <1>0 DEF OwnInv, TypeInv, HandleInv
<1>5. ASSUME workload = "covering" PROVE CoverInv'
  BY <1>0, <1>1, <1>5, CoverQuiet DEF OwnInv, CoverInv, DiskInv, WorkInv
<1> QED
  BY <1>0, <1>1, <1>2, <1>3, <1>4, <1>5, StepFrame

\* A recovery begins under the lock.
LEMMA OpenRecoveringStep ==
  ASSUME OwnInv, NEW h \in Handles, OpenRecovering(h)
  PROVE  OwnInv' /\ Frozen
<1> DEFINE p == ProcOf[h]
<1>0. p \in Procs
  BY OwnershipAssumption
<1> USE DEF OpenRecovering, Lock, MayLock, counted
<1>1. Moves(p)
  BY <1>0 DEF OwnInv, TypeInv, Moves
<1>2. TypeInv'
  BY <1>0 DEF OwnInv, TypeInv, Locked
<1>3. LockInv'
  BY <1>0, OwnershipAssumption DEF OwnInv, TypeInv, LockInv, Locked
<1>4. HandleInv'
  BY <1>0 DEF OwnInv, TypeInv, HandleInv
<1>5. ASSUME workload = "covering" PROVE CoverInv'
  <2>1. WorkInv(p)'
    BY <1>0, IdleWork DEF OwnInv, TypeInv
  <2> QED
    BY <1>0, <1>1, <1>5, <2>1, CoverQuiet DEF OwnInv, CoverInv, DiskInv
<1> QED
  BY <1>0, <1>1, <1>2, <1>3, <1>4, <1>5, StepFrame

\* A closed handle forgets what it cached.
LEMMA CloseStep ==
  ASSUME OwnInv, NEW h \in Handles, Close(h)
  PROVE  OwnInv' /\ Frozen
<1> DEFINE p == ProcOf[h]
<1>0. p \in Procs
  BY OwnershipAssumption
<1> USE DEF Close, disk, work, counted
<1>1. Moves(p)
  BY <1>0 DEF OwnInv, TypeInv, Moves
<1>2. TypeInv'
  BY <1>0 DEF OwnInv, TypeInv
<1>3. LockInv'
  BY <1>0 DEF OwnInv, TypeInv, LockInv
<1>4. HandleInv'
  BY <1>0 DEF OwnInv, TypeInv, HandleInv
<1>5. ASSUME workload = "covering" PROVE CoverInv'
  BY <1>0, <1>1, <1>5, CoverQuiet DEF OwnInv, CoverInv, DiskInv, WorkInv
<1> QED
  BY <1>0, <1>1, <1>2, <1>3, <1>4, <1>5, StepFrame

\* A read-only handle caches what is on disk.
LEMMA ReadOnlyLoadStep ==
  ASSUME OwnInv, NEW h \in Handles, ReadOnlyLoad(h)
  PROVE  OwnInv' /\ Frozen
<1> DEFINE p == ProcOf[h]
<1>0. p \in Procs
  BY OwnershipAssumption
<1> USE DEF ReadOnlyLoad, disk, work, counted
<1>1. Moves(p)
  BY <1>0 DEF OwnInv, TypeInv, Moves
<1>2. TypeInv'
  BY <1>0 DEF OwnInv, TypeInv
<1>3. LockInv'
  BY <1>0 DEF OwnInv, TypeInv, LockInv
<1>4. HandleInv'
  BY <1>0 DEF OwnInv, TypeInv, HandleInv
<1>5. ASSUME workload = "covering" PROVE CoverInv'
  BY <1>0, <1>1, <1>5, CoverQuiet DEF OwnInv, CoverInv, DiskInv, WorkInv
<1> QED
  BY <1>0, <1>1, <1>2, <1>3, <1>4, <1>5, StepFrame

\* A lock-free read has the manifest of this moment.
LEMMA ReadBytesStep ==
  ASSUME OwnInv, NEW h \in Handles, ReadBytes(h)
  PROVE  OwnInv' /\ Frozen
<1> DEFINE p == ProcOf[h]
<1>0. p \in Procs
  BY OwnershipAssumption
<1> USE DEF ReadBytes, disk, caches, counted
<1>1. Moves(p)
  BY <1>0 DEF OwnInv, TypeInv, Moves
<1>2. TypeInv'
  BY <1>0 DEF OwnInv, TypeInv
<1>3. LockInv'
  BY <1>0 DEF OwnInv, TypeInv, LockInv, Locked
<1>4. HandleInv'
  BY <1>0 DEF OwnInv, TypeInv, HandleInv
<1>5. ASSUME workload = "covering" PROVE CoverInv'
  <2>1. Stale(manifest.chunks, manifest.chunks, files)
    BY <1>5 DEF OwnInv, CoverInv, DiskInv, Stale, Settled
  <2>2. got'[p].chunks = manifest.chunks /\ pc'[p] = "cache" /\ shared'[p] = {}
    BY <1>0 DEF OwnInv, TypeInv
  <2>3. WorkInv(p)'
    BY <2>1, <2>2 DEF WorkInv
  <2> QED
    BY <1>0, <1>1, <1>5, <2>3, CoverQuiet DEF OwnInv, CoverInv, DiskInv
<1> QED
  BY <1>0, <1>1, <1>2, <1>3, <1>4, <1>5, StepFrame

\* A manifest that is loaded without migration.
LEMMA LoadShape ==
  ASSUME OwnInv, NEW p \in Procs, NEW m \in Meta, FinishLoad(p, m)
  PROVE  /\ manifest' = manifest
         /\ shared' = [shared EXCEPT ![p] = {[chunks |-> m.chunks, stamp |-> manifest.stamp]}]
         /\ [chunks |-> m.chunks, stamp |-> manifest.stamp] \in Cached
<1>1. ~ m.legacy /\ m.chunks \in SUBSET ChunkEntry
  BY DEF Meta
<1>2. manifest' = manifest
  BY <1>1 DEF FinishLoad
<1>3. manifest.stamp \in Nat
  BY DEF OwnInv, TypeInv, Meta
<1> QED
  BY <1>1, <1>2, <1>3 DEF FinishLoad, Stamped, Cached

\* What was read may be older than what is on disk when it is cached.
LEMMA ReadDoneStep ==
  ASSUME OwnInv, NEW p \in Procs, ReadDone(p)
  PROVE  OwnInv' /\ Frozen
<1>a. got[p] \in Meta /\ pc[p] = "cache"
  BY DEF ReadDone, OwnInv, TypeInv
<1>b. /\ manifest' = manifest
      /\ shared' = [shared EXCEPT ![p] = {[chunks |-> got[p].chunks, stamp |-> manifest.stamp]}]
      /\ [chunks |-> got[p].chunks, stamp |-> manifest.stamp] \in Cached
  BY <1>a, LoadShape DEF ReadDone
<1>c. Nothing \in Meta
  BY DEF Nothing, Meta
<1> USE DEF ReadDone, Return, counted
<1>1. Moves(p)
  BY <1>b DEF OwnInv, TypeInv, Moves
<1>2. TypeInv'
  BY <1>b, <1>c DEF OwnInv, TypeInv
<1>3. LockInv'
  BY <1>a DEF OwnInv, TypeInv, LockInv, Locked
<1>4. HandleInv'
  BY <1>b DEF OwnInv, TypeInv, HandleInv
<1>5. ASSUME workload = "covering" PROVE CoverInv'
  <2>1. Stale(got[p].chunks, manifest.chunks, files)
    BY <1>5, <1>a DEF OwnInv, CoverInv, WorkInv
  <2>2. pc'[p] = "idle" /\ \A s \in shared'[p] : s.chunks = got[p].chunks
    BY <1>b DEF OwnInv, TypeInv
  <2>3. WorkInv(p)'
    BY <1>b, <2>1, <2>2, IdleWork
  <2> QED
    BY <1>1, <1>5, <1>b, <2>3, CoverQuiet DEF OwnInv, CoverInv, DiskInv
<1> QED
  BY <1>1, <1>2, <1>3, <1>4, <1>5, StepFrame

\* begin_mutation takes the lock; without a marker every file is settled.
LEMMA BeginMutationStep ==
  ASSUME OwnInv, NEW h \in Handles, BeginMutation(h)
  PROVE  OwnInv' /\ Frozen
<1> DEFINE p == ProcOf[h]
<1>0. p \in Procs
  BY OwnershipAssumption
<1> USE DEF BeginMutation, Lock, MayLock, DropCaches, counted
<1>1. Moves(p)
  BY <1>0 DEF OwnInv, TypeInv, Moves
<1>2. TypeInv'
  BY <1>0 DEF OwnInv, TypeInv, Locked
<1>3. LockInv'
  BY <1>0, OwnershipAssumption DEF OwnInv, TypeInv, LockInv, Locked
<1>4. HandleInv'
  BY <1>0 DEF OwnInv, TypeInv, HandleInv
<1>5. ASSUME workload = "covering" PROVE CoverInv'
  <2>1. WorkInv(p) /\ UNCHANGED <<manifest, files, marker>>
    BY <1>0, <1>5 DEF OwnInv, CoverInv
  <2>2. CASE marker
    <3>1. pc'[p] = "recover" /\ shared'[p] = shared[p]
      BY <1>0, <2>2 DEF OwnInv, TypeInv
    <3> QED
      BY <1>0, <2>1, <3>1, <1>1, <1>5, IdleWork, CoverQuiet
         DEF WorkInv, OwnInv, CoverInv, DiskInv
  <2>3. CASE ~ marker
    <3>1. pc'[p] = "load" /\ shared'[p] = {}
      BY <1>0, <2>3 DEF OwnInv, TypeInv
    <3>2. AllSettled(files, manifest.chunks)
      BY <1>5, <2>3 DEF OwnInv, CoverInv, DiskInv
    <3>3. WorkInv(p)'
      BY <2>1, <3>1, <3>2 DEF WorkInv
    <3> QED
      BY <1>0, <1>1, <1>5, <3>2, <3>3, CoverQuiet
  <2> QED
    BY <2>2, <2>3
<1> QED
  BY <1>0, <1>1, <1>2, <1>3, <1>4, <1>5, StepFrame

\* The manifest on disk is stale for nobody.
LEMMA DiskIsStale ==
  ASSUME OwnInv, workload = "covering"
  PROVE  Stale(manifest.chunks, manifest.chunks, files)
BY DEF OwnInv, CoverInv, DiskInv, Stale, Settled

\* A put reads the manifest after the caches are dropped.
LEMMA LoadForUpdateStep ==
  ASSUME OwnInv, NEW p \in Procs, LoadForUpdate(p)
  PROVE  OwnInv' /\ Frozen
<1>a. FoundMeta(p) \in Meta
  <2>1. manifest \in Meta /\ shared[p] \in SUBSET Cached
    BY DEF OwnInv, TypeInv
  <2>2. CASE shared[p] = {}
    BY <2>1, <2>2 DEF FoundMeta
  <2>3. CASE shared[p] # {}
    <3>1. (CHOOSE c \in shared[p] : TRUE) \in Cached
      BY <2>1, <2>3
    <3>2. (CHOOSE c \in shared[p] : TRUE).chunks \in SUBSET ChunkEntry
      BY <3>1 DEF Cached
    <3> QED
      BY <2>1, <2>3, <3>2 DEF FoundMeta, Meta
  <2> QED
    BY <2>2, <2>3
<1>b. /\ manifest' = manifest
      /\ shared' = [shared EXCEPT ![p] =
                      {[chunks |-> FoundMeta(p).chunks, stamp |-> manifest.stamp]}]
      /\ [chunks |-> FoundMeta(p).chunks, stamp |-> manifest.stamp] \in Cached
  BY <1>a, LoadShape DEF LoadForUpdate
<1> USE DEF LoadForUpdate, counted
<1>1. Moves(p)
  BY <1>b DEF OwnInv, TypeInv, Moves
<1>2. TypeInv'
  BY <1>a, <1>b DEF OwnInv, TypeInv, Locked
<1>3. LockInv'
  BY DEF OwnInv, TypeInv, LockInv, Locked
<1>4. HandleInv'
  BY <1>b DEF OwnInv, TypeInv, HandleInv
<1>5. ASSUME workload = "covering" PROVE CoverInv'
  <2>1. shared[p] = {} /\ AllSettled(files, manifest.chunks)
    BY <1>5 DEF OwnInv, CoverInv, WorkInv
  <2>2. FoundMeta(p) = manifest
    BY <2>1 DEF FoundMeta
  <2>3. /\ pc'[p] = "arm" /\ got'[p].chunks = manifest.chunks
        /\ \A s \in shared'[p] : s.chunks = manifest.chunks
    BY <1>b, <2>2 DEF OwnInv, TypeInv
  <2>4. WorkInv(p)'
    BY <1>5, <1>b, <2>1, <2>3, DiskIsStale DEF WorkInv
  <2> QED
    BY <1>1, <1>5, <1>b, <2>1, <2>4, CoverQuiet
<1> QED
  BY <1>1, <1>2, <1>3, <1>4, <1>5, StepFrame

\* Without a manifest a put starts from none.
LEMMA NewForUpdateStep ==
  ASSUME OwnInv, NEW p \in Procs, NewForUpdate(p)
  PROVE  OwnInv' /\ Frozen
<1>c. Nothing \in Meta
  BY DEF Nothing, Meta
<1> USE DEF NewForUpdate, disk, caches, counted
<1>1. Moves(p)
  BY DEF OwnInv, TypeInv, Moves
<1>2. TypeInv'
  BY <1>c DEF OwnInv, TypeInv, Locked
<1>3. LockInv'
  BY DEF OwnInv, TypeInv, LockInv, Locked
<1>4. HandleInv'
  BY DEF OwnInv, TypeInv, HandleInv
<1>5. ASSUME workload = "covering" PROVE CoverInv'
  <2>1. shared[p] = {} /\ AllSettled(files, manifest.chunks)
    BY <1>5 DEF OwnInv, CoverInv, WorkInv
  <2>2. manifest.chunks = {}
    BY <1>5 DEF OwnInv, CoverInv, DiskInv
  <2>3. pc'[p] = "arm" /\ got'[p].chunks = {} /\ shared'[p] = {}
    BY <2>1 DEF OwnInv, TypeInv, Nothing
  <2>4. WorkInv(p)'
    BY <2>1, <2>2, <2>3 DEF WorkInv
  <2> QED
    BY <1>1, <1>5, <2>1, <2>4, CoverQuiet
<1> QED
  BY <1>1, <1>2, <1>3, <1>4, <1>5, StepFrame

\* A call that returns and leaves the store as it is.
LEMMA QuietReturn ==
  ASSUME OwnInv, NEW p \in Procs, Return(p),
         writer' = IF writer = p THEN NoProc ELSE writer,
         UNCHANGED <<workload, disk, mode, caches, acked, commits>>
  PROVE  OwnInv' /\ Frozen
<1>c. Nothing \in Meta
  BY DEF Nothing, Meta
<1> USE DEF Return, disk, caches
<1>1. Moves(p)
  BY DEF OwnInv, TypeInv, Moves
<1>2. TypeInv'
  BY <1>c DEF OwnInv, TypeInv
<1>3. LockInv'
  BY OwnershipAssumption DEF OwnInv, TypeInv, LockInv, Locked
<1>4. HandleInv'
  BY DEF OwnInv, TypeInv, HandleInv
<1>5. ASSUME workload = "covering" PROVE CoverInv'
  <2>1. pc'[p] = "idle" /\ \A s \in shared'[p] : Stale(s.chunks, manifest'.chunks, files')
    BY <1>5 DEF OwnInv, TypeInv, CoverInv, WorkInv
  <2>2. WorkInv(p)'
    BY <2>1, IdleWork
  <2> QED
    BY <1>1, <1>5, <2>2, CoverQuiet DEF OwnInv, CoverInv, DiskInv
<1> QED
  BY <1>1, <1>2, <1>3, <1>4, <1>5, StepFrame

\* A call under the lock that is refused, or that fails.
LEMMA RefusedSteps ==
  ASSUME OwnInv, NEW p \in Procs,
         \/ PutRefused(p) \/ WriteRefused(p) \/ SealRefused(p) \/ Fail(p)
  PROVE  OwnInv' /\ Frozen
<1>1. ASSUME PutRefused(p) \/ WriteRefused(p) \/ SealRefused(p)
      PROVE  /\ Return(p) /\ writer' = IF writer = p THEN NoProc ELSE writer
             /\ UNCHANGED <<workload, disk, mode, caches, acked, commits>>
  <2>1. writer = p
    BY <1>1 DEF PutRefused, WriteRefused, SealRefused, OwnInv, LockInv, Locked
  <2> QED
    BY <1>1, <2>1 DEF PutRefused, WriteRefused, SealRefused, counted
<1>2. ASSUME Fail(p)
      PROVE  /\ Return(p) /\ writer' = IF writer = p THEN NoProc ELSE writer
             /\ UNCHANGED <<workload, disk, mode, caches, acked, commits>>
  BY <1>2 DEF Fail
<1> QED
  BY <1>1, <1>2, QuietReturn

\* A process that is killed loses its locks and its memory.
LEMMA CrashStep ==
  ASSUME OwnInv, NEW p \in Procs, Crash(p)
  PROVE  OwnInv' /\ Frozen
<1>c. Nothing \in Meta
  BY DEF Nothing, Meta
<1> USE DEF Crash, Return, disk
<1>1. Moves(p)
  BY DEF OwnInv, TypeInv, Moves
<1>2. TypeInv'
  BY <1>c DEF OwnInv, TypeInv
<1>3. LockInv'
  BY OwnershipAssumption DEF OwnInv, TypeInv, LockInv, Locked
<1>4. HandleInv'
  BY DEF OwnInv, TypeInv, HandleInv
<1>5. ASSUME workload = "covering" PROVE CoverInv'
  <2>1. pc'[p] = "idle" /\ shared'[p] = {}
    BY DEF OwnInv, TypeInv
  <2>2. WorkInv(p)'
    BY <2>1, IdleWork
  <2> QED
    BY <1>1, <1>5, <2>2, CoverQuiet DEF OwnInv, CoverInv, DiskInv
<1> QED
  BY <1>1, <1>2, <1>3, <1>4, <1>5, StepFrame

\* A saved manifest has its shape.
LEMMA SavedShape ==
  ASSUME OwnInv, NEW C \in SUBSET ChunkEntry
  PROVE  /\ Saved(C) \in Meta /\ Saved(C).chunks = C /\ Saved(C).stamp # 0
         /\ [chunks |-> C, stamp |-> Saved(C).stamp] \in Cached
<1>1. manifest.stamp \in Nat
  BY DEF OwnInv, TypeInv, Meta
<1> QED
  BY <1>1 DEF Saved, Meta, Cached

\* The entry of a put has its shape.
LEMMA PutEntryShape ==
  ASSUME NEW b \in Batches, NEW T, NEW g \in Nat, NEW i \in Nat, commits \in Nat
  PROVE  LET e == PutEntry(b, T, g, i)
         IN  /\ e \in ChunkEntry
             /\ e.path.month = b.month /\ e.start = b.start /\ e.end = b.end /\ e.gen = g
             /\ T = {} => e.path.kind = "base" /\ e.path.gen = 0
             /\ T # {} => e.path.kind = "merged" /\ e.path.gen = g
<1>1. BasePath(b.month) \in Path /\ MergedPath(b.month, g) \in Path
  BY DEF BasePath, MergedPath, Path, Months
<1>2. b.start \in Int /\ b.end \in Int
  BY OwnershipAssumption
<1> QED
  BY <1>1, <1>2 DEF PutEntry, ChunkEntry, BasePath, MergedPath

\* A put arms the marker and knows a new name, above what it replaces.
LEMMA ArmStep ==
  ASSUME OwnInv, NEW p \in Procs, NEW b \in Batches, Arm(p, b)
  PROVE  OwnInv' /\ Frozen
<1> DEFINE T == InMonth(got[p].chunks, b.month)
<1>a. got[p].chunks \in SUBSET ChunkEntry /\ commits \in Nat
  BY DEF OwnInv, TypeInv, Meta
<1>b. T \in SUBSET ChunkEntry
  BY <1>a DEF InMonth
<1>c. PICK g \in NextGeneration(T), i \in NextChunkId(got[p].chunks) :
        out' = [out EXCEPT ![p] = {PutEntry(b, T, g, i)}]
  BY DEF Arm
<1>d. g \in Nat /\ i \in Nat /\ \A c \in T : c.gen < g
  BY <1>a, <1>b, NextIsNew
<1> DEFINE e == PutEntry(b, T, g, i)
<1>e. /\ e \in ChunkEntry
      /\ e.path.month = b.month /\ e.start = b.start /\ e.end = b.end /\ e.gen = g
      /\ T = {} => e.path.kind = "base" /\ e.path.gen = 0
      /\ T # {} => e.path.kind = "merged" /\ e.path.gen = g
  BY <1>a, <1>d, PutEntryShape
<1> HIDE DEF T, e
<1>f. /\ pc[p] = "arm" /\ commits' = commits + 1 /\ marker' = TRUE
      /\ pc' = [pc EXCEPT ![p] = "write"]
      /\ out' = [out EXCEPT ![p] = {e}]
      /\ workload = "covering" => Covers(b, T)
      /\ UNCHANGED <<workload, manifest, files, sealed, lockfile, writer, mode, local, shared,
                     cur, goal, got, todo, acked>>
  BY <1>c DEF Arm, caches, T, e
<1>1. Moves(p)
  BY <1>f DEF OwnInv, TypeInv, Moves, Locked
<1>2. TypeInv'
  BY <1>a, <1>e, <1>f DEF OwnInv, TypeInv, Locked
<1>3. LockInv'
  BY <1>f DEF OwnInv, TypeInv, LockInv, Locked
<1>4. HandleInv'
  <2>1. \A h \in Handles : mode[h] # "ro"
    BY <1>f, OwnershipAssumption DEF OwnInv, LockInv, Locked
  <2> QED
    BY <1>f, <2>1 DEF OwnInv, TypeInv, HandleInv
<1>5. ASSUME workload = "covering" PROVE CoverInv'
  <2>1. /\ AllSettled(files, manifest.chunks) /\ got[p].chunks = manifest.chunks
        /\ \A s \in shared[p] : Stale(s.chunks, manifest.chunks, files)
    BY <1>5, <1>f DEF OwnInv, CoverInv, WorkInv
  <2>2. \A c \in T : Within(c, e)
    <3>1. \A c \in T : c.path.month = b.month
      BY DEF T, InMonth
    <3> QED
      BY <1>5, <1>d, <1>e, <1>f, <3>1 DEF Within, Covers
  <2>3. GoodChunk(e)
    <3>1. \E d \in Batches : e.path.month = d.month /\ e.start = d.start /\ e.end = d.end
      BY <1>e
    <3> QED
      BY <1>d, <1>e, <3>1 DEF GoodChunk
  <2>4. T = InMonth(manifest.chunks, e.path.month)
    BY <1>e, <2>1 DEF T
  <2>5. Fresh(e, manifest.chunks)
    BY <1>e, <2>2, <2>3, <2>4 DEF Fresh
  <2>6. pc'[p] = "write" /\ out'[p] = {e}
    BY <1>f DEF OwnInv, TypeInv
  <2>7. WorkInv(p)'
    BY <1>f, <2>1, <2>5, <2>6 DEF WorkInv
  <2> QED
    BY <1>1, <1>5, <1>f, <2>1, <2>7, CoverQuiet
<1> QED
  BY <1>1, <1>2, <1>3, <1>4, <1>5, StepFrame

\* A chunk file appears above the files of its month.
LEMMA WriteChunkStep ==
  ASSUME OwnInv, NEW p \in Procs, WriteChunk(p)
  PROVE  OwnInv' /\ Frozen
<1>a. PICK e \in out[p] : files' = files \cup {FileOf(e)}
  BY DEF WriteChunk
<1>b. e \in ChunkEntry /\ FileOf(e) \in File /\ files \in SUBSET File
  BY FileOfEntry DEF OwnInv, TypeInv
<1>f. /\ pc[p] = "write" /\ pc' = [pc EXCEPT ![p] = "save"]
      /\ UNCHANGED <<workload, manifest, marker, sealed, lockfile, writer, mode, local, shared,
                     cur, goal, got, out, todo, acked, commits>>
  BY DEF WriteChunk, caches, work, counted
<1>1. Moves(p)
  BY <1>f DEF OwnInv, TypeInv, Moves, Locked
<1>2. TypeInv'
  BY <1>a, <1>b, <1>f DEF OwnInv, TypeInv, Locked
<1>3. LockInv'
  BY <1>f DEF OwnInv, TypeInv, LockInv, Locked
<1>4. HandleInv'
  BY <1>f DEF OwnInv, TypeInv, HandleInv
<1>5. ASSUME workload = "covering" PROVE CoverInv'
  <2>0. DiskInv /\ WorkInv(p) /\ pc'[p] = "save" /\ manifest.chunks \in SUBSET ChunkEntry
    BY <1>5, <1>f DEF OwnInv, TypeInv, CoverInv, Meta
  <2>1. /\ AllSettled(files, manifest.chunks) /\ got[p].chunks = manifest.chunks /\ marker
        /\ Fresh(e, manifest.chunks) /\ \A d \in out[p] : d = e
    BY <1>f, <2>0 DEF WorkInv
  <2>2. /\ GoodFiles(files')
        /\ \A C \in SUBSET ChunkEntry :
             Stale(C, manifest.chunks, files) => Stale(C, manifest.chunks, files')
    <3> DEFINE F == files
               G == files'
               M == manifest.chunks
    <3>1. F \in SUBSET File /\ GoodFiles(F) /\ M \in SUBSET ChunkEntry /\ AllSettled(F, M)
          /\ Fresh(e, M) /\ G = F \cup {FileOf(e)}
      BY <1>a, <1>b, <2>0, <2>1 DEF DiskInv
    <3> HIDE DEF F, G, M
    <3>2. GoodFiles(G) /\ \A C \in SUBSET ChunkEntry : Stale(C, M, F) => Stale(C, M, G)
      BY <1>b, <3>1, FreshFile
    <3> QED
      BY <3>2 DEF F, G, M
  <2>3. Stale(manifest.chunks, manifest.chunks, files')
    BY <1>5, <2>0, <2>2, DiskIsStale
  <2>4. manifest.chunks = {} => \A f, g \in files' : f = g
    <3>1. manifest.chunks = {} => files = {}
      BY <2>1 DEF AllSettled, Settled
    <3> QED
      BY <1>a, <3>1
  <2>5. DiskInv'
    BY <1>a, <1>f, <2>0, <2>1, <2>2, <2>3, <2>4 DEF DiskInv, Stale
  <2>6. /\ FileOf(e) \in files'
        /\ \A f \in files' : Settled(f, manifest.chunks) \/ f = FileOf(e)
    BY <1>a, <2>1 DEF AllSettled
  <2>7. \A s \in shared[p] : Stale(s.chunks, manifest.chunks, files')
    <3>1. \A s \in shared[p] : s.chunks \in SUBSET ChunkEntry
      BY DEF OwnInv, TypeInv, Cached
    <3> QED
      BY <2>0, <2>2, <3>1 DEF WorkInv
  <2>8. WorkInv(p)'
    BY <1>f, <2>0, <2>1, <2>6, <2>7 DEF WorkInv
  <2>9. \A C \in SUBSET ChunkEntry :
          Stale(C, manifest.chunks, files) => Stale(C, manifest'.chunks, files')
    BY <1>f, <2>2
  <2> QED
    BY <1>1, <1>5, <2>5, <2>8, <2>9, CoverChange
<1> QED
  BY <1>1, <1>2, <1>3, <1>4, <1>5, StepFrame

\* What the entries of M settle, those with the new one settle.
LEMMA ReplacedSettles ==
  ASSUME NEW M \in SUBSET ChunkEntry, NEW e \in ChunkEntry, Fresh(e, M),
         NEW x \in File, GoodChunk(x), Settled(x, M)
  PROVE  Settled(x, ReplaceMonth(M, e.path.month, e))
<1> DEFINE N == ReplaceMonth(M, e.path.month, e)
<1>1. e \in N /\ \A m \in M : m.path.month # e.path.month => m \in N
  BY DEF ReplaceMonth, InMonth
<1>2. PICK m \in M : FileOf(m) = x \/ Within(x, m)
  BY DEF Settled
<1>3. m.path.month = x.path.month
  BY <1>2, FileOfEntry DEF Within
<1>4. CASE x.path.month = e.path.month
  BY <1>1, <1>4, FreshIsAbove DEF Settled
<1>5. CASE x.path.month # e.path.month
  BY <1>1, <1>2, <1>3, <1>5 DEF Settled
<1> QED
  BY <1>4, <1>5

\* The manifest of a put: sound, with the new entry for its month.
LEMMA PutManifest ==
  ASSUME NEW F \in SUBSET File, GoodFiles(F), NEW M \in SUBSET ChunkEntry, Sound(M, F),
         \A c \in M : FileOf(c) \in F, NEW e \in ChunkEntry, Fresh(e, M), FileOf(e) \in F,
         \A f \in F : Settled(f, M) \/ f = FileOf(e)
  PROVE  LET N == ReplaceMonth(M, e.path.month, e)
         IN  /\ N \in SUBSET ChunkEntry /\ e \in N
             /\ Sound(N, F) /\ AllSettled(F, N)
             /\ \A c \in N : FileOf(c) \in F
             /\ \A c \in M : Settled(FileOf(c), N)
             /\ \A c \in M : c \in N \/ (c.path.month = e.path.month /\ e.gen > c.gen)
<1> DEFINE N == ReplaceMonth(M, e.path.month, e)
<1>1. e \in N /\ N = {m \in M : m.path.month # e.path.month} \cup {e}
  BY DEF ReplaceMonth, InMonth
<1>2. \A f \in F : GoodChunk(f)
  BY DEF GoodFiles
<1>3. GoodChunk(e) /\ \A c \in M : GoodChunk(FileOf(c))
  BY GoodFileOf DEF Fresh, Sound
<1>4. ASSUME NEW f \in F
      PROVE  f.path = e.path => f = FileOf(e)
  BY <1>2, FreshIsAbove
<1>5. ASSUME NEW f \in F, f.path.month = e.path.month
      PROVE  f = FileOf(e) \/ Within(f, e)
  BY <1>2, <1>5, FreshIsAbove
<1>6. Fits(e, F)
  BY <1>4, <1>5 DEF Fits
<1>7. Sound(N, F)
  BY <1>1, <1>3, <1>6 DEF Sound
<1>8. \A c \in M : Settled(FileOf(c), N)
  <2>1. ASSUME NEW c \in M PROVE Settled(FileOf(c), N)
    <3>1. FileOf(c) \in File /\ Settled(FileOf(c), M)
      BY FileOfEntry DEF Settled
    <3> QED
      BY <1>3, <3>1, ReplacedSettles
  <2> QED
    BY <2>1
<1>9. AllSettled(F, N)
  <2>1. ASSUME NEW f \in F PROVE Settled(f, N)
    <3>1. CASE Settled(f, M)
      BY <1>2, <3>1, ReplacedSettles
    <3>2. CASE f = FileOf(e)
      BY <1>1, <3>2 DEF Settled
    <3> QED
      BY <3>1, <3>2
  <2> QED
    BY <2>1 DEF AllSettled
<1>10. \A c \in M : c \in N \/ (c.path.month = e.path.month /\ e.gen > c.gen)
  <2>1. ASSUME NEW c \in M, c.path.month = e.path.month
        PROVE  e.gen > c.gen
    <3>1. Within(c, e)
      BY <2>1 DEF Fresh, InMonth
    <3> QED
      BY <3>1, Numbers DEF Within
  <2> QED
    BY <1>1, <2>1
<1> QED
  BY <1>1, <1>7, <1>8, <1>9, <1>10
\* A saved manifest in the place of the one there was.
LEMMA CoverSaved ==
  ASSUME OwnInv, workload = "covering", NEW p \in Procs, Moves(p),
         NEW N \in SUBSET ChunkEntry, Save(p, N), UNCHANGED <<files, acked, marker>>,
         Sound(N, files), AllSettled(files, N), \A c \in N : FileOf(c) \in files,
         \A c \in manifest.chunks : Settled(FileOf(c), N),
         \A c \in manifest.chunks : \E d \in N :
           d.path.month = c.path.month /\ (d = c \/ d.gen > c.gen)
  PROVE  /\ DiskInv'
         /\ \A s \in shared'[p] : Stale(s.chunks, manifest'.chunks, files')
         /\ \A C \in SUBSET ChunkEntry :
              Stale(C, manifest.chunks, files) => Stale(C, manifest'.chunks, files')
<1>1. manifest'.chunks = N /\ manifest'.stamp # 0
  BY SavedShape DEF Save
<1>2. \A s \in shared'[p] : s.chunks = N
  BY <1>1 DEF Save, Stamped, OwnInv, TypeInv
<1>3. Stale(N, N, files)
  BY DEF Stale, Settled
<1>4. DiskInv /\ manifest.chunks \in SUBSET ChunkEntry /\ files \in SUBSET File
      /\ acked \in SUBSET ChunkEntry
  BY DEF OwnInv, CoverInv, TypeInv, Meta
<1>5. \A C \in SUBSET ChunkEntry :
        Stale(C, manifest.chunks, files) => Stale(C, N, files)
  <2> DEFINE M == manifest.chunks
             F == files
  <2>1. F \in SUBSET File /\ M \in SUBSET ChunkEntry /\ \A c \in M : Settled(FileOf(c), N)
    BY <1>4
  <2> HIDE DEF M, F
  <2>2. \A C \in SUBSET ChunkEntry : Stale(C, M, F) => Stale(C, N, F)
    BY <2>1, ManifestSaved
  <2> QED
    BY <2>2 DEF M, F
<1>6. ASSUME NEW a \in acked
      PROVE  \E d \in N : d.path.month = a.path.month /\ (d = a \/ d.gen > a.gen)
  <2>1. PICK c \in manifest.chunks : c.path.month = a.path.month /\ (c = a \/ c.gen > a.gen)
    BY <1>4 DEF DiskInv
  <2>2. PICK d \in N : d.path.month = c.path.month /\ (d = c \/ d.gen > c.gen)
    OBVIOUS
  <2>3. a.gen \in Nat /\ c.gen \in Nat /\ d.gen \in Nat
    BY <1>4, Numbers
  <2> QED
    BY <2>1, <2>2, <2>3
<1>7. N = {} => files = {}
  BY DEF AllSettled, Settled
<1>8. DiskInv'
  BY <1>1, <1>4, <1>6, <1>7 DEF DiskInv
<1> QED
  BY <1>1, <1>2, <1>3, <1>5, <1>8

\* The put's manifest is saved.
LEMMA SaveManifestStep ==
  ASSUME OwnInv, NEW p \in Procs, SaveManifest(p)
  PROVE  OwnInv' /\ Frozen
<1>a. PICK e \in out[p] : Save(p, ReplaceMonth(got[p].chunks, e.path.month, e))
  BY DEF SaveManifest
<1>b. e \in ChunkEntry /\ got[p].chunks \in SUBSET ChunkEntry
  BY DEF OwnInv, TypeInv, Meta
<1> DEFINE N == ReplaceMonth(got[p].chunks, e.path.month, e)
<1>c. N \in SUBSET ChunkEntry /\ e \in N
  BY <1>b DEF ReplaceMonth
<1> HIDE DEF N
<1>d. Save(p, N)
  BY <1>a DEF N
<1>e. manifest' \in Meta /\ shared' = [shared EXCEPT ![p] = {[chunks |-> N, stamp |-> manifest'.stamp]}]
      /\ [chunks |-> N, stamp |-> manifest'.stamp] \in Cached /\ manifest'.chunks = N
  BY <1>c, <1>d, SavedShape DEF Save, Stamped
<1>f. /\ pc[p] = "save" /\ pc' = [pc EXCEPT ![p] = "remove"]
      /\ UNCHANGED <<workload, files, marker, sealed, lockfile, writer, mode, local,
                     cur, goal, got, out, todo, acked, commits>>
  BY DEF SaveManifest, work, counted
<1>1. Moves(p)
  BY <1>e, <1>f DEF OwnInv, TypeInv, Moves, Locked
<1>2. TypeInv'
  BY <1>e, <1>f DEF OwnInv, TypeInv, Locked
<1>3. LockInv'
  BY <1>f DEF OwnInv, TypeInv, LockInv, Locked
<1>4. HandleInv'
  <2>1. \A h \in Handles : mode[h] # "ro"
    BY <1>f, OwnershipAssumption DEF OwnInv, LockInv, Locked
  <2> QED
    BY <1>f, <2>1 DEF OwnInv, TypeInv, HandleInv
<1>5. ASSUME workload = "covering" PROVE CoverInv'
  <2>0. /\ DiskInv /\ WorkInv(p) /\ pc'[p] = "remove"
        /\ manifest.chunks \in SUBSET ChunkEntry /\ files \in SUBSET File
    BY <1>5, <1>f DEF OwnInv, TypeInv, CoverInv, Meta
  <2>1. /\ got[p].chunks = manifest.chunks /\ marker
        /\ Fresh(e, manifest.chunks) /\ \A d \in out[p] : d = e
        /\ FileOf(e) \in files
        /\ \A f \in files : Settled(f, manifest.chunks) \/ f = FileOf(e)
    BY <1>f, <2>0 DEF WorkInv
  <2>2. /\ Sound(N, files) /\ AllSettled(files, N)
        /\ \A c \in N : FileOf(c) \in files
        /\ \A c \in manifest.chunks : Settled(FileOf(c), N)
        /\ \A c \in manifest.chunks : c \in N \/ (c.path.month = e.path.month /\ e.gen > c.gen)
    <3> DEFINE M == manifest.chunks
               F == files
    <3>1. /\ F \in SUBSET File /\ GoodFiles(F) /\ M \in SUBSET ChunkEntry /\ Sound(M, F)
          /\ \A c \in M : FileOf(c) \in F
          /\ Fresh(e, M) /\ FileOf(e) \in F /\ \A f \in F : Settled(f, M) \/ f = FileOf(e)
          /\ N = ReplaceMonth(M, e.path.month, e)
      BY <2>0, <2>1 DEF DiskInv, N
    <3> HIDE DEF M, F
    <3>2. /\ Sound(N, F) /\ AllSettled(F, N)
          /\ \A c \in N : FileOf(c) \in F
          /\ \A c \in M : Settled(FileOf(c), N)
          /\ \A c \in M : c \in N \/ (c.path.month = e.path.month /\ e.gen > c.gen)
      BY <1>b, <3>1, PutManifest
    <3> QED
      BY <3>2 DEF M, F
  <2>3. \A c \in manifest.chunks : \E d \in N :
          d.path.month = c.path.month /\ (d = c \/ d.gen > c.gen)
    BY <1>c, <2>2
  <2>4. /\ DiskInv'
        /\ \A s \in shared'[p] : Stale(s.chunks, manifest'.chunks, files')
        /\ \A C \in SUBSET ChunkEntry :
             Stale(C, manifest.chunks, files) => Stale(C, manifest'.chunks, files')
    BY <1>1, <1>5, <1>c, <1>d, <1>f, <2>2, <2>3, CoverSaved
  <2>5. \A c \in InMonth(got[p].chunks, e.path.month) : Within(c, e)
    BY <2>1 DEF Fresh
  <2>6. WorkInv(p)'
    BY <1>c, <1>e, <1>f, <2>0, <2>1, <2>2, <2>4, <2>5 DEF WorkInv
  <2> QED
    BY <1>1, <1>5, <2>4, <2>6, CoverChange
<1> QED
  BY <1>1, <1>2, <1>3, <1>4, <1>5, StepFrame

\* Replaced files go; the entries on disk keep theirs.
LEMMA RemoveReplacedStep ==
  ASSUME OwnInv, NEW p \in Procs, RemoveReplaced(p)
  PROVE  OwnInv' /\ Frozen
<1>a. PICK e \in out[p] : \E gone \in SUBSET InMonth(got[p].chunks, e.path.month) :
        files' = files \ {FileOf(c) : c \in gone}
  BY DEF RemoveReplaced
<1>b. PICK gone \in SUBSET InMonth(got[p].chunks, e.path.month) :
        files' = files \ {FileOf(c) : c \in gone}
  BY <1>a
<1>c. e \in ChunkEntry /\ got[p].chunks \in SUBSET ChunkEntry /\ files \in SUBSET File
  BY DEF OwnInv, TypeInv, Meta
<1>d. gone \in SUBSET ChunkEntry
  BY <1>c DEF InMonth
<1>f. /\ pc[p] = "remove" /\ pc' = [pc EXCEPT ![p] = "commit"]
      /\ UNCHANGED <<workload, manifest, marker, sealed, lockfile, writer, mode, local, shared,
                     cur, goal, got, out, todo, acked, commits>>
  BY DEF RemoveReplaced, caches, work, counted
<1>1. Moves(p)
  BY <1>f DEF OwnInv, TypeInv, Moves, Locked
<1>2. TypeInv'
  BY <1>b, <1>f DEF OwnInv, TypeInv, Locked
<1>3. LockInv'
  BY <1>f DEF OwnInv, TypeInv, LockInv, Locked
<1>4. HandleInv'
  BY <1>f DEF OwnInv, TypeInv, HandleInv
<1>5. ASSUME workload = "covering" PROVE CoverInv'
  <2>0. /\ DiskInv /\ WorkInv(p) /\ pc'[p] = "commit"
        /\ manifest.chunks \in SUBSET ChunkEntry
    BY <1>5, <1>f DEF OwnInv, TypeInv, CoverInv, Meta
  <2>1. /\ AllSettled(files, manifest.chunks) /\ marker
        /\ out[p] \subseteq manifest.chunks /\ \A d \in out[p] : d = e
        /\ \A c \in InMonth(got[p].chunks, e.path.month) : Within(c, e)
    BY <1>f, <2>0 DEF WorkInv
  <2>2. ASSUME NEW f \in files \ files'
        PROVE  Within(f, e) /\ f # FileOf(e)
    <3>1. PICK c \in gone : f = FileOf(c)
      BY <1>b
    <3>2. Within(f, e)
      BY <1>d, <2>1, <3>1, WithinFiles
    <3>3. f.gen < e.gen /\ FileOf(e).gen = e.gen /\ e.gen \in Nat
      BY <1>c, <3>2, FileOfEntry, Numbers DEF Within
    <3> QED
      BY <3>2, <3>3
  <2>3. FileOf(e) \in files' /\ files' \subseteq files
    BY <1>b, <2>0, <2>1, <2>2 DEF DiskInv
  <2>4. /\ GoodFiles(files')
        /\ \A C \in SUBSET ChunkEntry :
             Stale(C, manifest.chunks, files) => Stale(C, manifest.chunks, files')
    <3> DEFINE F == files
               G == files'
               M == manifest.chunks
    <3>1. /\ F \in SUBSET File /\ GoodFiles(F) /\ M \in SUBSET ChunkEntry /\ G \in SUBSET F
          /\ FileOf(e) \in G /\ \A f \in F \ G : Within(f, e)
      BY <1>c, <2>0, <2>2, <2>3 DEF DiskInv
    <3> HIDE DEF F, G, M
    <3>2. GoodFiles(G) /\ \A C \in SUBSET ChunkEntry : Stale(C, M, F) => Stale(C, M, G)
      BY <1>c, <3>1, FilesRemoved
    <3> QED
      BY <3>2 DEF F, G, M
  <2>5. Stale(manifest.chunks, manifest.chunks, files')
    BY <1>5, <2>0, <2>4, DiskIsStale
  <2>6. ASSUME NEW c \in manifest.chunks
        PROVE  FileOf(c) \in files'
    <3>1. FileOf(c) \in files
      BY <2>0 DEF DiskInv
    <3>2. CASE FileOf(c) \notin files'
      <4>1. Within(FileOf(c), e)
        BY <2>2, <3>1, <3>2
      <4>2. c.path.month = e.path.month
        BY <2>0, <4>1, FileOfEntry DEF Within
      <4>3. c = e
        BY <2>0, <2>1, <4>2 DEF DiskInv, Sound
      <4> QED
        BY <2>3, <3>2, <4>3
    <3> QED
      BY <3>2
  <2>7. AllSettled(files', manifest.chunks)
    BY <2>1, <2>3 DEF AllSettled
  <2>8. DiskInv'
    BY <1>f, <2>0, <2>1, <2>3, <2>4, <2>5, <2>6, <2>7 DEF DiskInv, Stale
  <2>9. \A s \in shared[p] : Stale(s.chunks, manifest.chunks, files')
    <3>1. \A s \in shared[p] : s.chunks \in SUBSET ChunkEntry
      BY DEF OwnInv, TypeInv, Cached
    <3> QED
      BY <2>0, <2>4, <3>1 DEF WorkInv
  <2>10. WorkInv(p)'
    BY <1>f, <2>0, <2>1, <2>7, <2>9 DEF WorkInv
  <2>11. \A C \in SUBSET ChunkEntry :
          Stale(C, manifest.chunks, files) => Stale(C, manifest'.chunks, files')
    BY <1>f, <2>4
  <2> QED
    BY <1>1, <1>5, <2>8, <2>10, <2>11, CoverChange
<1> QED
  BY <1>1, <1>2, <1>3, <1>4, <1>5, StepFrame

\* A put that is acknowledged is on disk.
LEMMA CommitStep ==
  ASSUME OwnInv, NEW p \in Procs, Commit(p)
  PROVE  OwnInv' /\ Frozen
<1>c. Nothing \in Meta
  BY DEF Nothing, Meta
<1>f. /\ pc[p] = "commit" /\ pc[p] \in Locked /\ marker' = FALSE /\ writer' = NoProc
      /\ acked' = acked \cup out[p]
      /\ UNCHANGED <<workload, manifest, files, sealed, lockfile, mode, local, shared, commits>>
  BY DEF Commit, caches, counted, Locked
<1>g. Return(p)
  BY DEF Commit
<1>h. writer = p
  BY <1>f DEF OwnInv, LockInv
<1>1. Moves(p)
  BY <1>f, <1>g DEF OwnInv, TypeInv, Moves, Return
<1>2. TypeInv'
  BY <1>c, <1>f, <1>g DEF OwnInv, TypeInv, Return
<1>3. LockInv'
  BY <1>f, <1>g, <1>h, OwnershipAssumption DEF OwnInv, TypeInv, LockInv, Locked, Return
<1>4. HandleInv'
  BY <1>f DEF OwnInv, TypeInv, HandleInv
<1>5. ASSUME workload = "covering" PROVE CoverInv'
  <2>0. DiskInv /\ WorkInv(p)
    BY <1>5 DEF OwnInv, CoverInv
  <2>1. AllSettled(files, manifest.chunks) /\ out[p] \subseteq manifest.chunks
    BY <1>f, <2>0 DEF WorkInv
  <2>2. DiskInv'
    BY <1>f, <2>0, <2>1 DEF DiskInv
  <2>3. pc'[p] = "idle" /\ \A s \in shared'[p] : Stale(s.chunks, manifest'.chunks, files')
    BY <1>f, <1>g, <2>0 DEF OwnInv, TypeInv, WorkInv, Return
  <2>4. WorkInv(p)'
    BY <2>3, IdleWork
  <2>5. \A C \in SUBSET ChunkEntry :
          Stale(C, manifest.chunks, files) => Stale(C, manifest'.chunks, files')
    BY <1>f
  <2> QED
    BY <1>1, <1>5, <2>2, <2>4, <2>5, CoverChange
<1> QED
  BY <1>1, <1>2, <1>3, <1>4, <1>5, StepFrame

\* A series without files has nothing to recover.
LEMMA RecoverNothingStep ==
  ASSUME OwnInv, NEW p \in Procs, RecoverNothing(p)
  PROVE  OwnInv' /\ Frozen
<1>f. /\ pc[p] = "recover" /\ files = {} /\ pc' = [pc EXCEPT ![p] = "clear"]
      /\ UNCHANGED <<workload, manifest, files, marker, sealed, lockfile, writer, mode, local,
                     shared, cur, goal, got, out, todo, acked, commits>>
  BY DEF RecoverNothing, disk, caches, work, counted
<1>1. Moves(p)
  BY <1>f DEF OwnInv, TypeInv, Moves, Locked
<1>2. TypeInv'
  BY <1>f DEF OwnInv, TypeInv, Locked
<1>3. LockInv'
  BY <1>f DEF OwnInv, TypeInv, LockInv, Locked
<1>4. HandleInv'
  BY <1>f DEF OwnInv, TypeInv, HandleInv
<1>5. ASSUME workload = "covering" PROVE CoverInv'
  <2>1. AllSettled(files, manifest.chunks)
    BY <1>f DEF AllSettled
  <2>2. pc'[p] = "clear" /\ WorkInv(p)
    BY <1>5, <1>f DEF OwnInv, TypeInv, CoverInv
  <2>3. WorkInv(p)'
    BY <1>f, <2>1, <2>2 DEF WorkInv
  <2> QED
    BY <1>1, <1>5, <1>f, <2>1, <2>3, CoverQuiet
<1> QED
  BY <1>1, <1>2, <1>3, <1>4, <1>5, StepFrame
\* A recovery works from a manifest that fits the files: the one on disk, an older
\* one from the cache, or one built from the files alone.
LEMMA RecoverLoadStep ==
  ASSUME OwnInv, NEW p \in Procs, RecoverLoad(p)
  PROVE  OwnInv' /\ Frozen
<1>f. /\ pc[p] = "recover" /\ pc' = [pc EXCEPT ![p] = "adopt"]
      /\ todo' = [todo EXCEPT ![p] = files]
      /\ UNCHANGED <<workload, files, marker, sealed, lockfile, writer, mode, local, cur, goal,
                     out, acked, commits>>
  BY DEF RecoverLoad, counted
<1>t. /\ manifest \in Meta /\ files \in SUBSET File /\ shared[p] \in SUBSET Cached
      /\ manifest.chunks \in SUBSET ChunkEntry
  BY DEF OwnInv, TypeInv, Meta
<1>3. LockInv'
  BY <1>f DEF OwnInv, TypeInv, LockInv, Locked
<1>4. HandleInv'
  <2>1. \A h \in Handles : mode[h] # "ro"
    BY <1>f, OwnershipAssumption DEF OwnInv, LockInv, Locked
  <2> QED
    BY <1>f, <2>1 DEF OwnInv, TypeInv, HandleInv
<1>5. ASSUME manifest' \in Meta, NEW m \in Meta, got' = [got EXCEPT ![p] = m],
             NEW S \in SUBSET Cached, shared' = [shared EXCEPT ![p] = S],
             workload = "covering" =>
               /\ Sound(m.chunks, files)
               /\ \A s \in S : Stale(s.chunks, manifest'.chunks, files)
               /\ DiskInv'
               /\ \A C \in SUBSET ChunkEntry :
                    Stale(C, manifest.chunks, files) => Stale(C, manifest'.chunks, files')
      PROVE  OwnInv' /\ Frozen
  <2>1. Moves(p)
    BY <1>f, <1>5 DEF OwnInv, TypeInv, Moves, Locked
  <2>2. TypeInv'
    BY <1>f, <1>t, <1>5 DEF OwnInv, TypeInv, Locked
  <2>3. ASSUME workload = "covering" PROVE CoverInv'
    <3>1. /\ pc'[p] = "adopt" /\ todo'[p] = files /\ got'[p] = m /\ shared'[p] = S
      BY <1>f, <1>5 DEF OwnInv, TypeInv
    <3>2. WorkInv(p)'
      BY <1>f, <1>5, <2>3, <3>1 DEF WorkInv
    <3> QED
      BY <1>5, <2>1, <2>3, <3>2, CoverChange
  <2> QED
    BY <1>3, <1>4, <2>1, <2>2, <2>3, StepFrame
<1>6. ASSUME NEW c \in shared[p], got' = [got EXCEPT ![p] = [manifest EXCEPT !.chunks = c.chunks]],
             UNCHANGED <<manifest, shared>>
      PROVE  OwnInv' /\ Frozen
  <2> DEFINE m == [manifest EXCEPT !.chunks = c.chunks]
  <2>1. c.chunks \in SUBSET ChunkEntry
    BY <1>t DEF Cached
  <2>2. m \in Meta /\ m.chunks = c.chunks
    BY <1>t, <2>1 DEF Meta
  <2>3. shared' = [shared EXCEPT ![p] = shared[p]]
    BY <1>6 DEF OwnInv, TypeInv
  <2>4. workload = "covering" =>
          DiskInv' /\ \A s \in shared[p] : Stale(s.chunks, manifest.chunks, files)
    BY <1>6, <1>f DEF OwnInv, CoverInv, WorkInv, DiskInv
  <2>5. workload = "covering" => Sound(m.chunks, files)
    BY <2>2, <2>4 DEF Stale
  <2> HIDE DEF m
  <2> QED
    BY <1>5, <1>6, <1>f, <1>t, <2>2, <2>3, <2>4, <2>5 DEF m
<1>7. ASSUME FinishLoad(p, manifest), got' = [got EXCEPT ![p] = manifest']
      PROVE  OwnInv' /\ Frozen
  <2> DEFINE S == {[chunks |-> manifest.chunks, stamp |-> manifest.stamp]}
  <2>1. manifest' = manifest /\ shared' = [shared EXCEPT ![p] = S] /\ S \in SUBSET Cached
    BY <1>7, <1>t, LoadShape
  <2>2. \A s \in S : s.chunks = manifest.chunks
    OBVIOUS
  <2>3. workload = "covering" => Stale(manifest.chunks, manifest.chunks, files) /\ DiskInv'
    BY <1>f, <2>1, DiskIsStale DEF OwnInv, CoverInv, DiskInv
  <2> HIDE DEF S
  <2>4. /\ workload = "covering" => Sound(manifest.chunks, files)
        /\ workload = "covering" => \A s \in S : Stale(s.chunks, manifest'.chunks, files)
        /\ \A C \in SUBSET ChunkEntry :
             Stale(C, manifest.chunks, files) => Stale(C, manifest'.chunks, files')
    BY <1>f, <2>1, <2>2, <2>3 DEF Stale
  <2> QED
    BY <1>5, <1>7, <1>t, <2>1, <2>3, <2>4
<1>8. ASSUME manifest.stamp = 0, Rebuilt(p), got' = [got EXCEPT ![p] = manifest']
      PROVE  OwnInv' /\ Frozen
  <2> DEFINE found == {Scanned(f) : f \in files}
             N == SelectNonOverlapping(found)
  <2>1. Save(p, N)
    BY <1>8 DEF Rebuilt
  <2>2. found \in SUBSET ChunkEntry
    BY <1>t, ScannedFile
  <2>3. N \in SUBSET ChunkEntry
    BY <2>2 DEF SelectNonOverlapping
  <2>a. ASSUME workload = "covering"
        PROVE  Sound(N, files) /\ AllSettled(files, N) /\ \A d \in N : FileOf(d) \in files
    <3>1. GoodFiles(files) /\ \A f, g \in files : f = g
      BY <1>8, <2>a DEF OwnInv, CoverInv, DiskInv
    <3> QED
      BY <1>t, <3>1, RebuildOne
  <2> HIDE DEF N, found
  <2> DEFINE S == {[chunks |-> N, stamp |-> manifest'.stamp]}
  <2>4. manifest' \in Meta /\ manifest'.chunks = N /\ S \in SUBSET Cached
    BY <2>1, <2>3, SavedShape DEF Save
  <2>5. shared' = [shared EXCEPT ![p] = S]
    BY <2>1, <2>4 DEF Save, Stamped
  <2>6. shared'[p] = S
    BY <2>5 DEF OwnInv, TypeInv
  <2> HIDE DEF S
  <2>7. Moves(p)
    BY <1>f, <1>8, <2>5 DEF OwnInv, TypeInv, Moves, Locked
  <2>8. ASSUME workload = "covering"
        PROVE  /\ DiskInv'
               /\ \A s \in shared'[p] : Stale(s.chunks, manifest'.chunks, files')
               /\ \A C \in SUBSET ChunkEntry :
                    Stale(C, manifest.chunks, files) => Stale(C, manifest'.chunks, files')
    <3>1. manifest.chunks = {}
      BY <1>8, <2>8 DEF OwnInv, CoverInv, DiskInv
    <3> QED
      BY <1>f, <2>1, <2>3, <2>7, <2>8, <2>a, <3>1, CoverSaved
  <2>9. /\ workload = "covering" => Sound(manifest'.chunks, files)
        /\ workload = "covering" => \A s \in S : Stale(s.chunks, manifest'.chunks, files)
    BY <1>f, <2>4, <2>6, <2>8, <2>a
  <2> QED
    BY <1>5, <1>8, <2>4, <2>5, <2>8, <2>9
<1> QED
  BY <1>6, <1>7, <1>8 DEF RecoverLoad

\* A candidate is settled.
LEMMA RecoverCandidateStep ==
  ASSUME OwnInv, NEW p \in Procs, RecoverCandidate(p)
  PROVE  OwnInv' /\ Frozen
<1>a. PICK f \in todo[p] :
        /\ got' = [got EXCEPT ![p].chunks = AdoptCandidate(@, f)]
        /\ todo' = [todo EXCEPT ![p] = @ \ {f}]
  BY DEF RecoverCandidate
<1>b. f \in File /\ got[p] \in Meta /\ got[p].chunks \in SUBSET ChunkEntry
      /\ todo[p] \in SUBSET File /\ files \in SUBSET File
  BY DEF OwnInv, TypeInv, Meta
<1> DEFINE D == AdoptCandidate(got[p].chunks, f)
           m == [got[p] EXCEPT !.chunks = D]
<1>c. D \in SUBSET ChunkEntry
  BY <1>b, AdoptType
<1>d. m \in Meta /\ m.chunks = D
  BY <1>b, <1>c DEF Meta
<1>e. got' = [got EXCEPT ![p] = m]
  BY <1>a
<1>g. todo' = [todo EXCEPT ![p] = todo[p] \ {f}]
  BY <1>a
<1> HIDE DEF m, D
<1>f. /\ pc[p] = "adopt"
      /\ UNCHANGED <<workload, manifest, files, marker, sealed, lockfile, writer, mode, local,
                     shared, pc, cur, goal, out, acked, commits>>
  BY DEF RecoverCandidate, disk, caches, counted
<1>1. Moves(p)
  BY <1>e, <1>f, <1>g DEF OwnInv, TypeInv, Moves, Locked
<1>2. TypeInv'
  BY <1>b, <1>d, <1>e, <1>f, <1>g DEF OwnInv, TypeInv
<1>3. LockInv'
  BY <1>f DEF OwnInv, TypeInv, LockInv
<1>4. HandleInv'
  BY <1>f DEF OwnInv, TypeInv, HandleInv
<1>5. ASSUME workload = "covering" PROVE CoverInv'
  <2>0. DiskInv /\ WorkInv(p)
    BY <1>5 DEF OwnInv, CoverInv
  <2>1. /\ Sound(got[p].chunks, files) /\ todo[p] \subseteq files
        /\ \A x \in files : Settled(x, got[p].chunks) \/ x \in todo[p]
    BY <1>f, <2>0 DEF WorkInv
  <2>2. /\ Sound(D, files) /\ Settled(f, D)
        /\ \A c \in got[p].chunks : Settled(FileOf(c), D)
    <3> DEFINE C == got[p].chunks
               F == files
    <3>1. F \in SUBSET File /\ GoodFiles(F) /\ C \in SUBSET ChunkEntry /\ Sound(C, F) /\ f \in F
      BY <1>b, <2>0, <2>1 DEF DiskInv
    <3>2. D = AdoptCandidate(C, f)
      BY DEF D
    <3> HIDE DEF C, F
    <3>3. Sound(D, F) /\ Settled(f, D) /\ \A c \in C : Settled(FileOf(c), D)
      BY <3>1, <3>2, AdoptSettles
    <3> QED
      BY <3>3 DEF C, F
  <2>3. ASSUME NEW x \in files PROVE Settled(x, D) \/ x \in todo[p] \ {f}
    <3>1. CASE Settled(x, got[p].chunks)
      BY <1>b, <1>c, <2>2, <3>1, SettledStep
    <3> QED
      BY <2>1, <2>2, <3>1
  <2>4. got'[p].chunks = D /\ todo'[p] = todo[p] \ {f} /\ pc'[p] = "adopt" /\ shared'[p] = shared[p]
    BY <1>d, <1>e, <1>f, <1>g DEF OwnInv, TypeInv
  <2>5. WorkInv(p)'
    BY <1>f, <2>0, <2>1, <2>2, <2>3, <2>4 DEF WorkInv
  <2> QED
    BY <1>1, <1>5, <1>f, <2>0, <2>5, CoverQuiet DEF DiskInv
<1> QED
  BY <1>1, <1>2, <1>3, <1>4, <1>5, StepFrame

\* The entries of the recovered manifest stand for those on disk.
LEMMA RecoverSaveStep ==
  ASSUME OwnInv, NEW p \in Procs, RecoverSave(p)
  PROVE  OwnInv' /\ Frozen
<1>f. /\ pc[p] = "adopt" /\ todo[p] = {} /\ pc' = [pc EXCEPT ![p] = "clear"]
      /\ UNCHANGED <<workload, files, marker, sealed, lockfile, writer, mode, local,
                     cur, goal, got, out, todo, acked, commits>>
  BY DEF RecoverSave, work, counted
<1>t. /\ manifest \in Meta /\ files \in SUBSET File /\ shared[p] \in SUBSET Cached
      /\ manifest.chunks \in SUBSET ChunkEntry /\ got[p].chunks \in SUBSET ChunkEntry
  BY DEF OwnInv, TypeInv, Meta
<1> DEFINE N == got[p].chunks
<1>3. LockInv'
  BY <1>f DEF OwnInv, TypeInv, LockInv, Locked
<1>4. HandleInv'
  <2>1. \A h \in Handles : mode[h] # "ro"
    BY <1>f, OwnershipAssumption DEF OwnInv, LockInv, Locked
  <2> QED
    BY <1>f, <2>1 DEF OwnInv, TypeInv, HandleInv
<1>s. ASSUME workload = "covering"
      PROVE  /\ DiskInv /\ WorkInv(p) /\ pc'[p] = "clear"
             /\ Sound(N, files) /\ AllSettled(files, N)
             /\ \A s \in shared[p] : Stale(s.chunks, manifest.chunks, files)
  BY <1>f, <1>s DEF OwnInv, TypeInv, CoverInv, WorkInv, AllSettled
<1>6. ASSUME N \in {c.chunks : c \in shared[p]}, UNCHANGED <<manifest, shared>>
      PROVE  OwnInv' /\ Frozen
  <2>1. Moves(p)
    BY <1>f, <1>6 DEF OwnInv, TypeInv, Moves, Locked
  <2>2. TypeInv'
    BY <1>f, <1>6 DEF OwnInv, TypeInv, Locked
  <2>3. ASSUME workload = "covering" PROVE CoverInv'
    <3>1. \A c \in N : Settled(FileOf(c), manifest.chunks)
      BY <1>6, <1>s, <2>3 DEF Stale
    <3>2. AllSettled(files, manifest.chunks)
      <4>1. ASSUME NEW f \in files PROVE Settled(f, manifest.chunks)
        <5>1. Settled(f, N) /\ f \in File
          BY <1>s, <1>t, <2>3 DEF AllSettled
        <5> QED
          BY <1>t, <3>1, <5>1, SettledStep
      <4> QED
        BY <4>1 DEF AllSettled
    <3>3. WorkInv(p)'
      BY <1>6, <1>f, <1>s, <2>3, <3>2 DEF WorkInv
    <3> QED
      BY <1>6, <1>f, <2>1, <2>3, <3>2, <3>3, CoverQuiet
  <2> QED
    BY <1>3, <1>4, <2>1, <2>2, <2>3, StepFrame
<1>7. ASSUME Save(p, N) PROVE OwnInv' /\ Frozen
  <2> DEFINE S == {[chunks |-> N, stamp |-> manifest'.stamp]}
  <2>1. manifest' \in Meta /\ manifest'.chunks = N /\ S \in SUBSET Cached
    BY <1>7, <1>t, SavedShape DEF Save
  <2>2. shared' = [shared EXCEPT ![p] = S]
    BY <1>7 DEF Save, Stamped
  <2> HIDE DEF S
  <2>3. Moves(p)
    BY <1>f, <2>2 DEF OwnInv, TypeInv, Moves, Locked
  <2>4. TypeInv'
    BY <1>f, <2>1, <2>2 DEF OwnInv, TypeInv, Locked
  <2>5. ASSUME workload = "covering" PROVE CoverInv'
    <3>1. \A c \in N : FileOf(c) \in files
      BY <1>s, <1>t, <2>5, SettlesAreFiles
    <3>2. \A c \in manifest.chunks : FileOf(c) \in files /\ Settled(FileOf(c), N)
      BY <1>s, <2>5 DEF DiskInv, AllSettled
    <3>3. ASSUME NEW c \in manifest.chunks
          PROVE  \E d \in N : d.path.month = c.path.month /\ (d = c \/ d.gen > c.gen)
      <4>1. PICK d \in N : FileOf(d) = FileOf(c) \/ Within(FileOf(c), d)
        BY <3>2 DEF Settled
      <4>2. c \in ChunkEntry /\ d \in ChunkEntry
        BY <1>t
      <4>3. CASE FileOf(d) = FileOf(c)
        BY <4>2, <4>3, EntryOfFile
      <4>4. CASE Within(FileOf(c), d)
        <5>1. Within(c, d)
          BY <4>2, <4>4, WithinFiles
        <5> QED
          BY <4>2, <5>1, Numbers DEF Within
      <4> QED
        BY <4>1, <4>3, <4>4
    <3>4. /\ DiskInv'
          /\ \A s \in shared'[p] : Stale(s.chunks, manifest'.chunks, files')
          /\ \A C \in SUBSET ChunkEntry :
               Stale(C, manifest.chunks, files) => Stale(C, manifest'.chunks, files')
      <4>1. \A c \in manifest.chunks : Settled(FileOf(c), N)
        BY <3>2
      <4> QED
        BY <1>7, <1>f, <1>s, <1>t, <2>3, <2>5, <3>1, <3>3, <4>1, CoverSaved
    <3>5. WorkInv(p)'
      BY <1>f, <1>s, <2>1, <2>5, <3>4 DEF WorkInv
    <3> QED
      BY <2>3, <2>5, <3>4, <3>5, CoverChange
  <2> QED
    BY <1>3, <1>4, <2>3, <2>4, <2>5, StepFrame
<1> QED
  BY <1>6, <1>7 DEF RecoverSave
\* The marker goes when every file is settled.
LEMMA RecoverClearStep ==
  ASSUME OwnInv, NEW p \in Procs, RecoverClear(p)
  PROVE  OwnInv' /\ Frozen
<1>c. Nothing \in Meta
  BY DEF Nothing, Meta
<1>f. /\ pc[p] = "clear" /\ pc[p] \in Locked /\ marker' = FALSE
      /\ UNCHANGED <<workload, manifest, files, sealed, lockfile, local, acked, commits>>
  BY DEF RecoverClear, caches, counted, Locked
<1>h. writer = p /\ p # NoProc /\ \A h \in Handles : mode[h] # "ro"
  BY <1>f, OwnershipAssumption DEF OwnInv, LockInv
<1>s. ASSUME workload = "covering"
      PROVE  /\ WorkInv(p) /\ AllSettled(files, manifest.chunks)
             /\ \A s \in shared[p] : Stale(s.chunks, manifest.chunks, files)
  BY <1>f, <1>s DEF OwnInv, CoverInv, WorkInv
<1>6. ASSUME mode' = [h \in Handles |-> IF h \in cur[p] THEN "rw" ELSE mode[h]],
             writer' = NoProc, Return(p), UNCHANGED shared
      PROVE  OwnInv' /\ Frozen
  <2>1. Moves(p)
    BY <1>f, <1>6 DEF OwnInv, TypeInv, Moves, Return
  <2>2. TypeInv'
    BY <1>c, <1>f, <1>6 DEF OwnInv, TypeInv, Return
  <2>3. LockInv'
    <3>1. pc'[p] = "idle" /\ \A q \in Procs \ {p} : pc'[q] = pc[q] /\ pc[q] \notin Locked
      BY <1>h, <1>6 DEF OwnInv, TypeInv, LockInv, Return
    <3> QED
      BY <1>6, <3>1, OwnershipAssumption DEF LockInv, Locked
  <2>4. HandleInv'
    BY <1>f, <1>h, <1>6 DEF OwnInv, TypeInv, HandleInv
  <2>5. ASSUME workload = "covering" PROVE CoverInv'
    <3>1. pc'[p] = "idle" /\ \A s \in shared'[p] : Stale(s.chunks, manifest'.chunks, files')
      BY <1>f, <1>6, <1>s, <2>5 DEF OwnInv, TypeInv, Return
    <3>2. WorkInv(p)'
      BY <3>1, IdleWork
    <3> QED
      BY <1>f, <1>s, <2>1, <2>5, <3>2, CoverQuiet
  <2> QED
    BY <2>1, <2>2, <2>3, <2>4, <2>5, StepFrame
<1>7. ASSUME NEW l \in {"load", "seal"}, pc' = [pc EXCEPT ![p] = l],
             NEW S \in SUBSET Cached, shared' = [shared EXCEPT ![p] = S],
             S = {} \/ (l = "seal" /\ S = shared[p]),
             UNCHANGED <<writer, mode, cur, goal, got, out, todo>>
      PROVE  OwnInv' /\ Frozen
  <2>1. Moves(p)
    BY <1>f, <1>7 DEF OwnInv, TypeInv, Moves
  <2>2. TypeInv'
    BY <1>f, <1>7 DEF OwnInv, TypeInv, Locked
  <2>3. LockInv'
    BY <1>f, <1>h, <1>7 DEF OwnInv, TypeInv, LockInv, Locked
  <2>4. HandleInv'
    BY <1>f, <1>h, <1>7 DEF OwnInv, TypeInv, HandleInv
  <2>5. ASSUME workload = "covering" PROVE CoverInv'
    <3>1. pc'[p] = l /\ shared'[p] = S
      BY <1>7 DEF OwnInv, TypeInv
    <3>2. WorkInv(p)'
      BY <1>7, <1>f, <1>s, <2>5, <3>1 DEF WorkInv
    <3> QED
      BY <1>f, <1>s, <2>1, <2>5, <3>2, CoverQuiet
  <2> QED
    BY <2>1, <2>2, <2>3, <2>4, <2>5, StepFrame
<1>8. shared[p] \in SUBSET Cached /\ shared = [shared EXCEPT ![p] = shared[p]]
  BY DEF OwnInv, TypeInv
<1>9. CASE goal[p] = "open"
  BY <1>6, <1>9 DEF RecoverClear, caches
<1>10. CASE goal[p] = "mutate"
  BY <1>7, <1>10 DEF RecoverClear, DropCaches, work
<1>11. CASE goal[p] = "seal"
  BY <1>7, <1>8, <1>11 DEF RecoverClear, caches, work
<1> QED
  BY <1>9, <1>10, <1>11 DEF RecoverClear

\* A seal takes the lock and recovers.
LEMMA SealBeginStep ==
  ASSUME OwnInv, NEW p \in Procs, SealBegin(p)
  PROVE  OwnInv' /\ Frozen
<1> USE DEF SealBegin, Lock, MayLock, counted
<1>1. Moves(p)
  BY DEF OwnInv, TypeInv, Moves
<1>2. TypeInv'
  BY DEF OwnInv, TypeInv, Locked
<1>3. LockInv'
  BY OwnershipAssumption DEF OwnInv, TypeInv, LockInv, Locked
<1>4. HandleInv'
  BY DEF OwnInv, TypeInv, HandleInv
<1>5. ASSUME workload = "covering" PROVE CoverInv'
  <2>1. WorkInv(p)'
    BY IdleWork DEF OwnInv, TypeInv
  <2> QED
    BY <1>1, <1>5, <2>1, CoverQuiet DEF OwnInv, CoverInv, DiskInv
<1> QED
  BY <1>1, <1>2, <1>3, <1>4, <1>5, StepFrame

\* A clean store is found.
LEMMA SealFinalizeStep ==
  ASSUME OwnInv, NEW p \in Procs, SealFinalize(p)
  PROVE  OwnInv' /\ Frozen
<1>f. /\ pc[p] = "seal" /\ pc' = [pc EXCEPT ![p] = "snapshot"]
      /\ UNCHANGED <<workload, manifest, files, marker, sealed, lockfile, writer, mode, local,
                     shared, cur, goal, got, out, todo, acked, commits>>
  BY DEF SealFinalize, disk, caches, work, counted
<1>1. Moves(p)
  BY <1>f DEF OwnInv, TypeInv, Moves, Locked
<1>2. TypeInv'
  BY <1>f DEF OwnInv, TypeInv, Locked
<1>3. LockInv'
  BY <1>f DEF OwnInv, TypeInv, LockInv, Locked
<1>4. HandleInv'
  BY <1>f DEF OwnInv, TypeInv, HandleInv
<1>5. ASSUME workload = "covering" PROVE CoverInv'
  <2>1. pc'[p] = "snapshot" /\ \A s \in shared'[p] : Stale(s.chunks, manifest'.chunks, files')
    BY <1>5, <1>f DEF OwnInv, TypeInv, CoverInv, WorkInv
  <2>2. WorkInv(p)'
    BY <2>1, IdleWork
  <2> QED
    BY <1>1, <1>5, <1>f, <2>2, CoverQuiet DEF OwnInv, CoverInv, DiskInv
<1> QED
  BY <1>1, <1>2, <1>3, <1>4, <1>5, StepFrame

\* The snapshot file appears while the lock is held.
LEMMA SealWriteStep ==
  ASSUME OwnInv, NEW p \in Procs, SealWrite(p)
  PROVE  OwnInv' /\ Frozen
<1>c. Nothing \in Meta
  BY DEF Nothing, Meta
<1>f. /\ pc[p] = "snapshot" /\ pc[p] \in Locked /\ sealed' = TRUE /\ writer' = NoProc
      /\ UNCHANGED <<workload, manifest, files, marker, lockfile, mode, local, shared, acked,
                     commits>>
  BY DEF SealWrite, caches, counted, Locked
<1>g. Return(p)
  BY DEF SealWrite
<1>h. writer = p
  BY <1>f DEF OwnInv, LockInv
<1>1. Moves(p)
  BY <1>f, <1>g DEF OwnInv, TypeInv, Moves, Return
<1>2. TypeInv'
  BY <1>c, <1>f, <1>g DEF OwnInv, TypeInv, Return
<1>3. LockInv'
  BY <1>f, <1>g, <1>h, OwnershipAssumption DEF OwnInv, TypeInv, LockInv, Locked, Return
<1>4. HandleInv'
  BY <1>f DEF OwnInv, TypeInv, HandleInv
<1>5. ASSUME workload = "covering" PROVE CoverInv'
  <2>1. pc'[p] = "idle" /\ \A s \in shared'[p] : Stale(s.chunks, manifest'.chunks, files')
    BY <1>5, <1>f, <1>g DEF OwnInv, TypeInv, CoverInv, WorkInv, Return
  <2>2. WorkInv(p)'
    BY <2>1, IdleWork
  <2> QED
    BY <1>1, <1>5, <1>f, <2>2, CoverQuiet DEF OwnInv, CoverInv, DiskInv
<1> QED
  BY <1>1, <1>2, <1>3, <1>4, <1>5, StepFrame

LEMMA StutterStep ==
  ASSUME OwnInv, UNCHANGED vars
  PROVE  OwnInv' /\ Frozen
<1> USE DEF vars, disk, caches, work, counted
<1>1. UNCHANGED <<workload, manifest, files, marker, sealed, lockfile, writer, mode, local, shared,
                  pc, cur, goal, got, out, todo, acked, commits>>
  OBVIOUS
<1>2. TypeInv' /\ LockInv' /\ HandleInv'
  BY <1>1 DEF OwnInv, TypeInv, LockInv, HandleInv
<1>3. ASSUME workload = "covering" PROVE CoverInv'
  <2>1. DiskInv'
    BY <1>1, <1>3 DEF OwnInv, CoverInv, DiskInv
  <2>2. ASSUME NEW p \in Procs PROVE WorkInv(p)'
    BY <1>1, <1>3 DEF OwnInv, CoverInv, WorkInv
  <2> QED
    BY <2>1, <2>2 DEF CoverInv
<1> QED
  BY <1>1, <1>2, <1>3 DEF OwnInv, Frozen

\* Every step keeps the invariant and leaves a sealed root as it is.
LEMMA NextStep ==
  ASSUME OwnInv, [Next]_vars
  PROVE  OwnInv' /\ Frozen
<1>1. ASSUME NEW h \in Handles,
             \/ OpenReadOnly(h) \/ OpenUnlocked(h) \/ OpenWritable(h) \/ OpenRecovering(h)
             \/ Close(h) \/ ReadOnlyLoad(h) \/ ReadBytes(h) \/ BeginMutation(h)
      PROVE  OwnInv' /\ Frozen
  BY <1>1, OpenReadOnlyStep, OpenUnlockedStep, OpenWritableStep, OpenRecoveringStep, CloseStep,
     ReadOnlyLoadStep, ReadBytesStep, BeginMutationStep
<1>2. ASSUME NEW p \in Procs,
             \/ ReadDone(p) \/ LoadForUpdate(p) \/ NewForUpdate(p) \/ PutRefused(p)
             \/ \E b \in Batches : Arm(p, b)
             \/ WriteChunk(p) \/ WriteRefused(p) \/ SaveManifest(p) \/ RemoveReplaced(p)
             \/ Commit(p)
      PROVE  OwnInv' /\ Frozen
  BY <1>2, ReadDoneStep, LoadForUpdateStep, NewForUpdateStep, RefusedSteps, ArmStep,
     WriteChunkStep, SaveManifestStep, RemoveReplacedStep, CommitStep
<1>3. ASSUME NEW p \in Procs,
             \/ RecoverNothing(p) \/ RecoverLoad(p) \/ RecoverCandidate(p) \/ RecoverSave(p)
             \/ RecoverClear(p)
             \/ SealBegin(p) \/ SealFinalize(p) \/ SealRefused(p) \/ SealWrite(p)
             \/ Fail(p) \/ Crash(p)
      PROVE  OwnInv' /\ Frozen
  BY <1>3, RecoverNothingStep, RecoverLoadStep, RecoverCandidateStep, RecoverSaveStep,
     RecoverClearStep, SealBeginStep, SealFinalizeStep, RefusedSteps, SealWriteStep, CrashStep
<1> QED
  BY <1>1, <1>2, <1>3, StutterStep DEF Next

\* What the invariant says of the properties.
LEMMA InvImplies ==
  ASSUME OwnInv
  PROVE  ReadersSeeTheStore /\ CommitsStay
<1>1. ReadersSeeTheStore
  BY DEF OwnInv, HandleInv, CoverInv, DiskInv, ReadersSeeTheStore
<1>2. CommitsStay
  BY DEF OwnInv, CoverInv, DiskInv, CommitsStay
<1> QED
  BY <1>1, <1>2

LEMMA InvariantHolds == Spec /\ ~ Legacy => []OwnInv
<1>1. Init /\ ~ Legacy => OwnInv
  BY InitInv
<1>2. OwnInv /\ [Next]_vars => OwnInv'
  BY NextStep
<1> QED
  BY <1>1, <1>2, PTL DEF Spec

\* A reader that holds its shared lock works on the store as it is: nothing is
\* pending, its cached manifest is the one on disk and, while puts cover what they
\* replace, the file of every chunk is there, for any number of processes.
THEOREM ReadersAreCurrent == Spec /\ ~ Legacy => []ReadersSeeTheStore
<1>1. OwnInv => ReadersSeeTheStore
  BY InvImplies
<1> QED
  BY <1>1, InvariantHolds, PTL

\* While puts cover what they replace, no process, crash or recovery, from a stale
\* cached manifest included, takes an acknowledged put away.
THEOREM CommitsAreKept == Spec /\ ~ Legacy => []CommitsStay
<1>1. OwnInv => CommitsStay
  BY InvImplies
<1> QED
  BY <1>1, InvariantHolds, PTL

\* A sealed root does not change, whatever was in progress when it was sealed.
THEOREM SealIsFinal == Spec /\ ~ Legacy => SealedIsFrozen
<1>1. OwnInv /\ [Next]_vars => [sealed => UNCHANGED <<manifest, files, sealed>>]_vars
  BY NextStep DEF Frozen
<1> QED
  BY <1>1, InvariantHolds, PTL DEF Spec, SealedIsFrozen
=============================================================================
