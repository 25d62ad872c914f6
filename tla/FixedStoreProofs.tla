-------------------------- MODULE FixedStoreProofs --------------------------
(***************************************************************************)
(* Proofs about FixedStore for every set of timestamps, every division of  *)
(* them into months and days and every number of puts, failures, rebuilds. *)
(***************************************************************************)
EXTENDS FixedStore, TLAPS

Keys == {MonthOf[t] : t \in Ts} \cup {DayOf[t] : t \in Ts}

Row == [ts : Ts, ver : Nat]

Path == [month : Keys, kind : {"base", "delta"}, gen : Nat]

File == [path : Path, id : Nat, gen : Nat, start : Ts, end : Ts, rows : SUBSET Row]

ChunkEntry == [path : Path, id : Nat, gen : Nat, start : Ts, end : Ts, rows : SUBSET Row,
               state : ChunkStates]

Phases == {"idle", "register", "put", "commit", "recover", "recover_clear"}

TypeOK ==
  /\ disk \subseteq File /\ manifest \subseteq ChunkEntry /\ meta \subseteq ChunkEntry
  /\ todo \subseteq File /\ parts \subseteq SUBSET Ts
  /\ unit \in Units \cup {"none"} /\ marker \in BOOLEAN /\ pc \in Phases
  /\ batch \subseteq Row /\ acked \subseteq Row /\ submitted \subseteq Row
  /\ puts \in Nat /\ fails \in Nat /\ rebuilds \in Nat

\* A chunk lies in its partition and its name tells its generation.
GoodChunk(c) ==
  /\ c.start <= c.end
  /\ PartitionKey(c.start) = c.path.month /\ PartitionKey(c.end) = c.path.month
  /\ IF c.path.kind = "base" THEN c.gen = 1 /\ c.path.gen = 0
                             ELSE c.gen > 1 /\ c.path.gen = c.gen
  /\ \A r \in c.rows : c.start <= r.ts /\ r.ts <= c.end /\ r.ver <= puts

\* The generations of a partition follow each other in time, without a gap.
GoodDisk ==
  /\ \A f \in disk : GoodChunk(f)
  /\ \A f, g \in disk : f.path = g.path => f = g
  /\ \A f, g \in disk : f.path.month = g.path.month /\ f.gen < g.gen => f.end < g.start
  /\ \A f \in disk : \A j \in 1..f.gen :
       \E g \in disk : g.path.month = f.path.month /\ g.gen = j

GoodEntries(C) ==
  /\ \A c \in C : FileOf(c) \in disk
  /\ \A c, d \in C : c.path = d.path => c = d

Tracked(f, C) == \E c \in C : FileOf(c) = f

AllTracked == \A f \in disk : Tracked(f, manifest)

\* What the files hold of a put is a prefix of it.
GoodPrefix ==
  \A r \in RowsOf(disk), s \in submitted :
    /\ s.ver = r.ver
    /\ s.ts < r.ts \/ PartitionKey(s.ts) = PartitionKey(r.ts)
    => s \in RowsOf(disk)

\* A file without an entry is of the last put, of which no reader sees a row.
OrphanInv ==
  \A f \in disk : \/ Tracked(f, manifest)
                  \/ /\ \A r \in f.rows : r.ver = puts
                     /\ \A r \in VisibleRows : r.ver # puts

PhaseInv ==
  /\ pc \in {"register", "put", "commit"} => marker
  /\ ~ marker => AllTracked /\ batch = {}
  /\ pc \in {"register", "commit", "recover_clear"} => AllTracked
  /\ pc = "register" => batch = {} /\ unit = "none"
  /\ pc = "commit" => batch \subseteq VisibleRows
  /\ unit = "none" => disk = {} /\ submitted = {}
  /\ byMonth \subseteq Paths(manifest)
  /\ \A s \in submitted : s.ver <= puts

PartsInv ==
  /\ \A b \in parts : b # {} /\ \A s, t \in b : PartitionKey(s) = PartitionKey(t)
  /\ \A b, d \in parts : \A s \in b, t \in d : PartitionKey(s) = PartitionKey(t) => b = d
  /\ \A b \in parts : \A t \in b : \A c \in Partition(meta, PartitionKey(t)) : c.end < t

PutInv ==
  pc = "put" =>
    /\ unit # "none"
    /\ GoodEntries(meta) /\ manifest \subseteq meta
    /\ \A f \in disk : Tracked(f, meta)
    /\ PartsInv
    /\ \A s \in batch : s.ver = puts /\ (s \in RowsOf(disk) \/ \E b \in parts : s.ts \in b)
    /\ \A s \in submitted : s.ver = puts => s \in batch
    /\ \A r \in VisibleRows : r.ver # puts
    /\ \A r \in RowsOf(disk) : r.ver = puts =>
         \A b \in parts : \A t \in b : r.ts < t /\ PartitionKey(r.ts) # PartitionKey(t)

RecoverInv ==
  pc = "recover" =>
    /\ GoodEntries(meta) /\ manifest \subseteq meta /\ todo \subseteq disk
    /\ \A f \in disk : Tracked(f, meta) \/ f \in todo

IInv ==
  /\ TypeOK /\ GoodDisk /\ GoodEntries(manifest) /\ GoodPrefix /\ OrphanInv
  /\ PhaseInv /\ PutInv /\ RecoverInv
  /\ acked \subseteq VisibleRows

(***************************************************************************)
(* Operators of the catalog and of the partitions                          *)
(***************************************************************************)
\* Dropping the state of an entry gives a file with the same header and rows.
LEMMA FileOfEntry ==
  ASSUME NEW c \in ChunkEntry
  PROVE  /\ FileOf(c) \in File
         /\ FileOf(c).path = c.path /\ FileOf(c).id = c.id /\ FileOf(c).gen = c.gen
         /\ FileOf(c).start = c.start /\ FileOf(c).end = c.end /\ FileOf(c).rows = c.rows
BY DEF FileOf, ChunkEntry, File

\* A directory scan gives an entry for the same file.
LEMMA ScannedFile ==
  ASSUME NEW f \in File
  PROVE  /\ Scanned(f) \in ChunkEntry
         /\ FileOf(Scanned(f)) = f
         /\ Scanned(f).path = f.path /\ Scanned(f).gen = f.gen
         /\ Scanned(f).start = f.start /\ Scanned(f).end = f.end /\ Scanned(f).rows = f.rows
BY DEF Scanned, Entry, DecodeState, FileOf, ChunkEntry, File, ChunkStates

\* A batch lies between its first and its last timestamp.
LEMMA BatchBounds ==
  ASSUME NEW b \in SUBSET Ts, b # {}
  PROVE  /\ Min(b) \in b /\ Max(b) \in b
         /\ \A t \in b : Min(b) <= t /\ t <= Max(b)
<1>1. \A t \in b : t \in Int
  BY FixedAssumption
<1>2. PICK lo, hi \in b : \A t \in b : lo <= t /\ t <= hi
  BY FixedAssumption
<1>3. Min(b) \in b /\ \A t \in b : Min(b) <= t
  BY <1>2 DEF Min
<1>4. \A t \in b : hi >= t
  BY <1>1, <1>2
<1>5. Max(b) \in b /\ \A t \in b : Max(b) >= t
  BY <1>4 DEF Max
<1> QED
  BY <1>1, <1>3, <1>5

\* Partitions are intervals of time.
LEMMA KeyConvex ==
  ASSUME NEW s \in Ts, NEW t \in Ts, NEW u \in Ts, s <= t, t <= u,
         PartitionKey(s) = PartitionKey(u)
  PROVE  PartitionKey(t) = PartitionKey(s)
BY FixedAssumption DEF PartitionKey

LEMMA KeyType ==
  ASSUME NEW t \in Ts
  PROVE  PartitionKey(t) \in Keys
BY DEF PartitionKey, Keys

\* An entry that counts for a partition has its file in that partition: a month
\* that a scan guessed is no key of a series with day partitions.
LEMMA KeyOfEntry ==
  ASSUME NEW c \in ChunkEntry, GoodChunk(c), NEW t \in Ts, Key(c) = PartitionKey(t)
  PROVE  c.path.month = PartitionKey(t)
<1>1. c.start \in Ts
  BY DEF ChunkEntry
<1>2. MonthOf[c.start] # DayOf[t]
  BY <1>1, FixedAssumption
<1> QED
  BY <1>2 DEF Key, PartitionKey, GoodChunk

LEMMA GoodFileOf ==
  ASSUME NEW c \in ChunkEntry
  PROVE  GoodChunk(FileOf(c)) <=> GoodChunk(c)
BY FileOfEntry DEF GoodChunk

LEMMA NextGenerationIsNew ==
  ASSUME NEW C \in SUBSET ChunkEntry, NEW g \in NextGeneration(C)
  PROVE  /\ g \in Nat /\ \A c \in C : c.gen < g
         /\ C = {} => g = 1
         /\ C # {} => \E c \in C : g = c.gen + 1
BY DEF NextGeneration, ChunkEntry

LEMMA NextChunkIdIsNew ==
  ASSUME NEW C \in SUBSET ChunkEntry, NEW i \in NextChunkId(C)
  PROVE  i \in Nat /\ \A c \in C : c.id < i
BY DEF NextChunkId, ChunkEntry

\* The files of a series never overlap, though validate() sees only the entries.
LEMMA FilesDisjoint ==
  ASSUME TypeOK, GoodDisk, NEW f \in disk, NEW g \in disk, RangesOverlap(f, g)
  PROVE  f = g
<1>1. /\ f.start \in Ts /\ f.end \in Ts /\ g.start \in Ts /\ g.end \in Ts
      /\ f.gen \in Nat /\ g.gen \in Nat /\ f.path \in Path /\ g.path \in Path
  BY DEF TypeOK, File
<1>2. f.start \in Int /\ f.end \in Int /\ g.start \in Int /\ g.end \in Int
  BY <1>1, FixedAssumption
<1>3. f.start <= g.end /\ g.start <= f.end
  BY <1>2 DEF RangesOverlap
<1>4. GoodChunk(f) /\ GoodChunk(g)
  BY DEF GoodDisk
<1>5. f.path.month = g.path.month
  <2>1. CASE f.start <= g.start
    <3>1. PartitionKey(g.start) = PartitionKey(f.start)
      BY <1>1, <1>3, <1>4, <2>1, KeyConvex DEF GoodChunk
    <3> QED
      BY <1>4, <3>1 DEF GoodChunk
  <2>2. CASE g.start <= f.start
    <3>1. PartitionKey(f.start) = PartitionKey(g.start)
      BY <1>1, <1>3, <1>4, <2>2, KeyConvex DEF GoodChunk
    <3> QED
      BY <1>4, <3>1 DEF GoodChunk
  <2> QED
    BY <1>2, <2>1, <2>2
<1>6. ~ (f.gen < g.gen) /\ ~ (g.gen < f.gen)
  BY <1>2, <1>3, <1>5 DEF GoodDisk
<1>7. f.path.kind = g.path.kind /\ f.path.gen = g.path.gen
  BY <1>1, <1>4, <1>6 DEF GoodChunk, Path
<1>8. f.path = g.path
  BY <1>1, <1>5, <1>7 DEF Path
<1> QED
  BY <1>8 DEF GoodDisk

\* Recovery adopts every file that has no entry, and changes no entry.
LEMMA AdoptFree ==
  ASSUME TypeOK, GoodDisk, GoodEntries(meta), NEW f \in disk
  PROVE  AdoptCandidate(meta, f) =
           IF Tracked(f, meta) THEN meta ELSE meta \cup {Scanned(f)}
<1>1. f \in File /\ \A c \in meta : c \in ChunkEntry /\ FileOf(c) \in disk
  BY DEF TypeOK, GoodEntries
<1>2. Scanned(f).path = f.path /\ Scanned(f).start = f.start /\ Scanned(f).end = f.end
  BY <1>1, ScannedFile
<1>3. f.path \in Paths(meta) <=> Tracked(f, meta)
  <2>1. ASSUME NEW c \in meta, c.path = f.path
        PROVE  FileOf(c) = f
    BY <1>1, <2>1, FileOfEntry DEF GoodDisk
  <2>2. \A c \in meta : FileOf(c) = f => c.path = f.path
    BY <1>1, FileOfEntry
  <2> QED
    BY <2>1, <2>2 DEF Paths, Tracked
<1>4. ASSUME NEW c \in meta, RangesOverlap(c, Scanned(f))
      PROVE  Tracked(f, meta)
  <2>1. RangesOverlap(FileOf(c), f)
    BY <1>1, <1>2, <1>4, FileOfEntry DEF RangesOverlap
  <2>2. FileOf(c) = f
    BY <1>1, <2>1, FilesDisjoint
  <2> QED
    BY <2>2 DEF Tracked
<1>5. CASE Tracked(f, meta)
  BY <1>2, <1>3, <1>5 DEF AdoptCandidate
<1>6. CASE ~ Tracked(f, meta)
  <2>1. {c \in meta : RangesOverlap(c, Scanned(f))} = {}
    BY <1>4, <1>6
  <2> QED
    BY <1>2, <1>3, <1>6, <2>1 DEF AdoptCandidate
<1> QED
  BY <1>5, <1>6

\* A rebuild keeps every file.
LEMMA RebuildKeepsAll ==
  ASSUME TypeOK, GoodDisk
  PROVE  SelectNonOverlapping({Scanned(f) : f \in disk}) = {Scanned(f) : f \in disk}
<1> DEFINE S == {Scanned(f) : f \in disk}
<1>1. \A c \in S : \E f \in disk : c = Scanned(f) /\ c.start = f.start /\ c.end = f.end
  BY ScannedFile DEF TypeOK
<1>2. \A c \in S : c.start \in Int /\ c.end \in Int /\ c.start <= c.end
  BY <1>1, FixedAssumption DEF TypeOK, File, GoodDisk, GoodChunk
<1>3. ASSUME NEW c \in S, NEW d \in S, RangesOverlap(c, d)
      PROVE  c = d
  <2>1. PICK f \in disk : c = Scanned(f) /\ c.start = f.start /\ c.end = f.end
    BY <1>1
  <2>2. PICK g \in disk : d = Scanned(g) /\ d.start = g.start /\ d.end = g.end
    BY <1>1
  <2>3. RangesOverlap(f, g)
    BY <1>3, <2>1, <2>2 DEF RangesOverlap
  <2> QED
    BY <2>1, <2>2, <2>3, FilesDisjoint
<1> HIDE DEF S
<1>4. ASSUME NEW c \in S, NEW d \in S, c.start < d.start
      PROVE  ~ SameGroup(S, c, d) /\ ~ SameGroup(S, d, c)
  <2>1. IsCut(S, d.start)
    <3> SUFFICES ASSUME NEW e \in S, e.start < d.start
                 PROVE  e.end < d.start
      BY DEF IsCut
    <3>1. ~ RangesOverlap(e, d)
      BY <1>2, <1>3
    <3> QED
      BY <1>2, <3>1 DEF RangesOverlap
  <2>2. ~ (d.start < d.start)
    BY <1>2
  <2> QED
    BY <1>4, <2>1, <2>2 DEF SameGroup
<1>5. ASSUME NEW c \in S
      PROVE  OverlapGroup(S, c) = {c}
  <2>1. SameGroup(S, c, c)
    BY DEF SameGroup
  <2>2. ASSUME NEW d \in S, SameGroup(S, c, d)
        PROVE  d = c
    <3>1. c.start = d.start
      BY <1>2, <1>4, <2>2
    <3>2. RangesOverlap(c, d)
      BY <1>2, <3>1 DEF RangesOverlap
    <3> QED
      BY <1>3, <3>2
  <2> QED
    BY <2>1, <2>2 DEF OverlapGroup
<1>6. \A c \in S : Survivor({c}) = {c}
  BY <1>2 DEF Survivor, Covers
<1>7. SelectNonOverlapping(S) = S
  BY <1>5, <1>6 DEF SelectNonOverlapping
<1> QED
  BY <1>7 DEF S

(***************************************************************************)
(* The inductive invariant, action by action                               *)
(***************************************************************************)
\* The files, and what they hold of each put, are left alone.
LEMMA DiskKept ==
  ASSUME IInv, UNCHANGED <<disk, unit, puts, submitted>>
  PROVE  GoodDisk' /\ GoodPrefix'
BY DEF IInv, GoodDisk, GoodChunk, PartitionKey, GoodPrefix, RowsOf

\* The entries too.
LEMMA EntriesKept ==
  ASSUME IInv, UNCHANGED <<disk, manifest, puts>>
  PROVE  /\ GoodEntries(manifest)' /\ OrphanInv' /\ VisibleRows' = VisibleRows
         /\ AllTracked' <=> AllTracked
BY DEF IInv, GoodEntries, OrphanInv, VisibleRows, AllTracked, Tracked

\* Visible rows are rows of files.
LEMMA EntriesHaveFiles ==
  ASSUME NEW C \in SUBSET ChunkEntry, GoodEntries(C)
  PROVE  RowsOf(C) \subseteq RowsOf(disk)
<1>1. \A c \in C : FileOf(c) \in disk /\ FileOf(c).rows = c.rows
  BY FileOfEntry DEF GoodEntries
<1> QED
  BY <1>1 DEF RowsOf

LEMMA TrackedRows ==
  ASSUME NEW C \in SUBSET ChunkEntry, \A f \in disk : Tracked(f, C)
  PROVE  RowsOf(disk) \subseteq RowsOf(C)
<1>1. \A f \in disk : \E c \in C : f.rows = c.rows
  BY FileOfEntry DEF Tracked
<1> QED
  BY <1>1 DEF RowsOf

LEMMA InvInit == Init => IInv
<1> SUFFICES ASSUME Init
             PROVE  IInv
  OBVIOUS
<1>1. TypeOK
  BY FixedAssumption DEF Init, TypeOK, Phases
<1>2. GoodDisk /\ GoodEntries(manifest) /\ GoodPrefix /\ OrphanInv
  BY DEF Init, GoodDisk, GoodEntries, GoodPrefix, OrphanInv
<1>3. PhaseInv /\ PutInv /\ RecoverInv
  BY DEF Init, PhaseInv, PutInv, RecoverInv, AllTracked
<1> QED
  BY <1>1, <1>2, <1>3 DEF IInv, Init

LEMMA InvRegister ==
  ASSUME IInv, RegisterBegin \/ \E u \in Units : RegisterSave(u)
  PROVE  IInv'
<1> USE DEF callers, counted
<1>1. CASE RegisterBegin
  <2>1. /\ UNCHANGED <<disk, manifest, byMonth, unit, parts, meta, todo, callers, counted>>
        /\ marker' = TRUE /\ pc' = "register" /\ unit = "none" /\ AllTracked /\ batch = {}
    BY <1>1 DEF RegisterBegin, MayMutate, IInv, PhaseInv
  <2>2. TypeOK'
    BY <2>1 DEF IInv, TypeOK, Phases
  <2>3. PhaseInv'
    BY <2>1, EntriesKept DEF IInv, PhaseInv
  <2>4. PutInv' /\ RecoverInv'
    BY <2>1 DEF PutInv, RecoverInv
  <2> QED
    BY <2>1, <2>2, <2>3, <2>4, DiskKept, EntriesKept DEF IInv
<1>2. ASSUME NEW u \in Units, RegisterSave(u)
      PROVE  IInv'
  <2>1. /\ UNCHANGED <<disk, manifest, byMonth, marker, parts, meta, todo, callers, counted>>
        /\ unit' = u /\ u # "none" /\ pc' = "commit" /\ marker /\ AllTracked /\ batch = {}
        /\ disk = {} /\ submitted = {}
    BY <1>2, FixedAssumption DEF RegisterSave, IInv, PhaseInv
  <2>2. TypeOK'
    BY <2>1 DEF IInv, TypeOK, Phases
  <2>3. PhaseInv'
    BY <2>1, EntriesKept DEF IInv, PhaseInv
  <2>4. PutInv' /\ RecoverInv'
    BY <2>1 DEF PutInv, RecoverInv
  <2>5. GoodDisk' /\ GoodPrefix'
    BY <2>1 DEF GoodDisk, GoodPrefix
  <2> QED
    BY <2>1, <2>2, <2>3, <2>4, <2>5, EntriesKept DEF IInv
<1> QED
  BY <1>1, <1>2

\* The batches of a put: one per partition, not empty.
LEMMA SplitParts ==
  ASSUME NEW stamps \in SUBSET Ts
  PROVE  LET B == SplitByPartition(stamps)
         IN  /\ B \subseteq SUBSET Ts
             /\ \A b \in B : b # {} /\ \A s, t \in b : PartitionKey(s) = PartitionKey(t)
             /\ \A b, d \in B : \A s \in b, t \in d : PartitionKey(s) = PartitionKey(t) => b = d
             /\ \A t \in stamps : \E b \in B : t \in b
<1> DEFINE part(k) == {t \in stamps : PartitionKey(t) = k}
           B == {part(k) : k \in {PartitionKey(t) : t \in stamps}}
<1>1. SplitByPartition(stamps) = B
  BY DEF SplitByPartition
<1>2. \A b \in B : \E u \in stamps : b = part(PartitionKey(u)) /\ u \in b
  OBVIOUS
<1>3. \A t \in stamps : part(PartitionKey(t)) \in B /\ t \in part(PartitionKey(t))
  OBVIOUS
<1>4. \A k : \A t \in part(k) : t \in stamps /\ PartitionKey(t) = k
  OBVIOUS
<1> HIDE DEF part, B
<1>5. \A b \in B : b \subseteq stamps /\ b # {} /\ \A t \in b : b = part(PartitionKey(t))
  BY <1>2, <1>4
<1>6. \A b \in B : \A s, t \in b : PartitionKey(s) = PartitionKey(t)
  BY <1>2, <1>4
<1>7. \A b, d \in B : \A s \in b, t \in d : PartitionKey(s) = PartitionKey(t) => b = d
  BY <1>5
<1> QED
  BY <1>1, <1>3, <1>5, <1>6, <1>7

LEMMA InvPutBegin ==
  ASSUME IInv, NEW stamps \in SUBSET Ts, PutBegin(stamps)
  PROVE  IInv'
<1> USE DEF counted
<1>1. /\ UNCHANGED <<disk, manifest, byMonth, unit, todo, acked, fails, rebuilds>>
      /\ parts' = SplitByPartition(stamps) /\ FitsPartitions(parts') /\ meta' = manifest
      /\ puts' = puts + 1 /\ batch' = RowsAt(stamps, puts + 1)
      /\ submitted' = submitted \cup batch' /\ marker' = TRUE /\ pc' = "put"
      /\ unit # "none" /\ AllTracked
  BY DEF PutBegin, MayMutate, IInv, PhaseInv
<1>2. puts \in Nat /\ \A r \in RowsOf(disk) : r.ver \in Nat /\ r.ver <= puts
  BY DEF IInv, TypeOK, GoodDisk, GoodChunk, RowsOf, File, Row
<1>3. \A s \in submitted : s.ver \in Nat /\ s.ver <= puts
  BY DEF IInv, TypeOK, PhaseInv, Row
<1>4. \A s \in batch' : s \in Row /\ s.ver = puts + 1 /\ s.ts \in stamps
  BY <1>1, <1>2 DEF RowsAt, Row
<1>5. VisibleRows \subseteq RowsOf(disk)
  BY EntriesHaveFiles DEF IInv, TypeOK, VisibleRows
<1>6. TypeOK'
  BY <1>1, <1>2, <1>4, SplitParts DEF IInv, TypeOK, Phases
<1>7. GoodDisk'
  <2>1. \A f \in disk : GoodChunk(f)'
    BY <1>1, <1>2 DEF IInv, GoodDisk, GoodChunk, PartitionKey, RowsOf
  <2> QED
    BY <1>1, <2>1 DEF IInv, GoodDisk
<1>8. GoodPrefix'
  <2>1. ASSUME NEW r \in RowsOf(disk), NEW s \in batch'
        PROVE  s.ver # r.ver
    BY <1>2, <1>4
  <2>2. UNCHANGED <<disk, unit>> /\ submitted' = submitted \cup batch'
    BY <1>1
  <2> QED
    BY <2>1, <2>2 DEF IInv, GoodPrefix, PartitionKey, RowsOf
<1>9. GoodEntries(manifest)' /\ OrphanInv'
  BY <1>1 DEF IInv, GoodEntries, OrphanInv, AllTracked, Tracked
<1>10. PhaseInv'
  <2>1. \A s \in submitted' : s.ver <= puts'
    BY <1>1, <1>2, <1>3, <1>4
  <2> QED
    BY <1>1, <2>1 DEF IInv, PhaseInv, AllTracked, Tracked
<1>11. PartsInv'
  <2>1. \A t \in Ts : PartitionKey(t)' = PartitionKey(t)
    BY <1>1 DEF PartitionKey
  <2>2. parts' \subseteq SUBSET Ts
    BY <1>1, SplitParts
  <2>3. \A b \in parts' : \A t \in b : \A c \in Partition(manifest, PartitionKey(t)) : c.end < t
    BY <1>1 DEF FitsPartitions
  <2>4. \A k : Partition(manifest, k) = Partition(meta, k)'
    BY <1>1 DEF Partition, Key
  <2>5. \A b \in parts' : \A t \in b : \A c \in Partition(meta, PartitionKey(t))' : c.end < t
    BY <2>1, <2>2, <2>3, <2>4
  <2>6. /\ \A b \in parts' : b # {} /\ \A s, t \in b : PartitionKey(s) = PartitionKey(t)
        /\ \A b, d \in parts' : \A s \in b, t \in d : PartitionKey(s) = PartitionKey(t) => b = d
    BY <1>1, SplitParts
  <2> QED
    BY <2>1, <2>2, <2>5, <2>6 DEF PartsInv
<1>12. PutInv'
  <2>1. GoodEntries(meta)' /\ (manifest \subseteq meta)' /\ (\A f \in disk : Tracked(f, meta))'
    BY <1>1 DEF IInv, GoodEntries, AllTracked, Tracked
  <2>2. \A s \in batch' : s.ver = puts' /\ \E b \in parts' : s.ts \in b
    BY <1>1, <1>4, SplitParts
  <2>3. \A s \in submitted' : s.ver = puts' => s \in batch'
    BY <1>1, <1>2, <1>3
  <2>4. \A r \in RowsOf(disk)' : r.ver # puts'
    BY <1>1, <1>2 DEF RowsOf
  <2>5. \A r \in VisibleRows' : r.ver # puts'
    BY <1>1, <1>2, <1>5 DEF VisibleRows
  <2> QED
    BY <1>1, <1>11, <2>1, <2>2, <2>3, <2>4, <2>5 DEF PutInv
<1>13. RecoverInv'
  BY <1>1 DEF RecoverInv
<1> QED
  BY <1>1, <1>6, <1>7, <1>8, <1>9, <1>10, <1>12, <1>13 DEF IInv, VisibleRows

\* Steps that end a put or a failed operation and touch no file.
LEMMA InvStop ==
  ASSUME IInv, PutRefused \/ Fail
  PROVE  IInv'
<1> USE DEF durable, callers, counted
<1>1. /\ UNCHANGED <<disk, manifest, byMonth, unit, marker, batch, acked, submitted, puts, rebuilds>>
      /\ parts' = {} /\ meta' = {} /\ todo' \subseteq todo /\ pc' = "idle" /\ fails' \in Nat
  BY DEF PutRefused, Fail, IInv, TypeOK
<1>2. TypeOK'
  BY <1>1 DEF IInv, TypeOK, Phases
<1>3. PhaseInv'
  BY <1>1, EntriesKept DEF IInv, PhaseInv
<1>4. PutInv' /\ RecoverInv'
  BY <1>1 DEF PutInv, RecoverInv
<1> QED
  BY <1>1, <1>2, <1>3, <1>4, DiskKept, EntriesKept DEF IInv

\* A manifest that lists every file and keeps the rows it showed.
LEMMA SaveTracksAll ==
  ASSUME IInv, UNCHANGED <<disk, unit, puts, submitted, acked>>,
         manifest' \in SUBSET ChunkEntry, GoodEntries(manifest'),
         \A f \in disk : Tracked(f, manifest')
  PROVE  /\ GoodDisk' /\ GoodPrefix' /\ GoodEntries(manifest)' /\ OrphanInv' /\ AllTracked'
         /\ VisibleRows' = RowsOf(disk) /\ (acked \subseteq VisibleRows)'
<1>1. RowsOf(manifest') = RowsOf(disk)
  BY EntriesHaveFiles, TrackedRows
<1>2. RowsOf(manifest) \subseteq RowsOf(disk)
  BY EntriesHaveFiles DEF IInv, TypeOK
<1>3. acked' \subseteq RowsOf(manifest')
  BY <1>1, <1>2 DEF IInv, VisibleRows
<1> QED
  BY <1>1, <1>3, DiskKept DEF GoodEntries, OrphanInv, AllTracked, Tracked, VisibleRows

LEMMA InvPutSave ==
  ASSUME IInv, PutSave
  PROVE  IInv'
<1> USE DEF callers, counted
<1>1. /\ UNCHANGED <<disk, byMonth, unit, marker, parts, todo, callers, counted>>
      /\ manifest' = meta /\ meta' = {} /\ pc' = "commit" /\ pc = "put" /\ parts = {}
  BY DEF PutSave
<1>2. /\ GoodEntries(meta) /\ manifest \subseteq meta /\ meta \in SUBSET ChunkEntry /\ marker
      /\ (\A f \in disk : Tracked(f, meta)) /\ unit # "none" /\ batch \subseteq RowsOf(disk)
  BY <1>1 DEF IInv, PutInv, PhaseInv, TypeOK
<1>3. /\ GoodDisk' /\ GoodPrefix' /\ GoodEntries(manifest)' /\ OrphanInv' /\ AllTracked'
      /\ VisibleRows' = RowsOf(disk) /\ (acked \subseteq VisibleRows)'
  BY <1>1, <1>2, SaveTracksAll
<1>4. TypeOK'
  BY <1>1 DEF IInv, TypeOK, Phases
<1>5. PhaseInv'
  BY <1>1, <1>2, <1>3 DEF IInv, PhaseInv, Paths
<1>6. PutInv' /\ RecoverInv'
  BY <1>1 DEF PutInv, RecoverInv
<1> QED
  BY <1>3, <1>4, <1>5, <1>6 DEF IInv

LEMMA InvCommit ==
  ASSUME IInv, CommitMarker
  PROVE  IInv'
<1> USE DEF counted
<1>1. /\ UNCHANGED <<disk, manifest, byMonth, unit, parts, meta, todo, submitted, counted>>
      /\ marker' = FALSE /\ acked' = acked \cup batch /\ batch' = {} /\ pc' = "idle"
  BY DEF CommitMarker
<1>2. AllTracked /\ batch \subseteq VisibleRows
  BY DEF CommitMarker, IInv, PhaseInv
<1>3. TypeOK'
  BY <1>1 DEF IInv, TypeOK, Phases
<1>4. PhaseInv'
  BY <1>1, <1>2, EntriesKept DEF IInv, PhaseInv
<1>5. PutInv' /\ RecoverInv'
  BY <1>1 DEF PutInv, RecoverInv
<1> QED
  BY <1>1, <1>2, <1>3, <1>4, <1>5, DiskKept, EntriesKept DEF IInv

LEMMA InvRecoverBegin ==
  ASSUME IInv, RecoverBegin
  PROVE  IInv'
<1> USE DEF durable, callers, counted
<1>1. /\ UNCHANGED <<durable, parts, callers, counted>>
      /\ meta' = manifest /\ todo' = disk /\ pc' = "recover"
  BY DEF RecoverBegin
<1>2. TypeOK'
  BY <1>1 DEF IInv, TypeOK, Phases
<1>3. PhaseInv'
  BY <1>1, EntriesKept DEF IInv, PhaseInv
<1>4. PutInv' /\ RecoverInv'
  BY <1>1 DEF IInv, PutInv, RecoverInv, GoodEntries
<1> QED
  BY <1>1, <1>2, <1>3, <1>4, DiskKept, EntriesKept DEF IInv

LEMMA InvRecoverCandidate ==
  ASSUME IInv, RecoverCandidate
  PROVE  IInv'
<1> USE DEF durable, callers, counted
<1>1. PICK f \in todo : meta' = AdoptCandidate(meta, f) /\ todo' = todo \ {f}
  BY DEF RecoverCandidate
<1>2. UNCHANGED <<durable, pc, parts, callers, counted>> /\ pc = "recover"
  BY DEF RecoverCandidate
<1>3. /\ GoodEntries(meta) /\ manifest \subseteq meta /\ todo \subseteq disk
      /\ \A h \in disk : Tracked(h, meta) \/ h \in todo
  BY <1>2 DEF IInv, RecoverInv
<1>4. f \in disk /\ f \in File
  BY <1>3 DEF IInv, TypeOK
<1>5. meta' = IF Tracked(f, meta) THEN meta ELSE meta \cup {Scanned(f)}
  BY <1>1, <1>3, <1>4, AdoptFree DEF IInv
<1>6. Scanned(f) \in ChunkEntry /\ FileOf(Scanned(f)) = f /\ Scanned(f).path = f.path
  BY <1>4, ScannedFile
<1>7. TypeOK'
  BY <1>1, <1>2, <1>5, <1>6 DEF IInv, TypeOK, Phases
<1>8. GoodEntries(meta')
  <2>1. CASE Tracked(f, meta)
    BY <1>3, <1>5, <2>1
  <2>2. CASE ~ Tracked(f, meta)
    <3>1. ASSUME NEW c \in meta
          PROVE  c.path # f.path
      <4>1. c \in ChunkEntry /\ FileOf(c) \in disk
        BY <1>3 DEF IInv, TypeOK, GoodEntries
      <4>2. FileOf(c) # f
        BY <2>2 DEF Tracked
      <4> QED
        BY <1>4, <4>1, <4>2, FileOfEntry DEF IInv, GoodDisk
    <3> QED
      BY <1>3, <1>4, <1>5, <1>6, <2>2, <3>1 DEF GoodEntries
  <2> QED
    BY <2>1, <2>2
<1>9. RecoverInv'
  <2>1. GoodEntries(meta)'
    BY <1>2, <1>8 DEF GoodEntries
  <2>2. Tracked(f, meta') /\ \A h \in disk : Tracked(h, meta) => Tracked(h, meta')
    BY <1>5, <1>6 DEF Tracked
  <2> QED
    BY <1>1, <1>2, <1>3, <1>5, <2>1, <2>2 DEF RecoverInv, Tracked
<1>10. PhaseInv' /\ PutInv'
  BY <1>2, EntriesKept DEF IInv, PhaseInv, PutInv
<1> QED
  BY <1>2, <1>7, <1>9, <1>10, DiskKept, EntriesKept DEF IInv

LEMMA InvRecoverSave ==
  ASSUME IInv, RecoverSave
  PROVE  IInv'
<1> USE DEF callers, counted
<1>1. /\ UNCHANGED <<disk, unit, marker, parts, meta, todo, callers, counted>>
      /\ manifest' = meta /\ pc' = "recover_clear" /\ pc = "recover" /\ todo = {}
      /\ byMonth' = (byMonth \cap Paths(meta)) \cup Paths(meta \ manifest)
  BY DEF RecoverSave
<1>2. /\ GoodEntries(meta) /\ manifest \subseteq meta /\ meta \in SUBSET ChunkEntry
      /\ \A f \in disk : Tracked(f, meta)
  BY <1>1 DEF IInv, RecoverInv, TypeOK
<1>3. /\ GoodDisk' /\ GoodPrefix' /\ GoodEntries(manifest)' /\ OrphanInv' /\ AllTracked'
      /\ VisibleRows' = RowsOf(disk) /\ (acked \subseteq VisibleRows)'
  BY <1>1, <1>2, SaveTracksAll
<1>4. TypeOK'
  BY <1>1 DEF IInv, TypeOK, Phases
<1>5. byMonth' \subseteq Paths(manifest')
  BY <1>1 DEF Paths
<1>6. PhaseInv'
  BY <1>1, <1>3, <1>5 DEF IInv, PhaseInv
<1>7. PutInv' /\ RecoverInv'
  BY <1>1 DEF PutInv, RecoverInv
<1> QED
  BY <1>3, <1>4, <1>6, <1>7 DEF IInv

LEMMA InvRecoverClear ==
  ASSUME IInv, RecoverClear
  PROVE  IInv'
<1> USE DEF counted
<1>1. /\ UNCHANGED <<disk, manifest, byMonth, unit, parts, todo, acked, submitted, counted>>
      /\ marker' = FALSE /\ batch' = {} /\ meta' = {} /\ pc' = "idle"
  BY DEF RecoverClear
<1>2. AllTracked
  BY DEF RecoverClear, IInv, PhaseInv
<1>3. TypeOK'
  BY <1>1 DEF IInv, TypeOK, Phases
<1>4. PhaseInv'
  BY <1>1, <1>2, EntriesKept DEF IInv, PhaseInv
<1>5. PutInv' /\ RecoverInv'
  BY <1>1 DEF PutInv, RecoverInv
<1> QED
  BY <1>1, <1>3, <1>4, <1>5, DiskKept, EntriesKept DEF IInv

LEMMA InvRebuild ==
  ASSUME IInv, RebuildManifest
  PROVE  IInv'
<1> USE DEF callers
<1>1. /\ UNCHANGED <<disk, unit, marker, pc, parts, meta, todo, callers, puts, fails>>
      /\ manifest' = SelectNonOverlapping({Scanned(f) : f \in disk})
      /\ byMonth' = Paths(manifest') /\ rebuilds' = rebuilds + 1 /\ pc = "idle"
  BY DEF RebuildManifest
<1>2. manifest' = {Scanned(f) : f \in disk}
  BY <1>1, RebuildKeepsAll DEF IInv
<1>3. \A f \in disk : Scanned(f) \in ChunkEntry /\ FileOf(Scanned(f)) = f /\ Scanned(f).path = f.path
  BY ScannedFile DEF IInv, TypeOK
<1>4. manifest' \in SUBSET ChunkEntry /\ \A f \in disk : Tracked(f, manifest')
  BY <1>2, <1>3 DEF Tracked
<1>5. GoodEntries(manifest')
  BY <1>2, <1>3 DEF IInv, GoodDisk, GoodEntries
<1>6. /\ GoodDisk' /\ GoodPrefix' /\ GoodEntries(manifest)' /\ OrphanInv' /\ AllTracked'
      /\ (acked \subseteq VisibleRows)'
  BY <1>1, <1>4, <1>5, SaveTracksAll
<1>7. TypeOK'
  BY <1>1, <1>4 DEF IInv, TypeOK
<1>8. PhaseInv'
  BY <1>1, <1>6 DEF IInv, PhaseInv
<1>9. PutInv' /\ RecoverInv'
  BY <1>1 DEF PutInv, RecoverInv
<1> QED
  BY <1>6, <1>7, <1>8, <1>9 DEF IInv

\* The chunk of one batch: its header, and a name that was free.
LEMMA PartEntryShape ==
  ASSUME IInv, pc = "put", NEW b \in parts, NEW e \in EntriesFor(b)
  PROVE  /\ e \in ChunkEntry /\ GoodChunk(e)
         /\ e.start = Min(b) /\ e.end = Max(b) /\ e.rows = RowsAt(b, puts)
         /\ e.path.month = PartitionKey(Min(b))
         /\ \A c \in meta : c.id < e.id
         /\ LET C == Partition(meta, PartitionKey(Min(b)))
            IN  /\ \A c \in C : c.gen < e.gen
                /\ C = {} => e.gen = 1 /\ e.path = BasePath(PartitionKey(Min(b)))
                /\ C # {} => /\ \E c \in C : e.gen = c.gen + 1
                             /\ e.path = DeltaPath(PartitionKey(Min(b)), e.gen)
<1> DEFINE k == PartitionKey(Min(b))
           C == Partition(meta, k)
<1>1. /\ b \in SUBSET Ts /\ b # {} /\ (\A s, t \in b : PartitionKey(s) = PartitionKey(t))
      /\ puts \in Nat /\ meta \in SUBSET ChunkEntry
  BY DEF IInv, TypeOK, PutInv, PartsInv
<1>2. Min(b) \in b /\ Max(b) \in b /\ \A t \in b : Min(b) <= t /\ t <= Max(b)
  BY <1>1, BatchBounds
<1>3. k \in Keys /\ PartitionKey(Max(b)) = k /\ Min(b) \in Ts /\ Max(b) \in Ts
  BY <1>1, <1>2, KeyType
<1>4. C \in SUBSET ChunkEntry
  BY <1>1 DEF Partition
<1>5. PICK g \in NextGeneration(C), i \in NextChunkId(meta) : e = PartEntry(b, C, g, i)
  BY DEF EntriesFor
<1>6. /\ g \in Nat /\ (\A c \in C : c.gen < g) /\ (C = {} => g = 1)
      /\ C # {} => \E c \in C : g = c.gen + 1
  BY <1>4, NextGenerationIsNew
<1>7. i \in Nat /\ \A c \in meta : c.id < i
  BY <1>1, NextChunkIdIsNew
<1>8. /\ RowsAt(b, puts) \in SUBSET Row
      /\ \A r \in RowsAt(b, puts) : r.ts \in b /\ r.ver = puts
  BY <1>1 DEF RowsAt, Row
<1>9. /\ e.path = NextPath(C, k, g) /\ e.id = i /\ e.gen = g /\ e.start = Min(b)
      /\ e.end = Max(b) /\ e.rows = RowsAt(b, puts)
  BY <1>5 DEF PartEntry
<1>10. \A c \in C : c.gen >= 1
  <2> SUFFICES ASSUME NEW c \in C
               PROVE  c.gen >= 1
    OBVIOUS
  <2>1. c \in ChunkEntry /\ FileOf(c) \in disk
    BY <1>4 DEF Partition, IInv, PutInv, GoodEntries
  <2>2. GoodChunk(c)
    BY <2>1, GoodFileOf DEF IInv, GoodDisk
  <2> QED
    BY <2>1, <2>2 DEF GoodChunk, ChunkEntry
<1>11. /\ e.path \in Path /\ e.path.month = k
       /\ C = {} => e.path = BasePath(k)
       /\ C # {} => e.path = DeltaPath(k, g)
       /\ IF e.path.kind = "base" THEN g = 1 /\ e.path.gen = 0 ELSE g > 1 /\ e.path.gen = g
  <2>1. CASE C = {}
    BY <1>3, <1>6, <1>9, <2>1 DEF NextPath, BasePath, Path
  <2>2. CASE C # {}
    <3>1. g > 1
      BY <1>4, <1>6, <1>10, <2>2 DEF ChunkEntry
    <3> QED
      BY <1>3, <1>6, <1>9, <2>2, <3>1 DEF NextPath, DeltaPath, Path
  <2> QED
    BY <2>1, <2>2
<1>12. e \in ChunkEntry
  BY <1>1, <1>3, <1>5, <1>6, <1>7, <1>8, <1>9, <1>11 DEF PartEntry, ChunkEntry, ChunkStates
<1>13. GoodChunk(e)
  <2>1. Min(b) <= Max(b)
    BY <1>2
  <2>2. \A r \in e.rows : Min(b) <= r.ts /\ r.ts <= Max(b) /\ r.ver <= puts
    BY <1>1, <1>2, <1>8, <1>9
  <2> QED
    BY <1>3, <1>9, <1>11, <2>1, <2>2 DEF GoodChunk
<1> QED
  BY <1>6, <1>7, <1>9, <1>11, <1>12, <1>13

\* A free name means that the entries of the partition are all its files: the
\* batch, which follows the entries, follows the files too.
LEMMA FreeNameFollows ==
  ASSUME IInv, pc = "put", NEW b \in parts, NEW e \in EntriesFor(b), e.path \notin Paths(disk),
         NEW f \in disk, f.path.month = e.path.month
  PROVE  f.gen < e.gen /\ f.end < e.start /\ e.gen > 1
<1> DEFINE k == PartitionKey(Min(b))
           C == Partition(meta, k)
<1>1. /\ e \in ChunkEntry /\ GoodChunk(e) /\ e.start = Min(b) /\ e.path.month = k
      /\ C = {} => e.gen = 1 /\ e.path = BasePath(k)
      /\ C # {} => (\E c \in C : e.gen = c.gen + 1) /\ e.path = DeltaPath(k, e.gen)
  BY PartEntryShape
<1>2. /\ f \in File /\ GoodChunk(f) /\ f.gen \in Nat /\ f.path \in Path
      /\ f.start \in Int /\ f.end \in Int /\ e.start \in Int /\ e.gen \in Nat
  BY <1>1, FixedAssumption DEF IInv, TypeOK, File, GoodDisk, ChunkEntry
<1>3. f.gen >= 1
  BY <1>2 DEF GoodChunk
<1>4. \A h \in disk : h.path # e.path
  BY DEF Paths
<1>5. C # {}
  <2> SUFFICES ASSUME C = {}
               PROVE  FALSE
    OBVIOUS
  <2>1. e.path = BasePath(k) /\ 1 \in 1..f.gen
    BY <1>1, <1>2, <1>3
  <2>2. PICK h \in disk : h.path.month = f.path.month /\ h.gen = 1
    BY <2>1 DEF IInv, GoodDisk
  <2>3. h.path \in Path /\ GoodChunk(h)
    BY DEF IInv, TypeOK, GoodDisk, File
  <2>4. h.path.kind = "base" /\ h.path.gen = 0
    BY <2>2, <2>3 DEF GoodChunk
  <2>5. h.path = BasePath(k)
    BY <1>1, <2>2, <2>3, <2>4 DEF Path, BasePath
  <2> QED
    BY <1>4, <2>1, <2>5
<1>6. PICK c \in C : e.gen = c.gen + 1
  BY <1>1, <1>5
<1>7. c \in ChunkEntry /\ FileOf(c) \in disk /\ GoodChunk(c) /\ Key(c) = k
  <2>1. c \in ChunkEntry /\ FileOf(c) \in disk /\ Key(c) = k
    BY DEF Partition, IInv, TypeOK, PutInv, GoodEntries
  <2> QED
    BY <2>1, GoodFileOf DEF IInv, GoodDisk
<1>8. b \in SUBSET Ts /\ Min(b) \in b
  BY BatchBounds DEF IInv, TypeOK, PutInv, PartsInv
<1>9. c.path.month = k /\ c.end < Min(b)
  BY <1>7, <1>8, KeyOfEntry DEF IInv, PutInv, PartsInv
<1>10. /\ FileOf(c).path.month = f.path.month /\ FileOf(c).gen = c.gen /\ FileOf(c).end = c.end
       /\ c.gen \in Nat /\ c.end \in Int /\ c.gen >= 1
  <2>1. FileOf(c).path = c.path /\ FileOf(c).gen = c.gen /\ FileOf(c).end = c.end
    BY <1>7, FileOfEntry
  <2>2. c.gen \in Nat /\ c.end \in Int
    BY <1>7, FixedAssumption DEF ChunkEntry
  <2>3. c.gen >= 1
    BY <1>7, <2>2 DEF GoodChunk
  <2> QED
    BY <1>1, <1>9, <2>1, <2>2, <2>3
<1>11. f.gen < e.gen
  <2> SUFFICES ASSUME e.gen <= f.gen
               PROVE  FALSE
    BY <1>2
  <2>1. e.gen \in 1..f.gen /\ e.gen > 1
    BY <1>2, <1>6, <1>10
  <2>2. PICK h \in disk : h.path.month = f.path.month /\ h.gen = e.gen
    BY <2>1 DEF IInv, GoodDisk
  <2>3. h.path \in Path /\ GoodChunk(h)
    BY DEF IInv, TypeOK, GoodDisk, File
  <2>4. h.path.kind = "delta" /\ h.path.gen = e.gen
    BY <2>1, <2>2, <2>3 DEF GoodChunk, Path
  <2>5. h.path = DeltaPath(k, e.gen)
    BY <1>1, <2>2, <2>3, <2>4 DEF Path, DeltaPath
  <2> QED
    BY <1>1, <1>4, <1>5, <2>5
<1>12. f.end < e.start
  <2>1. CASE f.gen < c.gen
    <3>1. f.end < FileOf(c).start
      BY <1>7, <1>10, <2>1 DEF IInv, GoodDisk
    <3>2. c.start \in Int /\ FileOf(c).start = c.start /\ c.start <= c.end
      BY <1>7, FileOfEntry, FixedAssumption DEF ChunkEntry, GoodChunk
    <3> QED
      BY <1>1, <1>2, <1>9, <1>10, <3>1, <3>2
  <2>2. CASE f.gen = c.gen
    <3>1. FileOf(c).path = c.path /\ c.path \in Path
      BY <1>7, FileOfEntry DEF ChunkEntry
    <3>2. c.path.kind = f.path.kind /\ c.path.gen = f.path.gen
      BY <1>2, <1>7, <2>2, <3>1 DEF GoodChunk, Path
    <3>3. c.path = f.path
      BY <1>1, <1>2, <1>9, <3>1, <3>2 DEF Path
    <3>4. FileOf(c) = f
      BY <1>7, <3>1, <3>3 DEF IInv, GoodDisk
    <3> QED
      BY <1>1, <1>9, <1>10, <3>4
  <2> QED
    BY <1>2, <1>6, <1>10, <1>11, <2>1, <2>2
<1> QED
  BY <1>6, <1>10, <1>11, <1>12

\* Writing the chunk of the earliest partition left.
LEMMA InvPutPart ==
  ASSUME IInv, PutPart
  PROVE  IInv'
<1> USE DEF callers, counted
<1>0. PICK b \in parts : \E e \in EntriesFor(b) :
        /\ NextPart(b) /\ WriteFile(FileOf(e)) /\ meta' = UpsertChunk(meta, e)
        /\ parts' = parts \ {b}
  BY DEF PutPart
<1>1. PICK e \in EntriesFor(b) :
        /\ NextPart(b) /\ WriteFile(FileOf(e)) /\ meta' = UpsertChunk(meta, e)
        /\ parts' = parts \ {b}
  BY <1>0
<1>2. /\ UNCHANGED <<manifest, byMonth, unit, marker, pc, todo, callers, counted>>
      /\ pc = "put" /\ marker /\ unit # "none"
  BY DEF PutPart, IInv, PhaseInv, PutInv
<1> DEFINE k == PartitionKey(Min(b))
<1>3. /\ e \in ChunkEntry /\ GoodChunk(e) /\ e.start = Min(b) /\ e.end = Max(b)
      /\ e.rows = RowsAt(b, puts) /\ e.path.month = k
      /\ \A c \in meta : c.id < e.id
  BY <1>2, PartEntryShape
<1>4. /\ b \in SUBSET Ts /\ b # {} /\ puts \in Nat
      /\ \A s, t \in b : PartitionKey(s) = PartitionKey(t)
      /\ disk \subseteq File /\ meta \in SUBSET ChunkEntry
  BY <1>2 DEF IInv, TypeOK, PutInv, PartsInv
<1>5. Min(b) \in b /\ Max(b) \in b /\ \A t \in b : Min(b) <= t /\ t <= Max(b)
  BY <1>4, BatchBounds
<1> DEFINE f == FileOf(e)
<1>6. /\ f \in File /\ f.path = e.path /\ f.gen = e.gen /\ f.start = e.start /\ f.end = e.end
      /\ f.rows = e.rows
  BY <1>3, FileOfEntry
<1>7. GoodChunk(f)
  BY <1>3, GoodFileOf
<1> HIDE DEF f
<1>8. e.path \notin Paths(disk) /\ disk' = disk \cup {f}
  BY <1>1, <1>6 DEF WriteFile, f
<1>9. meta' = meta \cup {e}
  BY <1>1, <1>3, <1>4 DEF UpsertChunk, ChunkEntry
<1>10. \A h \in disk : h.path # f.path
  BY <1>6, <1>8 DEF Paths
<1>11. \A h \in disk : h.path.month = f.path.month => h.gen < f.gen /\ h.end < f.start /\ f.gen > 1
  BY <1>2, <1>6, <1>8, FreeNameFollows
<1>12. RowsOf(disk)' = RowsOf(disk) \cup f.rows
  BY <1>8 DEF RowsOf
<1>13. \A r : r \in f.rows <=> r \in Row /\ r.ts \in b /\ r.ver = puts
  BY <1>3, <1>4, <1>6 DEF RowsAt, Row
<1>14. \A t \in Ts : PartitionKey(t)' = PartitionKey(t)
  BY <1>2 DEF PartitionKey
<1>15. TypeOK'
  BY <1>1, <1>2, <1>3, <1>6, <1>8, <1>9 DEF IInv, TypeOK
<1>16. GoodDisk'
  <2>1. \A h \in disk' : GoodChunk(h)'
    BY <1>2, <1>7, <1>8 DEF IInv, GoodDisk, GoodChunk, PartitionKey
  <2>2. \A g, h \in disk' : g.path = h.path => g = h
    BY <1>8, <1>10 DEF IInv, GoodDisk
  <2>3. \A g, h \in disk' : g.path.month = h.path.month /\ g.gen < h.gen => g.end < h.start
    <3>1. \A h \in disk : h.gen \in Nat /\ f.gen \in Nat
      BY <1>4, <1>6 DEF File
    <3>2. ~ (f.gen < f.gen)
      BY <1>6 DEF File
    <3>3. \A h \in disk : h.path.month = f.path.month => ~ (f.gen < h.gen)
      BY <1>11, <3>1
    <3> QED
      BY <1>8, <1>11, <3>2, <3>3 DEF IInv, GoodDisk
  <2>4. ASSUME NEW j \in 1..f.gen
        PROVE  \E g \in disk' : g.path.month = f.path.month /\ g.gen = j
    <3>1. f.gen \in Nat
      BY <1>6 DEF File
    <3>2. CASE j = f.gen
      BY <1>8, <3>2
    <3>3. CASE j < f.gen
      <4> DEFINE C == Partition(meta, k)
      <4>1. (C = {} => e.gen = 1) /\ (C # {} => \E c \in C : e.gen = c.gen + 1)
        BY <1>2, PartEntryShape
      <4>2. PICK c \in C : e.gen = c.gen + 1
        BY <1>6, <3>1, <3>3, <4>1
      <4>3. c \in ChunkEntry /\ FileOf(c) \in disk /\ Key(c) = k
        BY <1>2, <1>4 DEF Partition, IInv, PutInv, GoodEntries
      <4>4. GoodChunk(c)
        BY <4>3, GoodFileOf DEF IInv, GoodDisk
      <4>5. c.path.month = k
        BY <1>4, <1>5, <4>3, <4>4, KeyOfEntry
      <4>6. FileOf(c).path.month = f.path.month /\ FileOf(c).gen = c.gen /\ c.gen \in Nat
        BY <1>3, <1>6, <4>3, <4>5, FileOfEntry DEF ChunkEntry
      <4>7. j \in 1..FileOf(c).gen
        BY <1>6, <3>1, <3>3, <4>2, <4>6
      <4>8. PICK g \in disk : g.path.month = FileOf(c).path.month /\ g.gen = j
        BY <4>3, <4>7 DEF IInv, GoodDisk
      <4> QED
        BY <1>8, <4>6, <4>8
    <3> QED
      BY <3>1, <3>2, <3>3
  <2>5. \A h \in disk' : \A j \in 1..h.gen :
          \E g \in disk' : g.path.month = h.path.month /\ g.gen = j
    BY <1>8, <2>4 DEF IInv, GoodDisk
  <2> QED
    BY <2>1, <2>2, <2>3, <2>5 DEF GoodDisk
<1>17. GoodEntries(manifest)'
  BY <1>2, <1>8 DEF IInv, GoodEntries
<1>18. /\ \A s \in batch : s.ver = puts /\ (s \in RowsOf(disk) \/ \E d \in parts : s.ts \in d)
       /\ \A s \in submitted : s.ver = puts => s \in batch
       /\ \A r \in VisibleRows : r.ver # puts
       /\ \A r \in RowsOf(disk) : r.ver = puts =>
            \A d \in parts : \A t \in d : r.ts < t /\ PartitionKey(r.ts) # PartitionKey(t)
       /\ submitted \subseteq Row /\ batch \subseteq Row
  BY <1>2 DEF IInv, PutInv, TypeOK
\* The partitions left come after this one.
<1>19. ASSUME NEW d \in parts', NEW t \in d, NEW s \in b
       PROVE  s < t /\ PartitionKey(s) # PartitionKey(t)
  <2>1. d \in parts /\ d # b /\ d \in SUBSET Ts /\ d # {}
    BY <1>1, <1>2 DEF IInv, TypeOK, PutInv, PartsInv
  <2>2. PartitionKey(s) # PartitionKey(t) /\ \A u \in d : PartitionKey(u) = PartitionKey(t)
    BY <1>2, <2>1 DEF IInv, PutInv, PartsInv
  <2>3. Min(d) \in d /\ Min(d) <= t
    BY <2>1, BatchBounds
  <2>4. Min(b) <= Min(d)
    BY <1>1, <2>1 DEF NextPart
  <2>5. /\ s \in Ts /\ t \in Ts /\ Min(b) \in Ts /\ Min(d) \in Ts
        /\ s \in Int /\ t \in Int /\ Min(b) \in Int /\ Min(d) \in Int
    BY <1>4, <1>5, <2>1, <2>3, FixedAssumption
  <2>6. ~ (t <= s)
    <3> SUFFICES ASSUME t <= s
                 PROVE  FALSE
      OBVIOUS
    <3>1. Min(b) <= t
      BY <2>3, <2>4, <2>5
    <3>2. PartitionKey(Min(b)) = PartitionKey(s)
      BY <1>4, <1>5
    <3>3. PartitionKey(t) = PartitionKey(Min(b))
      BY <2>5, <3>1, <3>2, KeyConvex
    <3> QED
      BY <2>2, <3>2, <3>3
  <2> QED
    BY <2>2, <2>5, <2>6
<1>20. \A s \in batch : s \in RowsOf(disk)' \/ \E d \in parts' : s.ts \in d
  BY <1>1, <1>12, <1>13, <1>18
<1>21. \A r \in RowsOf(disk)' : r.ver = puts =>
         \A d \in parts' : \A t \in d : r.ts < t /\ PartitionKey(r.ts) # PartitionKey(t)
  BY <1>1, <1>12, <1>13, <1>18, <1>19
<1>22. GoodPrefix'
  <2> SUFFICES ASSUME NEW r \in RowsOf(disk)', NEW s \in submitted, s.ver = r.ver,
                      s.ts < r.ts \/ PartitionKey(s.ts) = PartitionKey(r.ts),
                      s \notin RowsOf(disk)'
               PROVE  FALSE
    <3>1. \A r \in RowsOf(disk)' : r.ts \in Ts
      BY <1>15 DEF TypeOK, RowsOf, File, Row
    <3>2. \A s \in submitted : s.ts \in Ts
      BY <1>18 DEF Row
    <3> QED
      BY <1>2, <1>14, <3>1, <3>2 DEF GoodPrefix
  <2>1. CASE r \in RowsOf(disk)
    BY <1>12, <2>1 DEF IInv, GoodPrefix
  <2>2. CASE r \in f.rows
    <3>1. r.ver = puts /\ s \in batch
      BY <1>13, <1>18, <2>2
    <3>2. PICK d \in parts' : s.ts \in d
      BY <1>20, <3>1
    <3>3. r.ts < s.ts /\ PartitionKey(r.ts) # PartitionKey(s.ts)
      BY <1>21, <3>1, <3>2
    <3>4. r \in Row /\ s \in Row
      BY <1>13, <1>18, <2>2
    <3>5. r.ts \in Int /\ s.ts \in Int
      BY <3>4, FixedAssumption DEF Row
    <3> QED
      BY <3>3, <3>5
  <2> QED
    BY <1>12, <2>1, <2>2
<1>23. OrphanInv'
  <2>1. \A r \in f.rows : r.ver = puts
    BY <1>13
  <2> QED
    BY <1>2, <1>8, <1>18, <2>1 DEF IInv, OrphanInv, VisibleRows, Tracked
<1>24. PhaseInv'
  BY <1>2 DEF IInv, PhaseInv
<1>25. GoodEntries(meta)'
  <2>1. \A c \in meta : FileOf(c) \in disk /\ FileOf(c).path = c.path
    BY <1>2, <1>4, FileOfEntry DEF IInv, PutInv, GoodEntries
  <2>2. \A c \in meta : c.path # e.path
    BY <1>6, <1>10, <2>1
  <2> QED
    BY <1>2, <1>8, <1>9, <2>1, <2>2 DEF IInv, PutInv, GoodEntries, f
<1>26. PartsInv'
  <2>1. \A d \in parts' : d \in parts /\ d \subseteq Ts
    BY <1>1 DEF IInv, TypeOK
  <2>2. e.path \notin byMonth
    <3>1. \A c \in manifest : c.path \in Paths(disk)
      BY FileOfEntry DEF IInv, TypeOK, GoodEntries, Paths
    <3> QED
      BY <1>8, <3>1 DEF IInv, PhaseInv, Paths
  <2>3. ASSUME NEW d \in parts', NEW t \in d, NEW c \in Partition(meta, PartitionKey(t))'
        PROVE  c.end < t
    <3>1. t \in Ts /\ Partition(meta, PartitionKey(t))' = {x \in meta' : Key(x) = PartitionKey(t)}
      BY <1>2, <1>14, <2>1 DEF Partition, Key
    <3>2. CASE c = e
      <4>1. Key(e) = k
        BY <1>3, <2>2 DEF Key
      <4>2. k # PartitionKey(t)
        BY <1>5, <1>19
      <4> QED
        BY <3>1, <3>2, <4>1, <4>2
    <3>3. CASE c \in meta
      <4>1. c \in Partition(meta, PartitionKey(t))
        BY <3>1, <3>3 DEF Partition
      <4> QED
        BY <1>2, <2>1, <4>1 DEF IInv, PutInv, PartsInv
    <3> QED
      BY <1>9, <3>1, <3>2, <3>3
  <2>4. /\ \A d \in parts' : d # {} /\ \A s, t \in d : PartitionKey(s) = PartitionKey(t)
        /\ \A c, d \in parts' : \A s \in c, t \in d : PartitionKey(s) = PartitionKey(t) => c = d
    BY <1>2, <2>1 DEF IInv, PutInv, PartsInv
  <2> QED
    BY <1>14, <2>1, <2>3, <2>4 DEF PartsInv
<1>27. PutInv'
  <2>1. (manifest \subseteq meta)' /\ \A h \in disk' : Tracked(h, meta')
    BY <1>2, <1>8, <1>9 DEF IInv, PutInv, Tracked, f
  <2>2. \A r \in VisibleRows' : r.ver # puts'
    BY <1>2, <1>18 DEF VisibleRows
  <2>3. \A r \in RowsOf(disk)' : r.ver = puts' =>
          \A d \in parts' : \A t \in d : r.ts < t /\ PartitionKey(r.ts)' # PartitionKey(t)'
    <3>1. \A r \in RowsOf(disk)' : r.ts \in Ts
      BY <1>15 DEF TypeOK, RowsOf, File, Row
    <3>2. \A d \in parts' : \A t \in d : t \in Ts
      BY <1>15 DEF TypeOK
    <3> QED
      BY <1>2, <1>14, <1>21, <3>1, <3>2
  <2> QED
    BY <1>2, <1>18, <1>20, <1>25, <1>26, <2>1, <2>2, <2>3 DEF PutInv
<1>28. RecoverInv'
  BY <1>2 DEF RecoverInv
<1>29. acked' \subseteq VisibleRows'
  BY <1>2 DEF IInv, VisibleRows
<1> QED
  BY <1>15, <1>16, <1>17, <1>22, <1>23, <1>24, <1>27, <1>28, <1>29 DEF IInv

LEMMA InvNext == IInv /\ [Next]_vars => IInv'
<1> SUFFICES ASSUME IInv, [Next]_vars
             PROVE  IInv'
  OBVIOUS
<1>1. CASE UNCHANGED vars
  <2> USE DEF vars, durable, callers, counted
  <2>1. TypeOK' /\ PhaseInv'
    BY <1>1, EntriesKept DEF IInv, TypeOK, PhaseInv
  <2>2. PutInv'
    BY <1>1 DEF IInv, PutInv, PartsInv, Partition, Key, PartitionKey, GoodEntries, Tracked,
       VisibleRows, RowsOf
  <2>3. RecoverInv'
    BY <1>1 DEF IInv, RecoverInv, GoodEntries, Tracked
  <2> QED
    BY <1>1, <2>1, <2>2, <2>3, DiskKept, EntriesKept DEF IInv
<1>2. CASE RegisterBegin \/ \E u \in Units : RegisterSave(u)
  BY <1>2, InvRegister
<1>3. CASE \E stamps \in SUBSET Ts \ {{}} : PutBegin(stamps)
  BY <1>3, InvPutBegin
<1>4. CASE PutRefused \/ Fail
  BY <1>4, InvStop
<1> QED
  BY <1>1, <1>2, <1>3, <1>4, InvPutPart, InvPutSave, InvCommit, InvRecoverBegin,
     InvRecoverCandidate, InvRecoverSave, InvRecoverClear, InvRebuild DEF Next

\* IInv holds in every reachable state.
THEOREM FixedInvariant == Spec => []IInv
BY InvInit, InvNext, PTL DEF Spec

\* Acknowledged rows of a fixed-width series stay readable and every entry has
\* a file of its own, through crashes, refused puts, recoveries and rebuilds.
THEOREM FixedAckedReadable == Spec => []AckedReadable
<1>1. IInv => AckedReadable
  BY DEF IInv, AckedReadable, GoodEntries
<1> QED
  BY <1>1, FixedInvariant, PTL

\* What readers see of a put is a prefix of it, cut between two partitions.
THEOREM FixedPrefix == Spec => []PrefixOfPartitions
<1>1. IInv => PrefixOfPartitions
  <2> SUFFICES ASSUME IInv, NEW r \in VisibleRows, NEW s \in submitted, s.ver = r.ver,
                      s.ts < r.ts \/ PartitionKey(s.ts) = PartitionKey(r.ts)
               PROVE  s \in VisibleRows
    BY DEF PrefixOfPartitions
  <2>1. VisibleRows \subseteq RowsOf(disk)
    BY EntriesHaveFiles DEF IInv, TypeOK, VisibleRows
  <2>2. s \in RowsOf(disk)
    BY <2>1 DEF IInv, GoodPrefix
  <2>3. PICK f \in disk : s \in f.rows
    BY <2>2 DEF RowsOf
  <2>4. CASE Tracked(f, manifest)
    <3>1. PICK c \in manifest : FileOf(c) = f
      BY <2>4 DEF Tracked
    <3>2. c.rows = f.rows
      BY <3>1, FileOfEntry DEF IInv, TypeOK
    <3> QED
      BY <2>3, <3>2 DEF VisibleRows, RowsOf
  <2>5. CASE ~ Tracked(f, manifest)
    BY <2>3, <2>5 DEF IInv, OrphanInv
  <2> QED
    BY <2>4, <2>5
<1> QED
  BY <1>1, FixedInvariant, PTL

\* Between operations a store without a marker lists every chunk file.
THEOREM FixedNoOrphans == Spec => []NoOrphansWhenClean
<1>1. IInv => NoOrphansWhenClean
  <2> SUFFICES ASSUME IInv, MayMutate
               PROVE  Paths(disk) = Paths(manifest)
    BY DEF NoOrphansWhenClean
  <2>1. AllTracked
    BY DEF IInv, PhaseInv, MayMutate
  <2>2. \A c \in manifest : FileOf(c) \in disk /\ FileOf(c).path = c.path
    BY FileOfEntry DEF IInv, TypeOK, GoodEntries
  <2> QED
    BY <2>1, <2>2 DEF AllTracked, Tracked, Paths
<1> QED
  BY <1>1, FixedInvariant, PTL

\* With month partitions the names that the next put will choose are free.
THEOREM FixedMonthsNotBlocked == Spec => []MonthsNotBlocked
<1>1. IInv => MonthsNotBlocked
  <2> SUFFICES ASSUME IInv, MayMutate, unit = "month", NEW t \in Ts,
                      NEW g \in NextGeneration(Partition(manifest, PartitionKey(t))),
                      NEW f \in disk,
                      f.path = NextPath(Partition(manifest, PartitionKey(t)), PartitionKey(t), g)
               PROVE  FALSE
    BY DEF MonthsNotBlocked, NamesFree, Paths
  <2> DEFINE k == PartitionKey(t)
             C == Partition(manifest, k)
  <2>1. PICK c \in manifest : FileOf(c) = f
    BY DEF IInv, PhaseInv, MayMutate, AllTracked, Tracked
  <2>2. c \in ChunkEntry /\ c.path = f.path /\ c.gen = f.gen /\ GoodChunk(c) /\ GoodChunk(f)
    BY <2>1, FileOfEntry, GoodFileOf DEF IInv, TypeOK, GoodDisk
  <2>3. C \in SUBSET ChunkEntry
    BY DEF Partition, IInv, TypeOK
  <2>4. g \in Nat /\ \A d \in C : d.gen < g
    BY <2>3, NextGenerationIsNew
  <2>5. f.path.month = k
    BY DEF NextPath, BasePath, DeltaPath
  <2>6. Key(c) = k
    BY <2>2, <2>5 DEF Key, GoodChunk, PartitionKey
  <2>7. c \in C
    BY <2>6 DEF Partition
  <2>8. f.path = DeltaPath(k, g)
    BY <2>7 DEF NextPath
  <2>9. f.gen = g
    BY <2>2, <2>8 DEF GoodChunk, DeltaPath
  <2> QED
    BY <2>2, <2>4, <2>7, <2>9
<1> QED
  BY <1>1, FixedInvariant, PTL

\* No step takes a readable row away: not a refused put, not a recovery, and not
\* a rebuild, which drops every entry and derives the manifest from the files.
THEOREM FixedRowsStay == Spec => [][VisibleRows \subseteq VisibleRows']_vars
<1>1. IInv /\ [Next]_vars => [VisibleRows \subseteq VisibleRows']_vars
  <2> SUFFICES ASSUME IInv, Next
               PROVE  VisibleRows \subseteq VisibleRows'
    OBVIOUS
  <2>1. CASE PutSave \/ RecoverSave
    <3>1. manifest' = meta /\ manifest \subseteq meta
      BY <2>1 DEF PutSave, RecoverSave, IInv, PutInv, RecoverInv
    <3> QED
      BY <3>1 DEF VisibleRows, RowsOf
  <2>2. CASE RebuildManifest
    <3>1. manifest' = {Scanned(f) : f \in disk}
      BY <2>2, RebuildKeepsAll DEF RebuildManifest, IInv
    <3>2. \A f \in disk : Scanned(f).rows = f.rows
      BY ScannedFile DEF IInv, TypeOK
    <3>3. RowsOf(disk) \subseteq RowsOf(manifest')
      BY <3>1, <3>2 DEF RowsOf
    <3>4. RowsOf(manifest) \subseteq RowsOf(disk)
      BY EntriesHaveFiles DEF IInv, TypeOK
    <3> QED
      BY <3>3, <3>4 DEF VisibleRows
  <2>3. CASE manifest' = manifest
    BY <2>3 DEF VisibleRows
  <2>4. manifest' = manifest \/ PutSave \/ RecoverSave \/ RebuildManifest
    BY DEF Next, RegisterBegin, RegisterSave, PutBegin, PutPart, PutRefused, CommitMarker,
       RecoverBegin, RecoverCandidate, RecoverClear, Fail, durable
  <2> QED
    BY <2>1, <2>2, <2>3, <2>4
<1> QED
  BY <1>1, FixedInvariant, PTL DEF Spec
=============================================================================
