-------------------------- MODULE ReadViewsProofs ---------------------------
(***************************************************************************)
(* Proofs about range writes and the readers beside them, for every set of *)
(* timestamps and months, every number of requests, failures and queries,  *)
(* and every size of the caches: the months a caller was told of stay, a   *)
(* request shows a prefix of its months and can be resumed, what is left   *)
(* of replaced files is redundant, and an answer is one version.           *)
(***************************************************************************)
EXTENDS ReadViews, FiniteSetTheorems, WellFoundedInduction, TLAPS

(***************************************************************************)
(* The types                                                               *)
(***************************************************************************)
Row == [ts : Ts, ver : Nat]

Path == [month : Months, kind : {"base", "delta", "merged"}, gen : Nat]

File == [path : Path, id : Nat, gen : Nat, start : Ts, end : Ts, rows : SUBSET Row]

ChunkEntry == [path : Path, id : Nat, gen : Nat, start : Ts, end : Ts, rows : SUBSET Row,
               state : {"Active", "Sealed"}]

Sidecar == [path : Path, rows : SUBSET Row]

Accepted == {"register", "register_save", "register_commit", "month", "chunk", "sidecar",
             "manifest", "cleanup", "commit"}

Phases == {"idle", "recover", "recover_clear", "check"} \cup Accepted

TypeInv ==
  /\ kind \in Kinds
  /\ disk \subseteq File /\ todo \subseteq disk /\ (pc # "recover" => todo = {})
  /\ index \subseteq Sidecar
  /\ manifest \subseteq ChunkEntry /\ meta \subseteq ChunkEntry
  /\ out \subseteq ChunkEntry /\ obsolete \subseteq ChunkEntry
  /\ registered \in BOOLEAN /\ marker \in BOOLEAN /\ pc \in Phases
  /\ left \subseteq Months /\ done \subseteq Months
  /\ asked \in Seq(SUBSET Ts)

(***************************************************************************)
(* The inductive invariant, the writer.                                    *)
(***************************************************************************)
\* A chunk of one month whose range is that of its rows, under a name that
\* tells its generation.
GoodChunk(c) ==
  /\ \E lo, hi \in c.rows : c.start = lo.ts /\ c.end = hi.ts
  /\ \A r \in c.rows : c.start <= r.ts /\ r.ts <= c.end
  /\ MonthOf[c.start] = c.path.month /\ MonthOf[c.end] = c.path.month
  /\ c.path.gen <= c.gen
  /\ c.path.kind # "base" => c.path.gen = c.gen
  /\ IsFiniteSet(c.rows)

\* The scalar chunk d was written over c.
Within(c, d) ==
  /\ c.path.month = d.path.month /\ c.gen < d.gen
  /\ d.start <= c.start /\ c.end <= d.end /\ c.rows \subseteq d.rows

\* The kline chunk d was written after c.
Before(c, d) == c.path.month = d.path.month /\ c.gen < d.gen /\ c.end < d.start

Older(c, d) == IF kind = "scalar" THEN Within(c, d) ELSE Before(c, d)

GoodDisk ==
  /\ \A f \in disk : GoodChunk(f)
  /\ \A f, g \in disk : f.path = g.path => f = g
  /\ \A f, g \in disk : f.path.month = g.path.month => f = g \/ Older(f, g) \/ Older(g, f)

GoodEntries(C) ==
  /\ \A c \in C : FileOf(c) \in disk
  /\ \A c, d \in C : c.path = d.path => c = d
  /\ kind = "scalar" => \A c, d \in C : c.path.month = d.path.month => c = d
  /\ IsFiniteSet(C)

\* File f has an entry, or an entry was written over it.
Settled(f, C) == \E c \in C : FileOf(c) = f \/ (kind = "scalar" /\ Within(f, c))

AllSettled(C) == \A f \in disk : Settled(f, C)

\* A name that no later write takes: its month has a newer generation.
Superseded(p) == \E c \in manifest : c.path.month = p.month /\ p.gen < c.gen

\* Rows are whole batches of requests, and the earlier months of each of these
\* requests can be read.
Whole(R) ==
  \A r \in R : /\ r.ver \in 1..Len(asked) /\ r.ts \in asked[r.ver]
               /\ Batch(r.ver, MonthOf[r.ts]) \subseteq R

Ordered(R) ==
  \A r \in R : \A n \in BatchMonths(r.ver) : n < MonthOf[r.ts] => Shown(r.ver, n)

HistoryInv ==
  /\ \A v \in 1..Len(asked) : IsFiniteSet(asked[v])
  /\ \A f \in disk : Whole(f.rows) /\ Ordered(f.rows)
  /\ \A e \in out : Whole(e.rows) /\ Ordered(e.rows)

\* The chunk of the month that is being written.
OutInv ==
  /\ \A d, e \in out : d = e
  /\ \A e \in out : e.path.month \in left
  /\ out # {} => pc \in {"chunk", "sidecar", "manifest", "cleanup", "commit"}
  /\ pc \in {"chunk", "sidecar", "manifest"} => \A e \in out :
       /\ GoodChunk(e)
       /\ \A c \in manifest : c.id < e.id /\ c.path # e.path
       /\ \A c \in InMonth(manifest, e.path.month) : Older(c, e)
       /\ e.path.kind = "base" => InMonth(manifest, e.path.month) = {}
       /\ Batch(Request, e.path.month) \subseteq e.rows
  /\ pc \in {"sidecar", "manifest"} => \A e \in out :
       /\ FileOf(e) \in disk
       /\ \A f \in disk : Settled(f, manifest) \/ f = FileOf(e)
  /\ pc = "manifest" /\ kind = "scalar" => \A e \in out : e.path \in Paths(index)
  /\ pc \in {"cleanup", "commit"} => \A e \in out : Shown(Request, e.path.month)
  /\ pc \in {"sidecar", "cleanup"} => kind = "scalar"

PhaseInv ==
  /\ pc # "idle" => lock = "write"
  /\ ~ marker => AllSettled(manifest)
  /\ pc \in {"chunk", "sidecar", "manifest"} => marker
  /\ pc \notin {"idle", "recover", "sidecar", "manifest"} => AllSettled(manifest)
  /\ goal = "write" \/ pc = "check" \/ pc \in Accepted => Len(asked) >= 1
  /\ pc \notin Accepted => done = {}
  /\ pc = "cleanup" =>
       \A c \in obsolete : c.path \notin Paths(manifest) /\ c.path \notin sides /\ Superseded(c.path)

\* The months of the request: those that are done can be read, those that are
\* left start after what their month has.
RequestInv ==
  pc \in Accepted =>
    /\ left \cup done = BatchMonths(Request)
    /\ \A m \in done : Shown(Request, m)
    /\ \A m \in left :
         \/ \A c \in InMonth(manifest, m), r \in Batch(Request, m) : c.end < r.ts
         \/ pc \in {"cleanup", "commit"} /\ \E e \in out : m = e.path.month

ToldInv == \A x \in told : x[1] \in 1..Len(asked) /\ Shown(x[1], x[2])

\* The last request: what is missing starts after what its month has, and a
\* file without an entry is the batch of its month.
ResumeInv ==
  \A v \in resumable :
    /\ v = Len(asked) /\ v >= 1
    /\ \A m \in Remainder(v) :
         \A c \in InMonth(manifest, m), r \in Batch(v, m) : c.end < r.ts
    /\ \A f \in disk : Settled(f, manifest) \/ Batch(v, f.path.month) \subseteq f.rows

RecoverInv ==
  pc = "recover" =>
    /\ GoodEntries(meta)
    /\ \A c \in manifest : Settled(FileOf(c), meta)
    /\ \A f \in disk : Settled(f, meta) \/ f \in todo
    /\ \A c \in meta : c \in manifest \/ ~ Settled(FileOf(c), manifest)

SidesInv == sides \subseteq Paths(index)

WriterInv ==
  /\ TypeInv /\ GoodDisk /\ GoodEntries(manifest) /\ HistoryInv /\ OutInv /\ PhaseInv
  /\ RequestInv /\ ToldInv /\ ResumeInv /\ RecoverInv /\ SidesInv

(***************************************************************************)
(* The inductive invariant, the readers.                                   *)
(***************************************************************************)
\* The manifests that readers hold.
Snapshots ==
  local \cup shared \cup attached \cup base \cup {q.meta : q \in {p \in query : p.chunks # {}}}

SnapshotInv == \A m \in Snapshots : \A c \in m.chunks : c \in ChunkEntry /\ GoodChunk(c)

\* Every place that knows the rows behind a file name.
Known ==
  {<<f.path, f.rows>> : f \in disk \cup index}
    \cup {<<c.path, c.rows>> : c \in UNION {m.chunks : m \in Snapshots}}
    \cup {<<f.key.path, f.rows>> : f \in files}

\* They agree, and a name they know is on disk or is not used again.
KnownInv ==
  /\ \A a, b \in Known : a[1] = b[1] => a[2] = b[2]
  /\ \A a \in Known : a[1] \in Path /\ (a[1] \in Paths(disk) \/ Superseded(a[1]))

\* A decoded sidecar has the rows of its checksum.
DecodedSidecar ==
  {d \in [key : [gen : Nat, path : Path, checksum : SUBSET Row], rows : SUBSET Row] :
     d.rows = d.key.checksum}

DecodedInv == decoded \in Seq(DecodedSidecar)

\* A query has the rows of the chunks that it read.
QueryInv ==
  \A q \in query :
    \/ q.chunks = {} /\ q.rows = q.want
    \/ /\ q = [how |-> q.how, meta |-> q.meta, chunks |-> q.chunks, lo |-> q.lo, hi |-> q.hi,
               want |-> q.want, rows |-> q.rows, described |-> q.described]
       /\ q.chunks \subseteq q.meta.chunks
       /\ q.rows \cup Window(RowsOf(q.chunks), q.lo, q.hi) = q.want
       /\ q.how \in Searches \/ (q.lo = 1 /\ q.hi = 0)

\* The response describes the version it has the rows of.
Described == \A q \in query : q.described = q.want

\* With the shared lock both loads of a command give one manifest.
BridgeInv ==
  /\ handle \in {"closed", "ro", "probe"}
  /\ handle = "ro" => lock = "read" /\ base \subseteq OnDisk
  /\ handle = "closed" => base = {}
  /\ handle # "probe" => Described

ReaderInv == SnapshotInv /\ KnownInv /\ DecodedInv /\ QueryInv /\ BridgeInv

IInv == WriterInv /\ ReaderInv

(***************************************************************************)
(* Operators of the catalog                                                *)
(***************************************************************************)
\* Allocation (next generation, next_chunk_id): a number above all in use.
LEMMA NextIsNew ==
  ASSUME NEW C \in SUBSET ChunkEntry
  PROVE  /\ \A g \in NextGeneration(C) : g \in Nat /\ g >= 1 /\ \A c \in C : c.gen < g
         /\ \A i \in NextChunkId(C) : i \in Nat /\ \A c \in C : c.id < i
BY DEF NextGeneration, NextChunkId, ChunkEntry

LEMMA FileOfEntry ==
  ASSUME NEW c \in ChunkEntry
  PROVE  /\ FileOf(c) \in File
         /\ FileOf(c).path = c.path /\ FileOf(c).id = c.id /\ FileOf(c).gen = c.gen
         /\ FileOf(c).start = c.start /\ FileOf(c).end = c.end /\ FileOf(c).rows = c.rows
BY DEF FileOf, File, ChunkEntry

\* A directory scan gives an entry of the file.
LEMMA ScannedFile ==
  ASSUME NEW f \in File
  PROVE  /\ Scanned(f) \in ChunkEntry /\ FileOf(Scanned(f)) = f
         /\ Scanned(f).path = f.path /\ Scanned(f).id = f.id /\ Scanned(f).gen = f.gen
         /\ Scanned(f).start = f.start /\ Scanned(f).end = f.end /\ Scanned(f).rows = f.rows
BY DEF Scanned, Entry, DecodeState, FileOf, File, ChunkEntry, Path

LEMMA Numbers ==
  ASSUME NEW c, c \in File \/ c \in ChunkEntry
  PROVE  /\ c.start \in Ts /\ c.end \in Ts /\ c.start \in Int /\ c.end \in Int
         /\ c.gen \in Nat /\ c.path.gen \in Nat /\ c.path.month \in Months
         /\ c.path.month \in Int /\ c.path \in Path
         /\ c.rows \subseteq Row /\ \A r \in c.rows : r.ts \in Ts /\ r.ts \in Int /\ r.ver \in Nat
BY RangeAssumption DEF File, ChunkEntry, Path, Row

\* No entry is in the state Replaced: all of a manifest is readable.
LEMMA AllReadable ==
  ASSUME NEW C \in SUBSET ChunkEntry
  PROVE  Readable(C) = C /\ \A m : Readable(InMonth(C, m)) = InMonth(C, m)
BY DEF Readable, InMonth, ChunkEntry

LEMMA ShownIsManifest ==
  ASSUME manifest \subseteq ChunkEntry
  PROVE  ShownRows = RowsOf(manifest)
BY AllReadable DEF ShownRows

\* The next name of a month is not among its entries (next_generation and
\* chunk_file_name): a base name is used for an empty month only.
LEMMA NextPathIs ==
  ASSUME NEW m \in Months, NEW C \in SUBSET ChunkEntry, kind \in Kinds,
         NEW g \in NextGeneration(InMonth(C, m))
  PROVE  LET p == NextPath(m, InMonth(C, m), g)
         IN  /\ p \in Path /\ p.month = m /\ p.gen <= g /\ g \in Nat
             /\ p.kind = "base" => InMonth(C, m) = {}
             /\ p.kind # "base" => p.gen = g
             /\ \A c \in InMonth(C, m) : c.gen < g
<1>1. InMonth(C, m) \in SUBSET ChunkEntry
  BY DEF InMonth
<1>2. g \in Nat /\ \A c \in InMonth(C, m) : c.gen < g
  BY <1>1, NextIsNew
<1>3. /\ BasePath(m) \in Path /\ DeltaPath(m, g) \in Path /\ MergedPath(m, g) \in Path
      /\ BasePath(m).month = m /\ DeltaPath(m, g).month = m /\ MergedPath(m, g).month = m
      /\ BasePath(m).gen = 0 /\ DeltaPath(m, g).gen = g /\ MergedPath(m, g).gen = g
      /\ BasePath(m).kind = "base" /\ DeltaPath(m, g).kind = "delta"
      /\ MergedPath(m, g).kind = "merged"
  BY <1>2 DEF BasePath, DeltaPath, MergedPath, Path
<1> QED
  BY <1>2, <1>3 DEF NextPath

(***************************************************************************)
(* Ranges                                                                  *)
(***************************************************************************)
LEMMA GoodFileOf ==
  ASSUME NEW c \in ChunkEntry
  PROVE  GoodChunk(FileOf(c)) <=> GoodChunk(c)
BY FileOfEntry DEF GoodChunk

LEMMA GoodRange ==
  ASSUME NEW c, c \in File \/ c \in ChunkEntry, GoodChunk(c)
  PROVE  c.start <= c.end
BY Numbers DEF GoodChunk

LEMMA RowMonth ==
  ASSUME NEW c, c \in File \/ c \in ChunkEntry, GoodChunk(c), NEW r \in c.rows
  PROVE  MonthOf[r.ts] = c.path.month
<1>1. /\ c.start \in Ts /\ c.end \in Ts /\ r.ts \in Ts /\ c.start <= r.ts /\ r.ts <= c.end
  BY Numbers DEF GoodChunk
<1>2. /\ MonthOf[c.start] <= MonthOf[r.ts] /\ MonthOf[r.ts] <= MonthOf[c.end]
      /\ MonthOf[r.ts] \in Int /\ MonthOf[c.start] \in Int
  BY <1>1, RangeAssumption
<1>3. MonthOf[c.start] = c.path.month /\ MonthOf[c.end] = c.path.month
  BY DEF GoodChunk
<1> QED
  BY <1>2, <1>3

\* Chunks of different months do not overlap.
LEMMA OverlapInMonth ==
  ASSUME NEW c, NEW d, c \in File \/ c \in ChunkEntry, d \in File \/ d \in ChunkEntry,
         GoodChunk(c), GoodChunk(d), RangesOverlap(c, d)
  PROVE  c.path.month = d.path.month
<1>1. /\ c.start \in Ts /\ c.end \in Ts /\ d.start \in Ts /\ d.end \in Ts
      /\ c.start \in Int /\ c.end \in Int /\ d.start \in Int /\ d.end \in Int
  BY Numbers
<1>2. c.start <= d.end /\ d.start <= c.end
  BY <1>1 DEF RangesOverlap
<1>3. /\ MonthOf[c.start] <= MonthOf[d.end] /\ MonthOf[d.start] <= MonthOf[c.end]
      /\ MonthOf[c.start] \in Int /\ MonthOf[d.end] \in Int
  BY <1>1, <1>2, RangeAssumption
<1>4. /\ MonthOf[c.start] = c.path.month /\ MonthOf[c.end] = c.path.month
      /\ MonthOf[d.start] = d.path.month /\ MonthOf[d.end] = d.path.month
  BY DEF GoodChunk
<1> QED
  BY <1>3, <1>4

LEMMA WithinOverlaps ==
  ASSUME NEW c, NEW d, c \in File \/ c \in ChunkEntry, d \in File \/ d \in ChunkEntry,
         GoodChunk(c), GoodChunk(d), Within(c, d)
  PROVE  RangesOverlap(c, d) /\ RangesOverlap(d, c)
BY Numbers, GoodRange DEF Within, RangesOverlap

LEMMA BeforeDisjoint ==
  ASSUME NEW c, NEW d, c \in File \/ c \in ChunkEntry, d \in File \/ d \in ChunkEntry,
         Before(c, d)
  PROVE  ~ RangesOverlap(c, d) /\ ~ RangesOverlap(d, c)
BY Numbers DEF Before, RangesOverlap

LEMMA WithinTransitive ==
  ASSUME NEW c, NEW d, NEW e, Within(c, d), Within(d, e),
         c \in File \/ c \in ChunkEntry, d \in File \/ d \in ChunkEntry,
         e \in File \/ e \in ChunkEntry
  PROVE  Within(c, e)
<1>1. /\ c.start \in Int /\ c.end \in Int /\ c.gen \in Nat
      /\ d.start \in Int /\ d.end \in Int /\ d.gen \in Nat
      /\ e.start \in Int /\ e.end \in Int /\ e.gen \in Nat
  BY Numbers
<1> QED
  BY <1>1 DEF Within

LEMMA WithinFiles ==
  ASSUME NEW c \in ChunkEntry, NEW f
  PROVE  /\ Within(FileOf(c), f) <=> Within(c, f)
         /\ Within(f, FileOf(c)) <=> Within(f, c)
         /\ Before(FileOf(c), f) <=> Before(c, f)
         /\ Before(f, FileOf(c)) <=> Before(f, c)
BY FileOfEntry DEF Within, Before

LEMMA OlderFiles ==
  ASSUME NEW c \in ChunkEntry, NEW f
  PROVE  /\ Older(FileOf(c), f) <=> Older(c, f)
         /\ Older(f, FileOf(c)) <=> Older(f, c)
BY WithinFiles DEF Older

\* What is settled stays settled when every entry is.
LEMMA SettledStep ==
  ASSUME NEW C \in SUBSET ChunkEntry, NEW D \in SUBSET ChunkEntry,
         \A c \in C : Settled(FileOf(c), D), NEW f \in File, Settled(f, C)
  PROVE  Settled(f, D)
<1>1. PICK c \in C : FileOf(c) = f \/ (kind = "scalar" /\ Within(f, c))
  BY DEF Settled
<1>2. PICK d \in D : FileOf(d) = FileOf(c) \/ (kind = "scalar" /\ Within(FileOf(c), d))
  BY DEF Settled
<1>3. c \in ChunkEntry /\ d \in ChunkEntry
  OBVIOUS
<1>4. CASE FileOf(c) = f
  BY <1>2, <1>4 DEF Settled
<1>5. CASE kind = "scalar" /\ Within(f, c) /\ FileOf(d) = FileOf(c)
  <2>1. Within(f, d)
    BY <1>3, <1>5, WithinFiles
  <2> QED
    BY <1>5, <2>1 DEF Settled
<1>6. CASE kind = "scalar" /\ Within(f, c) /\ Within(FileOf(c), d)
  <2>1. Within(c, d)
    BY <1>3, <1>6, WithinFiles
  <2>2. Within(f, d)
    BY <1>3, <1>6, <2>1, WithinTransitive
  <2> QED
    BY <1>6, <2>2 DEF Settled
<1> QED
  BY <1>1, <1>2, <1>4, <1>5, <1>6

\* A settled file has an entry of its month that is as new and has its rows.
LEMMA SettledEntry ==
  ASSUME NEW C \in SUBSET ChunkEntry, NEW f \in File, Settled(f, C)
  PROVE  \E c \in C : c.path.month = f.path.month /\ f.gen <= c.gen /\ f.rows \subseteq c.rows
<1>1. PICK c \in C : FileOf(c) = f \/ (kind = "scalar" /\ Within(f, c))
  BY DEF Settled
<1>2. c \in ChunkEntry /\ c.gen \in Nat /\ f.gen \in Nat
  BY Numbers
<1>3. CASE FileOf(c) = f
  BY <1>2, <1>3, FileOfEntry
<1>4. CASE Within(f, c)
  BY <1>2, <1>4 DEF Within
<1> QED
  BY <1>1, <1>3, <1>4

\* Entries whose files are settled show the same rows.
LEMMA SettledRows ==
  ASSUME NEW C \in SUBSET ChunkEntry, NEW D \in SUBSET ChunkEntry,
         \A c \in C : Settled(FileOf(c), D)
  PROVE  RowsOf(C) \subseteq RowsOf(D)
<1> SUFFICES ASSUME NEW c \in C
             PROVE  c.rows \subseteq RowsOf(D)
  BY DEF RowsOf
<1>1. FileOf(c) \in File /\ FileOf(c).rows = c.rows
  BY FileOfEntry
<1>2. \E d \in D : c.rows \subseteq d.rows
  BY <1>1, SettledEntry
<1> QED
  BY <1>2 DEF RowsOf

(***************************************************************************)
(* Recovery                                                                *)
(***************************************************************************)
\* An entry of C and a file of its month are in the order of the month.
LEMMA EntryInOrder ==
  ASSUME disk \subseteq File, GoodDisk, NEW C \in SUBSET ChunkEntry, GoodEntries(C),
         NEW c \in C, NEW f \in disk, f.path.month = c.path.month
  PROVE  f = FileOf(c) \/ Older(f, c) \/ Older(c, f)
<1>1. FileOf(c) \in disk /\ FileOf(c).path = c.path /\ c \in ChunkEntry
  BY FileOfEntry DEF GoodEntries
<1>2. f = FileOf(c) \/ Older(f, FileOf(c)) \/ Older(FileOf(c), f)
  BY <1>1 DEF GoodDisk
<1> QED
  BY <1>1, <1>2, OlderFiles

LEMMA EntryIsGood ==
  ASSUME disk \subseteq File, GoodDisk, NEW C \in SUBSET ChunkEntry, GoodEntries(C), NEW c \in C
  PROVE  c \in ChunkEntry /\ FileOf(c) \in disk /\ FileOf(c) \in File /\ GoodChunk(c)
<1>1. c \in ChunkEntry /\ FileOf(c) \in disk
  BY DEF GoodEntries
<1> QED
  BY <1>1, GoodFileOf DEF GoodDisk

\* recover_series_if_needed passes over a file that is settled.
LEMMA AdoptSettled ==
  ASSUME disk \subseteq File, GoodDisk, NEW C \in SUBSET ChunkEntry, GoodEntries(C),
         NEW f \in disk, Settled(f, C)
  PROVE  AdoptCandidate(C, f) = C
<1> DEFINE cand == Scanned(f)
           overlaps == {c \in C : RangesOverlap(c, cand)}
<1>1. /\ cand \in ChunkEntry /\ FileOf(cand) = f /\ cand.path = f.path /\ cand.gen = f.gen
      /\ cand.start = f.start /\ cand.end = f.end /\ cand.rows = f.rows
  BY ScannedFile
<1>2. PICK c \in C : FileOf(c) = f \/ (kind = "scalar" /\ Within(f, c))
  BY DEF Settled
<1>3. c \in ChunkEntry /\ GoodChunk(c) /\ GoodChunk(cand) /\ c.gen \in Nat /\ f.gen \in Nat
  BY <1>1, EntryIsGood, GoodFileOf, Numbers DEF GoodDisk
<1>4. CASE FileOf(c) = f
  <2>1. cand.path \in Paths(C)
    BY <1>1, <1>3, <1>4, FileOfEntry DEF Paths
  <2> QED
    BY <2>1 DEF AdoptCandidate
<1>5. CASE Within(f, c)
  <2>1. Within(cand, c)
    BY <1>1, <1>5 DEF Within
  <2>2. RangesOverlap(c, cand)
    BY <1>1, <1>3, <2>1, WithinOverlaps
  <2>3. c.gen >= cand.gen
    BY <1>1, <1>3, <1>5 DEF Within
  <2>4. c \in overlaps /\ \E d \in overlaps : d.gen >= cand.gen
    BY <2>2, <2>3
  <2> QED
    BY <2>4 DEF AdoptCandidate
<1> QED
  BY <1>2, <1>4, <1>5

\* The newer chunk of two survives an overlap.
LEMMA SurvivorOfTwo ==
  ASSUME NEW c \in ChunkEntry, NEW d \in ChunkEntry, Within(c, d)
  PROVE  Survivor({c} \cup {d}) = {d}
<1>1. /\ c.start \in Int /\ c.end \in Int /\ c.gen \in Nat
      /\ d.start \in Int /\ d.end \in Int /\ d.gen \in Nat
  BY Numbers
<1>2. Covers(d, {c} \cup {d})
  BY <1>1 DEF Covers, Within
<1>3. RanksBefore(d, c) /\ ~ RanksBefore(c, d) /\ c # d
  BY <1>1 DEF RanksBefore, Within
<1> QED
  BY <1>2, <1>3 DEF Survivor

\* It adopts a file that is not: beside the entries of a kline month, in the
\* place of the entry of a scalar month.
LEMMA AdoptNew ==
  ASSUME kind \in Kinds, disk \subseteq File, GoodDisk, NEW C \in SUBSET ChunkEntry,
         GoodEntries(C), NEW f \in disk, ~ Settled(f, C)
  PROVE  LET D == AdoptCandidate(C, f)
         IN  /\ D \in SUBSET ChunkEntry /\ GoodEntries(D) /\ Settled(f, D)
             /\ \A c \in C : Settled(FileOf(c), D)
             /\ \A d \in D : d \in C \/ d = Scanned(f)
<1> DEFINE cand == Scanned(f)
           overlaps == {c \in C : RangesOverlap(c, cand)}
           D == AdoptCandidate(C, f)
<1>1. /\ cand \in ChunkEntry /\ FileOf(cand) = f /\ cand.path = f.path /\ cand.gen = f.gen
      /\ cand.start = f.start /\ cand.end = f.end /\ cand.rows = f.rows /\ GoodChunk(cand)
  BY ScannedFile, GoodFileOf DEF GoodDisk
<1>2. \A c \in C : c \in ChunkEntry /\ FileOf(c) \in disk /\ GoodChunk(c)
  BY EntryIsGood
<1>3. cand.path \notin Paths(C)
  <2> SUFFICES ASSUME NEW c \in C, c.path = f.path
               PROVE  FALSE
    BY <1>1 DEF Paths
  <2>1. FileOf(c) = f
    BY <1>2, FileOfEntry DEF GoodDisk
  <2> QED
    BY <2>1 DEF Settled
<1>4. ASSUME NEW c \in C, c.path.month = f.path.month
      PROVE  IF kind = "scalar" THEN Within(c, f) ELSE Before(c, f) \/ Before(f, c)
  <2>1. f = FileOf(c) \/ Older(f, c) \/ Older(c, f)
    BY <1>4, EntryInOrder
  <2>2. f # FileOf(c) /\ ~ (kind = "scalar" /\ Within(f, c))
    BY DEF Settled
  <2> QED
    BY <2>1, <2>2 DEF Older
<1>5. D = IF overlaps = {} THEN C \cup {cand}
          ELSE IF \E c \in overlaps : c.gen >= cand.gen THEN C
          ELSE IF Survivor(overlaps \cup {cand}) = {cand} THEN (C \ overlaps) \cup {cand}
          ELSE C
  BY <1>3 DEF AdoptCandidate
<1>6. IsFiniteSet(C \cup {cand}) /\ \A c : IsFiniteSet((C \ {c}) \cup {cand})
  BY FS_AddElement, FS_RemoveElement DEF GoodEntries
<1>7. \A c \in C : c.path # cand.path
  BY <1>3 DEF Paths
<1> HIDE DEF D, cand
<1>8. CASE kind = "kline" \/ \A c \in C : c.path.month # f.path.month
  <2>1. ASSUME NEW c \in C, RangesOverlap(c, cand)
        PROVE  FALSE
    <3>1. c.path.month = f.path.month
      BY <1>1, <1>2, <2>1, OverlapInMonth
    <3>2. kind = "kline"
      BY <1>8, <3>1
    <3>3. Before(c, cand) \/ Before(cand, c)
      BY <1>1, <1>4, <3>1, <3>2 DEF Before
    <3> QED
      BY <1>1, <1>2, <2>1, <3>3, BeforeDisjoint
  <2>2. D = C \cup {cand}
    BY <1>5, <2>1
  <2>3. GoodEntries(D)
    <3>1. \A c \in D : FileOf(c) \in disk
      BY <1>1, <1>2, <2>2
    <3>2. \A c, d \in D : c.path = d.path => c = d
      BY <1>7, <2>2 DEF GoodEntries
    <3>3. kind = "scalar" => \A c, d \in D : c.path.month = d.path.month => c = d
      BY <1>1, <1>8, <2>2 DEF GoodEntries
    <3> QED
      BY <1>6, <2>2, <3>1, <3>2, <3>3 DEF GoodEntries
  <2>4. Settled(f, D) /\ \A c \in C : Settled(FileOf(c), D)
    BY <1>1, <2>2 DEF Settled
  <2> QED
    BY <1>1, <2>2, <2>3, <2>4 DEF D, cand
<1>9. CASE kind = "scalar" /\ \E c \in C : c.path.month = f.path.month
  <2>1. PICK c \in C : c.path.month = f.path.month
    BY <1>9
  <2>2. Within(c, f) /\ Within(c, cand)
    BY <1>1, <1>4, <1>9, <2>1 DEF Within
  <2>3. RangesOverlap(c, cand)
    BY <1>1, <1>2, <2>2, WithinOverlaps
  <2>4. \A d \in C : RangesOverlap(d, cand) => d = c
    <3> SUFFICES ASSUME NEW d \in C, RangesOverlap(d, cand)
                 PROVE  d = c
      OBVIOUS
    <3>1. d.path.month = f.path.month
      BY <1>1, <1>2, OverlapInMonth
    <3> QED
      BY <1>9, <2>1, <3>1 DEF GoodEntries
  <2>5. overlaps = {c}
    BY <2>3, <2>4
  <2>6. c.gen \in Nat /\ cand.gen \in Nat /\ ~ (c.gen >= cand.gen)
    BY <1>1, <1>2, <2>2, Numbers DEF Within
  <2>7. Survivor(overlaps \cup {cand}) = {cand}
    BY <1>1, <1>2, <2>2, <2>5, SurvivorOfTwo
  <2>8. D = (C \ {c}) \cup {cand}
    BY <1>5, <2>5, <2>6, <2>7
  <2>9. GoodEntries(D)
    <3>1. \A d \in D : FileOf(d) \in disk
      BY <1>1, <1>2, <2>8
    <3>2. \A d, e \in D : d.path = e.path => d = e
      BY <1>7, <2>8 DEF GoodEntries
    <3>3. \A d, e \in D : d.path.month = e.path.month => d = e
      BY <1>1, <1>9, <2>1, <2>8 DEF GoodEntries
    <3> QED
      BY <1>6, <2>8, <3>1, <3>2, <3>3 DEF GoodEntries
  <2>10. Settled(f, D)
    BY <1>1, <2>8 DEF Settled
  <2>11. Settled(FileOf(c), D)
    BY <1>2, <1>9, <2>2, <2>8, WithinFiles DEF Settled
  <2>12. \A d \in C : Settled(FileOf(d), D)
    BY <2>8, <2>11 DEF Settled
  <2> QED
    BY <1>1, <2>8, <2>9, <2>10, <2>12 DEF D, cand
<1> QED
  BY <1>8, <1>9 DEF Kinds

(***************************************************************************)
(* Batches                                                                 *)
(***************************************************************************)
LEMMA BatchRows ==
  ASSUME asked \in Seq(SUBSET Ts), NEW v \in 1..Len(asked), NEW m
  PROVE  /\ \A r \in Batch(v, m) : r \in Row /\ r.ver = v /\ r.ts \in asked[v] /\ MonthOf[r.ts] = m
         /\ \A r \in Row : r.ver = v /\ r.ts \in asked[v] /\ MonthOf[r.ts] = m => r \in Batch(v, m)
         /\ m \in BatchMonths(v) => m \in Months /\ \E r \in Batch(v, m) : TRUE
         /\ m \notin BatchMonths(v) => Batch(v, m) = {}
<1>1. asked[v] \in SUBSET Ts /\ v \in Nat
  OBVIOUS
<1>2. \A r \in Batch(v, m) : r \in Row /\ r.ver = v /\ r.ts \in asked[v] /\ MonthOf[r.ts] = m
  BY <1>1 DEF Batch, Row
<1>3. ASSUME NEW r \in Row, r.ver = v, r.ts \in asked[v], MonthOf[r.ts] = m
      PROVE  r \in Batch(v, m)
  <2>1. r = [ts |-> r.ts, ver |-> v]
    BY <1>3 DEF Row
  <2> QED
    BY <1>3, <2>1 DEF Batch
<1>4. ASSUME m \in BatchMonths(v)
      PROVE  m \in Months /\ \E r \in Batch(v, m) : TRUE
  <2>1. PICK t \in asked[v] : MonthOf[t] = m
    BY <1>4 DEF BatchMonths
  <2>2. t \in Ts /\ [ts |-> t, ver |-> v] \in Batch(v, m)
    BY <1>1, <2>1 DEF Batch
  <2> QED
    BY <2>1, <2>2, RangeAssumption
<1>5. m \notin BatchMonths(v) => Batch(v, m) = {}
  BY <1>2 DEF BatchMonths
<1> QED
  BY <1>2, <1>3, <1>4, <1>5

LEMMA BatchFinite ==
  ASSUME asked \in Seq(SUBSET Ts), NEW v \in 1..Len(asked), NEW m, IsFiniteSet(asked[v])
  PROVE  IsFiniteSet(Batch(v, m))
<1> DEFINE S == {s \in asked[v] : MonthOf[s] = m}
           row == [t \in S |-> [ts |-> t, ver |-> v]]
<1>1. IsFiniteSet(S)
  BY FS_Subset
<1>2. row \in Surjection(S, Batch(v, m))
  <2>1. row \in [S -> Batch(v, m)]
    BY DEF Batch
  <2>2. \A r \in Batch(v, m) : \E t \in S : row[t] = r
    BY DEF Batch
  <2> QED
    BY <2>1, <2>2 DEF Surjection
<1> QED
  BY <1>1, <1>2, FS_Surjection DEF ExistsSurjection

\* A whole set of rows has all of a batch or nothing of it.
LEMMA WholeOrNothing ==
  ASSUME asked \in Seq(SUBSET Ts), NEW R, Whole(R), NEW v \in 1..Len(asked), NEW m
  PROVE  Batch(v, m) \subseteq R \/ Batch(v, m) \cap R = {}
<1> SUFFICES ASSUME NEW r \in Batch(v, m), r \in R
             PROVE  Batch(v, m) \subseteq R
  OBVIOUS
<1>1. r.ver = v /\ MonthOf[r.ts] = m
  BY BatchRows
<1> QED
  BY <1>1 DEF Whole

LEMMA WholeUnion ==
  ASSUME NEW C, \A c \in C : Whole(c.rows) /\ Ordered(c.rows)
  PROVE  Whole(RowsOf(C)) /\ Ordered(RowsOf(C))
<1>1. ASSUME NEW r \in RowsOf(C)
      PROVE  /\ r.ver \in 1..Len(asked) /\ r.ts \in asked[r.ver]
             /\ Batch(r.ver, MonthOf[r.ts]) \subseteq RowsOf(C)
             /\ \A n \in BatchMonths(r.ver) : n < MonthOf[r.ts] => Shown(r.ver, n)
  <2>1. PICK c \in C : r \in c.rows
    BY DEF RowsOf
  <2>2. c.rows \subseteq RowsOf(C)
    BY DEF RowsOf
  <2>3. /\ r.ver \in 1..Len(asked) /\ r.ts \in asked[r.ver]
        /\ Batch(r.ver, MonthOf[r.ts]) \subseteq c.rows
    BY <2>1 DEF Whole
  <2> QED
    BY <2>1, <2>2, <2>3 DEF Ordered
<1> QED
  BY <1>1 DEF Whole, Ordered

LEMMA WholeCup ==
  ASSUME NEW R, NEW S, Whole(R), Whole(S), Ordered(R), Ordered(S)
  PROVE  Whole(R \cup S) /\ Ordered(R \cup S)
BY DEF Whole, Ordered

LEMMA ShownRowsWhole ==
  ASSUME WriterInv
  PROVE  /\ Whole(ShownRows) /\ Ordered(ShownRows)
         /\ \A m : Whole(RowsOf(InMonth(manifest, m))) /\ Ordered(RowsOf(InMonth(manifest, m)))
<1>1. ASSUME NEW c \in manifest
      PROVE  Whole(c.rows) /\ Ordered(c.rows)
  <2>1. FileOf(c) \in disk /\ FileOf(c).rows = c.rows
    BY FileOfEntry DEF WriterInv, GoodEntries, TypeInv
  <2> QED
    BY <2>1 DEF WriterInv, HistoryInv
<1>2. ShownRows = RowsOf(manifest)
  BY ShownIsManifest DEF WriterInv, TypeInv
<1>3. \A m : InMonth(manifest, m) \subseteq manifest
  BY DEF InMonth
<1> QED
  BY <1>1, <1>2, <1>3, WholeUnion

\* A validated request is added to those that were asked before.
LEMMA AskedGrows ==
  ASSUME asked \in Seq(SUBSET Ts), NEW S \in SUBSET Ts, asked' = Append(asked, S)
  PROVE  /\ asked' \in Seq(SUBSET Ts) /\ Len(asked') = Len(asked) + 1 /\ Len(asked) \in Nat
         /\ asked'[Len(asked) + 1] = S
         /\ \A v \in 1..Len(asked) :
              /\ v \in 1..Len(asked') /\ asked'[v] = asked[v]
              /\ \A m : Batch(v, m)' = Batch(v, m)
              /\ BatchMonths(v)' = BatchMonths(v)
<1>1. /\ asked' \in Seq(SUBSET Ts) /\ Len(asked') = Len(asked) + 1 /\ Len(asked) \in Nat
      /\ asked'[Len(asked) + 1] = S
      /\ \A v \in 1..Len(asked) : v \in 1..Len(asked') /\ asked'[v] = asked[v]
  OBVIOUS
<1>2. \A v \in 1..Len(asked) : (\A m : Batch(v, m)' = Batch(v, m)) /\ BatchMonths(v)' = BatchMonths(v)
  BY <1>1 DEF Batch, BatchMonths
<1> QED
  BY <1>1, <1>2

(***************************************************************************)
(* Steps that leave files, manifest and requests alone                     *)
(***************************************************************************)
LEMMA SameOrder ==
  ASSUME UNCHANGED kind
  PROVE  \A c, d : (Older(c, d)' <=> Older(c, d)) /\ (Within(c, d)' <=> Within(c, d))
BY DEF Older, Within, Before

LEMMA SameDisk ==
  ASSUME UNCHANGED <<kind, disk>>
  PROVE  /\ GoodDisk' <=> GoodDisk
         /\ \A C : GoodEntries(C)' <=> GoodEntries(C)
         /\ \A f, C : Settled(f, C)' <=> Settled(f, C)
         /\ \A C : AllSettled(C)' <=> AllSettled(C)
<1>1. \A f, C : Settled(f, C)' <=> Settled(f, C)
  BY DEF Settled, Within, FileOf
<1>2. GoodDisk' <=> GoodDisk
  BY SameOrder DEF GoodDisk, GoodChunk
<1>3. \A C : GoodEntries(C)' <=> GoodEntries(C)
  BY DEF GoodEntries
<1>4. \A C : AllSettled(C)' <=> AllSettled(C)
  BY <1>1 DEF AllSettled
<1> QED
  BY <1>1, <1>2, <1>3, <1>4

LEMMA SameRows ==
  ASSUME UNCHANGED <<manifest, asked>>
  PROVE  /\ ShownRows' = ShownRows
         /\ \A v, m : Batch(v, m)' = Batch(v, m) /\ (Shown(v, m)' <=> Shown(v, m))
         /\ \A v : BatchMonths(v)' = BatchMonths(v) /\ Remainder(v)' = Remainder(v)
         /\ \A R : (Whole(R)' <=> Whole(R)) /\ (Ordered(R)' <=> Ordered(R))
         /\ \A p : Superseded(p)' <=> Superseded(p)
<1>1. ShownRows' = ShownRows
  BY DEF ShownRows
<1>2. \A v, m : Batch(v, m)' = Batch(v, m)
  BY DEF Batch
<1>3. \A v, m : Shown(v, m)' <=> Shown(v, m)
  BY <1>1, <1>2 DEF Shown
<1>4. \A v : BatchMonths(v)' = BatchMonths(v)
  BY DEF BatchMonths
<1>5. \A v : Remainder(v)' = Remainder(v)
  BY <1>3, <1>4 DEF Remainder
<1>6. \A R : (Whole(R)' <=> Whole(R)) /\ (Ordered(R)' <=> Ordered(R))
  BY <1>2, <1>3, <1>4 DEF Whole, Ordered
<1>7. \A p : Superseded(p)' <=> Superseded(p)
  BY DEF Superseded
<1> QED
  BY <1>1, <1>2, <1>3, <1>4, <1>5, <1>6, <1>7

quiet == <<kind, disk, index, manifest, sides, asked>>

\* What a quiet step cannot disturb.
LEMMA QuietParts ==
  ASSUME WriterInv, UNCHANGED quiet
  PROVE  /\ GoodDisk' /\ GoodEntries(manifest)' /\ SidesInv'
         /\ (\A v \in 1..Len(asked) : IsFiniteSet(asked[v]))'
         /\ (\A f \in disk : Whole(f.rows) /\ Ordered(f.rows))'
         /\ AllSettled(manifest)' <=> AllSettled(manifest)
         /\ told' = told => ToldInv'
         /\ resumable' \subseteq resumable => ResumeInv'
<1>0. UNCHANGED <<kind, disk>> /\ UNCHANGED <<manifest, asked>> /\ index' = index /\ sides' = sides
  BY DEF quiet
<1>1. GoodDisk' /\ GoodEntries(manifest)' /\ (AllSettled(manifest)' <=> AllSettled(manifest))
  BY <1>0, SameDisk DEF WriterInv
<1>2. SidesInv'
  BY <1>0 DEF WriterInv, SidesInv
<1>3. (\A v \in 1..Len(asked) : IsFiniteSet(asked[v]))'
  BY <1>0 DEF WriterInv, HistoryInv
<1>4. (\A f \in disk : Whole(f.rows) /\ Ordered(f.rows))'
  BY <1>0, SameRows DEF WriterInv, HistoryInv
<1>5. told' = told => ToldInv'
  BY <1>0, SameRows DEF WriterInv, ToldInv
<1>6. resumable' \subseteq resumable => ResumeInv'
  BY <1>0, SameRows, SameDisk DEF WriterInv, ResumeInv
<1> QED
  BY <1>1, <1>2, <1>3, <1>4, <1>5, <1>6

\* A quiet step while no chunk is being written.
LEMMA NoOut ==
  ASSUME WriterInv, UNCHANGED quiet, out' = {}, pc' \notin {"sidecar", "cleanup"}
  PROVE  HistoryInv' /\ OutInv'
<1>1. HistoryInv'
  BY QuietParts DEF HistoryInv
<1>2. OutInv'
  BY DEF OutInv
<1> QED
  BY <1>1, <1>2

(***************************************************************************)
(* The writer, step by step                                                *)
(***************************************************************************)
LEMMA ToldDone ==
  ASSUME WriterInv, UNCHANGED quiet, told' \subseteq told \cup {<<Request, m>> : m \in done}
  PROVE  ToldInv'
<1>1. UNCHANGED <<manifest, asked>>
  BY DEF quiet
<1>2. ASSUME NEW x \in told'
      PROVE  x[1] \in 1..Len(asked) /\ Shown(x[1], x[2])
  <2>1. CASE x \in told
    BY <2>1 DEF WriterInv, ToldInv
  <2>2. CASE \E m \in done : x = <<Request, m>>
    <3>1. PICK m \in done : x = <<Request, m>>
      BY <2>2
    <3>2. pc \in Accepted
      BY <3>1 DEF WriterInv, PhaseInv
    <3>3. Len(asked) >= 1 /\ Len(asked) \in Nat
      BY <3>2 DEF WriterInv, PhaseInv, TypeInv
    <3>4. Shown(Request, m)
      BY <3>1, <3>2 DEF WriterInv, RequestInv
    <3> QED
      BY <3>1, <3>3, <3>4 DEF Request
  <2> QED
    BY <1>2, <2>1, <2>2
<1>3. ASSUME NEW x \in told'
      PROVE  x[1] \in 1..Len(asked') /\ Shown(x[1], x[2])'
  BY <1>1, <1>2, SameRows
<1> QED
  BY <1>3 DEF ToldInv

\* A call ends, with an answer, an error or a crash.
LEMMA ReturnStep ==
  ASSUME WriterInv, Return, UNCHANGED quiet, registered' \in BOOLEAN, marker' \in BOOLEAN,
         ~ marker' => AllSettled(manifest), resumable' \subseteq resumable,
         told' \subseteq told \cup {<<Request, m>> : m \in done}
  PROVE  WriterInv'
<1>1. TypeInv'
  BY DEF WriterInv, TypeInv, Return, quiet, Phases
<1>2. GoodDisk' /\ GoodEntries(manifest)' /\ SidesInv' /\ ResumeInv'
  BY QuietParts
<1>3. HistoryInv' /\ OutInv'
  BY NoOut DEF Return
<1>4. PhaseInv'
  BY QuietParts DEF PhaseInv, Return, Accepted
<1>5. RequestInv' /\ RecoverInv'
  BY DEF RequestInv, RecoverInv, Return, Accepted
<1> QED
  BY <1>1, <1>2, <1>3, <1>4, <1>5, ToldDone DEF WriterInv

LEMMA RangeRefusedInv ==
  ASSUME WriterInv, RangeRefused
  PROVE  WriterInv'
<1>1. Return /\ UNCHANGED quiet /\ UNCHANGED <<registered, marker, told, resumable>>
  BY DEF RangeRefused, quiet, durable, callers
<1>2. registered \in BOOLEAN /\ marker \in BOOLEAN /\ (~ marker => AllSettled(manifest))
  BY DEF WriterInv, TypeInv, PhaseInv
<1> QED
  BY <1>1, <1>2, ReturnStep

LEMMA RangeDoneInv ==
  ASSUME WriterInv, RangeDone
  PROVE  WriterInv'
<1>1. Return /\ UNCHANGED quiet /\ UNCHANGED <<registered, marker>> /\ resumable' = {}
      /\ told' = told \cup {<<Request, m>> : m \in done}
  BY DEF RangeDone, quiet, durable
<1>2. registered \in BOOLEAN /\ marker \in BOOLEAN /\ (~ marker => AllSettled(manifest))
  BY DEF WriterInv, TypeInv, PhaseInv
<1> QED
  BY <1>1, <1>2, ReturnStep

LEMMA WriterFailsInv ==
  ASSUME WriterInv, WriterFails
  PROVE  WriterInv'
<1>1. /\ Return /\ UNCHANGED quiet /\ UNCHANGED <<registered, marker, resumable>>
      /\ told' \subseteq told \cup {<<Request, m>> : m \in done}
  BY DEF WriterFails, quiet, durable
<1>2. registered \in BOOLEAN /\ marker \in BOOLEAN /\ (~ marker => AllSettled(manifest))
  BY DEF WriterInv, TypeInv, PhaseInv
<1> QED
  BY <1>1, <1>2, ReturnStep

LEMMA RangeAcceptedInv ==
  ASSUME WriterInv, RangeAccepted
  PROVE  WriterInv'
<1>1. /\ pc = "check" /\ UNCHANGED quiet /\ left' = BatchMonths(Request)
      /\ UNCHANGED <<registered, marker, lock, goal, done, out, obsolete, meta, todo, told>>
      /\ resumable' = {Request} /\ pc' \in {"month", "register"}
      /\ ~ preflight_overlap(Request, BatchMonths(Request))
  BY DEF RangeAccepted, quiet, durable, scan
<1>2. UNCHANGED <<kind, disk>> /\ UNCHANGED <<manifest, asked>>
  BY <1>1 DEF quiet
<1>3. out = {} /\ done = {} /\ AllSettled(manifest) /\ lock = "write"
  BY <1>1 DEF WriterInv, OutInv, PhaseInv, Accepted
<1>4. Request = Len(asked) /\ Request \in 1..Len(asked) /\ Len(asked) >= 1 /\ Len(asked) \in Nat
  BY <1>1 DEF WriterInv, PhaseInv, TypeInv, Request
<1>5. BatchMonths(Request) \subseteq Months
  BY <1>4, BatchRows DEF WriterInv, TypeInv
<1>6. \A m \in BatchMonths(Request) :
        \A c \in InMonth(manifest, m), r \in Batch(Request, m) : c.end < r.ts
  <2> SUFFICES ASSUME NEW m \in BatchMonths(Request), NEW c \in InMonth(manifest, m),
                      NEW r \in Batch(Request, m)
               PROVE  c.end < r.ts
    OBVIOUS
  <2>1. c \in Readable(InMonth(manifest, m)) /\ c \in ChunkEntry
    BY AllReadable DEF WriterInv, TypeInv, InMonth
  <2>2. ~ (r.ts <= c.end)
    BY <1>1, <2>1 DEF preflight_overlap
  <2>3. r \in Row
    BY <1>4, BatchRows DEF WriterInv, TypeInv
  <2>4. r.ts \in Int /\ c.end \in Int
    BY <2>1, <2>3, Numbers, RangeAssumption DEF Row
  <2> QED
    BY <2>2, <2>4
<1>7. TypeInv'
  BY <1>1, <1>5 DEF WriterInv, TypeInv, quiet, Phases, Accepted
<1>8. GoodDisk' /\ GoodEntries(manifest)' /\ SidesInv' /\ ToldInv'
  BY <1>1, QuietParts
<1>9. HistoryInv' /\ OutInv'
  BY <1>1, <1>3, NoOut
<1>10. PhaseInv'
  BY <1>1, <1>2, <1>3, <1>4, QuietParts DEF PhaseInv, Accepted
<1>11. RequestInv'
  <2>1. Request' = Request /\ BatchMonths(Request)' = BatchMonths(Request)
    BY <1>2 DEF Request, BatchMonths
  <2>2. \A m : InMonth(manifest, m)' = InMonth(manifest, m) /\ Batch(Request, m)' = Batch(Request, m)
    BY <1>2 DEF Request, Batch, InMonth
  <2> QED
    BY <1>1, <1>3, <1>6, <2>1, <2>2 DEF RequestInv
<1>12. ResumeInv'
  <2>1. \A v : Remainder(v) \subseteq BatchMonths(v)
    BY DEF Remainder
  <2>2. ASSUME NEW v \in resumable'
        PROVE  /\ v = Len(asked') /\ v >= 1
               /\ \A m \in Remainder(v)' :
                    \A c \in InMonth(manifest', m), r \in Batch(v, m)' : c.end < r.ts
    <3>1. v = Request /\ Remainder(v)' = Remainder(v) /\ \A m : Batch(v, m)' = Batch(v, m)
      BY <1>1, <1>2, <2>2, SameRows
    <3> QED
      BY <1>2, <1>4, <1>6, <2>1, <3>1
  <2>3. \A f \in disk' : Settled(f, manifest)'
    BY <1>2, <1>3, SameDisk DEF AllSettled
  <2> QED
    BY <2>2, <2>3 DEF ResumeInv
<1>13. RecoverInv'
  BY <1>1 DEF RecoverInv
<1> QED
  BY <1>7, <1>8, <1>9, <1>10, <1>11, <1>12, <1>13 DEF WriterInv

\* The request goes on: its months and what was told stay.
LEMMA SameRequest ==
  ASSUME WriterInv, UNCHANGED <<manifest, asked>>, UNCHANGED <<left, done>>, pc \in Accepted, pc' \in Accepted,
         pc \notin {"cleanup", "commit"}
  PROVE  RequestInv'
<1>1. manifest' = manifest /\ asked' = asked
  OBVIOUS
<1>2. /\ Request' = Request /\ BatchMonths(Request)' = BatchMonths(Request)
      /\ \A m : InMonth(manifest, m)' = InMonth(manifest, m) /\ Batch(Request, m)' = Batch(Request, m)
      /\ \A m : Shown(Request, m)' <=> Shown(Request, m)
  BY <1>1 DEF Request, BatchMonths, Batch, InMonth, Shown, ShownRows
<1>3. /\ left \cup done = BatchMonths(Request)
      /\ \A m \in done : Shown(Request, m)
      /\ \A m \in left : \A c \in InMonth(manifest, m), r \in Batch(Request, m) : c.end < r.ts
  BY DEF WriterInv, RequestInv
<1> QED
  BY <1>2, <1>3 DEF RequestInv

LEMMA RegisterInv ==
  ASSUME WriterInv, RegisterArm \/ RegisterSave \/ RegisterCommit
  PROVE  WriterInv'
<1>1. /\ pc \in {"register", "register_save", "register_commit"}
      /\ pc' \in {"register_save", "register_commit", "month"}
      /\ UNCHANGED quiet /\ marker' \in BOOLEAN /\ registered' \in BOOLEAN
      /\ UNCHANGED <<lock, goal, left, done, out, obsolete, meta, todo, asked, told, resumable>>
  BY DEF RegisterArm, RegisterSave, RegisterCommit, quiet, request, scan, callers,
         WriterInv, TypeInv
<1>2. out = {} /\ AllSettled(manifest) /\ lock = "write"
  BY <1>1 DEF WriterInv, OutInv, PhaseInv
<1>3. TypeInv'
  BY <1>1 DEF WriterInv, TypeInv, quiet, Phases, Accepted
<1>4. GoodDisk' /\ GoodEntries(manifest)' /\ SidesInv' /\ ToldInv' /\ ResumeInv'
  BY <1>1, QuietParts
<1>5. HistoryInv' /\ OutInv'
  BY <1>1, <1>2, NoOut
<1>6. PhaseInv'
  BY <1>1, <1>2, QuietParts DEF WriterInv, PhaseInv, Accepted
<1>7. RequestInv'
  BY <1>1, SameRequest DEF Accepted, quiet
<1>8. RecoverInv'
  BY <1>1 DEF RecoverInv
<1> QED
  BY <1>3, <1>4, <1>5, <1>6, <1>7, <1>8 DEF WriterInv

LEMMA MonthCommitInv ==
  ASSUME WriterInv, MonthCommit
  PROVE  WriterInv'
<1>1. /\ pc = "commit" /\ pc' = "month" /\ UNCHANGED quiet /\ marker' = FALSE /\ out' = {}
      /\ UNCHANGED <<registered, lock, goal, obsolete, meta, todo, asked, told, resumable>>
  BY DEF MonthCommit, quiet, scan, callers
<1>2. PICK e \in out : left' = left \ {e.path.month} /\ done' = done \cup {e.path.month}
  BY DEF MonthCommit
<1>3. AllSettled(manifest) /\ lock = "write" /\ Shown(Request, e.path.month) /\ out = {e}
      /\ Len(asked) >= 1
  BY <1>1 DEF WriterInv, OutInv, PhaseInv, Accepted
<1>4. e.path.month \in Months
  BY Numbers DEF WriterInv, TypeInv
<1>5. TypeInv'
  BY <1>1, <1>2, <1>4 DEF WriterInv, TypeInv, quiet, Phases, Accepted
<1>6. GoodDisk' /\ GoodEntries(manifest)' /\ SidesInv' /\ ToldInv' /\ ResumeInv'
  BY <1>1, QuietParts
<1>7. HistoryInv' /\ OutInv'
  BY <1>1, NoOut
<1>8. PhaseInv'
  BY <1>1, <1>3, QuietParts DEF WriterInv, PhaseInv, Accepted
<1>9. RequestInv'
  <2>1. UNCHANGED <<manifest, asked>>
    BY <1>1 DEF quiet
  <2>2. /\ Request' = Request /\ BatchMonths(Request)' = BatchMonths(Request)
        /\ \A m : InMonth(manifest, m)' = InMonth(manifest, m) /\ Batch(Request, m)' = Batch(Request, m)
        /\ \A m : Shown(Request, m)' <=> Shown(Request, m)
    BY <2>1 DEF Request, BatchMonths, Batch, InMonth, Shown, ShownRows
  <2>3. /\ left \cup done = BatchMonths(Request)
        /\ \A m \in done : Shown(Request, m)
        /\ \A m \in left \ {e.path.month} :
             \A c \in InMonth(manifest, m), r \in Batch(Request, m) : c.end < r.ts
    BY <1>1, <1>3 DEF WriterInv, RequestInv, Accepted
  <2>4. e.path.month \in BatchMonths(Request)
    BY <2>3 DEF WriterInv, OutInv
  <2>5. left' \cup done' = BatchMonths(Request)
    BY <1>2, <2>3, <2>4
  <2> QED
    BY <1>2, <1>3, <2>2, <2>3, <2>5 DEF RequestInv
<1>10. RecoverInv'
  BY <1>1 DEF RecoverInv
<1> QED
  BY <1>5, <1>6, <1>7, <1>8, <1>9, <1>10 DEF WriterInv

LEMMA RepairBeginInv ==
  ASSUME WriterInv, RepairBegin
  PROVE  WriterInv'
<1>1. /\ pc = "idle" /\ pc' = "recover" /\ UNCHANGED quiet /\ lock' = "write" /\ goal' = "open"
      /\ meta' = manifest /\ todo' = disk
      /\ UNCHANGED <<registered, marker, left, done, out, obsolete, asked, told, resumable>>
  BY DEF RepairBegin, quiet, durable, request, callers
<1>2. out = {} /\ done = {}
  BY <1>1 DEF WriterInv, OutInv, PhaseInv, Accepted
<1>3. TypeInv'
  BY <1>1 DEF WriterInv, TypeInv, quiet, Phases
<1>4. GoodDisk' /\ GoodEntries(manifest)' /\ SidesInv' /\ ToldInv' /\ ResumeInv'
  BY <1>1, QuietParts
<1>5. HistoryInv' /\ OutInv'
  BY <1>1, <1>2, NoOut
<1>6. PhaseInv'
  BY <1>1, <1>2, QuietParts DEF WriterInv, PhaseInv, Accepted
<1>7. RequestInv'
  BY <1>1 DEF RequestInv, Accepted
<1>8. RecoverInv'
  <2>1. disk' = disk /\ manifest' = manifest /\ kind' = kind
    BY <1>1 DEF quiet
  <2>2. GoodEntries(meta)'
    BY <1>1, <2>1 DEF WriterInv, GoodEntries
  <2>3. \A c \in manifest' : Settled(FileOf(c), meta)'
    BY <1>1, <2>1 DEF Settled
  <2> QED
    BY <1>1, <2>1, <2>2, <2>3 DEF RecoverInv
<1> QED
  BY <1>3, <1>4, <1>5, <1>6, <1>7, <1>8 DEF WriterInv

LEMMA RecoverCandidateInv ==
  ASSUME WriterInv, RecoverCandidate
  PROVE  WriterInv'
<1>1. /\ pc = "recover" /\ pc' = "recover" /\ UNCHANGED quiet
      /\ UNCHANGED <<registered, marker, lock, goal, left, done, out, obsolete, asked, told, resumable>>
  BY DEF RecoverCandidate, quiet, durable, request, callers
<1>2. PICK f \in todo : meta' = AdoptCandidate(meta, f) /\ todo' = todo \ {f}
  BY DEF RecoverCandidate
<1>3. UNCHANGED <<kind, disk>> /\ manifest' = manifest
  BY <1>1 DEF quiet
<1>4. out = {} /\ done = {} /\ f \in disk /\ f \in File
  BY <1>1 DEF WriterInv, OutInv, PhaseInv, Accepted, TypeInv
<1>5. /\ GoodEntries(meta) /\ \A c \in manifest : Settled(FileOf(c), meta)
      /\ \A g \in disk : Settled(g, meta) \/ g \in todo
      /\ \A c \in meta : c \in manifest \/ ~ Settled(FileOf(c), manifest)
  BY <1>1 DEF WriterInv, RecoverInv
<1>6. /\ meta' \in SUBSET ChunkEntry /\ GoodEntries(meta') /\ Settled(f, meta')
      /\ \A c \in meta : Settled(FileOf(c), meta')
      /\ \A c \in meta' : c \in manifest \/ ~ Settled(FileOf(c), manifest)
  <2>0. /\ kind \in Kinds /\ disk \subseteq File /\ GoodDisk /\ meta \in SUBSET ChunkEntry
        /\ manifest \in SUBSET ChunkEntry
    BY DEF WriterInv, TypeInv
  <2>1. CASE Settled(f, meta)
    <3>1. meta' = meta
      BY <1>2, <1>4, <1>5, <2>0, <2>1, AdoptSettled
    <3> QED
      BY <1>5, <2>0, <2>1, <3>1 DEF Settled
  <2>2. CASE ~ Settled(f, meta)
    <3>1. /\ meta' \in SUBSET ChunkEntry /\ GoodEntries(meta') /\ Settled(f, meta')
          /\ \A c \in meta : Settled(FileOf(c), meta')
          /\ \A c \in meta' : c \in meta \/ c = Scanned(f)
      BY <1>2, <1>4, <1>5, <2>0, <2>2, AdoptNew
    <3>2. ~ Settled(f, manifest)
      BY <1>4, <1>5, <2>0, <2>2, SettledStep
    <3>3. FileOf(Scanned(f)) = f
      BY <1>4, ScannedFile
    <3> QED
      BY <1>5, <3>1, <3>2, <3>3
  <2> QED
    BY <2>1, <2>2
<1>7. TypeInv'
  BY <1>1, <1>2, <1>6 DEF WriterInv, TypeInv, quiet, Phases
<1>8. GoodDisk' /\ GoodEntries(manifest)' /\ SidesInv' /\ ToldInv' /\ ResumeInv'
  BY <1>1, QuietParts
<1>9. HistoryInv' /\ OutInv'
  BY <1>1, <1>4, NoOut
<1>10. PhaseInv'
  BY <1>1, <1>4, QuietParts DEF WriterInv, PhaseInv, Accepted
<1>11. RequestInv'
  BY <1>1 DEF RequestInv, Accepted
<1>12. RecoverInv'
  <2>0. meta \in SUBSET ChunkEntry /\ manifest \in SUBSET ChunkEntry /\ disk \subseteq File
    BY DEF WriterInv, TypeInv
  <2>1. \A g \in disk : Settled(g, meta') \/ g \in todo'
    <3> SUFFICES ASSUME NEW g \in disk, g \notin todo'
                 PROVE  Settled(g, meta')
      OBVIOUS
    <3>1. CASE g = f
      BY <1>6, <3>1
    <3>2. CASE g # f
      <4>1. Settled(g, meta)
        BY <1>2, <1>5, <3>2
      <4> QED
        BY <1>6, <2>0, <4>1, SettledStep
    <3> QED
      BY <3>1, <3>2
  <2>2. ASSUME NEW c \in manifest
        PROVE  Settled(FileOf(c), meta')
    <3>1. FileOf(c) \in File /\ Settled(FileOf(c), meta)
      BY <1>5, <2>0, FileOfEntry
    <3> QED
      BY <1>6, <2>0, <3>1, SettledStep
  <2>3. GoodEntries(meta)'
    BY <1>3, <1>6 DEF GoodEntries
  <2>4. \A g : Settled(g, meta)' <=> Settled(g, meta')
    BY <1>3 DEF Settled, Within
  <2>5. \A g : Settled(g, manifest)' <=> Settled(g, manifest)
    BY <1>3 DEF Settled, Within
  <2> QED
    BY <1>3, <1>6, <2>1, <2>2, <2>3, <2>4, <2>5 DEF RecoverInv
<1> QED
  BY <1>7, <1>8, <1>9, <1>10, <1>11, <1>12 DEF WriterInv

LEMMA RecoverClearInv ==
  ASSUME WriterInv, RecoverClear
  PROVE  WriterInv'
<1>1. /\ pc = "recover_clear" /\ UNCHANGED quiet /\ marker' = FALSE
      /\ UNCHANGED <<registered, asked, told, resumable>>
  BY DEF RecoverClear, quiet, callers
<1>2. out = {} /\ done = {} /\ AllSettled(manifest) /\ lock = "write"
      /\ registered \in BOOLEAN
  BY <1>1 DEF WriterInv, OutInv, PhaseInv, Accepted, TypeInv
<1>3. CASE Return
  BY <1>1, <1>2, <1>3, ReturnStep
<1>4. CASE /\ goal = "write" /\ pc' = "check" /\ meta' = {}
           /\ UNCHANGED <<lock, goal, request, todo>>
  <2>0. UNCHANGED <<lock, goal, left, done, out, obsolete, todo>>
    BY <1>4 DEF request
  <2>1. TypeInv'
    BY <1>1, <1>2, <1>4, <2>0 DEF WriterInv, TypeInv, quiet, Phases
  <2>2. GoodDisk' /\ GoodEntries(manifest)' /\ SidesInv' /\ ToldInv' /\ ResumeInv'
    BY <1>1, QuietParts
  <2>3. HistoryInv' /\ OutInv'
    BY <1>1, <1>2, <1>4, <2>0, NoOut
  <2>4. PhaseInv'
    BY <1>1, <1>2, <1>4, <2>0, QuietParts DEF WriterInv, PhaseInv, Accepted
  <2>5. RequestInv' /\ RecoverInv'
    BY <1>4 DEF RequestInv, Accepted, RecoverInv
  <2> QED
    BY <2>1, <2>2, <2>3, <2>4, <2>5 DEF WriterInv
<1> QED
  BY <1>3, <1>4 DEF RecoverClear

LEMMA RangeBeginInv ==
  ASSUME WriterInv, NEW input \in Inputs, RangeBegin(input)
  PROVE  WriterInv'
<1> DEFINE S == {input[i] : i \in DOMAIN input}
<1>1. /\ pc = "idle" /\ asked' = Append(asked, S) /\ resumable' = {} /\ lock' = "write"
      /\ goal' = "write"
      /\ UNCHANGED <<kind, disk, index, manifest, sides, registered, marker>>
      /\ UNCHANGED <<left, done, out, obsolete, told>>
  BY DEF RangeBegin, durable, request
<1>2. \/ pc' = "recover" /\ meta' = manifest /\ todo' = disk
      \/ ~ marker /\ pc' = "check" /\ UNCHANGED <<meta, todo>>
  BY DEF RangeBegin, scan
<1>3. S \in SUBSET Ts /\ IsFiniteSet(S)
  <2>1. input \in Seq(Ts)
    BY RangeAssumption
  <2>2. S \in SUBSET Ts /\ DOMAIN input = 1..Len(input) /\ Len(input) \in Nat
    BY <2>1
  <2>3. IsFiniteSet(DOMAIN input)
    BY <2>2, FS_Interval
  <2>4. input \in Surjection(DOMAIN input, S)
    BY <2>1, <2>2 DEF Surjection
  <2> QED
    BY <2>2, <2>3, <2>4, FS_Surjection DEF ExistsSurjection
<1> HIDE DEF S
<1>4. /\ asked' \in Seq(SUBSET Ts) /\ Len(asked') = Len(asked) + 1 /\ Len(asked) \in Nat
      /\ asked'[Len(asked) + 1] = S
      /\ \A v \in 1..Len(asked) :
           /\ v \in 1..Len(asked') /\ asked'[v] = asked[v]
           /\ \A m : Batch(v, m)' = Batch(v, m)
           /\ BatchMonths(v)' = BatchMonths(v)
  BY <1>1, <1>3, AskedGrows DEF WriterInv, TypeInv
<1>5. ShownRows' = ShownRows
  BY <1>1 DEF ShownRows
<1>6. \A v \in 1..Len(asked) : \A m : Shown(v, m)' <=> Shown(v, m)
  BY <1>4, <1>5 DEF Shown
<1>7. UNCHANGED <<kind, disk>> /\ out = {} /\ done = {}
  BY <1>1 DEF WriterInv, OutInv, PhaseInv, Accepted
<1>8. TypeInv'
  BY <1>1, <1>2, <1>4 DEF WriterInv, TypeInv, Phases
<1>9. GoodDisk' /\ GoodEntries(manifest)' /\ SidesInv'
  BY <1>1, <1>7, SameDisk DEF WriterInv, SidesInv
<1>10. HistoryInv'
  <2>1. \A v \in 1..Len(asked') : IsFiniteSet(asked'[v])
    <3> SUFFICES ASSUME NEW v \in 1..Len(asked')
                 PROVE  IsFiniteSet(asked'[v])
      OBVIOUS
    <3>1. v \in 1..Len(asked) \/ v = Len(asked) + 1
      BY <1>4
    <3> QED
      BY <1>3, <1>4, <3>1 DEF WriterInv, HistoryInv
  <2>2. ASSUME NEW f \in disk
        PROVE  Whole(f.rows)' /\ Ordered(f.rows)'
    <3>1. Whole(f.rows) /\ Ordered(f.rows)
      BY DEF WriterInv, HistoryInv
    <3> QED
      BY <1>4, <1>6, <3>1 DEF Whole, Ordered
  <2> QED
    BY <1>1, <1>7, <2>1, <2>2 DEF HistoryInv
<1>11. OutInv'
  BY <1>1, <1>2, <1>7 DEF OutInv
<1>12. PhaseInv'
  <2>1. ~ marker => AllSettled(manifest)'
    BY <1>1, <1>7, SameDisk DEF WriterInv, PhaseInv
  <2> QED
    BY <1>1, <1>2, <1>4, <1>7, <2>1 DEF PhaseInv, Accepted
<1>13. RequestInv' /\ ResumeInv'
  BY <1>1, <1>2 DEF RequestInv, ResumeInv, Accepted
<1>14. ToldInv'
  BY <1>1, <1>4, <1>6 DEF WriterInv, ToldInv
<1>15. RecoverInv'
  <2>1. CASE pc' = "recover" /\ meta' = manifest /\ todo' = disk
    <3>1. GoodEntries(meta)'
      BY <1>1, <2>1 DEF WriterInv, GoodEntries
    <3>2. \A c \in manifest' : Settled(FileOf(c), meta)'
      BY <1>1, <2>1 DEF Settled
    <3> QED
      BY <1>1, <2>1, <3>1, <3>2 DEF RecoverInv
  <2>2. CASE pc' = "check"
    BY <2>2 DEF RecoverInv
  <2> QED
    BY <1>2, <2>1, <2>2
<1> QED
  BY <1>8, <1>9, <1>10, <1>11, <1>12, <1>13, <1>14, <1>15 DEF WriterInv

\* The rows of the next chunk of month m.
LEMMA MonthRows ==
  ASSUME WriterInv, pc = "month", NEW m \in left, \A n \in left : m <= n
  PROVE  LET rows == ChunkRows(m, InMonth(manifest, m), Batch(Request, m))
         IN  /\ rows \subseteq Row /\ IsFiniteSet(rows) /\ Whole(rows) /\ Ordered(rows)
             /\ \A r \in rows : MonthOf[r.ts] = m
             /\ Batch(Request, m) \subseteq rows
             /\ kind = "scalar" => \A c \in InMonth(manifest, m) : c.rows \subseteq rows
             /\ kind = "kline" => rows = Batch(Request, m)
<1> DEFINE B == Batch(Request, m)
           old == RowsOf(InMonth(manifest, m))
<1>1. /\ manifest \in SUBSET ChunkEntry /\ asked \in Seq(SUBSET Ts) /\ disk \subseteq File /\ GoodDisk
      /\ GoodEntries(manifest) /\ kind \in Kinds /\ left \subseteq Months
  BY DEF WriterInv, TypeInv
<1>2. Request = Len(asked) /\ Len(asked) \in Nat /\ Request \in 1..Len(asked)
  BY <1>1 DEF WriterInv, PhaseInv, Accepted, Request
<1>3. \A r \in B : r \in Row /\ r.ver = Request /\ r.ts \in asked[Request] /\ MonthOf[r.ts] = m
  BY <1>1, <1>2, BatchRows
<1>4. IsFiniteSet(B)
  BY <1>1, <1>2, BatchFinite DEF WriterInv, HistoryInv
<1>5. Whole(B)
  BY <1>2, <1>3 DEF Whole
<1>6. Ordered(B)
  <2> SUFFICES ASSUME NEW n \in BatchMonths(Request), n < m
               PROVE  Shown(Request, n)
    BY <1>3 DEF Ordered
  <2>1. n \in Months /\ m \in Months /\ n \in Int /\ m \in Int
    BY <1>1, <1>2, BatchRows, RangeAssumption
  <2>2. n \notin left
    BY <2>1
  <2> QED
    BY <2>2 DEF WriterInv, RequestInv, Accepted
<1>7. \A c \in InMonth(manifest, m) : /\ c \in ChunkEntry /\ c \in manifest /\ c.path.month = m
                                      /\ GoodChunk(c) /\ IsFiniteSet(c.rows)
  BY <1>1, EntryIsGood DEF InMonth, GoodChunk
<1>8. old \subseteq Row /\ \A r \in old : MonthOf[r.ts] = m
  <2> SUFFICES ASSUME NEW c \in InMonth(manifest, m), NEW r \in c.rows
               PROVE  r \in Row /\ MonthOf[r.ts] = m
    BY DEF RowsOf
  <2> QED
    BY <1>7, Numbers, RowMonth
<1>9. IsFiniteSet(old)
  <2> DEFINE T == {c.rows : c \in InMonth(manifest, m)}
             image == [c \in InMonth(manifest, m) |-> c.rows]
  <2>1. IsFiniteSet(InMonth(manifest, m))
    BY FS_Subset, <1>1 DEF GoodEntries, InMonth
  <2>2. image \in Surjection(InMonth(manifest, m), T)
    BY DEF Surjection
  <2>3. IsFiniteSet(T)
    BY <2>1, <2>2, FS_Surjection DEF ExistsSurjection
  <2>4. \A t \in T : IsFiniteSet(t)
    BY <1>7
  <2> QED
    BY <2>3, <2>4, FS_UNION DEF RowsOf
<1>10. Whole(old) /\ Ordered(old)
  BY ShownRowsWhole
<1>11. ChunkRows(m, InMonth(manifest, m), B) = IF kind = "kline" THEN B ELSE old \cup B
  BY <1>1, AllReadable DEF ChunkRows
<1>12. \A c \in InMonth(manifest, m) : c.rows \subseteq old
  BY DEF RowsOf
<1>13. CASE kind = "kline"
  BY <1>3, <1>4, <1>5, <1>6, <1>11, <1>13
<1>14. CASE kind = "scalar"
  <2>1. ChunkRows(m, InMonth(manifest, m), B) = old \cup B
    BY <1>11, <1>14
  <2>2. IsFiniteSet(old \cup B)
    BY <1>4, <1>9, FS_Union
  <2>3. Whole(old \cup B) /\ Ordered(old \cup B)
    BY <1>5, <1>6, <1>10, WholeCup
  <2> QED
    BY <1>3, <1>8, <1>12, <1>14, <2>1, <2>2, <2>3
<1> QED
  BY <1>1, <1>13, <1>14 DEF Kinds

LEMMA MonthBeginInv ==
  ASSUME WriterInv, MonthBegin
  PROVE  WriterInv'
<1>1. /\ pc = "month" /\ pc' = "chunk" /\ UNCHANGED quiet /\ marker' = TRUE
      /\ UNCHANGED <<registered, lock, goal, left, done, obsolete, meta, todo, asked, told, resumable>>
  BY DEF MonthBegin, quiet, scan, callers
<1> DEFINE old(m) == InMonth(manifest, m)
           new(m) == ChunkRows(m, old(m), Batch(Request, m))
           chunk(m, g, i, lo, hi) ==
             [path |-> NextPath(m, old(m), g), id |-> i, gen |-> g, start |-> lo.ts, end |-> hi.ts,
              rows |-> new(m), state |-> IF kind = "kline" /\ old(m) # {} THEN "Active" ELSE "Sealed"]
<1>2. PICK m \in left :
        /\ \A n \in left : m <= n
        /\ \E g \in NextGeneration(old(m)), i \in NextChunkId(manifest), lo, hi \in new(m) :
             /\ \A r \in new(m) : lo.ts <= r.ts /\ r.ts <= hi.ts
             /\ out' = {chunk(m, g, i, lo, hi)}
  BY DEF MonthBegin
<1>3. PICK g \in NextGeneration(old(m)), i \in NextChunkId(manifest), lo \in new(m), hi \in new(m) :
             /\ \A r \in new(m) : lo.ts <= r.ts /\ r.ts <= hi.ts
             /\ out' = {chunk(m, g, i, lo, hi)}
  BY <1>2
<1> DEFINE rows == new(m)
           made == chunk(m, g, i, lo, hi)
<1>4. /\ rows \subseteq Row /\ IsFiniteSet(rows) /\ Whole(rows) /\ Ordered(rows)
      /\ \A r \in rows : MonthOf[r.ts] = m
      /\ Batch(Request, m) \subseteq rows
      /\ kind = "scalar" => \A c \in old(m) : c.rows \subseteq rows
      /\ kind = "kline" => rows = Batch(Request, m)
  BY <1>1, <1>2, MonthRows
<1>5. /\ manifest \in SUBSET ChunkEntry /\ disk \subseteq File /\ GoodDisk /\ GoodEntries(manifest)
      /\ kind \in Kinds /\ m \in Months /\ AllSettled(manifest) /\ lock = "write" /\ Len(asked) >= 1
  BY <1>1 DEF WriterInv, TypeInv, PhaseInv, Accepted
<1>6. /\ made.path \in Path /\ made.path.month = m /\ made.path.gen <= g /\ g \in Nat
      /\ made.path.kind = "base" => old(m) = {}
      /\ made.path.kind # "base" => made.path.gen = g
      /\ \A c \in old(m) : c.gen < g
  BY <1>5, NextPathIs
<1>7. i \in Nat /\ \A c \in manifest : c.id < i
  BY <1>5, NextIsNew
<1>8. /\ made.id = i /\ made.gen = g /\ made.start = lo.ts /\ made.end = hi.ts /\ made.rows = rows /\ out' = {made}
      /\ lo \in rows /\ hi \in rows /\ \A r \in rows : lo.ts <= r.ts /\ r.ts <= hi.ts
  BY <1>3
<1>9. made \in ChunkEntry
  <2>1. lo.ts \in Ts /\ hi.ts \in Ts /\ rows \in SUBSET Row
    BY <1>4, <1>8 DEF Row
  <2>2. (IF kind = "kline" /\ old(m) # {} THEN "Active" ELSE "Sealed") \in {"Active", "Sealed"}
    OBVIOUS
  <2> HIDE DEF old, new
  <2> QED
    BY <1>6, <1>7, <2>1, <2>2 DEF ChunkEntry
<1> HIDE DEF made, rows, chunk, old, new
<1>10. PICK e \in ChunkEntry : e = made
  BY <1>9
<1>11. /\ e.path \in Path /\ e.path.month = m /\ e.path.gen <= g /\ g \in Nat
       /\ e.path.kind = "base" => old(m) = {}
       /\ e.path.kind # "base" => e.path.gen = g
       /\ e.id = i /\ e.gen = g /\ e.start = lo.ts /\ e.end = hi.ts /\ e.rows = rows /\ out' = {e}
       /\ Whole(e.rows) /\ Ordered(e.rows)
  BY <1>4, <1>6, <1>8, <1>10
<1>12. GoodChunk(e)
  <2>1. \E a, b \in e.rows : e.start = a.ts /\ e.end = b.ts
    BY <1>8, <1>11
  <2>2. MonthOf[e.start] = m /\ MonthOf[e.end] = m
    BY <1>4, <1>8, <1>11
  <2> QED
    BY <1>4, <1>6, <1>8, <1>11, <2>1, <2>2 DEF GoodChunk
<1>13. \A c \in old(m) : c \in ChunkEntry /\ c \in manifest /\ c.path.month = m /\ GoodChunk(c)
  BY <1>5, EntryIsGood DEF old, InMonth
<1>14. \A c \in manifest : c.id < e.id /\ c.path # e.path
  <2> SUFFICES ASSUME NEW c \in manifest, c.path = e.path
               PROVE  FALSE
    BY <1>7, <1>8, <1>11
  <2>1. c \in old(m)
    BY <1>6, <1>11 DEF old, InMonth
  <2>2. e.path.kind # "base" /\ c.path.gen = g /\ c.gen < g /\ c.gen = c.path.gen
    BY <1>6, <1>13, <1>11, <2>1 DEF GoodChunk
  <2> QED
    BY <1>6, <2>2
<1>15. ASSUME NEW c \in old(m)
       PROVE  Older(c, e)
  <2>1. c.path.month = e.path.month /\ c.gen < e.gen
    BY <1>6, <1>8, <1>11, <1>13
  <2>2. CASE kind = "scalar"
    <3>1. c.rows \subseteq e.rows
      BY <1>4, <1>8, <1>11, <2>2
    <3>2. PICK a \in c.rows, b \in c.rows : c.start = a.ts /\ c.end = b.ts
      BY <1>13 DEF GoodChunk
    <3>3. e.start <= c.start /\ c.end <= e.end
      BY <1>8, <1>11, <3>1, <3>2
    <3> QED
      BY <2>1, <2>2, <3>1, <3>3 DEF Older, Within
  <2>3. CASE kind = "kline"
    <3>1. lo \in Batch(Request, m)
      BY <1>4, <1>8, <1>11, <2>3
    <3>2. c.end < lo.ts
      BY <1>1, <3>1 DEF WriterInv, RequestInv, Accepted, old
    <3> QED
      BY <1>8, <1>11, <2>1, <2>3, <3>2 DEF Older, Before
  <2> QED
    BY <1>5, <2>2, <2>3 DEF Kinds
<1>16. TypeInv'
  BY <1>1, <1>8, <1>11, <1>9 DEF WriterInv, TypeInv, quiet, Phases, Accepted
<1>17. GoodDisk' /\ GoodEntries(manifest)' /\ SidesInv' /\ ToldInv' /\ ResumeInv'
  BY <1>1, QuietParts
<1>18. UNCHANGED <<manifest, asked>> /\ kind' = kind
  BY <1>1 DEF quiet
<1>19. HistoryInv'
  <2>1. Whole(e.rows)' /\ Ordered(e.rows)'
    BY <1>18, <1>11, SameRows
  <2> QED
    BY <1>1, <1>8, <1>11, <2>1, QuietParts DEF HistoryInv
<1>20. OutInv'
  <2>1. Batch(Request, m)' = Batch(Request, m)
    BY <1>18 DEF Batch, Request
  <2>2. \A c : Older(c, e)' <=> Older(c, e)
    BY <1>18, SameOrder
  <2>3. InMonth(manifest, m)' = old(m)
    BY <1>18 DEF old
  <2> QED
    BY <1>1, <1>2, <1>4, <1>6, <1>8, <1>11, <1>12, <1>14, <1>15, <1>18, <2>1, <2>2, <2>3 DEF OutInv
<1>21. PhaseInv'
  BY <1>1, <1>5, QuietParts DEF WriterInv, PhaseInv, Accepted
<1>22. RequestInv'
  BY <1>1, SameRequest DEF Accepted, quiet
<1>23. RecoverInv'
  BY <1>1 DEF RecoverInv
<1> QED
  BY <1>16, <1>17, <1>19, <1>20, <1>21, <1>22, <1>23 DEF WriterInv

LEMMA WriteChunkInv ==
  ASSUME WriterInv, WriteChunk
  PROVE  WriterInv'
<1>1. pc = "chunk" /\ UNCHANGED <<kind, asked, resumable>>
  BY DEF WriteChunk
<1>2. PICK e \in out :
       \/ /\ e.path \notin Paths(disk)
          /\ disk' = disk \cup {FileOf(e)}
          /\ pc' = IF kind = "scalar" THEN "sidecar" ELSE "manifest"
          /\ UNCHANGED <<index, manifest, sides, registered, marker, lock, goal, request,
                         scan, told>>
       \/ /\ e.path \in Paths(disk)
          /\ told' = told \cup {<<Request, m>> : m \in done}
          /\ Return
          /\ UNCHANGED durable
  BY DEF WriteChunk
<1>3. CASE /\ told' = told \cup {<<Request, m>> : m \in done}
           /\ Return
           /\ UNCHANGED durable
  <2>1. UNCHANGED quiet /\ UNCHANGED <<registered, marker>>
    BY <1>1, <1>3 DEF quiet, durable
  <2>2. registered \in BOOLEAN /\ marker \in BOOLEAN /\ (~ marker => AllSettled(manifest))
    BY DEF WriterInv, TypeInv, PhaseInv
  <2> QED
    BY <1>1, <1>3, <2>1, <2>2, ReturnStep
<1>4. CASE /\ e.path \notin Paths(disk)
           /\ disk' = disk \cup {FileOf(e)}
           /\ pc' = IF kind = "scalar" THEN "sidecar" ELSE "manifest"
           /\ UNCHANGED <<index, manifest, sides, registered, marker, lock, goal, request,
                          scan, told>>
  <2>1. /\ UNCHANGED <<index, manifest, sides, registered, marker, lock, goal, told>>
        /\ UNCHANGED <<left, done, out, obsolete, meta, todo>>
    BY <1>4 DEF request, scan
  <2>2. /\ manifest \in SUBSET ChunkEntry /\ disk \subseteq File /\ kind \in Kinds
        /\ GoodDisk /\ GoodEntries(manifest) /\ AllSettled(manifest) /\ lock = "write" /\ marker
    BY <1>1 DEF WriterInv, TypeInv, PhaseInv
  <2>3. /\ e \in ChunkEntry /\ out = {e} /\ GoodChunk(e)
        /\ \A c \in InMonth(manifest, e.path.month) : Older(c, e)
        /\ Batch(Request, e.path.month) \subseteq e.rows
    BY <1>1 DEF WriterInv, TypeInv, OutInv
  <2>4. /\ FileOf(e) \in File /\ FileOf(e).path = e.path /\ FileOf(e).rows = e.rows
        /\ GoodChunk(FileOf(e))
    BY <2>3, FileOfEntry, GoodFileOf
  <2>5. TypeInv'
    BY <1>1, <1>4, <2>1, <2>4 DEF WriterInv, TypeInv, Phases, Accepted
  <2>6. ASSUME NEW f \in disk, f.path.month = e.path.month
        PROVE  Older(f, FileOf(e))
    <3>1. PICK c \in manifest : FileOf(c) = f \/ (kind = "scalar" /\ Within(f, c))
      BY <2>2 DEF AllSettled, Settled
    <3>2. c \in ChunkEntry /\ c.path.month = e.path.month /\ f \in File
      BY <2>2, <2>6, <3>1, FileOfEntry DEF Within
    <3>3. Older(c, e)
      BY <2>3, <3>2 DEF InMonth
    <3>4. CASE FileOf(c) = f
      BY <2>3, <3>2, <3>3, <3>4, OlderFiles
    <3>5. CASE kind = "scalar" /\ Within(f, c)
      <4>1. Within(c, e)
        BY <3>3, <3>5 DEF Older
      <4>2. Within(f, e)
        BY <2>3, <3>2, <3>5, <4>1, WithinTransitive
      <4> QED
        BY <2>3, <3>5, <4>2, WithinFiles DEF Older
    <3> QED
      BY <3>1, <3>4, <3>5
  <2>7. \A c, d : Older(c, d)' <=> Older(c, d)
    BY <1>1, SameOrder
  <2>8. GoodDisk'
    <3>1. \A f \in disk' : GoodChunk(f)
      BY <1>4, <2>2, <2>4 DEF GoodDisk
    <3>2. \A f, g \in disk' : f.path = g.path => f = g
      BY <1>4, <2>2, <2>4 DEF GoodDisk, Paths
    <3>3. \A f, g \in disk' : f.path.month = g.path.month => f = g \/ Older(f, g) \/ Older(g, f)
      BY <1>4, <2>2, <2>4, <2>6 DEF GoodDisk
    <3> QED
      BY <2>7, <3>1, <3>2, <3>3 DEF GoodDisk
  <2>9. GoodEntries(manifest)'
    BY <1>1, <1>4, <2>1, <2>2 DEF GoodEntries
  <2>10. UNCHANGED <<manifest, asked>>
    BY <1>1, <2>1
  <2>11. HistoryInv'
    <3>1. \A f \in disk' : Whole(f.rows) /\ Ordered(f.rows)
      BY <1>4, <2>3, <2>4 DEF WriterInv, HistoryInv
    <3>2. \A d \in out' : Whole(d.rows) /\ Ordered(d.rows)
      BY <2>1 DEF WriterInv, HistoryInv
    <3> QED
      BY <1>1, <2>10, <3>1, <3>2, SameRows DEF WriterInv, HistoryInv
  <2>12. \A f, C : Settled(f, C)' <=> Settled(f, C)
    BY <1>1 DEF Settled, Within, FileOf
  <2>13. \A f \in disk' : Settled(f, manifest)' \/ f = FileOf(e)
    BY <1>4, <2>1, <2>2, <2>12 DEF AllSettled
  <2>14. OutInv'
    <3>1. Request' = Request /\ \A m : Batch(Request, m)' = Batch(Request, m)
      BY <1>1 DEF Request, Batch
    <3>2. \A m : InMonth(manifest, m)' = InMonth(manifest, m)
      BY <2>1
    <3>3. pc' \in {"sidecar", "manifest"} /\ (pc' = "sidecar" <=> kind = "scalar") /\ kind' = kind
      BY <1>1, <1>4
    <3>4. /\ \A c \in manifest : c.id < e.id /\ c.path # e.path
          /\ e.path.kind = "base" => InMonth(manifest, e.path.month) = {}
          /\ e.path.month \in left
      BY <1>1, <2>3 DEF WriterInv, OutInv
    <3>5. out' = {e} /\ FileOf(e) \in disk'
      BY <1>4, <2>1, <2>3
    <3> QED
      BY <2>1, <2>3, <2>7, <2>13, <3>1, <3>2, <3>3, <3>4, <3>5 DEF OutInv
  <2>15. PhaseInv'
    BY <1>1, <1>4, <2>1, <2>2 DEF WriterInv, PhaseInv, Accepted
  <2>16. RequestInv'
    BY <1>1, <1>4, <2>1, <2>10, SameRequest DEF Accepted
  <2>17. ToldInv'
    BY <1>1, <2>1, <2>10, SameRows DEF WriterInv, ToldInv
  <2>18. ResumeInv'
    <3> SUFFICES ASSUME NEW v \in resumable'
                 PROVE  /\ v = Len(asked') /\ v >= 1
                        /\ \A m \in Remainder(v)' :
                             \A c \in InMonth(manifest', m), r \in Batch(v, m)' : c.end < r.ts
                        /\ \A f \in disk' : Settled(f, manifest)' \/ Batch(v, f.path.month)' \subseteq f.rows
      BY DEF ResumeInv
    <3>1. /\ v \in resumable /\ Remainder(v)' = Remainder(v) /\ \A m : Batch(v, m)' = Batch(v, m)
      BY <1>1, <2>10, SameRows
    <3>2. /\ v = Len(asked') /\ v >= 1 /\ v = Request
          /\ \A m \in Remainder(v)' :
               \A c \in InMonth(manifest', m), r \in Batch(v, m)' : c.end < r.ts
      BY <2>10, <3>1 DEF WriterInv, ResumeInv, Request
    <3>3. Batch(v, FileOf(e).path.month) \subseteq FileOf(e).rows
      BY <2>3, <2>4, <3>2
    <3> QED
      BY <2>13, <3>1, <3>2, <3>3
  <2>19. RecoverInv' /\ SidesInv'
    BY <1>4, <2>1 DEF RecoverInv, WriterInv, SidesInv
  <2> QED
    BY <2>5, <2>8, <2>9, <2>11, <2>14, <2>15, <2>16, <2>17, <2>18, <2>19 DEF WriterInv
<1> QED
  BY <1>2, <1>3, <1>4

LEMMA WriteSidecarInv ==
  ASSUME WriterInv, WriteSidecar
  PROVE  WriterInv'
<1>1. /\ pc = "sidecar" /\ pc' = "manifest"
      /\ UNCHANGED <<kind, disk, manifest, sides, registered, marker, lock, goal>>
      /\ UNCHANGED <<left, done, out, obsolete, meta, todo, asked, told, resumable>>
  BY DEF WriteSidecar, request, scan, callers
<1>2. PICK e \in out : index' = {x \in index : x.path # e.path} \cup {[path |-> e.path, rows |-> e.rows]}
  BY DEF WriteSidecar
<1>3. e \in ChunkEntry /\ out = {e} /\ e.path \in Path /\ e.rows \in SUBSET Row
  BY Numbers DEF WriterInv, TypeInv, OutInv
<1>4. TypeInv'
  <2>1. [path |-> e.path, rows |-> e.rows] \in Sidecar
    BY <1>3 DEF Sidecar
  <2> QED
    BY <1>1, <1>2, <2>1 DEF WriterInv, TypeInv, Phases, Accepted
<1>5. UNCHANGED <<kind, disk>> /\ UNCHANGED <<manifest, asked>>
  BY <1>1
<1>6. GoodDisk' /\ GoodEntries(manifest)'
  BY <1>5, SameDisk DEF WriterInv
<1>7. HistoryInv'
  BY <1>1, <1>5, SameRows DEF WriterInv, HistoryInv
<1>8. e.path \in Paths(index') /\ Paths(index) \subseteq Paths(index')
  <2> DEFINE side == [path |-> e.path, rows |-> e.rows]
  <2>1. side \in index' /\ side.path = e.path
    BY <1>2
  <2> HIDE DEF side
  <2>2. \A x \in index : x.path = e.path \/ x \in index'
    BY <1>2
  <2> QED
    BY <2>1, <2>2 DEF Paths
<1>9. OutInv'
  <2>1. Request' = Request /\ \A m : Batch(Request, m)' = Batch(Request, m)
    BY <1>1 DEF Request, Batch
  <2>2. \A m : InMonth(manifest, m)' = InMonth(manifest, m)
    BY <1>1
  <2>3. \A c, d : Older(c, d)' <=> Older(c, d)
    BY <1>1, SameOrder
  <2>4. \A f, C : Settled(f, C)' <=> Settled(f, C)
    BY <1>5, SameDisk
  <2> QED
    BY <1>1, <1>3, <1>8, <2>1, <2>2, <2>3, <2>4 DEF WriterInv, OutInv
<1>10. PhaseInv'
  BY <1>1 DEF WriterInv, PhaseInv, Accepted
<1>11. RequestInv'
  BY <1>1, <1>5, SameRequest DEF Accepted
<1>12. ToldInv' /\ ResumeInv'
  BY <1>1, <1>5, SameRows, SameDisk DEF WriterInv, ToldInv, ResumeInv
<1>13. RecoverInv' /\ SidesInv'
  BY <1>1, <1>8 DEF RecoverInv, WriterInv, SidesInv
<1> QED
  BY <1>4, <1>6, <1>7, <1>9, <1>10, <1>11, <1>12, <1>13 DEF WriterInv

\* A manifest in which all of the last one is settled shows no less.
LEMMA ManifestGrows ==
  ASSUME manifest \in SUBSET ChunkEntry, manifest' \in SUBSET ChunkEntry,
         \A c \in manifest : Settled(FileOf(c), manifest'), UNCHANGED <<kind, asked>>
  PROVE  /\ ShownRows' = RowsOf(manifest') /\ ShownRows \subseteq ShownRows'
         /\ \A v, m : Batch(v, m)' = Batch(v, m) /\ (Shown(v, m) => Shown(v, m)')
         /\ \A v : BatchMonths(v)' = BatchMonths(v) /\ Remainder(v)' \subseteq Remainder(v)
         /\ \A R : (Whole(R) => Whole(R)') /\ (Ordered(R) => Ordered(R)')
         /\ \A p \in Path : Superseded(p) => Superseded(p)'
         /\ told' = told /\ ToldInv => ToldInv'
         /\ \A f \in File : Settled(f, manifest) => Settled(f, manifest')
         /\ \A f, C : Settled(f, C)' <=> Settled(f, C)
<1>1. ShownRows' = RowsOf(manifest') /\ ShownRows = RowsOf(manifest)
  BY AllReadable DEF ShownRows
<1>2. ShownRows \subseteq ShownRows'
  BY <1>1, SettledRows
<1>3. \A v, m : Batch(v, m)' = Batch(v, m)
  BY DEF Batch
<1>4. \A v, m : Shown(v, m) => Shown(v, m)'
  BY <1>2, <1>3 DEF Shown
<1>5. \A v : BatchMonths(v)' = BatchMonths(v)
  BY DEF BatchMonths
<1>6. \A v : Remainder(v)' \subseteq Remainder(v)
  BY <1>4, <1>5 DEF Remainder
<1>7. \A R : (Whole(R) => Whole(R)') /\ (Ordered(R) => Ordered(R)')
  BY <1>3, <1>4, <1>5 DEF Whole, Ordered
<1>8. ASSUME NEW p \in Path, Superseded(p)
      PROVE  Superseded(p)'
  <2>1. PICK c \in manifest : c.path.month = p.month /\ p.gen < c.gen
    BY <1>8 DEF Superseded
  <2>2. FileOf(c) \in File /\ FileOf(c).path = c.path /\ FileOf(c).gen = c.gen
    BY FileOfEntry
  <2>3. PICK d \in manifest' : d.path.month = c.path.month /\ c.gen <= d.gen
    <3>1. Settled(FileOf(c), manifest')
      OBVIOUS
    <3>2. \E d \in manifest' : /\ d.path.month = FileOf(c).path.month /\ FileOf(c).gen <= d.gen
                             /\ FileOf(c).rows \subseteq d.rows
      BY <2>2, <3>1, SettledEntry
    <3> QED
      BY <2>2, <3>2
  <2>4. p.gen \in Nat /\ c.gen \in Nat /\ d.gen \in Nat
    BY Numbers DEF Path
  <2> QED
    BY <2>1, <2>3, <2>4 DEF Superseded
<1>9. told' = told /\ ToldInv => ToldInv'
  BY <1>4 DEF ToldInv
<1>10. \A f \in File : Settled(f, manifest) => Settled(f, manifest')
  BY SettledStep
<1>11. \A f, C : Settled(f, C)' <=> Settled(f, C)
  BY DEF Settled, Within, FileOf
<1> QED
  BY <1>1, <1>2, <1>3, <1>4, <1>5, <1>6, <1>7, <1>8, <1>9, <1>10, <1>11

LEMMA SaveManifestInv ==
  ASSUME WriterInv, SaveManifest
  PROVE  WriterInv'
<1>1. /\ pc = "manifest" /\ pc' = (IF kind = "kline" THEN "commit" ELSE "cleanup")
      /\ UNCHANGED <<kind, disk, index, registered, marker, lock, goal, left, done, out>>
      /\ UNCHANGED <<meta, todo, asked, told, resumable>>
  BY DEF SaveManifest, scan, callers
<1> DEFINE removed(d) == IF kind = "kline" THEN {} ELSE InMonth(manifest, d.path.month)
<1>2. PICK e \in out :
        /\ manifest' = IF removed(e) = {} THEN UpsertChunk(manifest, e)
                       ELSE ReplaceMonth(manifest, e.path.month, e)
        /\ sides' = IF kind = "kline" THEN sides ELSE (sides \ Paths(removed(e))) \cup {e.path}
        /\ obsolete' = removed(e)
  BY DEF SaveManifest
<1>3. /\ manifest \in SUBSET ChunkEntry /\ disk \subseteq File /\ kind \in Kinds
      /\ GoodDisk /\ GoodEntries(manifest) /\ lock = "write" /\ Len(asked) >= 1
  BY <1>1 DEF WriterInv, TypeInv, PhaseInv, Accepted
<1>4. /\ e \in ChunkEntry /\ out = {e} /\ GoodChunk(e) /\ e.path.month \in left
      /\ \A c \in manifest : c.id < e.id /\ c.path # e.path
      /\ \A c \in InMonth(manifest, e.path.month) : Older(c, e)
      /\ Batch(Request, e.path.month) \subseteq e.rows
      /\ FileOf(e) \in disk
      /\ \A f \in disk : Settled(f, manifest) \/ f = FileOf(e)
      /\ kind = "scalar" => e.path \in Paths(index)
  BY <1>1 DEF WriterInv, TypeInv, OutInv
<1>5. manifest' = (manifest \ removed(e)) \cup {e}
  <2>1. \A c \in manifest : c.id # e.id
    <3> SUFFICES ASSUME NEW c \in manifest, c.id = e.id
                 PROVE  FALSE
      OBVIOUS
    <3>1. c.id < e.id /\ e.id \in Int
      BY <1>4 DEF ChunkEntry
    <3> QED
      BY <3>1
  <2>2. UpsertChunk(manifest, e) = manifest \cup {e}
    BY <2>1 DEF UpsertChunk
  <2>3. CASE removed(e) = {}
    BY <1>2, <2>2, <2>3
  <2>4. CASE removed(e) # {}
    <3>1. removed(e) = InMonth(manifest, e.path.month)
      BY <2>4
    <3> QED
      BY <1>2, <2>4, <3>1 DEF ReplaceMonth
  <2> QED
    BY <2>3, <2>4
<1>6. ASSUME NEW c \in removed(e)
      PROVE  /\ kind = "scalar" /\ c \in manifest /\ c.path.month = e.path.month /\ Within(c, e)
             /\ c \in ChunkEntry
  BY <1>3, <1>4 DEF Kinds, InMonth, Older
<1>7. kind = "scalar" => \A c \in manifest : c.path.month = e.path.month => c \in removed(e)
  BY DEF InMonth
<1>8. obsolete' = removed(e) /\ removed(e) \subseteq manifest
  BY <1>2, <1>6
<1>9. sides' \subseteq sides \cup {e.path} /\ (kind = "kline" => sides' = sides)
      /\ (kind = "scalar" => sides' = (sides \ Paths(removed(e))) \cup {e.path})
  BY <1>2
<1>10. PICK gone : gone = removed(e)
  OBVIOUS
<1> HIDE DEF removed
<1>11. manifest' \in SUBSET ChunkEntry
  BY <1>3, <1>4, <1>5
<1>12. ASSUME NEW c \in manifest
       PROVE  Settled(FileOf(c), manifest')
  <2>1. CASE c \in removed(e)
    <3>1. Within(FileOf(c), e) /\ kind = "scalar" /\ e \in manifest'
      BY <1>5, <1>6, <2>1, WithinFiles
    <3> QED
      BY <3>1 DEF Settled
  <2>2. CASE c \notin removed(e)
    BY <1>5, <2>2 DEF Settled
  <2> QED
    BY <2>1, <2>2
<1>13. /\ ShownRows' = RowsOf(manifest') /\ ShownRows \subseteq ShownRows'
       /\ \A v, m : Batch(v, m)' = Batch(v, m) /\ (Shown(v, m) => Shown(v, m)')
       /\ \A v : BatchMonths(v)' = BatchMonths(v) /\ Remainder(v)' \subseteq Remainder(v)
       /\ \A R : (Whole(R) => Whole(R)') /\ (Ordered(R) => Ordered(R)')
       /\ ToldInv'
       /\ \A f \in File : Settled(f, manifest) => Settled(f, manifest')
       /\ \A f, C : Settled(f, C)' <=> Settled(f, C)
  BY <1>1, <1>3, <1>11, <1>12, ManifestGrows DEF WriterInv
<1>14. TypeInv'
  BY <1>1, <1>3, <1>8, <1>11 DEF WriterInv, TypeInv, Phases, Accepted
<1>15. UNCHANGED <<kind, disk>>
  BY <1>1
<1>16. GoodDisk'
  BY <1>15, SameDisk DEF WriterInv
<1>17. GoodEntries(manifest)'
  <2>1. \A c \in manifest' : FileOf(c) \in disk
    BY <1>3, <1>4, <1>5 DEF GoodEntries
  <2>2. \A c, d \in manifest' : c.path = d.path => c = d
    BY <1>3, <1>4, <1>5 DEF GoodEntries
  <2>3. kind = "scalar" => \A c, d \in manifest' : c.path.month = d.path.month => c = d
    BY <1>3, <1>5, <1>7 DEF GoodEntries
  <2>4. IsFiniteSet(manifest')
    BY <1>3, <1>5, FS_Difference, FS_AddElement DEF GoodEntries
  <2> QED
    BY <1>1, <2>1, <2>2, <2>3, <2>4 DEF GoodEntries
<1>18. AllSettled(manifest)'
  <2>1. ASSUME NEW f \in disk
        PROVE  Settled(f, manifest')
    <3>1. CASE Settled(f, manifest)
      BY <1>3, <1>13, <3>1
    <3>2. CASE f = FileOf(e)
      BY <1>5, <3>2 DEF Settled
    <3> QED
      BY <1>4, <3>1, <3>2
  <2> QED
    BY <1>1, <2>1, <1>13 DEF AllSettled
<1>19. HistoryInv'
  BY <1>1, <1>13 DEF WriterInv, HistoryInv
<1>20. Request' = Request /\ Shown(Request, e.path.month)'
  <2>1. e.rows \subseteq RowsOf(manifest')
    BY <1>5 DEF RowsOf
  <2>2. Request' = Request
    BY <1>1 DEF Request
  <2>3. \A m : Batch(Request, m)' = Batch(Request, m)
    BY <1>1 DEF Request, Batch
  <2>4. ShownRows' = RowsOf(manifest')
    BY <1>13
  <2> QED
    BY <1>4, <2>1, <2>2, <2>3, <2>4 DEF Shown
<1>21. OutInv'
  <2>1. pc' \in {"cleanup", "commit"} /\ out' = {e} /\ e.path.month \in left'
    BY <1>1, <1>4
  <2>2. pc' = "cleanup" => kind' = "scalar"
    BY <1>1, <1>3 DEF Kinds
  <2>3. \A d \in out' : Shown(Request, d.path.month)'
    BY <1>20, <2>1
  <2> QED
    BY <2>1, <2>2, <2>3 DEF OutInv
<1>22. PhaseInv'
  <2>1. ASSUME NEW c \in obsolete', kind = "scalar"
        PROVE  c.path \notin Paths(manifest') /\ c.path \notin sides' /\ Superseded(c.path)'
    <3>1. c \in removed(e) /\ c \in manifest /\ c.path.month = e.path.month /\ Within(c, e)
      BY <1>6, <1>8, <2>1
    <3>2. c.path # e.path /\ c.path \in Paths(removed(e))
      BY <1>4, <3>1 DEF Paths
    <3>3. c.path \notin Paths(manifest')
      BY <1>3, <1>5, <3>1, <3>2 DEF Paths, GoodEntries
    <3>4. c.path \notin sides'
      BY <1>9, <2>1, <3>2
    <3>5. GoodChunk(c) /\ c.gen \in Nat /\ c.path.gen \in Nat /\ e.gen \in Nat
      BY <1>3, <1>4, <3>1, EntryIsGood, Numbers
    <3>6. c.path.gen < e.gen
      BY <3>1, <3>5 DEF GoodChunk, Within
    <3>7. Superseded(c.path)'
      BY <1>5, <3>1, <3>6 DEF Superseded
    <3> QED
      BY <3>3, <3>4, <3>7
  <2>2. pc' = "cleanup" => kind = "scalar"
    BY <1>1, <1>3 DEF Kinds
  <2> QED
    BY <1>1, <1>3, <1>18, <2>1, <2>2 DEF WriterInv, PhaseInv, Accepted
<1>23. \A m : m # e.path.month => InMonth(manifest', m) = InMonth(manifest, m)
  BY <1>5, <1>6 DEF InMonth
<1>24. RequestInv'
  <2>1. BatchMonths(Request)' = BatchMonths(Request)
    BY <1>1 DEF BatchMonths, Request
  <2>2. \A m : Batch(Request, m)' = Batch(Request, m)
    BY <1>1 DEF Request, Batch
  <2>3. \A m : Shown(Request, m) => Shown(Request, m)'
    BY <1>13, <2>2 DEF Shown
  <2>4. /\ left \cup done = BatchMonths(Request) /\ \A m \in done : Shown(Request, m)
        /\ \A m \in left : \A c \in InMonth(manifest, m), r \in Batch(Request, m) : c.end < r.ts
    BY <1>1 DEF WriterInv, RequestInv, Accepted
  <2>5. \A m \in left : \/ \A c \in InMonth(manifest', m), r \in Batch(Request, m) : c.end < r.ts
                        \/ m = e.path.month
    BY <1>23, <2>4
  <2>6. pc' \in {"cleanup", "commit"} /\ out' = {e}
    BY <1>1, <1>4
  <2> QED
    BY <1>1, <2>1, <2>2, <2>3, <2>4, <2>5, <2>6 DEF RequestInv
<1>25. ResumeInv'
  <2> SUFFICES ASSUME NEW v \in resumable'
               PROVE  /\ v = Len(asked') /\ v >= 1
                      /\ \A m \in Remainder(v)' :
                           \A c \in InMonth(manifest', m), r \in Batch(v, m)' : c.end < r.ts
                      /\ \A f \in disk' : Settled(f, manifest)'
    BY DEF ResumeInv
  <2>1. /\ v = Len(asked) /\ v >= 1
        /\ \A m \in Remainder(v) : \A c \in InMonth(manifest, m), r \in Batch(v, m) : c.end < r.ts
    BY <1>1 DEF WriterInv, ResumeInv
  <2>2. Shown(v, e.path.month)'
    BY <1>1, <1>20, <2>1 DEF Request
  <2>3. e.path.month \notin Remainder(v)'
    BY <2>2 DEF Remainder
  <2>4. \A m \in Remainder(v)' : \A c \in InMonth(manifest', m), r \in Batch(v, m)' : c.end < r.ts
    BY <1>13, <1>23, <2>1, <2>3
  <2> QED
    BY <1>1, <1>18, <2>1, <2>4 DEF AllSettled
<1>26. SidesInv'
  BY <1>1, <1>3, <1>4, <1>9 DEF WriterInv, SidesInv, Kinds
<1>27. RecoverInv'
  BY <1>1 DEF RecoverInv
<1> QED
  BY <1>13, <1>14, <1>16, <1>17, <1>19, <1>21, <1>22, <1>24, <1>25, <1>26, <1>27 DEF WriterInv

LEMMA RemoveObsoleteInv ==
  ASSUME WriterInv, RemoveObsolete
  PROVE  WriterInv'
<1>1. /\ pc = "cleanup" /\ pc' = "commit" /\ obsolete' = {}
      /\ UNCHANGED <<kind, manifest, sides, registered, marker, lock, goal, left, done, out>>
      /\ UNCHANGED <<meta, todo, asked, told, resumable>>
  BY DEF RemoveObsolete, scan, callers
<1>2. PICK gone \in SUBSET obsolete, bare \in SUBSET Paths(obsolete) :
        /\ disk' = disk \ {FileOf(c) : c \in gone}
        /\ index' = {x \in index : x.path \notin bare}
  BY DEF RemoveObsolete
<1>3. /\ manifest \in SUBSET ChunkEntry /\ disk \subseteq File /\ obsolete \subseteq ChunkEntry
      /\ GoodDisk /\ GoodEntries(manifest) /\ AllSettled(manifest) /\ todo = {}
      /\ \A c \in obsolete : c.path \notin Paths(manifest) /\ c.path \notin sides
      /\ kind = "scalar" /\ lock = "write" /\ Len(asked) >= 1
  BY <1>1 DEF WriterInv, TypeInv, PhaseInv, OutInv, Accepted
<1>4. disk' \subseteq disk /\ index' \subseteq index
  BY <1>2
<1>5. ASSUME NEW c \in manifest
      PROVE  FileOf(c) \in disk'
  <2> SUFFICES ASSUME NEW d \in gone, FileOf(c) = FileOf(d)
               PROVE  FALSE
    BY <1>2, <1>3 DEF GoodEntries
  <2>1. c.path = d.path
    BY <1>3, FileOfEntry
  <2> QED
    BY <1>3, <2>1 DEF Paths
<1>6. TypeInv'
  BY <1>1, <1>3, <1>4 DEF WriterInv, TypeInv, Phases, Accepted
<1>7. \A c, d : Older(c, d)' <=> Older(c, d)
  BY <1>1, SameOrder
<1>8. GoodDisk'
  BY <1>3, <1>4, <1>7 DEF GoodDisk
<1>9. GoodEntries(manifest)'
  BY <1>1, <1>3, <1>5 DEF GoodEntries
<1>10. UNCHANGED <<manifest, asked>>
  BY <1>1
<1>11. HistoryInv'
  BY <1>1, <1>4, <1>10, SameRows DEF WriterInv, HistoryInv
<1>12. \A f, C : Settled(f, C)' <=> Settled(f, C)
  BY <1>1 DEF Settled, Within, FileOf
<1>13. AllSettled(manifest)'
  BY <1>1, <1>3, <1>4, <1>12 DEF AllSettled
<1>14. /\ Request' = Request /\ BatchMonths(Request)' = BatchMonths(Request)
       /\ \A m : InMonth(manifest, m)' = InMonth(manifest, m) /\ Batch(Request, m)' = Batch(Request, m)
       /\ \A m : Shown(Request, m)' <=> Shown(Request, m)
  BY <1>10 DEF Request, BatchMonths, Batch, InMonth, Shown, ShownRows
<1>15. OutInv'
  BY <1>1, <1>14 DEF WriterInv, OutInv
<1>16. PhaseInv'
  BY <1>1, <1>3, <1>13 DEF PhaseInv, Accepted
<1>17. RequestInv'
  <2>1. /\ left \cup done = BatchMonths(Request)
        /\ \A m \in done : Shown(Request, m)
        /\ \A m \in left :
             \/ \A c \in InMonth(manifest, m), r \in Batch(Request, m) : c.end < r.ts
             \/ \E e \in out : m = e.path.month
    BY <1>1 DEF WriterInv, RequestInv, Accepted
  <2> QED
    BY <1>1, <1>14, <2>1 DEF RequestInv
<1>18. ToldInv' /\ ResumeInv'
  BY <1>1, <1>4, <1>10, <1>12, SameRows DEF WriterInv, ToldInv, ResumeInv
<1>19. RecoverInv'
  BY <1>1 DEF RecoverInv
<1>20. SidesInv'
  <2> SUFFICES ASSUME NEW p \in sides
               PROVE  p \in Paths(index')
    BY <1>1 DEF SidesInv
  <2>1. PICK x \in index : x.path = p
    BY DEF WriterInv, SidesInv, Paths
  <2>2. p \notin Paths(obsolete)
    BY <1>3 DEF Paths
  <2>3. x \in index'
    BY <1>2, <2>1, <2>2
  <2> QED
    BY <2>1, <2>3 DEF Paths
<1> QED
  BY <1>6, <1>8, <1>9, <1>11, <1>15, <1>16, <1>17, <1>18, <1>19, <1>20 DEF WriterInv

LEMMA RecoverSaveInv ==
  ASSUME WriterInv, RecoverSave
  PROVE  WriterInv'
<1>1. /\ pc = "recover" /\ pc' = "recover_clear" /\ todo = {} /\ manifest' = meta
      /\ sides' = (sides \cap Paths(meta)) \cup (Paths(index) \cap (Paths(meta) \ Paths(manifest)))
      /\ UNCHANGED <<kind, disk, index, registered, marker, lock, goal, left, done, out, obsolete>>
      /\ UNCHANGED <<meta, todo, asked, told, resumable>>
  BY DEF RecoverSave, request, scan, callers
<1>2. /\ manifest \in SUBSET ChunkEntry /\ meta \in SUBSET ChunkEntry /\ disk \subseteq File
      /\ out = {} /\ done = {} /\ lock = "write"
  BY <1>1 DEF WriterInv, TypeInv, OutInv, PhaseInv, Accepted
<1>3. /\ GoodEntries(meta) /\ \A c \in manifest : Settled(FileOf(c), meta)
      /\ \A f \in disk : Settled(f, meta)
      /\ \A c \in meta : c \in manifest \/ ~ Settled(FileOf(c), manifest)
  BY <1>1 DEF WriterInv, RecoverInv
<1>4. UNCHANGED <<kind, disk>> /\ manifest' \in SUBSET ChunkEntry
      /\ \A c \in manifest : Settled(FileOf(c), manifest')
  BY <1>1, <1>2, <1>3
<1>5. /\ ShownRows' = RowsOf(manifest') /\ ShownRows \subseteq ShownRows'
      /\ \A v, m : Batch(v, m)' = Batch(v, m) /\ (Shown(v, m) => Shown(v, m)')
      /\ \A v : BatchMonths(v)' = BatchMonths(v) /\ Remainder(v)' \subseteq Remainder(v)
      /\ \A R : (Whole(R) => Whole(R)') /\ (Ordered(R) => Ordered(R)')
      /\ ToldInv'
      /\ \A f, C : Settled(f, C)' <=> Settled(f, C)
  BY <1>1, <1>2, <1>4, ManifestGrows DEF WriterInv
<1>6. TypeInv'
  BY <1>1, <1>2 DEF WriterInv, TypeInv, Phases
<1>7. GoodDisk' /\ GoodEntries(manifest)'
  BY <1>1, <1>3, <1>4, SameDisk DEF WriterInv, GoodEntries
<1>8. AllSettled(manifest)'
  BY <1>1, <1>3, <1>5 DEF AllSettled
<1>9. HistoryInv'
  BY <1>1, <1>5 DEF WriterInv, HistoryInv
<1>10. OutInv'
  BY <1>1, <1>2 DEF OutInv
<1>11. PhaseInv'
  BY <1>1, <1>2, <1>8 DEF WriterInv, PhaseInv, Accepted
<1>12. RequestInv' /\ RecoverInv'
  BY <1>1 DEF RequestInv, RecoverInv, Accepted
<1>13. SidesInv'
  BY <1>1 DEF WriterInv, SidesInv
<1>14. ResumeInv'
  <2> SUFFICES ASSUME NEW v \in resumable'
               PROVE  /\ v = Len(asked') /\ v >= 1
                      /\ \A m \in Remainder(v)' :
                           \A c \in InMonth(manifest', m), r \in Batch(v, m)' : c.end < r.ts
                      /\ \A f \in disk' : Settled(f, manifest)'
    BY DEF ResumeInv
  <2>1. /\ v = Len(asked) /\ v >= 1
        /\ \A m \in Remainder(v) : \A c \in InMonth(manifest, m), r \in Batch(v, m) : c.end < r.ts
        /\ \A f \in disk : Settled(f, manifest) \/ Batch(v, f.path.month) \subseteq f.rows
    BY <1>1 DEF WriterInv, ResumeInv
  <2>2. ASSUME NEW m \in Remainder(v)', NEW c \in InMonth(manifest', m), NEW r \in Batch(v, m)'
        PROVE  c.end < r.ts
    <3>1. c \in meta /\ c.path.month = m /\ c \in ChunkEntry /\ FileOf(c) \in disk
      BY <1>1, <1>2, <1>3 DEF InMonth, GoodEntries
    <3>2. m \in Remainder(v) /\ r \in Batch(v, m) /\ ~ Shown(v, m)'
      BY <1>5 DEF Remainder
    <3>3. CASE c \in manifest
      BY <2>1, <3>1, <3>2, <3>3 DEF InMonth
    <3>4. CASE ~ Settled(FileOf(c), manifest)
      <4>1. Batch(v, m) \subseteq c.rows
        BY <2>1, <3>1, <3>4, FileOfEntry
      <4>2. c.rows \subseteq ShownRows'
        BY <1>1, <1>5, <3>1 DEF RowsOf
      <4>3. Shown(v, m)'
        BY <1>5, <4>1, <4>2 DEF Shown
      <4> QED
        BY <3>2, <4>3
    <3> QED
      BY <1>3, <3>1, <3>3, <3>4
  <2> QED
    BY <1>1, <1>8, <2>1, <2>2 DEF AllSettled
<1> QED
  BY <1>5, <1>6, <1>7, <1>9, <1>10, <1>11, <1>12, <1>13, <1>14 DEF WriterInv

LEMMA WriterStep ==
  ASSUME WriterInv, WriterNext
  PROVE  WriterInv'
<1>1. ASSUME NEW input \in Inputs,
             \/ append_kline_range(input) \/ append_scalar_range(input)
             \/ write_kline_range(input) \/ write_scalar_range(input)
      PROVE  WriterInv'
  <2>1. RangeBegin(input)
    BY <1>1 DEF append_kline_range, append_scalar_range, write_kline_range, write_scalar_range
  <2> QED
    BY <2>1, RangeBeginInv
<1> QED
  BY <1>1, RangeRefusedInv, RangeAcceptedInv, RegisterInv, MonthBeginInv, WriteChunkInv,
     WriteSidecarInv, SaveManifestInv, RemoveObsoleteInv, MonthCommitInv, RangeDoneInv,
     RepairBeginInv, RecoverCandidateInv, RecoverSaveInv, RecoverClearInv, WriterFailsInv
     DEF WriterNext


LEMMA WriterInitInv ==
  ASSUME WriterInit
  PROVE  WriterInv
<1>1. /\ kind \in Kinds /\ disk = {} /\ index = {} /\ manifest = {} /\ sides = {}
      /\ registered = FALSE /\ marker = FALSE /\ lock = "none"
      /\ pc = "idle" /\ goal = "open"
      /\ left = {} /\ done = {} /\ out = {} /\ obsolete = {}
      /\ meta = {} /\ todo = {} /\ asked = <<>> /\ told = {} /\ resumable = {}
  BY DEF WriterInit
<1>2. asked \in Seq(SUBSET Ts) /\ Len(asked) = 0
  BY <1>1
<1>3. TypeInv
  BY <1>1, <1>2 DEF TypeInv, Phases
<1>4. GoodDisk /\ GoodEntries(manifest) /\ AllSettled(manifest)
  BY <1>1, FS_EmptySet DEF GoodDisk, GoodEntries, AllSettled
<1>5. HistoryInv
  BY <1>1, <1>2 DEF HistoryInv
<1>6. OutInv
  BY <1>1 DEF OutInv
<1>7. PhaseInv
  BY <1>1, <1>4 DEF PhaseInv, Accepted
<1>8. RequestInv /\ RecoverInv
  BY <1>1 DEF RequestInv, RecoverInv, Accepted
<1>9. ToldInv /\ ResumeInv /\ SidesInv
  BY <1>1 DEF ToldInv, ResumeInv, SidesInv, Paths
<1> QED
  BY <1>3, <1>4, <1>5, <1>6, <1>7, <1>8, <1>9 DEF WriterInv

(***************************************************************************)
(* The writer and its readers                                              *)
(***************************************************************************)
\* A reader leaves the writer alone, or takes and returns the shared lock while
\* no writer is at work.
LEMMA WriterApart ==
  ASSUME WriterInv, UNCHANGED unlocked, pc # "idle" => lock' = lock
  PROVE  WriterInv'
<1>1. /\ UNCHANGED <<kind, disk, index, manifest, sides, registered, marker, pc, goal>>
      /\ UNCHANGED <<left, done, out, obsolete, meta, todo, asked, told, resumable, fails>>
  BY DEF unlocked, durable, request, scan, callers
<1>2. UNCHANGED quiet
  BY <1>1 DEF quiet
<1>3. /\ GoodDisk' /\ GoodEntries(manifest)' /\ SidesInv' /\ ToldInv' /\ ResumeInv'
      /\ (\A v \in 1..Len(asked) : IsFiniteSet(asked[v]))'
      /\ (\A f \in disk : Whole(f.rows) /\ Ordered(f.rows))'
      /\ AllSettled(manifest)' <=> AllSettled(manifest)
  BY <1>1, <1>2, QuietParts
<1>4. UNCHANGED <<kind, disk>> /\ UNCHANGED <<manifest, asked>>
  BY <1>1
<1>5. TypeInv'
  BY <1>1 DEF WriterInv, TypeInv
<1>6. HistoryInv'
  BY <1>1, <1>3, <1>4, SameRows DEF WriterInv, HistoryInv
<1>7. OutInv'
  BY <1>1, <1>4, SameRows, SameDisk, SameOrder DEF WriterInv, OutInv, GoodChunk, InMonth, Request
<1>8. PhaseInv'
  BY <1>1, <1>3, <1>4, SameRows DEF WriterInv, PhaseInv
<1>9. RequestInv'
  BY <1>1, <1>4, SameRows DEF WriterInv, RequestInv, InMonth, Request
<1>10. RecoverInv'
  BY <1>1, <1>4, SameDisk DEF WriterInv, RecoverInv
<1> QED
  BY <1>3, <1>5, <1>6, <1>7, <1>8, <1>9, <1>10 DEF WriterInv


\* A saved manifest: what was superseded stays so.
LEMMA SaveSupersedes ==
  ASSUME WriterInv, SaveManifest, NEW p \in Path, Superseded(p)
  PROVE  Superseded(p)'
<1>1. PICK e \in out :
        manifest' = IF (IF kind = "kline" THEN {} ELSE InMonth(manifest, e.path.month)) = {}
                    THEN UpsertChunk(manifest, e)
                    ELSE ReplaceMonth(manifest, e.path.month, e)
  BY DEF SaveManifest
<1>2. PICK c \in manifest : c.path.month = p.month /\ p.gen < c.gen
  BY DEF Superseded
<1>3. /\ e \in ChunkEntry /\ c \in ChunkEntry /\ c.id < e.id /\ pc = "manifest"
      /\ c.path.month = e.path.month => Older(c, e)
  BY DEF WriterInv, TypeInv, OutInv, SaveManifest, InMonth
<1>4. /\ c.id \in Nat /\ e.id \in Nat /\ c.gen \in Nat /\ e.gen \in Nat /\ p.gen \in Nat
  BY <1>3 DEF ChunkEntry, Path
<1>5. c.path.month = e.path.month => c.gen < e.gen
  BY <1>3 DEF Older, Within, Before
<1>6. e \in manifest' /\ (c \in manifest' \/ c.path.month = e.path.month)
  BY <1>1, <1>3, <1>4 DEF UpsertChunk, ReplaceMonth, InMonth
<1>7. CASE c \in manifest'
  BY <1>2, <1>7 DEF Superseded
<1>8. CASE c.path.month = e.path.month
  <2>1. e.path.month = p.month /\ p.gen < e.gen
    BY <1>2, <1>4, <1>5, <1>8
  <2> QED
    BY <1>6, <2>1 DEF Superseded
<1> QED
  BY <1>6, <1>7, <1>8

\* A writer step keeps what readers know, when the name it gives is new.
LEMMA KnownStays ==
  ASSUME KnownInv, UNCHANGED <<Snapshots, files>>, NEW N,
         \A x \in disk' \cup index' : <<x.path, x.rows>> \in Known \cup N,
         \A a, b \in N : a = b,
         \A n \in N : n[1] \in Path /\ n[1] \in Paths(disk') /\ \A a \in Known : a[1] # n[1],
         \A p \in Path : p \in Paths(disk) => p \in Paths(disk') \/ Superseded(p)',
         \A p \in Path : Superseded(p) => Superseded(p)'
  PROVE  KnownInv'
<1>1. \A a \in Known' : a \in Known \cup N
  BY DEF Known
<1>2. \A a, b \in Known' : a[1] = b[1] => a[2] = b[2]
  BY <1>1 DEF KnownInv
<1>3. \A a \in Known' : a[1] \in Path /\ (a[1] \in Paths(disk') \/ Superseded(a[1])')
  BY <1>1 DEF KnownInv
<1> QED
  BY <1>2, <1>3 DEF KnownInv

LEMMA KnownShrinks ==
  ASSUME KnownInv, UNCHANGED <<Snapshots, files>>,
         \A x \in disk' \cup index' : <<x.path, x.rows>> \in Known,
         \A p \in Path : p \in Paths(disk) => p \in Paths(disk') \/ Superseded(p)',
         \A p \in Path : Superseded(p) => Superseded(p)'
  PROVE  KnownInv'
<1>1. PICK N : N = {}
  OBVIOUS
<1>2. \A x \in disk' \cup index' : <<x.path, x.rows>> \in Known \cup N
  OBVIOUS
<1>3. /\ \A a, b \in N : a = b
      /\ \A n \in N : n[1] \in Path /\ n[1] \in Paths(disk') /\ \A a \in Known : a[1] # n[1]
  BY <1>1
<1> QED
  BY <1>2, <1>3, KnownStays

LEMMA DiskIsKnown ==
  \A x \in disk \cup index : <<x.path, x.rows>> \in Known
BY DEF Known

LEMMA KnownQuiet ==
  ASSUME KnownInv, UNCHANGED <<Snapshots, files>>, UNCHANGED <<disk, index, manifest>>
  PROVE  KnownInv'
<1>1. \A p \in Path : Superseded(p) => Superseded(p)'
  BY DEF Superseded
<1>2. \A x \in disk' \cup index' : <<x.path, x.rows>> \in Known
  BY DiskIsKnown
<1> QED
  BY <1>1, <1>2, KnownShrinks

LEMMA KnownWriteChunk ==
  ASSUME WriterInv, KnownInv, WriteChunk, UNCHANGED <<Snapshots, files>>
  PROVE  KnownInv'
<1>1. PICK e \in out :
        \/ e.path \notin Paths(disk) /\ disk' = disk \cup {FileOf(e)} /\ UNCHANGED <<index, manifest>>
        \/ UNCHANGED <<disk, index, manifest>>
  BY DEF WriteChunk, durable
<1>2. CASE UNCHANGED <<disk, index, manifest>>
  BY <1>2, KnownQuiet
<1>3. CASE e.path \notin Paths(disk) /\ disk' = disk \cup {FileOf(e)} /\ UNCHANGED <<index, manifest>>
  <2>1. /\ e \in ChunkEntry /\ e.path \in Path /\ FileOf(e).path = e.path /\ FileOf(e).rows = e.rows
        /\ GoodChunk(e)
        /\ \A c \in InMonth(manifest, e.path.month) : Older(c, e)
        /\ e.path.kind = "base" => InMonth(manifest, e.path.month) = {}
    BY FileOfEntry, Numbers DEF WriterInv, TypeInv, OutInv, WriteChunk
  <2>2. ~ Superseded(e.path)
    <3> SUFFICES ASSUME NEW c \in manifest, c.path.month = e.path.month, e.path.gen < c.gen
                 PROVE  FALSE
      BY DEF Superseded
    <3>1. c \in InMonth(manifest, e.path.month) /\ c \in ChunkEntry
      BY DEF InMonth, WriterInv, TypeInv
    <3>2. e.path.gen = e.gen /\ c.gen < e.gen
      BY <2>1, <3>1 DEF GoodChunk, Older, Within, Before
    <3>3. c.gen \in Nat /\ e.gen \in Nat
      BY <2>1, <3>1, Numbers
    <3> QED
      BY <3>2, <3>3
  <2> DEFINE n == <<e.path, e.rows>>
  <2>3. \A a \in Known : a[1] # n[1]
    BY <1>3, <2>2 DEF KnownInv
  <2>4. \A x \in disk' \cup index' : <<x.path, x.rows>> \in Known \cup {n}
    BY <1>3, <2>1, DiskIsKnown
  <2>5. n[1] \in Path /\ n[1] \in Paths(disk') /\ \A p : p \in Paths(disk) => p \in Paths(disk')
    BY <1>3, <2>1 DEF Paths
  <2>6. \A p \in Path : Superseded(p) => Superseded(p)'
    BY <1>3 DEF Superseded
  <2> HIDE DEF n
  <2> QED
    BY <2>3, <2>4, <2>5, <2>6, KnownStays
<1> QED
  BY <1>1, <1>2, <1>3

LEMMA KnownWriteSidecar ==
  ASSUME WriterInv, KnownInv, WriteSidecar, UNCHANGED <<Snapshots, files>>
  PROVE  KnownInv'
<1>1. PICK e \in out :
        index' = {x \in index : x.path # e.path} \cup {[path |-> e.path, rows |-> e.rows]}
  BY DEF WriteSidecar
<1>2. UNCHANGED <<disk, manifest>>
  BY DEF WriteSidecar
<1>3. FileOf(e) \in disk /\ FileOf(e).path = e.path /\ FileOf(e).rows = e.rows
  BY FileOfEntry DEF WriterInv, TypeInv, OutInv, WriteSidecar
<1>4. \A x \in disk' \cup index' : <<x.path, x.rows>> \in Known
  <2>1. PICK side : side = [path |-> e.path, rows |-> e.rows]
    OBVIOUS
  <2>2. side.path = e.path /\ side.rows = e.rows /\ \A x \in index' : x \in index \/ x = side
    BY <1>1, <2>1
  <2>3. <<side.path, side.rows>> \in Known
    BY <1>3, <2>2, DiskIsKnown
  <2> QED
    BY <1>2, <2>2, <2>3, DiskIsKnown
<1>5. \A p \in Path : Superseded(p) => Superseded(p)'
  BY <1>2 DEF Superseded
<1> QED
  BY <1>2, <1>4, <1>5, KnownShrinks

LEMMA KnownSave ==
  ASSUME WriterInv, KnownInv, SaveManifest \/ RecoverSave, UNCHANGED <<Snapshots, files>>
  PROVE  KnownInv'
<1>1. UNCHANGED <<kind, disk, index, asked>>
  BY DEF SaveManifest, RecoverSave, callers
<1>2. \A x \in disk' \cup index' : <<x.path, x.rows>> \in Known
  BY <1>1, DiskIsKnown
<1>3. ASSUME NEW p \in Path, Superseded(p)
      PROVE  Superseded(p)'
  <2>1. CASE SaveManifest
    BY <1>3, <2>1, SaveSupersedes
  <2>2. CASE RecoverSave
    <3>1. /\ manifest \in SUBSET ChunkEntry /\ manifest' \in SUBSET ChunkEntry
          /\ \A c \in manifest : Settled(FileOf(c), manifest')
      BY <2>2 DEF RecoverSave, WriterInv, TypeInv, RecoverInv
    <3> QED
      BY <1>1, <1>3, <3>1, ManifestGrows
  <2> QED
    BY <2>1, <2>2
<1> QED
  BY <1>1, <1>2, <1>3, KnownShrinks

LEMMA KnownRemove ==
  ASSUME WriterInv, KnownInv, RemoveObsolete, UNCHANGED <<Snapshots, files>>
  PROVE  KnownInv'
<1>1. PICK gone \in SUBSET obsolete : \E bare :
        disk' = disk \ {FileOf(c) : c \in gone} /\ index' = {x \in index : x.path \notin bare}
  BY DEF RemoveObsolete
<1>2. manifest' = manifest /\ pc = "cleanup" /\ obsolete \subseteq ChunkEntry
  BY DEF RemoveObsolete, WriterInv, TypeInv
<1>3. \A x \in disk' \cup index' : <<x.path, x.rows>> \in Known
  BY <1>1, DiskIsKnown
<1>4. \A p \in Path : Superseded(p) => Superseded(p)'
  BY <1>2 DEF Superseded
<1>5. ASSUME NEW p \in Path, p \in Paths(disk), p \notin Paths(disk')
      PROVE  Superseded(p)'
  <2>1. PICK f \in disk : f.path = p
    BY <1>5 DEF Paths
  <2>2. f \notin disk'
    BY <1>5, <2>1 DEF Paths
  <2>3. PICK c \in gone : f = FileOf(c)
    BY <1>1, <2>1, <2>2
  <2>4. c \in obsolete /\ c.path = p
    BY <1>2, <2>1, <2>3, FileOfEntry
  <2>5. Superseded(p)
    BY <1>2, <2>4 DEF WriterInv, PhaseInv
  <2> QED
    BY <1>4, <2>5
<1> QED
  BY <1>3, <1>4, <1>5, KnownShrinks

\* The writer does not disturb its readers.
LEMMA ReadersApart ==
  ASSUME WriterInv, ReaderInv, WriterNext, UNCHANGED readers
  PROVE  ReaderInv'
<1>1. /\ UNCHANGED <<reader, handle, base, local, shared, attached, files, decoded, query>>
      /\ UNCHANGED <<Snapshots, files>>
  BY DEF readers, caches, Snapshots
<1>2. SnapshotInv' /\ DecodedInv' /\ QueryInv' /\ (Described' <=> Described)
  BY <1>1 DEF ReaderInv, SnapshotInv, DecodedInv, QueryInv, Described
<1>3. KnownInv /\ BridgeInv
  BY DEF ReaderInv
<1>4. KnownInv'
  <2>1. CASE WriteChunk
    BY <1>1, <1>3, <2>1, KnownWriteChunk
  <2>2. CASE WriteSidecar
    BY <1>1, <1>3, <2>2, KnownWriteSidecar
  <2>3. CASE SaveManifest \/ RecoverSave
    BY <1>1, <1>3, <2>3, KnownSave
  <2>4. CASE RemoveObsolete
    BY <1>1, <1>3, <2>4, KnownRemove
  <2>5. CASE UNCHANGED <<disk, index, manifest>>
    BY <1>1, <1>3, <2>5, KnownQuiet
  <2>6. ASSUME NEW input \in Inputs,
               \/ append_kline_range(input) \/ append_scalar_range(input)
               \/ write_kline_range(input) \/ write_scalar_range(input)
        PROVE  UNCHANGED <<disk, index, manifest>>
    BY <2>6 DEF append_kline_range, append_scalar_range, write_kline_range, write_scalar_range,
                RangeBegin, durable
  <2>7. ASSUME \/ RangeRefused \/ RangeAccepted \/ RegisterArm \/ RegisterSave \/ RegisterCommit
               \/ MonthBegin \/ MonthCommit \/ RangeDone \/ RepairBegin \/ RecoverCandidate
               \/ RecoverClear \/ WriterFails
        PROVE  UNCHANGED <<disk, index, manifest>>
    BY <2>7 DEF RangeRefused, RangeAccepted, RegisterArm, RegisterSave, RegisterCommit, MonthBegin,
                MonthCommit, RangeDone, RepairBegin, RecoverCandidate, RecoverClear, WriterFails,
                durable
  <2> QED
    BY <2>1, <2>2, <2>3, <2>4, <2>5, <2>6, <2>7 DEF WriterNext
<1>5. BridgeInv'
  <2>1. CASE handle = "ro"
    <3>1. lock = "read" /\ pc = "idle"
      BY <1>3, <2>1 DEF BridgeInv, WriterInv, PhaseInv
    <3>2. FALSE
      BY <3>1 DEF WriterNext, append_kline_range, append_scalar_range, write_kline_range,
         write_scalar_range, RangeBegin, Unlocked, RangeRefused, RangeAccepted, RegisterArm,
         RegisterSave, RegisterCommit, MonthBegin, WriteChunk, WriteSidecar, SaveManifest, RemoveObsolete,
         MonthCommit, RangeDone, RepairBegin, RecoverCandidate, RecoverSave, RecoverClear, WriterFails
    <3> QED
      BY <3>2
  <2>2. CASE handle # "ro"
    BY <1>1, <1>2, <1>3, <2>2 DEF BridgeInv
  <2> QED
    BY <2>1, <2>2
<1> QED
  BY <1>2, <1>4, <1>5 DEF ReaderInv

(***************************************************************************)
(* Reads of chunks                                                         *)
(***************************************************************************)
\* A reader takes manifests from other readers or from series.meta, and opens
\* files that are known.
LEMMA ReaderStep ==
  ASSUME WriterInv, SnapshotInv, KnownInv, UNCHANGED <<disk, index, manifest>>,
         \A m \in Snapshots' : m \in Snapshots \/ m \in OnDisk,
         \A f \in files' : <<f.key.path, f.rows>> \in Known
  PROVE  SnapshotInv' /\ KnownInv'
<1>1. ASSUME NEW m \in OnDisk, NEW c \in m.chunks
      PROVE  c \in ChunkEntry /\ GoodChunk(c) /\ <<c.path, c.rows>> \in Known
  <2>1. c \in manifest
    BY <1>1 DEF OnDisk
  <2>2. c \in ChunkEntry /\ GoodChunk(c) /\ FileOf(c) \in disk
    BY <2>1, EntryIsGood DEF WriterInv, TypeInv
  <2>3. FileOf(c).path = c.path /\ FileOf(c).rows = c.rows
    BY <2>2, FileOfEntry
  <2> QED
    BY <2>2, <2>3, DiskIsKnown
<1>2. ASSUME NEW m \in Snapshots, NEW c \in m.chunks
      PROVE  <<c.path, c.rows>> \in Known
  BY DEF Known
<1>3. SnapshotInv'
  BY <1>1 DEF SnapshotInv, GoodChunk
<1>4. \A a \in Known' : a \in Known
  <2>1. ASSUME NEW x \in disk' \cup index'
        PROVE  <<x.path, x.rows>> \in Known
    BY DiskIsKnown
  <2>2. ASSUME NEW c \in UNION {m.chunks : m \in Snapshots'}
        PROVE  <<c.path, c.rows>> \in Known
    BY <1>1, <1>2
  <2> QED
    BY <2>1, <2>2 DEF Known
<1>5. KnownInv'
  BY <1>4 DEF KnownInv, Superseded
<1> QED
  BY <1>3, <1>5

\* ChunkFileCache.open gives the rows of the entry, from the file or from what
\* was opened before: the key names one file for ever.
LEMMA FileReadsExact ==
  ASSUME KnownInv, NEW c, <<c.path, c.rows>> \in Known, NEW x \in FileReads(c)
  PROVE  /\ x.rows = c.rows
         /\ \A f \in x.files : <<f.key.path, f.rows>> \in Known
<1>1. \A f \in files : <<f.key.path, f.rows>> \in Known
  BY DEF Known
<1>2. CASE Opened(c) # {}
  <2>1. PICK f \in Opened(c) : x = [rows |-> f.rows, files |-> files]
    BY <1>2 DEF FileReads
  <2>2. f \in files /\ f.key.path = c.path
    BY DEF Opened, ChunkCacheKey
  <2>3. <<f.key.path, f.rows>>[2] = <<c.path, c.rows>>[2]
    BY <1>1, <2>2 DEF KnownInv
  <2> QED
    BY <1>1, <2>1, <2>3
<1>3. CASE Opened(c) = {}
  <2> DEFINE entry(f) == [key |-> ChunkCacheKey(c), rows |-> f.rows]
  <2>1. PICK f \in disk : /\ f.path = c.path
                          /\ \E kept \in Cached(entry(f)) : x = [rows |-> f.rows, files |-> kept]
    BY <1>3 DEF FileReads
  <2>2. PICK kept \in Cached(entry(f)) : x = [rows |-> f.rows, files |-> kept]
    BY <2>1
  <2>3. <<f.path, f.rows>> \in Known
    BY DiskIsKnown
  <2>4. <<f.path, f.rows>>[2] = <<c.path, c.rows>>[2]
    BY <2>1, <2>3 DEF KnownInv
  <2>5. entry(f).key.path = c.path /\ entry(f).rows = f.rows
    BY DEF ChunkCacheKey
  <2>6. \A k \in kept : k \in files \/ k = entry(f)
    BY DEF Cached
  <2> HIDE DEF entry
  <2>7. \A k \in kept : <<k.key.path, k.rows>> \in Known
    BY <1>1, <2>1, <2>3, <2>5, <2>6
  <2> QED
    BY <2>2, <2>4, <2>7
<1> QED
  BY <1>2, <1>3

\* get_zmap and get_vix give the rows of the entry: the checksum is in the key.
LEMMA SidecarReadsExact ==
  ASSUME DecodedInv, NEW c \in ChunkEntry, NEW x \in SidecarReads(c)
  PROVE  x.rows = c.rows /\ x.decoded \in Seq(DecodedSidecar)
<1> DEFINE key == SidecarCacheKey(c)
           hits == {i \in DOMAIN decoded : decoded[i].key = key}
<1>1. decoded \in Seq(DecodedSidecar)
  BY DEF DecodedInv
<1>2. key \in [gen : Nat, path : Path, checksum : SUBSET Row] /\ key.checksum = c.rows
  BY DEF SidecarCacheKey, ChunkEntry
<1>3. CASE hits # {}
  <2>1. PICK i \in hits : x = [rows |-> decoded[i].rows, decoded |-> Touched(i)]
    BY <1>3 DEF SidecarReads
  <2>2. i \in 1..Len(decoded) /\ decoded[i] \in DecodedSidecar /\ decoded[i].key = key
    BY <1>1
  <2>3. decoded[i].rows = c.rows
    BY <1>2, <2>2 DEF DecodedSidecar
  <2>4. Touched(i) \in Seq(DecodedSidecar)
    <3>1. /\ SubSeq(decoded, 1, i - 1) \in Seq(DecodedSidecar)
          /\ SubSeq(decoded, i + 1, Len(decoded)) \in Seq(DecodedSidecar)
      BY <1>1, <2>2
    <3> QED
      BY <2>2, <3>1 DEF Touched
  <2> QED
    BY <2>1, <2>3, <2>4
<1>4. CASE hits = {}
  <2> DEFINE new(y) == [key |-> key, rows |-> y.rows]
  <2>1. PICK y \in index : y.rows = c.rows /\ x = [rows |-> y.rows, decoded |-> Trimmed(new(y))]
    BY <1>4 DEF SidecarReads
  <2>2. new(y) \in DecodedSidecar
    BY <1>2, <2>1 DEF DecodedSidecar, ChunkEntry
  <2> HIDE DEF new
  <2>3. Trimmed(new(y)) \in Seq(DecodedSidecar)
    <3>1. Len(decoded) \in Nat /\ ~ (Len(decoded) < SidecarCapacity) => decoded # <<>>
      BY <1>1, ViewsAssumption
    <3>2. ~ (Len(decoded) < SidecarCapacity) => Tail(decoded) \in Seq(DecodedSidecar)
      BY <1>1, <3>1
    <3> QED
      BY <1>1, <2>2, <3>2 DEF Trimmed
  <2> QED
    BY <2>1, <2>3
<1> QED
  BY <1>3, <1>4

\* What a query reads of a chunk, by scan, value index or zone map, is the rows
\* of its manifest entry, whichever files the writer replaced meanwhile.
LEMMA ChunkReadsExact ==
  ASSUME KnownInv, DecodedInv, NEW q, NEW c \in ChunkEntry, <<c.path, c.rows>> \in Known,
         NEW r \in ChunkReads(q, c)
  PROVE  /\ q.how \in Searches => r.rows = c.rows
         /\ r.decoded \in Seq(DecodedSidecar)
         /\ \A f \in r.files : <<f.key.path, f.rows>> \in Known
<1>1. \A x \in FileReads(c) : x.rows = c.rows /\ \A f \in x.files : <<f.key.path, f.rows>> \in Known
  BY FileReadsExact
<1>2. \A x \in SidecarReads(c) : x.rows = c.rows /\ x.decoded \in Seq(DecodedSidecar)
  BY SidecarReadsExact
<1>3. decoded \in Seq(DecodedSidecar) /\ \A f \in files : <<f.key.path, f.rows>> \in Known
  BY DEF DecodedInv, Known
<1>4. \A x \in Listed(q, c) : x \in SidecarReads(c)
  BY DEF Listed
<1>5. \A f \in disk : f.path = c.path => f.rows = c.rows
  <2> SUFFICES ASSUME NEW f \in disk, f.path = c.path
               PROVE  f.rows = c.rows
    OBVIOUS
  <2>1. <<f.path, f.rows>>[2] = <<c.path, c.rows>>[2]
    BY DiskIsKnown DEF KnownInv
  <2> QED
    BY <2>1
<1>6. q.how \in Searches => StrategyFor(q, c) \in {"raw", "vix", "zmap"}
  BY DEF StrategyFor, Searches, Predicates
<1>7. CASE StrategyFor(q, c) = "raw"
  <2>1. PICK f \in FileReads(c) : r = [rows |-> f.rows, files |-> f.files, decoded |-> decoded]
    BY <1>7 DEF ChunkReads
  <2>2. r.rows = f.rows /\ r.files = f.files /\ r.decoded = decoded
    BY <2>1
  <2> QED
    BY <1>1, <1>3, <2>2
<1>8. CASE StrategyFor(q, c) = "vix"
  <2>1. PICK s \in Listed(q, c) : r = [rows |-> s.rows, files |-> files, decoded |-> s.decoded]
    BY <1>8 DEF ChunkReads
  <2>2. r.rows = s.rows /\ r.files = files /\ r.decoded = s.decoded
    BY <2>1
  <2> QED
    BY <1>2, <1>3, <1>4, <2>2
<1>9. CASE StrategyFor(q, c) = "zmap"
  <2>1. PICK f \in disk, s \in Listed(q, c) :
          /\ f.path = c.path
          /\ r = [rows |-> f.rows \cap s.rows, files |-> files, decoded |-> s.decoded]
    BY <1>9 DEF ChunkReads
  <2>2. r.rows = f.rows \cap s.rows /\ r.files = files /\ r.decoded = s.decoded
    BY <2>1
  <2> QED
    BY <1>2, <1>3, <1>4, <1>5, <2>1, <2>2
<1>10. CASE StrategyFor(q, c) \notin {"raw", "vix", "zmap"}
  <2>1. PICK f \in FileReads(c),
             d \in IF c.path \in q.meta.sides THEN {s.decoded : s \in SidecarReads(c)} ELSE {decoded} :
          r = [rows |-> {}, files |-> f.files, decoded |-> d]
    BY <1>10 DEF ChunkReads
  <2>2. r.files = f.files /\ r.decoded = d
    BY <2>1
  <2>3. d \in Seq(DecodedSidecar)
    BY <1>2, <1>3
  <2> QED
    BY <1>1, <1>6, <1>10, <2>2, <2>3
<1> QED
  BY <1>7, <1>8, <1>9, <1>10

(***************************************************************************)
(* Queries                                                                 *)
(***************************************************************************)
GoodQuery(q) ==
  /\ q = [how |-> q.how, meta |-> q.meta, chunks |-> q.chunks, lo |-> q.lo, hi |-> q.hi,
          want |-> q.want, rows |-> q.rows, described |-> q.described]
  /\ q.chunks \subseteq q.meta.chunks
  /\ q.rows \cup Window(RowsOf(q.chunks), q.lo, q.hi) = q.want
  /\ q.how \in Searches \/ (q.lo = 1 /\ q.hi = 0)

\* find_chunks_for_range leaves out no chunk with rows in the window.
LEMMA ChunksForExact ==
  ASSUME NEW C, \A c \in C : c \in ChunkEntry /\ GoodChunk(c), NEW lo \in Int, NEW hi \in Int
  PROVE  Window(RowsOf(ChunksFor(C, lo, hi)), lo, hi) = Window(RowsOf(Readable(C)), lo, hi)
<1>1. Readable(C) = C
  BY AllReadable
<1>2. ASSUME NEW r \in Window(RowsOf(C), lo, hi)
      PROVE  r \in RowsOf(ChunksFor(C, lo, hi))
  <2>1. PICK c \in C : r \in c.rows
    BY DEF Window, RowsOf
  <2>2. /\ c.start \in Int /\ c.end \in Int /\ r.ts \in Int /\ c.start <= r.ts /\ r.ts <= c.end
    BY <2>1, Numbers DEF GoodChunk
  <2>3. lo <= r.ts /\ r.ts <= hi
    BY DEF Window
  <2>4. c \in ChunksFor(C, lo, hi)
    BY <2>2, <2>3 DEF ChunksFor
  <2> QED
    BY <2>1, <2>4 DEF RowsOf
<1>3. RowsOf(ChunksFor(C, lo, hi)) \subseteq RowsOf(C)
  BY DEF RowsOf, ChunksFor
<1> QED
  BY <1>1, <1>2, <1>3 DEF Window

LEMMA AskingIsGood ==
  ASSUME NEW m, \A c \in m.chunks : c \in ChunkEntry /\ GoodChunk(c),
         NEW how \in Searches, NEW lo \in Int, NEW hi \in Int
  PROVE  /\ GoodQuery(Asking(how, m, lo, hi)) /\ Asking(how, m, lo, hi).meta = m
         /\ Asking(how, m, lo, hi).described = Asking(how, m, lo, hi).want
<1>1. PICK q : q = Asking(how, m, lo, hi)
  OBVIOUS
<1>2. q = [how |-> how, meta |-> m, chunks |-> ChunksFor(m.chunks, lo, hi), lo |-> lo, hi |-> hi,
           want |-> Window(RowsOf(Readable(m.chunks)), lo, hi), rows |-> {},
           described |-> Window(RowsOf(Readable(m.chunks)), lo, hi)]
  BY <1>1 DEF Asking
<1>3. /\ q.how = how /\ q.meta = m /\ q.chunks = ChunksFor(m.chunks, lo, hi) /\ q.lo = lo /\ q.hi = hi
      /\ q.want = Window(RowsOf(Readable(m.chunks)), lo, hi) /\ q.rows = {}
      /\ q.described = q.want
  BY <1>2
<1>4. ChunksFor(m.chunks, lo, hi) \subseteq m.chunks
  BY DEF ChunksFor
<1>5. GoodQuery(q)
  BY <1>2, <1>3, <1>4, ChunksForExact DEF GoodQuery
<1> QED
  BY <1>1, <1>3, <1>5

\* A description from another load leaves the query as it is.
LEMMA DescribedIsGood ==
  ASSUME NEW m, \A c \in m.chunks : c \in ChunkEntry /\ GoodChunk(c),
         NEW how \in Searches, NEW lo \in Int, NEW hi \in Int, NEW w,
         NEW q, q = [how |-> how, meta |-> m, chunks |-> ChunksFor(m.chunks, lo, hi), lo |-> lo,
                     hi |-> hi, want |-> Window(RowsOf(Readable(m.chunks)), lo, hi), rows |-> {},
                     described |-> w]
  PROVE  /\ GoodQuery(q) /\ q.meta = m /\ q.described = w
         /\ q.want = Window(RowsOf(Readable(m.chunks)), lo, hi)
<1>3. /\ q.how = how /\ q.meta = m /\ q.chunks = ChunksFor(m.chunks, lo, hi) /\ q.lo = lo /\ q.hi = hi
      /\ q.want = Window(RowsOf(Readable(m.chunks)), lo, hi) /\ q.rows = {} /\ q.described = w
  OBVIOUS
<1>4. ChunksFor(m.chunks, lo, hi) \subseteq m.chunks
  BY DEF ChunksFor
<1>5. GoodQuery(q)
  BY <1>3, <1>4, ChunksForExact DEF GoodQuery
<1> QED
  BY <1>3, <1>5

\* The prewarm of a session asks for no rows.
LEMMA PrewarmIsGood ==
  ASSUME NEW m, \A c \in m.chunks : c \in ChunkEntry /\ GoodChunk(c), NEW C \in SUBSET m.chunks,
         NEW q, q = [how |-> "prewarm", meta |-> m, chunks |-> C, lo |-> 1, hi |-> 0,
                     want |-> Window(RowsOf(Readable(m.chunks)), 1, 0), rows |-> {},
                     described |-> Window(RowsOf(Readable(m.chunks)), 1, 0)]
  PROVE  GoodQuery(q) /\ q.meta = m /\ q.described = q.want
<1>3. /\ q.how = "prewarm" /\ q.meta = m /\ q.chunks = C /\ q.lo = 1 /\ q.hi = 0
      /\ q.want = Window(RowsOf(Readable(m.chunks)), 1, 0) /\ q.rows = {} /\ q.described = q.want
  OBVIOUS
<1>4. \A D : D \subseteq m.chunks => Window(RowsOf(D), 1, 0) = {}
  <2> SUFFICES ASSUME NEW D, D \subseteq m.chunks, NEW c \in D, NEW r \in c.rows,
                      1 <= r.ts, r.ts <= 0
               PROVE  FALSE
    BY DEF Window, RowsOf
  <2>1. r.ts \in Int
    BY Numbers
  <2> QED
    BY <2>1
<1>5. Readable(m.chunks) \subseteq m.chunks
  BY DEF Readable
<1>6. Window(RowsOf(Readable(m.chunks)), 1, 0) = {} /\ Window(RowsOf(C), 1, 0) = {}
  BY <1>4, <1>5
<1>7. GoodQuery(q)
  BY <1>3, <1>6 DEF GoodQuery
<1> QED
  BY <1>3, <1>7

LEMMA QueryChunkInv ==
  ASSUME WriterInv, ReaderInv, QueryChunk, UNCHANGED writer
  PROVE  ReaderInv'
<1>0. PICK q \in query : \E c \in q.chunks : \E r \in ChunkReads(q, c) :
        /\ files' = r.files /\ decoded' = r.decoded
        /\ query' = {[q EXCEPT !.chunks = @ \ {c}, !.rows = @ \cup Window(r.rows, q.lo, q.hi)]}
  BY DEF QueryChunk
<1>a. PICK c \in q.chunks : \E r \in ChunkReads(q, c) :
        /\ files' = r.files /\ decoded' = r.decoded
        /\ query' = {[q EXCEPT !.chunks = @ \ {c}, !.rows = @ \cup Window(r.rows, q.lo, q.hi)]}
  BY <1>0
<1>1. PICK r \in ChunkReads(q, c) :
        /\ files' = r.files /\ decoded' = r.decoded
        /\ query' = {[q EXCEPT !.chunks = @ \ {c}, !.rows = @ \cup Window(r.rows, q.lo, q.hi)]}
  BY <1>a
<1>2. UNCHANGED <<handle, base, local, shared, attached>>
  BY DEF QueryChunk
<1>3. UNCHANGED <<disk, index, manifest, sides, registered, lock>>
  BY DEF writer, durable
<1>4. GoodQuery(q) /\ q.meta \in Snapshots
  BY DEF ReaderInv, QueryInv, GoodQuery, Snapshots
<1>5. /\ q = [how |-> q.how, meta |-> q.meta, chunks |-> q.chunks, lo |-> q.lo, hi |-> q.hi,
              want |-> q.want, rows |-> q.rows, described |-> q.described]
      /\ c \in q.meta.chunks /\ q.chunks \subseteq q.meta.chunks
  BY <1>4 DEF GoodQuery
<1>6. \A d \in q.meta.chunks : d \in ChunkEntry /\ GoodChunk(d)
  BY <1>4 DEF ReaderInv, SnapshotInv
<1>7. <<c.path, c.rows>> \in Known
  BY <1>4, <1>5 DEF Known
<1>8. /\ q.how \in Searches => r.rows = c.rows
      /\ r.decoded \in Seq(DecodedSidecar)
      /\ \A f \in r.files : <<f.key.path, f.rows>> \in Known
  BY <1>5, <1>6, <1>7, ChunkReadsExact DEF ReaderInv
<1>9. PICK p : p = [q EXCEPT !.chunks = @ \ {c}, !.rows = @ \cup Window(r.rows, q.lo, q.hi)]
  OBVIOUS
<1>10. p = [how |-> q.how, meta |-> q.meta, chunks |-> q.chunks \ {c}, lo |-> q.lo, hi |-> q.hi,
            want |-> q.want, rows |-> q.rows \cup Window(r.rows, q.lo, q.hi),
            described |-> q.described]
  BY <1>5, <1>9
<1>11. /\ p.how = q.how /\ p.meta = q.meta /\ p.chunks = q.chunks \ {c} /\ p.lo = q.lo /\ p.hi = q.hi
       /\ p.want = q.want /\ p.rows = q.rows \cup Window(r.rows, q.lo, q.hi)
       /\ p.described = q.described
  BY <1>10
<1>12. p.rows \cup Window(RowsOf(p.chunks), p.lo, p.hi) = p.want
  <2>1. q.rows \cup Window(RowsOf(q.chunks), q.lo, q.hi) = q.want
    BY <1>4 DEF GoodQuery
  <2>2. RowsOf(q.chunks) = c.rows \cup RowsOf(q.chunks \ {c})
    BY DEF RowsOf
  <2>3. Window(RowsOf(q.chunks), q.lo, q.hi)
          = Window(c.rows, q.lo, q.hi) \cup Window(RowsOf(q.chunks \ {c}), q.lo, q.hi)
    BY <2>2 DEF Window
  <2>4. CASE q.how \in Searches
    BY <1>8, <1>11, <2>1, <2>3, <2>4
  <2>5. CASE q.how \notin Searches
    <3>1. q.lo = 1 /\ q.hi = 0
      BY <1>4, <2>5 DEF GoodQuery
    <3>2. Window(c.rows, q.lo, q.hi) = {} /\ Window(r.rows, q.lo, q.hi) = {}
      <4>1. \A x \in c.rows : x.ts \in Int
        BY <1>5, <1>6, Numbers
      <4>2. r.rows = {}
        <5>1. StrategyFor(q, c) \notin {"raw", "vix", "zmap"}
          BY <2>5 DEF StrategyFor, Searches
        <5>2. \E f, d : r = [rows |-> {}, files |-> f.files, decoded |-> d]
          BY <5>1 DEF ChunkReads
        <5> QED
          BY <5>2
      <4> QED
        BY <3>1, <4>1, <4>2 DEF Window
    <3> QED
      BY <1>11, <2>1, <2>3, <3>2
  <2> QED
    BY <2>4, <2>5
<1>13. GoodQuery(p)
  BY <1>4, <1>10, <1>11, <1>12 DEF GoodQuery
<1>14. query' = {p}
  BY <1>1, <1>9
<1>15. QueryInv'
  BY <1>13, <1>14 DEF QueryInv, GoodQuery
<1>16. \A m \in Snapshots' : m \in Snapshots
  BY <1>2, <1>4, <1>11, <1>14 DEF Snapshots
<1>17. SnapshotInv' /\ KnownInv'
  BY <1>1, <1>3, <1>8, <1>16, ReaderStep DEF ReaderInv
<1>18. DecodedInv'
  BY <1>1, <1>8 DEF DecodedInv
<1>19. BridgeInv'
  <2>1. Described => Described'
    BY <1>11, <1>14 DEF Described
  <2> QED
    BY <1>2, <1>3, <2>1 DEF ReaderInv, BridgeInv, OnDisk
<1> QED
  BY <1>15, <1>17, <1>18, <1>19 DEF ReaderInv

\* A step that drops the query, or keeps it, and opens nothing.
LEMMA CachesInv ==
  ASSUME WriterInv, ReaderInv, UNCHANGED <<disk, index, manifest>>,
         query' \subseteq query, files' \subseteq files, decoded' = decoded \/ decoded' = <<>>,
         \A m \in (local \cup shared \cup attached \cup base)' : m \in Snapshots \/ m \in OnDisk
  PROVE  SnapshotInv' /\ KnownInv' /\ DecodedInv' /\ QueryInv'
<1>1. \A m \in Snapshots' : m \in Snapshots \/ m \in OnDisk
  BY DEF Snapshots
<1>2. \A f \in files' : <<f.key.path, f.rows>> \in Known
  BY DEF Known
<1>3. SnapshotInv' /\ KnownInv'
  BY <1>1, <1>2, ReaderStep DEF ReaderInv
<1>4. DecodedInv'
  <2>1. <<>> \in Seq(DecodedSidecar)
    OBVIOUS
  <2> QED
    BY <2>1 DEF ReaderInv, DecodedInv
<1>5. QueryInv'
  BY DEF ReaderInv, QueryInv
<1> QED
  BY <1>3, <1>4, <1>5

\* A step that starts a query on a manifest that is held or on disk.
LEMMA StartInv ==
  ASSUME WriterInv, ReaderInv, UNCHANGED <<disk, index, manifest>>,
         NEW q, query' = {q}, GoodQuery(q), q.meta \in Snapshots \/ q.meta \in OnDisk,
         files' = files, decoded' = decoded,
         \A m \in (local \cup shared \cup attached \cup base)' : m \in Snapshots \/ m \in OnDisk
  PROVE  SnapshotInv' /\ KnownInv' /\ DecodedInv' /\ QueryInv'
<1>1. \A m \in Snapshots' : m \in Snapshots \/ m \in OnDisk
  BY DEF Snapshots
<1>2. \A f \in files' : <<f.key.path, f.rows>> \in Known
  BY DEF Known
<1>3. SnapshotInv' /\ KnownInv'
  BY <1>1, <1>2, ReaderStep DEF ReaderInv
<1>4. DecodedInv'
  BY DEF ReaderInv, DecodedInv
<1>5. QueryInv'
  BY DEF QueryInv, GoodQuery
<1> QED
  BY <1>3, <1>4, <1>5

(***************************************************************************)
(* The inventory: the records of the months add up                         *)
(***************************************************************************)
\* Sets of subsets of a finite set have minimal members.
LEMMA Minimal ==
  ASSUME NEW S, IsFiniteSet(S), NEW T \in SUBSET (SUBSET S), T # {}
  PROVE  \E x \in T : \A y \in T : ~ (y \subseteq x /\ y # x)
<1>1. IsWellFoundedOn(StrictSubsetOrdering(S), SUBSET S)
  BY FS_StrictSubsetOrderingWellFounded, FS_FiniteSubsetsOfFinite
<1>2. \E x \in T : \A y \in T : ~ (<<y, x>> \in StrictSubsetOrdering(S))
  BY <1>1, WFMin
<1> QED
  BY <1>2 DEF StrictSubsetOrdering

\* Function g on the subsets of S adds up the counts of h, in every order or in
\* some order.
AddsInAnyOrder(g, h, S) ==
  g[{}] = 0 /\ \A s \in SUBSET S : \A x \in s : g[s] = h[x].record_count + g[s \ {x}]

AddsInSomeOrder(g, h, S) ==
  /\ g[{}] = 0
  /\ \A s \in SUBSET S : s # {} => \E x \in s : g[s] = h[x].record_count + g[s \ {x}]

\* A sum does not depend on the order.
LEMMA SumIs ==
  ASSUME NEW S, IsFiniteSet(S), NEW h, NEW g, NEW f,
         AddsInAnyOrder(g, h, S), AddsInSomeOrder(f, h, S)
  PROVE  f[S] = g[S]
<1>0. /\ g[{}] = 0 /\ f[{}] = 0
      /\ \A s \in SUBSET S : \A x \in s : g[s] = h[x].record_count + g[s \ {x}]
      /\ \A s \in SUBSET S : s # {} => \E x \in s : f[s] = h[x].record_count + f[s \ {x}]
  BY DEF AddsInAnyOrder, AddsInSomeOrder
<1> SUFFICES ASSUME f[S] # g[S]
             PROVE  FALSE
  OBVIOUS
<1>1. PICK T \in SUBSET (SUBSET S) : T = {t \in SUBSET S : g[t] # f[t]}
  OBVIOUS
<1>2. PICK t \in T : \A y \in T : ~ (y \subseteq t /\ y # t)
  <2>1. T # {}
    BY <1>1
  <2> QED
    BY <2>1, Minimal
<1>3. t \in SUBSET S /\ g[t] # f[t] /\ t # {}
  BY <1>0, <1>1
<1>4. PICK x \in t : f[t] = h[x].record_count + f[t \ {x}]
  BY <1>0, <1>3
<1>5. PICK u \in SUBSET S : u = t \ {x}
  BY <1>3
<1>6. u \subseteq t /\ u # t
  BY <1>5
<1>7. g[u] = f[u]
  BY <1>1, <1>2, <1>6
<1>8. g[t] = h[x].record_count + g[t \ {x}]
  BY <1>0, <1>3
<1> QED
  BY <1>3, <1>4, <1>5, <1>7, <1>8

LEMMA RowsFinite ==
  ASSUME NEW C, IsFiniteSet(C), \A c \in C : GoodChunk(c)
  PROVE  IsFiniteSet(RowsOf(C))
<1> DEFINE T == {c.rows : c \in C}
           f == [c \in C |-> c.rows]
<1>1. f \in Surjection(C, T)
  BY DEF Surjection
<1>2. IsFiniteSet(T)
  BY <1>1, FS_Surjection
<1>3. \A R \in T : IsFiniteSet(R)
  BY DEF GoodChunk
<1>4. IsFiniteSet(UNION T)
  BY <1>2, <1>3, FS_UNION
<1> QED
  BY <1>4 DEF RowsOf

\* month_inventory and series_coverage of one manifest agree.
LEMMA InventoryAddsUp ==
  ASSUME NEW C \in SUBSET ChunkEntry, IsFiniteSet(C), \A c \in C : GoodChunk(c)
  PROVE  MapThenSumSet(LAMBDA k : month_inventory(C)[k].record_count, DOMAIN month_inventory(C))
           = series_coverage(C).total
<1> DEFINE S == MonthsOf(C)
           h == month_inventory(C)
           Of(s) == {c \in C : c.path.month \in s}
           g == [s \in SUBSET S |-> Cardinality(RowsOf(Of(s)))]
<1>1. DOMAIN h = S /\ \A x \in S : h[x].record_count = Cardinality(RowsOf(InMonth(C, x)))
  BY DEF month_inventory, RecordCount
<1>2. IsFiniteSet(S)
  <2> DEFINE f == [c \in C |-> c.path.month]
  <2>1. f \in Surjection(C, S)
    BY DEF Surjection, MonthsOf
  <2> QED
    BY <2>1, FS_Surjection
<1>3. \A s : IsFiniteSet(RowsOf(Of(s)))
  <2> SUFFICES ASSUME NEW s
               PROVE  IsFiniteSet(RowsOf(Of(s)))
    OBVIOUS
  <2>1. Of(s) \in SUBSET C
    OBVIOUS
  <2>2. IsFiniteSet(Of(s))
    BY <2>1, FS_Subset
  <2> HIDE DEF Of
  <2> QED
    BY <2>1, <2>2, RowsFinite
<1>4. g[{}] = 0
  <2>1. RowsOf(Of({})) = {}
    BY DEF RowsOf
  <2>2. g[{}] = Cardinality(RowsOf(Of({})))
    OBVIOUS
  <2> QED
    BY <2>1, <2>2, FS_EmptySet
<1>5. ASSUME NEW s \in SUBSET S, NEW x \in s
      PROVE  g[s] = h[x].record_count + g[s \ {x}]
  <2>1. PICK u \in SUBSET S : u = s \ {x}
    OBVIOUS
  <2>2. PICK A : A = RowsOf(InMonth(C, x))
    OBVIOUS
  <2>3. PICK B : B = RowsOf(Of(u))
    OBVIOUS
  <2>4. RowsOf(Of(s)) = A \cup B
    BY <2>1, <2>2, <2>3 DEF RowsOf, InMonth
  <2>5. A \cap B = {}
    <3> SUFFICES ASSUME NEW r \in A, r \in B
                 PROVE  FALSE
      OBVIOUS
    <3>1. PICK c \in C : c.path.month = x /\ r \in c.rows
      BY <2>2 DEF RowsOf, InMonth
    <3>2. PICK d \in C : d.path.month \in u /\ r \in d.rows
      BY <2>3 DEF RowsOf
    <3>3. MonthOf[r.ts] = x /\ MonthOf[r.ts] \in u
      BY <3>1, <3>2, RowMonth
    <3> QED
      BY <2>1, <3>3
  <2>6. InMonth(C, x) = Of({x})
    BY DEF InMonth
  <2>7. IsFiniteSet(A) /\ IsFiniteSet(B)
    BY <1>3, <2>2, <2>3, <2>6
  <2>8. Cardinality(A \cup B) = Cardinality(A) + Cardinality(B)
    <3>1. Cardinality(A \cup B) = Cardinality(A) + Cardinality(B) - Cardinality(A \cap B)
      BY <2>7, FS_Union
    <3>2. Cardinality(A \cap B) = 0 /\ Cardinality(A) \in Nat /\ Cardinality(B) \in Nat
      BY <2>5, <2>7, FS_EmptySet, FS_CardinalityType
    <3> QED
      BY <3>1, <3>2
  <2>9. g[s] = Cardinality(RowsOf(Of(s))) /\ g[u] = Cardinality(RowsOf(Of(u)))
    OBVIOUS
  <2>10. h[x].record_count = Cardinality(A)
    BY <1>1, <2>2
  <2> QED
    BY <2>1, <2>3, <2>4, <2>8, <2>9, <2>10
<1>6. g[S] = Cardinality(RowsOf(C))
  <2>1. Of(S) = C
    BY DEF MonthsOf
  <2> QED
    BY <2>1
<1>7. series_coverage(C).total = Cardinality(RowsOf(C))
  BY AllReadable DEF series_coverage, RecordCount
<1> DEFINE first(s) == CHOOSE x \in s : TRUE
           Rec(f) == [s \in SUBSET S |-> IF s = {} THEN 0
                                         ELSE h[first(s)].record_count + f[s \ {first(s)}]]
           sum == CHOOSE f : f = Rec(f)
<1> HIDE DEF h, S
<1>8. MapThenSumSet(LAMBDA k : h[k].record_count, S) = sum[S]
  BY DEF MapThenSumSet, MapThenFoldSet
<1>9. \A s : s # {} => first(s) \in s
  OBVIOUS
<1>10. g = Rec(g)
  <2> SUFFICES ASSUME NEW s \in SUBSET S
               PROVE  g[s] = IF s = {} THEN 0 ELSE h[first(s)].record_count + g[s \ {first(s)}]
    BY Zenon
  <2> HIDE DEF g
  <2> QED
    BY <1>4, <1>5, <1>9
<1>11. sum = Rec(sum)
  <2> HIDE DEF Rec, g
  <2> QED
    BY <1>10
<1> HIDE DEF sum, first, g
<1>12. \A s \in SUBSET S : sum[s] = IF s = {} THEN 0
                                   ELSE h[first(s)].record_count + sum[s \ {first(s)}]
  BY <1>11
<1>13. AddsInAnyOrder(g, h, S)
  BY <1>4, <1>5 DEF AddsInAnyOrder
<1>14. AddsInSomeOrder(sum, h, S)
  BY <1>9, <1>12 DEF AddsInSomeOrder
<1>15. sum[S] = g[S]
  BY <1>2, <1>13, <1>14, SumIs
<1> QED
  BY <1>1, <1>6, <1>7, <1>8, <1>15 DEF h

(***************************************************************************)
(* The steps of readers                                                    *)
(***************************************************************************)
LEMMA HeldIsGood ==
  ASSUME WriterInv, ReaderInv, NEW m, m \in Snapshots \/ m \in OnDisk
  PROVE  \A c \in m.chunks : c \in ChunkEntry /\ GoodChunk(c)
<1>1. CASE m \in Snapshots
  BY <1>1 DEF ReaderInv, SnapshotInv
<1>2. CASE m \in OnDisk
  <2>1. m.chunks = manifest
    BY <1>2 DEF OnDisk
  <2> QED
    BY <2>1, EntryIsGood DEF WriterInv, TypeInv
<1> QED
  BY <1>1, <1>2

LEMMA SessionControlInv ==
  ASSUME WriterInv, ReaderInv, UNCHANGED <<disk, index, manifest>>, base' = base,
         Attach \/ Inventory \/ ResetCaches \/ FullDetach \/ ClearReadCaches
  PROVE  SnapshotInv' /\ KnownInv' /\ DecodedInv' /\ QueryInv' /\ (Described => Described')
<1>1. local \cup shared \cup attached \cup base \subseteq Snapshots
  BY DEF Snapshots
<1>2. LoadMeta \subseteq local \cup shared \cup OnDisk
  BY DEF LoadMeta
<1>3. query' = query /\ (files' = files \/ files' = {}) /\ (decoded' = decoded \/ decoded' = <<>>)
  BY DEF Attach, Inventory, ResetCaches, FullDetach, ClearReadCaches
<1>4. /\ local' \subseteq local \cup LoadMeta /\ shared' \subseteq shared \cup OnDisk
      /\ attached' \subseteq attached \cup LoadMeta
  BY DEF Attach, Loaded, Inventory, ResetCaches, FullDetach, ClearReadCaches
<1>5. \A m \in (local \cup shared \cup attached \cup base)' : m \in Snapshots \/ m \in OnDisk
  BY <1>1, <1>2, <1>4
<1>6. Described => Described'
  BY <1>3 DEF Described
<1> QED
  BY <1>3, <1>5, <1>6, CachesInv

LEMMA PrewarmInv ==
  ASSUME WriterInv, ReaderInv, UNCHANGED <<disk, index, manifest>>, base' = base, Prewarm
  PROVE  SnapshotInv' /\ KnownInv' /\ DecodedInv' /\ QueryInv' /\ Described'
<1>1. PICK m \in attached :
        query' = {[Asking("prewarm", m, 1, 0) EXCEPT !.chunks =
                     {c \in m.chunks : \/ \A d \in m.chunks : c.start <= d.start
                                       \/ \A d \in m.chunks : d.start <= c.start}]}
  BY DEF Prewarm
<1>2. PICK C \in SUBSET m.chunks : query' = {[Asking("prewarm", m, 1, 0) EXCEPT !.chunks = C]}
  BY <1>1
<1>3. PICK q : q = [Asking("prewarm", m, 1, 0) EXCEPT !.chunks = C]
  OBVIOUS
<1>4. local \cup shared \cup attached \cup base \subseteq Snapshots /\ m \in Snapshots
  BY DEF Snapshots
<1>a. q = [how |-> "prewarm", meta |-> m, chunks |-> C, lo |-> 1, hi |-> 0,
           want |-> Window(RowsOf(Readable(m.chunks)), 1, 0), rows |-> {},
           described |-> Window(RowsOf(Readable(m.chunks)), 1, 0)]
  BY <1>3 DEF Asking
<1>b. \A c \in m.chunks : c \in ChunkEntry /\ GoodChunk(c)
  BY <1>4, HeldIsGood
<1>5. GoodQuery(q) /\ q.meta = m /\ q.described = q.want
  BY <1>a, <1>b, PrewarmIsGood
<1>6. UNCHANGED <<local, shared, attached, files, decoded>>
  BY DEF Prewarm, caches
<1>7. \A n \in (local \cup shared \cup attached \cup base)' : n \in Snapshots \/ n \in OnDisk
  BY <1>4, <1>6
<1>8. Described'
  BY <1>2, <1>3, <1>5 DEF Described
<1> QED
  BY <1>2, <1>3, <1>4, <1>5, <1>6, <1>7, <1>8, StartInv

LEMMA SessionQueryInv ==
  ASSUME WriterInv, ReaderInv, UNCHANGED <<disk, index, manifest>>, base' = base,
         NEW how \in Searches, NEW lo \in Int, NEW hi \in Int,
         SessionQuery(how, lo, hi) \/ StoreQuery(how, lo, hi)
  PROVE  SnapshotInv' /\ KnownInv' /\ DecodedInv' /\ QueryInv' /\ Described'
<1>1. local \cup shared \cup attached \cup base \subseteq Snapshots
  BY DEF Snapshots
<1>2. LoadMeta \subseteq local \cup shared \cup OnDisk
  BY DEF LoadMeta
<1>3. PICK m \in attached \cup LoadMeta : query' = {Asking(how, m, lo, hi)}
  BY DEF SessionQuery, StoreQuery
<1>4. m \in Snapshots \/ m \in OnDisk
  BY <1>1, <1>2
<1>5. PICK q : q = Asking(how, m, lo, hi)
  OBVIOUS
<1>6. GoodQuery(q) /\ q.meta = m /\ q.described = q.want
  BY <1>4, <1>5, HeldIsGood, AskingIsGood
<1>7. /\ files' = files /\ decoded' = decoded /\ attached' = attached
      /\ local' \subseteq local \cup LoadMeta /\ shared' \subseteq shared \cup OnDisk
  BY DEF SessionQuery, StoreQuery, Loaded, caches
<1>8. \A n \in (local \cup shared \cup attached \cup base)' : n \in Snapshots \/ n \in OnDisk
  BY <1>1, <1>2, <1>7
<1>9. Described'
  BY <1>3, <1>5, <1>6 DEF Described
<1> QED
  BY <1>3, <1>4, <1>5, <1>6, <1>7, <1>8, <1>9, StartInv

LEMMA SessionInv ==
  ASSUME WriterInv, ReaderInv, SessionNext, UNCHANGED <<writer, handle, base>>
  PROVE  ReaderInv'
<1>1. UNCHANGED <<disk, index, manifest>> /\ base' = base /\ UNCHANGED <<sides, registered, lock, handle>>
  BY DEF writer, durable
<1>2. ASSUME Described => Described'
      PROVE  BridgeInv'
  BY <1>1, <1>2 DEF ReaderInv, BridgeInv, OnDisk
<1>3. \A w \in Windows : w[1] \in Int /\ w[2] \in Int
  BY ViewsAssumption, RangeAssumption
<1>4. CASE SessionControl
  BY <1>1, <1>4, SessionControlInv, PrewarmInv, <1>2 DEF SessionControl, ReaderInv
<1>5. CASE SessionReads
  <2>1. PICK w \in Windows : SessionRead(w[1], w[2]) \/ StoreRead(w[1], w[2])
    BY <1>5 DEF SessionReads
  <2>2. SessionQuery("raw", w[1], w[2]) \/ StoreQuery("raw", w[1], w[2])
    BY <2>1 DEF SessionRead, StoreRead
  <2>3. "raw" \in Searches
    BY DEF Searches
  <2> QED
    BY <1>1, <1>2, <1>3, <2>2, <2>3, SessionQueryInv DEF ReaderInv
<1>6. CASE SessionSearches
  <2>1. PICK how \in Searches, w \in Windows :
          SessionSearch(how, w[1], w[2]) \/ StoreSearch(how, w[1], w[2])
    BY <1>6 DEF SessionSearches
  <2>2. SessionQuery(how, w[1], w[2]) \/ StoreQuery(how, w[1], w[2])
    BY <2>1 DEF SessionSearch, StoreSearch
  <2> QED
    BY <1>1, <1>2, <1>3, <2>2, SessionQueryInv DEF ReaderInv
<1> QED
  BY <1>4, <1>5, <1>6 DEF SessionNext

LEMMA QueryEndInv ==
  ASSUME WriterInv, ReaderInv, QueryFails \/ QueryDone, UNCHANGED writer
  PROVE  ReaderInv'
<1>1. UNCHANGED <<disk, index, manifest, sides, registered, lock>>
  BY DEF writer, durable
<1>2. UNCHANGED <<handle, base, local, shared, attached, files, decoded>> /\ query' = {}
  BY DEF QueryFails, QueryDone, caches
<1>3. BridgeInv'
  BY <1>1, <1>2 DEF ReaderInv, BridgeInv, OnDisk, Described
<1>4. \A m \in (local \cup shared \cup attached \cup base)' : m \in Snapshots \/ m \in OnDisk
  BY <1>2 DEF Snapshots
<1>5. SnapshotInv' /\ KnownInv' /\ DecodedInv' /\ QueryInv'
  BY <1>1, <1>2, <1>4, CachesInv
<1> QED
  BY <1>3, <1>5 DEF ReaderInv

\* A command reads the rows of its second load; with the lock the description,
\* from the first, is of the same manifest.
LEMMA BridgeReadInv ==
  ASSUME WriterInv, ReaderInv, UNCHANGED <<disk, index, manifest>>,
         NEW how \in Searches, NEW lo \in Int, NEW hi \in Int,
         BridgeRead(lo, hi) \/ query_scalar_predicate(how, lo, hi)
  PROVE  /\ SnapshotInv' /\ KnownInv' /\ DecodedInv' /\ QueryInv'
         /\ handle = "ro" => Described'
<1>1. local \cup shared \cup attached \cup base \subseteq Snapshots
  BY DEF Snapshots
<1>2. UNCHANGED <<base, shared, attached, files, decoded>> /\ local' = OnDisk
  BY DEF BridgeRead, query_scalar_predicate
<1>3. \A n \in (local \cup shared \cup attached \cup base)' : n \in Snapshots \/ n \in OnDisk
  BY <1>1, <1>2
<1>4. ASSUME NEW m \in OnDisk, NEW q, query' = {q}, GoodQuery(q), q.meta = m,
             handle = "ro" => q.described = q.want
      PROVE  /\ SnapshotInv' /\ KnownInv' /\ DecodedInv' /\ QueryInv'
             /\ handle = "ro" => Described'
  <2>1. handle = "ro" => Described'
    BY <1>4 DEF Described
  <2> QED
    BY <1>2, <1>3, <1>4, <2>1, StartInv
<1>5. CASE query_scalar_predicate(how, lo, hi)
  <2>1. PICK m \in OnDisk : query' = {Asking(how, m, lo, hi)}
    BY <1>5 DEF query_scalar_predicate
  <2>2. PICK q : q = Asking(how, m, lo, hi)
    OBVIOUS
  <2>3. GoodQuery(q) /\ q.meta = m /\ q.described = q.want
    BY <2>2, HeldIsGood, AskingIsGood
  <2> QED
    BY <1>4, <2>1, <2>2, <2>3
<1>6. CASE BridgeRead(lo, hi)
  <2>1. PICK b \in base, m \in OnDisk :
          query' = {[Asking("raw", m, lo, hi) EXCEPT
                       !.described = Window(RowsOf(Readable(b.chunks)), lo, hi)]}
    BY <1>6 DEF BridgeRead
  <2>2. ASSUME handle = "ro" PROVE b.chunks = m.chunks
    BY <2>2 DEF ReaderInv, BridgeInv, OnDisk
  <2>3. "raw" \in Searches
    BY DEF Searches
  <2>4. PICK w : w = Window(RowsOf(Readable(b.chunks)), lo, hi)
    OBVIOUS
  <2>5. PICK q : q = [Asking("raw", m, lo, hi) EXCEPT !.described = w]
    OBVIOUS
  <2>6. q = [how |-> "raw", meta |-> m, chunks |-> ChunksFor(m.chunks, lo, hi), lo |-> lo,
             hi |-> hi, want |-> Window(RowsOf(Readable(m.chunks)), lo, hi), rows |-> {},
             described |-> w]
    BY <2>5 DEF Asking
  <2>7. \A c \in m.chunks : c \in ChunkEntry /\ GoodChunk(c)
    BY HeldIsGood
  <2>8. /\ GoodQuery(q) /\ q.meta = m /\ q.described = w
        /\ q.want = Window(RowsOf(Readable(m.chunks)), lo, hi)
    BY <2>3, <2>6, <2>7, DescribedIsGood
  <2>9. handle = "ro" => q.described = q.want
    BY <2>2, <2>4, <2>8
  <2>10. query' = {q}
    BY <2>1, <2>4, <2>5
  <2> QED
    BY <1>4, <2>8, <2>9, <2>10
<1> QED
  BY <1>5, <1>6

LEMMA BridgeInventoryInv ==
  ASSUME WriterInv, ReaderInv, UNCHANGED <<disk, index, manifest>>, BridgeInventory
  PROVE  /\ SnapshotInv' /\ KnownInv' /\ DecodedInv' /\ QueryInv'
         /\ handle = "ro" => Described'
<1>1. PICK b \in base, m \in OnDisk :
        query' = {[chunks |-> {}, want |-> series_coverage(m.chunks).total,
                   rows |-> MapThenSumSet(LAMBDA k : month_inventory(m.chunks)[k].record_count,
                                          DOMAIN month_inventory(m.chunks)),
                   described |-> series_coverage(b.chunks).total]}
  BY DEF BridgeInventory
<1>2. handle = "ro" => b.chunks = m.chunks
  BY DEF ReaderInv, BridgeInv, OnDisk
<1>3. m.chunks = manifest
  BY DEF OnDisk
<1>4. MapThenSumSet(LAMBDA k : month_inventory(m.chunks)[k].record_count,
                    DOMAIN month_inventory(m.chunks)) = series_coverage(m.chunks).total
  <2>1. m.chunks \in SUBSET ChunkEntry /\ IsFiniteSet(m.chunks) /\ \A c \in m.chunks : GoodChunk(c)
    BY <1>3, EntryIsGood DEF WriterInv, TypeInv, GoodEntries
  <2> QED
    BY <2>1, InventoryAddsUp
<1>5. PICK total : total = series_coverage(m.chunks).total
  OBVIOUS
<1>a. PICK said : said = series_coverage(b.chunks).total
  OBVIOUS
<1>6. query' = {[chunks |-> {}, want |-> total, rows |-> total, described |-> said]}
  BY <1>1, <1>4, <1>5, <1>a
<1>7. PICK q : q = [chunks |-> {}, want |-> total, rows |-> total, described |-> said]
  OBVIOUS
<1>8. query' = {q} /\ q.chunks = {} /\ q.rows = q.want
  BY <1>6, <1>7
<1>b. handle = "ro" => Described'
  <2>1. handle = "ro" => said = total
    BY <1>2, <1>5, <1>a
  <2> QED
    BY <1>7, <1>8, <2>1 DEF Described
<1>9. QueryInv'
  BY <1>8 DEF QueryInv
<1>10. UNCHANGED <<base, shared, attached, files, decoded>> /\ local' = OnDisk
  BY DEF BridgeInventory
<1>11. \A n \in Snapshots' : n \in Snapshots \/ n \in OnDisk
  BY <1>8, <1>10 DEF Snapshots
<1>12. \A f \in files' : <<f.key.path, f.rows>> \in Known
  BY <1>10 DEF Known
<1>13. SnapshotInv' /\ KnownInv'
  BY <1>11, <1>12, ReaderStep DEF ReaderInv
<1>14. DecodedInv'
  BY <1>10 DEF ReaderInv, DecodedInv
<1> QED
  BY <1>9, <1>13, <1>14, <1>b

LEMMA BridgeStepInv ==
  ASSUME WriterInv, ReaderInv, BridgeNext, UNCHANGED unlocked
  PROVE  WriterInv' /\ ReaderInv'
<1>1. UNCHANGED <<disk, index, manifest>> /\ UNCHANGED <<sides, registered, pc>>
  BY DEF unlocked, durable
<1>2. OnDisk' = OnDisk
  BY <1>1 DEF OnDisk
<1>3. \A w \in Windows : w[1] \in Int /\ w[2] \in Int
  BY ViewsAssumption, RangeAssumption
<1>4. local \cup shared \cup attached \cup base \subseteq Snapshots
  BY DEF Snapshots
<1>5. CASE BridgeOpen
  <2>1. /\ lock = "free" /\ lock' = "read" /\ handle' = "ro" /\ handle = "closed"
        /\ UNCHANGED <<base, local, shared, attached, files, decoded, query>>
    BY <1>5 DEF BridgeOpen, caches
  <2>2. BridgeInv'
    BY <1>2, <2>1 DEF ReaderInv, BridgeInv, Described
  <2>3. SnapshotInv' /\ KnownInv' /\ DecodedInv' /\ QueryInv'
    BY <1>1, <1>4, <2>1, CachesInv
  <2>4. pc = "idle"
    BY <2>1 DEF WriterInv, PhaseInv
  <2> QED
    BY <2>2, <2>3, <2>4, WriterApart DEF ReaderInv
<1>p. CASE BridgeProbe
  <2>1. /\ handle' = "probe" /\ lock' = lock
        /\ UNCHANGED <<base, local, shared, attached, files, decoded, query>>
    BY <1>p DEF BridgeProbe, caches
  <2>2. BridgeInv'
    BY <2>1 DEF BridgeInv
  <2>3. SnapshotInv' /\ KnownInv' /\ DecodedInv' /\ QueryInv'
    BY <1>1, <1>4, <2>1, CachesInv
  <2> QED
    BY <2>1, <2>2, <2>3, WriterApart DEF ReaderInv
<1>6. CASE BridgeClose
  <2>1. /\ lock' = IF handle = "ro" THEN "free" ELSE lock
        /\ handle' = "closed" /\ base' = {} /\ local' = {} /\ query = {}
        /\ files' = {} /\ decoded' = <<>> /\ UNCHANGED <<shared, attached, query>>
    BY <1>6 DEF BridgeClose
  <2>2. BridgeInv'
    BY <2>1 DEF BridgeInv, Described
  <2>3. SnapshotInv' /\ KnownInv' /\ DecodedInv' /\ QueryInv'
    BY <1>1, <1>4, <2>1, CachesInv
  <2>4. pc # "idle" => lock' = lock
    BY <2>1 DEF WriterInv, PhaseInv, ReaderInv, BridgeInv
  <2> QED
    BY <2>2, <2>3, <2>4, WriterApart DEF ReaderInv
<1>7. CASE BridgeMeta
  <2>1. /\ handle # "closed" /\ base' = OnDisk
        /\ UNCHANGED <<lock, handle, local, shared, attached, files, decoded, query>>
    BY <1>7 DEF BridgeMeta, caches
  <2>2. BridgeInv'
    BY <1>2, <2>1 DEF ReaderInv, BridgeInv, Described
  <2>3. SnapshotInv' /\ KnownInv' /\ DecodedInv' /\ QueryInv'
    BY <1>1, <1>4, <2>1, CachesInv
  <2> QED
    BY <2>1, <2>2, <2>3, WriterApart DEF ReaderInv
<1>8. ASSUME SnapshotInv' /\ KnownInv' /\ DecodedInv' /\ QueryInv', UNCHANGED <<lock, handle, base>>,
             handle # "closed", handle = "ro" => Described'
      PROVE  WriterInv' /\ ReaderInv'
  <2>1. BridgeInv'
    BY <1>2, <1>8 DEF ReaderInv, BridgeInv
  <2> QED
    BY <1>8, <2>1, WriterApart DEF ReaderInv
<1>9. CASE kline_inventory \/ scalar_inventory
  <2>1. BridgeInventory /\ UNCHANGED <<lock, handle, base>> /\ handle # "closed"
    BY <1>9 DEF kline_inventory, scalar_inventory, BridgeInventory
  <2> QED
    BY <1>1, <1>8, <2>1, BridgeInventoryInv
<1>10. ASSUME NEW w \in Windows, NEW how \in Predicates,
              \/ read_kline_range(w[1], w[2]) \/ read_scalar_range(w[1], w[2])
              \/ query_scalar_predicate(how, w[1], w[2])
       PROVE  WriterInv' /\ ReaderInv'
  <2>1. /\ BridgeRead(w[1], w[2]) \/ query_scalar_predicate(how, w[1], w[2])
        /\ how \in Searches
    BY <1>10 DEF read_kline_range, read_scalar_range, Searches
  <2>2. UNCHANGED <<lock, handle, base>> /\ handle # "closed"
    BY <2>1 DEF BridgeRead, query_scalar_predicate
  <2> QED
    BY <1>1, <1>3, <1>8, <2>1, <2>2, BridgeReadInv
<1>11. "discrete" \in Predicates
  BY DEF Predicates
<1> QED
  BY <1>5, <1>p, <1>6, <1>7, <1>9, <1>10, <1>11 DEF BridgeNext

(***************************************************************************)
(* The invariant                                                           *)
(***************************************************************************)
LEMMA InitInv ==
  ASSUME Init
  PROVE  IInv
<1>1. WriterInv /\ disk = {} /\ index = {}
  BY WriterInitInv DEF Init, WriterInit
<1>2. /\ local = {} /\ shared = {} /\ attached = {} /\ files = {} /\ decoded = <<>>
      /\ handle = "closed" /\ base = {} /\ query = {}
  BY DEF Init
<1>3. Snapshots = {}
  BY <1>2 DEF Snapshots
<1>4. Known = {}
  BY <1>1, <1>2, <1>3 DEF Known
<1>5. SnapshotInv /\ KnownInv /\ QueryInv /\ BridgeInv
  BY <1>2, <1>3, <1>4 DEF SnapshotInv, KnownInv, QueryInv, BridgeInv, Described
<1>6. <<>> \in Seq(DecodedSidecar)
  OBVIOUS
<1>7. DecodedInv
  BY <1>2, <1>6 DEF DecodedInv
<1> QED
  BY <1>1, <1>5, <1>7 DEF IInv, ReaderInv

LEMMA NextInv ==
  ASSUME IInv, [Next]_vars
  PROVE  IInv'
<1>1. WriterInv /\ ReaderInv
  BY DEF IInv
<1>2. ASSUME UNCHANGED writer
      PROVE  WriterInv'
  <2>1. UNCHANGED unlocked /\ lock' = lock
    BY <1>2 DEF writer, unlocked
  <2> QED
    BY <1>1, <2>1, WriterApart
<1>3. CASE WriterNext /\ UNCHANGED readers
  BY <1>1, <1>3, WriterStep, ReadersApart DEF IInv
<1>4. CASE SessionNext /\ UNCHANGED <<writer, handle, base>>
  BY <1>1, <1>2, <1>4, SessionInv DEF IInv
<1>5. CASE (QueryChunk \/ QueryFails \/ QueryDone) /\ UNCHANGED writer
  BY <1>1, <1>2, <1>5, QueryChunkInv, QueryEndInv DEF IInv
<1>6. CASE BridgeNext /\ UNCHANGED unlocked
  BY <1>1, <1>6, BridgeStepInv DEF IInv
<1>7. CASE UNCHANGED vars
  <2>1. UNCHANGED writer /\ UNCHANGED readers
    BY <1>7 DEF vars
  <2>2. /\ UNCHANGED <<disk, index, manifest, sides, registered, lock>>
        /\ UNCHANGED <<handle, base, local, shared, attached, files, decoded, query>>
    BY <2>1 DEF writer, durable, readers, caches
  <2>3. BridgeInv'
    BY <1>1, <2>2 DEF ReaderInv, BridgeInv, OnDisk, Described
  <2>4. SnapshotInv' /\ KnownInv' /\ DecodedInv' /\ QueryInv'
    BY <1>1, <2>2, CachesInv DEF Snapshots
  <2> QED
    BY <1>2, <2>1, <2>3, <2>4 DEF IInv, ReaderInv
<1> QED
  BY <1>3, <1>4, <1>5, <1>6, <1>7 DEF Next

(***************************************************************************)
(* What the invariant says to callers                                      *)
(***************************************************************************)
LEMMA ToldMonthsStay ==
  ASSUME WriterInv
  PROVE  CompletedMonthsStay
BY DEF WriterInv, ToldInv, Shown, CompletedMonthsStay

LEMMA PrefixShown ==
  ASSUME WriterInv, NEW v \in 1..Len(asked), NEW m \in Remainder(v), NEW n \in BatchMonths(v), m < n
  PROVE  n \in Remainder(v)
<1> SUFFICES ASSUME Shown(v, n)
             PROVE  FALSE
  BY DEF Remainder
<1>1. asked \in Seq(SUBSET Ts)
  BY DEF WriterInv, TypeInv
<1>2. PICK r \in Batch(v, n) : TRUE
  BY <1>1, BatchRows
<1>3. r.ver = v /\ MonthOf[r.ts] = n /\ r \in ShownRows
  BY <1>1, BatchRows DEF Shown
<1>4. m \in BatchMonths(v) /\ ~ Shown(v, m)
  BY DEF Remainder
<1>5. Shown(v, m)
  BY <1>3, <1>4, ShownRowsWhole DEF Ordered
<1> QED
  BY <1>4, <1>5

\* The name of the next chunk of a month is free once all files are settled.
LEMMA NextPathFree ==
  ASSUME WriterInv, AllSettled(manifest), NEW m \in Months,
         NEW g \in NextGeneration(InMonth(manifest, m))
  PROVE  NextPath(m, InMonth(manifest, m), g) \notin Paths(disk)
<1> SUFFICES ASSUME NEW f \in disk, f.path = NextPath(m, InMonth(manifest, m), g)
             PROVE  FALSE
  BY DEF Paths
<1>1. manifest \in SUBSET ChunkEntry /\ kind \in Kinds /\ f \in File /\ GoodChunk(f)
  BY DEF WriterInv, TypeInv, GoodDisk
<1>2. /\ f.path.month = m /\ g \in Nat
      /\ f.path.kind = "base" => InMonth(manifest, m) = {}
      /\ f.path.kind # "base" => f.path.gen = g
      /\ \A c \in InMonth(manifest, m) : c.gen < g
  BY <1>1, NextPathIs
<1>3. PICK c \in manifest : c.path.month = m /\ f.gen <= c.gen
  BY <1>1, <1>2, SettledEntry DEF AllSettled
<1>4. c \in InMonth(manifest, m) /\ c \in ChunkEntry
  BY <1>1, <1>3 DEF InMonth
<1>5. f.path.gen = g /\ c.gen < g /\ f.path.gen <= f.gen
  BY <1>1, <1>2, <1>4 DEF GoodChunk
<1>6. f.gen \in Nat /\ c.gen \in Nat /\ f.path.gen \in Nat
  BY <1>1, <1>4, Numbers
<1> QED
  BY <1>3, <1>5, <1>6

LEMMA RequestsResume ==
  ASSUME WriterInv
  PROVE  ResumeWorks
<1>1. asked \in Seq(SUBSET Ts) /\ manifest \in SUBSET ChunkEntry
  BY DEF WriterInv, TypeInv
<1>2. \A v \in 1..Len(asked), m \in Months : Shown(v, m) \/ Batch(v, m) \cap ShownRows = {}
  BY <1>1, ShownRowsWhole, WholeOrNothing DEF Shown
<1>3. \A v \in 1..Len(asked) : \A m \in Remainder(v), n \in BatchMonths(v) :
        m < n => n \in Remainder(v)
  BY PrefixShown
<1>4. ASSUME ~ marker, NEW v \in resumable
      PROVE  /\ ~ preflight_overlap(v, Remainder(v))
             /\ \A m \in Remainder(v) : \A g \in NextGeneration(InMonth(manifest, m)) :
                  NextPath(m, InMonth(manifest, m), g) \notin Paths(disk)
  <2>1. /\ v \in 1..Len(asked)
        /\ \A m \in Remainder(v) : \A c \in InMonth(manifest, m), r \in Batch(v, m) : c.end < r.ts
    BY <1>1 DEF WriterInv, ResumeInv
  <2>2. AllSettled(manifest)
    BY <1>4 DEF WriterInv, PhaseInv
  <2>3. ~ preflight_overlap(v, Remainder(v))
    <3> SUFFICES ASSUME NEW m \in Remainder(v), NEW c \in Readable(InMonth(manifest, m)),
                        NEW r \in Batch(v, m), r.ts <= c.end
                 PROVE  FALSE
      BY DEF preflight_overlap
    <3>1. c \in InMonth(manifest, m) /\ c \in ChunkEntry /\ c.end < r.ts
      BY <1>1, <2>1 DEF Readable, InMonth
    <3>2. c.end \in Int
      BY <3>1, Numbers
    <3>3. r \in Row
      BY <1>1, <2>1, BatchRows
    <3>4. r.ts \in Int
      BY <3>3, RangeAssumption DEF Row
    <3> QED
      BY <3>1, <3>2, <3>4
  <2>4. \A m \in Remainder(v) : m \in Months
    BY <1>1, <2>1, BatchRows DEF Remainder
  <2> QED
    BY <2>2, <2>3, <2>4, NextPathFree
<1> QED
  BY <1>2, <1>3, <1>4 DEF ResumeWorks

(***************************************************************************)
(* What the health check finds                                             *)
(***************************************************************************)
\* overlap_groups of disjoint chunks: each is alone in its group.
LEMMA DisjointGroups ==
  ASSUME NEW S \in SUBSET ChunkEntry, \A c \in S : c.start <= c.end,
         \A c, d \in S : c # d => ~ RangesOverlap(c, d)
  PROVE  overlap_groups(S) = {}
<1>1. \A c \in S : c.start \in Int /\ c.end \in Int
  BY Numbers
<1>2. ASSUME NEW c \in S, NEW d \in S, c # d
      PROVE  c.end < d.start \/ d.end < c.start
  BY <1>1, <1>2 DEF RangesOverlap
<1>3. ASSUME NEW d \in S
      PROVE  IsCut(S, d.start)
  BY <1>1, <1>2 DEF IsCut
<1>4. ASSUME NEW c \in S, NEW d \in S, c # d
      PROVE  ~ SameGroup(S, c, d)
  <2>1. CASE c.end < d.start
    <3>1. c.start < d.start /\ ~ (d.start < d.start)
      BY <1>1, <2>1
    <3> QED
      BY <1>3, <3>1 DEF SameGroup
  <2>2. CASE d.end < c.start
    <3>1. d.start < c.start /\ ~ (c.start < c.start)
      BY <1>1, <2>2
    <3> QED
      BY <1>3, <3>1 DEF SameGroup
  <2> QED
    BY <1>2, <1>4, <2>1, <2>2
<1>5. \A c \in S : OverlapGroup(S, c) \subseteq {c}
  BY <1>4 DEF OverlapGroup
<1>6. \A c \in S : ~ (Cardinality(OverlapGroup(S, c)) > 1)
  <2> SUFFICES ASSUME NEW c \in S
               PROVE  ~ (Cardinality(OverlapGroup(S, c)) > 1)
    OBVIOUS
  <2>1. IsFiniteSet({c}) /\ Cardinality({c}) = 1
    BY FS_Singleton
  <2>2. OverlapGroup(S, c) \in SUBSET {c}
    BY <1>5
  <2>3. /\ IsFiniteSet(OverlapGroup(S, c)) /\ Cardinality(OverlapGroup(S, c)) <= 1
    BY <2>1, <2>2, FS_Subset
  <2>4. Cardinality(OverlapGroup(S, c)) \in Nat
    BY <2>3, FS_CardinalityType
  <2> QED
    BY <2>3, <2>4
<1> QED
  BY <1>6 DEF overlap_groups

\* Kline files are disjoint, and so are the entries of either kind.
LEMMA KlineFilesDisjoint ==
  ASSUME disk \subseteq File, GoodDisk, kind # "scalar", NEW f \in disk, NEW g \in disk, f # g
  PROVE  ~ RangesOverlap(f, g)
<1> SUFFICES ASSUME RangesOverlap(f, g)
             PROVE  FALSE
  OBVIOUS
<1>1. f \in File /\ g \in File /\ GoodChunk(f) /\ GoodChunk(g)
  BY DEF GoodDisk
<1>2. f.path.month = g.path.month
  BY <1>1, OverlapInMonth
<1>3. Before(f, g) \/ Before(g, f)
  BY <1>2 DEF GoodDisk, Older
<1> QED
  BY <1>1, <1>3, BeforeDisjoint

LEMMA EntriesDisjoint ==
  ASSUME WriterInv
  PROVE  overlap_groups(manifest) = {}
<1>1. /\ manifest \in SUBSET ChunkEntry /\ disk \subseteq File /\ GoodDisk /\ GoodEntries(manifest)
  BY DEF WriterInv, TypeInv
<1>2. \A c \in manifest : c \in ChunkEntry /\ GoodChunk(c) /\ FileOf(c) \in disk
  BY <1>1, EntryIsGood
<1>3. \A c \in manifest : c.start <= c.end
  BY <1>2, GoodRange
<1>4. ASSUME NEW c \in manifest, NEW d \in manifest, c # d
      PROVE  ~ RangesOverlap(c, d)
  <2>1. CASE kind = "scalar"
    <3>1. c.path.month # d.path.month
      BY <1>1, <1>4, <2>1 DEF GoodEntries
    <3> QED
      BY <1>2, <3>1, OverlapInMonth
  <2>2. CASE kind # "scalar"
    <3>1. c.path # d.path
      BY <1>1, <1>4 DEF GoodEntries
    <3>2. FileOf(c) # FileOf(d)
      BY <1>2, <3>1, FileOfEntry
    <3>3. ~ RangesOverlap(FileOf(c), FileOf(d))
      BY <1>1, <1>2, <2>2, <3>2, KlineFilesDisjoint
    <3> QED
      BY <1>2, <3>3, FileOfEntry DEF RangesOverlap
  <2> QED
    BY <2>1, <2>2
<1> QED
  BY <1>1, <1>3, <1>4, DisjointGroups

LEMMA ScannedFiles ==
  ASSUME disk \subseteq File, GoodDisk, NEW S, S = {Scanned(f) : f \in disk}
  PROVE  /\ S \in SUBSET ChunkEntry
         /\ \A c \in S : c \in ChunkEntry /\ GoodChunk(c) /\ FileOf(c) \in disk
                         /\ c = Scanned(FileOf(c)) /\ c.start <= c.end
         /\ \A f \in disk : Scanned(f) \in S
<1>1. \A f \in disk : /\ Scanned(f) \in ChunkEntry /\ FileOf(Scanned(f)) = f /\ GoodChunk(f)
  BY ScannedFile DEF GoodDisk
<1>2. \A f \in disk : GoodChunk(Scanned(f))
  BY <1>1, GoodFileOf
<1>3. \A f \in disk : Scanned(f).start <= Scanned(f).end
  BY <1>1, <1>2, GoodRange
<1> QED
  BY <1>1, <1>2, <1>3

\* A scalar month has an entry over all of its files: scrub_store finds the
\* file of this entry as the survivor of the month.
LEMMA ScalarSurvivor ==
  ASSUME WriterInv, kind = "scalar", AllSettled(manifest), NEW S, S = {Scanned(f) : f \in disk},
         NEW c \in S
  PROVE  \E w \in Survivor(OverlapGroup(S, c)), e \in manifest : e.path = w.path
<1> DEFINE Top(w) == /\ w \in S /\ \E e \in manifest : e.path = w.path
                     /\ \A d \in S : d.path.month = w.path.month => d = w \/ Within(d, w)
<1>1. /\ S \in SUBSET ChunkEntry
      /\ \A d \in S : d \in ChunkEntry /\ GoodChunk(d) /\ FileOf(d) \in disk
                      /\ d = Scanned(FileOf(d)) /\ d.start <= d.end
      /\ \A f \in disk : Scanned(f) \in S
  BY ScannedFiles DEF WriterInv, TypeInv
<1>2. \A d \in S : /\ d.start \in Int /\ d.end \in Int /\ d.start \in Ts /\ d.end \in Ts
                   /\ d.gen \in Nat /\ d.path.month \in Int
                   /\ MonthOf[d.start] = d.path.month /\ MonthOf[d.end] = d.path.month
  BY <1>1, Numbers DEF GoodChunk
<1>3. ASSUME NEW d \in S
      PROVE  \E w \in S : w.path.month = d.path.month /\ Top(w)
  <2>1. FileOf(d) \in disk /\ FileOf(d) \in File /\ FileOf(d).path = d.path
    BY <1>1, FileOfEntry
  <2>2. manifest \in SUBSET ChunkEntry /\ disk \subseteq File /\ GoodEntries(manifest)
    BY DEF WriterInv, TypeInv
  <2>3. PICK e \in manifest : e.path.month = d.path.month
    BY <2>1, <2>2, SettledEntry DEF AllSettled
  <2>4. e \in ChunkEntry /\ FileOf(e) \in disk /\ FileOf(e).path = e.path
    BY <2>2, FileOfEntry DEF GoodEntries
  <2>5. PICK w : w = Scanned(FileOf(e))
    OBVIOUS
  <2>6. w \in S /\ w.path = e.path /\ FileOf(w) = FileOf(e)
    BY <1>1, <2>2, <2>4, <2>5, ScannedFile
  <2>7. ASSUME NEW y \in S, y.path.month = w.path.month
        PROVE  y = w \/ Within(y, w)
    <3>1. FileOf(y) \in disk /\ FileOf(y) \in File /\ FileOf(y).path = y.path /\ y \in ChunkEntry
      BY <1>1, FileOfEntry
    <3>2. PICK x \in manifest : FileOf(x) = FileOf(y) \/ Within(FileOf(y), x)
      BY <3>1 DEF AllSettled, Settled
    <3>3. x \in ChunkEntry /\ FileOf(x).path = x.path
      BY <2>2, FileOfEntry
    <3>4. x.path.month = y.path.month
      BY <3>1, <3>2, <3>3 DEF Within
    <3>5. x = e
      BY <2>2, <2>6, <2>7, <3>4 DEF GoodEntries
    <3>6. CASE FileOf(x) = FileOf(y)
      BY <1>1, <2>5, <3>5, <3>6
    <3>7. CASE Within(FileOf(y), x)
      <4>1. Within(FileOf(y), FileOf(e))
        BY <2>4, <3>5, <3>7, WithinFiles
      <4>2. Within(y, w)
        BY <1>1, <2>6, <3>1, <4>1, WithinFiles
      <4> QED
        BY <4>2
    <3> QED
      BY <3>2, <3>6, <3>7
  <2> QED
    BY <2>3, <2>6, <2>7
<1>4. ASSUME NEW w \in S, Top(w)
      PROVE  IsCut(S, w.start)
  <2> SUFFICES ASSUME NEW y \in S, y.start < w.start
               PROVE  y.end < w.start
    BY DEF IsCut
  <2>1. y.path.month # w.path.month
    <3> SUFFICES ASSUME y.path.month = w.path.month
                 PROVE  FALSE
      OBVIOUS
    <3>1. y = w \/ w.start <= y.start
      BY <1>4 DEF Within
    <3> QED
      BY <1>2, <3>1
  <2>2. MonthOf[y.start] <= MonthOf[w.start]
    BY <1>2, RangeAssumption
  <2>3. ~ (w.start <= y.end)
    <3> SUFFICES ASSUME w.start <= y.end
                 PROVE  FALSE
      OBVIOUS
    <3>1. MonthOf[w.start] <= MonthOf[y.end]
      BY <1>2, RangeAssumption
    <3> QED
      BY <1>2, <2>1, <2>2, <3>1
  <2> QED
    BY <1>2, <2>3
<1>5. ASSUME NEW d \in S, NEW w \in S, Top(w), d.path.month < w.path.month
      PROVE  d.start < w.start
  <2> SUFFICES ASSUME w.start <= d.start
               PROVE  FALSE
    BY <1>2
  <2>1. MonthOf[w.start] <= MonthOf[d.start]
    BY <1>2, RangeAssumption
  <2> QED
    BY <1>2, <1>5, <2>1
<1>6. ASSUME NEW d \in S, NEW w \in S, Top(w), d.path.month = w.path.month
      PROVE  ~ (d.start < w.start)
  <2>1. d = w \/ w.start <= d.start
    BY <1>6 DEF Within
  <2> QED
    BY <1>2, <2>1
<1>7. ASSUME NEW a \in S, NEW b \in S, a.path.month < b.path.month
      PROVE  ~ SameGroup(S, a, b) /\ ~ SameGroup(S, b, a)
  <2>1. PICK w \in S : w.path.month = b.path.month /\ Top(w)
    BY <1>3
  <2>2. a.start < w.start /\ ~ (b.start < w.start) /\ IsCut(S, w.start)
    BY <1>4, <1>5, <1>6, <1>7, <2>1
  <2> QED
    BY <2>2 DEF SameGroup
<1>8. PICK w \in S : w.path.month = c.path.month /\ Top(w)
  BY <1>3
<1>9. \A d \in OverlapGroup(S, c) : d \in S /\ d.path.month = c.path.month
  <2> SUFFICES ASSUME NEW d \in OverlapGroup(S, c)
               PROVE  d \in S /\ d.path.month = c.path.month
    OBVIOUS
  <2>1. d \in S /\ SameGroup(S, c, d)
    BY DEF OverlapGroup
  <2> QED
    BY <1>2, <1>7, <2>1
<1>10. w \in OverlapGroup(S, c)
  <2>1. CASE c = w
    BY <2>1 DEF OverlapGroup, SameGroup
  <2>2. CASE Within(c, w)
    <3> SUFFICES ASSUME NEW x \in S, (c.start < x.start) # (w.start < x.start), IsCut(S, x.start)
                 PROVE  FALSE
      BY DEF OverlapGroup, SameGroup
    <3>1. w.start <= c.start /\ c.end <= w.end /\ c.start <= c.end
      BY <1>1, <2>2 DEF Within
    <3>2. w.start < x.start => w.end < x.start
      BY DEF IsCut
    <3> QED
      BY <1>2, <3>1, <3>2
  <2> QED
    BY <1>8, <2>1, <2>2
<1>11. Covers(w, OverlapGroup(S, c))
  <2> SUFFICES ASSUME NEW d \in OverlapGroup(S, c)
               PROVE  w.start <= d.start /\ w.end >= d.end
    BY DEF Covers
  <2>1. d \in S /\ (d = w \/ Within(d, w))
    BY <1>8, <1>9
  <2> QED
    BY <1>2, <2>1 DEF Within
<1>12. \A d \in OverlapGroup(S, c) \ {w} : RanksBefore(w, d)
  <2> SUFFICES ASSUME NEW d \in OverlapGroup(S, c), d # w
               PROVE  RanksBefore(w, d)
    OBVIOUS
  <2>1. d \in S /\ Within(d, w)
    BY <1>8, <1>9
  <2>2. w.gen > d.gen
    BY <1>2, <2>1 DEF Within
  <2> QED
    BY <2>2 DEF RanksBefore
<1>13. w \in Survivor(OverlapGroup(S, c))
  BY <1>10, <1>11, <1>12 DEF Survivor
<1> QED
  BY <1>8, <1>13

LEMMA ScrubFindsSurvivors ==
  ASSUME WriterInv, AllSettled(manifest), NEW o \in scrub_overlaps(disk)
  PROVE  \E w \in o.winner, c \in manifest : c.path = w.path
<1>1. PICK S : S = {Scanned(f) : f \in disk}
  OBVIOUS
<1>2. PICK G \in overlap_groups(S) : o = [group |-> G, winner |-> Survivor(G)]
  BY <1>1 DEF scrub_overlaps
<1>3. o.winner = Survivor(G)
  BY <1>2
<1>4. PICK c \in S : G = OverlapGroup(S, c)
  BY DEF overlap_groups
<1>5. CASE kind = "scalar"
  <2>1. \E w \in Survivor(OverlapGroup(S, c)), e \in manifest : e.path = w.path
    BY <1>1, <1>5, ScalarSurvivor, Zenon
  <2> QED
    BY <1>3, <1>4, <2>1
<1>6. CASE kind # "scalar"
  <2>1. disk \subseteq File /\ GoodDisk
    BY DEF WriterInv, TypeInv
  <2>2. /\ S \in SUBSET ChunkEntry
        /\ \A d \in S : /\ d \in ChunkEntry /\ FileOf(d) \in disk
                        /\ d = Scanned(FileOf(d)) /\ d.start <= d.end
    BY <1>1, <2>1, ScannedFiles
  <2>3. ASSUME NEW a \in S, NEW b \in S, a # b
        PROVE  ~ RangesOverlap(a, b)
    <3>1. FileOf(a) # FileOf(b)
      BY <2>2, <2>3
    <3>2. ~ RangesOverlap(FileOf(a), FileOf(b))
      BY <1>6, <2>1, <2>2, <3>1, KlineFilesDisjoint
    <3> QED
      BY <2>2, <3>2, FileOfEntry DEF RangesOverlap
  <2>4. overlap_groups(S) = {}
    BY <2>2, <2>3, DisjointGroups
  <2> QED
    BY <2>4
<1> QED
  BY <1>5, <1>6

LEMMA LeftoversRedundant ==
  ASSUME IInv
  PROVE  OrphansAreRedundant
<1> SUFFICES ASSUME registered, ~ Health.pending_recovery
             PROVE  /\ \A f \in Health.orphans.chunks : f.rows \subseteq ShownRows
                    /\ Health.orphans = [chunks |-> {}, sidecars |-> {}] => Health.clean
                    /\ \A f \in disk : f \in Health.orphans.chunks \/ \E c \in manifest : FileOf(c) = f
                    /\ \A o \in scrub_overlaps(disk) : \E w \in o.winner, c \in manifest : c.path = w.path
  BY DEF OrphansAreRedundant
<1>1. WriterInv /\ KnownInv /\ manifest \in SUBSET ChunkEntry /\ disk \subseteq File
      /\ GoodDisk /\ GoodEntries(manifest)
  BY DEF IInv, ReaderInv, WriterInv, TypeInv
<1>2. PICK v : v = validate_series_dir(disk, index, registered, manifest, sides)
  OBVIOUS
<1>3. /\ v.manifest_exists = TRUE
      /\ v.missing_chunks = Paths(manifest) \ Paths(disk)
      /\ v.missing_sidecars = sides \ Paths(index)
      /\ v.mismatches = {f \in disk : \E c \in manifest : c.path = f.path /\ MetadataMismatch(c, f)}
      /\ v.sidecar_issues = {x \in index : x.path \in sides /\ SidecarIssue(manifest, x)}
      /\ v.untracked_chunks = {f \in disk : f.path \notin Paths(manifest)}
      /\ v.untracked_sidecars = {x \in index : x.path \notin sides}
      /\ v.overlaps = overlap_groups(manifest)
  BY <1>2 DEF validate_series_dir
<1>4. Health = [clean |-> is_clean(v),
                orphans |-> [chunks |-> v.untracked_chunks, sidecars |-> v.untracked_sidecars],
                overlaps |-> v.overlaps, pending_recovery |-> marker]
  BY <1>2 DEF Health, health_summary, scan_orphan_artifacts
<1>5. /\ Health.clean = is_clean(v) /\ Health.pending_recovery = marker
      /\ Health.orphans = [chunks |-> v.untracked_chunks, sidecars |-> v.untracked_sidecars]
      /\ Health.orphans.chunks = v.untracked_chunks
  BY <1>4
<1>6. AllSettled(manifest)
  BY <1>1, <1>5 DEF WriterInv, PhaseInv
<1>7. ASSUME NEW f \in disk
      PROVE  f.rows \subseteq ShownRows
  <2>1. \E c \in manifest : f.rows \subseteq c.rows
    BY <1>1, <1>6, SettledEntry DEF AllSettled
  <2>2. ShownRows = RowsOf(manifest)
    BY <1>1, ShownIsManifest
  <2> QED
    BY <2>1, <2>2 DEF RowsOf
<1>8. ASSUME NEW f \in disk, NEW c \in manifest, c.path = f.path
      PROVE  FileOf(c) = f
  <2>1. FileOf(c) \in disk /\ FileOf(c).path = c.path
    BY <1>1, FileOfEntry DEF GoodEntries
  <2> QED
    BY <1>1, <1>8, <2>1 DEF GoodDisk
<1>9. ASSUME Health.orphans = [chunks |-> {}, sidecars |-> {}]
      PROVE  is_clean(v)
  <2>1. v.untracked_chunks = {} /\ v.untracked_sidecars = {}
    BY <1>5, <1>9
  <2>2. v.missing_chunks = {}
    <3> SUFFICES ASSUME NEW c \in manifest
                 PROVE  c.path \in Paths(disk)
      BY <1>3 DEF Paths
    <3>1. FileOf(c) \in disk /\ FileOf(c).path = c.path
      BY <1>1, FileOfEntry DEF GoodEntries
    <3> QED
      BY <3>1 DEF Paths
  <2>3. v.missing_sidecars = {}
    BY <1>1, <1>3 DEF WriterInv, SidesInv
  <2>4. v.mismatches = {}
    <3> SUFFICES ASSUME NEW f \in disk, NEW c \in manifest, c.path = f.path, MetadataMismatch(c, f)
                 PROVE  FALSE
      BY <1>3
    <3>1. c \in ChunkEntry /\ FileOf(c) = f
      BY <1>1, <1>8
    <3> QED
      BY <3>1, FileOfEntry DEF MetadataMismatch
  <2>5. v.sidecar_issues = {}
    <3> SUFFICES ASSUME NEW x \in index, NEW c \in manifest, c.path = x.path,
                        Cardinality(c.rows) # Cardinality(x.rows)
                 PROVE  FALSE
      BY <1>3 DEF SidecarIssue
    <3>1. FileOf(c) \in disk /\ FileOf(c).path = c.path /\ FileOf(c).rows = c.rows
      BY <1>1, FileOfEntry DEF GoodEntries
    <3>2. <<c.path, c.rows>> \in Known /\ <<x.path, x.rows>> \in Known
      BY <3>1, DiskIsKnown
    <3>3. <<c.path, c.rows>>[2] = <<x.path, x.rows>>[2]
      BY <1>1, <3>2 DEF KnownInv
    <3> QED
      BY <3>3
  <2>6. v.overlaps = {}
    BY <1>1, <1>3, EntriesDisjoint
  <2> QED
    BY <1>3, <2>1, <2>2, <2>3, <2>4, <2>5, <2>6 DEF is_clean
<1>10. \A f \in disk : f \in Health.orphans.chunks \/ \E c \in manifest : FileOf(c) = f
  BY <1>3, <1>5, <1>8 DEF Paths
<1>11. \A f \in Health.orphans.chunks : f.rows \subseteq ShownRows
  BY <1>3, <1>5, <1>7
<1>12. \A o \in scrub_overlaps(disk) : \E w \in o.winner, c \in manifest : c.path = w.path
  BY <1>1, <1>6, ScrubFindsSurvivors
<1> QED
  BY <1>5, <1>9, <1>10, <1>11, <1>12

\* A query that has read all of its chunks has the rows of its version.
LEMMA OneVersion ==
  ASSUME QueryInv, BridgeInv
  PROVE  AnswersAreOneVersion
<1> SUFFICES ASSUME NEW q \in query, q.chunks = {}
             PROVE  q.rows = q.want
  BY DEF AnswersAreOneVersion, BridgeInv, Described
<1>1. Window(RowsOf(q.chunks), q.lo, q.hi) = {}
  BY DEF Window, RowsOf
<1>2. q.rows = q.want \/ q.rows \cup Window(RowsOf(q.chunks), q.lo, q.hi) = q.want
  BY Zenon DEF QueryInv
<1>3. q.rows \cup Window(RowsOf(q.chunks), q.lo, q.hi) = q.rows
  BY <1>1
<1> QED
  BY <1>2, <1>3

(***************************************************************************)
(* Theorems                                                                *)
(***************************************************************************)
\* The invariant: files of one month are ordered by generation and content
\* (put_kline_chunk_locked, append_scalar_chunk_locked), a file without an entry
\* exists only under a marker or below an entry, and every cache of a reader
\* agrees with every other on the rows behind a file name.
THEOREM InvariantHolds == Spec => []IInv
<1>1. Init => IInv
  BY InitInv
<1>2. IInv /\ [Next]_vars => IInv'
  BY NextInv
<1> QED
  BY <1>1, <1>2, PTL DEF Spec

\* A month that a caller of append_kline_range or append_scalar_range was told
\* is written stays readable, whatever fails or is recovered later.
THEOREM ToldMonthsHold == Spec => []CompletedMonthsStay
<1>1. IInv => CompletedMonthsStay
  BY ToldMonthsStay DEF IInv
<1> QED
  BY <1>1, InvariantHolds, PTL

\* A request of several months shows whole months and a prefix of them, and once
\* the store is settled its missing months pass the preflight of the next
\* append and find their file names free.
THEOREM ResumeHolds == Spec => []ResumeWorks
<1>1. IInv => ResumeWorks
  BY RequestsResume DEF IInv
<1> QED
  BY <1>1, InvariantHolds, PTL

\* After recovery the orphans that scan_orphan_artifacts lists hold no row that
\* only they have, nothing else can be wrong with the series, and scrub_store
\* names a survivor of every overlap.
THEOREM OrphansHold == Spec => []OrphansAreRedundant
<1>1. IInv => OrphansAreRedundant
  BY LeftoversRedundant
<1> QED
  BY <1>1, InvariantHolds, PTL

\* A read session, a store handle or a bridge command, with its lock or without,
\* answers with the rows of one manifest while the writer replaces and removes
\* chunk files; and a command that holds its shared lock describes that manifest.
THEOREM AnswersHold == Spec => []AnswersAreOneVersion
<1>1. IInv => AnswersAreOneVersion
  BY OneVersion DEF IInv, ReaderInv
<1> QED
  BY <1>1, InvariantHolds, PTL
=============================================================================
