----------------------------- MODULE FixedStore -----------------------------
(***************************************************************************)
(* The durable state of one fixed-width series (trades, best bid and offer,*)
(* book deltas).  A series has a partition unit of its own, chosen when it *)
(* is registered.  One put may span partitions: it writes a chunk for each,*)
(* in time order, and saves the manifest once.  As in KlineStore there is  *)
(* one action per write that reaches the disk and one operation at a time. *)
(*                                                                         *)
(* The `month` of a path is the partition key in the file's name.  The key *)
(* that an entry of the manifest carries (month_key) is the same when a put*)
(* made the entry; recovery and rebuild compute it anew, by month, whatever*)
(* the unit: those are the paths in `byMonth`.  active_chunk_id is left    *)
(* out: nothing reads it in a series that is never merged.                 *)
(***************************************************************************)
EXTENDS ChunkCatalog, FiniteSetsExt

CONSTANTS Ts,          \* the timestamps rows may have
          MonthOf,     \* the month of each timestamp
          DayOf,       \* the day of each timestamp: day or hour partitions
          Units,       \* partition units: "month", "day"
          MaxPuts,     \* bound: puts submitted
          MaxFails,    \* bound: crashes and I/O errors
          MaxRebuilds  \* bound: manual manifest rebuilds

ASSUME FixedAssumption ==
  /\ Ts \subseteq Int
  /\ DOMAIN MonthOf = Ts /\ DOMAIN DayOf = Ts
  /\ \A s, t \in Ts : MonthOf[s] # DayOf[t]
  \* A month and a day are intervals of time.
  /\ \A s, t, u \in Ts : s <= t /\ t <= u =>
       /\ MonthOf[s] = MonthOf[u] => MonthOf[t] = MonthOf[s]
       /\ DayOf[s] = DayOf[u] => DayOf[t] = DayOf[s]
  \* A batch is finite: it has a first and a last timestamp.
  /\ \A S \in SUBSET Ts : S # {} => \E lo, hi \in S : \A t \in S : lo <= t /\ t <= hi
  /\ Units \subseteq {"month", "day"}
  /\ MaxPuts \in Nat /\ MaxFails \in Nat /\ MaxRebuilds \in Nat

VARIABLES
  disk,       \* the chunk files in chunks/
  manifest,   \* the entries of series.meta
  byMonth,    \* the paths of entries whose key is a month that a scan computed
  unit,       \* series.meta: chunk_unit, "none" before it exists
  marker,     \* .fastk.recovery.pending exists
  pc,         \* the next disk write of the operation in progress
  parts,      \* put: the timestamps of each partition left to write
  meta,       \* put, recovery: the entries in memory
  todo,       \* recovery: candidates left
  batch,      \* the rows of the put whose outcome is not settled
  acked,      \* the rows of puts that returned Ok
  submitted,  \* the rows of all puts
  puts, fails, rebuilds

durable == <<disk, manifest, byMonth, unit, marker>>
callers == <<batch, acked, submitted>>
counted == <<puts, fails, rebuilds>>
vars    == <<durable, pc, parts, meta, todo, callers, counted>>

Init ==
  /\ disk = {} /\ manifest = {} /\ byMonth = {} /\ unit = "none" /\ marker = FALSE
  /\ pc = "idle" /\ parts = {} /\ meta = {} /\ todo = {}
  /\ batch = {} /\ acked = {} /\ submitted = {}
  /\ puts = 0 /\ fails = 0 /\ rebuilds = 0

\* begin_mutation: the lock is free and no recovery is pending.
MayMutate == pc = "idle" /\ ~ marker

PartitionKey(ts) == IF unit = "month" THEN MonthOf[ts] ELSE DayOf[ts]

\* The key of an entry, and the entries with key k.
Key(c) == IF c.path \in byMonth THEN MonthOf[c.start] ELSE c.path.month

Partition(C, k) == {c \in C : Key(c) = k}

(***************************************************************************)
(* register_trade_series, register_bbo_series, register_book_delta_series  *)
(***************************************************************************)
RegisterBegin ==
  /\ MayMutate /\ unit = "none"
  /\ marker' = TRUE
  /\ pc' = "register"
  /\ UNCHANGED <<disk, manifest, byMonth, unit, parts, meta, todo, callers, counted>>

RegisterSave(u) ==
  /\ pc = "register"
  /\ unit' = u
  /\ pc' = "commit"
  /\ UNCHANGED <<disk, manifest, byMonth, marker, parts, meta, todo, callers, counted>>

(***************************************************************************)
(* put_fixed_chunk                                                         *)
(***************************************************************************)
RowsAt(stamps, ver) == {[ts |-> t, ver |-> ver] : t \in stamps}

\* The batches of a put: its timestamps by partition.
SplitByPartition(stamps) ==
  {{t \in stamps : PartitionKey(t) = k} : k \in {PartitionKey(t) : t \in stamps}}

\* Every batch must start after the last chunk of its partition, else the put
\* is refused before anything is written.
FitsPartitions(batches) ==
  \A b \in batches : \A t \in b :
    \A c \in Partition(manifest, PartitionKey(t)) : c.end < t

PutBegin(stamps) ==
  /\ MayMutate /\ unit # "none" /\ puts < MaxPuts
  /\ parts' = SplitByPartition(stamps)
  /\ FitsPartitions(parts')
  /\ meta' = manifest
  /\ puts' = puts + 1
  /\ batch' = RowsAt(stamps, puts')
  /\ submitted' = submitted \cup batch'
  /\ marker' = TRUE
  /\ pc' = "put"
  /\ UNCHANGED <<disk, manifest, byMonth, unit, todo, acked, fails, rebuilds>>

\* The name for the next chunk of partition k, whose entries in memory are C.
NextPath(C, k, g) == IF C = {} THEN BasePath(k) ELSE DeltaPath(k, g)

\* The entry for one batch: the first chunk of a partition is its sealed base
\* file, later ones are active deltas.
PartEntry(b, C, g, i) ==
  [path |-> NextPath(C, PartitionKey(Min(b)), g), id |-> i, gen |-> g,
   start |-> Min(b), end |-> Max(b), rows |-> RowsAt(b, puts),
   state |-> IF C = {} THEN "Sealed" ELSE "Active"]

\* What append_fixed_partition_locked makes of batch b: a set with one member.
EntriesFor(b) ==
  LET C == Partition(meta, PartitionKey(Min(b)))
  IN  {PartEntry(b, C, g, i) : g \in NextGeneration(C), i \in NextChunkId(meta)}

\* Mutant of NextPart: the partitions are written in any order.
AnyPart(b) == b \in parts

\* The earliest batch that is left.
NextPart(b) == b \in parts /\ \A d \in parts : Min(b) <= Min(d)

\* Mutant of WriteFile: an existing file is replaced.
ReplaceFile(file) == disk' = {f \in disk : f.path # file.path} \cup {file}

\* Publishing a chunk refuses an existing destination (atomic_write_new).
WriteFile(file) == file.path \notin Paths(disk) /\ disk' = disk \cup {file}

\* The chunk file of one partition, and its entry in memory.  upsert_chunk_meta
\* validates the entries; a put that failed there would be stuck here.
PutPart ==
  /\ pc = "put"
  /\ \E b \in parts : \E e \in EntriesFor(b) :
       /\ NextPart(b)
       /\ WriteFile(FileOf(e))
       /\ meta' = UpsertChunk(meta, e)
       /\ parts' = parts \ {b}
  /\ ValidChunks(meta')
  /\ UNCHANGED <<manifest, byMonth, unit, marker, pc, todo, callers, counted>>

\* The name is taken: the put ends with an error and the marker stays.
PutRefused ==
  /\ pc = "put"
  /\ \E b \in parts : NextPart(b) /\ Paths(EntriesFor(b)) \subseteq Paths(disk)
  /\ parts' = {} /\ meta' = {}
  /\ pc' = "idle"
  /\ UNCHANGED <<durable, todo, callers, counted>>

\* One save for all partitions.
PutSave ==
  /\ pc = "put" /\ parts = {}
  /\ manifest' = meta
  /\ meta' = {}
  /\ pc' = "commit"
  /\ UNCHANGED <<disk, byMonth, unit, marker, parts, todo, callers, counted>>

\* Clears the marker and returns Ok: the rows of a put are acknowledged.
CommitMarker ==
  /\ pc = "commit"
  /\ marker' = FALSE
  /\ acked' = acked \cup batch
  /\ batch' = {}
  /\ pc' = "idle"
  /\ UNCHANGED <<disk, manifest, byMonth, unit, parts, meta, todo, submitted, counted>>

(***************************************************************************)
(* startup_recover_locked and rebuild_all_manifests_from_fs                *)
(***************************************************************************)
\* A fixed-width series has no Merging entry to normalise.
RecoverBegin ==
  /\ pc = "idle"
  /\ meta' = manifest
  /\ todo' = disk
  /\ pc' = "recover"
  /\ UNCHANGED <<durable, parts, callers, counted>>

RecoverCandidate ==
  /\ pc = "recover"
  /\ \E f \in todo :
       /\ \A g \in todo : f.start <= g.start
       /\ meta' = AdoptCandidate(meta, f)
       /\ todo' = todo \ {f}
  /\ UNCHANGED <<durable, pc, parts, callers, counted>>

\* Adopted entries carry the month of their first row.
RecoverSave ==
  /\ pc = "recover" /\ todo = {}
  /\ ValidChunks(meta)
  /\ manifest' = meta
  /\ byMonth' = (byMonth \cap Paths(meta)) \cup Paths(meta \ manifest)
  /\ pc' = "recover_clear"
  /\ UNCHANGED <<disk, unit, marker, parts, meta, todo, callers, counted>>

RecoverClear ==
  /\ pc = "recover_clear"
  /\ marker' = FALSE
  /\ batch' = {}
  /\ meta' = {}
  /\ pc' = "idle"
  /\ UNCHANGED <<disk, manifest, byMonth, unit, parts, todo, acked, submitted, counted>>

\* The unit is kept from the manifest, the entries come from the files alone.
RebuildManifest ==
  LET scan == {Scanned(f) : f \in disk}
  IN
  /\ pc = "idle" /\ rebuilds < MaxRebuilds
  /\ disk # {} /\ Rebuildable(scan)
  /\ manifest' = SelectNonOverlapping(scan)
  /\ byMonth' = Paths(manifest')
  /\ rebuilds' = rebuilds + 1
  /\ UNCHANGED <<disk, unit, marker, pc, parts, meta, todo, callers, puts, fails>>

\* The process dies, or a step returns an error: what is on disk stays.
Fail ==
  /\ pc # "idle" /\ fails < MaxFails
  /\ fails' = fails + 1
  /\ parts' = {} /\ meta' = {} /\ todo' = {}
  /\ pc' = "idle"
  /\ UNCHANGED <<durable, callers, puts, rebuilds>>

Next ==
  \/ RegisterBegin
  \/ \E u \in Units : RegisterSave(u)
  \/ \E stamps \in SUBSET Ts \ {{}} : PutBegin(stamps)
  \/ PutPart \/ PutRefused \/ PutSave \/ CommitMarker
  \/ RecoverBegin \/ RecoverCandidate \/ RecoverSave \/ RecoverClear
  \/ RebuildManifest
  \/ Fail

Spec == Init /\ [][Next]_vars

(***************************************************************************)
(* Properties                                                              *)
(***************************************************************************)
VisibleRows == RowsOf(manifest)

\* An acknowledged row stays readable through crashes, refused puts, recoveries
\* and rebuilds, and every entry has its own file with the rows it promises,
\* although the check for overlaps does not see entries with a guessed key.
AckedReadable ==
  /\ acked \subseteq VisibleRows
  /\ \A c \in manifest : FileOf(c) \in disk
  /\ \A c, d \in manifest : c.path = d.path => c = d

\* What a put that failed leaves readable is a prefix of it, cut between two
\* partitions: whole partitions, and none without those before it.
PrefixOfPartitions ==
  \A r \in VisibleRows, s \in submitted :
    /\ s.ver = r.ver
    /\ s.ts < r.ts \/ PartitionKey(s.ts) = PartitionKey(r.ts)
    => s \in VisibleRows

\* A store without a marker between operations lists every chunk file: what a
\* crash or a refused put left is adopted, not kept aside.
NoOrphansWhenClean == MayMutate => Paths(disk) = Paths(manifest)

\* The file names that the next put will choose are free.
NamesFree ==
  \A k \in {PartitionKey(t) : t \in Ts} :
    LET C == Partition(manifest, k)
    IN  \A g \in NextGeneration(C) : NextPath(C, k, g) \notin Paths(disk)

\* In a series with month partitions no leftover of a crash blocks later puts.
MonthsNotBlocked == MayMutate /\ unit = "month" => NamesFree

\* After a recovery or a rebuild the caller can go on writing, whatever the
\* partition unit of the series is: recovery does not guess it.
PutsNotBlocked == MayMutate /\ unit # "none" => NamesFree
=============================================================================
