----------------------------- MODULE KlineStore -----------------------------
(***************************************************************************)
(* The durable state of one kline series under put_kline_chunk,            *)
(* merge_kline_month, registration and startup recovery, one action per    *)
(* write that reaches the disk, with the process dying (or a call          *)
(* returning an I/O error) between any two of them.                        *)
(*                                                                         *)
(* Every mutation holds the exclusive store lock from its first check to   *)
(* its last write, so one operation is in progress at a time.              *)
(* begin_mutation finishes a pending recovery before the operation proper: *)
(* here recovery is an operation of its own and the others wait for a      *)
(* store without a pending marker.  A write to a temporary file followed   *)
(* by a rename is one step, whose effect is there or not.                  *)
(***************************************************************************)
EXTENDS ChunkCatalog

CONSTANTS Ts,             \* the timestamps rows may have
          Months,         \* the partition keys
          MonthOf,        \* the partition of each timestamp (path::month_key)
          AutoMerge,      \* CompactionPolicy.auto_merge
          MergeThreshold, \* CompactionPolicy.delta_chunk_threshold
          MaxPuts,        \* bound: put operations submitted
          MaxFails        \* bound: crashes and I/O errors

ASSUME TsAssumption == Ts \subseteq Int

ASSUME MonthAssumption ==
  /\ MonthOf \in [Ts -> Months]
  /\ \A s, t, u \in Ts :
       s <= t /\ t <= u /\ MonthOf[s] = MonthOf[u] => MonthOf[t] = MonthOf[s]

ASSUME BoundAssumption ==
  /\ AutoMerge \in BOOLEAN
  /\ MergeThreshold \in Nat
  /\ MaxPuts \in Nat
  /\ MaxFails \in Nat

VARIABLES
  disk,        \* the chunk files in chunks/
  manifest,    \* the entries of series.meta
  active,      \* series.meta: active_chunk_id, 0 for None
  registered,  \* series.meta exists
  marker,      \* .fastk.recovery.pending exists
  pc,          \* the next disk write of the operation in progress
  month,       \* put, merge: the month it works on
  out,         \* put, merge: the entry of the chunk file it writes, none or one
  meta,        \* recovery: the entries in memory
  changed,     \* recovery: they differ from the manifest on disk
  todo,        \* recovery: candidates left; merge: obsolete files to remove
  batch,       \* the rows of the put whose outcome is not settled
  acked,       \* the rows of puts that returned Ok
  puts,        \* put operations so far
  fails        \* crashes and I/O errors so far

durable == <<disk, manifest, active, registered, marker>>
callers == <<batch, acked>>
counted == <<puts, fails>>
vars    == <<durable, pc, month, out, meta, changed, todo, callers, counted>>

\* A row and the put that wrote it.
Row == [ts : Ts, ver : 1..MaxPuts]

Path == [month : Months, kind : {"base", "delta", "merged"}, gen : Nat]

File == [path : Path, id : Nat, gen : Nat, start : Ts, end : Ts, rows : SUBSET Row]

ChunkEntry == [path : Path, id : Nat, gen : Nat, start : Ts, end : Ts,
               rows : SUBSET Row, state : ChunkStates]

Phases == {"idle", "register", "put_chunk", "put_manifest", "merge", "merge_chunk",
           "merge_manifest", "cleanup", "commit", "recover", "recover_clear"}

Init ==
  /\ disk = {} /\ manifest = {} /\ active = 0 /\ registered = FALSE /\ marker = FALSE
  /\ pc = "idle" /\ month \in Months
  /\ out = {} /\ meta = {} /\ changed = FALSE /\ todo = {}
  /\ batch = {} /\ acked = {}
  /\ puts = 0 /\ fails = 0

\* begin_mutation: the lock is free and no recovery is pending.
MayMutate == pc = "idle" /\ ~ marker

(***************************************************************************)
(* register_kline_series                                                   *)
(***************************************************************************)
\* Arms the marker and makes the series directory.
RegisterBegin ==
  /\ MayMutate /\ ~ registered
  /\ marker' = TRUE
  /\ pc' = "register"
  /\ UNCHANGED <<disk, manifest, active, registered, month, out, meta, changed, todo,
                 callers, counted>>

\* Saves the empty manifest.
RegisterSave ==
  /\ pc = "register"
  /\ registered' = TRUE
  /\ pc' = "commit"
  /\ UNCHANGED <<disk, manifest, active, marker, month, out, meta, changed, todo,
                 callers, counted>>

(***************************************************************************)
(* put_kline_chunk                                                         *)
(***************************************************************************)
\* The entry for a batch: the first chunk of a month is its sealed base file,
\* later ones are active deltas.
PutEntry(m, tracked, g, i, first, last, rows) ==
  [path  |-> IF tracked = {} THEN BasePath(m) ELSE DeltaPath(m, g),
   id    |-> i,
   gen   |-> g,
   start |-> first,
   end   |-> last,
   rows  |-> rows,
   state |-> IF tracked = {} THEN "Sealed" ELSE "Active"]

\* A batch that spans months, or does not start after the last chunk of its
\* month, is rejected before anything is written.
PutBegin(first, last, stamps) ==
  LET m == MonthOf[first]
      tracked == InMonth(manifest, m)
      rows == {[ts |-> t, ver |-> puts + 1] : t \in stamps}
  IN
  /\ MayMutate /\ registered /\ puts < MaxPuts
  /\ \A t \in stamps : first <= t /\ t <= last
  /\ MonthOf[last] = m
  /\ \A c \in tracked : c.end < first
  /\ \E g \in NextGeneration(tracked), i \in NextChunkId(manifest) :
       out' = {PutEntry(m, tracked, g, i, first, last, rows)}
  /\ month' = m
  /\ batch' = rows
  /\ puts' = puts + 1
  /\ marker' = TRUE
  /\ pc' = "put_chunk"
  /\ UNCHANGED <<disk, manifest, active, registered, meta, changed, todo, acked, fails>>

\* Publishing a chunk refuses an existing destination (atomic_write_new).
WriteChunk ==
  \E e \in out : /\ e.path \notin Paths(disk)
                 /\ disk' = disk \cup {FileOf(e)}

PutWriteChunk ==
  /\ pc = "put_chunk"
  /\ WriteChunk
  /\ pc' = "put_manifest"
  /\ UNCHANGED <<manifest, active, registered, marker, month, out, meta, changed, todo,
                 callers, counted>>

\* Upserts the entry and saves; then the compaction policy decides.
PutSaveManifest ==
  /\ pc = "put_manifest"
  /\ \E e \in out :
       /\ manifest' = UpsertChunk(manifest, e)
       /\ active' = IF e.state = "Active" THEN e.id ELSE active
  /\ ValidChunks(manifest')
  /\ pc' = IF AutoMerge /\ ShouldMerge(manifest', month, MergeThreshold)
           THEN "merge" ELSE "commit"
  /\ UNCHANGED <<disk, registered, marker, month, out, meta, changed, todo, callers, counted>>

(***************************************************************************)
(* merge_kline_month                                                       *)
(***************************************************************************)
\* The marker is armed before the series is even looked up.
MergeBegin(m) ==
  /\ MayMutate
  /\ month' = m
  /\ marker' = TRUE
  /\ pc' = "merge"
  /\ UNCHANGED <<disk, manifest, active, registered, out, meta, changed, todo,
                 callers, counted>>

\* No such series: an error, and the marker stays.
MergeUnregistered ==
  /\ pc = "merge" /\ ~ registered
  /\ pc' = "idle"
  /\ UNCHANGED <<durable, month, out, meta, changed, todo, callers, counted>>

\* A month of at most one chunk is left alone.
MergeNothing ==
  /\ pc = "merge" /\ registered
  /\ \A c, d \in InMonth(manifest, month) : c = d
  /\ pc' = "commit"
  /\ UNCHANGED <<durable, month, out, meta, changed, todo, callers, counted>>

\* Mutant of MergedEntry: only the sealed sources are read.
MergedEntrySealedOnly(sources, g, i, first, last) ==
  [path |-> MergedPath(month, g), id |-> i, gen |-> g, start |-> first, end |-> last,
   rows |-> RowsOf({c \in sources : c.state = "Sealed"}), state |-> MergeOutputState(sources)]

\* The replacement holds the rows of all sources.
MergedEntry(sources, g, i, first, last) ==
  [path |-> MergedPath(month, g), id |-> i, gen |-> g, start |-> first, end |-> last,
   rows |-> RowsOf(sources), state |-> MergeOutputState(sources)]

\* Reads the sources, marks them Merging and saves the manifest.
MergeMark ==
  LET sources == InMonth(manifest, month)
  IN
  /\ pc = "merge"
  /\ \E c, d \in sources : c # d
  /\ \A c \in sources : CanMerge(c.state)
  /\ manifest' = (manifest \ sources) \cup {[c EXCEPT !.state = "Merging"] : c \in sources}
  /\ todo' = {FileOf(c) : c \in sources}
  /\ \E g \in NextGeneration(sources), i \in NextChunkId(manifest), lo, hi \in sources :
       /\ \A c \in sources : lo.start <= c.start /\ c.end <= hi.end
       /\ out' = {MergedEntry(sources, g, i, lo.start, hi.end)}
  /\ pc' = "merge_chunk"
  /\ UNCHANGED <<disk, active, registered, marker, month, meta, changed, callers, counted>>

MergeWriteChunk ==
  /\ pc = "merge_chunk"
  /\ WriteChunk
  /\ pc' = "merge_manifest"
  /\ UNCHANGED <<manifest, active, registered, marker, month, out, meta, changed, todo,
                 callers, counted>>

\* Mutant of MergeSaveManifest: the sources stay beside their replacement.
MergeSaveKeepsSources ==
  /\ pc = "merge_manifest"
  /\ \E e \in out : manifest' = manifest \cup {e}
  /\ active' \in ActiveChunkId(manifest')
  /\ pc' = "cleanup"
  /\ UNCHANGED <<disk, registered, marker, month, out, meta, changed, todo, callers, counted>>

\* One entry replaces the month.
MergeSaveManifest ==
  /\ pc = "merge_manifest"
  /\ \E e \in out : manifest' = ReplaceMonth(manifest, month, e)
  /\ ValidChunks(manifest')
  /\ active' \in ActiveChunkId(manifest')
  /\ pc' = "cleanup"
  /\ UNCHANGED <<disk, registered, marker, month, out, meta, changed, todo, callers, counted>>

\* Old files are removed in time order; a removal that fails is ignored.
RemoveObsolete ==
  /\ pc = "cleanup"
  /\ \E f \in todo :
       /\ \A g \in todo : f.start <= g.start
       /\ \/ disk' = disk \ {f}
          \/ UNCHANGED disk
       /\ todo' = todo \ {f}
  /\ UNCHANGED <<manifest, active, registered, marker, pc, month, out, meta, changed,
                 callers, counted>>

CleanupDone ==
  /\ pc = "cleanup" /\ todo = {}
  /\ pc' = "commit"
  /\ UNCHANGED <<durable, month, out, meta, changed, todo, callers, counted>>

\* Clears the marker and returns Ok: the rows of a put are acknowledged.
CommitMarker ==
  /\ pc = "commit"
  /\ marker' = FALSE
  /\ acked' = acked \cup batch
  /\ batch' = {}
  /\ out' = {}
  /\ pc' = "idle"
  /\ UNCHANGED <<disk, manifest, active, registered, month, meta, changed, todo, counted>>

(***************************************************************************)
(* startup_recover_locked: from open and begin_mutation when the marker is *)
(* pending, from init and repair always.                                   *)
(***************************************************************************)
RecoverBegin ==
  /\ pc = "idle"
  /\ meta' = NormalizeDangling(manifest, active)
  /\ changed' = (meta' # manifest)
  /\ todo' = disk
  /\ pc' = "recover"
  /\ UNCHANGED <<durable, month, out, callers, counted>>

\* The candidates in start order; the directory order decides between equals.
RecoverCandidate ==
  /\ pc = "recover"
  /\ \E f \in todo :
       /\ \A g \in todo : f.start <= g.start
       /\ meta' = AdoptCandidate(meta, f)
       /\ todo' = todo \ {f}
  /\ changed' = (changed \/ meta' # meta)
  /\ UNCHANGED <<durable, pc, month, out, callers, counted>>

RecoverSave ==
  /\ pc = "recover" /\ todo = {}
  /\ \/ /\ changed
        /\ ValidChunks(meta)
        /\ manifest' = meta
        /\ active' \in ActiveChunkId(meta)
     \/ ~ changed /\ UNCHANGED <<manifest, active>>
  /\ pc' = "recover_clear"
  /\ UNCHANGED <<disk, registered, marker, month, out, meta, changed, todo, callers, counted>>

RecoverClear ==
  /\ pc = "recover_clear"
  /\ marker' = FALSE
  /\ batch' = {}
  /\ meta' = {} /\ changed' = FALSE
  /\ pc' = "idle"
  /\ UNCHANGED <<disk, manifest, active, registered, month, out, todo, acked, counted>>

\* The process dies, or a step returns an error: what is on disk stays.
Fail ==
  /\ pc # "idle" /\ fails < MaxFails
  /\ fails' = fails + 1
  /\ out' = {} /\ meta' = {} /\ changed' = FALSE /\ todo' = {}
  /\ pc' = "idle"
  /\ UNCHANGED <<durable, month, callers, puts>>

Step ==
  \/ RegisterSave
  \/ PutWriteChunk \/ PutSaveManifest
  \/ MergeUnregistered \/ MergeNothing \/ MergeMark \/ MergeWriteChunk \/ MergeSaveManifest
  \/ RemoveObsolete \/ CleanupDone \/ CommitMarker
  \/ RecoverCandidate \/ RecoverSave \/ RecoverClear

Next ==
  \/ RegisterBegin
  \/ \E stamps \in SUBSET Ts : \E first, last \in stamps : PutBegin(first, last, stamps)
  \/ \E m \in Months : MergeBegin(m)
  \/ RecoverBegin
  \/ Step
  \/ Fail

Spec == Init /\ [][Next]_vars

\* A call that was started runs on, and a store with a pending marker is
\* opened again; new operations and failures may never happen.
Fairness == WF_vars(Step) /\ WF_vars(marker /\ RecoverBegin)

FairSpec == Spec /\ Fairness

(***************************************************************************)
(* Properties                                                              *)
(***************************************************************************)
VisibleRows == RowsOf(manifest)

\* The variables hold files, entries and rows of the right shape in every
\* phase of every operation.
TypeOK ==
  /\ disk \subseteq File
  /\ manifest \subseteq ChunkEntry
  /\ active \in Nat
  /\ registered \in BOOLEAN
  /\ marker \in BOOLEAN
  /\ pc \in Phases
  /\ month \in Months
  /\ out \subseteq ChunkEntry
  /\ meta \subseteq ChunkEntry
  /\ changed \in BOOLEAN
  /\ todo \subseteq File
  /\ batch \subseteq Row
  /\ acked \subseteq Row
  /\ puts \in 0..MaxPuts
  /\ fails \in 0..MaxFails

\* An acknowledged row is readable in every state, during a compaction and in
\* the middle of a recovery too: the manifest has an entry for it, whose file
\* is on disk with the rows the entry promises (put_kline_chunk returned Ok).
AckedReadable ==
  /\ acked \subseteq VisibleRows
  /\ \A c \in manifest : FileOf(c) \in disk

\* Reads see one value for a timestamp: a compaction, a leftover source file
\* or an adopted orphan never shows a row twice.
OneRowPerTimestamp ==
  /\ ValidChunks(manifest)
  /\ \A r, s \in VisibleRows : r.ts = s.ts => r = s

\* c is older than d, which holds all its rows over its whole range.
Within(c, d) ==
  /\ c.gen < d.gen
  /\ d.start <= c.start /\ c.end <= d.end
  /\ c.rows \subseteq d.rows

\* f was replaced by an entry of C.
Superseded(f, C) == \E c \in C : Within(f, c)

\* A store without a marker between operations is settled: read-only opens,
\* which check the marker only, find no entry in the Merging state, and every
\* file that no entry names was superseded.
SettledWhenClean ==
  MayMutate =>
    /\ \A c \in manifest : c.state \in {"Active", "Sealed"}
    /\ \A f \in disk : f.path \in Paths(manifest) \/ Superseded(f, manifest)

\* The name that the next append or merge of a month will publish under is
\* free: a leftover of a crash never blocks the month (atomic_write_new fails
\* on an existing destination).
NextNamesFree ==
  MayMutate =>
    \A m \in Months : \A g \in NextGeneration(InMonth(manifest, m)) :
      Paths(disk) \cap {IF InMonth(manifest, m) = {} THEN BasePath(m) ELSE DeltaPath(m, g),
                        MergedPath(m, g)} = {}

\* No step of any operation, failure or recovery takes a readable row away.
RowsNeverVanish == [][VisibleRows \subseteq VisibleRows']_vars

\* A pending marker is cleared in the end: recovery after any crash, of a put,
\* a merge or an earlier recovery, comes to its end instead of failing again
\* and again (startup_recover_locked clears the marker last).
RecoveryCompletes == marker ~> ~ marker

\* The promise of an append-only series, with the manifest as what is read.
Promise == INSTANCE AppendLog WITH rows <- VisibleRows, open <- batch

\* Batches become readable whole, once, and are acknowledged only afterwards.
ImplementsAppendLog == Promise!Spec
=============================================================================
