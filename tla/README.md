# FastK in TLA+

FastK is an embedded store for market data. Klines, scalar series (indicators)
and fixed-width records (trades, best bid and offer, book deltas) live in chunk
files below a store root; one manifest per series (`series.meta`) names its
chunks. The engine is a Rust library; a Python client drives it through a worker
process. This directory models the parts of it in which an order of events
decides whether data survives or an answer is right.

- [Inventory](#inventory): components, state, operations, what is hard
- [Modules](#modules-and-how-they-correspond-to-the-code)
- [Runs](#runs-and-what-they-show), [bounds](#bounds), [fairness](#fairness)
- [Proofs](#proofs)
- [Disagreements](#where-documents-and-code-disagree) between documents and code
- [Not modelled](#what-is-not-modelled), [plan](#plan)

Paths below are relative to the repository's crate (`src/store_core/engine/...`).

## Inventory

| component | state it keeps | operations | what is hard |
|---|---|---|---|
| chunk catalog (`types/meta.rs`, `storage/manifest.rs`, `storage/recovery.rs`, `engine/compaction.rs`) | entries of a manifest: month, generation, id, range, state | upsert, replace a month, next generation and id, survivor of an overlap, non-overlapping selection, normalise dangling Merging | which of two overlapping files a recovery keeps |
| kline series (`engine/store.rs`) | base and delta chunks per month, `active_chunk_id`, the recovery marker | register, put, merge a month, recover | a crash between any two disk writes; clean-up that fails silently; recovery that dies |
| scalar series (`engine/store.rs`, `engine/store_writes.rs`) | one chunk per month and its `.zmap`, `.vix` sidecars | put (replace a month), append (rewrite it), recover, rebuild | old file, new file and sidecars are separate files |
| fixed-width series (`engine/store.rs`, `chunk/fixed_writer.rs`) | chunks per hour, day or month, the partition unit | register, put over several partitions, recover, rebuild | several chunk files and one manifest save; recovery that computes keys anew |
| ownership and caches (`storage/lock.rs`, `storage/manifest.rs`, `engine/store_writes.rs`, `snapshot.rs`) | OS lock, marker, seal; manifest caches per process and per handle | open (read-only, writable), mutate, lock-free read, recover, seal, close | what a cache holds when a lock is finally taken |
| chunk file cache (`chunk/cache.rs`) | map of open files, queue, second-chance flags | open (hit, miss, race of two misses, evict), invalidate, clear | a hit takes a read lock only; an open happens with no lock |
| reads (`chunk/*_reader.rs`, `chunk/sparse_index.rs`, `engine/parallel.rs`, `types/meta.rs`) | none, but a buffer that threads fill | point, range, last n; planned reads on several threads | off-by-one at block, chunk and window edges; a failing worker |
| sidecar indexes and predicates (`index/zmap.rs`, `index/vix.rs`, `index/query_engine.rs`, `feature/query.rs`) | zone map, value index | predicate query, find timestamps | three access paths must agree; counters |
| replay and sequence scan (`engine/replay.rs`, `engine/sequence.rs`) | cursor: chunk, row, exhausted | new, next batch; scan | batches that end anywhere, reads that fail; state carried over chunks |
| Python session (`clients/python/.../_session.py`, `client.py`; `examples/cli/session_transport.rs`) | two locks, a queue of one, flags, an exchange per request, the worker's last number | request, close, handshake, IO loop, worker loop | deadlines, interrupts and close() against an IO thread and a worker that may die |
| range writes and bridge (`engine/store_writes.rs`, `bridge.rs`) | the months of a request that are done and left | preflight, register, commit month by month, recover, repair | a request that fails between two months, or inside one, and is sent again |
| read sessions, backtest views, sidecar cache (`engine/store.rs`, `engine/backtest.rs`, `index/cache.rs`, bridge reads) | attached manifests, handle and process caches, open files, decoded sidecars | attach, reset, prewarm, range reads, predicate queries, inventories | a walk over the chunks of an old manifest while a writer replaces and removes them |
| validation and scrub (`storage/recovery.rs`, `engine/store.rs`) | none | validate, list orphans, explain overlaps, health, inventory | what a report means while files and manifest are briefly apart |
| dataset registry (`control/dataset_registry.rs`) | SQLite tables of datasets, snapshots, features and factors; the sealed roots they point to | open with migrations, upsert, publish, query, resolve | processes that race, overwrite or die between a seal and its transaction; a migration of several statements |
| codecs, derived series, metrics and benchmarks | | | see [Not modelled](#what-is-not-modelled) |

How they interact. A mutation takes the exclusive store lock, finishes a pending
recovery, drops the read caches, arms the recovery marker, writes chunk files,
saves the manifest (its commit point), removes what became obsolete and clears
the marker. Writable handles read without a lock, through two layers of manifest
caches; read-only handles hold a shared lock from open to close, unless there was
nothing to lock when they were opened. Reads go from
the manifest (which chunks) to the file cache (which handle) to the readers
(which rows). Replay and sequence scans read the same chunks. The Python session
sends one frame at a time to a worker that calls the engine. The bridge turns a
request over several months into one commit per month. A long-lived session or
backtest view reads through its own layers of caches while others write. The
registry binds a dataset version to the digest of a root it has sealed, and
resolves the version only to a root that still has that digest.

What makes each part correct: an append-only kline series loses no acknowledged
row and shows none twice; a scalar month is one whole version; a failed put over
partitions leaves whole partitions from its start; a recovery ends;
caches never resurrect an older manifest; a sealed root does not change; every
read path returns what a scan of all rows would; a replay has no gap and no
repetition; a session tells the truth about what it sent, and every call
returns; a range write that failed can be resumed and repeats nothing; an answer
read beside a writer is one version of the series, or an error; a
published dataset version is bound once and resolves to the published bytes or
not at all. `PROJECT.json` lists the hazards behind these, each at its line.

## Modules and how they correspond to the code

| module | models | kind |
|---|---|---|
| `ChunkCatalog` | entries, names, generations, manifest edits, overlap survivors, non-overlapping selection | operators |
| `KlineStore` | `register_kline_series`, `put_kline_chunk`, `merge_kline_month`, `startup_recover` on a kline directory | state machine, one action per disk write |
| `AppendLog` | the promise of a kline series: batches become readable whole, once, and are acknowledged afterwards | abstract specification |
| `KlineInvariant` | the inductive invariant of `KlineStore` | predicate |
| `ScalarStore` | `register_scalar_series`, `put_scalar_chunk`, `append_scalar_chunk`, sidecars, recovery, `rebuild_all_manifests_from_fs` | state machine, one action per disk write |
| `MonthVersions` | the promise of a scalar series: each month is a register of whole versions | abstract specification |
| `FixedStore` | `register_fixed_series`, `put_fixed_chunk` over several partitions, recovery, rebuild | state machine, one action per disk write |
| `StoreOwnership` | locks, marker, seal, handles, manifest caches of several processes | state machine |
| `ChunkFileCache` | `ChunkFileCache::open`, `invalidate`, `clear` by several threads | state machine |
| `ChunkReads` | binary searches, sparse index, range/point/tail readers | operators |
| `ScalarIndex` | predicates, zone map, value index | operators |
| `SequenceScan` | `observe_sequence`, `scan_fixed_sequence` | operators |
| `SeriesReads` | the read operations of a handle, planned reads with their workers, predicate queries, sequence scans, the replay cursor; composes the three modules above | state machine |
| `SessionTransport` | caller threads, IO thread, worker and pipes of a Python session | state machine |
| `StoreScrub` | `validate_series_dir`, orphans, overlap report, health, inventories | operators on a state of one series |
| `RangeWrites` | `write-*-range` of the bridge, `append_kline_range`, `append_scalar_range`, recovery and repair; reports through `StoreScrub` | state machine of the writer, one action per disk write |
| `ReadViews` | `FastKReadSession`, `BacktestStoreView` and the reading bridge commands beside the writer of `RangeWrites`: manifest, file and sidecar caches, queries chunk by chunk | state machine, composes both |
| `DatasetRegistry` | `DatasetRegistry`: open and migrate, upsert, publish, resolve, from several processes | state machine, one action per SQL statement, transaction or seal |
| `MC*` | small instances for TLC | |
| `KlineStoreProofs`, `ScalarStoreProofs`, `FixedStoreProofs`, `ChunkFileCacheProofs`, `StoreOwnershipProofs`, `DatasetRegistryProofs`, `SessionTransportProofs`, `ReadViewsProofs` (also for `RangeWrites`) | theorems | proofs |

**KlineStore.** `disk`, `manifest`, `active`, `registered` and `marker` are what a
crash leaves; `pc`, `month`, `out`, `meta`, `changed` and `todo` are the locals of
the operation in progress; `batch` and `acked` are what callers know. Each action
ends with one write that reaches the disk, so `Fail` (a crash, or an I/O error
that ends the call: the same for the disk) may fall between any two. `atomic_write`
(look for the destination, write a temporary file, sync, rename, all under the
store lock) is one step: the file is there or not. `PutSaveManifest` and
`MergeSaveManifest` are commit points; `RemoveObsolete` may fail for each file,
as the code ignores that error. `begin_mutation` runs a pending recovery first:
in the model recovery is an operation and the others wait for `~marker`.
The byte threshold of `ShouldMerge` is left out (only the count of deltas
triggers a merge); a manual `merge_kline_month` at any time has the same effects.

**ScalarStore.** Like KlineStore, plus `index`, the sidecar files with the rows
they were built from, and `sides`, the sidecars that the manifest lists. A series
needs no registration and recovery can rebuild a missing manifest.
`workload`, chosen once per behaviour from `Workloads`, is what callers do: with
`"covering"` they submit only replacements that cover the range they replace. The
properties that need it say so.

**FixedStore.** Like KlineStore, without merges. `unit` is the series' `chunk_unit`
(hours behave as days), `parts` the partitions a put has yet to write. An entry's
`month_key` is the key in its file name, except for entries made by a scan
(`byMonth`), which carry their month. Equal timestamps inside a batch go to the
same chunk and are one row here.

**StoreOwnership.** Each process runs one call at a time; a handle is closed,
writable, read-only with its shared lock, or a *probe*: read-only, opened on a
root that has neither a lock file nor series, where `StoreReadLock::acquire`
returns no lock (`lock.rs:47`). A behaviour starts on a root that does not exist
yet or on an empty series. The store has one scalar series in the terms of
`ChunkCatalog`: a put arms the marker, writes its chunk, saves the manifest,
removes what it replaced and clears the marker, each a step that a crash or an
error may follow, and a recovery decides on each untracked file by its range and
generation, as `recover_series_dir` does. Every save renews the manifest's stamp
(its length and modification time): equal stamps of different contents are not
modelled. `ReadBytes` and `ReadDone` are the two halves of a lock-free load (read
the bytes; take the stamp and fill the process cache); a process that has a
cached manifest reads nothing and changes nothing. `LoadForUpdate` and what
follows happen under the lock. The manifest cache of a *writable* handle is left
out: it serves only that handle's lock-free reads and is dropped with the
process's before a mutation reads. `workload` is as in ScalarStore. `Legacy`
starts with a JSON manifest of an earlier release.

**ChunkFileCache.** A lookup under the read lock is one step. The section under
the write lock is several, while `writer` names its thread. `hot` remembers which
flags were set when the lock was taken (what second chance promises to respect).

**SeriesReads.** The manifest is fixed during one operation. Reads that run on
one thread are one step. A planned read takes one step per task of a worker, in
any order between workers, each of which may fail. A replay batch takes one step
per chunk it reads and may fail at each: the rows it had taken are then dropped
though the cursor has moved past them, and `ReplayInOrder` says exactly that.
The byte thresholds of `parallel.rs` and `SHORT_RANGE_MAX_RECORDS` are row counts.
The value of a fixed-width row is its sequence number. Trades and book deltas may
share timestamps inside a chunk. `FindTimestampsViaVix` is the call of
`PredicateQueryEngine` that the engine makes; its zone-map counterpart has no
caller outside its tests.

**RangeWrites and StoreScrub.** One series of either kind. `asked` has every
request that passed validation, `told` the months callers know to be written
(by Ok, or by the list of completed months in an error), `resumable` the last
request from its preflight to its Ok. `RangeBegin` sorts a request and refuses
duplicates, `RangeRefused` and `RangeAccepted` are the preflight against the
manifest; each month then arms the marker, writes its chunk, its sidecars, the
manifest, removes what it replaced and clears the marker. The compaction policy
is the default one, without automatic merges (`KlineStore` has those), and a
mismatch of configuration returns before anything changes and is left out.
`Health` is the report of `StoreScrub` on the state. `SidecarIssue` compares a
sidecar with the rows of its chunk, where the code compares with the number
recorded in the manifest: those are the same rows, by `SidecarsMatch` of
`ScalarStore`. `lock` is `"none"` until the first call creates the lock file.

**ReadViews.** `reader` is chosen once: a session of another process, which holds
no lock, or bridge commands, which open the store read-only and hold a shared
lock (`BridgeOpen`), or none where there was no store yet (`BridgeProbe`). A
command loads the manifest twice, past the process cache: `base` is what its
response describes (scales, coverage, counts), `local` what it reads rows by. A
query fixes its manifest when it starts and then reads one chunk per step, from an
open file when the cache has it (a removed file stays readable through its handle), else from
the disk, where it may be gone. `LoadMeta` is the order of the code: handle
cache, process cache, file, and the process cache is not compared with the file.
A decoded sidecar is keyed by generation, path and checksum. Decoded headers
change no answer and are left out.

**DatasetRegistry.** The bytes of a root are a number, which is also their digest.
A statement outside a transaction is a step, and so is a transaction. `since` is
what was published when a call began, `out` its outcome: the properties compare
them. A catalog starts new, in use, or as one of an earlier release with
`LegacyRows`. Its migration (rename, create, copy, drop) is no transaction and
nothing keeps a second open away: in the model opens overlap it and processes die
inside it. `disturbed` is a history variable: two processes have met over a
catalog that had to be migrated, or one has died between the rename and the
copy. `BoundRowsAgree` and `BindingsAreFinal` in what they say of rows, and
`OpenIsReady` in what it says of a handle's `dataset_manifest`, are stated for
`~disturbed`, since the code does not keep them otherwise (see
[disagreements](#where-documents-and-code-disagree)); the rest of them, and the
other properties, hold whatever happens. A refusal of `seal_snapshot` for an
unclean store or transitional chunks may happen at any seal. `Tamper` changes a root
behind the engine's back, which `resolve` must notice.

**SessionTransport.** One action per assignment of `close()`, because other
threads read the flags without its lock. A frame that the worker never takes
stands for a pipe write that blocks. `CloseGivesUp` is the join that times out.
A KeyboardInterrupt is modelled while a caller waits for its answer, where
`_session.py` handles it; not in the instant between `put_nowait` and
`enqueued = True`, nor between acquiring a lock and the `try`.

## Runs and what they show

`tlc -config <cfg> <module>` in this directory repeats a run.

| run | checks | shows |
|---|---|---|
| `kline` | `AckedReadable`, `OneRowPerTimestamp`, `RowsNeverVanish`, `RecoveryCompletes`, `IInv`, `ImplementsAppendLog` | a kline series is an append-only log through puts, automatic and manual merges, crashes, I/O errors, failed clean-ups and crashed recoveries |
| `scalar` | `SidecarsMatch`, `RetryNotBlocked`, `ImplementsMonthVersions`, `RecoveryCompletes` | with covering replacements each month is a register of whole versions, through recoveries and rebuilds too; for every workload a recovery ends |
| `fixed` | `AckedReadable`, `PrefixOfPartitions`, `NoOrphansWhenClean`, `MonthsNotBlocked` | puts over several partitions lose nothing that was acknowledged, leave a prefix of whole partitions when they fail, and leave no file aside |
| `views` | `CompletedMonthsStay`, `ResumeWorks`, `OrphansAreRedundant`, `AnswersAreOneVersion` | a range write that fails anywhere keeps the months it reported, can be resumed with what is missing, and leaves no file that holds something the manifest lacks; an answer read meanwhile is one version or an error, and a command with its lock describes that version |
| `registry` | `BoundRowsAgree`, `BindingsAreFinal`, `ResolveIsPinned`, `RefusalIsTrue`, `OpenIsReady` | racing publishers bind a version once and for ever, a resolve returns the published root and bytes or fails, a refusal is true, no inherited row is lost, and an opened catalog has every table and every row it inherited unless a migration was disturbed |
| `ownership` | `ReadersSeeTheStore`, `CommitsStay`, `SealedIsFrozen` | with several processes, handles and caches: a read-only handle with its lock sees the store as it is; while replacements cover what they replace, every chunk it may read has its file and acknowledged commits stay; a sealed root is frozen |
| `file_cache` | `CacheInv`, `HotEntriesSurvive`, `OpenReturns` | queue and map never drift apart, the cache stays within its capacity, second chance is respected, every open returns |
| `reads` | `ReadsAreExact`, `PublishedWhole`, `PredicateExact`, `SequenceAccountsForAll`, `ReplayInOrder`, `ReplayEnds` | over every small series and every way to cut it into chunks, each path agrees with a scan of all rows |
| `session` | `NotSentIsTrue`, `OkIsTheAnswer`, `NothingSentAfterTheEnd`, `CloseSettles`, `RequestReturns` | what callers are told is true and every call returns, whatever the worker does |
| `scalar_mixed`, `fixed_blocked`, `reads_ties` | one property each, violated | see [disagreements](#where-documents-and-code-disagree) |

`reads` contains series with equal timestamps as long as no group of equal ones
has a sample of the sparse index inside it; `reads_ties` has those too.
`TypeOK` of `KlineStore` is a conjunct of `IInv`.
`NothingSentAfterTheEnd` is about sessions that ended by a timeout or a protocol
error: an interrupted caller may return while another thread is still inside
`close()`, and the IO thread may then still serve a frame.
Deadlock is checked in all runs but `session`, `reads`, `registry` and `views`, in
which the system really stops (all calls made, the answer returned).

### Bounds

| run | instance | why it is enough |
|---|---|---|
| `kline` | 4 timestamps, 2 months (3 and 1), 3 puts, 2 failures, merge threshold 2 | a base and two deltas in one month, a merge, a crash in it and a crash in its recovery; a second month that must not be touched |
| `scalar` | 3 timestamps, 2 months, both workloads, 3 writes, 1 failure, 1 rebuild | a version, its replacement and a retry after a failure, in a month beside another; ranges that cover, contain or miss each other |
| `fixed` | 4 timestamps in 3 days of 2 months, units month and day, 3 puts, 2 failures, 1 rebuild | a put over three partitions that fails after each, a partition with a base and deltas, a recovery that fails, a key computed anew and used by a later put |
| `ownership` | 2 processes, 3 handles, a batch of a month and one that covers it, both workloads, 3 commits, 1 crash or error | two writers alternate, a reader beside each; a commit between the steps of a load; a replacement whose old files are removed, then a put that fails or dies at any step and a recovery from a stale cache (2.4 million states) |
| `file_cache` | 2 threads, 3 keys, room for 2, 4 opens | two misses of one key, an eviction that meets a flag just set |
| `reads` | timestamps 1..5 (klines) or 1..4 (fixed), all cuttings, windows over 0..6, blocks and tasks of 2 rows, 2 threads, batches of 1 to 3, 1 failing batch | windows before, between, on and past every edge; a last task shorter than the others; both sparse and plain files. Replay is checked on fixed series only (`ReplayKinds`): the cursor is generic |
| `views` | 3 timestamps in 2 months; requests for one month, for both in the wrong order, for the end of one and the other, and with a duplicate; 2 requests, 1 failure; a window from inside the first month into the second; caches of one entry | a failure inside or between the months of a request and its retry; a month grown or rewritten, and its old file removed, while a query stands between two chunks; every cache full; a command opened before the first request (1.1 million states) |
| `registry` | 2 processes, 1 version, 2 roots, 3 calls each, 2 contents per root, 1 crash, 1 tampering; symmetric in the processes | both publish the same version from different roots, one dies after its seal, the other overwrites the row or resolves before, between and after; two opens overlap a migration, or one dies in it (2.9 million states) |
| `session` | 3 threads, 3 requests | one request in progress, one waiting for the slot, one `close()` |

### Fairness

- `KlineStore`, `ScalarStore`: weak fairness of the steps of the operation in
  progress (a call runs on unless it fails; failures are bounded) and of starting
  a recovery while the marker is pending (every writable open and every mutation
  runs it first). No fairness of puts or merges.
- `ChunkFileCache`: weak fairness of each thread that can proceed. Handing over
  the lock relies on the bound on opens: `std::sync::RwLock` promises no more.
- `SessionTransport`: weak fairness of each thread's steps, timers included, and
  of the IO thread. None of the worker, nor of new calls.
- `SeriesReads`: weak fairness of a replay's steps: a caller that keeps asking.
- `StoreOwnership`, `FixedStore`, `DatasetRegistry`, `ReadViews`: safety only, no
  fairness. A query of a session may fail again and again beside a writer that
  removes the files of its manifest, and nothing in the code ends that.

## Proofs

`tlapm <module>` checks them, for every set of timestamps, months, threads, keys
and every value of the bounds, from the assumptions named in the modules:
timestamps are integers and months are intervals of them (`TsAssumption`,
`MonthAssumption`), bounds are naturals (`BoundAssumption`), the cache has room
for one file and `NoThread` is no thread (`CacheAssumption`), each handle has
its process and a month of its batches is an interval of time
(`OwnershipAssumption`), versions are positive and `NoRoot` is no root
(`VersionAssumption`, `RootAssumption`, `LegacyAssumption`), months and days of
the scalar and fixed-width series are intervals of time too and a batch has a
first and a last timestamp (`ScalarAssumption`, `FixedAssumption`), a later
timestamp of a range write is in no earlier month (`RangeAssumption`), the
caches of a reader have room for one entry (`ViewsAssumption`), and the thread
that opens a session is one of the threads (`SessionAssumption`). What holds
only under a condition says so, in the theorem (`~Legacy`: no JSON manifest of
an earlier release) or in the property (`workload = "covering"`; `~disturbed` in
the registry; the shared lock, `mode[h] = "ro"` or `handle # "probe"`, of
readers).

**Kline series.** `TypeCorrect` (KlineStoreProofs) goes action by action. The
safety properties are not inductive: that recovery may adopt an orphan depends on
where orphans come from. `IInv` (KlineInvariant) says: every file in `chunks/` is
*settled* (an entry names it, or an entry with a later generation holds all its
rows over its whole range), with at most one exception, the chunk that the
operation in progress or the one that failed published without its manifest. That
file is *newer* than the entries of its month, and lies after each of them (an
append) or contains it (a merge). `OutInv` says this of the chunk about to be
published, `PhaseInv` what each phase may rely on, `RecoverInv` that the entries
recovery builds in memory improve on the manifest and that the one orphan is
still among its candidates. The module then proves `IInv` inductive
(`InvariantHolds`), one step per action, and from it `AckedRowsReadable`,
`OneRowRead`, `CleanIsSettled`, `NextNamesAreFree` and the action property
`RowsStay`. TLC checks `IInv` too. `StoreIsAppendLog` is the refinement: a put
submits a batch, the save of a manifest publishes it (that of the put, or that of
the recovery which adopts its orphan), the end of the put acknowledges it, and
every other step is a stutter. It needs one more fact (`LogInv`): what the files
hold is readable or is the whole open batch, and a merge writes readable rows
only, so that whatever recovery adopts shows nothing or all of the batch.

**Scalar series.** `ScalarStoreProofs` proves for covering workloads that the
files of a month form a *chain*: of any two, the one with the later generation
contains the range of the other (`GoodDisk`). A file is *settled* when it is the
entry of its month or below it in the chain, and the only other file is the
version of the write that is not settled (`OrphanInv`). Both decisions the code
makes from files alone, adoption of a candidate (`AdoptSettles`) and selection
among overlap groups (`RebuildSettles`), then choose the top of the chain, which
is the version readable before or the open one (`ContentMoves`). Sidecars need
their own part: removals may fail one by one, so a sidecar can outlive its chunk,
and is harmless only because its name carries a generation below the entry of its
month and is not chosen again (`IndexInv`). From these `ScalarSidecarsMatch`,
`ScalarRetryNotBlocked`, `ScalarWholeVersions` and the refinement
`ScalarIsMonthVersions`; types hold for every workload (`ScalarTypeCorrect`).
Without `workload = "covering"` the chain breaks, and run `scalar_mixed` shows
what follows.

**Fixed-width series.** `IInv` of `FixedStoreProofs` says: in each partition the
generations on disk are 1, 2, ... without a gap and follow each other in time
(`GoodDisk`), which makes the entries that a recovery or a rebuild reads back the
ones that were there; what the files hold of a put is a prefix of it, cut between
partitions (`GoodPrefix`); a file without an entry is of the last put, of which
readers see nothing (`OrphanInv`); and a put in progress has in memory an entry
for every file, with the partitions left to write all later than those written
(`PutInv`). `FixedAckedReadable`, `FixedPrefix`, `FixedNoOrphans`,
`FixedMonthsNotBlocked` and the action property `FixedRowsStay` follow. The last
is not checked by a run of its own.

**Python session.** Each property of `SessionTransport` is about what one thread
says of a frame that others handle, so the invariant follows the frame: a caller
with a number holds the request slot and its number is the newest (`SlotInv`,
`CountInv`); until it is queued nobody else has heard of it (`PrivateInv`); the
queue holds at most one exchange, unsent and of a caller that still waits unless
the session is closed (`QueueInv`); the IO thread writes it once (`IoInv`); every
ground for saying "not sent", the exception already chosen by a thread inside
`close()` included, means that the frame is in none of these places (`SentInv`);
the worker answers only what it dispatched, in growing numbers (`WorkerInv`,
`AnswerInv`); and `close()` kills the worker before anyone else goes on
(`KillInv`). From it `SessionNotSent`, `SessionAnswers`, `SessionEnds`, and
`SessionQueueFree`: `put_nowait` cannot raise `queue.Full`.

**File cache.** That queue and map agree and that the cache is bounded cannot be
shown step by step without the position of the thread in the locked section
(`InsertionIsExclusive`, `HandleInHand`), and second chance not without that of
the eviction sweep (`SweepPosition`): keys that the sweep passed over went to the
back of the queue with their flags cleared, the rest still have the flags they
had when the lock was taken. `CacheInv` is the conjunction; `CacheInvHolds`,
`CacheStaysBounded`, `QueueNeverDrifts` and `SecondChance` follow.

**Ownership.** `OwnInv` (StoreOwnershipProofs) says: the lock belongs to the one
process in a locked phase, and a seal or a reader excludes it (`LockInv`); a
reader with its lock caches what is on disk (`HandleInv`); and, for covering
workloads, `CoverInv`. Its first half, `DiskInv`: the files of a month form a
chain, of any two the newer contains the range of the older (`GoodFiles`), the
entries on disk have their files and stand for every acknowledged put, and
without a marker every file is *settled*, that is, an entry or below one in its
chain. Its second half, `WorkInv`, says of each process what its phase may rely
on. The strengthening that `CommitsStay` needs is about manifests that nobody
reads any more: whatever a process has cached, however old, has its place in the
chains, at or below the entries on disk, *whether its files are still there or
not* (`Stale`, `Fits`). A recovery that starts from it then climbs: each
candidate that is newer contains what the entry covers, so it is adopted, and the
one on top of the chain ends as the entry (`Settled`). A mutation needs the
opposite, that the manifest it works from was read after the caches were dropped.
`ReadersAreCurrent`, `CommitsAreKept` and `SealIsFinal` follow under `~Legacy`:
with a JSON manifest the first two are false.

**Dataset registry.** `RegistryInv` says: unless a migration was disturbed,
nothing is bound while a catalog is old or being migrated, and whoever migrates it
is alone (`MigrationInv`, `Alone`); a publisher at its commit holds the binding
made from the record it was given, a verifier only bindings that the catalog has
(`CallOf`); what callers were told is true of the catalog (`ToldOf`). With
`BoundRowsAgree` these are inductive because an upsert leaves bound rows alone in
its own statement and a commit looks for a binding in its own transaction.
`SchemaInv` follows an open statement by statement, whoever else is at work;
`KeptInv` says that of several overlapping migrations one at a time has renamed
the table (the name of its backup is taken for the others), and that it drops the
backup only after it copied every row, so no inherited row is lost; `Present`
adds, unless a migration was disturbed, how far it has come. From them
`VersionsAreBoundOnce`, `BindingsStay`, `ResolvesArePinned`, `RefusalsAreTrue` and
`HandlesAreReady`, without a hypothesis.

**Range writes and readers.** The properties of `RangeWrites` are proved of
`ReadViews`, whose writer is the same, in `ReadViewsProofs` (`InvariantHolds`: `IInv`
is inductive; TLC checks it too, on the instance of run `views`).

For the writer, `GoodDisk` orders the files of a month: of two kline files one
ends before the other starts (`Before`), of two scalar files the newer holds all
of the older (`Within`). Each file is *settled* (it has an entry, or an entry was
written over it) except the one of the month being written (`OutInv`) or of the
write that failed. `ResumeInv` says what that file is, the batch of its month, so
that recovery adopts a whole month or nothing, and `RecoverInv` follows its
entries in memory. Rows are whole batches, and the earlier months of their request
can be read (`Whole`, `Ordered`): that a request shows a prefix of its months is
not inductive without saying it of the files that no reader sees yet.
`RequestInv` says of a month left to write that it starts after what its month
has, which the preflight checked for all of them before the first was written.
From these `ToldMonthsHold`, `ResumeHolds` and `OrphansHold`. The last needs a sum,
that of the rows in an inventory; `SumIs` shows that the fold adds up by looking
at a smallest set for which it would not, which needs no induction rule.

For the readers, `KnownInv` says: every place that knows the rows behind a file
name (the directory, the sidecars, each manifest held by a handle, a session, the
bridge or a query, each open file) agrees, and a name that is no longer on disk
is below the generation of its month (`Superseded`), so no later write takes it.
That is what makes a stale open file or a stale manifest harmless: a query either
finds the file of its own version or fails. Decoded sidecars are found by
checksum (`DecodedInv`), and a query in progress has the rows of the chunks it
read and lacks those of the rest (`QueryInv`). `WriterApart` and `ReadersApart`
show that the steps of one side leave the invariant of the other alone but for
`KnownInv`. `AnswersHold` follows. For its last part, that a command describes the
version it reads, `base` and `local` are the manifest on disk as long as the
shared lock is held.

**Only model-checked.** Liveness (`RecoveryCompletes`, `OpenReturns`,
`RequestReturns`, `CloseSettles`, `ReplayEnds`): fairness and ENABLED are out of
the prover's reach. SeriesReads (`ReadsAreExact`, `PublishedWhole`,
`PredicateExact`, `SequenceAccountsForAll`, `ReplayInOrder`) and the read
operators: binary searches, merges of ranges and folds over sequences of chunks.
What they compute for every input needs induction over data, also for the part
that looks like a protocol: that the tasks of a planned read cover each slot once
rests on what its searches and sums of offsets return.

## Where documents and code disagree

Each is a run whose property states a sentence of the documents and is violated
by what the code does.

- `scalar_mixed`: a replaced chunk file whose removal failed, and whose range its
  replacement does not meet, is adopted by a later recovery (`recovery.rs:518`).
  `docs/CORE_CONTRACT.md:95`: "Reopen results must contain whole versions, never
  mixed scalar values".
- `fixed_blocked`: recovery lists a chunk of an hour or day partition under its
  month (`recovery.rs:795`), so the next put in that partition does not see it,
  takes the same file name and is refused, after every further recovery too.
  `docs/STORE_LIFECYCLE.md:96`: rows are stored "in the configured time
  partition"; `docs/CORE_CONTRACT.md:87`: "Inspect/recover before retrying". Hours
  and days are the defaults of trades, quotes and book deltas; with months
  (`MonthsNotBlocked`) the name is always free.
- `reads_ties`: a range read or sequence scan that starts at a timestamp shared by
  several trades or book deltas loses those before a sample of the sparse index
  (`fixed_reader.rs:123`), which a replay returns.
  `docs/REPLAY_AND_TAIL.md:34`: "equal timestamps are preserved in file order";
  `docs/STORE_LIFECYCLE.md:97`: range, latest and replay reads are offered alike.

Met while modelling, without a run of their own:

- A read through a writable handle migrates a JSON manifest of an earlier release
  and saves it without the lock (`manifest.rs:139`), while
  `docs/CORE_CONTRACT.md:43` and `:57` promise mutation under ownership only.
  With `Legacy = TRUE` in `MCOwnership.cfg`, TLC finds `CommitsStay` and
  `ReadersSeeTheStore` violated.
- The migration of a catalog of an earlier release (rename, create, copy, drop) is
  several statements without a transaction (`dataset_registry.rs:634`), while the
  comment at `:190` speaks of "additive compatibility migrations". A crash, or a
  second process that opens, between the rename and the copy leaves the inherited
  rows out of sight; the process that opened may publish a version into the new
  table, and the `INSERT OR REPLACE` of the copy then puts the old row in the
  place of the bound one, for good. Without the conditions `~disturbed` TLC finds
  `OpenIsReady`, `BoundRowsAgree` and `BindingsAreFinal` violated. No inherited
  row is lost all the same: it stays in `dataset_manifest_legacy_v1`.
- `open_read_only` takes no lock on a root without a lock file and series
  (`lock.rs:47`), and the handle keeps none when a writer creates the store
  afterwards. `docs/CORE_CONTRACT.md:50` says so ("missing/empty-root inventory
  probes are stateless"); the comment of `open_read_only` (`store.rs:203`, "Holds
  a shared OS lock until dropped") and `CORE_CONTRACT.md:46` read alone do not.
  Such a handle works on a manifest that may be replaced while it is open. A
  bridge command opened this way may describe one version and return the rows or
  the inventory of another, since it loads the manifest twice
  (`bridge.rs:306`-`315`): without `handle # "probe"` TLC finds
  `AnswersAreOneVersion` violated.
- A full detach of a session drops the caches of its handle, not the manifest
  cache of the process (`manifest.rs:52`), so a second attachment may see the
  same old manifest. `AnswersAreOneVersion` holds all the same: an answer may be
  old, not mixed.
- The orphan of a scalar replacement that does not cover its month is neither
  adopted nor removed by recovery, and a retry fails on the taken name
  (`fs.rs:52`): `RetryNotBlocked` holds for covering replacements only.
- A merge with an Active source yields an Active chunk, which replay leaves out
  (`compaction.rs:124`), while `docs/STORE_LIFECYCLE.md:70` says that compaction
  merges "without changing caller semantics".
- A lock-free load can store old bytes under a newer stamp (`manifest.rs:160`), and
  a mutation runs its pending recovery before it drops the caches
  (`store_writes.rs:24`), while `docs/CORE_CONTRACT.md:44` says "Metadata is
  reloaded after ownership is acquired". The recovery then works from the old
  manifest. While replacements cover what they replace it finds its way up to the
  newest files. It does not for a rewrite of a month that covers less than the
  chunk it replaced: that file overlaps the stale entry without covering it, is
  not adopted (`recovery.rs:528`-`545`), and when the recovery saves its manifest
  the acknowledged rewrite is gone, and the entry in its place names a file that
  was removed. Without `workload = "covering" =>` TLC finds `CommitsStay`
  violated, and the last clause of `ReadersSeeTheStore` too.

Also met, and harmless: the sidecar cache's `invalidate(relative_path)` compares
a relative prefix with absolute paths and so matches nothing; its keys carry
checksum and generation, so no stale sidecar is used.

## What is not modelled

- Codecs (headers, manifests, checksums, JSON migration of contents): byte
  layouts without protocol. A damaged file is not modelled.
- JSON decoding, argument parsing and unit conversion of `bridge.rs` and the
  command line; one-shot calls of the Python client.
- Derived series, metrics, benchmarks: arithmetic over range reads, and counters
  that no operation reads.
- The sweep of temporary files at startup, and the cache of decoded headers.
- Automatic merges inside a range append; rebuilds of kline manifests.
- SQLite itself, and the verification of a snapshot's files one by one: a root
  has its digest or it has not.

## Plan

Order of work, the most important behaviour first. Done:

1. `ChunkCatalog`, `KlineStore` with `AppendLog`: durability of acknowledged rows.
2. `TypeCorrect`, `IInv` and the safety theorems of the kline series.
3. `ScalarStore` with `MonthVersions`: whole versions and sidecars.
4. `ChunkFileCache` and its proofs; `StoreOwnership`.
5. `SessionTransport`; `ChunkReads`, `ScalarIndex`, `SequenceScan`, `SeriesReads`.
6. `FixedStore`: one chunk per partition, one save, keys computed anew by recovery.
7. `RangeWrites` with `StoreScrub`: what a caller knows after one month of several
   failed, and what the reports say of it.
8. `ReadViews`: sessions, views and bridge commands beside that writer.
9. `DatasetRegistry`: publication of a sealed root, and its readers; its proofs,
   and those of `StoreOwnership`.
10. Proofs of the refinement of the kline series by `AppendLog`, of `ScalarStore`
    with its refinement of `MonthVersions`, of `FixedStore` and of
    `SessionTransport`.
11. Proofs of `RangeWrites` and `ReadViews`.

Next:

12. Rebuilds of kline manifests; generations reused by a rebuild in workloads that
    are not covering.
