----------------------------- MODULE RangeWrites ----------------------------
(***************************************************************************)
(* Writes of a range of records that may span several months: the bridge   *)
(* commands write-kline-range, write-scalar-range and write-indicator-     *)
(* range, and the library calls append_kline_range and append_scalar_range *)
(* behind them.  A request is validated and checked against the manifest   *)
(* as a whole, and then committed month by month, each month under its own *)
(* recovery marker; a failure in the middle leaves the earlier months.     *)
(*                                                                         *)
(* One series, of either kind: a kline month grows by delta files, a       *)
(* scalar month is written again with its old rows first and the replaced  *)
(* file removed.  One action per write that reaches the disk.  A row       *)
(* carries the number of the request that brought it.  Configuration       *)
(* mismatches (timeframe, scales, a missing base series) return before     *)
(* anything changes and are left out.  The compaction policy is the default*)
(* one, without automatic merges; KlineStore has those.                    *)
(***************************************************************************)
EXTENDS StoreScrub, Sequences

CONSTANTS Ts,         \* the timestamps rows may have
          Months,     \* the months, numbers in time order
          MonthOf,    \* the month of each timestamp
          MaxWrites,  \* bound: requests submitted
          Inputs,     \* the requests: sequences of timestamps
          MaxFails    \* bound: crashes and I/O errors

ASSUME RangeAssumption ==
  /\ Ts \subseteq Int /\ Months \subseteq Int
  /\ MonthOf \in [Ts -> Months]
  /\ \A s, t \in Ts : s <= t => MonthOf[s] <= MonthOf[t]
  /\ Inputs \subseteq Seq(Ts)
  /\ MaxWrites \in Nat /\ MaxFails \in Nat

VARIABLES
  kind,        \* the kind of the series, kline or scalar
  disk,        \* the chunk files
  index,       \* the sidecar files
  manifest,    \* the entries of series.meta
  sides,       \* the paths of the chunks for which it lists a sidecar
  registered,  \* series.meta exists
  marker,      \* .fastk.recovery.pending exists
  lock,        \* the OS lock of the root: free, write or read, none before its
               \* file exists
  pc,          \* the next step of the writer
  goal,        \* recovery: for an open or repair, or for a write
  left,        \* the months of the request that are still to be written
  done,        \* completed: the months that are committed
  out,         \* the entry of the chunk file being written, none or one
  obsolete,    \* the entries whose files are to be removed
  meta,        \* recovery: the entries in memory
  todo,        \* recovery: candidates left
  asked,       \* the timestamps of every request that was validated
  told,        \* the months that callers were told are written
  resumable,   \* the last request, from its preflight to its Ok, none or one
  fails

durable == <<disk, index, manifest, sides, registered, marker>>
request == <<left, done, out, obsolete>>
scan    == <<meta, todo>>
callers == <<asked, told, resumable>>
writer  == <<kind, durable, lock, pc, goal, request, scan, callers, fails>>

Kinds == {"kline", "scalar"}

WriterInit ==
  /\ kind \in Kinds
  /\ disk = {} /\ index = {} /\ manifest = {} /\ sides = {}
  /\ registered = FALSE /\ marker = FALSE /\ lock = "none"
  /\ pc = "idle" /\ goal = "open"
  /\ left = {} /\ done = {} /\ out = {} /\ obsolete = {}
  /\ meta = {} /\ todo = {}
  /\ asked = <<>> /\ told = {} /\ resumable = {} /\ fails = 0

(***************************************************************************)
(* Requests                                                                *)
(***************************************************************************)
\* month_batches: the library takes records in strict order only.
Increasing(input) == \A i, j \in DOMAIN input : i < j => input[i] < input[j]

\* normalize_kline_records, normalize_scalar_records: the bridge sorts the
\* records and rejects a timestamp given twice.
Normalizes(input) == \A i, j \in DOMAIN input : input[i] = input[j] => i = j

Request == Len(asked)

\* Nobody holds the lock; the first call to take it creates its file.
Unlocked == lock \in {"none", "free"}

\* The months of request v, and its rows in one of them.
BatchMonths(v) == {MonthOf[t] : t \in asked[v]}

Batch(v, m) == {[ts |-> t, ver |-> v] : t \in {s \in asked[v] : MonthOf[s] = m}}

\* Some month of the request does not start after the rows it already has.
preflight_overlap(v, months) ==
  \E m \in months : \E c \in Readable(InMonth(manifest, m)), r \in Batch(v, m) : r.ts <= c.end

\* begin_mutation for a validated request: the lock, and a pending recovery.
RangeBegin(input) ==
  /\ pc = "idle" /\ Unlocked /\ Len(asked) < MaxWrites
  /\ asked' = Append(asked, {input[i] : i \in DOMAIN input})
  /\ resumable' = {}
  /\ lock' = "write"
  /\ goal' = "write"
  /\ \/ marker /\ pc' = "recover" /\ meta' = manifest /\ todo' = disk
     \/ ~ marker /\ pc' = "check" /\ UNCHANGED scan
  /\ UNCHANGED <<kind, durable, request, told, fails>>

append_kline_range(input) == kind = "kline" /\ Increasing(input) /\ RangeBegin(input)

append_scalar_range(input) == kind = "scalar" /\ Increasing(input) /\ RangeBegin(input)

write_kline_range(input) == kind = "kline" /\ Normalizes(input) /\ RangeBegin(input)

write_scalar_range(input) == kind = "scalar" /\ Normalizes(input) /\ RangeBegin(input)

\* The call is over: its memory and the lock are released.
Return ==
  /\ pc' = "idle" /\ goal' = "open" /\ lock' = "free"
  /\ left' = {} /\ done' = {} /\ out' = {} /\ obsolete' = {}
  /\ meta' = {} /\ todo' = {}

RangeRefused ==
  /\ pc = "check"
  /\ preflight_overlap(Request, BatchMonths(Request))
  /\ Return
  /\ UNCHANGED <<kind, durable, callers, fails>>

RangeAccepted ==
  /\ pc = "check"
  /\ ~ preflight_overlap(Request, BatchMonths(Request))
  /\ left' = BatchMonths(Request)
  /\ resumable' = {Request}
  /\ pc' = IF registered THEN "month" ELSE "register"
  /\ UNCHANGED <<kind, durable, lock, goal, done, out, obsolete, scan, asked, told, fails>>

\* The series is registered under a marker of its own.
RegisterArm ==
  /\ pc = "register"
  /\ marker' = TRUE
  /\ pc' = "register_save"
  /\ UNCHANGED <<kind, disk, index, manifest, sides, registered, lock, goal, request, scan,
                 callers, fails>>

RegisterSave ==
  /\ pc = "register_save"
  /\ registered' = TRUE
  /\ pc' = "register_commit"
  /\ UNCHANGED <<kind, disk, index, manifest, sides, marker, lock, goal, request, scan,
                 callers, fails>>

RegisterCommit ==
  /\ pc = "register_commit"
  /\ marker' = FALSE
  /\ pc' = "month"
  /\ UNCHANGED <<kind, disk, index, manifest, sides, registered, lock, goal, request, scan,
                 callers, fails>>

(***************************************************************************)
(* One month                                                               *)
(***************************************************************************)
\* The file of the next chunk of a month that has `tracked` entries.
NextPath(m, tracked, g) ==
  IF tracked = {} THEN BasePath(m)
  ELSE IF kind = "kline" THEN DeltaPath(m, g) ELSE MergedPath(m, g)

\* A kline chunk holds the new rows, a scalar chunk those of its month too.
ChunkRows(m, tracked, rows) ==
  IF kind = "kline" THEN rows ELSE RowsOf(Readable(tracked)) \cup rows

\* Mutant of MonthBegin: the months are taken in any order.
MonthBeginAnyOrder ==
  /\ pc = "month"
  /\ \E m \in left :
       LET tracked == InMonth(manifest, m)
           rows == ChunkRows(m, tracked, Batch(Request, m))
       IN  \E g \in NextGeneration(tracked), i \in NextChunkId(manifest), lo, hi \in rows :
             /\ \A r \in rows : lo.ts <= r.ts /\ r.ts <= hi.ts
             /\ out' = {[path |-> NextPath(m, tracked, g), id |-> i, gen |-> g,
                         start |-> lo.ts, end |-> hi.ts, rows |-> rows,
                         state |-> IF kind = "kline" /\ tracked # {} THEN "Active" ELSE "Sealed"]}
  /\ marker' = TRUE
  /\ pc' = "chunk"
  /\ UNCHANGED <<kind, disk, index, manifest, sides, registered, lock, goal, left, done,
                 obsolete, scan, callers, fails>>

\* put_kline_chunk_locked and append_scalar_chunk_locked up to the marker, for
\* the first month left.  Their own overlap checks repeat the preflight, which
\* was made under the same lock.
MonthBegin ==
  /\ pc = "month"
  /\ \E m \in left :
       LET tracked == InMonth(manifest, m)
           rows == ChunkRows(m, tracked, Batch(Request, m))
       IN  /\ \A n \in left : m <= n
           /\ \E g \in NextGeneration(tracked), i \in NextChunkId(manifest), lo, hi \in rows :
                /\ \A r \in rows : lo.ts <= r.ts /\ r.ts <= hi.ts
                /\ out' = {[path |-> NextPath(m, tracked, g), id |-> i, gen |-> g,
                            start |-> lo.ts, end |-> hi.ts, rows |-> rows,
                            state |-> IF kind = "kline" /\ tracked # {} THEN "Active" ELSE "Sealed"]}
  /\ marker' = TRUE
  /\ pc' = "chunk"
  /\ UNCHANGED <<kind, disk, index, manifest, sides, registered, lock, goal, left, done,
                 obsolete, scan, callers, fails>>

\* atomic_write_new: an existing file of that name is an error.
WriteChunk ==
  /\ pc = "chunk"
  /\ \E e \in out :
       \/ /\ e.path \notin Paths(disk)
          /\ disk' = disk \cup {FileOf(e)}
          /\ pc' = IF kind = "scalar" THEN "sidecar" ELSE "manifest"
          /\ UNCHANGED <<index, manifest, sides, registered, marker, lock, goal, request,
                         scan, told>>
       \/ /\ e.path \in Paths(disk)
          /\ told' = told \cup {<<Request, m>> : m \in done}
          /\ Return
          /\ UNCHANGED durable
  /\ UNCHANGED <<kind, asked, resumable, fails>>

\* build_scalar_sidecars: an existing sidecar is replaced.
WriteSidecar ==
  /\ pc = "sidecar"
  /\ \E e \in out :
       index' = {x \in index : x.path # e.path} \cup {[path |-> e.path, rows |-> e.rows]}
  /\ pc' = "manifest"
  /\ UNCHANGED <<kind, disk, manifest, sides, registered, marker, lock, goal, request, scan,
                 callers, fails>>

\* A kline entry is added, a scalar entry replaces its month.
SaveManifest ==
  /\ pc = "manifest"
  /\ \E e \in out :
       LET removed == IF kind = "kline" THEN {} ELSE InMonth(manifest, e.path.month)
       IN  /\ manifest' = IF removed = {} THEN UpsertChunk(manifest, e)
                          ELSE ReplaceMonth(manifest, e.path.month, e)
           /\ ValidChunks(manifest')
           /\ sides' = IF kind = "kline" THEN sides
                       ELSE (sides \ Paths(removed)) \cup {e.path}
           /\ obsolete' = removed
  /\ pc' = IF kind = "kline" THEN "commit" ELSE "cleanup"
  /\ UNCHANGED <<kind, disk, index, registered, marker, lock, goal, left, done, out, scan,
                 callers, fails>>

\* remove_sidecars_for_chunks: each removal may fail and is not reported.
RemoveObsolete ==
  /\ pc = "cleanup"
  /\ \E gone \in SUBSET obsolete, bare \in SUBSET Paths(obsolete) :
       /\ disk' = disk \ {FileOf(c) : c \in gone}
       /\ index' = {x \in index : x.path \notin bare}
  /\ obsolete' = {}
  /\ pc' = "commit"
  /\ UNCHANGED <<kind, manifest, sides, registered, marker, lock, goal, left, done, out, scan,
                 callers, fails>>

\* Mutant of MonthCommit: a month counts as completed before it is started.
MonthCommitEarly ==
  /\ pc = "commit"
  /\ \E e \in out :
       /\ left' = left \ {e.path.month}
       /\ done' = done \cup {e.path.month} \cup {m \in left' : \A n \in left' : m <= n}
  /\ marker' = FALSE
  /\ out' = {}
  /\ pc' = "month"
  /\ UNCHANGED <<kind, disk, index, manifest, sides, registered, lock, goal, obsolete, scan,
                 callers, fails>>

\* The marker is cleared and the month counts as completed.
MonthCommit ==
  /\ pc = "commit"
  /\ \E e \in out :
       /\ left' = left \ {e.path.month}
       /\ done' = done \cup {e.path.month}
  /\ marker' = FALSE
  /\ out' = {}
  /\ pc' = "month"
  /\ UNCHANGED <<kind, disk, index, manifest, sides, registered, lock, goal, obsolete, scan,
                 callers, fails>>

\* All months are written, or there were none: Ok.
RangeDone ==
  /\ pc = "month" /\ left = {}
  /\ told' = told \cup {<<Request, m>> : m \in done}
  /\ resumable' = {}
  /\ Return
  /\ UNCHANGED <<kind, durable, asked, fails>>

\* monthly_write_error tells the caller which months are completed; a process
\* that dies tells nothing.  The marker stays as it is.
WriterFails ==
  /\ pc # "idle" /\ fails < MaxFails
  /\ fails' = fails + 1
  /\ told' \in {told, told \cup {<<Request, m>> : m \in done}}
  /\ Return
  /\ UNCHANGED <<kind, durable, asked, resumable>>

(***************************************************************************)
(* Recovery: before a write, when a store with a marker is opened, and     *)
(* whenever it is repaired.                                                *)
(***************************************************************************)
RepairBegin ==
  /\ pc = "idle" /\ Unlocked
  /\ lock' = "write" /\ goal' = "open" /\ pc' = "recover"
  /\ meta' = manifest /\ todo' = disk
  /\ UNCHANGED <<kind, durable, request, callers, fails>>

RecoverCandidate ==
  /\ pc = "recover"
  /\ \E f \in todo :
       /\ \A g \in todo : f.start <= g.start
       /\ meta' = AdoptCandidate(meta, f)
       /\ todo' = todo \ {f}
  /\ UNCHANGED <<kind, durable, lock, pc, goal, request, callers, fails>>

\* Adopted chunks come with the sidecars found beside them.
RecoverSave ==
  /\ pc = "recover" /\ todo = {}
  /\ ValidChunks(meta)
  /\ manifest' = meta
  /\ sides' = (sides \cap Paths(meta)) \cup (Paths(index) \cap (Paths(meta) \ Paths(manifest)))
  /\ pc' = "recover_clear"
  /\ UNCHANGED <<kind, disk, index, registered, marker, lock, goal, request, scan, callers,
                 fails>>

RecoverClear ==
  /\ pc = "recover_clear"
  /\ marker' = FALSE
  /\ \/ /\ goal = "write" /\ pc' = "check" /\ meta' = {}
        /\ UNCHANGED <<lock, goal, request, todo>>
     \/ goal = "open" /\ Return
  /\ UNCHANGED <<kind, disk, index, manifest, sides, registered, callers, fails>>

WriterNext ==
  \/ \E input \in Inputs : \/ append_kline_range(input) \/ append_scalar_range(input)
                           \/ write_kline_range(input) \/ write_scalar_range(input)
  \/ RangeRefused \/ RangeAccepted
  \/ RegisterArm \/ RegisterSave \/ RegisterCommit
  \/ MonthBegin \/ WriteChunk \/ WriteSidecar \/ SaveManifest \/ RemoveObsolete
  \/ MonthCommit \/ RangeDone
  \/ RepairBegin \/ RecoverCandidate \/ RecoverSave \/ RecoverClear
  \/ WriterFails

(***************************************************************************)
(* Properties                                                              *)
(***************************************************************************)
ShownRows == RowsOf(Readable(manifest))

\* A month that a caller was told is written, by Ok or by the completed_months
\* of an error, is readable from then on, whatever fails, is recovered or is
\* written later (append_kline_range and append_scalar_range, CORE_CONTRACT.md
\* "Cross-month failures report completed_months").
CompletedMonthsStay == \A x \in told : Batch(x[1], x[2]) \subseteq ShownRows

Shown(v, m) == Batch(v, m) \subseteq ShownRows

\* The months of request v that are not there.
Remainder(v) == {m \in BatchMonths(v) : ~ Shown(v, m)}

\* A request shows whole months and a prefix of them in time order, also in the
\* middle of a crash or a recovery; and once the store is settled a caller that
\* inspects it can send the months that are missing: they pass the preflight
\* and no leftover file has the name they will take.
ResumeWorks ==
  /\ \A v \in 1..Len(asked), m \in Months :
       Shown(v, m) \/ Batch(v, m) \cap ShownRows = {}
  /\ \A v \in 1..Len(asked) : \A m \in Remainder(v), n \in BatchMonths(v) :
       m < n => n \in Remainder(v)
  /\ pc = "idle" /\ ~ marker =>
       \A v \in resumable :
         /\ ~ preflight_overlap(v, Remainder(v))
         /\ \A m \in Remainder(v) : \A g \in NextGeneration(InMonth(manifest, m)) :
              NextPath(m, InMonth(manifest, m), g) \notin Paths(disk)

Health == health_summary(validate_series_dir(disk, index, registered, manifest, sides), marker)

\* Once no recovery is pending, the orphans that the health check lists hold no
\* row that cannot be read without them, they are the only thing it can find,
\* and each overlap between files that the scrub sees has a survivor, the chunk
\* that the manifest names.
OrphansAreRedundant ==
  pc = "idle" /\ registered /\ ~ Health.pending_recovery =>
    /\ \A f \in Health.orphans.chunks : f.rows \subseteq ShownRows
    /\ Health.orphans = [chunks |-> {}, sidecars |-> {}] => Health.clean
    /\ \A f \in disk : f \in Health.orphans.chunks \/ \E c \in manifest : FileOf(c) = f
    /\ \A o \in scrub_overlaps(disk) : \E w \in o.winner, c \in manifest : c.path = w.path
=============================================================================
