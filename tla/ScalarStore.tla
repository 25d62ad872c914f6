----------------------------- MODULE ScalarStore ----------------------------
(***************************************************************************)
(* The durable state of one scalar series: put_scalar_chunk replaces a     *)
(* month, append_scalar_chunk rewrites it with new rows at its end, both   *)
(* build the .zmap and .vix sidecars, and recovery or a rebuild decides    *)
(* what a reopened store shows.  As in KlineStore there is one action per  *)
(* write that reaches the disk and one operation at a time.                *)
(*                                                                         *)
(* A series needs no registration: its first manifest may be written by a  *)
(* put, and recovery can reconstruct a missing one from the files.  All    *)
(* scalar chunks are Sealed.                                               *)
(***************************************************************************)
EXTENDS ChunkCatalog

CONSTANTS Ts,            \* the timestamps rows may have
          Months,        \* the partition keys
          MonthOf,       \* the partition of each timestamp
          Workloads,     \* "covering": a replacement covers the month it replaces,
                         \* "any": it need not
          MaxPuts,       \* bound: puts and appends submitted
          MaxFails,      \* bound: crashes and I/O errors
          MaxRebuilds    \* bound: manual manifest rebuilds

ASSUME ScalarAssumption ==
  /\ Ts \subseteq Int
  /\ MonthOf \in [Ts -> Months]
  \* A month is an interval of time.
  /\ \A s, t, u \in Ts :
       s <= t /\ t <= u /\ MonthOf[s] = MonthOf[u] => MonthOf[t] = MonthOf[s]
  /\ Workloads \subseteq {"covering", "any"}
  /\ MaxPuts \in Nat /\ MaxFails \in Nat /\ MaxRebuilds \in Nat

VARIABLES
  workload,    \* the workload of this behaviour
  disk,        \* the chunk files in chunks/
  index,       \* the sidecar files in chunks/, with the rows they were built from
  manifest,    \* the entries of series.meta
  sides,       \* the sidecars that series.meta lists for its entries
  registered,  \* series.meta exists
  marker,      \* .fastk.recovery.pending exists
  pc,          \* the next disk write of the operation in progress
  out,         \* put: the entry of the chunk file it writes, none or one
  obsolete,    \* put: the entries whose files are to be removed
  meta,        \* recovery: the entries in memory
  todo,        \* recovery: candidates left
  open,        \* the write whose outcome is not settled, none or one
  acked,       \* the last acknowledged version of each month
  versions,    \* the months' contents that were ever submitted
  puts, fails, rebuilds

durable == <<disk, index, manifest, sides, registered, marker>>
local   == <<out, obsolete, meta, todo>>
callers == <<open, acked, versions>>
counted == <<puts, fails, rebuilds>>
vars    == <<workload, durable, pc, local, callers, counted>>

SidecarKinds == {"zmap", "vix"}

Row == [ts : Ts, ver : 1..MaxPuts]

Phases == {"idle", "register", "chunk", "zmap", "vix", "manifest", "cleanup", "commit",
           "recover", "recover_clear"}

MonthRows(C, m) == RowsOf(InMonth(C, m))

\* Mutant of SidecarsOnDisk: every chunk is assumed to have both.
SidecarsAssumed(C) == {[path |-> c.path, kind |-> k] : c \in C, k \in SidecarKinds}

\* The sidecars that a directory scan finds beside the chunks C.
SidecarsOnDisk(C) == {[path |-> s.path, kind |-> s.kind] : s \in {x \in index : x.path \in Paths(C)}}

Init ==
  /\ workload \in Workloads
  /\ disk = {} /\ index = {} /\ manifest = {} /\ sides = {}
  /\ registered = FALSE /\ marker = FALSE
  /\ pc = "idle"
  /\ out = {} /\ obsolete = {} /\ meta = {} /\ todo = {}
  /\ open = {} /\ acked = [m \in Months |-> {}] /\ versions = {}
  /\ puts = 0 /\ fails = 0 /\ rebuilds = 0

MayMutate == pc = "idle" /\ ~ marker

(***************************************************************************)
(* register_scalar_series                                                  *)
(***************************************************************************)
RegisterBegin ==
  /\ MayMutate /\ ~ registered
  /\ marker' = TRUE
  /\ pc' = "register"
  /\ UNCHANGED <<workload, disk, index, manifest, sides, registered, local, callers, counted>>

RegisterSave ==
  /\ pc = "register"
  /\ registered' = TRUE
  /\ pc' = "commit"
  /\ UNCHANGED <<workload, disk, index, manifest, sides, marker, local, callers, counted>>

(***************************************************************************)
(* put_scalar_chunk and append_scalar_chunk                                *)
(***************************************************************************)
\* The first chunk of a month is its base file, a later one a merged file.
ScalarEntry(m, tracked, g, i, lo, hi, rows) ==
  [path  |-> IF tracked = {} THEN BasePath(m) ELSE MergedPath(m, g),
   id    |-> i,
   gen   |-> g,
   start |-> lo,
   end   |-> hi,
   rows  |-> rows,
   state |-> "Sealed"]

\* put_scalar_chunk_locked up to its first write.
WriteBegin(m, rows) ==
  LET tracked == InMonth(manifest, m)
  IN
  /\ \E g \in NextGeneration(tracked), i \in NextChunkId(manifest), lo, hi \in rows :
       /\ \A r \in rows : lo.ts <= r.ts /\ r.ts <= hi.ts
       /\ out' = {ScalarEntry(m, tracked, g, i, lo.ts, hi.ts, rows)}
  /\ open' = {[month |-> m, rows |-> rows]}
  /\ versions' = versions \cup {rows}
  /\ puts' = puts + 1
  /\ marker' = TRUE
  /\ pc' = "chunk"
  /\ UNCHANGED <<workload, disk, index, manifest, sides, registered, obsolete, meta, todo, acked,
                 fails, rebuilds>>

NewRows(stamps) == {[ts |-> t, ver |-> puts + 1] : t \in stamps}

\* The records replace the month.
PutBegin(m, stamps) ==
  /\ MayMutate /\ puts < MaxPuts
  /\ \A t \in stamps : MonthOf[t] = m
  /\ workload = "covering" =>
       \A c \in InMonth(manifest, m) : \E s, t \in stamps : s <= c.start /\ c.end <= t
  /\ WriteBegin(m, NewRows(stamps))

\* The records follow the rows of the month, which are written again.
AppendBegin(m, stamps) ==
  LET kept == MonthRows(manifest, m)
  IN
  /\ MayMutate /\ puts < MaxPuts
  /\ \A t \in stamps : MonthOf[t] = m
  /\ \A r \in kept, t \in stamps : r.ts < t
  /\ WriteBegin(m, kept \cup NewRows(stamps))

\* Publishing a chunk refuses an existing destination (atomic_write_new).
WriteChunk ==
  /\ pc = "chunk"
  /\ \E e \in out : /\ e.path \notin Paths(disk)
                    /\ disk' = disk \cup {FileOf(e)}
  /\ pc' = "zmap"
  /\ UNCHANGED <<workload, index, manifest, sides, registered, marker, local, callers, counted>>

\* The call fails and leaves the marker.
WriteRefused ==
  /\ pc = "chunk"
  /\ \E e \in out : e.path \in Paths(disk)
  /\ out' = {}
  /\ pc' = "idle"
  /\ UNCHANGED <<workload, durable, obsolete, meta, todo, callers, counted>>

\* A sidecar is built from the records; an existing file is replaced.
SidecarFile(e, kind) == [path |-> e.path, kind |-> kind, rows |-> e.rows]

WriteSidecar(kind, next) ==
  /\ pc = kind
  /\ \E e \in out :
       index' = {s \in index : s.path # e.path \/ s.kind # kind} \cup {SidecarFile(e, kind)}
  /\ pc' = next
  /\ UNCHANGED <<workload, disk, manifest, sides, registered, marker, local, callers, counted>>

\* Upserts the entry of a new month or replaces the month, and saves.
SaveManifest ==
  /\ pc = "manifest"
  /\ \E e \in out :
       LET removed == InMonth(manifest, e.path.month)
       IN  /\ manifest' = IF removed = {} THEN UpsertChunk(manifest, e)
                          ELSE ReplaceMonth(manifest, e.path.month, e)
           /\ ValidChunks(manifest')
           /\ sides' = {s \in sides : s.path \notin Paths(removed)}
                         \cup {[path |-> e.path, kind |-> k] : k \in SidecarKinds}
           /\ obsolete' = removed
  /\ registered' = TRUE
  /\ pc' = "cleanup"
  /\ UNCHANGED <<workload, disk, index, marker, out, meta, todo, callers, counted>>

\* remove_sidecars_for_chunks: one chunk in time order, its file and then its
\* sidecars; each removal that fails is ignored.
RemoveObsolete ==
  /\ pc = "cleanup"
  /\ \E c \in obsolete :
       /\ \A d \in obsolete : c.start <= d.start
       /\ obsolete' = obsolete \ {c}
       /\ disk' \in {disk, disk \ {FileOf(c)}}
       /\ \E kept \in SUBSET {s \in index : s.path = c.path} :
            index' = {s \in index : s.path # c.path} \cup kept
  /\ UNCHANGED <<workload, manifest, sides, registered, marker, pc, out, meta, todo, callers,
                 counted>>

CleanupDone ==
  /\ pc = "cleanup" /\ obsolete = {}
  /\ pc' = "commit"
  /\ UNCHANGED <<workload, durable, local, callers, counted>>

CommitMarker ==
  /\ pc = "commit"
  /\ marker' = FALSE
  /\ \/ open = {} /\ UNCHANGED acked
     \/ \E w \in open : acked' = [acked EXCEPT ![w.month] = w.rows]
  /\ open' = {}
  /\ out' = {}
  /\ pc' = "idle"
  /\ UNCHANGED <<workload, disk, index, manifest, sides, registered, obsolete, meta, todo, versions,
                 counted>>

(***************************************************************************)
(* Recovery and rebuild                                                    *)
(***************************************************************************)
RecoverBegin ==
  /\ pc = "idle" /\ (registered \/ disk = {})
  /\ meta' = manifest
  /\ todo' = disk
  /\ pc' = "recover"
  /\ UNCHANGED <<workload, durable, out, obsolete, callers, counted>>

\* The manifest built from the files alone; an ambiguous overlap refuses it.
Rebuilt ==
  LET found == {Scanned(f) : f \in disk}
  IN  /\ disk # {} /\ Rebuildable(found)
      /\ manifest' = SelectNonOverlapping(found)
      /\ ValidChunks(manifest')
      /\ sides' = SidecarsOnDisk(manifest')
      /\ registered' = TRUE

\* Recovery of files without a manifest rebuilds it first.
RecoverRebuild ==
  /\ pc = "idle" /\ ~ registered
  /\ Rebuilt
  /\ meta' = manifest'
  /\ todo' = disk
  /\ pc' = "recover"
  /\ UNCHANGED <<workload, disk, index, marker, out, obsolete, callers, counted>>

RecoverCandidate ==
  /\ pc = "recover"
  /\ \E f \in todo :
       /\ \A g \in todo : f.start <= g.start
       /\ meta' = AdoptCandidate(meta, f)
       /\ todo' = todo \ {f}
  /\ UNCHANGED <<workload, durable, pc, out, obsolete, callers, counted>>

\* An adopted chunk comes with the sidecars found beside it.
RecoverSave ==
  /\ pc = "recover" /\ todo = {}
  /\ ValidChunks(meta)
  /\ manifest' = meta
  /\ sides' = {s \in sides : s.path \in Paths(meta)}
                \cup SidecarsOnDisk({c \in meta : c.path \notin Paths(manifest)})
  /\ pc' = "recover_clear"
  /\ UNCHANGED <<workload, disk, index, registered, marker, local, callers, counted>>

RecoverClear ==
  /\ pc = "recover_clear"
  /\ marker' = FALSE
  /\ open' = {}
  /\ meta' = {}
  /\ pc' = "idle"
  /\ UNCHANGED <<workload, disk, index, manifest, sides, registered, out, obsolete, todo, acked,
                 versions, counted>>

\* rebuild_all_manifests_from_fs, which neither reads nor arms the marker.
RebuildManifest ==
  /\ pc = "idle" /\ rebuilds < MaxRebuilds
  /\ Rebuilt
  /\ rebuilds' = rebuilds + 1
  /\ UNCHANGED <<workload, disk, index, marker, pc, local, callers, puts, fails>>

\* The process dies, or a step returns an error: what is on disk stays.
Fail ==
  /\ pc # "idle" /\ fails < MaxFails
  /\ fails' = fails + 1
  /\ out' = {} /\ obsolete' = {} /\ meta' = {} /\ todo' = {}
  /\ pc' = "idle"
  /\ UNCHANGED <<workload, durable, callers, puts, rebuilds>>

Step ==
  \/ RegisterSave
  \/ WriteChunk \/ WriteRefused
  \/ WriteSidecar("zmap", "vix") \/ WriteSidecar("vix", "manifest")
  \/ SaveManifest \/ RemoveObsolete \/ CleanupDone \/ CommitMarker
  \/ RecoverCandidate \/ RecoverSave \/ RecoverClear

Next ==
  \/ RegisterBegin
  \/ \E m \in Months, stamps \in SUBSET Ts \ {{}} : PutBegin(m, stamps) \/ AppendBegin(m, stamps)
  \/ RecoverBegin \/ RecoverRebuild \/ RebuildManifest
  \/ Step
  \/ Fail

Spec == Init /\ [][Next]_vars

\* As in KlineStore: a call runs on, and a pending recovery is performed.
Fairness == WF_vars(Step) /\ WF_vars(marker /\ (RecoverBegin \/ RecoverRebuild))

FairSpec == Spec /\ Fairness

(***************************************************************************)
(* Properties                                                              *)
(***************************************************************************)
\* The variables hold files, entries and sidecars of the right shape.
TypeOK ==
  /\ \A f \in disk : f.rows \subseteq Row /\ f.start \in Ts /\ f.end \in Ts
  /\ \A c \in manifest \cup meta \cup out \cup obsolete :
       FileOf(c).rows \subseteq Row /\ c.state = "Sealed" /\ c.path.month \in Months
  /\ \A s \in sides : s.kind \in SidecarKinds
  /\ \A s \in index : s.kind \in SidecarKinds /\ s.rows \subseteq Row
  /\ todo \subseteq disk
  /\ {registered, marker} \subseteq BOOLEAN
  /\ pc \in Phases
  /\ acked \in [Months -> SUBSET Row]
  /\ puts \in 0..MaxPuts /\ fails \in 0..MaxFails /\ rebuilds \in 0..MaxRebuilds

\* A sidecar that the manifest lists is on disk and indexes exactly the rows of
\* its chunk: predicate queries trust it without reading the chunk.  (With
\* replacements of any range a rebuild may use a generation again.)
SidecarsMatch ==
  workload = "covering" => \A s \in sides :
    \E x \in index, c \in manifest :
      /\ x.path = s.path /\ x.kind = s.kind
      /\ c.path = s.path /\ c.rows = x.rows

\* A month shows the rows of one version that some caller wrote, never rows of
\* two (put_scalar_chunk replaces the whole month).
WholeVersions ==
  \A m \in Months : MonthRows(manifest, m) \in versions \cup {{}}

\* After recovery the next write of a month can publish its chunk: no retained
\* file has the name that put_scalar_chunk will choose, if replacements cover
\* what they replace.
RetryNotBlocked ==
  workload = "covering" /\ MayMutate =>
    \A m \in Months : \A g \in NextGeneration(InMonth(manifest, m)) :
      (IF InMonth(manifest, m) = {} THEN BasePath(m) ELSE MergedPath(m, g)) \notin Paths(disk)

\* A pending marker is cleared in the end, also when recovery finds files that
\* it cannot place.
RecoveryCompletes == marker ~> ~ marker

\* Every month is a register that changes from one whole version to the next.
\* The promise is made to covering workloads: of any other the mapping shows
\* nothing.
Promise == INSTANCE MonthVersions WITH
             content <- [m \in Months |-> IF workload = "covering"
                                         THEN MonthRows(manifest, m) ELSE {}],
             open    <- IF workload = "covering" THEN open ELSE {},
             acked   <- [m \in Months |-> IF workload = "covering" THEN acked[m] ELSE {}]

\* Crashes, leftovers, recovery and rebuilds never show anything else.
ImplementsMonthVersions == Promise!Spec
=============================================================================
