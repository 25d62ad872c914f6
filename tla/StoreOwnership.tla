--------------------------- MODULE StoreOwnership ---------------------------
(***************************************************************************)
(* Several processes on one store root: the OS lock, the recovery marker,  *)
(* the seal, and the manifest caches that a mutation, a read-only handle   *)
(* or a lock-free read of a writable handle goes through: one per process  *)
(* and one per read-only handle.  (A writable handle has one too: it only  *)
(* serves that handle's lock-free reads and is dropped with the process's  *)
(* before a mutation reads.)                                               *)
(*                                                                         *)
(* A process runs one call at a time; processes interleave.  The store has *)
(* one scalar series, in the terms of ChunkCatalog: a put replaces a month *)
(* and recovery decides which untracked files it adopts.  The rows of a    *)
(* chunk are the number of the commit that wrote it.  Sidecars and manual  *)
(* rebuilds are ScalarStore's.  A manifest file has a stamp that every     *)
(* save renews: its length and modification time, which caches compare;    *)
(* the stamp 0 stands for no series.meta.                                  *)
(***************************************************************************)
EXTENDS ChunkCatalog

CONSTANTS Procs,      \* the processes that use the root
          Handles,    \* the store handles they may open
          ReadOnly,   \* those opened with open_read_only
          ProcOf,     \* the process of each handle
          NoProc,     \* nobody holds the exclusive lock
          Batches,    \* what a put may write: a month and the range of its rows
          Workloads,  \* "covering": a put covers the chunk of the month it replaces,
                      \* "any": it need not
          Legacy,     \* the manifest starts as JSON of an earlier release
          MaxCommits, \* bound: commits begun
          MaxFaults   \* bound: processes killed and calls that fail

ASSUME OwnershipAssumption ==
  /\ ReadOnly \subseteq Handles /\ ProcOf \in [Handles -> Procs]
  /\ NoProc \notin Procs
  /\ \A b \in Batches : b.start \in Int /\ b.end \in Int /\ b.start <= b.end
  \* A month is an interval of time.
  /\ \A b, d \in Batches : RangesOverlap(b, d) => b.month = d.month
  /\ Workloads \subseteq {"covering", "any"}
  /\ Legacy \in BOOLEAN
  /\ MaxCommits \in Nat /\ MaxFaults \in Nat

VARIABLES
  workload,  \* the workload of this behaviour
  manifest,  \* series.meta: its chunks, whether it is legacy JSON, its stamp
  files,     \* the chunk files
  marker,    \* .fastk.recovery.pending exists
  sealed,    \* .fastk.snapshot.json exists
  lockfile,  \* .fastk.write.lock exists
  writer,    \* the process that holds the exclusive lock
  mode,      \* each handle: closed, rw, ro with its shared lock, or a probe: a
             \* read-only handle on a root where there was nothing to lock
  local,     \* the manifest cached by a read-only handle, none or one
  shared,    \* the manifest cached by a process and its stamp, none or one
  pc,        \* the next step of each process
  cur,       \* the handle it is opening, none or one
  goal,      \* what it recovers for: open, mutate or seal
  got,       \* the manifest it works from
  out,       \* the entry that its put writes, none or one
  todo,      \* the candidates that its recovery has left
  acked,     \* the entries of acknowledged puts
  commits, faults

disk    == <<manifest, files, marker, sealed, lockfile>>
caches  == <<local, shared>>
work    == <<cur, goal, got, out, todo>>
counted == <<commits, faults>>
vars    == <<workload, disk, writer, mode, caches, pc, work, acked, counted>>

Nothing == [chunks |-> {}, legacy |-> FALSE, stamp |-> 0]

Registered == [chunks |-> {}, legacy |-> Legacy, stamp |-> 1]

\* A root that does not exist yet, or one with an empty series; a store of an
\* earlier release has no lock file.
Init ==
  /\ workload \in Workloads
  /\ \/ manifest = Nothing /\ lockfile = FALSE
     \/ manifest = Registered /\ lockfile = ~ Legacy
  /\ files = {} /\ marker = FALSE /\ sealed = FALSE
  /\ writer = NoProc
  /\ mode = [h \in Handles |-> "closed"]
  /\ local = [h \in Handles |-> {}] /\ shared = [p \in Procs |-> {}]
  /\ pc = [p \in Procs |-> "idle"]
  /\ cur = [p \in Procs |-> {}] /\ goal = [p \in Procs |-> "open"]
  /\ got = [p \in Procs |-> Nothing]
  /\ out = [p \in Procs |-> {}] /\ todo = [p \in Procs |-> {}]
  /\ acked = {} /\ commits = 0 /\ faults = 0

(***************************************************************************)
(* Locks and manifest files                                                *)
(***************************************************************************)
\* Mutant of MayLock: shared locks do not count.
MayLockOverReaders == writer = NoProc /\ ~ sealed

\* Mutant of MayLock: the snapshot file is not looked for.
MayLockSealed == writer = NoProc /\ \A h \in Handles : mode[h] # "ro"

\* try_lock: no reader and no writer; a sealed root is refused.
MayLock ==
  /\ writer = NoProc
  /\ \A h \in Handles : mode[h] # "ro"
  /\ ~ sealed

\* The exclusive lock is taken; its file is created where there is none.
Lock(p) ==
  /\ MayLock
  /\ writer' = p
  /\ lockfile' = TRUE

\* save_series_meta publishes the file and caches it with its stamp.
Saved(chunks) == [chunks |-> chunks, legacy |-> FALSE, stamp |-> manifest.stamp + 1]

\* A manifest as the process cache keeps it.
Stamped(chunks, stamp) == {[chunks |-> chunks, stamp |-> stamp]}

Save(p, chunks) ==
  /\ manifest' = Saved(chunks)
  /\ shared' = [shared EXCEPT ![p] = Stamped(chunks, manifest'.stamp)]

\* What a load does after it read `m`: it migrates a legacy manifest, which
\* saves it, and caches what it read under the stamp that the file has NOW.
FinishLoad(p, m) ==
  /\ manifest' = IF m.legacy THEN Saved(m.chunks) ELSE manifest
  /\ shared' = [shared EXCEPT ![p] = Stamped(m.chunks, manifest'.stamp)]

\* A call returns, or its process is gone: its working memory is freed.
Return(p) ==
  /\ pc' = [pc EXCEPT ![p] = "idle"]
  /\ cur' = [cur EXCEPT ![p] = {}]
  /\ goal' = [goal EXCEPT ![p] = "open"]
  /\ got' = [got EXCEPT ![p] = Nothing]
  /\ out' = [out EXCEPT ![p] = {}]
  /\ todo' = [todo EXCEPT ![p] = {}]

(***************************************************************************)
(* Opening and closing                                                     *)
(***************************************************************************)
\* The shared lock first, then the marker; the process cache is dropped.
OpenReadOnly(h) ==
  /\ h \in ReadOnly /\ pc[ProcOf[h]] = "idle" /\ mode[h] = "closed"
  /\ lockfile /\ writer = NoProc /\ ~ marker
  /\ mode' = [mode EXCEPT ![h] = "ro"]
  /\ shared' = [shared EXCEPT ![ProcOf[h]] = {}]
  /\ UNCHANGED <<workload, disk, writer, local, pc, work, acked, counted>>

\* No root, or one with neither a lock file nor series: Ok(None), no lock.  A
\* series without a lock file is refused.
OpenUnlocked(h) ==
  /\ h \in ReadOnly /\ pc[ProcOf[h]] = "idle" /\ mode[h] = "closed"
  /\ ~ lockfile /\ manifest.stamp = 0
  /\ mode' = [mode EXCEPT ![h] = "probe"]
  /\ shared' = [shared EXCEPT ![ProcOf[h]] = {}]
  /\ UNCHANGED <<workload, disk, writer, local, pc, work, acked, counted>>

OpenWritable(h) ==
  /\ h \notin ReadOnly /\ pc[ProcOf[h]] = "idle" /\ mode[h] = "closed"
  /\ ~ marker
  /\ mode' = [mode EXCEPT ![h] = "rw"]
  /\ UNCHANGED <<workload, disk, writer, caches, pc, work, acked, counted>>

\* A pending marker is recovered under the lock before open returns.
OpenRecovering(h) ==
  LET p == ProcOf[h]
  IN
  /\ h \notin ReadOnly /\ pc[p] = "idle" /\ mode[h] = "closed"
  /\ marker /\ Lock(p)
  /\ shared' = [shared EXCEPT ![p] = {}]
  /\ cur' = [cur EXCEPT ![p] = {h}]
  /\ goal' = [goal EXCEPT ![p] = "open"]
  /\ pc' = [pc EXCEPT ![p] = "recover"]
  /\ UNCHANGED <<workload, manifest, files, marker, sealed, mode, local, got, out, todo,
                 acked, counted>>

Close(h) ==
  /\ pc[ProcOf[h]] = "idle" /\ mode[h] # "closed"
  /\ mode' = [mode EXCEPT ![h] = "closed"]
  /\ local' = [local EXCEPT ![h] = {}]
  /\ UNCHANGED <<workload, disk, writer, shared, pc, work, acked, counted>>

(***************************************************************************)
(* Reads                                                                   *)
(***************************************************************************)
\* A read-only handle skips the process cache and refuses legacy manifests.
ReadOnlyLoad(h) ==
  /\ pc[ProcOf[h]] = "idle" /\ mode[h] \in {"ro", "probe"} /\ local[h] = {}
  /\ manifest.stamp > 0 /\ ~ manifest.legacy
  /\ local' = [local EXCEPT ![h] = {manifest.chunks}]
  /\ UNCHANGED <<workload, disk, writer, mode, shared, pc, work, acked, counted>>

\* A lock-free read that finds no cached manifest: no lock is held between
\* reading the file and caching it.
ReadBytes(h) ==
  LET p == ProcOf[h]
  IN
  /\ pc[p] = "idle" /\ mode[h] = "rw" /\ shared[p] = {}
  /\ manifest.stamp > 0
  /\ got' = [got EXCEPT ![p] = manifest]
  /\ pc' = [pc EXCEPT ![p] = "cache"]
  /\ UNCHANGED <<workload, disk, writer, mode, caches, cur, goal, out, todo, acked, counted>>

ReadDone(p) ==
  /\ pc[p] = "cache"
  /\ FinishLoad(p, got[p])
  /\ Return(p)
  /\ UNCHANGED <<workload, files, marker, sealed, lockfile, writer, mode, local, acked,
                 counted>>

(***************************************************************************)
(* Mutations                                                               *)
(***************************************************************************)
\* Mutant of DropCaches: the manifest cached by the process survives.
KeepCaches(p) == UNCHANGED shared

\* What the process cached is dropped under the lock.
DropCaches(p) == shared' = [shared EXCEPT ![p] = {}]

\* begin_mutation: a pending recovery comes before the caches are dropped.
BeginMutation(h) ==
  LET p == ProcOf[h]
  IN
  /\ pc[p] = "idle" /\ mode[h] = "rw" /\ Lock(p)
  /\ goal' = [goal EXCEPT ![p] = "mutate"]
  /\ \/ marker /\ pc' = [pc EXCEPT ![p] = "recover"] /\ UNCHANGED shared
     \/ ~ marker /\ pc' = [pc EXCEPT ![p] = "load"] /\ DropCaches(p)
  /\ UNCHANGED <<workload, manifest, files, marker, sealed, mode, local, cur, got, out, todo,
                 acked, counted>>

\* What load_scalar_meta finds: a cached manifest before the file.
FoundMeta(p) ==
  IF shared[p] = {} THEN manifest
  ELSE [manifest EXCEPT !.chunks = (CHOOSE c \in shared[p] : TRUE).chunks]

LoadForUpdate(p) ==
  /\ pc[p] = "load" /\ manifest.stamp > 0
  /\ FinishLoad(p, FoundMeta(p))
  /\ got' = [got EXCEPT ![p] = FoundMeta(p)]
  /\ pc' = [pc EXCEPT ![p] = "arm"]
  /\ UNCHANGED <<workload, files, marker, sealed, lockfile, writer, mode, local, cur, goal,
                 out, todo, acked, counted>>

\* Without a series.meta the put starts from an empty one.
NewForUpdate(p) ==
  /\ pc[p] = "load" /\ manifest.stamp = 0
  /\ got' = [got EXCEPT ![p] = Nothing]
  /\ pc' = [pc EXCEPT ![p] = "arm"]
  /\ UNCHANGED <<workload, disk, writer, mode, caches, cur, goal, out, todo, acked, counted>>

\* The series has another time frame than the caller says: the put is refused.
PutRefused(p) ==
  /\ pc[p] = "arm"
  /\ writer' = NoProc
  /\ Return(p)
  /\ UNCHANGED <<workload, disk, mode, caches, acked, counted>>

\* The entry of a put: the base name for the first chunk of a month.
PutEntry(b, tracked, g, i) ==
  [path  |-> IF tracked = {} THEN BasePath(b.month) ELSE MergedPath(b.month, g),
   id    |-> i,
   gen   |-> g,
   start |-> b.start,
   end   |-> b.end,
   rows  |-> {commits + 1},
   state |-> "Sealed"]

\* Names the chunk and arms the marker.
Arm(p, b) ==
  LET tracked == InMonth(got[p].chunks, b.month)
  IN
  /\ pc[p] = "arm" /\ commits < MaxCommits
  /\ workload = "covering" => Covers(b, tracked)
  /\ \E g \in NextGeneration(tracked), i \in NextChunkId(got[p].chunks) :
       out' = [out EXCEPT ![p] = {PutEntry(b, tracked, g, i)}]
  /\ commits' = commits + 1
  /\ marker' = TRUE
  /\ pc' = [pc EXCEPT ![p] = "write"]
  /\ UNCHANGED <<workload, manifest, files, sealed, lockfile, writer, mode, caches, cur, goal,
                 got, todo, acked, faults>>

\* Publishes the chunk file, which must not exist.
WriteChunk(p) ==
  /\ pc[p] = "write"
  /\ \E e \in out[p] : e.path \notin Paths(files) /\ files' = files \cup {FileOf(e)}
  /\ pc' = [pc EXCEPT ![p] = "save"]
  /\ UNCHANGED <<workload, manifest, marker, sealed, lockfile, writer, mode, caches, work,
                 acked, counted>>

\* A name that is taken fails the call; the marker stays.
WriteRefused(p) ==
  /\ pc[p] = "write"
  /\ \E e \in out[p] : e.path \in Paths(files)
  /\ writer' = NoProc
  /\ Return(p)
  /\ UNCHANGED <<workload, disk, mode, caches, acked, counted>>

\* The new entry takes the place of its month.
SaveManifest(p) ==
  /\ pc[p] = "save"
  /\ \E e \in out[p] : Save(p, ReplaceMonth(got[p].chunks, e.path.month, e))
  /\ pc' = [pc EXCEPT ![p] = "remove"]
  /\ UNCHANGED <<workload, files, marker, sealed, lockfile, writer, mode, local, work, acked,
                 counted>>

\* Removes the replaced files, errors ignored.
RemoveReplaced(p) ==
  /\ pc[p] = "remove"
  /\ \E e \in out[p] :
       \E gone \in SUBSET InMonth(got[p].chunks, e.path.month) :
         files' = files \ {FileOf(c) : c \in gone}
  /\ pc' = [pc EXCEPT ![p] = "commit"]
  /\ UNCHANGED <<workload, manifest, marker, sealed, lockfile, writer, mode, caches, work,
                 acked, counted>>

\* Clears the marker, unlocks and returns Ok.
Commit(p) ==
  /\ pc[p] = "commit"
  /\ marker' = FALSE
  /\ writer' = NoProc
  /\ acked' = acked \cup out[p]
  /\ Return(p)
  /\ UNCHANGED <<workload, manifest, files, sealed, lockfile, mode, caches, counted>>

(***************************************************************************)
(* Recovery and sealing                                                    *)
(***************************************************************************)
\* A series without chunk files is skipped.
RecoverNothing(p) ==
  /\ pc[p] = "recover" /\ files = {}
  /\ pc' = [pc EXCEPT ![p] = "clear"]
  /\ UNCHANGED <<workload, disk, writer, mode, caches, work, acked, counted>>

\* The manifest built from the files alone; an ambiguous overlap refuses it.
Rebuilt(p) ==
  LET found == {Scanned(f) : f \in files}
  IN  Rebuildable(found) /\ Save(p, SelectNonOverlapping(found))

\* The manifest is taken from the process cache when the stamps agree; files
\* without a manifest rebuild it.
RecoverLoad(p) ==
  LET cached == {c \in shared[p] : c.stamp = manifest.stamp}
  IN
  /\ pc[p] = "recover" /\ files # {}
  /\ \/ /\ manifest.stamp > 0
        /\ \E c \in cached : got' = [got EXCEPT ![p] = [manifest EXCEPT !.chunks = c.chunks]]
        /\ UNCHANGED <<manifest, shared>>
     \/ /\ manifest.stamp > 0 /\ cached = {}
        /\ FinishLoad(p, manifest)
        /\ got' = [got EXCEPT ![p] = manifest']
     \/ /\ manifest.stamp = 0
        /\ Rebuilt(p)
        /\ got' = [got EXCEPT ![p] = manifest']
  /\ todo' = [todo EXCEPT ![p] = files]
  /\ pc' = [pc EXCEPT ![p] = "adopt"]
  /\ UNCHANGED <<workload, files, marker, sealed, lockfile, writer, mode, local, cur, goal,
                 out, acked, counted>>

\* One candidate after the other, in the order of their starts.
RecoverCandidate(p) ==
  /\ pc[p] = "adopt"
  /\ \E f \in todo[p] :
       /\ \A g \in todo[p] : f.start <= g.start
       /\ got' = [got EXCEPT ![p].chunks = AdoptCandidate(@, f)]
       /\ todo' = [todo EXCEPT ![p] = @ \ {f}]
  /\ UNCHANGED <<workload, disk, writer, mode, caches, pc, cur, goal, out, acked, counted>>

\* A manifest that the candidates changed is saved.  What was loaded is what the
\* process has in its cache.
RecoverSave(p) ==
  /\ pc[p] = "adopt" /\ todo[p] = {}
  /\ \/ got[p].chunks \in {c.chunks : c \in shared[p]} /\ UNCHANGED <<manifest, shared>>
     \/ got[p].chunks \notin {c.chunks : c \in shared[p]} /\ Save(p, got[p].chunks)
  /\ pc' = [pc EXCEPT ![p] = "clear"]
  /\ UNCHANGED <<workload, files, marker, sealed, lockfile, writer, mode, local, work, acked,
                 counted>>

\* The marker is cleared and the caller of the recovery goes on.
RecoverClear(p) ==
  /\ pc[p] = "clear"
  /\ marker' = FALSE
  /\ \/ /\ goal[p] = "open"
        /\ mode' = [h \in Handles |-> IF h \in cur[p] THEN "rw" ELSE mode[h]]
        /\ writer' = NoProc
        /\ Return(p)
        /\ UNCHANGED caches
     \/ /\ goal[p] = "mutate"
        /\ DropCaches(p)
        /\ pc' = [pc EXCEPT ![p] = "load"]
        /\ UNCHANGED <<writer, mode, local, work>>
     \/ /\ goal[p] = "seal"
        /\ pc' = [pc EXCEPT ![p] = "seal"]
        /\ UNCHANGED <<writer, mode, caches, work>>
  /\ UNCHANGED <<workload, manifest, files, sealed, lockfile, acked, counted>>

\* seal_snapshot: lock, drop the process cache, recover always.
SealBegin(p) ==
  /\ pc[p] = "idle" /\ Lock(p)
  /\ shared' = [shared EXCEPT ![p] = {}]
  /\ goal' = [goal EXCEPT ![p] = "seal"]
  /\ pc' = [pc EXCEPT ![p] = "recover"]
  /\ UNCHANGED <<workload, manifest, files, marker, sealed, mode, local, cur, got, out, todo,
                 acked, counted>>

\* scrub_store finds a non-empty store whose files are those of the manifest.
Clean == files # {} /\ {FileOf(c) : c \in manifest.chunks} = files

\* A clean store goes on: a scalar series has no Active chunk to finalize.
SealFinalize(p) ==
  /\ pc[p] = "seal"
  /\ Clean
  /\ pc' = [pc EXCEPT ![p] = "snapshot"]
  /\ UNCHANGED <<workload, disk, writer, mode, caches, work, acked, counted>>

\* A store that is empty or not clean is refused.
SealRefused(p) ==
  /\ pc[p] = "seal"
  /\ ~ Clean
  /\ writer' = NoProc
  /\ Return(p)
  /\ UNCHANGED <<workload, disk, mode, caches, acked, counted>>

\* The snapshot file is published and the lock released.
SealWrite(p) ==
  /\ pc[p] = "snapshot"
  /\ sealed' = TRUE
  /\ writer' = NoProc
  /\ Return(p)
  /\ UNCHANGED <<workload, manifest, files, marker, lockfile, mode, caches, acked, counted>>

\* A step returns an error: the lock is released, the marker and the caches stay.
Fail(p) ==
  /\ pc[p] # "idle" /\ faults < MaxFaults
  /\ faults' = faults + 1
  /\ writer' = IF writer = p THEN NoProc ELSE writer
  /\ Return(p)
  /\ UNCHANGED <<workload, disk, mode, caches, acked, commits>>

\* A process is killed in a call: the OS drops its locks, its memory is gone.
\* Killed between calls it closes its handles, which Close does.
Crash(p) ==
  /\ pc[p] # "idle" /\ faults < MaxFaults
  /\ faults' = faults + 1
  /\ writer' = IF writer = p THEN NoProc ELSE writer
  /\ mode' = [h \in Handles |-> IF ProcOf[h] = p THEN "closed" ELSE mode[h]]
  /\ local' = [h \in Handles |-> IF ProcOf[h] = p THEN {} ELSE local[h]]
  /\ shared' = [shared EXCEPT ![p] = {}]
  /\ Return(p)
  /\ UNCHANGED <<workload, disk, acked, commits>>

Next ==
  \/ \E h \in Handles :
       \/ OpenReadOnly(h) \/ OpenUnlocked(h) \/ OpenWritable(h) \/ OpenRecovering(h)
       \/ Close(h) \/ ReadOnlyLoad(h) \/ ReadBytes(h)
       \/ BeginMutation(h)
  \/ \E p \in Procs :
       \/ ReadDone(p) \/ LoadForUpdate(p) \/ NewForUpdate(p) \/ PutRefused(p)
       \/ \E b \in Batches : Arm(p, b)
       \/ WriteChunk(p) \/ WriteRefused(p) \/ SaveManifest(p) \/ RemoveReplaced(p)
       \/ Commit(p)
       \/ RecoverNothing(p) \/ RecoverLoad(p) \/ RecoverCandidate(p) \/ RecoverSave(p)
       \/ RecoverClear(p)
       \/ SealBegin(p) \/ SealFinalize(p) \/ SealRefused(p) \/ SealWrite(p)
       \/ Fail(p) \/ Crash(p)

Spec == Init /\ [][Next]_vars

(***************************************************************************)
(* Properties                                                              *)
(***************************************************************************)
Locked == {"load", "arm", "write", "save", "remove", "commit", "recover", "adopt", "clear",
           "seal", "snapshot"}

\* The variables have their shapes, and the OS lock belongs to the one process
\* that is in the middle of a mutation, a recovery or a seal.
TypeOK ==
  /\ workload \in Workloads
  /\ manifest.legacy \in BOOLEAN /\ manifest.stamp \in Nat
  /\ \A f \in files : f.rows \subseteq 1..commits
  /\ \A c \in manifest.chunks \cup acked : c.rows \subseteq 1..commits /\ c.state = "Sealed"
  /\ {marker, sealed, lockfile} \subseteq BOOLEAN
  /\ mode \in [Handles -> {"closed", "rw", "ro", "probe"}]
  /\ \A p \in Procs : pc[p] \in Locked \cup {"idle", "cache"}
  /\ \A p \in Procs : writer = p <=> pc[p] \in Locked

\* A read-only handle that holds its shared lock works on the store as it is, for
\* as long as it is open and whatever its process had cached before: no recovery
\* is pending and what it cached is what is on disk.  While puts cover what they
\* replace, every chunk of that manifest has its file, although a recovery may
\* have started from a cached manifest whose files are gone.  (A handle opened
\* where there was nothing to lock is promised nothing.)
ReadersSeeTheStore ==
  \A h \in Handles : mode[h] = "ro" =>
    /\ ~ marker
    /\ \A chunks \in local[h] : chunks = manifest.chunks
    /\ workload = "covering" => \A c \in manifest.chunks : FileOf(c) \in files

\* While puts cover what they replace, an acknowledged put stays: its month shows
\* it or a later put, from a file that is there.  No other process, handle or
\* recovery, not even one from a stale cache, saves a manifest without it.
CommitsStay ==
  workload = "covering" => \A a \in acked :
    \E c \in manifest.chunks :
      /\ c.path.month = a.path.month
      /\ c = a \/ c.gen > a.gen
      /\ FileOf(c) \in files

\* A sealed root does not change any more, whatever was in progress elsewhere
\* when the snapshot file appeared.
SealedIsFrozen == [][sealed => UNCHANGED <<manifest, files, sealed>>]_vars
=============================================================================
