--------------------------- MODULE ChunkFileCache ---------------------------
(***************************************************************************)
(* The bounded cache of open chunk files that all reader threads of a      *)
(* store handle share (ChunkFileCache in chunk/cache.rs).  A hit takes the *)
(* read lock only and sets a flag; a miss opens the file with no lock held,*)
(* takes the write lock, looks again and may have to evict by second       *)
(* chance.                                                                 *)
(*                                                                         *)
(* The read-locked lookup is one step.  The write-locked section is several*)
(* steps during which `writer` names its thread: nobody else gets the lock.*)
(* invalidate and clear need the write lock only, so they may fall between *)
(* the steps of an open().  A file handle is a number, 0 for none; a handle*)
(* stays open while anything refers to it (Arc<File>).                     *)
(***************************************************************************)
EXTENDS Integers, Sequences, FiniteSets

CONSTANTS Threads,   \* the reader threads
          Keys,      \* chunk identities (ChunkCacheKey)
          Capacity,  \* the limit on cached files
          NoThread,  \* nobody holds the write lock
          NoKey,     \* a thread outside open()
          MaxOpens   \* bound: files opened

ASSUME CacheAssumption ==
  /\ Capacity \in Nat \ {0}
  /\ MaxOpens \in Nat
  /\ NoThread \notin Threads

VARIABLES
  order,       \* the eviction queue
  file,        \* the cached handle of each key
  referenced,  \* the second-chance flag of each key
  writer,      \* the holder of the write lock
  pc,          \* where each thread is in open()
  key,         \* the key each thread asked for
  opened,      \* the handle a thread opened itself on a miss
  reader,      \* the handle a thread reads from
  evicted,     \* the handle a thread evicted and has not dropped
  hot,         \* the keys whose flag was set when the write lock was taken
  opens        \* files opened so far; the last handle

cache   == <<order, file, referenced>>
threads == <<pc, key, opened, reader, evicted>>
vars    == <<cache, writer, threads, hot, opens>>

Cached == {k \in Keys : file[k] # 0}

Init ==
  /\ order = <<>>
  /\ file = [k \in Keys |-> 0]
  /\ referenced = [k \in Keys |-> FALSE]
  /\ writer = NoThread
  /\ pc = [t \in Threads |-> "idle"]
  /\ key = [t \in Threads |-> NoKey]
  /\ opened = [t \in Threads |-> 0]
  /\ reader = [t \in Threads |-> 0]
  /\ evicted = [t \in Threads |-> 0]
  /\ hot = {}
  /\ opens = 0

(***************************************************************************)
(* open                                                                    *)
(***************************************************************************)
\* CachedFile::reader marks the entry and shares its handle.
Share(t, k) ==
  /\ referenced' = [referenced EXCEPT ![k] = TRUE]
  /\ reader' = [reader EXCEPT ![t] = file[k]]
  /\ pc' = [pc EXCEPT ![t] = "reading"]

Hit(t, k) ==
  /\ pc[t] = "idle" /\ writer = NoThread
  /\ k \in Cached
  /\ Share(t, k)
  /\ key' = [key EXCEPT ![t] = k]
  /\ UNCHANGED <<order, file, writer, opened, evicted, hot, opens>>

Miss(t, k) ==
  /\ pc[t] = "idle" /\ writer = NoThread
  /\ k \notin Cached
  /\ key' = [key EXCEPT ![t] = k]
  /\ pc' = [pc EXCEPT ![t] = "opening"]
  /\ UNCHANGED <<cache, writer, opened, reader, evicted, hot, opens>>

\* No lock is held here.
OpenFile(t) ==
  /\ pc[t] = "opening" /\ opens < MaxOpens
  /\ opens' = opens + 1
  /\ opened' = [opened EXCEPT ![t] = opens']
  /\ pc' = [pc EXCEPT ![t] = "insert"]
  /\ UNCHANGED <<cache, writer, key, reader, evicted, hot>>

\* The file cannot be opened: the caller gets the error.
OpenFails(t) ==
  /\ pc[t] = "opening"
  /\ key' = [key EXCEPT ![t] = NoKey]
  /\ pc' = [pc EXCEPT ![t] = "idle"]
  /\ UNCHANGED <<cache, writer, opened, reader, evicted, hot, opens>>

\* Another thread was faster: its entry is used, the own handle is dropped.
LockFound(t) ==
  /\ pc[t] = "insert" /\ writer = NoThread
  /\ key[t] \in Cached
  /\ Share(t, key[t])
  /\ opened' = [opened EXCEPT ![t] = 0]
  /\ UNCHANGED <<order, file, writer, key, evicted, hot, opens>>

\* Mutant of LockMiss: the map is not looked at again under the lock.
LockMissUnchecked(t) ==
  /\ pc[t] = "insert" /\ writer = NoThread
  /\ writer' = t
  /\ hot' = {k \in Cached : referenced[k]}
  /\ pc' = [pc EXCEPT ![t] = IF Cardinality(Cached) = Capacity THEN "evict" ELSE "add"]
  /\ UNCHANGED <<cache, key, opened, reader, evicted, opens>>

LockMiss(t) ==
  /\ pc[t] = "insert" /\ writer = NoThread
  /\ key[t] \notin Cached
  /\ writer' = t
  /\ hot' = {k \in Cached : referenced[k]}
  /\ pc' = [pc EXCEPT ![t] = IF Cardinality(Cached) = Capacity THEN "evict" ELSE "add"]
  /\ UNCHANGED <<cache, key, opened, reader, evicted, opens>>

\* Mutant of EvictRotate: the flag is not cleared.
EvictRotateKeepsFlag(t) ==
  /\ pc[t] = "evict"
  /\ referenced[Head(order)]
  /\ order' = Append(Tail(order), Head(order))
  /\ UNCHANGED <<file, referenced, writer, threads, hot, opens>>

\* The front entry was used since it was last considered: it goes to the back.
EvictRotate(t) ==
  /\ pc[t] = "evict"
  /\ referenced[Head(order)]
  /\ referenced' = [referenced EXCEPT ![Head(order)] = FALSE]
  /\ order' = Append(Tail(order), Head(order))
  /\ UNCHANGED <<file, writer, threads, hot, opens>>

\* Mutant of EvictRemove: the front entry goes whether it was used or not.
EvictOldest(t) ==
  /\ pc[t] = "evict"
  /\ evicted' = [evicted EXCEPT ![t] = file[Head(order)]]
  /\ file' = [file EXCEPT ![Head(order)] = 0]
  /\ order' = Tail(order)
  /\ pc' = [pc EXCEPT ![t] = "add"]
  /\ UNCHANGED <<referenced, writer, key, opened, reader, hot, opens>>

EvictRemove(t) ==
  /\ pc[t] = "evict"
  /\ ~ referenced[Head(order)]
  /\ evicted' = [evicted EXCEPT ![t] = file[Head(order)]]
  /\ file' = [file EXCEPT ![Head(order)] = 0]
  /\ order' = Tail(order)
  /\ pc' = [pc EXCEPT ![t] = "add"]
  /\ UNCHANGED <<referenced, writer, key, opened, reader, hot, opens>>

\* The new entry is inserted and the lock released.
Add(t) ==
  /\ pc[t] = "add"
  /\ order' = Append(order, key[t])
  /\ file' = [file EXCEPT ![key[t]] = opened[t]]
  /\ referenced' = [referenced EXCEPT ![key[t]] = FALSE]
  /\ reader' = [reader EXCEPT ![t] = opened[t]]
  /\ opened' = [opened EXCEPT ![t] = 0]
  /\ writer' = NoThread
  /\ hot' = {}
  /\ pc' = [pc EXCEPT ![t] = "drop"]
  /\ UNCHANGED <<key, evicted, opens>>

\* The evicted handle is closed after the lock is released.
DropEvicted(t) ==
  /\ pc[t] = "drop"
  /\ evicted' = [evicted EXCEPT ![t] = 0]
  /\ pc' = [pc EXCEPT ![t] = "reading"]
  /\ UNCHANGED <<cache, writer, key, opened, reader, hot, opens>>

\* The reader is dropped.
Done(t) ==
  /\ pc[t] = "reading"
  /\ reader' = [reader EXCEPT ![t] = 0]
  /\ key' = [key EXCEPT ![t] = NoKey]
  /\ pc' = [pc EXCEPT ![t] = "idle"]
  /\ UNCHANGED <<cache, writer, opened, evicted, hot, opens>>

(***************************************************************************)
(* invalidate and clear                                                    *)
(***************************************************************************)
Unlocked == writer = NoThread

\* s without its i-th element.
Without(s, i) == [j \in 1 .. Len(s) - 1 |-> IF j < i THEN s[j] ELSE s[j + 1]]

\* The key leaves the map and the queue, which lists it once at most; a key
\* that is not cached is left alone.
Invalidate(k) ==
  /\ Unlocked
  /\ file' = [file EXCEPT ![k] = 0]
  /\ \E i \in DOMAIN order : order[i] = k /\ order' = Without(order, i)
  /\ referenced' = [referenced EXCEPT ![k] = FALSE]
  /\ UNCHANGED <<writer, threads, hot, opens>>

Clear ==
  /\ Unlocked
  /\ file' = [k \in Keys |-> 0]
  /\ order' = <<>>
  /\ referenced' = [k \in Keys |-> FALSE]
  /\ UNCHANGED <<writer, threads, hot, opens>>

\* A call of open() that was made runs to its end.
Proceed(t) ==
  \/ OpenFile(t) \/ OpenFails(t)
  \/ LockFound(t) \/ LockMiss(t)
  \/ EvictRotate(t) \/ EvictRemove(t) \/ Add(t) \/ DropEvicted(t)
  \/ Done(t)

Next ==
  \/ \E t \in Threads, k \in Keys : Hit(t, k) \/ Miss(t, k)
  \/ \E t \in Threads : Proceed(t)
  \/ \E k \in Keys : Invalidate(k)
  \/ Clear

Spec == Init /\ [][Next]_vars

\* The scheduler runs every thread that can run.
Fairness == \A t \in Threads : WF_vars(Proceed(t))

FairSpec == Spec /\ Fairness

(***************************************************************************)
(* Properties                                                              *)
(***************************************************************************)
Places == {"idle", "opening", "insert", "evict", "add", "drop", "reading"}

\* The queue, the handles, the flags and the threads have their shapes.
TypeOK ==
  /\ order \in Seq(Keys)
  /\ file \in [Keys -> Nat]
  /\ referenced \in [Keys -> BOOLEAN]
  /\ writer \in Threads \cup {NoThread}
  /\ pc \in [Threads -> Places]
  /\ key \in [Threads -> Keys \cup {NoKey}]
  /\ opened \in [Threads -> Nat]
  /\ reader \in [Threads -> Nat]
  /\ evicted \in [Threads -> Nat]
  /\ hot \subseteq Keys
  /\ opens \in Nat

\* The queue lists exactly the cached keys, each once: the eviction loop's
\* expect("nonempty file cache") and files[&candidate] cannot panic, and a
\* cached file can always be found for eviction.
QueueMatchesFiles ==
  /\ {order[i] : i \in DOMAIN order} = Cached
  /\ \A i, j \in DOMAIN order : order[i] = order[j] => i = j

\* However many threads miss at once, the cache keeps to its capacity.
CacheBounded == Cardinality(Cached) <= Capacity

\* A thread that is between the lock and the insertion is the only one there,
\* its key is not cached, and there is room for it or the cache is full.
InsertionIsExclusive ==
  \A t \in Threads : pc[t] \in {"evict", "add"} =>
    /\ writer = t
    /\ key[t] \notin Cached
    /\ pc[t] = "add" => Cardinality(Cached) < Capacity
    /\ pc[t] = "evict" => Cardinality(Cached) = Capacity

\* Second chance: an entry that was hit since it was last considered is evicted
\* only when every entry was.
HotEntriesSurvive ==
  [][\A k \in Cached \ Cached' : ~ Unlocked => k \notin hot \/ hot = Cached]_vars

\* The thread that asked gets an answer: the eviction loop ends and the lock is
\* passed on.
OpenReturns == \A t \in Threads : pc[t] # "idle" ~> pc[t] = "idle"

(***************************************************************************)
(* The inductive invariant                                                 *)
(***************************************************************************)
\* A thread on its way to the insertion has a key and a handle of its own.
HandleInHand ==
  \A t \in Threads : pc[t] \in {"opening", "insert", "evict", "add"} =>
    /\ key[t] \in Keys
    /\ pc[t] # "opening" => opened[t] # 0

\* The queue during an eviction: the first n entries have not been considered
\* yet, the others were hot and lost their flag.
SweepPosition ==
  \A t \in Threads : pc[t] = "evict" =>
    /\ hot \subseteq Cached
    /\ \E n \in 0 .. Len(order) :
         /\ \A i \in 1 .. n : referenced[order[i]] <=> order[i] \in hot
         /\ \A i \in n + 1 .. Len(order) : order[i] \in hot /\ ~ referenced[order[i]]

CacheInv ==
  /\ TypeOK
  /\ IsFiniteSet(Cached)
  /\ QueueMatchesFiles
  /\ CacheBounded
  /\ InsertionIsExclusive
  /\ HandleInHand
  /\ SweepPosition
=============================================================================
