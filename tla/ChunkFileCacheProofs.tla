------------------------ MODULE ChunkFileCacheProofs ------------------------
(***************************************************************************)
(* The shared file cache keeps to its capacity, never loses track of an    *)
(* entry and evicts by second chance, for any number of threads and chunks *)
(* and any capacity.                                                       *)
(***************************************************************************)
EXTENDS ChunkFileCache, FiniteSetTheorems, TLAPS

Listed(s) == {s[i] : i \in DOMAIN s}

Unique(s) == \A i, j \in DOMAIN s : s[i] = s[j] => i = j

(***************************************************************************)
(* The three ways the queue changes                                        *)
(***************************************************************************)
LEMMA AppendListed ==
  ASSUME NEW s \in Seq(Keys), NEW k \in Keys, k \notin Listed(s), Unique(s)
  PROVE  /\ Append(s, k) \in Seq(Keys)
         /\ Listed(Append(s, k)) = Listed(s) \cup {k}
         /\ Unique(Append(s, k))
<1> DEFINE a == Append(s, k)
<1>1. /\ a \in Seq(Keys) /\ Len(a) = Len(s) + 1 /\ Len(s) \in Nat
      /\ \A i \in 1 .. Len(s) : a[i] = s[i]
      /\ a[Len(s) + 1] = k
      /\ DOMAIN s = 1 .. Len(s) /\ DOMAIN a = 1 .. Len(s) + 1
  OBVIOUS
<1> HIDE DEF a
<1>2. Listed(a) = Listed(s) \cup {k}
  BY <1>1 DEF Listed
<1>3. Unique(a)
  BY <1>1 DEF Unique, Listed
<1> QED
  BY <1>1, <1>2, <1>3 DEF a

LEMMA TailListed ==
  ASSUME NEW s \in Seq(Keys), s # <<>>, Unique(s)
  PROVE  /\ Tail(s) \in Seq(Keys) /\ Head(s) \in Keys /\ Head(s) \in Listed(s)
         /\ Listed(Tail(s)) = Listed(s) \ {Head(s)}
         /\ Unique(Tail(s))
<1> DEFINE a == Tail(s)
<1>1. /\ a \in Seq(Keys) /\ Len(s) \in Nat /\ Len(s) >= 1 /\ Len(a) = Len(s) - 1
      /\ \A i \in 1 .. Len(s) - 1 : a[i] = s[i + 1]
      /\ Head(s) = s[1] /\ s[1] \in Keys
      /\ DOMAIN s = 1 .. Len(s) /\ DOMAIN a = 1 .. Len(s) - 1
  OBVIOUS
<1> HIDE DEF a
<1>2. \A i \in 2 .. Len(s) : a[i - 1] = s[i]
  BY <1>1
<1>3. Listed(a) \subseteq Listed(s) \ {s[1]}
  BY <1>1 DEF Listed, Unique
<1>4. Listed(s) \ {s[1]} \subseteq Listed(a)
  <2> SUFFICES ASSUME NEW i \in DOMAIN s, s[i] # s[1]
               PROVE  \E j \in DOMAIN a : a[j] = s[i]
    BY DEF Listed
  <2>1. i \in 2 .. Len(s) /\ i - 1 \in DOMAIN a
    BY <1>1
  <2> QED
    BY <1>2, <2>1
<1>5. Unique(a)
  BY <1>1 DEF Unique
<1>6. Head(s) \in Listed(s)
  BY <1>1 DEF Listed
<1> QED
  BY <1>1, <1>3, <1>4, <1>5, <1>6 DEF a

LEMMA WithoutListed ==
  ASSUME NEW s \in Seq(Keys), Unique(s), NEW n \in DOMAIN s
  PROVE  /\ Without(s, n) \in Seq(Keys)
         /\ Listed(Without(s, n)) = Listed(s) \ {s[n]}
         /\ Unique(Without(s, n))
<1> DEFINE a == Without(s, n)
<1>1. /\ Len(s) \in Nat /\ DOMAIN s = 1 .. Len(s) /\ Len(s) - 1 \in Nat
      /\ \A i \in 1 .. Len(s) : s[i] \in Keys
  OBVIOUS
<1>2. /\ DOMAIN a = 1 .. Len(s) - 1
      /\ \A i \in 1 .. Len(s) - 1 : a[i] = IF i < n THEN s[i] ELSE s[i + 1]
  BY DEF Without
<1>3. a \in [1 .. Len(s) - 1 -> Keys]
  BY <1>1 DEF Without
<1>4. a \in Seq(Keys)
  BY <1>1, <1>3
<1> HIDE DEF a
<1>5. Listed(a) \subseteq Listed(s) \ {s[n]}
  BY <1>1, <1>2 DEF Listed, Unique
<1>6. Listed(s) \ {s[n]} \subseteq Listed(a)
  <2> SUFFICES ASSUME NEW i \in DOMAIN s, s[i] # s[n]
               PROVE  \E j \in DOMAIN a : a[j] = s[i]
    BY DEF Listed
  <2>1. CASE i < n
    <3>1. i \in DOMAIN a /\ a[i] = s[i]
      BY <1>1, <1>2, <2>1
    <3> QED
      BY <3>1
  <2>2. CASE i > n
    <3>1. i - 1 \in DOMAIN a /\ a[i - 1] = s[i]
      BY <1>1, <1>2, <2>2
    <3> QED
      BY <3>1
  <2> QED
    BY <1>1, <2>1, <2>2
<1>7. Unique(a)
  BY <1>1, <1>2 DEF Unique
<1> QED
  BY <1>4, <1>5, <1>6, <1>7 DEF a

(***************************************************************************)
(* The invariant, action by action                                         *)
(***************************************************************************)
LEMMA CacheInit == Init => CacheInv
<1> SUFFICES ASSUME Init
             PROVE  CacheInv
  OBVIOUS
<1>1. Cached = {}
  BY DEF Init, Cached
<1>2. IsFiniteSet(Cached) /\ Cardinality(Cached) = 0
  BY <1>1, FS_EmptySet
<1>3. TypeOK
  BY DEF Init, TypeOK, Places
<1>4. QueueMatchesFiles
  BY <1>1 DEF Init, QueueMatchesFiles
<1>5. CacheBounded
  BY <1>2, CacheAssumption DEF CacheBounded
<1>6. InsertionIsExclusive /\ HandleInHand /\ SweepPosition
  BY DEF Init, InsertionIsExclusive, HandleInHand, SweepPosition
<1> QED
  BY <1>2, <1>3, <1>4, <1>5, <1>6 DEF CacheInv

\* With the lock free nobody is inserting.
LEMMA LockFree ==
  ASSUME CacheInv, writer = NoThread, NEW t \in Threads
  PROVE  pc[t] \notin {"evict", "add"}
BY CacheAssumption DEF CacheInv, InsertionIsExclusive

\* Steps of a thread that leave the cache alone.
LEMMA InvLocal ==
  ASSUME CacheInv, NEW t \in Threads,
         (\E k \in Keys : Miss(t, k)) \/ OpenFile(t) \/ OpenFails(t) \/ DropEvicted(t) \/ Done(t)
  PROVE  CacheInv'
<1> USE DEF cache
<1>1. TypeOK
  BY DEF CacheInv
<1>2. UNCHANGED <<order, file, referenced, writer, hot>> /\ Cached' = Cached
  BY DEF Miss, OpenFile, OpenFails, DropEvicted, Done, Cached
<1>3. TypeOK'
  <2>1. order' \in Seq(Keys) /\ file' \in [Keys -> Nat] /\ hot' \subseteq Keys
        /\ writer' \in Threads \cup {NoThread}
    BY <1>1, <1>2 DEF TypeOK
  <2>2. referenced' \in [Keys -> BOOLEAN]
    BY <1>1, <1>2, Zenon DEF TypeOK
  <2>3. pc' \in [Threads -> Places]
    BY <1>1 DEF Miss, OpenFile, OpenFails, DropEvicted, Done, TypeOK, Places
  <2>4. key' \in [Threads -> Keys \cup {NoKey}]
    BY <1>1 DEF Miss, OpenFile, OpenFails, DropEvicted, Done, TypeOK
  <2>5. opens' \in Nat
    BY <1>1 DEF Miss, OpenFile, OpenFails, DropEvicted, Done, TypeOK
  <2>6. opened' \in [Threads -> Nat]
    BY <1>1, <2>5 DEF Miss, OpenFile, OpenFails, DropEvicted, Done, TypeOK
  <2>7. reader' \in [Threads -> Nat] /\ evicted' \in [Threads -> Nat]
    BY <1>1 DEF Miss, OpenFile, OpenFails, DropEvicted, Done, TypeOK
  <2> QED
    BY <2>1, <2>2, <2>3, <2>4, <2>5, <2>6, <2>7 DEF TypeOK
<1>4. \A u \in Threads : pc'[u] \in {"evict", "add"} => pc'[u] = pc[u] /\ key'[u] = key[u]
  BY <1>1 DEF Miss, OpenFile, OpenFails, DropEvicted, Done, TypeOK
<1>5. HandleInHand'
  BY <1>1 DEF CacheInv, HandleInHand, Miss, OpenFile, OpenFails, DropEvicted, Done, TypeOK
<1>6. InsertionIsExclusive'
  BY <1>2, <1>4 DEF CacheInv, InsertionIsExclusive
<1>7. SweepPosition'
  BY <1>2, <1>4 DEF CacheInv, SweepPosition
<1>8. (IsFiniteSet(Cached))' /\ QueueMatchesFiles' /\ CacheBounded'
  BY <1>2 DEF CacheInv, QueueMatchesFiles, CacheBounded
<1> QED
  BY <1>3, <1>5, <1>6, <1>7, <1>8 DEF CacheInv

\* Using a cached entry sets its flag while nobody sweeps.
LEMMA InvShare ==
  ASSUME CacheInv, NEW t \in Threads, NEW k \in Keys, Hit(t, k) \/ LockFound(t)
  PROVE  CacheInv'
<1>1. TypeOK /\ writer = NoThread
  BY DEF CacheInv, Hit, LockFound
<1>2. UNCHANGED <<order, file, writer>> /\ Cached' = Cached
  BY DEF Hit, LockFound, Cached
<1>3. TypeOK'
  <2>1. PICK j \in Cached : Share(t, j)
    BY DEF Hit, LockFound
  <2>2. j \in Keys
    BY <2>1 DEF Cached
  <2>3. referenced' \in [Keys -> BOOLEAN]
    <3>1. referenced \in [Keys -> BOOLEAN] /\ referenced' = [referenced EXCEPT ![j] = TRUE]
      BY <1>1, <2>1 DEF Share, TypeOK
    <3> QED
      BY <2>2, <3>1, Zenon
  <2>4. reader' \in [Threads -> Nat] /\ pc' \in [Threads -> Places]
    BY <1>1, <2>1, <2>2 DEF Share, TypeOK, Places
  <2>5. /\ key' \in [Threads -> Keys \cup {NoKey}] /\ opened' \in [Threads -> Nat]
        /\ UNCHANGED <<evicted, hot, opens>>
    <3>1. CASE Hit(t, k)
      BY <1>1, <3>1 DEF Hit, TypeOK
    <3>2. CASE LockFound(t)
      BY <1>1, <3>2 DEF LockFound, TypeOK
    <3> QED
      BY <3>1, <3>2
  <2> QED
    <3>1. referenced \in [Keys -> BOOLEAN]
      BY <1>1 DEF TypeOK
    <3> QED
      BY <1>1, <1>2, <2>3, <2>4, <2>5 DEF TypeOK
<1>4. \A u \in Threads : pc'[u] \notin {"evict", "add"}
  BY <1>1, LockFree DEF Hit, LockFound, Share, TypeOK
<1>5. HandleInHand'
  BY <1>1 DEF CacheInv, HandleInHand, Hit, LockFound, Share, TypeOK
<1>6. InsertionIsExclusive' /\ SweepPosition'
  BY <1>4 DEF InsertionIsExclusive, SweepPosition
<1>7. (IsFiniteSet(Cached))' /\ QueueMatchesFiles' /\ CacheBounded'
  BY <1>2 DEF CacheInv, QueueMatchesFiles, CacheBounded
<1> QED
  BY <1>3, <1>5, <1>6, <1>7 DEF CacheInv

\* Taking the write lock starts the sweep at the front of the queue.
LEMMA InvLockMiss ==
  ASSUME CacheInv, NEW t \in Threads, LockMiss(t)
  PROVE  CacheInv'
<1> USE DEF cache
<1>1. TypeOK /\ writer = NoThread /\ key[t] \notin Cached
  BY DEF CacheInv, LockMiss
<1>2. /\ UNCHANGED <<order, file, referenced, key, opened>> /\ Cached' = Cached
      /\ writer' = t /\ hot' = {k \in Cached : referenced[k]}
  BY DEF LockMiss, Cached
<1>3. TypeOK'
  BY <1>1 DEF LockMiss, TypeOK, Places, Cached
<1>4. /\ \A u \in Threads \ {t} : pc'[u] = pc[u] /\ pc[u] \notin {"evict", "add"}
      /\ pc'[t] = IF Cardinality(Cached) = Capacity THEN "evict" ELSE "add"
  BY <1>1, LockFree DEF LockMiss, TypeOK
<1>5. Cardinality(Cached) \in Nat /\ Cardinality(Cached) <= Capacity
  BY FS_CardinalityType DEF CacheInv, CacheBounded
<1>6. InsertionIsExclusive'
  BY <1>1, <1>2, <1>4, <1>5, CacheAssumption DEF InsertionIsExclusive
<1>7. HandleInHand'
  BY <1>1, <1>2, <1>4 DEF CacheInv, HandleInHand, LockMiss
<1>8. SweepPosition'
  <2>1. Len(order) \in 0 .. Len(order) /\ DOMAIN order = 1 .. Len(order)
    BY <1>1 DEF TypeOK
  <2>2. \A i \in 1 .. Len(order) : order[i] \in Cached
    BY <2>1 DEF CacheInv, QueueMatchesFiles
  <2>3. \A i \in 1 .. Len(order) : referenced[order[i]] <=> order[i] \in hot'
    BY <1>2, <2>2
  <2>4. \A i \in Len(order) + 1 .. Len(order) : FALSE
    BY <2>1
  <2>5. hot' \subseteq Cached
    BY <1>2
  <2> QED
    BY <1>2, <2>1, <2>3, <2>4, <2>5 DEF SweepPosition
<1>9. (IsFiniteSet(Cached))' /\ QueueMatchesFiles' /\ CacheBounded'
  BY <1>2 DEF CacheInv, QueueMatchesFiles, CacheBounded
<1> QED
  BY <1>3, <1>6, <1>7, <1>8, <1>9 DEF CacheInv

\* The front of a full queue is a cached key.
LEMMA FullQueue ==
  ASSUME CacheInv, NEW t \in Threads, pc[t] = "evict"
  PROVE  /\ TypeOK /\ order # <<>> /\ Unique(order) /\ Listed(order) = Cached
         /\ Head(order) \in Cached /\ Head(order) \in Keys
         /\ writer = t /\ key[t] \in Keys /\ key[t] \notin Cached /\ opened[t] # 0
         /\ Cardinality(Cached) = Capacity
<1>1. TypeOK /\ Unique(order) /\ Listed(order) = Cached
  BY DEF CacheInv, QueueMatchesFiles, Unique, Listed
<1>2. /\ writer = t /\ key[t] \in Keys /\ key[t] \notin Cached /\ opened[t] # 0
      /\ Cardinality(Cached) = Capacity
  BY DEF CacheInv, InsertionIsExclusive, HandleInHand
<1>3. Cached # {}
  BY <1>2, FS_EmptySet, CacheAssumption DEF CacheInv
<1>4. order # <<>>
  BY <1>1, <1>3 DEF Listed
<1>5. order \in Seq(Keys)
  BY <1>1 DEF TypeOK
<1>6. Head(order) \in Listed(order) /\ Head(order) \in Keys
  BY <1>1, <1>4, <1>5, TailListed
<1> QED
  BY <1>1, <1>2, <1>4, <1>6

\* With the lock taken by t nobody else is inserting.
LEMMA LockHeld ==
  ASSUME CacheInv, NEW t \in Threads, pc[t] \in {"evict", "add"}, NEW u \in Threads, u # t
  PROVE  pc[u] \notin {"evict", "add"}
BY DEF CacheInv, InsertionIsExclusive

\* The sweep passes one entry.
LEMMA InvRotate ==
  ASSUME CacheInv, NEW t \in Threads, EvictRotate(t)
  PROVE  CacheInv'
<1> USE DEF threads
<1> DEFINE h == Head(order)
           rest == Tail(order)
<1>1. pc[t] = "evict" /\ referenced[h] /\ referenced' = [referenced EXCEPT ![h] = FALSE]
      /\ order' = Append(rest, h)
      /\ UNCHANGED <<file, writer, pc, key, opened, reader, evicted, hot, opens>>
  BY DEF EvictRotate
<1>2. /\ TypeOK /\ order # <<>> /\ Unique(order) /\ Listed(order) = Cached
      /\ h \in Cached /\ h \in Keys /\ order \in Seq(Keys)
  BY <1>1, FullQueue DEF TypeOK
<1>3. rest \in Seq(Keys) /\ Listed(rest) = Cached \ {h} /\ Unique(rest)
  BY <1>2, TailListed
<1>4. order' \in Seq(Keys) /\ Listed(order') = (Cached \ {h}) \cup {h} /\ Unique(order')
  BY <1>1, <1>2, <1>3, AppendListed
<1>5. Cached' = Cached
  BY <1>1 DEF Cached
<1>6. TypeOK'
  <2>1. referenced' \in [Keys -> BOOLEAN]
    BY <1>1, <1>2, Zenon DEF TypeOK
  <2> QED
    BY <1>1, <1>2, <1>4, <2>1 DEF TypeOK
<1>7. QueueMatchesFiles'
  BY <1>2, <1>4, <1>5 DEF QueueMatchesFiles, Listed, Unique
<1>8. (IsFiniteSet(Cached))' /\ CacheBounded'
  BY <1>5 DEF CacheInv, CacheBounded
<1>9. InsertionIsExclusive'
  BY <1>1, <1>5 DEF CacheInv, InsertionIsExclusive
<1>10. HandleInHand'
  BY <1>1 DEF CacheInv, HandleInHand
<1>11. SweepPosition'
  <2>1. /\ hot \subseteq Cached
        /\ \E n \in 0 .. Len(order) :
             /\ \A i \in 1 .. n : referenced[order[i]] <=> order[i] \in hot
             /\ \A i \in n + 1 .. Len(order) : order[i] \in hot /\ ~ referenced[order[i]]
    BY <1>1 DEF CacheInv, SweepPosition
  <2>2. PICK n \in 0 .. Len(order) :
             /\ \A i \in 1 .. n : referenced[order[i]] <=> order[i] \in hot
             /\ \A i \in n + 1 .. Len(order) : order[i] \in hot /\ ~ referenced[order[i]]
    BY <2>1
  <2>3. /\ Len(order) \in Nat /\ Len(order) >= 1 /\ h = order[1]
        /\ Len(rest) = Len(order) - 1
        /\ \A i \in 1 .. Len(order) - 1 : rest[i] = order[i + 1]
    BY <1>2
  <2>4. /\ Len(order') = Len(order)
        /\ \A i \in 1 .. Len(order) - 1 : order'[i] = rest[i]
        /\ order'[Len(order)] = h
    BY <1>1, <1>2, <1>3, <2>3
  <2>5. \A i \in 1 .. Len(order) - 1 : order'[i] = order[i + 1]
    BY <2>3, <2>4
  <2>6. n >= 1
    <3> SUFFICES ASSUME n = 0
                 PROVE  FALSE
      BY <2>3
    <3>1. 1 \in n + 1 .. Len(order)
      BY <2>3
    <3> QED
      BY <1>1, <2>2, <2>3, <3>1
  <2>7. order[1] \in hot
    <3>1. 1 \in 1 .. n
      BY <2>6
    <3> QED
      BY <1>1, <2>2, <2>3, <3>1
  <2>8. \A i \in 2 .. Len(order) : order[i] \in Keys /\ order[i] # h
                                 /\ referenced'[order[i]] = referenced[order[i]]
    <3> SUFFICES ASSUME NEW i \in 2 .. Len(order)
                 PROVE  order[i] \in Keys /\ order[i] # h
                        /\ referenced'[order[i]] = referenced[order[i]]
      OBVIOUS
    <3>1. i \in DOMAIN order /\ 1 \in DOMAIN order /\ i # 1
      BY <1>2, <2>3
    <3>2. order[i] \in Keys /\ order[i] # h
      BY <1>2, <2>3, <3>1 DEF Unique
    <3>3. referenced'[order[i]] = referenced[order[i]]
      BY <1>1, <1>2, <3>2 DEF TypeOK
    <3> QED
      BY <3>2, <3>3
  <2>9. ~ referenced'[h]
    BY <1>1, <1>2, Zenon DEF TypeOK
  <2>10. n - 1 \in 0 .. Len(order')
    BY <2>3, <2>4, <2>6
  <2>11. \A i \in 1 .. n - 1 : referenced'[order'[i]] <=> order'[i] \in hot
    <3> SUFFICES ASSUME NEW i \in 1 .. n - 1
                 PROVE  referenced'[order'[i]] <=> order'[i] \in hot
      OBVIOUS
    <3>1. i + 1 \in 1 .. n /\ i + 1 \in 2 .. Len(order) /\ i \in 1 .. Len(order) - 1
      BY <2>3
    <3>2. order'[i] = order[i + 1]
      BY <2>5, <3>1
    <3>3. referenced'[order[i + 1]] = referenced[order[i + 1]]
      BY <2>8, <3>1
    <3>4. referenced[order[i + 1]] <=> order[i + 1] \in hot
      BY <2>2, <3>1
    <3> QED
      BY <3>2, <3>3, <3>4
  <2>12. \A i \in n - 1 + 1 .. Len(order') : order'[i] \in hot /\ ~ referenced'[order'[i]]
    <3> SUFFICES ASSUME NEW i \in n .. Len(order)
                 PROVE  order'[i] \in hot /\ ~ referenced'[order'[i]]
      BY <2>3, <2>4
    <3>1. CASE i = Len(order)
      BY <2>3, <2>4, <2>7, <2>9, <3>1
    <3>2. CASE i # Len(order)
      <4>1. i + 1 \in n + 1 .. Len(order) /\ i + 1 \in 2 .. Len(order) /\ i \in 1 .. Len(order) - 1
        BY <2>3, <2>6, <3>2
      <4>2. order'[i] = order[i + 1]
        BY <2>5, <4>1
      <4>3. referenced'[order[i + 1]] = referenced[order[i + 1]]
        BY <2>8, <4>1
      <4>4. order[i + 1] \in hot /\ ~ referenced[order[i + 1]]
        BY <2>2, <4>1
      <4> QED
        BY <4>2, <4>3, <4>4
    <3> QED
      BY <3>1, <3>2
  <2> QED
    BY <1>1, <1>5, <2>1, <2>10, <2>11, <2>12 DEF SweepPosition
<1> QED
  BY <1>6, <1>7, <1>8, <1>9, <1>10, <1>11 DEF CacheInv

\* The sweep ends at an entry without the flag, which leaves map and queue.
LEMMA InvRemove ==
  ASSUME CacheInv, NEW t \in Threads, EvictRemove(t)
  PROVE  CacheInv'
<1> DEFINE h == Head(order)
<1>1. /\ pc[t] = "evict" /\ file' = [file EXCEPT ![h] = 0] /\ order' = Tail(order)
      /\ evicted' = [evicted EXCEPT ![t] = file[h]] /\ pc' = [pc EXCEPT ![t] = "add"]
      /\ UNCHANGED <<referenced, writer, key, opened, reader, hot, opens>>
  BY DEF EvictRemove
<1>2. /\ TypeOK /\ order # <<>> /\ Unique(order) /\ Listed(order) = Cached
      /\ h \in Cached /\ h \in Keys /\ order \in Seq(Keys)
      /\ writer = t /\ key[t] \in Keys /\ key[t] \notin Cached /\ opened[t] # 0
      /\ Cardinality(Cached) = Capacity
  BY <1>1, FullQueue DEF TypeOK
<1>3. Tail(order) \in Seq(Keys) /\ Listed(Tail(order)) = Cached \ {h} /\ Unique(Tail(order))
  BY <1>2, TailListed
<1>4. Cached' = Cached \ {h}
  BY <1>1, <1>2 DEF Cached, TypeOK
<1>5. IsFiniteSet(Cached') /\ Cardinality(Cached') = Capacity - 1
  <2>1. IsFiniteSet(Cached)
    BY DEF CacheInv
  <2>2. IsFiniteSet(Cached \ {h}) /\ Cardinality(Cached \ {h}) = Cardinality(Cached) - 1
    BY <1>2, <2>1, FS_RemoveElement
  <2> QED
    BY <1>2, <1>4, <2>2
<1>6. TypeOK'
  <2>1. file' \in [Keys -> Nat] /\ evicted' \in [Threads -> Nat] /\ pc' \in [Threads -> Places]
    BY <1>1, <1>2 DEF TypeOK, Places
  <2>2. referenced \in [Keys -> BOOLEAN]
    BY <1>2 DEF TypeOK
  <2> QED
    BY <1>1, <1>2, <1>3, <2>1, <2>2 DEF TypeOK
<1>7. QueueMatchesFiles'
  BY <1>1, <1>3, <1>4 DEF QueueMatchesFiles, Listed, Unique
<1>8. (IsFiniteSet(Cached))' /\ CacheBounded'
  BY <1>5, CacheAssumption DEF CacheBounded
<1>9. pc'[t] = "add" /\ \A u \in Threads \ {t} : pc'[u] = pc[u] /\ pc[u] \notin {"evict", "add"}
  BY <1>1, <1>2, LockHeld DEF TypeOK
<1>10. InsertionIsExclusive'
  <2> SUFFICES ASSUME NEW u \in Threads, pc'[u] \in {"evict", "add"}
               PROVE  /\ u = t /\ writer' = t /\ key'[t] \notin Cached'
                      /\ Cardinality(Cached') < Capacity
    BY <1>9 DEF InsertionIsExclusive
  <2> QED
    BY <1>1, <1>2, <1>4, <1>5, <1>9, CacheAssumption
<1>11. HandleInHand'
  BY <1>1, <1>2, <1>9 DEF CacheInv, HandleInHand
<1>12. SweepPosition'
  BY <1>9 DEF SweepPosition
<1> QED
  BY <1>6, <1>7, <1>8, <1>10, <1>11, <1>12 DEF CacheInv

\* The insertion fills the room that was made.
LEMMA InvAdd ==
  ASSUME CacheInv, NEW t \in Threads, Add(t)
  PROVE  CacheInv'
<1> DEFINE k == key[t]
<1>1. /\ pc[t] = "add" /\ order' = Append(order, k) /\ file' = [file EXCEPT ![k] = opened[t]]
      /\ referenced' = [referenced EXCEPT ![k] = FALSE]
      /\ reader' = [reader EXCEPT ![t] = opened[t]] /\ opened' = [opened EXCEPT ![t] = 0]
      /\ writer' = NoThread /\ hot' = {} /\ pc' = [pc EXCEPT ![t] = "drop"]
      /\ UNCHANGED <<key, evicted, opens>>
  BY DEF Add
<1>2. /\ TypeOK /\ Unique(order) /\ Listed(order) = Cached /\ order \in Seq(Keys)
      /\ k \in Keys /\ k \notin Cached /\ opened[t] # 0
      /\ IsFiniteSet(Cached) /\ Cardinality(Cached) < Capacity
  BY <1>1 DEF CacheInv, InsertionIsExclusive, HandleInHand, QueueMatchesFiles, Unique, Listed, TypeOK
<1>3. order' \in Seq(Keys) /\ Listed(order') = Cached \cup {k} /\ Unique(order')
  BY <1>1, <1>2, AppendListed
<1>4. Cached' = Cached \cup {k}
  BY <1>1, <1>2 DEF Cached, TypeOK
<1>5. IsFiniteSet(Cached') /\ Cardinality(Cached') <= Capacity
  <2>1. IsFiniteSet(Cached \cup {k}) /\ Cardinality(Cached \cup {k}) = Cardinality(Cached) + 1
    BY <1>2, FS_AddElement
  <2>2. Cardinality(Cached) \in Nat
    BY <1>2, FS_CardinalityType
  <2> QED
    BY <1>2, <1>4, <2>1, <2>2, CacheAssumption
<1>6. TypeOK'
  <2>1. /\ file' \in [Keys -> Nat] /\ reader' \in [Threads -> Nat]
        /\ opened' \in [Threads -> Nat] /\ pc' \in [Threads -> Places]
    BY <1>1, <1>2 DEF TypeOK, Places
  <2>2. referenced \in [Keys -> BOOLEAN]
    BY <1>2 DEF TypeOK
  <2>3. referenced' \in [Keys -> BOOLEAN]
    BY <1>1, <1>2, <2>2, Zenon
  <2> QED
    BY <1>1, <1>2, <1>3, <2>1, <2>3 DEF TypeOK
<1>7. QueueMatchesFiles'
  BY <1>3, <1>4 DEF QueueMatchesFiles, Listed, Unique
<1>8. (IsFiniteSet(Cached))' /\ CacheBounded'
  BY <1>5 DEF CacheBounded
<1>9. pc'[t] = "drop" /\ \A u \in Threads \ {t} : pc'[u] = pc[u] /\ pc[u] \notin {"evict", "add"}
  BY <1>1, <1>2, LockHeld DEF TypeOK
<1>10. InsertionIsExclusive' /\ SweepPosition'
  BY <1>9 DEF InsertionIsExclusive, SweepPosition
<1>11. HandleInHand'
  BY <1>1, <1>2, <1>9 DEF CacheInv, HandleInHand, TypeOK
<1> QED
  BY <1>6, <1>7, <1>8, <1>10, <1>11 DEF CacheInv

\* An entry leaves while nobody holds the lock.
LEMMA InvInvalidate ==
  ASSUME CacheInv, NEW k \in Keys, Invalidate(k)
  PROVE  CacheInv'
<1> USE DEF threads
<1>1. PICK i \in DOMAIN order : order[i] = k /\ order' = Without(order, i)
  BY DEF Invalidate
<1>2. /\ Unlocked /\ file' = [file EXCEPT ![k] = 0] /\ referenced' = [referenced EXCEPT ![k] = FALSE]
      /\ UNCHANGED <<writer, pc, key, opened, reader, evicted, hot, opens>>
  BY DEF Invalidate
<1>3. /\ TypeOK /\ Unique(order) /\ Listed(order) = Cached /\ order \in Seq(Keys)
      /\ IsFiniteSet(Cached) /\ Cardinality(Cached) <= Capacity
  BY DEF CacheInv, CacheBounded, QueueMatchesFiles, Unique, Listed, TypeOK
<1>4. order' \in Seq(Keys) /\ Listed(order') = Cached \ {k} /\ Unique(order')
  BY <1>1, <1>3, WithoutListed
<1>5. Cached' = Cached \ {k} /\ k \in Cached
  <2>1. k \in Cached
    BY <1>1, <1>3 DEF Listed
  <2> QED
    BY <1>2, <1>3, <2>1 DEF Cached, TypeOK
<1>6. IsFiniteSet(Cached') /\ Cardinality(Cached') <= Capacity
  <2>1. IsFiniteSet(Cached \ {k}) /\ Cardinality(Cached \ {k}) = Cardinality(Cached) - 1
    BY <1>3, <1>5, FS_RemoveElement
  <2>2. Cardinality(Cached) \in Nat
    BY <1>3, FS_CardinalityType
  <2> QED
    BY <1>3, <1>5, <2>1, <2>2, CacheAssumption
<1>7. TypeOK'
  <2>1. file' \in [Keys -> Nat]
    BY <1>2, <1>3 DEF TypeOK
  <2>2. referenced \in [Keys -> BOOLEAN]
    BY <1>3 DEF TypeOK
  <2>3. referenced' \in [Keys -> BOOLEAN]
    BY <1>2, <2>2, Zenon
  <2> QED
    BY <1>2, <1>3, <1>4, <2>1, <2>3 DEF TypeOK
<1>8. QueueMatchesFiles'
  BY <1>4, <1>5 DEF QueueMatchesFiles, Listed, Unique
<1>9. (IsFiniteSet(Cached))' /\ CacheBounded'
  BY <1>6 DEF CacheBounded
<1>10. InsertionIsExclusive' /\ HandleInHand' /\ SweepPosition'
  BY <1>2, LockFree DEF Unlocked, CacheInv, InsertionIsExclusive, HandleInHand, SweepPosition
<1> QED
  BY <1>7, <1>8, <1>9, <1>10 DEF CacheInv

LEMMA InvClear ==
  ASSUME CacheInv, Clear
  PROVE  CacheInv'
<1> USE DEF threads
<1>1. Cached' = {} /\ TypeOK
  BY DEF Clear, Cached, CacheInv
<1>2. IsFiniteSet(Cached') /\ Cardinality(Cached') = 0
  BY <1>1, FS_EmptySet
<1>3. TypeOK'
  <2>1. referenced' \in [Keys -> BOOLEAN]
    BY Zenon DEF Clear
  <2> QED
    BY <1>1, <2>1 DEF Clear, TypeOK
<1>4. QueueMatchesFiles'
  BY <1>1 DEF Clear, QueueMatchesFiles
<1>5. (IsFiniteSet(Cached))' /\ CacheBounded'
  BY <1>2, CacheAssumption DEF CacheBounded
<1>6. InsertionIsExclusive' /\ HandleInHand' /\ SweepPosition'
  BY LockFree DEF Clear, Unlocked, CacheInv, InsertionIsExclusive, HandleInHand, SweepPosition
<1> QED
  BY <1>2, <1>3, <1>4, <1>5, <1>6 DEF CacheInv

LEMMA InvStutter ==
  ASSUME CacheInv, UNCHANGED vars
  PROVE  CacheInv'
<1>1. UNCHANGED <<order, file, referenced, writer, pc, key, opened, reader, evicted, hot, opens>>
      /\ Cached' = Cached
  BY DEF vars, cache, threads, Cached
<1>2. TypeOK'
  <2>1. TypeOK /\ referenced \in [Keys -> BOOLEAN]
    BY DEF CacheInv, TypeOK
  <2> QED
    BY <1>1, <2>1 DEF TypeOK
<1>3. QueueMatchesFiles' /\ CacheBounded' /\ (IsFiniteSet(Cached))'
  BY <1>1 DEF CacheInv, QueueMatchesFiles, CacheBounded
<1>4. InsertionIsExclusive' /\ HandleInHand'
  BY <1>1 DEF CacheInv, InsertionIsExclusive, HandleInHand
<1>5. SweepPosition'
  BY <1>1 DEF CacheInv, SweepPosition
<1> QED
  BY <1>2, <1>3, <1>4, <1>5 DEF CacheInv

LEMMA CacheNext == CacheInv /\ [Next]_vars => CacheInv'
<1> SUFFICES ASSUME CacheInv, [Next]_vars
             PROVE  CacheInv'
  OBVIOUS
<1>1. CASE \E t \in Threads, k \in Keys : Hit(t, k) \/ Miss(t, k)
  BY <1>1, InvShare, InvLocal
<1>2. CASE \E t \in Threads : Proceed(t)
  <2>1. PICK t \in Threads : Proceed(t)
    BY <1>2
  <2>2. CASE LockFound(t) \/ LockMiss(t)
    <3>1. key[t] \in Keys
      BY <2>2 DEF CacheInv, HandleInHand, LockFound, LockMiss
    <3> QED
      BY <2>2, <3>1, InvShare, InvLockMiss
  <2>3. CASE EvictRotate(t) \/ EvictRemove(t) \/ Add(t)
    BY <2>3, InvRotate, InvRemove, InvAdd
  <2>4. CASE OpenFile(t) \/ OpenFails(t) \/ DropEvicted(t) \/ Done(t)
    BY <2>4, InvLocal
  <2> QED
    BY <2>1, <2>2, <2>3, <2>4 DEF Proceed
<1>3. CASE \E k \in Keys : Invalidate(k)
  BY <1>3, InvInvalidate
<1>4. CASE Clear
  BY <1>4, InvClear
<1>5. CASE UNCHANGED vars
  BY <1>5, InvStutter
<1> QED
  BY <1>1, <1>2, <1>3, <1>4, <1>5 DEF Next

(***************************************************************************)
(* Theorems                                                                *)
(***************************************************************************)
\* The invariant holds of the cache at every step of every thread.
THEOREM CacheInvHolds == Spec => []CacheInv
<1>1. Init => CacheInv
  BY CacheInit
<1>2. CacheInv /\ [Next]_vars => CacheInv'
  BY CacheNext
<1> QED
  BY <1>1, <1>2, PTL DEF Spec

\* However many threads miss at once, no more than Capacity files are cached.
THEOREM CacheStaysBounded == Spec => []CacheBounded
<1>1. CacheInv => CacheBounded
  BY DEF CacheInv
<1> QED
  BY <1>1, CacheInvHolds, PTL

\* The eviction queue lists exactly the cached files, each once, so the loop's
\* expect and its lookup cannot panic.
THEOREM QueueNeverDrifts == Spec => []QueueMatchesFiles
<1>1. CacheInv => QueueMatchesFiles
  BY DEF CacheInv
<1> QED
  BY <1>1, CacheInvHolds, PTL

\* A file that was hit since it was last considered is evicted only when every
\* cached file was hit.
THEOREM SecondChance == Spec => HotEntriesSurvive
<1> DEFINE Step == \A k \in Cached \ Cached' : ~ Unlocked => k \notin hot \/ hot = Cached
<1>1. CacheInv /\ [Next]_vars => [Step]_vars
  <2> SUFFICES ASSUME CacheInv, Next, NEW k \in Cached \ Cached', ~ Unlocked, k \in hot
               PROVE  hot = Cached
    BY DEF Step
  <2>1. PICK t \in Threads : EvictRemove(t)
    <3>1. k \in Keys /\ file[k] # 0 /\ file'[k] = 0
      BY DEF Cached
    <3>2. file' # file
      BY <3>1
    <3>3. \A t \in Threads : ~ Add(t)
      <4> SUFFICES ASSUME NEW t \in Threads, Add(t)
                   PROVE  FALSE
        OBVIOUS
      <4>1. file' = [file EXCEPT ![key[t]] = opened[t]] /\ key[t] \in Keys /\ opened[t] # 0
            /\ file \in [Keys -> Nat]
        BY DEF Add, CacheInv, HandleInHand, TypeOK
      <4> QED
        BY <3>1, <4>1
    <3> QED
      BY <3>2, <3>3 DEF Next, Proceed, Hit, Miss, OpenFile, OpenFails, LockFound, LockMiss,
            EvictRotate, DropEvicted, Done, Invalidate, Clear, Unlocked, cache
  <2>2. /\ pc[t] = "evict" /\ ~ referenced[Head(order)] /\ file' = [file EXCEPT ![Head(order)] = 0]
    BY <2>1 DEF EvictRemove
  <2>3. /\ TypeOK /\ order # <<>> /\ Listed(order) = Cached /\ order \in Seq(Keys)
    BY <2>2, FullQueue DEF TypeOK
  <2>4. k = order[1] /\ Head(order) = order[1] /\ Len(order) \in Nat /\ Len(order) >= 1
        /\ DOMAIN order = 1 .. Len(order)
    <3>1. k = Head(order)
      BY <2>2, <2>3 DEF Cached, TypeOK
    <3> QED
      BY <2>3, <3>1
  <2>5. PICK n \in 0 .. Len(order) :
             /\ \A i \in 1 .. n : referenced[order[i]] <=> order[i] \in hot
             /\ \A i \in n + 1 .. Len(order) : order[i] \in hot /\ ~ referenced[order[i]]
    BY <2>2 DEF CacheInv, SweepPosition
  <2>6. n = 0
    <3> SUFFICES ASSUME n # 0
                 PROVE  FALSE
      OBVIOUS
    <3>1. 1 \in 1 .. n
      BY <2>4
    <3> QED
      BY <2>2, <2>4, <2>5, <3>1
  <2>7. \A i \in DOMAIN order : order[i] \in hot
    BY <2>4, <2>5, <2>6
  <2>8. hot \subseteq Cached
    BY <2>2 DEF CacheInv, SweepPosition
  <2> QED
    BY <2>3, <2>7, <2>8 DEF Listed
<1> QED
  BY <1>1, CacheInvHolds, PTL DEF Spec, HotEntriesSurvive, Step
=============================================================================
