------------------------------ MODULE ReadViews -----------------------------
(***************************************************************************)
(* Readers beside the writer of RangeWrites: a long-lived read session (a  *)
(* FastKReadSession, or the BacktestStoreView around it) on a writable     *)
(* handle of another process, which holds no lock, and the bridge commands *)
(* that read, which open the store read-only: under a shared lock, or      *)
(* without one where there is no store yet.                                *)
(*                                                                         *)
(* The session keeps what the engine keeps for it: the manifests it        *)
(* attached, the manifest cache of its handle, the manifest cache of its   *)
(* process (which a load does not compare with the file), open chunk files *)
(* and decoded sidecars.  A query walks the chunks of one manifest, one at *)
(* a time, while the writer goes on and removes files.  Decoded headers    *)
(* change no answer and are left out; ChunkFileCache has the eviction      *)
(* order of open files, here any file may make room.                       *)
(***************************************************************************)
EXTENDS RangeWrites, FiniteSetsExt

CONSTANTS Windows,          \* the time ranges that queries ask for
          FileCapacity,     \* open chunk files a handle keeps
          SidecarCapacity   \* decoded sidecars it keeps

ASSUME ViewsAssumption ==
  /\ Windows \subseteq Ts \X Ts
  /\ FileCapacity \in Nat \ {0} /\ SidecarCapacity \in Nat \ {0}

VARIABLES
  reader,    \* who reads in this behaviour, a session or the bridge
  local,     \* the manifest cached by the handle, none or one
  shared,    \* the manifest cached by the process, none or one
  attached,  \* the manifest that the session attached, none or one
  files,     \* the open files of the handle, by key
  decoded,   \* its decoded sidecars, least recently used first
  handle,    \* the store that a bridge command opened: closed, ro with its
             \* shared lock, or probe without one
  base,      \* the manifest it loaded first, none or one
  query      \* the query in progress, none or one

caches  == <<local, shared, attached, files, decoded>>
readers == <<reader, handle, base, caches, query>>

\* What a bridge command leaves alone: all of the writer but the lock.
unlocked == <<kind, durable, pc, goal, request, scan, callers, fails>>

vars    == <<writer, readers>>

Init ==
  /\ WriterInit
  /\ reader \in {"session", "bridge"}
  /\ local = {} /\ shared = {} /\ attached = {} /\ files = {} /\ decoded = <<>>
  /\ handle = "closed" /\ base = {}
  /\ query = {}

(***************************************************************************)
(* Manifests                                                               *)
(***************************************************************************)
\* series.meta as a load returns it, when there is one.
OnDisk == IF registered THEN {[chunks |-> manifest, sides |-> sides]} ELSE {}

\* The cache of the handle, that of the process, the file.
LoadMeta == IF local # {} THEN local ELSE IF shared # {} THEN shared ELSE OnDisk

Loaded ==
  /\ local' = LoadMeta
  /\ shared' = IF local = {} /\ shared = {} THEN OnDisk ELSE shared

Idle == reader = "session" /\ query = {}

\* attach_*_series: a second attachment of the series changes nothing.
Attach ==
  /\ Idle /\ attached = {} /\ LoadMeta # {}
  /\ Loaded
  /\ attached' = LoadMeta
  /\ UNCHANGED <<reader, files, decoded, query>>

\* attached_inventory and list_series compare the process cache with the file.
Inventory ==
  /\ Idle /\ OnDisk # {} /\ shared # OnDisk
  /\ shared' = OnDisk
  /\ UNCHANGED <<reader, local, attached, files, decoded, query>>

\* reset(QueryOnly) and reset(Logical): manifests and open files stay.
ResetCaches ==
  /\ Idle /\ decoded # <<>>
  /\ decoded' = <<>>
  /\ UNCHANGED <<reader, local, shared, attached, files, query>>

\* reset(FullDetach).
FullDetach ==
  /\ Idle /\ attached # {}
  /\ local' = {} /\ attached' = {} /\ files' = {} /\ decoded' = <<>>
  /\ UNCHANGED <<reader, shared, query>>

\* The store drops its caches under the session, which stays attached.
ClearReadCaches ==
  /\ Idle /\ local # {}
  /\ local' = {} /\ files' = {} /\ decoded' = <<>>
  /\ UNCHANGED <<reader, shared, attached, query>>

(***************************************************************************)
(* Chunk files and sidecars                                                *)
(***************************************************************************)
\* Mutant of ChunkCacheKey: the partition stands for the chunk.
MonthCacheKey(c) == c.path.month

ChunkCacheKey(c) == [id |-> c.id, gen |-> c.gen, path |-> c.path]

Opened(c) == {f \in files : f.key = ChunkCacheKey(c)}

\* ChunkFileCache.open: another file makes room when the cache is full.
Cached(entry) ==
  IF Cardinality(files) < FileCapacity THEN {files \cup {entry}}
  ELSE {(files \ {f}) \cup {entry} : f \in files}

\* The ways to read chunk c: its open file, or the file on disk, which is kept.
FileReads(c) ==
  IF Opened(c) # {} THEN {[rows |-> f.rows, files |-> files] : f \in Opened(c)}
  ELSE UNION {{[rows |-> f.rows, files |-> kept] :
                 kept \in Cached([key |-> ChunkCacheKey(c), rows |-> f.rows])} :
               f \in {x \in disk : x.path = c.path}}

\* The sidecar key has the path and the checksum, which the rows stand for.
SidecarCacheKey(c) == [gen |-> c.gen, path |-> c.path, checksum |-> c.rows]

\* touch: entry i of the order moves to the back.
Touched(i) == Append(SubSeq(decoded, 1, i - 1) \o SubSeq(decoded, i + 1, Len(decoded)), decoded[i])

\* touch and trim: a new entry goes to the back, the front makes room.
Trimmed(entry) ==
  Append(IF Len(decoded) < SidecarCapacity THEN decoded ELSE Tail(decoded), entry)

\* get_zmap, get_vix: a decoded sidecar, or the file if its checksum agrees.
SidecarReads(c) ==
  LET key  == SidecarCacheKey(c)
      hits == {i \in DOMAIN decoded : decoded[i].key = key}
  IN  IF hits # {} THEN {[rows |-> decoded[i].rows, decoded |-> Touched(i)] : i \in hits}
      ELSE {[rows |-> x.rows, decoded |-> Trimmed([key |-> key, rows |-> x.rows])] :
              x \in {y \in index : y.path = c.path /\ y.rows = c.rows}}

(***************************************************************************)
(* Queries                                                                 *)
(***************************************************************************)
Window(rows, lo, hi) == {r \in rows : lo <= r.ts /\ r.ts <= hi}

\* find_chunks_for_range.
ChunksFor(C, lo, hi) == {c \in C : c.start <= hi /\ lo <= c.end}

\* The ways to search a scalar series: by raw scan, by one of its sidecars, or,
\* in query_scalar_predicate, by what suits the predicate and the chunk.
Predicates == {"discrete", "continuous"}

Searches == {"raw", "zmap", "vix"} \cup Predicates

\* How a chunk is read: a predicate query scans a chunk that has no sidecar.
StrategyFor(q, c) ==
  IF q.how \notin Predicates THEN q.how
  ELSE IF c.path \notin q.meta.sides THEN "raw"
  ELSE IF q.how = "discrete" THEN "vix" ELSE "zmap"

Asking(how, m, lo, hi) ==
  [how |-> how, meta |-> m, chunks |-> ChunksFor(m.chunks, lo, hi), lo |-> lo, hi |-> hi,
   want |-> Window(RowsOf(Readable(m.chunks)), lo, hi), rows |-> {},
   described |-> Window(RowsOf(Readable(m.chunks)), lo, hi)]

\* A query of the session uses what it attached: the range and point reads,
\* and the searches of a scalar series.
SessionQuery(how, lo, hi) ==
  /\ Idle
  /\ \E m \in attached : query' = {Asking(how, m, lo, hi)}
  /\ UNCHANGED <<reader, caches>>

SessionRead(lo, hi) == SessionQuery("raw", lo, hi)

SessionSearch(how, lo, hi) == kind = "scalar" /\ SessionQuery(how, lo, hi)

\* The same calls of the store, or of a session that did not attach the series.
StoreQuery(how, lo, hi) ==
  /\ Idle
  /\ \E m \in LoadMeta : query' = {Asking(how, m, lo, hi)}
  /\ Loaded
  /\ UNCHANGED <<reader, attached, files, decoded>>

StoreRead(lo, hi) == StoreQuery("raw", lo, hi)

StoreSearch(how, lo, hi) == kind = "scalar" /\ StoreQuery(how, lo, hi)

\* prewarm: the first and the last attached chunk, its file and its sidecar.
Prewarm ==
  /\ Idle
  /\ \E m \in attached :
       query' = {[Asking("prewarm", m, 1, 0) EXCEPT !.chunks =
                    {c \in m.chunks : \/ \A d \in m.chunks : c.start <= d.start
                                      \/ \A d \in m.chunks : d.start <= c.start}]}
  /\ UNCHANGED <<reader, caches>>

\* The chunks in time order: the first one that is left.
NextChunk(q, c) == c \in q.chunks /\ \A d \in q.chunks : c.start <= d.start

\* load_sidecar_path: only sidecars that the manifest lists.
Listed(q, c) == IF c.path \in q.meta.sides THEN SidecarReads(c) ELSE {}

\* What reading chunk c may give: its rows and the caches after it.  A value
\* index answers alone; the rows found through a zone map are read from the
\* path of the chunk, past the cache of open files.
ChunkReads(q, c) ==
  CASE StrategyFor(q, c) = "raw" ->
         {[rows |-> f.rows, files |-> f.files, decoded |-> decoded] : f \in FileReads(c)}
    [] StrategyFor(q, c) = "vix" ->
         {[rows |-> s.rows, files |-> files, decoded |-> s.decoded] : s \in Listed(q, c)}
    [] StrategyFor(q, c) = "zmap" ->
         {[rows |-> f.rows \cap s.rows, files |-> files, decoded |-> s.decoded] :
            f \in {x \in disk : x.path = c.path}, s \in Listed(q, c)}
    [] OTHER ->
         {[rows |-> {}, files |-> f.files, decoded |-> d] :
            f \in FileReads(c),
            d \in IF c.path \in q.meta.sides THEN {s.decoded : s \in SidecarReads(c)}
                  ELSE {decoded}}

\* The next chunk is read and the rows in the window are kept.
QueryChunk ==
  /\ \E q \in query : \E c \in q.chunks : \E r \in ChunkReads(q, c) :
       /\ NextChunk(q, c)
       /\ files' = r.files /\ decoded' = r.decoded
       /\ query' = {[q EXCEPT !.chunks = @ \ {c}, !.rows = @ \cup Window(r.rows, q.lo, q.hi)]}
  /\ UNCHANGED <<reader, handle, base, local, shared, attached>>

\* A file or a sidecar is gone, or was never listed: the query is an error.
QueryFails ==
  /\ \E q \in query : \E c \in q.chunks : NextChunk(q, c) /\ ChunkReads(q, c) = {}
  /\ query' = {}
  /\ UNCHANGED <<reader, handle, base, caches>>

\* All chunks are read: the rows are returned.
QueryDone ==
  /\ \E q \in query : q.chunks = {}
  /\ query' = {}
  /\ UNCHANGED <<reader, handle, base, caches>>

(***************************************************************************)
(* The bridge                                                              *)
(***************************************************************************)
\* open_read_only where there is neither a lock file nor a series: no lock.
BridgeProbe ==
  /\ reader = "bridge" /\ handle = "closed" /\ lock = "none"
  /\ handle' = "probe"
  /\ UNCHANGED <<lock, reader, base, caches, query>>

\* open_read_only: a shared lock, and no pending recovery.
BridgeOpen ==
  /\ reader = "bridge" /\ handle = "closed" /\ lock = "free" /\ ~ marker
  /\ lock' = "read"
  /\ handle' = "ro"
  /\ UNCHANGED <<reader, base, caches, query>>

\* The catalog loads the manifest for scales, coverage and counts.
BridgeMeta ==
  /\ handle # "closed" /\ base = {} /\ OnDisk # {}
  /\ base' = OnDisk
  /\ UNCHANGED <<lock, reader, handle, caches, query>>

\* The store loads it again and reads; coverage and rows go into one response.
BridgeRead(lo, hi) ==
  /\ handle # "closed" /\ query = {} /\ local = {}
  /\ \E b \in base, m \in OnDisk :
       query' = {[Asking("raw", m, lo, hi) EXCEPT
                    !.described = Window(RowsOf(Readable(b.chunks)), lo, hi)]}
  /\ local' = OnDisk
  /\ UNCHANGED <<lock, reader, handle, base, shared, attached, files, decoded>>

read_kline_range(lo, hi) == kind = "kline" /\ BridgeRead(lo, hi)

\* read_scalar_range and read_indicator_range.
read_scalar_range(lo, hi) == kind = "scalar" /\ BridgeRead(lo, hi)

\* The bridge command: only the store loads the manifest.
query_scalar_predicate(how, lo, hi) ==
  /\ kind = "scalar"
  /\ handle # "closed" /\ base = {} /\ query = {} /\ local = {}
  /\ \E m \in OnDisk : query' = {Asking(how, m, lo, hi)}
  /\ local' = OnDisk
  /\ UNCHANGED <<lock, reader, handle, base, shared, attached, files, decoded>>

\* The coverage of one load and the months of the other.
BridgeInventory ==
  /\ handle # "closed" /\ query = {} /\ local = {}
  /\ \E b \in base, m \in OnDisk :
       LET months == month_inventory(m.chunks)
       IN  query' = {[chunks |-> {}, want |-> series_coverage(m.chunks).total,
                      rows |-> MapThenSumSet(LAMBDA k : months[k].record_count, DOMAIN months),
                      described |-> series_coverage(b.chunks).total]}
  /\ local' = OnDisk
  /\ UNCHANGED <<lock, reader, handle, base, shared, attached, files, decoded>>

kline_inventory == kind = "kline" /\ BridgeInventory

\* scalar_inventory and indicator_inventory.
scalar_inventory == kind = "scalar" /\ BridgeInventory

\* The response is built, or there is no such series: the handle is dropped.
BridgeClose ==
  /\ handle # "closed" /\ query = {}
  /\ local # {} \/ OnDisk = {}
  /\ lock' = IF handle = "ro" THEN "free" ELSE lock
  /\ handle' = "closed"
  /\ base' = {} /\ local' = {} /\ files' = {} /\ decoded' = <<>>
  /\ UNCHANGED <<reader, shared, attached, query>>

\* The facade: BacktestStoreView has the session's calls under its own names.
SessionControl ==
  Attach \/ Inventory \/ ResetCaches \/ FullDetach \/ ClearReadCaches \/ Prewarm

SessionReads == \E w \in Windows : SessionRead(w[1], w[2]) \/ StoreRead(w[1], w[2])

SessionSearches ==
  \E how \in Searches, w \in Windows :
    SessionSearch(how, w[1], w[2]) \/ StoreSearch(how, w[1], w[2])

SessionNext == SessionControl \/ SessionReads \/ SessionSearches

BridgeNext ==
  \/ BridgeProbe \/ BridgeOpen \/ BridgeMeta \/ BridgeClose
  \/ kline_inventory \/ scalar_inventory
  \/ \E w \in Windows : \/ read_kline_range(w[1], w[2]) \/ read_scalar_range(w[1], w[2])
                        \/ \E how \in Predicates : query_scalar_predicate(how, w[1], w[2])

Next ==
  \/ WriterNext /\ UNCHANGED readers
  \/ SessionNext /\ UNCHANGED <<writer, handle, base>>
  \/ (QueryChunk \/ QueryFails \/ QueryDone) /\ UNCHANGED writer
  \/ BridgeNext /\ UNCHANGED unlocked

Spec == Init /\ [][Next]_vars

(***************************************************************************)
(* Properties                                                              *)
(***************************************************************************)
\* An answer is exactly what one version of the series holds in the window, the
\* one the session attached, the handle had cached or the command loaded: stale
\* caches and files removed by the writer can make a query fail, never mix two
\* versions or lose rows of one.  A bridge command that holds its shared lock
\* describes that same version (scales, coverage, counts) in its response,
\* although it loads the manifest twice; one that found no store to lock may not.
AnswersAreOneVersion ==
  \A q \in query : q.chunks = {} =>
    /\ q.rows = q.want
    /\ handle # "probe" => q.rows = q.described
=============================================================================
