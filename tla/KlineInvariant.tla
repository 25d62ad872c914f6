--------------------------- MODULE KlineInvariant ---------------------------
(***************************************************************************)
(* The inductive invariant of KlineStore.  Its core is a classification of *)
(* the files in chunks/: a file is settled (an entry names it, or an entry *)
(* superseded it), and at most one file is not: the chunk that the         *)
(* operation in progress, or the one that failed, published without its    *)
(* manifest.  That file is newer than everything tracked in its month and  *)
(* either lies after all of it (an append) or contains it (a compaction),  *)
(* which is why recovery may adopt it without losing a row.                *)
(***************************************************************************)
EXTENDS KlineStore

\* A well-formed chunk: one month, rows inside the range, one per timestamp,
\* and a name that tells its generation (the base file is the only exception).
GoodChunk(c) ==
  /\ c.start <= c.end
  /\ MonthOf[c.start] = c.path.month
  /\ MonthOf[c.end] = c.path.month
  /\ c.path.kind # "base" => c.path.gen = c.gen
  /\ \A r \in c.rows : c.start <= r.ts /\ r.ts <= c.end
  /\ \A r, s \in c.rows : r.ts = s.ts => r = s

GoodDisk ==
  /\ \A f \in disk : GoodChunk(f)
  /\ \A f, g \in disk : f.path = g.path => f = g

\* Entries with disjoint ranges, each with its file and in service.
GoodEntries(C) ==
  /\ \A c \in C : FileOf(c) \in disk /\ c.state # "Replaced"
  /\ ValidChunks(C)

Calm(C) == \A c \in C : c.state \in {"Active", "Sealed"}

Tracked(f, C) == \E c \in C : FileOf(c) = f

Settled(f, C) == Tracked(f, C) \/ Superseded(f, C)

\* f is newer than the entries of its month and holds or follows each of them.
Newer(f, C) ==
  \A c \in C : c.path.month = f.path.month =>
    /\ c.gen < f.gen
    /\ Within(c, f) \/ c.end < f.start

\* Every entry of C is in D, or an entry of D holds what it held.
Improves(C, D) == \A c \in C : \E d \in D : FileOf(d) = FileOf(c) \/ Within(c, d)

AllSettled(C) == \A f \in disk : Settled(f, C)

AtMostOneOrphan(C) ==
  /\ \A f \in disk : Settled(f, C) \/ Newer(f, C)
  /\ \A f, g \in disk : Settled(f, C) \/ Settled(g, C) \/ f = g

InPut   == pc \in {"put_chunk", "put_manifest"}
InMerge == pc \in {"merge_chunk", "merge_manifest"}

\* The chunk an operation is about to publish or has just published.
OutInv ==
  /\ \A d, e \in out : d = e
  /\ InPut \/ InMerge =>
       \A e \in out : /\ GoodChunk(e) /\ e.path.month = month
                      /\ e.state \in {"Active", "Sealed"}
  /\ InPut =>
       \A e \in out : /\ \A c \in manifest : c.id < e.id
                      /\ \A c \in InMonth(manifest, month) : c.gen < e.gen /\ c.end < e.start
                      /\ e.rows = batch
  /\ InMerge =>
       /\ \A e \in out : \A c \in InMonth(manifest, month) : Within(c, e)
       /\ \A f \in todo : \E c \in InMonth(manifest, month) : FileOf(c) = f
       /\ \A c \in manifest : c.path.month # month => c.state \in {"Active", "Sealed"}
  /\ pc \in {"put_manifest", "merge_manifest"} =>
       /\ \A e \in out : FileOf(e) \in disk
       /\ \A f \in disk : Settled(f, manifest) \/ \E e \in out : FileOf(e) = f

\* What each phase may rely on.
PhaseInv ==
  /\ pc \notin {"idle", "recover", "recover_clear"} => marker
  /\ ~ marker => AllSettled(manifest) /\ Calm(manifest) /\ batch = {}
  /\ pc \in {"register", "put_chunk", "merge", "merge_chunk", "cleanup", "commit",
             "recover_clear"} => AllSettled(manifest)
  /\ pc \in {"register", "put_chunk", "put_manifest", "merge", "cleanup", "commit",
             "recover_clear"} => Calm(manifest)
  /\ pc = "cleanup" => \A f \in todo : Superseded(f, manifest)
  /\ pc \in {"register", "merge", "merge_chunk", "merge_manifest", "cleanup", "commit"} =>
       batch \subseteq VisibleRows

RecoverInv ==
  pc = "recover" =>
    /\ GoodEntries(meta) /\ Calm(meta)
    /\ Improves(manifest, meta)
    /\ todo \subseteq disk
    /\ AtMostOneOrphan(meta)
    /\ \A f \in disk : Settled(f, meta) \/ f \in todo
    /\ ~ changed => meta = manifest

\* The inductive invariant: its consequences are AckedReadable,
\* OneRowPerTimestamp, SettledWhenClean and NextNamesFree.
IInv ==
  /\ TypeOK
  /\ GoodDisk
  /\ GoodEntries(manifest)
  /\ AtMostOneOrphan(manifest)
  /\ OutInv
  /\ PhaseInv
  /\ RecoverInv
  /\ acked \subseteq VisibleRows
=============================================================================
