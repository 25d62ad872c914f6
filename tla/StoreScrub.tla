----------------------------- MODULE StoreScrub -----------------------------
(***************************************************************************)
(* What the read-only inspections of a store report: the validation of a   *)
(* manifest against the files, orphans, overlaps, health and inventories.  *)
(* They take no lock and change nothing, so they are operators on a state  *)
(* of one series: the chunk files dk, the sidecar files ix, whether        *)
(* series.meta exists, its entries C and the chunk paths ss for which it   *)
(* lists a sidecar.                                                        *)
(*                                                                         *)
(* A sidecar file is [path, rows]: the chunk it belongs to and the rows it *)
(* was built from.  A .zmap and a .vix have the same life, which           *)
(* ScalarStore follows for both; here one stands for the pair.             *)
(***************************************************************************)
EXTENDS ChunkCatalog

\* Groups of more than one chunk: an overlap that has to be explained.
overlap_groups(S) ==
  {G \in {OverlapGroup(S, c) : c \in S} : Cardinality(G) > 1}

\* A scanned file disagrees with its entry in a header field.
MetadataMismatch(c, f) ==
  c.id # f.id \/ c.gen # f.gen \/ c.start # f.start \/ c.end # f.end
  \/ Cardinality(c.rows) # Cardinality(f.rows)

\* A sidecar has another number of records than the manifest recorded for it.
\* A put records the rows of the chunk, and a recovery those of the file it found,
\* which ScalarStore's SidecarsMatch shows to be the chunk's: so the rows of the
\* chunk stand for the recorded number.
SidecarIssue(C, x) ==
  \E c \in C : c.path = x.path /\ Cardinality(c.rows) # Cardinality(x.rows)

\* The report on a series without a manifest: everything is untracked.
UntrackedReport(dk, ix) ==
  [manifest_exists |-> FALSE, missing_chunks |-> {}, missing_sidecars |-> {},
   mismatches |-> {}, sidecar_issues |-> {},
   untracked_chunks |-> dk, untracked_sidecars |-> ix,
   overlaps |-> overlap_groups({Scanned(f) : f \in dk})]

\* Each file against the entry that names it, and each entry against the files.
validate_series_dir(dk, ix, exists, C, ss) ==
  IF ~ exists THEN UntrackedReport(dk, ix)
  ELSE [manifest_exists    |-> TRUE,
        missing_chunks     |-> Paths(C) \ Paths(dk),
        missing_sidecars   |-> ss \ Paths(ix),
        mismatches         |-> {f \in dk : \E c \in C : c.path = f.path /\ MetadataMismatch(c, f)},
        sidecar_issues     |-> {x \in ix : x.path \in ss /\ SidecarIssue(C, x)},
        untracked_chunks   |-> {f \in dk : f.path \notin Paths(C)},
        untracked_sidecars |-> {x \in ix : x.path \notin ss},
        overlaps           |-> overlap_groups(C)]

is_clean(v) ==
  /\ v.manifest_exists
  /\ v.missing_chunks = {} /\ v.missing_sidecars = {}
  /\ v.mismatches = {} /\ v.sidecar_issues = {}
  /\ v.untracked_chunks = {} /\ v.untracked_sidecars = {}
  /\ v.overlaps = {}

\* Files that no manifest names.
scan_orphan_artifacts(v) == [chunks |-> v.untracked_chunks, sidecars |-> v.untracked_sidecars]

\* What the scrub says of each overlap between files: its survivor, or none.
scrub_overlaps(dk) ==
  {[group |-> G, winner |-> Survivor(G)] : G \in overlap_groups({Scanned(f) : f \in dk})}

\* validate, list the orphans, look for the marker.
health_summary(v, pending) ==
  [clean            |-> is_clean(v),
   orphans          |-> scan_orphan_artifacts(v),
   overlaps         |-> v.overlaps,
   pending_recovery |-> pending]

(***************************************************************************)
(* Inventories                                                             *)
(***************************************************************************)
Readable(C) == {c \in C : c.state # "Replaced"}

MonthsOf(C) == {c.path.month : c \in C}

\* The number of records behind a set of entries: rows are disjoint.
RecordCount(C) == Cardinality(RowsOf(C))

\* One line per month.
month_inventory(C) ==
  [m \in MonthsOf(C) |->
     [chunk_count  |-> Cardinality(InMonth(C, m)),
      record_count |-> RecordCount(InMonth(C, m)),
      sealed       |-> Cardinality({c \in InMonth(C, m) : c.state = "Sealed"}),
      active       |-> Cardinality({c \in InMonth(C, m) : c.state = "Active"})]]

\* First and last timestamp of the readable chunks, and their records.
series_coverage(C) ==
  [first |-> {c.start : c \in {x \in Readable(C) : \A y \in Readable(C) : x.start <= y.start}},
   last  |-> {c.end : c \in {x \in Readable(C) : \A y \in Readable(C) : y.end <= x.end}},
   total |-> RecordCount(Readable(C))]
=============================================================================
