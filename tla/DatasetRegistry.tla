--------------------------- MODULE DatasetRegistry ---------------------------
(***************************************************************************)
(* The dataset catalog: an SQLite file that several processes open, the    *)
(* dataset roots it points to, and the publication of a dataset version,   *)
(* which first seals the bytes of a root and then binds the version to     *)
(* them in one transaction.                                                *)
(*                                                                         *)
(* One SQL statement is one step (each commits by itself), a transaction   *)
(* is one step (its changes appear at its commit or not at all), and so is *)
(* a check or a seal of a root, each under the lock of that root.  A       *)
(* process may die between any two steps.                                  *)
(*                                                                         *)
(* The bytes of a root are a number, its content; the digest of the bytes  *)
(* is that number.                                                         *)
(***************************************************************************)
EXTENDS Naturals, Sequences, FiniteSets

CONSTANTS Procs,       \* processes with a registry handle
          Ids,         \* dataset ids
          Versions,    \* versions of a dataset, ordered
          Roots,       \* FastK roots
          NoRoot,      \* an empty fastk_root
          Stamps,      \* values of created_at
          LegacyRows,  \* the dataset rows of a catalog of an earlier release
          MaxContent,  \* bound: writes to a root
          MaxTampers,  \* bound: changes of a root behind the engine's back
          MaxCalls,    \* bound: calls per process
          MaxCrashes   \* bound: processes that die

ASSUME VersionAssumption == Versions \subseteq Nat \ {0} /\ Stamps \subseteq Nat
ASSUME RootAssumption == NoRoot \notin Roots
ASSUME BoundAssumption ==
  /\ MaxContent \in Nat
  /\ MaxTampers \in Nat
  /\ MaxCalls \in Nat
  /\ MaxCrashes \in Nat

VARIABLES
  shape,      \* table dataset_manifest: "none", "legacy" (key without version), "current"
  rows,       \* its rows
  inherited,  \* the rows it had when the model starts in an earlier release
  backup,     \* dataset_manifest_legacy_v1: none or one set of rows
  missing,    \* registry tables that lack a column of the current schema
  bindable,   \* table dataset_snapshot exists
  snapshots,  \* its rows
  lineage,    \* the rows of feature_registry and factor_registry
  content,    \* the bytes of each root, 0 when it holds no series
  sealed,     \* the digest in each root's snapshot file, 0 without one
  pc,         \* per process: "closed", "idle", or the next step of its call
  arg,        \* per process: the record, or key and root, of its call
  todo,       \* per process: registry tables its open has still to check
  got,        \* per process: the row or the binding its call has read
  since,      \* per process: the publications acknowledged when its call began
  out,        \* per process: the outcome of its last call
  published,  \* the publications acknowledged to their callers
  calls,      \* per process: calls so far
  tampers,    \* changes of roots behind the engine's back so far
  crashes,    \* processes that died so far
  disturbed   \* history: two processes have met over a catalog that had to be
              \* migrated, or one has died in the middle of it

tables  == <<shape, rows, inherited, backup, missing, bindable, snapshots, lineage>>
files   == <<content, sealed>>
locals  == <<arg, todo, got, since>>
counted == <<calls, tampers, crashes, disturbed>>
vars    == <<tables, files, pc, locals, out, published, counted>>

\* What a row of dataset_manifest says; source, market, time range and schema
\* version are descriptions that no operation looks at after validate().
Record == [id : Ids, version : Versions, root : Roots \cup {NoRoot},
           digest : 0..MaxContent, status : {"draft", "sealed"}, at : Stamps]

\* The row of dataset_snapshot, fixed for ever.
Binding == [id : Ids, version : Versions, root : Roots, digest : 1..MaxContent]

Registries == {"feature_registry", "factor_registry"}

\* The row of the one output in feature_registry or factor_registry, and its
\* input; version 0 is the default '' of a column that a migration adds.
Lineage == [table : Registries, id : Ids, version : Versions \cup {0}]

SameKey(a, b) == a.id = b.id /\ a.version = b.version

\* DatasetManifestRecord::validate: required fields are not empty.
Valid(rec) == rec.root # NoRoot

\* An outcome; res is "ok", "none", or the reason of a refusal.
Result(op, key, res, root, bytes) ==
  [op |-> op, id |-> key.id, version |-> key.version, res |-> res,
   root |-> root, bytes |-> bytes]

NoOutcome == [op |-> "none", res |-> "none"]

\* An earlier release kept one row per dataset id.
ASSUME LegacyAssumption ==
  /\ LegacyRows \subseteq Record
  /\ \A r, q \in LegacyRows : r.id = q.id => r = q

\* The catalog file is new, or in use already, or of an earlier release.
Init ==
  /\ shape \in {"none", "legacy", "current"}
  /\ rows = IF shape = "legacy" THEN LegacyRows ELSE {}
  /\ inherited = rows
  /\ backup = {}
  /\ missing = IF shape = "legacy" THEN Registries ELSE {}
  /\ bindable = (shape = "current")
  /\ snapshots = {}
  /\ lineage = IF shape = "legacy"
               THEN [table : Registries, id : Ids, version : {0}] ELSE {}
  /\ content = [r \in Roots |-> 0]
  /\ sealed = [r \in Roots |-> 0]
  /\ pc = [p \in Procs |-> "closed"]
  /\ arg = [p \in Procs |-> <<>>]
  /\ todo = [p \in Procs |-> <<>>]
  /\ got = [p \in Procs |-> {}]
  /\ since = [p \in Procs |-> {}]
  /\ out = [p \in Procs |-> NoOutcome]
  /\ published = {}
  /\ calls = [p \in Procs |-> 0]
  /\ tampers = 0
  /\ crashes = 0
  /\ disturbed = FALSE

-----------------------------------------------------------------------------
(* Queries of the catalog. *)

\* snapshot_binding: the binding of a version, none or one.
snapshot_binding(key) == {b \in snapshots : SameKey(b, key)}

\* get_dataset: the row of a version, none or one.
get_dataset(key) == {r \in rows : SameKey(r, key)}

\* get_latest_dataset: ORDER BY created_at DESC, version DESC LIMIT 1.
Newer(a, b) == a.at > b.at \/ (a.at = b.at /\ a.version >= b.version)

get_latest_dataset(id) ==
  {r \in rows : r.id = id /\ \A q \in rows : q.id = id => Newer(r, q)}

\* Mutants: the statement without its WHERE, and one that leaves any existing
\* row alone.
NeverFrozen(rec) == FALSE

AlwaysFrozen(rec) == get_dataset(rec) # {}

\* WHERE NOT EXISTS (a binding): the statement changes no row.
Frozen(rec) == get_dataset(rec) # {} /\ snapshot_binding(rec) # {}

\* INSERT ... ON CONFLICT DO UPDATE.
Upserted(rec) == IF Frozen(rec) THEN rows ELSE (rows \ get_dataset(rec)) \cup {rec}

\* get_feature, list_features, list_features_for_dataset read these rows, and
\* the factor queries those.
list_features == {l \in lineage : l.table = "feature_registry"}

list_factors == {l \in lineage : l.table = "factor_registry"}

\* Mutant: the digest of the binding is not compared.
VerifySnapshotMutant(root, expected) ==
  sealed[root] # 0 /\ content[root] = sealed[root]

\* verify_snapshot: the snapshot file is there, the bytes are those it lists,
\* and its digest is the pinned one, if one is given.
verify_snapshot(root, expected) ==
  /\ sealed[root] # 0
  /\ content[root] = sealed[root]
  /\ expected # {} => expected = {sealed[root]}

-----------------------------------------------------------------------------
(* Steps of a process. *)

Goto(p, label) == pc' = [pc EXCEPT ![p] = label]

\* The end of a call of an open handle: its outcome is recorded and its locals
\* are gone.
Return(p, result) ==
  /\ Goto(p, "idle")
  /\ out' = [out EXCEPT ![p] = result]
  /\ arg' = [arg EXCEPT ![p] = <<>>]
  /\ got' = [got EXCEPT ![p] = {}]

\* A call that takes more than one step has no outcome meanwhile.
Proceed(p, label) ==
  /\ Goto(p, label)
  /\ out' = [out EXCEPT ![p] = NoOutcome]

\* The end of an open that failed: the handle does not exist.
OpenFails(p) ==
  /\ Goto(p, "closed")
  /\ UNCHANGED <<tables, files, locals, out, published, counted>>

Migrating(p) == pc[p] \in {"rename", "recreate", "copy", "drop"}

\* Another process is at work on a catalog of an earlier release.  Nothing in
\* the code keeps a second open from starting then.
Met(p) == \E q \in Procs \ {p} : Migrating(q) \/ (shape = "legacy" /\ pc[q] # "closed")

\* DatasetRegistry::open, up to the first look at the schema.
OpenBegin(p) ==
  /\ pc[p] = "closed"
  /\ calls[p] < MaxCalls
  /\ calls' = [calls EXCEPT ![p] = @ + 1]
  /\ disturbed' = (disturbed \/ Met(p))
  /\ Goto(p, "tables")
  /\ UNCHANGED <<tables, files, locals, out, published, tampers, crashes>>

\* ensure_dataset_manifest_schema asks whether there is a table...
TableExists(p) ==
  /\ pc[p] = "tables"
  /\ Goto(p, IF shape = "none" THEN "create" ELSE "keyed")
  /\ UNCHANGED <<tables, files, locals, out, published, counted>>

\* ... and then for its primary key, which is empty when the table has been
\* renamed in between.
PrimaryKey(p) ==
  /\ pc[p] = "keyed"
  /\ Goto(p, IF shape = "current" THEN "index" ELSE "rename")
  /\ UNCHANGED <<tables, files, locals, out, published, counted>>

\* Mutant: the legacy table is dropped without having been copied.
CreateTableMutant(p) ==
  /\ pc[p] \in {"create", "recreate"}
  /\ shape' = IF shape = "none" THEN "current" ELSE shape
  /\ Goto(p, IF pc[p] = "create" THEN "index" ELSE "drop")
  /\ UNCHANGED <<rows, inherited, backup, missing, bindable, snapshots, lineage,
                 files, locals, out, published, counted>>

\* create_dataset_manifest_table: CREATE TABLE IF NOT EXISTS, for a new file
\* or after the rename of a legacy table.
CreateTable(p) ==
  /\ pc[p] \in {"create", "recreate"}
  /\ shape' = IF shape = "none" THEN "current" ELSE shape
  /\ Goto(p, IF pc[p] = "create" THEN "index" ELSE "copy")
  /\ UNCHANGED <<rows, inherited, backup, missing, bindable, snapshots, lineage,
                 files, locals, out, published, counted>>

\* ALTER TABLE dataset_manifest RENAME TO dataset_manifest_legacy_v1.
RenameLegacy(p) ==
  /\ pc[p] = "rename"
  /\ \/ /\ shape # "none" /\ backup = {}
        /\ backup' = {rows}
        /\ rows' = {}
        /\ shape' = "none"
        /\ Goto(p, "recreate")
        /\ UNCHANGED <<inherited, missing, bindable, snapshots, lineage,
                       files, locals, out, published, counted>>
     \/ /\ shape = "none" \/ backup # {}
        /\ OpenFails(p)

\* INSERT OR REPLACE INTO dataset_manifest SELECT ... FROM the legacy table.
CopyLegacy(p) ==
  /\ pc[p] = "copy"
  /\ \/ /\ shape # "none" /\ backup # {}
        /\ LET old == UNION backup IN
           rows' = {r \in rows : ~ \E q \in old : SameKey(q, r)} \cup old
        /\ Goto(p, "drop")
        /\ UNCHANGED <<shape, inherited, backup, missing, bindable, snapshots,
                       lineage, files, locals, out, published, counted>>
     \/ /\ shape = "none" \/ backup = {}
        /\ OpenFails(p)

\* DROP TABLE dataset_manifest_legacy_v1.
DropLegacy(p) ==
  /\ pc[p] = "drop"
  /\ \/ /\ backup # {}
        /\ backup' = {}
        /\ Goto(p, "index")
        /\ UNCHANGED <<shape, rows, inherited, missing, bindable, snapshots,
                       lineage, files, locals, out, published, counted>>
     \/ /\ backup = {}
        /\ OpenFails(p)

\* CREATE INDEX IF NOT EXISTS, which needs the table.
CreateIndex(p) ==
  /\ pc[p] = "index"
  /\ \/ /\ shape # "none"
        /\ Goto(p, "registries")
        /\ UNCHANGED <<tables, files, locals, out, published, counted>>
     \/ /\ shape = "none"
        /\ OpenFails(p)

\* ensure_feature_registry_schema, then ensure_factor_registry_schema:
\* CREATE TABLE IF NOT EXISTS each.
EnsureRegistries(p) ==
  /\ pc[p] = "registries"
  /\ todo' = [todo EXCEPT ![p] = <<"feature_registry", "factor_registry">>]
  /\ Goto(p, "columns")
  /\ UNCHANGED <<tables, files, arg, got, since, out, published, counted>>

\* add_text_column_if_missing: the look at the columns...
CheckColumns(p) ==
  /\ pc[p] = "columns"
  /\ IF todo[p] = <<>>
     THEN Goto(p, "snapshot") /\ UNCHANGED todo
     ELSE IF Head(todo[p]) \in missing
     THEN Goto(p, "alter") /\ UNCHANGED todo
     ELSE todo' = [todo EXCEPT ![p] = Tail(@)] /\ UNCHANGED pc
  /\ UNCHANGED <<tables, files, arg, got, since, out, published, counted>>

\* ... and the ALTER TABLE, which fails when another process was faster.
AddColumn(p) ==
  /\ pc[p] = "alter"
  /\ \/ /\ Head(todo[p]) \in missing
        /\ missing' = missing \ {Head(todo[p])}
        /\ Goto(p, "columns")
        /\ UNCHANGED <<shape, rows, inherited, backup, bindable, snapshots,
                       lineage, files, locals, out, published, counted>>
     \/ /\ Head(todo[p]) \notin missing
        /\ OpenFails(p)

\* CREATE TABLE IF NOT EXISTS dataset_snapshot: the handle is ready.
OpenEnd(p) ==
  /\ pc[p] = "snapshot"
  /\ bindable' = TRUE
  /\ Goto(p, "idle")
  /\ UNCHANGED <<shape, rows, inherited, backup, missing, snapshots, lineage,
                 files, locals, out, published, counted>>

-----------------------------------------------------------------------------
(* Calls of an open handle.  A call whose first statement finds
   dataset_manifest renamed by a migration fails and changes nothing: it is
   left out. *)

CallBegin(p) ==
  /\ pc[p] = "idle"
  /\ calls[p] < MaxCalls
  /\ calls' = [calls EXCEPT ![p] = @ + 1]
  /\ since' = [since EXCEPT ![p] = published]
  /\ UNCHANGED <<todo, tampers, crashes, disturbed>>

\* upsert_dataset: the statement; a row whose version is bound does not change.
UpsertDataset(p, rec) ==
  /\ CallBegin(p)
  /\ shape # "none"
  /\ rows' = IF Valid(rec) THEN Upserted(rec) ELSE rows
  /\ \/ /\ ~Valid(rec)
        /\ Return(p, Result("upsert", rec, "invalid", NoRoot, 0))
     \/ /\ Valid(rec) /\ ~Frozen(rec)
        /\ Return(p, Result("upsert", rec, "ok", NoRoot, 0))
     \/ /\ Valid(rec) /\ Frozen(rec)
        /\ Proceed(p, "compare")
        /\ arg' = [arg EXCEPT ![p] = rec]
        /\ UNCHANGED got
  /\ UNCHANGED <<shape, inherited, backup, missing, bindable, snapshots, lineage,
                 files, published>>

\* ... and, when no row changed, the look at the row: the call is refused
\* unless it is the same already, and fails when a migration has just renamed
\* the table.
UpsertCompare(p) ==
  /\ pc[p] = "compare"
  /\ Return(p, Result("upsert", arg[p],
                      CASE shape = "none"   -> "no table"
                        [] arg[p] \in rows -> "ok"
                        [] OTHER            -> "refused", NoRoot, 0))
  /\ UNCHANGED <<tables, files, todo, since, published, counted>>

\* INSERT ... ON CONFLICT DO UPDATE of the one output of a table.
UpsertOutput(p, row) ==
  /\ CallBegin(p)
  /\ row.table \notin missing
  /\ lineage' = {l \in lineage : l.table # row.table} \cup {row}
  /\ Return(p, Result("output", row, "ok", NoRoot, 0))
  /\ UNCHANGED <<shape, rows, inherited, backup, missing, bindable, snapshots,
                 files, published>>

upsert_feature(p, key) ==
  UpsertOutput(p, [table |-> "feature_registry", id |-> key.id, version |-> key.version])

upsert_factor(p, key) ==
  UpsertOutput(p, [table |-> "factor_registry", id |-> key.id, version |-> key.version])

\* publish_dataset, up to what it does about an existing binding.
PublishBegin(p, rec) ==
  /\ CallBegin(p)
  /\ LET bound == snapshot_binding(rec) IN
     \/ /\ ~Valid(rec)
        /\ Return(p, Result("publish", rec, "invalid", NoRoot, 0))
     \/ /\ Valid(rec) /\ bound = {}
        /\ Proceed(p, "seal")
        /\ arg' = [arg EXCEPT ![p] = rec]
        /\ UNCHANGED got
     \/ /\ Valid(rec) /\ \E b \in bound : b.root # rec.root
        /\ Return(p, Result("publish", rec, "refused", NoRoot, 0))
     \/ /\ Valid(rec) /\ bound # {} /\ \A b \in bound : b.root = rec.root
        /\ Proceed(p, "verify")
        /\ arg' = [arg EXCEPT ![p] = rec]
        /\ got' = [got EXCEPT ![p] = bound]
  /\ UNCHANGED <<tables, files, published>>

\* The version is bound to this root already: verify its bytes and answer with
\* the row of the catalog.
PublishVerify(p) ==
  /\ pc[p] = "verify"
  /\ LET key   == arg[p]
         holds == /\ verify_snapshot(key.root, {b.digest : b \in got[p]})
                  /\ get_dataset(key) # {}
     IN /\ published' = IF holds THEN published \cup got[p] ELSE published
        /\ Return(p, Result("publish", key, IF holds THEN "ok" ELSE "damaged",
                            key.root, content[key.root]))
  /\ UNCHANGED <<tables, files, todo, since, counted>>

\* The binding of a record to the bytes of its root, and its row as published:
\* status and checksum are those of the seal.
Bound(rec, digest) == [id |-> rec.id, version |-> rec.version,
                       root |-> rec.root, digest |-> digest]

Sealed(rec, digest) == [rec EXCEPT !.status = "sealed", !.digest = digest]

\* seal_snapshot: a root that is sealed already is only verified.
SealCheck(p) ==
  /\ pc[p] = "seal"
  /\ LET root == arg[p].root IN
     \/ /\ sealed[root] = 0
        /\ Goto(p, "sealing")
        /\ UNCHANGED <<arg, got, out>>
     \/ /\ sealed[root] # 0 /\ verify_snapshot(root, {})
        /\ Goto(p, "commit")
        /\ got' = [got EXCEPT ![p] = {Bound(arg[p], sealed[root])}]
        /\ UNCHANGED <<arg, out>>
     \/ /\ sealed[root] # 0 /\ ~verify_snapshot(root, {})
        /\ Return(p, Result("publish", arg[p], "damaged", NoRoot, 0))
  /\ UNCHANGED <<tables, files, todo, since, published, counted>>

\* seal_snapshot under the write lock of the root: startup recovery, scrub,
\* finalization, snapshot file.  A root that is sealed meanwhile or holds no
\* series is refused, and so is one with issues or with transitional chunks,
\* which is not visible here and may be the case at any time.
SealWrite(p) ==
  /\ pc[p] = "sealing"
  /\ LET root == arg[p].root IN
     \/ /\ sealed[root] = 0 /\ content[root] # 0
        /\ sealed' = [sealed EXCEPT ![root] = content[root]]
        /\ got' = [got EXCEPT ![p] = {Bound(arg[p], content[root])}]
        /\ Goto(p, "commit")
        /\ UNCHANGED <<arg, out>>
     \/ /\ Return(p, Result("publish", arg[p], "unsealable", NoRoot, 0))
        /\ UNCHANGED sealed
  /\ UNCHANGED <<tables, content, todo, since, published, counted>>

\* Mutant: the binding that another process has made meanwhile is overwritten.
PublishCommitMutant(p) ==
  /\ pc[p] = "commit"
  /\ \E new \in got[p] :
       /\ snapshots' = snapshots \cup {new}
       /\ rows' = (rows \ get_dataset(arg[p])) \cup {Sealed(arg[p], new.digest)}
       /\ published' = published \cup {new}
       /\ Return(p, Result("publish", arg[p], "ok", arg[p].root, new.digest))
  /\ UNCHANGED <<shape, inherited, backup, missing, bindable, lineage,
                 files, todo, since, counted>>

\* The transaction: upsert_dataset, INSERT INTO dataset_snapshot, commit.
\* When another process has bound the version meanwhile, the upsert or the
\* primary key of dataset_snapshot refuses it and everything is rolled back; so
\* it is when a migration has just renamed the table.
PublishCommit(p) ==
  /\ pc[p] = "commit"
  /\ \E new \in got[p] :
       LET rec == arg[p] IN
       \/ /\ shape # "none" /\ snapshot_binding(rec) = {}
          /\ rows' = Upserted(Sealed(rec, new.digest))
          /\ snapshots' = snapshots \cup {new}
          /\ published' = published \cup {new}
          /\ Return(p, Result("publish", rec, "ok", rec.root, new.digest))
       \/ /\ shape # "none" /\ snapshot_binding(rec) # {}
          /\ Return(p, Result("publish", rec, "refused", NoRoot, 0))
          /\ UNCHANGED <<rows, snapshots, published>>
       \/ /\ shape = "none"
          /\ Return(p, Result("publish", rec, "no table", NoRoot, 0))
          /\ UNCHANGED <<rows, snapshots, published>>
  /\ UNCHANGED <<shape, inherited, backup, missing, bindable, lineage,
                 files, todo, since, counted>>

\* dataset_ref, resolve_fastk_root (want = NoRoot) and resolve_dataset_ref: the
\* row is read first.
ResolveBegin(p, key, want) ==
  /\ CallBegin(p)
  /\ shape # "none"
  /\ arg' = [arg EXCEPT ![p] = [id |-> key.id, version |-> key.version, root |-> want]]
  /\ got' = [got EXCEPT ![p] = get_dataset(key)]
  /\ Proceed(p, "binding")
  /\ UNCHANGED <<tables, files, published>>

\* What resolve_dataset_ref says of a root that the catalog answers with.
Answer(want, root) == IF want \in {NoRoot, root} THEN "ok" ELSE "mismatch"

\* ... then the binding, which must agree with the row that was read.
ResolveBinding(p) ==
  /\ pc[p] = "binding"
  /\ LET key   == arg[p]
         bound == snapshot_binding(key)
         roots == {r.root : r \in got[p]}
     IN \/ /\ bound = {} /\ got[p] = {}
           /\ Return(p, Result("resolve", key, "none", NoRoot, 0))
        \/ /\ bound = {}
           /\ \E root \in roots :
                Return(p, Result("resolve", key, Answer(key.root, root), root, 0))
        \/ /\ bound # {} /\ roots # {b.root : b \in bound}
           /\ Return(p, Result("resolve", key, "torn", NoRoot, 0))
        \/ /\ bound # {} /\ roots = {b.root : b \in bound}
           /\ Goto(p, "pinned")
           /\ got' = [got EXCEPT ![p] = bound]
           /\ UNCHANGED <<arg, out>>
  /\ UNCHANGED <<tables, files, todo, since, published, counted>>

\* ... and the bytes of a bound root, against the digest of the binding.
ResolveVerify(p) ==
  /\ pc[p] = "pinned"
  /\ \E b \in got[p] :
       Return(p, Result("resolve", arg[p],
                        IF verify_snapshot(b.root, {b.digest})
                        THEN Answer(arg[p].root, b.root) ELSE "damaged",
                        b.root, content[b.root]))
  /\ UNCHANGED <<tables, files, todo, since, published, counted>>

\* resolve_latest_fastk_root: one statement, nothing verified.
ResolveLatest(p, id) ==
  /\ CallBegin(p)
  /\ shape # "none"
  /\ \/ /\ get_latest_dataset(id) = {}
        /\ Return(p, Result("latest", [id |-> id, version |-> 0], "none", NoRoot, 0))
     \/ \E r \in get_latest_dataset(id) :
          Return(p, Result("latest", r, "ok", r.root, 0))
  /\ UNCHANGED <<tables, files, published>>

-----------------------------------------------------------------------------
(* What happens around the registry. *)

\* A store writes to a root; StoreWriteLock::acquire refuses a sealed one.
WriteRoot(r) ==
  /\ sealed[r] = 0
  /\ content[r] < MaxContent
  /\ content' = [content EXCEPT ![r] = @ + 1]
  /\ UNCHANGED <<tables, sealed, pc, locals, out, published, counted>>

\* Something else changes the files of a sealed root, and perhaps replaces its
\* snapshot file by one that lists the files as they are now.
Tamper(r) ==
  /\ sealed[r] # 0
  /\ tampers < MaxTampers
  /\ tampers' = tampers + 1
  /\ LET bytes == IF content[r] = MaxContent THEN 1 ELSE content[r] + 1 IN
     /\ content' = [content EXCEPT ![r] = bytes]
     /\ sealed' \in {sealed, [sealed EXCEPT ![r] = bytes]}
  /\ UNCHANGED <<tables, pc, locals, out, published, calls, crashes, disturbed>>

\* A process dies; SQLite rolls back what it had not committed.
Crash(p) ==
  /\ pc[p] # "closed"
  /\ crashes < MaxCrashes
  /\ crashes' = crashes + 1
  /\ disturbed' = (disturbed \/ pc[p] \in {"recreate", "copy"})
  /\ Proceed(p, "closed")
  /\ arg' = [arg EXCEPT ![p] = <<>>]
  /\ todo' = [todo EXCEPT ![p] = <<>>]
  /\ got' = [got EXCEPT ![p] = {}]
  /\ since' = [since EXCEPT ![p] = {}]
  /\ UNCHANGED <<tables, files, published, calls, tampers>>

-----------------------------------------------------------------------------

\* What callers submit: drafts.  (A legacy row may say "sealed", which means
\* nothing without a binding.)
Submission == {r \in Record : r.digest = 0 /\ r.status = "draft"}

Key == [id : Ids, version : Versions]

Opening(p) ==
  \/ OpenBegin(p) \/ TableExists(p) \/ PrimaryKey(p) \/ CreateTable(p) \/ RenameLegacy(p)
  \/ CopyLegacy(p) \/ DropLegacy(p) \/ CreateIndex(p) \/ EnsureRegistries(p)
  \/ CheckColumns(p) \/ AddColumn(p) \/ OpenEnd(p)

Publishing(p) ==
  \/ \E rec \in Submission : PublishBegin(p, rec)
  \/ PublishVerify(p) \/ SealCheck(p) \/ SealWrite(p) \/ PublishCommit(p)

Resolving(p) ==
  \/ \E key \in Key, want \in Roots \cup {NoRoot} : ResolveBegin(p, key, want)
  \/ ResolveBinding(p) \/ ResolveVerify(p)
  \/ \E id \in Ids : ResolveLatest(p, id)

Next ==
  \/ \E p \in Procs :
       \/ Opening(p) \/ Publishing(p) \/ Resolving(p) \/ Crash(p) \/ UpsertCompare(p)
       \/ \E rec \in Submission : UpsertDataset(p, rec)
       \/ \E key \in Key : upsert_feature(p, key) \/ upsert_factor(p, key)
  \/ \E r \in Roots : WriteRoot(r) \/ Tamper(r)

Spec == Init /\ [][Next]_vars

-----------------------------------------------------------------------------
(* Correctness. *)

Labels == {"closed", "idle", "tables", "keyed", "create", "rename", "recreate",
           "copy", "drop", "index", "registries", "columns", "alter", "snapshot",
           "compare", "verify", "seal", "sealing", "commit", "binding", "pinned"}

\* The labels of a handle whose open() has returned.
Ready == {"idle", "compare", "verify", "seal", "sealing", "commit", "binding", "pinned"}

\* Every table holds rows of its kind, one per key, and every root has a
\* content and perhaps a seal.
TypeOK ==
  /\ shape \in {"none", "legacy", "current"}
  /\ rows \subseteq Record /\ inherited \subseteq Record
  /\ \A old \in backup : old \subseteq Record
  /\ missing \subseteq Registries
  /\ bindable \in BOOLEAN
  /\ snapshots \subseteq Binding /\ published \subseteq Binding
  /\ lineage \subseteq Lineage
  /\ content \in [Roots -> 0..MaxContent]
  /\ sealed \in [Roots -> 0..MaxContent]
  /\ pc \in [Procs -> Labels]
  /\ disturbed \in BOOLEAN

\* Whatever publishers race, retry or die, a version is bound at most once, and
\* its row in dataset_manifest is the sealed row that was published with it
\* (publish_dataset, upsert_dataset).  A second open that renames the table once
\* more takes the bound rows away with it, and what it copies back may be older
\* than a publication of the meantime: the row is promised as long as no
\* migration was disturbed.
BoundRowsAgree ==
  /\ \A a, b \in snapshots : SameKey(a, b) => a = b
  /\ ~disturbed => \A b \in snapshots : \E r \in rows :
       /\ get_dataset(b) = {r}
       /\ r.root = b.root /\ r.digest = b.digest /\ r.status = "sealed"

\* A resolve that begins after a publication was acknowledged answers with the
\* published root, and only while its bytes are the published bytes, also when
\* files or the snapshot file were replaced meanwhile (dataset_ref,
\* verify_snapshot with the pinned digest).
ResolveIsPinned ==
  \A p \in Procs :
    out[p].op = "resolve" /\ out[p].res = "ok" =>
      \A b \in since[p] :
        SameKey(b, out[p]) => out[p].root = b.root /\ out[p].bytes = b.digest

\* A publisher or writer that is told that the binding cannot change is told
\* the truth: the version is bound, not merely recorded as a draft or sealed by
\* an attempt that died before its commit (upsert_dataset, publish_dataset).
RefusalIsTrue ==
  \A p \in Procs :
    out[p].res = "refused" =>
      \E b \in snapshots : SameKey(b, out[p])

\* What an earlier release has recorded is never lost, however its migration is
\* overlapped or interrupted: it is in dataset_manifest or waits in the table
\* dataset_manifest_legacy_v1.  A handle that open() has returned finds the other
\* tables in their current form with their rows; it finds dataset_manifest too,
\* with every inherited dataset, unless the migration, which is no transaction,
\* was disturbed (init, ensure_dataset_manifest_schema).
OpenIsReady ==
  /\ \A old \in inherited : \E kept \in rows \cup UNION backup : SameKey(kept, old)
  /\ \A p \in Procs : pc[p] \in Ready =>
       /\ shape # "legacy" /\ bindable /\ missing = {}
       /\ inherited # {} => list_features # {} /\ list_factors # {}
       /\ ~disturbed => shape = "current" /\ \A old \in inherited : get_dataset(old) # {}

\* No step changes or removes a binding; nor, as long as no migration was
\* disturbed, the row of a bound version ("sealed dataset binding cannot change;
\* publish a new version").
BindingsAreFinal ==
  [][\A b \in snapshots :
       /\ b \in snapshots'
       /\ ~disturbed =>
            {r \in rows' : SameKey(r, b)} = {r \in rows : SameKey(r, b)}]_vars

=============================================================================
