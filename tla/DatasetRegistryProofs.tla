------------------------ MODULE DatasetRegistryProofs ------------------------
(***************************************************************************)
(* What the catalog promises about published versions, for any number of   *)
(* processes, datasets, versions and roots, and any crashes and damage;    *)
(* what it promises only while the migration of an old catalog is left     *)
(* alone says so in the property (~disturbed).                             *)
(***************************************************************************)
EXTENDS DatasetRegistry, TLAPS

\* The arrays of the model have one place per process.
Arrays ==
  /\ DOMAIN pc = Procs /\ DOMAIN arg = Procs /\ DOMAIN got = Procs
  /\ DOMAIN since = Procs /\ DOMAIN out = Procs

\* Unless a migration was disturbed, nothing is bound while the catalog is old
\* or is being migrated, and whoever migrates it is alone.
Alone ==
  /\ shape = "legacy" =>
       /\ snapshots = {}
       /\ \A p \in Procs : pc[p] \in {"closed", "tables", "keyed", "rename"}
       /\ \A p, q \in Procs : pc[p] # "closed" /\ pc[q] # "closed" => p = q
  /\ \A p \in Procs : Migrating(p) =>
       snapshots = {} /\ \A q \in Procs \ {p} : pc[q] = "closed"
  /\ \A p \in Procs : pc[p] = "keyed" => shape # "none"

MigrationInv ==
  /\ shape \in {"none", "legacy", "current"}
  /\ disturbed \in BOOLEAN
  /\ ~disturbed => Alone

\* What process p holds: a publisher the record it was given, and at its commit
\* the binding made from it; a verifier bindings that the catalog has.
CallOf(p) ==
  /\ pc[p] \in {"seal", "sealing", "commit"} => arg[p] \in Record
  /\ pc[p] = "commit" => \E d \in {b.digest : b \in got[p]} : got[p] = {Bound(arg[p], d)}
  /\ pc[p] = "compare" => \E b \in snapshots : SameKey(b, arg[p])
  /\ pc[p] \in {"verify", "pinned"} =>
       got[p] \subseteq snapshots /\ \A b \in got[p] : SameKey(b, arg[p])

\* What process p was told is true of the catalog.
ToldOf(p) ==
  /\ since[p] \subseteq published
  /\ out[p].res = "refused" => \E b \in snapshots : SameKey(b, out[p])
  /\ out[p].op = "resolve" /\ out[p].res = "ok" =>
       \A b \in since[p] :
         SameKey(b, out[p]) => out[p].root = b.root /\ out[p].bytes = b.digest

\* The inductive invariant of the catalog.
RegistryInv ==
  /\ Arrays
  /\ MigrationInv
  /\ published \subseteq snapshots
  /\ BoundRowsAgree
  /\ \A p \in Procs : CallOf(p) /\ ToldOf(p)

\* What process p has brought about in the tables, whoever else is at work.
SchemaOf(p) ==
  /\ pc[p] \notin {"closed", "tables", "keyed", "rename"} => shape # "legacy"
  /\ pc[p] \in {"columns", "alter"} =>
       /\ todo[p] \in {<<"feature_registry", "factor_registry">>, <<"factor_registry">>, <<>>}
       /\ todo[p] = <<"factor_registry">> => "feature_registry" \notin missing
       /\ todo[p] = <<>> => missing = {}
  /\ pc[p] = "alter" => todo[p] # <<>>
  /\ pc[p] \in {"snapshot"} \cup Ready => missing = {}
  /\ pc[p] \in Ready => bindable

\* How far it has brought dataset_manifest, when no migration was disturbed.
ShapeOf(p) ==
  /\ pc[p] = "rename" => shape = "legacy"
  /\ pc[p] = "recreate" => shape = "none"
  /\ pc[p] \in {"recreate", "copy"} => backup = {inherited}
  /\ pc[p] \in {"copy", "drop", "index", "registries", "columns", "alter", "snapshot"} \cup Ready =>
       shape = "current"

\* The labels of a migration whose rows are in the backup.
Moving == {"recreate", "copy", "drop"}

\* A migration that has renamed the table is the only one, and drops the backup
\* when it has copied every row.
MovingOf(p) ==
  /\ pc[p] \in Moving => backup # {} /\ \A q \in Procs : pc[q] \in Moving => q = p
  /\ pc[p] = "drop" => \A old \in UNION backup : \E r \in rows : SameKey(r, old)

\* An inherited row is in the table or in the backup.
Kept == \A old \in inherited : \E kept \in rows \cup UNION backup : SameKey(kept, old)

\* Unless a migration was disturbed it is in the table, except in the middle of
\* the migration.
Present ==
  /\ \A p \in Procs : ShapeOf(p)
  /\ shape = "legacy" => rows = inherited
  /\ (\A p \in Procs : pc[p] \notin {"recreate", "copy"}) =>
       \A old \in inherited : \E r \in rows : SameKey(r, old)

SchemaInv ==
  /\ DOMAIN todo = Procs
  /\ missing \subseteq Registries
  /\ \A p \in Procs : SchemaOf(p)
  /\ inherited # {} => \A t \in Registries : \E l \in lineage : l.table = t

KeptInv == Kept /\ \A p \in Procs : MovingOf(p)

\* A step never changes a binding or, as long as no migration was disturbed, the
\* row of a bound version.
Final ==
  \A b \in snapshots :
    /\ b \in snapshots'
    /\ ~disturbed => {r \in rows' : SameKey(r, b)} = {r \in rows : SameKey(r, b)}

-----------------------------------------------------------------------------
(* The initial state. *)

\* A catalog without bindings satisfies the invariant.
LEMMA InitInv == ASSUME Init PROVE RegistryInv
<1>1. Arrays
  BY DEF Init, Arrays
<1>2. MigrationInv
  BY DEF Init, MigrationInv, Alone, Migrating
<1>3. published \subseteq snapshots /\ BoundRowsAgree
  BY DEF Init, BoundRowsAgree
<1>4. \A p \in Procs : CallOf(p)
  BY DEF Init, CallOf
<1>5. \A p \in Procs : ToldOf(p)
  BY DEF Init, ToldOf, NoOutcome
<1> QED
  BY <1>1, <1>2, <1>3, <1>4, <1>5 DEF RegistryInv

-----------------------------------------------------------------------------
(* Migrations. *)

\* The steps of open() by one process leave migrations exclusive, unless they
\* are the ones that disturb.
LEMMA OpeningMigration ==
  ASSUME RegistryInv, NEW p \in Procs, Opening(p)
  PROVE  (Arrays /\ MigrationInv)' /\ (disturbed => disturbed')
<1> USE DEF RegistryInv, Arrays, MigrationInv, Alone, Migrating, Goto, counted
<1>1. CASE OpenBegin(p)
  BY <1>1 DEF OpenBegin, Met, tables, locals
<1>2. CASE TableExists(p)
  BY <1>2 DEF TableExists, tables, locals
<1>11. CASE PrimaryKey(p)
  BY <1>11 DEF PrimaryKey, tables, locals
<1>3. CASE CreateTable(p)
  BY <1>3 DEF CreateTable, locals
<1>4. CASE RenameLegacy(p)
  BY <1>4 DEF RenameLegacy, OpenFails, tables, locals
<1>5. CASE CopyLegacy(p)
  BY <1>5 DEF CopyLegacy, OpenFails, tables, locals
<1>6. CASE DropLegacy(p)
  BY <1>6 DEF DropLegacy, OpenFails, tables, locals
<1>12. CASE CreateIndex(p)
  BY <1>12 DEF CreateIndex, OpenFails, tables, locals
<1>7. CASE EnsureRegistries(p)
  BY <1>7 DEF EnsureRegistries, tables
<1>8. CASE CheckColumns(p)
  BY <1>8 DEF CheckColumns, tables
<1>9. CASE AddColumn(p)
  BY <1>9 DEF AddColumn, OpenFails, tables, locals
<1>10. CASE OpenEnd(p)
  BY <1>10 DEF OpenEnd, locals
<1> QED
  BY <1>1, <1>2, <1>3, <1>4, <1>5, <1>6, <1>7, <1>8, <1>9, <1>10, <1>11, <1>12 DEF Opening

\* A call of an open handle finds no migration and starts none.
LEMMA CallMigration ==
  ASSUME RegistryInv, NEW p \in Procs, NEW label \in Labels,
         pc[p] \notin {"closed", "tables", "keyed", "rename", "recreate", "copy", "drop"},
         label \notin {"tables", "keyed", "rename", "recreate", "copy", "drop"},
         Goto(p, label), UNCHANGED <<shape, disturbed>>
  PROVE  MigrationInv'
<1> USE DEF RegistryInv, Arrays, MigrationInv, Alone, Migrating, Goto
<1>1. ~disturbed => shape # "legacy" /\ \A q \in Procs : ~Migrating(q)
  OBVIOUS
<1> QED
  BY <1>1

-----------------------------------------------------------------------------
(* The tables. *)

\* Steps that leave the tables of datasets and bindings alone.
LEMMA UnchangedCatalog ==
  ASSUME BoundRowsAgree, UNCHANGED <<rows, snapshots>>, disturbed => disturbed'
  PROVE  BoundRowsAgree' /\ Final
BY DEF BoundRowsAgree, Final, get_dataset, SameKey

\* While nothing is bound there is nothing to keep.
LEMMA UnboundCatalog ==
  ASSUME BoundRowsAgree, ~disturbed => snapshots = {}, UNCHANGED snapshots,
         disturbed \in BOOLEAN, disturbed => disturbed'
  PROVE  BoundRowsAgree' /\ Final
BY DEF BoundRowsAgree, Final

\* An upsert touches the row of its own version, and only while it is unbound.
LEMMA UpsertedKeeps ==
  ASSUME BoundRowsAgree, ~disturbed, NEW rec, NEW b \in snapshots, rows' = Upserted(rec)
  PROVE  {r \in rows' : SameKey(r, b)} = {r \in rows : SameKey(r, b)}
<1>1. CASE SameKey(rec, b)
  <2>1. b \in snapshot_binding(rec)
    BY <1>1 DEF snapshot_binding, SameKey
  <2>2. PICK r \in rows : get_dataset(b) = {r}
    BY DEF BoundRowsAgree
  <2>3. r \in get_dataset(rec)
    BY <1>1, <2>2 DEF get_dataset, SameKey
  <2> QED
    BY <2>1, <2>3 DEF Upserted, Frozen
<1>2. CASE ~SameKey(rec, b)
  BY <1>2 DEF Upserted, Frozen, get_dataset, SameKey
<1> QED
  BY <1>1, <1>2

\* upsert_dataset keeps the rows of bound versions.
LEMMA UpsertCatalog ==
  ASSUME BoundRowsAgree, NEW rec, rows' = Upserted(rec), UNCHANGED <<snapshots, disturbed>>
  PROVE  BoundRowsAgree' /\ Final
<1>1. Final
  BY UpsertedKeeps DEF Final
<1>2. ~disturbed => \A b \in snapshots : get_dataset(b)' = get_dataset(b)
  BY UpsertedKeeps DEF get_dataset
<1>3. ~disturbed => \A b \in snapshots : \A r : get_dataset(b) = {r} => r \in get_dataset(b)' /\ r \in rows'
  BY <1>2 DEF get_dataset
<1> QED
  BY <1>1, <1>2, <1>3 DEF BoundRowsAgree

\* The transaction of publish_dataset binds a version that was not bound to the
\* row that it writes.
LEMMA CommitCatalog ==
  ASSUME RegistryInv, NEW p \in Procs, PublishCommit(p)
  PROVE  BoundRowsAgree' /\ Final
<1> USE DEF RegistryInv
<1> DEFINE rec == arg[p]
<1>1. rec \in Record /\ pc[p] = "commit"
  BY DEF PublishCommit, CallOf
<1>2. PICK new \in got[p] :
        \/ /\ snapshot_binding(rec) = {}
           /\ rows' = Upserted(Sealed(rec, new.digest))
           /\ snapshots' = snapshots \cup {new}
        \/ UNCHANGED <<rows, snapshots>>
  BY DEF PublishCommit
<1>6. UNCHANGED disturbed
  BY DEF PublishCommit, counted
<1>3. new = Bound(rec, new.digest)
  BY <1>1 DEF CallOf, Bound
<1> DEFINE row == Sealed(rec, new.digest)
<1>4. /\ row.id = new.id /\ row.version = new.version /\ row.root = new.root
      /\ row.digest = new.digest /\ row.status = "sealed"
      /\ new.id = rec.id /\ new.version = rec.version
  BY <1>1, <1>3 DEF Sealed, Bound, Record
<1>5. CASE /\ snapshot_binding(rec) = {}
           /\ rows' = Upserted(row)
           /\ snapshots' = snapshots \cup {new}
  <2>1. \A b \in snapshots : ~SameKey(b, new)
    BY <1>4, <1>5 DEF snapshot_binding, SameKey
  <2>2. snapshot_binding(row) = {}
    BY <1>4, <1>5 DEF snapshot_binding, SameKey
  <2>3. rows' = (rows \ get_dataset(row)) \cup {row}
    BY <1>5, <2>2 DEF Upserted, Frozen
  <2>4. get_dataset(new)' = {row}
    BY <1>4, <2>3 DEF get_dataset, SameKey
  <2>5. ~disturbed => \A b \in snapshots : {r \in rows' : SameKey(r, b)} = {r \in rows : SameKey(r, b)}
    BY <1>5, UpsertedKeeps
  <2>6. Final
    BY <1>5, <2>5 DEF Final
  <2>7. ~disturbed => \A b \in snapshots : get_dataset(b)' = get_dataset(b)
    BY <2>5 DEF get_dataset
  <2>8. \A a, b \in snapshots' : SameKey(a, b) => a = b
    BY <1>5, <2>1 DEF BoundRowsAgree, SameKey
  <2>9. ASSUME ~disturbed
        PROVE  \A b \in snapshots : \E r \in rows' :
          /\ get_dataset(b)' = {r}
          /\ r.root = b.root /\ r.digest = b.digest /\ r.status = "sealed"
    <3> TAKE b \in snapshots
    <3>1. PICK r \in rows : /\ get_dataset(b) = {r}
                            /\ r.root = b.root /\ r.digest = b.digest /\ r.status = "sealed"
      BY <2>9 DEF BoundRowsAgree
    <3>2. r \in rows'
      BY <2>7, <2>9, <3>1 DEF get_dataset
    <3> QED
      BY <2>7, <2>9, <3>1, <3>2
  <2> QED
    BY <1>4, <1>5, <1>6, <2>3, <2>4, <2>6, <2>8, <2>9 DEF BoundRowsAgree
<1> QED
  BY <1>2, <1>5, <1>6, UnchangedCatalog

-----------------------------------------------------------------------------
(* The calls. *)

\* A step of one process, or of none, in which bindings and publications only
\* grow, leaves what the others hold and know.
LEMMA OthersKeep ==
  ASSUME NEW q \in Procs, CallOf(q), ToldOf(q),
         pc'[q] = pc[q], arg'[q] = arg[q], got'[q] = got[q], since'[q] = since[q],
         out'[q] = out[q], snapshots \subseteq snapshots', published \subseteq published'
  PROVE  (CallOf(q) /\ ToldOf(q))'
<1>1. CallOf(q)'
  BY DEF CallOf, SameKey, Bound
<1>2. ToldOf(q)'
  BY DEF ToldOf, SameKey
<1> QED
  BY <1>1, <1>2

\* The frame of a call's step: only process p moves, to a label that is none of
\* a migration, and its tables are those of before.
CallFrame(p) ==
  /\ pc[p] \notin {"closed", "tables", "keyed", "rename", "recreate", "copy", "drop"}
  /\ \E label \in Labels \ {"tables", "keyed", "rename", "recreate", "copy", "drop"} : Goto(p, label)
  /\ DOMAIN arg' = Procs /\ DOMAIN got' = Procs /\ DOMAIN since' = Procs /\ DOMAIN out' = Procs
  /\ \A q \in Procs \ {p} : /\ arg'[q] = arg[q] /\ got'[q] = got[q]
                             /\ since'[q] = since[q] /\ out'[q] = out[q]
  /\ UNCHANGED <<shape, disturbed>>
  /\ snapshots \subseteq snapshots' /\ published \subseteq published'

\* What is left to show of a step of a call.
LEMMA CallStep ==
  ASSUME RegistryInv, NEW p \in Procs, CallFrame(p), published' \subseteq snapshots',
         CallOf(p)', ToldOf(p)', BoundRowsAgree' /\ Final
  PROVE  RegistryInv' /\ Final
<1>1. Arrays'
  BY DEF RegistryInv, Arrays, CallFrame, Goto
<1>2. MigrationInv'
  BY CallMigration DEF CallFrame
<1>3. \A q \in Procs : (CallOf(q) /\ ToldOf(q))'
  <2> TAKE q \in Procs
  <2>1. CASE q = p
    BY <2>1
  <2>2. CASE q # p
    <3>1. pc'[q] = pc[q]
      BY <2>2 DEF RegistryInv, Arrays, CallFrame, Goto
    <3> QED
      BY <2>2, <3>1, OthersKeep DEF RegistryInv, CallFrame
  <2> QED
    BY <2>1, <2>2
<1> QED
  BY <1>1, <1>2, <1>3 DEF RegistryInv

\* The upserts.
LEMMA UpsertDatasetStep ==
  ASSUME RegistryInv, NEW p \in Procs, NEW rec \in Submission, UpsertDataset(p, rec)
  PROVE  RegistryInv' /\ Final
<1> USE DEF RegistryInv, Arrays
<1>1. CallFrame(p)
  BY DEF UpsertDataset, CallBegin, Return, Proceed, Goto, CallFrame, Labels, files
<1>2. UNCHANGED <<snapshots, published, disturbed>> /\ since'[p] = published
  BY DEF UpsertDataset, CallBegin
<1>3. CallOf(p)'
  <2>1. CASE pc'[p] = "compare"
    <3>1. snapshot_binding(rec) # {} /\ arg'[p] = rec
      BY <2>1 DEF UpsertDataset, CallBegin, Return, Proceed, Goto, Frozen
    <3> QED
      BY <1>2, <2>1, <3>1 DEF CallOf, snapshot_binding, SameKey
  <2>2. CASE pc'[p] # "compare"
    <3>1. pc'[p] = "idle"
      BY <2>2 DEF UpsertDataset, CallBegin, Return, Proceed, Goto
    <3> QED
      BY <3>1 DEF CallOf
  <2> QED
    BY <2>1, <2>2
<1>4. out'[p].res # "refused" /\ out'[p].op # "resolve"
  BY DEF UpsertDataset, CallBegin, Return, Proceed, NoOutcome, Result
<1>5. ToldOf(p)'
  BY <1>2, <1>4 DEF ToldOf
<1>6. BoundRowsAgree' /\ Final
  <2>1. CASE Valid(rec)
    BY <1>2, <2>1, UpsertCatalog DEF UpsertDataset
  <2>2. CASE ~Valid(rec)
    BY <1>2, <2>2, UnchangedCatalog DEF UpsertDataset
  <2> QED
    BY <2>1, <2>2
<1> QED
  BY <1>1, <1>2, <1>3, <1>5, <1>6, CallStep

\* A refusal comes after the look at a binding, which stays.
LEMMA UpsertCompareStep ==
  ASSUME RegistryInv, NEW p \in Procs, UpsertCompare(p)
  PROVE  RegistryInv' /\ Final
<1> USE DEF RegistryInv, Arrays
<1>1. CallFrame(p)
  BY DEF UpsertCompare, Return, Goto, CallFrame, Labels, counted, tables, locals
<1>2. UNCHANGED <<rows, snapshots, published, since, disturbed>> /\ pc'[p] = "idle"
  BY DEF UpsertCompare, Return, Goto, tables, locals, counted
<1>3. CallOf(p)'
  BY <1>2 DEF CallOf
<1>4. out'[p].op = "upsert" /\ SameKey(arg[p], out'[p])
  BY DEF UpsertCompare, Return, Result, SameKey
<1>5. \E b \in snapshots : SameKey(b, arg[p])
  BY DEF UpsertCompare, CallOf
<1>6. ToldOf(p)'
  BY <1>2, <1>4, <1>5 DEF ToldOf, SameKey
<1> QED
  BY <1>1, <1>2, <1>3, <1>6, CallStep, UnchangedCatalog DEF CallFrame

\* upsert_feature and upsert_factor do not touch datasets.
LEMMA UpsertOutputStep ==
  ASSUME RegistryInv, NEW p \in Procs, NEW row, UpsertOutput(p, row)
  PROVE  RegistryInv' /\ Final
<1> USE DEF RegistryInv, Arrays
<1>1. CallFrame(p)
  BY DEF UpsertOutput, CallBegin, Return, Goto, CallFrame, Labels
<1>2. CallOf(p)'
  BY DEF UpsertOutput, CallBegin, Return, Goto, CallOf
<1>3. UNCHANGED <<rows, snapshots, published>> /\ since'[p] = published
  BY DEF UpsertOutput, CallBegin
<1>4. ToldOf(p)'
  BY <1>3 DEF UpsertOutput, CallBegin, Return, Result, ToldOf
<1> QED
  BY <1>1, <1>2, <1>3, <1>4, CallStep, UnchangedCatalog DEF CallFrame

\* resolve_latest_fastk_root reads one row.
LEMMA ResolveLatestStep ==
  ASSUME RegistryInv, NEW p \in Procs, NEW id \in Ids, ResolveLatest(p, id)
  PROVE  RegistryInv' /\ Final
<1> USE DEF RegistryInv, Arrays
<1>1. CallFrame(p)
  BY DEF ResolveLatest, CallBegin, Return, Goto, CallFrame, Labels, tables
<1>2. CallOf(p)'
  BY DEF ResolveLatest, CallBegin, Return, Goto, CallOf
<1>3. UNCHANGED <<rows, snapshots, published>> /\ since'[p] = published
  BY DEF ResolveLatest, CallBegin, tables
<1>4. ToldOf(p)'
  BY <1>3 DEF ResolveLatest, CallBegin, Return, Result, ToldOf
<1> QED
  BY <1>1, <1>2, <1>3, <1>4, CallStep, UnchangedCatalog DEF CallFrame

\* publish_dataset until it seals, verifies, or gives up.
LEMMA PublishBeginStep ==
  ASSUME RegistryInv, NEW p \in Procs, NEW rec \in Submission, PublishBegin(p, rec)
  PROVE  RegistryInv' /\ Final
<1> USE DEF RegistryInv, Arrays
<1>1. CallFrame(p)
  BY DEF PublishBegin, CallBegin, Return, Proceed, Goto, CallFrame, Labels, tables
<1>2. UNCHANGED <<rows, snapshots, published>> /\ since'[p] = published
  BY DEF PublishBegin, CallBegin, tables
<1>3. CallOf(p)'
  BY <1>2 DEF PublishBegin, CallBegin, Return, Proceed, Goto, CallOf, Submission,
     snapshot_binding, SameKey
<1>4. ToldOf(p)'
  BY <1>2 DEF PublishBegin, CallBegin, Return, Proceed, Result, NoOutcome, ToldOf,
     snapshot_binding, SameKey
<1> QED
  BY <1>1, <1>2, <1>3, <1>4, CallStep, UnchangedCatalog DEF CallFrame

\* A version that is bound already is verified; its binding stays.
LEMMA PublishVerifyStep ==
  ASSUME RegistryInv, NEW p \in Procs, PublishVerify(p)
  PROVE  RegistryInv' /\ Final
<1> USE DEF RegistryInv, Arrays
<1>1. CallFrame(p)
  BY DEF PublishVerify, Return, Goto, CallFrame, Labels, counted, tables, locals
<1>2. UNCHANGED <<rows, snapshots, since>> /\ pc'[p] = "idle"
  BY DEF PublishVerify, Return, Goto, tables, locals
<1>3. published \subseteq published' /\ published' \subseteq snapshots'
  BY <1>2 DEF PublishVerify, CallOf
<1>4. out'[p].op = "publish" /\ out'[p].res # "refused"
  BY DEF PublishVerify, Return, Result
<1>5. CallOf(p)'
  BY <1>2 DEF CallOf
<1>6. ToldOf(p)'
  BY <1>2, <1>3, <1>4 DEF ToldOf
<1> QED
  BY <1>1, <1>2, <1>3, <1>5, <1>6, CallStep, UnchangedCatalog DEF CallFrame

\* Sealing leaves the catalog alone; what it returns becomes the binding.
LEMMA SealStep ==
  ASSUME RegistryInv, NEW p \in Procs, SealCheck(p) \/ SealWrite(p)
  PROVE  RegistryInv' /\ Final
<1> USE DEF RegistryInv, Arrays
<1>1. CallFrame(p)
  BY DEF SealCheck, SealWrite, Return, Goto, CallFrame, Labels, counted, tables
<1>2. /\ UNCHANGED <<rows, snapshots, published, since>>
      /\ pc'[p] # "idle" => UNCHANGED arg
  BY DEF SealCheck, SealWrite, Return, Goto, tables
<1>3. pc[p] \in {"seal", "sealing"} /\ arg[p] \in Record
  BY DEF SealCheck, SealWrite, CallOf
<1>4. CASE pc'[p] = "commit"
  <2>1. PICK d : got'[p] = {Bound(arg[p], d)} /\ UNCHANGED out
    BY <1>3, <1>4 DEF SealCheck, SealWrite, Return, Goto
  <2>2. d \in {b.digest : b \in got'[p]}
    BY <2>1 DEF Bound
  <2>3. CallOf(p)'
    BY <1>2, <1>3, <1>4, <2>1, <2>2 DEF CallOf, Bound
  <2>4. ToldOf(p)'
    BY <1>2, <2>1 DEF ToldOf
  <2> QED
    BY <1>1, <1>2, <2>3, <2>4, CallStep, UnchangedCatalog DEF CallFrame
<1>5. CASE pc'[p] # "commit"
  <2>1. pc'[p] \in {"sealing", "idle"}
    BY <1>5 DEF SealCheck, SealWrite, Return, Goto
  <2>2. CallOf(p)'
    BY <1>2, <1>3, <2>1 DEF CallOf
  <2>3. out'[p] = out[p] \/ (out'[p].op = "publish" /\ out'[p].res # "refused")
    BY <1>5 DEF SealCheck, SealWrite, Return, Goto, Result
  <2>4. ToldOf(p)'
    BY <1>2, <2>3 DEF ToldOf
  <2> QED
    BY <1>1, <1>2, <2>2, <2>4, CallStep, UnchangedCatalog DEF CallFrame
<1> QED
  BY <1>4, <1>5

\* The commit adds one binding, or is refused because there is one.
LEMMA PublishCommitStep ==
  ASSUME RegistryInv, NEW p \in Procs, PublishCommit(p)
  PROVE  RegistryInv' /\ Final
<1> USE DEF RegistryInv, Arrays
<1>1. CallFrame(p)
  BY DEF PublishCommit, Return, Goto, CallFrame, Labels, counted, locals
<1>2. published' \subseteq snapshots' /\ published \subseteq published' /\ UNCHANGED since
  BY DEF PublishCommit, locals
<1>3. CallOf(p)'
  BY DEF PublishCommit, Return, Goto, CallOf
<1>4. /\ out'[p].op = "publish"
      /\ out'[p].res = "refused" =>
           snapshot_binding(arg[p]) # {} /\ SameKey(arg[p], out'[p]) /\ UNCHANGED snapshots
  <2>1. PICK new \in got[p] :
          \/ Return(p, Result("publish", arg[p], "ok", arg[p].root, new.digest))
          \/ /\ Return(p, Result("publish", arg[p], "refused", NoRoot, 0))
             /\ snapshot_binding(arg[p]) # {} /\ UNCHANGED snapshots
          \/ Return(p, Result("publish", arg[p], "no table", NoRoot, 0))
    BY DEF PublishCommit
  <2>2. CASE Return(p, Result("publish", arg[p], "ok", arg[p].root, new.digest))
    BY <2>2 DEF Return, Result
  <2>3. CASE /\ Return(p, Result("publish", arg[p], "refused", NoRoot, 0))
             /\ snapshot_binding(arg[p]) # {} /\ UNCHANGED snapshots
    BY <2>3 DEF Return, Result, SameKey
  <2>4. CASE Return(p, Result("publish", arg[p], "no table", NoRoot, 0))
    BY <2>4 DEF Return, Result
  <2> QED
    BY <2>1, <2>2, <2>3, <2>4
<1>5. ToldOf(p)'
  BY <1>2, <1>4 DEF ToldOf, snapshot_binding, SameKey
<1> QED
  BY <1>1, <1>2, <1>3, <1>5, CallStep, CommitCatalog

\* A resolver reads the row of a version.
LEMMA ResolveBeginStep ==
  ASSUME RegistryInv, NEW p \in Procs, NEW key, NEW want, ResolveBegin(p, key, want)
  PROVE  RegistryInv' /\ Final
<1> USE DEF RegistryInv, Arrays
<1>1. CallFrame(p)
  BY DEF ResolveBegin, CallBegin, Proceed, Goto, CallFrame, Labels, tables
<1>2. UNCHANGED <<rows, snapshots, published>> /\ since'[p] = published
  BY DEF ResolveBegin, CallBegin, tables
<1>3. CallOf(p)'
  BY DEF ResolveBegin, CallBegin, Proceed, Goto, CallOf
<1>4. ToldOf(p)'
  BY <1>2 DEF ResolveBegin, CallBegin, Proceed, NoOutcome, ToldOf
<1> QED
  BY <1>1, <1>2, <1>3, <1>4, CallStep, UnchangedCatalog DEF CallFrame

\* It reads the binding.  An answer without one tells that nothing had been
\* published when the call began.
LEMMA ResolveBindingStep ==
  ASSUME RegistryInv, NEW p \in Procs, ResolveBinding(p)
  PROVE  RegistryInv' /\ Final
<1> USE DEF RegistryInv, Arrays
<1>1. CallFrame(p)
  BY DEF ResolveBinding, Return, Goto, CallFrame, Labels, counted, tables
<1>2. /\ UNCHANGED <<rows, snapshots, published, since>>
      /\ pc'[p] # "idle" => UNCHANGED arg
  BY DEF ResolveBinding, Return, Goto, tables
<1>3. CallOf(p)'
  BY <1>2 DEF ResolveBinding, Return, Goto, CallOf, snapshot_binding, SameKey
<1>4. \/ out'[p] = out[p]
      \/ /\ out'[p].res # "refused" /\ SameKey(arg[p], out'[p])
         /\ out'[p].res = "ok" => snapshot_binding(arg[p]) = {}
  BY DEF ResolveBinding, Return, Result, Answer, SameKey
<1>5. since[p] \subseteq snapshots
  BY DEF ToldOf
<1>6. ToldOf(p)'
  BY <1>2, <1>4, <1>5 DEF ToldOf, snapshot_binding, SameKey
<1> QED
  BY <1>1, <1>2, <1>3, <1>6, CallStep, UnchangedCatalog DEF CallFrame

\* It verifies the bytes against the digest of the one binding of the version.
LEMMA ResolveVerifyStep ==
  ASSUME RegistryInv, NEW p \in Procs, ResolveVerify(p)
  PROVE  RegistryInv' /\ Final
<1> USE DEF RegistryInv, Arrays
<1>1. CallFrame(p)
  BY DEF ResolveVerify, Return, Goto, CallFrame, Labels, counted, tables, locals
<1>2. UNCHANGED <<rows, snapshots, published, since>> /\ pc'[p] = "idle"
  BY DEF ResolveVerify, Return, Goto, tables, locals
<1>3. CallOf(p)'
  BY <1>2 DEF CallOf
<1> DEFINE Said(b) == IF verify_snapshot(b.root, {b.digest})
                      THEN Answer(arg[p].root, b.root) ELSE "damaged"
<1>4. PICK b \in got[p] : out'[p] = Result("resolve", arg[p], Said(b), b.root, content[b.root])
  BY DEF ResolveVerify, Return
<1>5. /\ out'[p].res = Said(b) /\ SameKey(arg[p], out'[p])
      /\ out'[p].root = b.root /\ out'[p].bytes = content[b.root]
  BY <1>4 DEF Result, SameKey
<1>6. b \in snapshots /\ SameKey(b, arg[p])
  BY DEF ResolveVerify, CallOf
<1>7. out'[p].res # "refused" /\ (out'[p].res = "ok" => out'[p].bytes = b.digest)
  BY <1>5 DEF verify_snapshot, Answer
<1>8. \A a \in since[p] : SameKey(a, out'[p]) => a = b
  BY <1>6, <1>5 DEF ToldOf, BoundRowsAgree, SameKey
<1>9. ToldOf(p)'
  BY <1>2, <1>7, <1>8, <1>5 DEF ToldOf
<1> QED
  BY <1>1, <1>2, <1>3, <1>9, CallStep, UnchangedCatalog DEF CallFrame

-----------------------------------------------------------------------------
(* Everything else. *)

\* The steps of open().
LEMMA OpeningStep ==
  ASSUME RegistryInv, NEW p \in Procs, Opening(p)
  PROVE  RegistryInv' /\ Final
<1> USE DEF RegistryInv
<1>1. (Arrays /\ MigrationInv)' /\ (disturbed => disturbed')
  BY OpeningMigration
<1>2. /\ UNCHANGED <<snapshots, published, arg, got, since, out>>
      /\ \A q \in Procs \ {p} : pc'[q] = pc[q]
      /\ pc'[p] \notin {"compare", "verify", "seal", "sealing", "commit", "pinned"}
      /\ UNCHANGED rows \/ Migrating(p)
  <2> USE DEF Arrays, Migrating, Goto, OpenFails, tables, locals
  <2>1. CASE OpenBegin(p)
    BY <2>1 DEF OpenBegin
  <2>2. CASE TableExists(p) \/ PrimaryKey(p)
    BY <2>2 DEF TableExists, PrimaryKey
  <2>3. CASE CreateTable(p)
    BY <2>3 DEF CreateTable
  <2>4. CASE RenameLegacy(p)
    BY <2>4 DEF RenameLegacy
  <2>5. CASE CopyLegacy(p)
    BY <2>5 DEF CopyLegacy
  <2>6. CASE DropLegacy(p)
    BY <2>6 DEF DropLegacy
  <2>11. CASE CreateIndex(p)
    BY <2>11 DEF CreateIndex
  <2>7. CASE EnsureRegistries(p)
    BY <2>7 DEF EnsureRegistries
  <2>8. CASE CheckColumns(p)
    BY <2>8 DEF CheckColumns
  <2>9. CASE AddColumn(p)
    BY <2>9 DEF AddColumn
  <2>10. CASE OpenEnd(p)
    BY <2>10 DEF OpenEnd
  <2> QED
    BY <2>1, <2>2, <2>3, <2>4, <2>5, <2>6, <2>7, <2>8, <2>9, <2>10, <2>11 DEF Opening
<1>3. \A q \in Procs : (CallOf(q) /\ ToldOf(q))'
  <2> TAKE q \in Procs
  <2>1. CASE q = p
    BY <1>2, <2>1 DEF CallOf, ToldOf, SameKey
  <2>2. CASE q # p
    BY <1>2, <2>2, OthersKeep
  <2> QED
    BY <2>1, <2>2
<1>4. BoundRowsAgree' /\ Final
  <2>1. CASE UNCHANGED rows
    BY <1>1, <1>2, <2>1, UnchangedCatalog
  <2>2. CASE Migrating(p)
    <3>1. ~disturbed => snapshots = {}
      BY <2>2 DEF MigrationInv, Alone
    <3> QED
      BY <1>1, <1>2, <3>1, UnboundCatalog DEF MigrationInv
  <2> QED
    BY <1>2, <2>1, <2>2
<1> QED
  BY <1>1, <1>2, <1>3, <1>4

\* A process that dies forgets; the catalog does not.
LEMMA CrashStep ==
  ASSUME RegistryInv, NEW p \in Procs, Crash(p)
  PROVE  RegistryInv' /\ Final
<1> USE DEF RegistryInv, Arrays
<1>1. /\ UNCHANGED <<shape, rows, snapshots, published>>
      /\ pc' = [pc EXCEPT ![p] = "closed"]
      /\ out' = [out EXCEPT ![p] = NoOutcome]
      /\ arg' = [arg EXCEPT ![p] = <<>>] /\ got' = [got EXCEPT ![p] = {}]
      /\ since' = [since EXCEPT ![p] = {}]
      /\ disturbed' = (disturbed \/ pc[p] \in {"recreate", "copy"})
  BY DEF Crash, Proceed, Goto, tables
<1>2. Arrays' /\ MigrationInv'
  BY <1>1 DEF MigrationInv, Alone, Migrating
<1>3. \A q \in Procs : (CallOf(q) /\ ToldOf(q))'
  <2> TAKE q \in Procs
  <2>1. CASE q = p
    BY <1>1, <2>1 DEF CallOf, ToldOf, NoOutcome
  <2>2. CASE q # p
    BY <1>1, <2>2, OthersKeep
  <2> QED
    BY <2>1, <2>2
<1> QED
  BY <1>1, <1>2, <1>3, UnchangedCatalog

\* Writes and damage to roots, and stuttering, leave the catalog alone.
LEMMA RootStep ==
  ASSUME RegistryInv,
         UNCHANGED <<shape, rows, snapshots, published, pc, arg, got, since, out, disturbed>>
  PROVE  RegistryInv' /\ Final
<1> USE DEF RegistryInv
<1>1. Arrays' /\ MigrationInv'
  BY DEF Arrays, MigrationInv, Alone, Migrating
<1>2. \A q \in Procs : (CallOf(q) /\ ToldOf(q))'
  BY OthersKeep
<1> QED
  BY <1>1, <1>2, UnchangedCatalog

\* Every step keeps the invariant and every binding.
LEMMA NextStep ==
  ASSUME RegistryInv, [Next]_vars
  PROVE  RegistryInv' /\ Final
<1>1. CASE UNCHANGED vars
  BY <1>1, RootStep DEF vars, tables, locals, counted
<1>2. ASSUME NEW p \in Procs,
             \/ Opening(p) \/ Publishing(p) \/ Resolving(p) \/ Crash(p) \/ UpsertCompare(p)
             \/ \E rec \in Submission : UpsertDataset(p, rec)
             \/ \E key \in Key : upsert_feature(p, key) \/ upsert_factor(p, key)
      PROVE  RegistryInv' /\ Final
  <2>1. CASE Opening(p) \/ Crash(p)
    BY <2>1, OpeningStep, CrashStep
  <2>2. CASE Publishing(p)
    BY <2>2, PublishBeginStep, PublishVerifyStep, SealStep, PublishCommitStep DEF Publishing
  <2>3. CASE Resolving(p)
    BY <2>3, ResolveBeginStep, ResolveBindingStep, ResolveVerifyStep, ResolveLatestStep
       DEF Resolving
  <2>4. CASE \E rec \in Submission : UpsertDataset(p, rec)
    BY <2>4, UpsertDatasetStep
  <2>6. CASE UpsertCompare(p)
    BY <2>6, UpsertCompareStep
  <2>5. CASE \E key \in Key : upsert_feature(p, key) \/ upsert_factor(p, key)
    BY <2>5, UpsertOutputStep DEF upsert_feature, upsert_factor
  <2> QED
    BY <1>2, <2>1, <2>2, <2>3, <2>4, <2>5, <2>6
<1>3. ASSUME NEW r \in Roots, WriteRoot(r) \/ Tamper(r)
      PROVE  RegistryInv' /\ Final
  BY <1>3, RootStep DEF WriteRoot, Tamper, tables, locals, counted
<1> QED
  BY <1>1, <1>2, <1>3 DEF Next

-----------------------------------------------------------------------------
(* The schema. *)

\* An open that has not begun.
LEMMA InitSchema == ASSUME Init PROVE SchemaInv /\ KeptInv /\ (~disturbed => Present)
<1>1. DOMAIN todo = Procs /\ missing \subseteq Registries
  BY DEF Init
<1>2. \A p \in Procs : SchemaOf(p) /\ ShapeOf(p) /\ MovingOf(p)
  BY DEF Init, SchemaOf, ShapeOf, MovingOf, Moving, Ready
<1>3. /\ shape = "legacy" => rows = inherited
      /\ \A old \in inherited : \E r \in rows : SameKey(r, old)
  BY DEF Init, SameKey
<1>4. inherited # {} => \A t \in Registries : \E l \in lineage : l.table = t
  <2> SUFFICES ASSUME inherited # {}, NEW t \in Registries PROVE \E l \in lineage : l.table = t
    OBVIOUS
  <2>1. shape = "legacy" /\ inherited = LegacyRows
    BY DEF Init
  <2>2. PICK r \in Record : TRUE
    BY <2>1, LegacyAssumption
  <2>3. r.id \in Ids
    BY DEF Record
  <2>4. [table |-> t, id |-> r.id, version |-> 0] \in lineage
    BY <2>1, <2>3 DEF Init
  <2> QED
    BY <2>4
<1>5. Kept
  BY <1>3 DEF Kept
<1> QED
  BY <1>1, <1>2, <1>3, <1>4, <1>5 DEF SchemaInv, KeptInv, Present

\* A process that does not move keeps what it has brought about: columns and
\* tables are added and never taken away.
LEMMA OtherSchema ==
  ASSUME NEW q \in Procs, SchemaOf(q), pc'[q] = pc[q], todo'[q] = todo[q],
         missing' \subseteq missing, bindable => bindable', shape' = "legacy" => shape = "legacy"
  PROVE  SchemaOf(q)'
BY DEF SchemaOf, Ready

\* The steps of open() bring the tables forward.
LEMMA OpeningSchema ==
  ASSUME RegistryInv, SchemaInv, NEW p \in Procs, Opening(p)
  PROVE  SchemaInv'
<1> USE DEF RegistryInv, Arrays, SchemaInv, MigrationInv, Goto
<1>1. /\ DOMAIN todo' = Procs /\ UNCHANGED <<inherited, lineage>>
      /\ missing' \subseteq missing /\ (bindable => bindable')
      /\ shape' = "legacy" => shape = "legacy"
      /\ \A q \in Procs \ {p} : pc'[q] = pc[q] /\ todo'[q] = todo[q]
  BY DEF Opening, OpenBegin, TableExists, PrimaryKey, CreateTable, RenameLegacy, CopyLegacy,
     DropLegacy, CreateIndex, EnsureRegistries, CheckColumns, AddColumn, OpenEnd, OpenFails,
     tables, locals
<1>2. SchemaOf(p)'
  <2> USE DEF SchemaOf, Ready
  <2>1. CASE OpenBegin(p) \/ TableExists(p) \/ PrimaryKey(p)
    BY <2>1 DEF OpenBegin, TableExists, PrimaryKey, tables
  <2>2. CASE CreateTable(p)
    BY <2>2 DEF CreateTable
  <2>3. CASE RenameLegacy(p)
    BY <2>3 DEF RenameLegacy, OpenFails
  <2>4. CASE CopyLegacy(p) \/ DropLegacy(p)
    BY <2>4 DEF CopyLegacy, DropLegacy, OpenFails
  <2>5. CASE CreateIndex(p)
    BY <2>5 DEF CreateIndex, OpenFails, tables
  <2>6. CASE EnsureRegistries(p)
    BY <2>6 DEF EnsureRegistries, tables
  <2>7. CASE CheckColumns(p)
    <3>1. /\ UNCHANGED <<shape, missing>> /\ shape # "legacy"
          /\ todo[p] \in {<<"feature_registry", "factor_registry">>, <<"factor_registry">>, <<>>}
      BY <2>7 DEF CheckColumns, tables
    <3>2. CASE todo[p] = <<"feature_registry", "factor_registry">>
      <4>1. Head(todo[p]) = "feature_registry" /\ Tail(todo[p]) = <<"factor_registry">>
        BY <3>2
      <4>2. /\ <<"feature_registry", "factor_registry">> # <<"factor_registry">>
            /\ <<"feature_registry", "factor_registry">> # <<>> /\ <<"factor_registry">> # <<>>
        OBVIOUS
      <4>3. CASE "feature_registry" \in missing
        <5>1. pc'[p] = "alter" /\ todo'[p] = todo[p]
          BY <2>7, <3>2, <4>1, <4>2, <4>3 DEF CheckColumns
        <5> QED
          BY <3>1, <3>2, <4>2, <5>1
      <4>4. CASE "feature_registry" \notin missing
        <5>1. pc'[p] = "columns" /\ todo'[p] = <<"factor_registry">>
          BY <2>7, <3>2, <4>1, <4>2, <4>4 DEF CheckColumns
        <5> QED
          BY <3>1, <4>2, <4>4, <5>1
      <4> QED
        BY <4>3, <4>4
    <3>3. CASE todo[p] = <<"factor_registry">>
      <4>1. Head(todo[p]) = "factor_registry" /\ Tail(todo[p]) = <<>>
        BY <3>3
      <4> QED
        BY <2>7, <3>1, <3>3, <4>1 DEF CheckColumns, Registries
    <3>4. CASE todo[p] = <<>>
      BY <2>7, <3>1, <3>4 DEF CheckColumns
    <3> QED
      BY <3>1, <3>2, <3>3, <3>4
  <2>8. CASE AddColumn(p)
    BY <2>8 DEF AddColumn, OpenFails, tables, locals
  <2>9. CASE OpenEnd(p)
    BY <2>9 DEF OpenEnd
  <2> QED
    BY <2>1, <2>2, <2>3, <2>4, <2>5, <2>6, <2>7, <2>8, <2>9 DEF Opening
<1>3. \A q \in Procs \ {p} : SchemaOf(q)'
  BY <1>1, OtherSchema
<1> QED
  BY <1>1, <1>2, <1>3

\* A process keeps its place in the migration when only others move, none of them
\* into it or out of it.
LEMMA OtherMoving ==
  ASSUME NEW q \in Procs, MovingOf(q), DOMAIN pc = Procs, UNCHANGED backup, pc'[q] = pc[q],
         \A r \in rows : \E new \in rows' : SameKey(new, r),
         \A x \in Procs : pc'[x] \in Moving => pc[x] \in Moving
  PROVE  MovingOf(q)'
<1>1. pc'[q] = "drop" => \A old \in UNION backup : \E r \in rows' : SameKey(r, old)
  BY DEF MovingOf, SameKey
<1> QED
  BY <1>1 DEF MovingOf

\* Rows that stay under their keys, and a backup that stays, keep everything.
LEMMA KeptStays ==
  ASSUME Kept, UNCHANGED <<inherited, backup>>,
         \A r \in rows : \E new \in rows' : SameKey(new, r)
  PROVE  Kept'
<1> SUFFICES ASSUME NEW old \in inherited
             PROVE  \E kept \in rows' \cup UNION backup : SameKey(kept, old)
  BY DEF Kept
<1>1. PICK kept \in rows \cup UNION backup : SameKey(kept, old)
  BY DEF Kept
<1>2. CASE kept \in rows
  BY <1>1, <1>2 DEF SameKey
<1>3. CASE kept \in UNION backup
  BY <1>1, <1>3
<1> QED
  BY <1>1, <1>2, <1>3

\* Whatever the order in which opens rename, copy and drop, every row stays in
\* one of the two tables.
LEMMA OpeningKept ==
  ASSUME RegistryInv, KeptInv, NEW p \in Procs, Opening(p)
  PROVE  KeptInv'
<1> USE DEF RegistryInv, Arrays, Goto
<1>1. CASE RenameLegacy(p) /\ shape # "none" /\ backup = {}
  <2>1. /\ backup' = {rows} /\ rows' = {} /\ UNCHANGED inherited
        /\ pc' = [pc EXCEPT ![p] = "recreate"]
    BY <1>1 DEF RenameLegacy
  <2>2. \A q \in Procs : pc[q] \notin Moving
    BY <1>1 DEF KeptInv, MovingOf
  <2>3. \A q \in Procs : MovingOf(q)'
    BY <2>1, <2>2 DEF MovingOf, Moving
  <2>4. UNION backup' = rows /\ UNION backup = {}
    BY <1>1, <2>1
  <2>5. Kept'
    BY <2>1, <2>4 DEF KeptInv, Kept
  <2> QED
    BY <2>3, <2>5 DEF KeptInv
<1>2. CASE CopyLegacy(p) /\ shape # "none" /\ backup # {}
  <2> DEFINE old == UNION backup
  <2>1. /\ rows' = {r \in rows : ~ \E q \in old : SameKey(q, r)} \cup old
        /\ pc' = [pc EXCEPT ![p] = "drop"] /\ pc[p] = "copy" /\ UNCHANGED <<inherited, backup>>
    BY <1>2 DEF CopyLegacy
  <2>2. \A r \in rows : \E new \in rows' : SameKey(new, r)
    BY <2>1 DEF SameKey
  <2>3. Kept'
    BY <2>1, <2>2, KeptStays DEF KeptInv
  <2>4. \A o \in old : \E r \in rows' : SameKey(r, o)
    BY <2>1 DEF SameKey
  <2>5. \A q \in Procs \ {p} : pc[q] \notin Moving
    BY <2>1 DEF KeptInv, MovingOf, Moving
  <2>6. MovingOf(p)'
    BY <1>2, <2>1, <2>4, <2>5 DEF MovingOf, Moving
  <2>7. \A q \in Procs \ {p} : MovingOf(q)'
    BY <2>1, <2>5 DEF MovingOf, Moving
  <2> QED
    BY <2>3, <2>6, <2>7 DEF KeptInv
<1>3. CASE DropLegacy(p) /\ backup # {}
  <2>1. /\ backup' = {} /\ UNCHANGED <<rows, inherited>>
        /\ pc' = [pc EXCEPT ![p] = "index"] /\ pc[p] = "drop"
    BY <1>3 DEF DropLegacy
  <2>2. \A q \in Procs \ {p} : pc[q] \notin Moving
    BY <2>1 DEF KeptInv, MovingOf, Moving
  <2>3. \A q \in Procs : MovingOf(q)'
    BY <2>1, <2>2 DEF MovingOf, Moving
  <2>4. \A kept \in UNION backup : \E r \in rows : SameKey(r, kept)
    BY <2>1 DEF KeptInv, MovingOf
  <2>5. \A old \in inherited : \E r \in rows : SameKey(r, old)
    BY <2>4 DEF KeptInv, Kept, SameKey
  <2>6. Kept'
    BY <2>1, <2>5 DEF Kept
  <2> QED
    BY <2>3, <2>6 DEF KeptInv
<1>4. CASE /\ UNCHANGED <<rows, inherited, backup>>
           /\ \A q \in Procs \ {p} : pc'[q] = pc[q]
           /\ \/ pc'[p] \notin Moving
              \/ pc[p] = "recreate" /\ pc'[p] = "copy"
  <2>1. \A r \in rows : \E new \in rows' : SameKey(new, r)
    BY <1>4 DEF SameKey
  <2>2. Kept'
    BY <1>4, <2>1, KeptStays DEF KeptInv
  <2>3. \A x \in Procs : pc'[x] \in Moving => pc[x] \in Moving
    BY <1>4 DEF Moving
  <2>4. \A q \in Procs \ {p} : MovingOf(q)'
    BY <1>4, <2>1, <2>3, OtherMoving DEF KeptInv
  <2>5. MovingOf(p)'
    BY <1>4, <2>3 DEF KeptInv, MovingOf, Moving
  <2> QED
    BY <2>2, <2>4, <2>5 DEF KeptInv
<1>5. \/ RenameLegacy(p) /\ shape # "none" /\ backup = {}
      \/ CopyLegacy(p) /\ shape # "none" /\ backup # {}
      \/ DropLegacy(p) /\ backup # {}
      \/ /\ UNCHANGED <<rows, inherited, backup>>
         /\ \A q \in Procs \ {p} : pc'[q] = pc[q]
         /\ \/ pc'[p] \notin Moving
            \/ pc[p] = "recreate" /\ pc'[p] = "copy"
  <2> USE DEF Moving, OpenFails, tables
  <2>1. CASE OpenBegin(p) \/ TableExists(p) \/ PrimaryKey(p) \/ CreateTable(p)
    BY <2>1 DEF OpenBegin, TableExists, PrimaryKey, CreateTable
  <2>2. CASE RenameLegacy(p)
    BY <2>2 DEF RenameLegacy
  <2>3. CASE CopyLegacy(p)
    BY <2>3 DEF CopyLegacy
  <2>4. CASE DropLegacy(p)
    BY <2>4 DEF DropLegacy
  <2>5. CASE CreateIndex(p) \/ EnsureRegistries(p) \/ CheckColumns(p)
    BY <2>5 DEF CreateIndex, EnsureRegistries, CheckColumns
  <2>6. CASE AddColumn(p) \/ OpenEnd(p)
    BY <2>6 DEF AddColumn, OpenEnd
  <2> QED
    BY <2>1, <2>2, <2>3, <2>4, <2>5, <2>6 DEF Opening
<1> QED
  BY <1>1, <1>2, <1>3, <1>4, <1>5

\* Without disturbance a process that does not move keeps its place.
LEMMA OtherShape ==
  ASSUME NEW q \in Procs, ShapeOf(q), pc'[q] = pc[q], UNCHANGED inherited,
         \/ pc[q] = "closed"
         \/ UNCHANGED <<shape, backup>>
         \/ ~Migrating(q) /\ shape' = "current"
  PROVE  ShapeOf(q)'
BY DEF ShapeOf, Ready, Migrating

\* Without disturbance an open finds or makes the current table with its rows.
LEMMA OpeningPresent ==
  ASSUME RegistryInv, ~disturbed', Present, NEW p \in Procs, Opening(p)
  PROVE  Present'
<1>0. ~disturbed /\ Alone
  BY OpeningMigration DEF RegistryInv, MigrationInv
<1> USE <1>0 DEF RegistryInv, Arrays, Present, MigrationInv, Alone, Migrating, Goto
<1>1. CASE OpenBegin(p)
  <2>1. \A q \in Procs : ShapeOf(q)'
    BY <1>1, OtherShape DEF OpenBegin, ShapeOf, Ready, tables
  <2> QED
    BY <1>1, <2>1 DEF OpenBegin, tables, SameKey
<1>2. CASE TableExists(p) \/ PrimaryKey(p)
  <2>1. \A q \in Procs \ {p} : ShapeOf(q)'
    BY <1>2, OtherShape DEF TableExists, PrimaryKey, tables
  <2>2. ShapeOf(p)'
    BY <1>2 DEF TableExists, PrimaryKey, ShapeOf, Ready, tables
  <2> QED
    BY <1>2, <2>1, <2>2 DEF TableExists, PrimaryKey, tables, SameKey
<1>3. CASE CreateTable(p)
  <2>1. \A q \in Procs \ {p} : ShapeOf(q)'
    BY <1>3, OtherShape DEF CreateTable
  <2>2. ShapeOf(p)'
    BY <1>3 DEF CreateTable, ShapeOf, Ready
  <2> QED
    BY <1>3, <2>1, <2>2 DEF CreateTable, SameKey
<1>4. CASE RenameLegacy(p)
  <2>1. \A q \in Procs \ {p} : ShapeOf(q)'
    BY <1>4, OtherShape DEF RenameLegacy, OpenFails, tables
  <2>2. ShapeOf(p)'
    BY <1>4 DEF RenameLegacy, OpenFails, ShapeOf, Ready, tables
  <2> QED
    BY <1>4, <2>1, <2>2 DEF RenameLegacy, OpenFails, tables, SameKey
<1>5. CASE CopyLegacy(p)
  <2>1. \A q \in Procs \ {p} : ShapeOf(q)'
    BY <1>5, OtherShape DEF CopyLegacy, OpenFails, tables
  <2>2. ShapeOf(p)'
    BY <1>5 DEF CopyLegacy, OpenFails, ShapeOf, Ready, tables
  <2>3. shape = "current" /\ backup = {inherited}
    BY <1>5 DEF CopyLegacy, ShapeOf
  <2>4. inherited \subseteq rows'
    BY <1>5, <2>3 DEF CopyLegacy, OpenFails
  <2>5. \A old \in inherited' : \E r \in rows' : SameKey(r, old)
    BY <1>5, <2>4 DEF CopyLegacy, OpenFails, tables, SameKey
  <2> QED
    BY <1>5, <2>1, <2>2, <2>3, <2>5 DEF CopyLegacy, OpenFails, tables
<1>6. CASE DropLegacy(p)
  <2>1. \A q \in Procs \ {p} : ShapeOf(q)'
    BY <1>6, OtherShape DEF DropLegacy, OpenFails, tables
  <2>2. ShapeOf(p)'
    BY <1>6 DEF DropLegacy, OpenFails, ShapeOf, Ready, tables
  <2> QED
    BY <1>6, <2>1, <2>2 DEF DropLegacy, OpenFails, tables, SameKey
<1>7. CASE CreateIndex(p) \/ EnsureRegistries(p) \/ CheckColumns(p) \/ AddColumn(p) \/ OpenEnd(p)
  <2>1. /\ UNCHANGED <<shape, rows, inherited, backup>>
        /\ \A q \in Procs \ {p} : pc'[q] = pc[q]
        /\ pc[p] \in {"index", "registries", "columns", "alter", "snapshot"}
        /\ pc'[p] \in {"closed", "registries", "columns", "alter", "snapshot", "idle"}
    BY <1>7 DEF CreateIndex, EnsureRegistries, CheckColumns, AddColumn, OpenEnd, OpenFails, tables
  <2>2. \A q \in Procs \ {p} : ShapeOf(q)'
    BY <2>1, OtherShape
  <2>3. ShapeOf(p)'
    BY <2>1 DEF ShapeOf, Ready
  <2> QED
    BY <2>1, <2>2, <2>3 DEF SameKey
<1> QED
  BY <1>1, <1>2, <1>3, <1>4, <1>5, <1>6, <1>7 DEF Opening

\* Calls and crashes leave the schema alone and drop no row.
LEMMA CallSchema ==
  ASSUME RegistryInv, SchemaInv, KeptInv, ~disturbed => Present, NEW p \in Procs, NEW label,
         Goto(p, label),
         \/ pc[p] \in Ready /\ label \in Ready /\ UNCHANGED <<todo, disturbed>>
         \/ /\ label = "closed" /\ UNCHANGED rows
            /\ todo' = [todo EXCEPT ![p] = <<>>]
            /\ disturbed' = (disturbed \/ pc[p] \in {"recreate", "copy"}),
         UNCHANGED <<shape, inherited, backup, missing, bindable>>,
         \A r \in rows : \E new \in rows' : SameKey(new, r),
         \A l \in lineage : \E new \in lineage' : new.table = l.table
  PROVE  SchemaInv' /\ KeptInv' /\ (~disturbed => Present)'
<1> USE DEF RegistryInv, Arrays, Goto
<1>1. SchemaInv'
  <2> USE DEF SchemaInv
  <2>1. SchemaOf(p)'
    BY DEF SchemaOf, Ready
  <2>2. \A q \in Procs \ {p} : SchemaOf(q)'
    BY OtherSchema
  <2>3. inherited' # {} => \A t \in Registries : \E l \in lineage' : l.table = t
    OBVIOUS
  <2>4. DOMAIN todo' = Procs
    OBVIOUS
  <2> QED
    BY <2>1, <2>2, <2>3, <2>4
<1>2. KeptInv'
  <2>1. pc'[p] = label /\ label \notin Moving
    BY DEF Moving, Ready
  <2>2. \A x \in Procs : pc'[x] \in Moving => pc[x] \in Moving
    BY <2>1
  <2>3. \A q \in Procs \ {p} : MovingOf(q)'
    BY <2>2, OtherMoving DEF KeptInv
  <2>4. MovingOf(p)'
    BY <2>1 DEF MovingOf, Moving
  <2> QED
    BY <2>3, <2>4, KeptStays DEF KeptInv
<1>3. ASSUME ~disturbed' PROVE Present'
  <2>1. ~disturbed /\ Present /\ pc[p] \notin {"recreate", "copy"}
    BY <1>3 DEF MigrationInv, Ready
  <2>2. ShapeOf(p)'
    BY <2>1 DEF Present, ShapeOf, Ready
  <2>3. \A q \in Procs \ {p} : ShapeOf(q)'
    BY <2>1, OtherShape DEF Present
  <2>4. shape' = "legacy" => rows' = inherited'
    BY <2>1 DEF Present, ShapeOf
  <2>5. ASSUME \A q \in Procs : pc'[q] \notin {"recreate", "copy"}, NEW old \in inherited
        PROVE  \E r \in rows' : SameKey(r, old)
    <3>1. PICK r \in rows : SameKey(r, old)
      BY <2>1, <2>5 DEF Present
    <3> QED
      BY <3>1 DEF SameKey
  <2> QED
    BY <2>2, <2>3, <2>4, <2>5 DEF Present
<1> QED
  BY <1>1, <1>2, <1>3

\* An upsert leaves a row for every version that had one.
LEMMA UpsertedKeys ==
  ASSUME NEW rec, rows' = Upserted(rec)
  PROVE  \A r \in rows : \E new \in rows' : SameKey(new, r)
<1> TAKE r \in rows
<1>1. CASE SameKey(rec, r) /\ rec \in rows'
  BY <1>1
<1>2. CASE ~(SameKey(rec, r) /\ rec \in rows')
  BY <1>2 DEF Upserted, get_dataset, SameKey
<1> QED
  BY <1>1, <1>2

\* The calls of an open handle.
LEMMA HandleSchema ==
  ASSUME RegistryInv, SchemaInv, KeptInv, ~disturbed => Present, NEW p \in Procs,
         \/ Publishing(p) \/ Resolving(p) \/ UpsertCompare(p)
         \/ \E rec \in Submission : UpsertDataset(p, rec)
         \/ \E row : UpsertOutput(p, row)
  PROVE  SchemaInv' /\ KeptInv' /\ (~disturbed => Present)'
<1>1. /\ pc[p] \in Ready
      /\ \E label \in Ready : Goto(p, label)
      /\ UNCHANGED <<shape, inherited, backup, missing, bindable, todo, disturbed>>
  <2> USE DEF CallBegin, Return, Proceed, Ready, tables, locals, counted
  <2>1. CASE Publishing(p)
    BY <2>1 DEF Publishing, PublishBegin, PublishVerify, SealCheck, SealWrite, PublishCommit
  <2>2. CASE Resolving(p)
    BY <2>2 DEF Resolving, ResolveBegin, ResolveBinding, ResolveVerify, ResolveLatest
  <2>3. CASE UpsertCompare(p) \/ \E rec \in Submission : UpsertDataset(p, rec)
    BY <2>3 DEF UpsertDataset, UpsertCompare
  <2>4. CASE \E row : UpsertOutput(p, row)
    BY <2>4 DEF UpsertOutput
  <2> QED
    BY <2>1, <2>2, <2>3, <2>4
<1>2. /\ UNCHANGED rows \/ \E rec : rows' = Upserted(rec)
      /\ UNCHANGED lineage \/ \E row : lineage' = {l \in lineage : l.table # row.table} \cup {row}
  <2> USE DEF tables
  <2>1. CASE Publishing(p)
    BY <2>1 DEF Publishing, PublishBegin, PublishVerify, SealCheck, SealWrite, PublishCommit
  <2>2. CASE Resolving(p)
    BY <2>2 DEF Resolving, ResolveBegin, ResolveBinding, ResolveVerify, ResolveLatest
  <2>3. CASE UpsertCompare(p) \/ \E rec \in Submission : UpsertDataset(p, rec)
    BY <2>3 DEF UpsertDataset, UpsertCompare
  <2>4. CASE \E row : UpsertOutput(p, row)
    BY <2>4 DEF UpsertOutput
  <2> QED
    BY <2>1, <2>2, <2>3, <2>4
<1>3. \A r \in rows : \E new \in rows' : SameKey(new, r)
  BY <1>2, UpsertedKeys DEF SameKey
<1>4. \A l \in lineage : \E new \in lineage' : new.table = l.table
  BY <1>2
<1> QED
  BY <1>1, <1>3, <1>4, CallSchema

\* Every step keeps the schema and the inherited rows.
LEMMA SchemaStep ==
  ASSUME RegistryInv, SchemaInv, KeptInv, ~disturbed => Present, [Next]_vars
  PROVE  SchemaInv' /\ KeptInv' /\ (~disturbed => Present)'
<1>1. ASSUME UNCHANGED <<tables, pc, todo, disturbed>>
      PROVE  SchemaInv' /\ KeptInv' /\ (~disturbed => Present)'
  <2>1. \A q \in Procs : SchemaOf(q) => SchemaOf(q)'
    BY <1>1 DEF SchemaOf, tables
  <2>2. \A q \in Procs : ShapeOf(q) => ShapeOf(q)'
    BY <1>1 DEF ShapeOf, tables
  <2>3. \A q \in Procs : MovingOf(q) => MovingOf(q)'
    BY <1>1 DEF MovingOf, tables, SameKey
  <2>4. SchemaInv'
    BY <1>1, <2>1 DEF SchemaInv, tables
  <2>5. KeptInv'
    BY <1>1, <2>3 DEF KeptInv, Kept, tables, SameKey
  <2>6. (~disturbed => Present)'
    BY <1>1, <2>2 DEF Present, tables, SameKey
  <2> QED
    BY <2>4, <2>5, <2>6
<1>2. CASE UNCHANGED vars
  BY <1>1, <1>2 DEF vars, locals, counted
<1>3. ASSUME NEW p \in Procs, Crash(p)
      PROVE  SchemaInv' /\ KeptInv' /\ (~disturbed => Present)'
  <2>1. /\ Goto(p, "closed") /\ UNCHANGED tables
        /\ todo' = [todo EXCEPT ![p] = <<>>]
        /\ disturbed' = (disturbed \/ pc[p] \in {"recreate", "copy"})
    BY <1>3 DEF Crash, Proceed
  <2> QED
    BY <2>1, CallSchema DEF tables, SameKey
<1>4. ASSUME NEW r \in Roots, WriteRoot(r) \/ Tamper(r)
      PROVE  SchemaInv' /\ KeptInv' /\ (~disturbed => Present)'
  BY <1>1, <1>4 DEF WriteRoot, Tamper, locals, counted
<1>5. ASSUME NEW p \in Procs, Opening(p)
      PROVE  SchemaInv' /\ KeptInv' /\ (~disturbed => Present)'
  <2>1. disturbed => disturbed'
    BY <1>5, OpeningMigration
  <2> QED
    BY <1>5, <2>1, OpeningSchema, OpeningKept, OpeningPresent
<1> QED
  BY <1>2, <1>3, <1>4, <1>5, HandleSchema DEF Next, upsert_feature, upsert_factor

-----------------------------------------------------------------------------
(* The theorems. *)

\* The invariant holds in every reachable state.
LEMMA InvariantHolds == Spec => []RegistryInv
<1>1. Init => RegistryInv
  BY InitInv
<1>2. RegistryInv /\ [Next]_vars => RegistryInv'
  BY NextStep
<1> QED
  BY <1>1, <1>2, PTL DEF Spec

\* So do the schema and the inherited rows.
LEMMA SchemaHolds == Spec => [](SchemaInv /\ KeptInv /\ (~disturbed => Present))
<1>1. Init => SchemaInv /\ KeptInv /\ (~disturbed => Present)
  BY InitSchema
<1>2. RegistryInv /\ (SchemaInv /\ KeptInv /\ (~disturbed => Present)) /\ [Next]_vars =>
        (SchemaInv /\ KeptInv /\ (~disturbed => Present))'
  BY SchemaStep
<1> QED
  BY <1>1, <1>2, InvariantHolds, PTL DEF Spec

\* However many publishers race or die, and whatever becomes of a migration, a
\* version is bound at most once; and to the sealed row that its transaction
\* wrote, as long as no migration was disturbed (publish_dataset,
\* upsert_dataset).
THEOREM VersionsAreBoundOnce == Spec => []BoundRowsAgree
<1>1. RegistryInv => BoundRowsAgree
  BY DEF RegistryInv
<1> QED
  BY <1>1, InvariantHolds, PTL

\* A resolve that begins after a publication answers with its root and bytes,
\* whatever is published, migrated or damaged meanwhile (dataset_ref,
\* verify_snapshot).
THEOREM ResolvesArePinned == Spec => []ResolveIsPinned
<1>1. RegistryInv => ResolveIsPinned
  BY DEF RegistryInv, ToldOf, ResolveIsPinned
<1> QED
  BY <1>1, InvariantHolds, PTL

\* A caller that is told that the version is bound is told the truth, also in the
\* middle of a migration (upsert_dataset, publish_dataset).
THEOREM RefusalsAreTrue == Spec => []RefusalIsTrue
<1>1. RegistryInv => RefusalIsTrue
  BY DEF RegistryInv, ToldOf, RefusalIsTrue
<1> QED
  BY <1>1, InvariantHolds, PTL

\* No step changes a binding; nor, as long as no migration was disturbed, the row
\* of a bound version ("sealed dataset binding cannot change; publish a new
\* version").
THEOREM BindingsStay == Spec => BindingsAreFinal
<1>1. RegistryInv /\ [Next]_vars => [Final]_vars
  BY NextStep
<1> QED
  BY <1>1, InvariantHolds, PTL DEF Spec, BindingsAreFinal, Final

\* Whatever opens overlap and die in the middle of their migrations, no dataset of
\* an earlier release is lost from both tables, and a handle that open() returned
\* finds every other table in its current form; dataset_manifest too, with every
\* inherited dataset, as long as no migration was disturbed (init and its
\* migrations).
THEOREM HandlesAreReady == Spec => []OpenIsReady
<1>1. RegistryInv /\ SchemaInv /\ KeptInv /\ (~disturbed => Present) => OpenIsReady
  <2> SUFFICES ASSUME RegistryInv, SchemaInv, KeptInv, ~disturbed => Present
               PROVE  OpenIsReady
    OBVIOUS
  <2>1. \A old \in inherited : \E kept \in rows \cup UNION backup : SameKey(kept, old)
    BY DEF KeptInv, Kept
  <2>2. ASSUME NEW p \in Procs, pc[p] \in Ready
        PROVE  /\ shape # "legacy" /\ bindable /\ missing = {}
               /\ inherited # {} => list_features # {} /\ list_factors # {}
               /\ ~disturbed => shape = "current" /\ \A old \in inherited : get_dataset(old) # {}
    <3>1. shape # "legacy" /\ bindable /\ missing = {}
      BY <2>2 DEF SchemaInv, SchemaOf, Ready
    <3>2. inherited # {} => list_features # {} /\ list_factors # {}
      BY DEF SchemaInv, Registries, list_features, list_factors
    <3>3. ASSUME ~disturbed PROVE shape = "current" /\ \A old \in inherited : get_dataset(old) # {}
      <4>1. shape = "current"
        BY <2>2, <3>3 DEF Present, ShapeOf
      <4>2. \A q \in Procs : ~Migrating(q)
        BY <2>2, <3>3 DEF RegistryInv, MigrationInv, Alone, Migrating, Ready
      <4>3. \A old \in inherited : get_dataset(old) # {}
        BY <3>3, <4>2 DEF Present, Migrating, get_dataset
      <4> QED
        BY <4>1, <4>3
    <3> QED
      BY <3>1, <3>2, <3>3
  <2> QED
    BY <2>1, <2>2 DEF OpenIsReady
<1> QED
  BY <1>1, InvariantHolds, SchemaHolds, PTL
=============================================================================
