---------------------------- MODULE CatalogTransfer ----------------------------
(***************************************************************************)
(* The catalog files shared by the commands that run beside each other:     *)
(* publishing commands, one per dataset, that read a whole table file,      *)
(* change a row and write the file back; upload, which copies objects to S3 *)
(* and the tables to another catalog; and apply-db, which reads the tables  *)
(* one after the other and writes them to PostgreSQL in one transaction.    *)
(* A table file is replaced atomically (os.replace), so a read sees one     *)
(* whole version of it.                                                     *)
(*                                                                         *)
(* An object stands for a Parquet file and the key it is stored under, its  *)
(* content for the bytes.  Runs, feeds, lineage and incidents are further   *)
(* tables of the same kind and are left out.                                *)
(***************************************************************************)
EXTENDS Naturals, Sequences, FiniteSets, SequencesExt

CONSTANTS
    Datasets,      \* the datasets, each with a publishing command of its own
    Outputs,       \* what may be published: a dataset, a period, the bytes
    MaxRevision,   \* bound: revisions of a dataset
    MaxCalls,      \* bound: publishing calls
    MaxUploads,    \* bound: uploads
    MaxFaults      \* bound: dead processes, failed collections and transactions

Revisions == 1..MaxRevision
Ids == Datasets \X Revisions
Objects == {[dataset |-> p[1], revision |-> r, period |-> p[2], content |-> p[3]] :
                p \in Outputs, r \in Revisions}
Statuses == {"BUILDING", "AVAILABLE", "SUPERSEDED", "QUARANTINED"}

(* sha256(b"BUILDING"), the dataset_hash of a manifest that is being built. *)
BuildingHash == {<<>>}
NoRow == [status |-> "none", hash |-> {}, lists |-> {}]
NoTable == <<>>

ASSUME TransferAssumption ==
    /\ \A p \in Outputs : p[1] \in Datasets
    /\ {MaxRevision, MaxCalls, MaxUploads, MaxFaults} \subseteq Nat

VARIABLES
    manifests,  \* dataset-manifests.jsonl; NoRow where there is no row
    storage,    \* storage-objects.jsonl: the objects it has a row of
    relations,  \* dataset-objects.jsonl: pairs of a manifest and an object
    rights,     \* providers.jsonl: "UNVERIFIED" or "APPROVED"
    local,      \* LocalObjectStore: objects
    bucket,     \* the S3 bucket: objects
    copy,       \* the destination catalog of upload
    db,         \* PostgreSQL
    pub,        \* the publishing command of a dataset
    upl,        \* the upload command
    app,        \* the apply-db command
    beside,     \* bound: which of the two runs beside the publishing commands;
                \* neither reads what the other writes
    calls, uploads, faults,
    (* history *)
    clobbered,  \* a table was written that had changed since it was read
    retried,    \* an attempt took over the manifest of a failed one
    copied      \* the last upload ended, and no table changed meanwhile

catalog == <<manifests, storage, relations, rights, local>>
vars == <<catalog, bucket, copy, db, pub, upl, app, beside, calls, uploads, faults,
          clobbered, retried, copied>>

-----------------------------------------------------------------------------
(* The tables as the readers see them. *)
Table == [manifests |-> manifests, storage |-> storage, relations |-> relations]

NoManifests == [id \in Ids |-> NoRow]
EmptyTables == [manifests |-> NoManifests, storage |-> {}, relations |-> {}]

Rows(m) == {id \in DOMAIN m : m[id] # NoRow}

(* canonical_dataset_hash: what each object holds, not where it is stored. *)
HashOf(objects) == {<<o.dataset, o.period, o.content>> : o \in objects}

(* objects_for_manifest. *)
Listed(id) == {o \in Objects : <<id, o>> \in relations}

(* latest_available_manifest: the revision, 0 when there is none. *)
Latest(d) ==
    LET available == {r \in Revisions : manifests[<<d, r>>].status = "AVAILABLE"}
    IN IF available = {} THEN 0 ELSE CHOOSE r \in available : \A q \in available : q <= r

Write(table, key, row) == [table |-> table, key |-> key, row |-> row]

(* The rows of a table once a row is added or replaced (upsert).  The id of a *)
(* dataset object is made of the manifest and the object.                    *)
UpsertedByObject(rows, w) ==
    IF w.table = "manifests" THEN [rows EXCEPT ![w.key] = w.row]
    ELSE IF w.table = "storage" THEN rows \cup {w.key}
    ELSE {r \in rows : r[2] # w.key[2]} \cup {w.key}
Upserted(rows, w) ==
    IF w.table = "manifests" THEN [rows EXCEPT ![w.key] = w.row] ELSE rows \cup {w.key}

Idle == [phase |-> "idle", id |-> <<>>, new |-> <<>>, todo |-> <<>>, held |-> NoTable]
IdleUpload == [phase |-> "idle", rows |-> {}, uploaded |-> {}, raced |-> FALSE]
IdleApply == [phase |-> "idle", ops |-> EmptyTables]

Init ==
    /\ manifests = NoManifests
    /\ storage = {} /\ relations = {} /\ local = {} /\ bucket = {}
    /\ rights = "UNVERIFIED"
    /\ copy = EmptyTables /\ db = EmptyTables
    /\ pub = [d \in Datasets |-> Idle]
    /\ upl = IdleUpload
    /\ app = IdleApply
    /\ beside \in {"upload", "apply"}
    /\ calls = 0 /\ uploads = 0 /\ faults = 0
    /\ clobbered = FALSE /\ retried = FALSE /\ copied = FALSE

-----------------------------------------------------------------------------
(* Publishing commands.  The engine resets the rights of the provider when  *)
(* it is constructed; the manifest of the next revision becomes BUILDING.    *)
Begin(d) ==
    LET id == <<d, Latest(d) + 1>>
    IN /\ pub[d].phase = "idle" /\ calls < MaxCalls /\ Latest(d) < MaxRevision
       /\ calls' = calls + 1
       /\ rights' = "UNVERIFIED"
       /\ retried' = (retried \/ manifests[id] # NoRow)
       /\ \E o \in Objects :
             /\ <<o.dataset, o.revision>> = id
             /\ pub' = [pub EXCEPT ![d] =
                 [phase |-> "building", id |-> id, new |-> o,
                  todo |-> << Write("manifests", id, [status |-> "BUILDING",
                                  hash |-> BuildingHash, lists |-> {}]) >>,
                  held |-> NoTable]]
       /\ UNCHANGED <<beside, manifests, storage, relations, local, bucket, copy, db, upl, app,
                      uploads, faults, clobbered, copied>>

(* LocalObjectStore.put rejects a key that holds other bytes. *)
KeyTaken(new) == \E o \in local : [o EXCEPT !.content = new.content] = new /\ o # new

(* The objects of the previous manifest that stay active. *)
RetainedAll(d, new) ==
    IF Latest(d) = 0 THEN {} ELSE Listed(<<d, Latest(d)>>)
Retained(d, new) ==
    IF Latest(d) = 0 THEN {}
    ELSE {o \in Listed(<<d, Latest(d)>>) : o.period # new.period}

(* For each object the storage row, then the row that relates it to the manifest. *)
RowsOf(id, objects) ==
    LET row == SetToSeq(objects)
    IN [i \in 1..(2 * Cardinality(objects)) |->
           IF i % 2 = 1 THEN Write("storage", row[(i + 1) \div 2], NoRow)
           ELSE Write("relations", <<id, row[i \div 2]>>, NoRow)]

Retired(d) ==
    IF Latest(d) = 0 THEN <<>>
    ELSE LET old == <<d, Latest(d)>>
         IN << Write("manifests", old, [manifests[old] EXCEPT !.status = "SUPERSEDED"]) >>

(* The new object is stored, or its group fails, and the rows to write are   *)
(* settled: objects first, then the manifest, then the one it replaces.     *)
Build(d) ==
    LET p == pub[d]
        retained == Retained(d, p.new)
    IN /\ p.phase = "building" /\ p.todo = <<>>
       /\ \E stored \in BOOLEAN :
             LET objects == IF stored THEN retained \cup {p.new} ELSE retained
                 final == [status |-> IF stored THEN "AVAILABLE" ELSE "QUARANTINED",
                           hash |-> HashOf(objects), lists |-> objects]
             IN /\ IF stored THEN ~KeyTaken(p.new) ELSE KeyTaken(p.new) \/ faults < MaxFaults
                /\ local' = IF stored THEN local \cup {p.new} ELSE local
                /\ faults' = IF stored \/ KeyTaken(p.new) THEN faults ELSE faults + 1
                /\ pub' = [pub EXCEPT ![d].phase = "writing", ![d].todo =
                        RowsOf(p.id, objects) \o << Write("manifests", p.id, final) >>
                            \o (IF stored THEN Retired(d) ELSE <<>>)]
       /\ UNCHANGED <<beside, manifests, storage, relations, rights, bucket, copy, db, upl, app,
                      calls, uploads, clobbered, retried, copied>>

(* LocalCatalog.upsert: the table is read ... *)
ReadTable(d) ==
    /\ pub[d].todo # <<>> /\ pub[d].held = NoTable
    /\ pub' = [pub EXCEPT ![d].held = <<Table[Head(pub[d].todo).table]>>]
    /\ UNCHANGED <<beside, catalog, bucket, copy, db, upl, app, calls, uploads, faults,
                   clobbered, retried, copied>>

(* ... and written with the changed row. *)
WriteTable(d) ==
    LET p == pub[d]
        w == Head(p.todo)
        rows == Upserted(Head(p.held), w)
    IN /\ p.todo # <<>> /\ p.held # NoTable
       /\ manifests' = IF w.table = "manifests" THEN rows ELSE manifests
       /\ storage' = IF w.table = "storage" THEN rows ELSE storage
       /\ relations' = IF w.table = "relations" THEN rows ELSE relations
       /\ clobbered' = (clobbered \/ Head(p.held) # Table[w.table])
       /\ upl' = [upl EXCEPT !.raced = upl.phase # "idle"]
       /\ pub' = [pub EXCEPT ![d] =
                      IF p.phase = "writing" /\ Len(p.todo) = 1 THEN Idle
                      ELSE [p EXCEPT !.todo = Tail(@), !.held = NoTable]]
       /\ UNCHANGED <<beside, rights, local, bucket, copy, db, app, calls, uploads, faults,
                      retried, copied>>

(* The command dies. *)
Dies(d) ==
    /\ pub[d].phase # "idle" /\ faults < MaxFaults
    /\ faults' = faults + 1
    /\ pub' = [pub EXCEPT ![d] = Idle]
    /\ UNCHANGED <<beside, catalog, bucket, copy, db, upl, app, calls, uploads, clobbered,
                   retried, copied>>

(* The review that README.md asks for before apply-db. *)
Approve ==
    /\ beside = "apply" /\ rights = "UNVERIFIED"
    /\ rights' = "APPROVED"
    /\ UNCHANGED <<beside, manifests, storage, relations, local, bucket, copy, db, pub, upl, app,
                   calls, uploads, faults, clobbered, retried, copied>>

-----------------------------------------------------------------------------
(* upload.  The storage rows are read, every object is put, ... *)
BeginUpload ==
    /\ beside = "upload" /\ upl.phase = "idle" /\ uploads < MaxUploads
    /\ uploads' = uploads + 1
    /\ upl' = [IdleUpload EXCEPT !.phase = "put", !.rows = storage]
    /\ copied' = FALSE
    /\ UNCHANGED <<beside, catalog, bucket, copy, db, pub, app, calls, faults, clobbered, retried>>

(* With --resume an object the bucket has already is put again as well. *)
PutSkippingFound(o) ==
    /\ upl.phase = "put" /\ o \in upl.rows
    /\ IF o \in bucket
       THEN /\ upl' = [upl EXCEPT !.rows = @ \ {o}]
            /\ UNCHANGED bucket
       ELSE /\ bucket' = bucket \cup {o}
            /\ upl' = [upl EXCEPT !.rows = @ \ {o}, !.uploaded = @ \cup {o}]
    /\ UNCHANGED <<beside, catalog, copy, db, pub, app, calls, uploads, faults, clobbered,
                   retried, copied>>
Put(o) ==
    /\ upl.phase = "put" /\ o \in upl.rows
    /\ bucket' = bucket \cup {o}
    /\ upl' = [upl EXCEPT !.rows = @ \ {o}, !.uploaded = @ \cup {o}]
    /\ UNCHANGED <<beside, catalog, copy, db, pub, app, calls, uploads, faults, clobbered,
                   retried, copied>>

(* ... and the rows are copied, in the order of TABLE_FILES. *)
CopyManifests ==
    /\ upl.phase = "put" /\ upl.rows = {}
    /\ copy' = [copy EXCEPT !.manifests =
                    [id \in Ids |-> IF manifests[id] # NoRow THEN manifests[id] ELSE @[id]]]
    /\ upl' = [upl EXCEPT !.phase = "storage"]
    /\ UNCHANGED <<beside, catalog, bucket, db, pub, app, calls, uploads, faults, clobbered,
                   retried, copied>>

CopyStorage ==
    /\ upl.phase = "storage"
    /\ copy' = [copy EXCEPT !.storage = @ \cup upl.uploaded]
    /\ upl' = [upl EXCEPT !.phase = "relations"]
    /\ UNCHANGED <<beside, catalog, bucket, db, pub, app, calls, uploads, faults, clobbered,
                   retried, copied>>

CopyRelations ==
    /\ upl.phase = "relations"
    /\ copy' = [copy EXCEPT !.relations = @ \cup relations]
    /\ copied' = ~upl.raced
    /\ upl' = IdleUpload
    /\ UNCHANGED <<beside, catalog, bucket, db, pub, app, calls, uploads, faults, clobbered, retried>>

(* It dies, between two objects or within a table it copies row by row. *)
UploadDies ==
    /\ upl.phase # "idle" /\ faults < MaxFaults
    /\ faults' = faults + 1
    /\ \/ /\ upl.phase = "put" /\ upl.rows = {}
          /\ \E ids \in SUBSET Rows(manifests) :
                copy' = [copy EXCEPT !.manifests =
                             [id \in Ids |-> IF id \in ids THEN manifests[id] ELSE @[id]]]
       \/ /\ upl.phase = "storage"
          /\ \E rows \in SUBSET upl.uploaded : copy' = [copy EXCEPT !.storage = @ \cup rows]
       \/ /\ upl.phase = "relations"
          /\ \E rows \in SUBSET relations : copy' = [copy EXCEPT !.relations = @ \cup rows]
       \/ /\ upl.phase = "put" /\ upl.rows # {}
          /\ UNCHANGED copy
    /\ upl' = IdleUpload
    /\ UNCHANGED <<beside, catalog, bucket, db, pub, app, calls, uploads, clobbered, retried, copied>>

-----------------------------------------------------------------------------
(* apply-db.  The tables are read in the order of ordered_tables. *)
BeginApply ==
    /\ beside = "apply" /\ app.phase = "idle"
    /\ app' = [phase |-> "storage", ops |-> [EmptyTables EXCEPT !.manifests = manifests]]
    /\ UNCHANGED <<beside, catalog, bucket, copy, db, pub, upl, calls, uploads, faults,
                   clobbered, retried, copied>>

ReadStorage ==
    /\ app.phase = "storage"
    /\ app' = [app EXCEPT !.phase = "relations", !.ops.storage = storage]
    /\ UNCHANGED <<beside, catalog, bucket, copy, db, pub, upl, calls, uploads, faults,
                   clobbered, retried, copied>>

ReadRelations ==
    /\ app.phase = "relations"
    /\ app' = [app EXCEPT !.phase = "check", !.ops.relations = relations]
    /\ UNCHANGED <<beside, catalog, bucket, copy, db, pub, upl, calls, uploads, faults,
                   clobbered, retried, copied>>

(* Two manifests of one dataset_hash, which is UNIQUE in the database. *)
DuplicateHashes(m) ==
    \E a, b \in Rows(m) : a # b /\ m[a].hash = m[b].hash

(* The manifests and the rights are read again; the files of the storage    *)
(* rows are opened.                                                        *)
CheckRereading ==
    /\ app.phase = "check"
    /\ app' = IF ~DuplicateHashes(manifests) /\ rights = "APPROVED" /\ storage \subseteq local
              THEN [app EXCEPT !.phase = "commit", !.ops.manifests = manifests] ELSE IdleApply
    /\ UNCHANGED <<beside, catalog, bucket, copy, db, pub, upl, calls, uploads, faults,
                   clobbered, retried, copied>>
Check ==
    /\ app.phase = "check"
    /\ app' = IF ~DuplicateHashes(manifests) /\ rights = "APPROVED" /\ storage \subseteq local
              THEN [app EXCEPT !.phase = "commit"] ELSE IdleApply
    /\ UNCHANGED <<beside, catalog, bucket, copy, db, pub, upl, calls, uploads, faults,
                   clobbered, retried, copied>>

(* ON CONFLICT (id) DO UPDATE, row by row. *)
AppliedKeeping(ops) ==
    [manifests |-> [id \in Ids |-> IF db.manifests[id] = NoRow THEN ops.manifests[id]
                                   ELSE db.manifests[id]],
     storage |-> db.storage \cup ops.storage,
     relations |-> db.relations \cup ops.relations]
Applied(ops) ==
    [manifests |-> [id \in Ids |-> IF ops.manifests[id] = NoRow THEN db.manifests[id]
                                   ELSE ops.manifests[id]],
     storage |-> db.storage \cup ops.storage,
     relations |-> db.relations \cup ops.relations]

(* The foreign keys of dataset_objects, and UNIQUE (dataset_hash). *)
Constrained(tables) ==
    /\ \A r \in tables.relations : r[1] \in Rows(tables.manifests) /\ r[2] \in tables.storage
    /\ ~DuplicateHashes(tables.manifests)

(* A row that gets the hash another row has until that one is updated too     *)
(* violates UNIQUE as well, when it comes first in the file.                 *)
Swaps(ops) ==
    \E a, b \in Rows(ops.manifests) :
        a # b /\ db.manifests[b] # NoRow /\ ops.manifests[a].hash = db.manifests[b].hash

(* One transaction: all of it or nothing. *)
Commit ==
    /\ app.phase = "commit"
    /\ Constrained(Applied(app.ops))
    /\ db' = Applied(app.ops)
    /\ app' = IdleApply
    /\ UNCHANGED <<beside, catalog, bucket, copy, pub, upl, calls, uploads, faults, clobbered,
                   retried, copied>>

Abort ==
    /\ app.phase = "commit"
    /\ \/ (~Constrained(Applied(app.ops)) \/ Swaps(app.ops)) /\ UNCHANGED faults
       \/ faults < MaxFaults /\ faults' = faults + 1
    /\ app' = IdleApply
    /\ UNCHANGED <<beside, catalog, bucket, copy, db, pub, upl, calls, uploads, clobbered,
                   retried, copied>>

-----------------------------------------------------------------------------
Publish(d) == Begin(d) \/ Build(d) \/ ReadTable(d) \/ WriteTable(d) \/ Dies(d)

Upload == BeginUpload \/ (\E o \in Objects : Put(o)) \/ CopyManifests \/ CopyStorage
              \/ CopyRelations \/ UploadDies

ApplyStep == ReadStorage \/ ReadRelations \/ Check \/ Commit \/ Abort
Apply == BeginApply \/ ApplyStep

(* Bound: the model ends where a lost update is written, after which the     *)
(* properties promise nothing.                                             *)
Next == ~clobbered /\ ((\E d \in Datasets : Publish(d)) \/ Approve \/ Upload \/ Apply)

Spec == Init /\ [][Next]_vars

(* apply-db runs on and is repeated, and so is the review before it. *)
FairSpec == Spec /\ WF_vars(BeginApply) /\ WF_vars(ApplyStep) /\ WF_vars(Approve)

-----------------------------------------------------------------------------
(* Rows of manifests, storage and relations are of objects that exist, and    *)
(* bytes are stored before their row.                                        *)
TypeOK ==
    /\ DOMAIN manifests = Ids
    /\ storage \subseteq local /\ local \subseteq Objects
    /\ relations \subseteq Ids \X Objects

Complete(tables) ==
    \A id \in Ids : tables.manifests[id].status = "AVAILABLE" =>
        \A o \in tables.manifests[id].lists : o \in tables.storage /\ <<id, o>> \in tables.relations

(* No lost update: while no two commands wrote a table over each other, a    *)
(* manifest that readers take has the rows of what it was hashed over        *)
(* (LocalCatalog.upsert), whatever dies in between.                          *)
CatalogIsComplete == clobbered \/ Complete(Table)

(* validate_catalog recomputes the hash of every manifest from its rows: a   *)
(* catalog whose attempts all ended, none of them at the second try, passes. *)
ValidationErrors ==
    {id \in Rows(manifests) :
        \/ \E o \in Listed(id) : o \notin storage \/ o \notin local
        \/ \E o, q \in Listed(id) : o # q /\ o.period = q.period
        \/ manifests[id].hash # HashOf(Listed(id))}
Ended == \A d \in Datasets : pub[d].phase = "idle"
Building == {id \in Ids : manifests[id].status = "BUILDING"}
ValidWhenEnded ==
    Ended /\ Building = {} /\ ~clobbered /\ ~retried => ValidationErrors = {}

(* Once an upload ended that no publishing command wrote beside, a manifest  *)
(* that the destination catalog offers has all its rows, whatever earlier    *)
(* uploads left there.                                                       *)
CopyIsComplete == copied /\ ~clobbered => Complete(copy)

(* A manifest that is AVAILABLE in the database has all its rows there,      *)
(* although the tables are read one after the other beside the publishing    *)
(* commands (apply_catalog_to_postgres).                                     *)
AppliedIsComplete == clobbered \/ Complete(db)

(* Nothing that publishing commands, deaths and earlier transactions leave in *)
(* the tables makes a foreign key fail: PostgreSQL rolls apply-db back only   *)
(* when a table changed between its reads, or for the hashes that the unique  *)
(* index rejects (apply_catalog_to_postgres).                                *)
AbortsForCause ==
    [][Abort /\ UNCHANGED faults =>
          app.ops # Table \/ DuplicateHashes(manifests) \/ Swaps(app.ops)]_vars

(* When the catalog settles, no two of its rows having one hash nor a row the *)
(* hash that another still has in the database, repeated calls of apply-db    *)
(* bring the database to it, although every publishing command takes the     *)
(* approval of the rights back (apply_catalog_to_postgres).                  *)
Settled ==
    Ended /\ Building = {} /\ ~DuplicateHashes(manifests) /\ ~Swaps(Table) /\ ~clobbered
DatabaseAgrees ==
    /\ \A id \in Rows(manifests) : db.manifests[id] = manifests[id]
    /\ storage \subseteq db.storage /\ relations \subseteq db.relations
ApplyCatchesUp == beside = "apply" /\ <>[]Settled => <>[]DatabaseAgrees
================================================================================
