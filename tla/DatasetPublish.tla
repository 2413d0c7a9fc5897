--------------------------- MODULE DatasetPublish ---------------------------
(***************************************************************************)
(* One dataset (one DatasetContract and one year) of the official pipeline: *)
(* the object store, the local catalog, and MarketPipelineEngine.           *)
(* publish_dataset, the function through which backfill, incremental,       *)
(* derive, migrate_legacy and compact all publish.                          *)
(*                                                                         *)
(* The catalog is a directory of JSONL files; every catalog call rewrites   *)
(* one file atomically, so every catalog call is one step here and the      *)
(* process may die between any two of them.                                 *)
(***************************************************************************)
EXTENDS Naturals, FiniteSets

CONSTANTS
    Periods,            \* partitions: records [start, end), in days
    Batches,            \* the sets of periods a call may replace
    Shards,             \* shard keys; a further part of a shard is one more shard
    Contents,           \* what a Parquet file can hold, up to its SHA-256
    MaxRevision,        \* bound: revisions a behaviour may reach
    ExplicitRevisions,  \* values of PipelineConfig.revision; {} = always None
    MaxFailures         \* bound: crashes, I/O errors, bad data, failed callers

Revisions == 1..MaxRevision

ASSUME PeriodsAssumption == Periods \subseteq [start : Nat, end : Nat]
ASSUME BatchesAssumption == Batches \subseteq SUBSET Periods
ASSUME RevisionAssumption == MaxRevision \in Nat /\ ExplicitRevisions \subseteq Nat
ASSUME FailuresAssumption == MaxFailures \in Nat

VARIABLES
    store,      \* files under local_root: a set of objects, named by ObjectKey
    storage,    \* storage-objects.jsonl
    members,    \* dataset-objects.jsonl: the objects related to each manifest
    provenance, \* pipeline-run-outputs and dataset-object-lineage rows, by manifest
    manifest,   \* dataset-manifests.jsonl, by revision
    incidents,  \* quality-incidents.jsonl: the manifests with an ERROR on record
    failures,   \* how many failures have happened
    (* local variables of the publish_dataset call in progress *)
    pc, revision, previous, previousRecord, replaced, todo, fresh,
    flawed, snapshot, unstaged, current

catalogVars == <<storage, members, provenance, manifest, incidents>>
callVars == <<revision, previous, previousRecord, replaced, todo, fresh,
              flawed, snapshot, unstaged, current>>
vars == <<store, catalogVars, failures, pc, callVars>>

-----------------------------------------------------------------------------
(* An object's place in a dataset, a group of rows to publish there, and an *)
(* object: its key names the revision it was first written for.             *)
Slots   == [period : Periods, shard : Shards]
Groups  == [slot : Slots, content : Contents]
Objects == [revision : Revisions, slot : Slots, content : Contents]

ObjectKey(o) == <<o.revision, o.slot>>

NoObject == [revision |-> 0]
NoManifest == [status |-> "ABSENT", hash |-> {}, supersedes |-> 0]

(* Two half-open day ranges share a day. *)
Overlaps(p, q) == p.start < q.end /\ q.start < p.end

Covered(o, periods) == \E p \in periods : Overlaps(o.slot.period, p)

Available == {r \in Revisions : manifest[r].status = "AVAILABLE"}

(* Mutant: the latest manifest whatever its status. *)
IsLatestOfAny(r) ==
    LET known == {s \in Revisions : manifest[s].status # "ABSENT"} IN
    \/ r \in known /\ \A s \in known : s <= r
    \/ r = 0 /\ known = {}

(* LocalCatalog.latest_available_manifest; 0 stands for None. *)
IsLatest(r) ==
    \/ r \in Available /\ \A s \in Available : s <= r
    \/ r = 0 /\ Available = {}

(* Mutant: the latest revision is published again. *)
LatestRevisionAgain(latest) == Revisions \cap {IF latest = 0 THEN 1 ELSE latest}

(* The revisions _next_revision can return after the latest available one. *)
NextRevision(latest) ==
    Revisions \cap ({latest + 1} \cup {x \in ExplicitRevisions : x >= latest})

(* Mutant: replaced ranges taken as closed. *)
RetainedFromClosedRanges ==
    IF previous = 0 THEN {}
    ELSE {o \in members[previous] : \A p \in replaced :
              ~(o.slot.period.start <= p.end /\ p.start <= o.slot.period.end)}

(* Mutant: only an object of a replaced partition itself is dropped. *)
RetainedBySamePartition ==
    IF previous = 0 THEN {}
    ELSE {o \in members[previous] : o.slot.period \notin replaced}

(* The objects of the previous manifest outside the replaced periods. *)
Retained ==
    IF previous = 0 THEN {}
    ELSE {o \in members[previous] : ~Covered(o, replaced)}

(* Groups and objects are lists in the code, sorted by day and shard: the   *)
(* model takes them in one fixed order.                                    *)
FirstOf(S) == CHOOSE x \in S : TRUE

-----------------------------------------------------------------------------
IdleCall ==
    /\ revision = 0 /\ previous = 0 /\ previousRecord = NoManifest
    /\ replaced = {} /\ todo = {} /\ fresh = {} /\ flawed = FALSE
    /\ snapshot = {} /\ unstaged = {} /\ current = NoObject

Init ==
    /\ store = {}
    /\ storage = {}
    /\ members = [r \in Revisions |-> {}]
    /\ provenance = [r \in Revisions |-> {}]
    /\ manifest = [r \in Revisions |-> NoManifest]
    /\ incidents = {}
    /\ failures = 0
    /\ pc = "idle"
    /\ IdleCall

(* Leaving publish_dataset, normally or not: its locals are gone. *)
EndCall ==
    /\ pc' = "idle"
    /\ revision' = 0 /\ previous' = 0 /\ previousRecord' = NoManifest
    /\ replaced' = {} /\ todo' = {} /\ fresh' = {} /\ flawed' = FALSE
    /\ snapshot' = {} /\ unstaged' = {} /\ current' = NoObject

(* One more failure, within the bound. *)
Fail == failures < MaxFailures /\ failures' = failures + 1

(* Mutant: the manifest served so far is retired before its successor exists. *)
BeginByRetiring(periods, groups, callerFailed) ==
    /\ pc = "idle"
    /\ \E latest \in 0..MaxRevision :
        /\ IsLatest(latest)
        /\ \E r \in NextRevision(latest) :
            /\ revision' = r
            /\ previous' = latest
            /\ previousRecord' = IF latest = 0 THEN NoManifest ELSE manifest[latest]
            /\ manifest' = [s \in Revisions |->
                   IF s = r THEN [status |-> "BUILDING", hash |-> {},
                                  supersedes |-> latest]
                   ELSE IF s = latest
                   THEN [manifest[s] EXCEPT !.status = "SUPERSEDED"]
                   ELSE manifest[s]]
    /\ replaced' = periods
    /\ todo' = groups
    /\ flawed' = callerFailed
    /\ IF callerFailed THEN Fail ELSE UNCHANGED failures
    /\ pc' = "write"
    /\ UNCHANGED <<store, storage, members, provenance, incidents, fresh, snapshot,
                   unstaged, current>>

(* publish_dataset up to the BUILDING manifest.  The caller supplies the    *)
(* periods it replaces, the groups of rows for them, and whether its own    *)
(* collection failed (an ERROR among additional_incidents).                 *)
BeginPublish(periods, groups, callerFailed) ==
    /\ pc = "idle"
    /\ \E latest \in 0..MaxRevision :
        /\ IsLatest(latest)
        /\ \E r \in NextRevision(latest) :
            /\ revision' = r
            /\ previous' = latest
            /\ previousRecord' = IF latest = 0 THEN NoManifest ELSE manifest[latest]
            /\ manifest' = [manifest EXCEPT ![r] =
                   [status |-> "BUILDING", hash |-> {}, supersedes |-> latest]]
    /\ replaced' = periods
    /\ todo' = groups
    /\ flawed' = callerFailed
    /\ IF callerFailed THEN Fail ELSE UNCHANGED failures
    /\ pc' = "write"
    /\ UNCHANGED <<store, storage, members, provenance, incidents, fresh, snapshot,
                   unstaged, current>>

NewObjectOf(g) ==
    [revision |-> revision, slot |-> g.slot, content |-> g.content]

(* A file with other bytes already stands at the object's key. *)
KeyTaken(o) ==
    \E x \in store : ObjectKey(x) = ObjectKey(o) /\ x # o

(* Mutant: put replaces a file that stands at the key. *)
PutOverwrites ==
    /\ pc = "write" /\ todo # {}
    /\ LET g == FirstOf(todo)
           o == NewObjectOf(g)
       IN  /\ store' = {x \in store : ObjectKey(x) # ObjectKey(o)} \cup {o}
           /\ fresh' = fresh \cup {o}
           /\ todo' = todo \ {g}
    /\ UNCHANGED <<catalogVars, failures, pc, revision, previous, previousRecord,
                   replaced, flawed, snapshot, unstaged, current>>

(* LocalObjectStore.put and verify: an existing file with the same bytes is *)
(* reused, a missing one is moved into place by one os.replace.             *)
PutObject ==
    /\ pc = "write" /\ todo # {}
    /\ LET g == FirstOf(todo)
           o == NewObjectOf(g)
       IN  /\ ~KeyTaken(o)
           /\ store' = store \cup {o}
           /\ fresh' = fresh \cup {o}
           /\ todo' = todo \ {g}
    /\ UNCHANGED <<catalogVars, failures, pc, revision, previous, previousRecord,
                   replaced, flawed, snapshot, unstaged, current>>

(* The group yields no object: quality_issues found an ERROR, the disk      *)
(* failed (perhaps only after put had moved the file into place), or the    *)
(* key holds other bytes.  Each becomes an ERROR incident.                  *)
GroupFails ==
    /\ pc = "write" /\ todo # {}
    /\ LET g == FirstOf(todo)
           o == NewObjectOf(g)
       IN  /\ IF KeyTaken(o) THEN UNCHANGED <<store, failures>>
              ELSE Fail /\ store' \in {store, store \cup {o}}
           /\ todo' = todo \ {g}
    /\ flawed' = TRUE
    /\ UNCHANGED <<catalogVars, pc, revision, previous, previousRecord,
                   replaced, fresh, snapshot, unstaged, current>>

(* Mutant: retained objects are not staged under the new manifest. *)
StageFreshOnly ==
    /\ pc = "write" /\ todo = {}
    /\ snapshot' = Retained \cup fresh
    /\ unstaged' = fresh
    /\ pc' = "stage"
    /\ UNCHANGED <<failures, store, catalogVars, revision, previous,
                   previousRecord, replaced, todo, fresh, flawed, current>>

(* All groups are done: the manifest's objects are what the previous        *)
(* manifest keeps plus what was written.                                    *)
ComputeSnapshot ==
    /\ pc = "write" /\ todo = {}
    /\ snapshot' = Retained \cup fresh
    /\ unstaged' = Retained \cup fresh
    /\ pc' = "stage"
    /\ UNCHANGED <<failures, store, catalogVars, revision, previous, previousRecord,
                   replaced, todo, fresh, flawed, current>>

(* stage_object, first write: the storage row.  Retained objects come first. *)
StageStorage ==
    /\ pc = "stage" /\ unstaged # {}
    /\ LET o == FirstOf(IF unstaged \subseteq fresh THEN unstaged
                        ELSE unstaged \ fresh)
       IN  storage' = storage \cup {o} /\ current' = o
    /\ pc' = "relate"
    /\ UNCHANGED <<failures, store, members, provenance, manifest, incidents,
                   revision, previous, previousRecord, replaced, todo, fresh, flawed, snapshot,
                   unstaged>>

(* stage_object, second write: the dataset_objects row. *)
StageRelation ==
    /\ pc = "relate"
    /\ members' = [members EXCEPT ![revision] = @ \cup {current}]
    /\ IF current \in fresh
       THEN pc' = "trace" /\ UNCHANGED <<unstaged, current>>
       ELSE /\ pc' = "stage"
            /\ unstaged' = unstaged \ {current}
            /\ current' = NoObject
    /\ UNCHANGED <<failures, store, storage, provenance, manifest, incidents,
                   revision, previous, previousRecord, replaced, todo, fresh,
                   flawed, snapshot>>

(* A new object's run output and source objects. *)
RecordProvenance ==
    /\ pc = "trace"
    /\ provenance' = [provenance EXCEPT ![revision] = @ \cup {current}]
    /\ unstaged' = unstaged \ {current}
    /\ current' = NoObject
    /\ pc' = "stage"
    /\ UNCHANGED <<failures, store, storage, members, manifest, incidents,
                   revision, previous, previousRecord, replaced, todo, fresh,
                   flawed, snapshot>>

(* The call's incidents, recorded before its manifest. *)
RecordIncidents ==
    /\ pc = "stage" /\ unstaged = {} /\ flawed
    /\ incidents' = incidents \cup {revision}
    /\ pc' = "report"
    /\ UNCHANGED <<failures, store, storage, members, provenance, manifest,
                   callVars>>

(* Mutant: a manifest without objects becomes AVAILABLE. *)
OutcomeIgnoringEmpty == IF ~flawed THEN "AVAILABLE" ELSE "QUARANTINED"

Outcome == IF snapshot # {} /\ ~flawed THEN "AVAILABLE" ELSE "QUARANTINED"

FinalManifest ==
    [status |-> Outcome, hash |-> snapshot, supersedes |-> previous]

(* Mutant: the previous manifest is never retired. *)
PublishAndReturn ==
    /\ pc = "report" \/ (pc = "stage" /\ unstaged = {} /\ ~flawed)
    /\ manifest' = [manifest EXCEPT ![revision] = FinalManifest]
    /\ EndCall
    /\ UNCHANGED <<failures, store, storage, members, provenance, incidents>>

(* The final manifest record; the call goes on only to retire the previous  *)
(* manifest of a dataset that became AVAILABLE.                             *)
PublishManifest ==
    /\ pc = "report" \/ (pc = "stage" /\ unstaged = {} /\ ~flawed)
    /\ manifest' = [manifest EXCEPT ![revision] = FinalManifest]
    /\ IF Outcome = "AVAILABLE" /\ previous # 0
       THEN pc' = "supersede" /\ UNCHANGED callVars
       ELSE EndCall
    /\ UNCHANGED <<failures, store, storage, members, provenance, incidents>>

(* The record read when the call began is written back as SUPERSEDED. *)
SupersedePrevious ==
    /\ pc = "supersede"
    /\ manifest' = [manifest EXCEPT ![previous] =
                        [previousRecord EXCEPT !.status = "SUPERSEDED"]]
    /\ EndCall
    /\ UNCHANGED <<failures, store, storage, members, provenance, incidents>>

(* The process dies, or an exception escapes publish_dataset. *)
Crash ==
    /\ pc # "idle" /\ Fail
    /\ EndCall
    /\ UNCHANGED <<store, catalogVars>>

-----------------------------------------------------------------------------
(* What the callers pass: rows for some slots of the periods they replace. *)
IsCall(periods, groups) ==
    /\ \A g \in groups : g.slot.period \in periods
    /\ \A g, h \in groups : g.slot = h.slot => g = h

Call ==
    \E periods \in Batches :
        \E groups \in SUBSET {g \in Groups : g.slot.period \in periods} :
            \E callerFailed \in BOOLEAN :
                /\ IsCall(periods, groups)
                /\ BeginPublish(periods, groups, callerFailed)

(* The steps of a call in progress, without its failure. *)
Step ==
    \/ PutObject
    \/ GroupFails
    \/ ComputeSnapshot
    \/ StageStorage
    \/ StageRelation
    \/ RecordProvenance
    \/ RecordIncidents
    \/ PublishManifest
    \/ SupersedePrevious

Next == Call \/ Step \/ Crash

Spec == Init /\ [][Next]_vars

(* A call, once made, runs: the engine is a sequential Python process. *)
FairSpec == Spec /\ WF_vars(Step)
-----------------------------------------------------------------------------
(***************************************************************************)
(* Properties.                                                             *)
(***************************************************************************)
Statuses == {"ABSENT", "BUILDING", "AVAILABLE", "QUARANTINED", "SUPERSEDED"}

ManifestRecords ==
    [status : Statuses, hash : SUBSET Objects, supersedes : 0..MaxRevision]

(* The type invariant of the catalog, the store and the call's locals. *)
TypeOK ==
    /\ store \subseteq Objects
    /\ storage \subseteq Objects
    /\ members \in [Revisions -> SUBSET Objects]
    /\ provenance \in [Revisions -> SUBSET Objects]
    /\ manifest \in [Revisions -> ManifestRecords]
    /\ incidents \subseteq Revisions
    /\ pc \in {"idle", "write", "stage", "relate", "trace", "report", "supersede"}
    /\ revision \in 0..MaxRevision
    /\ pc # "idle" => revision \in Revisions
    /\ failures \in Nat
    /\ previous \in 0..MaxRevision
    /\ previousRecord \in ManifestRecords
    /\ replaced \subseteq Periods
    /\ todo \subseteq Groups
    /\ fresh \subseteq Objects
    /\ flawed \in BOOLEAN
    /\ snapshot \subseteq Objects
    /\ unstaged \subseteq Objects
    /\ current \in Objects \cup {NoObject}
    /\ pc \in {"relate", "trace"} => current \in Objects

(* A manifest readers may use: AVAILABLE, or SUPERSEDED and pinned by an    *)
(* old backtest.                                                           *)
Readable(r) == manifest[r].status \in {"AVAILABLE", "SUPERSEDED"}

(* A key of the object store never names two different contents. *)
KeysNameOneObject ==
    \A a, b \in store : ObjectKey(a) = ObjectKey(b) => a = b

(* Whatever crashed or failed before: every object a readable manifest was  *)
(* hashed over is in its inventory, every inventory row has its storage     *)
(* row, and every storage row's bytes are in the store, under a key no      *)
(* other content can take.                                                 *)
Backed ==
    /\ \A r \in Revisions : Readable(r) => manifest[r].hash \subseteq members[r]
    /\ \A r \in Revisions : members[r] \subseteq storage
    /\ storage \subseteq store
    /\ KeysNameOneObject

(* A readable manifest never changes again, whatever calls, failures and    *)
(* retries follow: same hash, same inventory, never back to BUILDING or     *)
(* QUARANTINED (publish_dataset only rewrites revisions that failed).       *)
KeepsReadable ==
    \A r \in Revisions : Readable(r) =>
        /\ manifest'[r].status \in {"AVAILABLE", "SUPERSEDED"}
        /\ manifest'[r].hash = manifest[r].hash
        /\ manifest'[r].supersedes = manifest[r].supersedes
        /\ members'[r] = members[r]

ReadableIsFrozen == [][KeepsReadable]_vars

(* Readers of the latest AVAILABLE manifest never lose the dataset and      *)
(* never see an older revision than before.                                *)
KeepsServing == \A r \in Available : \E s \in Available' : s >= r

ServedNeverRegresses == [][KeepsServing]_vars

(* A readable manifest that supersedes another supersedes an older one      *)
(* that was readable itself: failed attempts never enter the chain.         *)
ChainIsReadable ==
    \A r \in Revisions : Readable(r) =>
        LET s == manifest[r].supersedes IN
        s # 0 => s < r /\ Readable(s)

(* When a new revision becomes AVAILABLE, no object of the revision served  *)
(* before is lost unless its partition overlaps a replaced period.          *)
NothingElseDropped ==
    [][\A r \in Available' \ Available : previous # 0 =>
          \A o \in members[previous] : ~Covered(o, replaced) => o \in members'[r]]_vars

(* The inventory a reader lists for a readable manifest is what the         *)
(* manifest was hashed over.                                               *)
InventoryIsHashed ==
    \A r \in Revisions : Readable(r) => members[r] = manifest[r].hash

(* No two objects of a readable manifest give bars for the same shard and   *)
(* time.                                                                   *)
OneGranularityPerTime ==
    \A r \in Revisions : Readable(r) =>
        \A a, b \in members[r] :
            a.slot.shard = b.slot.shard /\ Overlaps(a.slot.period, b.slot.period)
                => a = b

(* Between calls, one manifest of the dataset at most is AVAILABLE. *)
OneAvailable ==
    pc = "idle" => Cardinality(Available) <= 1

LatestRevision == CHOOSE r \in 0..MaxRevision : IsLatest(r)

(* The snapshots of the latest AVAILABLE manifest are a SnapshotSeries. *)
Series == INSTANCE SnapshotSeries WITH
    served <- LatestRevision,
    content <- IF LatestRevision = 0 THEN {} ELSE members[LatestRevision]

IsSnapshotSeries == Series!Spec

(* Failures, crashes and retries leave it one: every step that ends with     *)
(* inventories as they were hashed publishes the next snapshot whole, or     *)
(* leaves readers where they are.                                           *)
StaysSeries == [][InventoryIsHashed' => [Series!Next]_(Series!svars)]_vars
=============================================================================
