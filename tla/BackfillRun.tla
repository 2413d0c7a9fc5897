----------------------------- MODULE BackfillRun -----------------------------
(***************************************************************************)
(* The backfill command of the official pipeline, for one idempotency key   *)
(* and one price type: MarketPipelineEngine.backfill collects staging       *)
(* fragments from Alpaca chunk by chunk, then publishes every year's 30m    *)
(* dataset and the datasets derived from it.  An operator repeats the       *)
(* command, perhaps for other symbols, until it succeeds; Alpaca requests   *)
(* may fail and the process may die anywhere.                              *)
(*                                                                         *)
(* publish_dataset is one step here: DatasetPublish has its inner steps.    *)
(***************************************************************************)
EXTENDS Naturals, FiniteSets

CONSTANTS
    SymbolCount,   \* mapped instruments, in the order they are collected
    YearCount,     \* years of the requested range
    ChunkCount,    \* 180-day chunks of the requested range
    CoversOf,      \* the years that the bars of a chunk may fall in
    MarkedBy,      \* the years from a chunk's start to its end, both included
    ShardOf,       \* stable_shard_key of a symbol's instrument
    DerivedCount,  \* how many of 1h, 4h and 1d are asked for
    Bars,          \* what Alpaca has: the fragments that are not empty
    Requests,      \* the sets of symbols the command is run for
    ResumeFlags,   \* whether it is run with --resume
    MaxRevision,       \* bound: revisions of a dataset
    MaxFetchFailures,  \* bound: chunks that fail
    MaxCrashes         \* bound: dead processes

Symbols == 1..SymbolCount
Years == 1..YearCount
Chunks == 1..ChunkCount
Revisions == 1..MaxRevision
Jobs == [symbol : Symbols, chunk : Chunks]

(* A staging file: the rows of one chunk of one symbol in one year. *)
Fragments == [symbol : Symbols, chunk : Chunks, year : Years]

(* Resolution 0 is the native 30m dataset of a year. *)
Datasets == [year : Years, resolution : 0..DerivedCount]

(* An object by its key, with the rows its bytes stand for. *)
Objects == [dataset : Datasets, revision : Revisions,
            shard : {ShardOf[s] : s \in Symbols}, bars : SUBSET Fragments]

ASSUME CoverAssumption ==
    /\ CoversOf \in [Chunks -> SUBSET Years] /\ MarkedBy \in [Chunks -> SUBSET Years]
    /\ \A c \in Chunks : CoversOf[c] \subseteq MarkedBy[c]
ASSUME BarsAssumption ==
    Bars \subseteq {f \in Fragments : f.year \in CoversOf[f.chunk]}
ASSUME RequestAssumption ==
    Requests \subseteq SUBSET Symbols /\ ResumeFlags \subseteq BOOLEAN
ASSUME BoundsAssumption ==
    {SymbolCount, YearCount, ChunkCount, DerivedCount,
     MaxRevision, MaxFetchFailures, MaxCrashes} \subseteq Nat

VARIABLES
    status,     \* of the pipeline run
    staging,    \* the staging files of the run
    store,      \* the object store
    manifests,  \* by dataset and revision
    told,       \* symbols the operator was told SUCCEEDED for
    cut,        \* history: a chunk was skipped that lacks one of its files
    fetchFailures, crashes,
    (* local variables of the call in progress *)
    pc, symbols, resume, todo, pending, failed, queue, native, flawed

catalog == <<status, manifests>>
bounds == <<fetchFailures, crashes>>
locals == <<symbols, resume, todo, pending, failed, queue, native, flawed>>
vars == <<catalog, staging, store, told, cut, bounds, pc, locals>>

-----------------------------------------------------------------------------
NoManifest == [status |-> "ABSENT", bars |-> {}, source |-> 0]

Available(d) == {r \in Revisions : manifests[d][r].status = "AVAILABLE"}

IsLatest(d, r) ==
    \/ r \in Available(d) /\ \A s \in Available(d) : s <= r
    \/ r = 0 /\ Available(d) = {}

Init ==
    /\ status = "ABSENT"
    /\ staging = {}
    /\ store = {}
    /\ manifests = [d \in Datasets |-> [r \in Revisions |-> NoManifest]]
    /\ told = {} /\ cut = FALSE
    /\ fetchFailures = 0 /\ crashes = 0
    /\ pc = "idle"
    /\ symbols = {} /\ resume = FALSE /\ todo = {} /\ pending = {} /\ failed = {}
    /\ queue = {} /\ native = 0 /\ flawed = FALSE

(* The command returns or dies. *)
End ==
    /\ pc' = "idle"
    /\ symbols' = {} /\ resume' = FALSE /\ todo' = {} /\ pending' = {}
    /\ failed' = {} /\ queue' = {} /\ native' = 0 /\ flawed' = FALSE

-----------------------------------------------------------------------------
(* The bound on revisions is never met inside a call. *)
HasRoom == \A d \in Datasets : MaxRevision \notin Available(d)

(* _run_record: a run that SUCCEEDED is not entered again, any other one is *)
(* RUNNING from now on.  The key of the run does not name the symbols.      *)
Begin(S, again) ==
    /\ pc = "idle" /\ HasRoom
    /\ status # "SUCCEEDED"
    /\ status' = "RUNNING"
    /\ symbols' = S
    /\ resume' = again
    /\ todo' = {j \in Jobs : j.symbol \in S}
    /\ pc' = "collect"
    /\ UNCHANGED <<cut, manifests, staging, store, told, bounds, pending, failed, queue,
                   native, flawed>>

(* The SUCCEEDED run is reported again. *)
ReuseRun(S) ==
    /\ pc = "idle"
    /\ status = "SUCCEEDED"
    /\ told' = told \cup S
    /\ UNCHANGED <<cut, catalog, staging, store, bounds, pc, locals>>

(* cleanup-staging --execute, for a SUCCEEDED run only. *)
CleanupStaging ==
    /\ pc = "idle"
    /\ status = "SUCCEEDED"
    /\ staging' = {}
    /\ UNCHANGED <<cut, catalog, store, told, bounds, pc, locals>>

(* Symbol by symbol, and each symbol's chunks in time order. *)
IsNextJob(j) ==
    /\ j \in todo
    /\ \A k \in todo : j.symbol < k.symbol
                          \/ (j.symbol = k.symbol /\ j.chunk <= k.chunk)

OfJob(j, fragments) ==
    {f \in fragments : f.symbol = j.symbol /\ f.chunk = j.chunk}

(* A fragment of the chunk was staged before, for whatever year. *)
Staged(j) == OfJob(j, staging) # {}

SkipStaged ==
    /\ pc = "collect" /\ pending = {}
    /\ \E j \in todo :
        /\ IsNextJob(j) /\ resume /\ Staged(j)
        /\ todo' = todo \ {j}
        /\ cut' = (cut \/ ~(OfJob(j, Bars) \subseteq staging))
    /\ UNCHANGED <<catalog, staging, store, told, bounds, pc, symbols, resume, pending,
                   failed, queue, native, flawed>>

(* A chunk is fetched and normalized. *)
Fetch ==
    /\ pc = "collect" /\ pending = {}
    /\ \E j \in todo :
        /\ IsNextJob(j) /\ ~(resume /\ Staged(j))
        /\ todo' = todo \ {j}
        /\ pending' = OfJob(j, Bars)
    /\ UNCHANGED <<cut, catalog, staging, store, told, bounds, pc, symbols, resume, failed,
                   queue, native, flawed>>

(* Mutant: the failure of a chunk is not recorded. *)
FetchFailsSilently ==
    /\ pc = "collect" /\ pending = {}
    /\ fetchFailures < MaxFetchFailures
    /\ fetchFailures' = fetchFailures + 1
    /\ \E j \in todo :
        /\ IsNextJob(j) /\ ~(resume /\ Staged(j))
        /\ todo' = todo \ {j}
    /\ UNCHANGED <<cut, catalog, staging, store, told, crashes, pc, symbols, resume, pending,
                   failed, queue, native, flawed>>

(* The request or the normalization fails; the other chunks go on. *)
FetchFails ==
    /\ pc = "collect" /\ pending = {}
    /\ fetchFailures < MaxFetchFailures
    /\ fetchFailures' = fetchFailures + 1
    /\ \E j \in todo :
        /\ IsNextJob(j) /\ ~(resume /\ Staged(j))
        /\ todo' = todo \ {j}
        /\ failed' = failed \cup {j.chunk}
    /\ UNCHANGED <<cut, catalog, staging, store, told, crashes, pc, symbols, resume, pending,
                   queue, native, flawed>>

(* Mutant: only the first year of a chunk is written. *)
WriteFirstYear ==
    /\ pc = "collect" /\ pending # {}
    /\ \E f \in pending :
        /\ \A g \in pending : f.year <= g.year
        /\ staging' = staging \cup {f}
    /\ pending' = {}
    /\ UNCHANGED <<cut, catalog, store, told, bounds, pc, symbols, resume, todo, failed,
                   queue, native, flawed>>

(* The fetched rows are written year by year, each file atomically. *)
WriteFragment ==
    /\ pc = "collect" /\ pending # {}
    /\ \E f \in pending :
        /\ \A g \in pending : f.year <= g.year
        /\ staging' = staging \cup {f}
        /\ pending' = pending \ {f}
    /\ UNCHANGED <<cut, catalog, store, told, bounds, pc, symbols, resume, todo, failed,
                   queue, native, flawed>>

EndCollect ==
    /\ pc = "collect" /\ pending = {} /\ todo = {}
    /\ queue' = Datasets
    /\ pc' = "publish"
    /\ UNCHANGED <<cut, catalog, staging, store, told, bounds, symbols, resume, todo,
                   pending, failed, native, flawed>>
-----------------------------------------------------------------------------
(* Year by year, the native dataset before those derived from it. *)
IsNextDataset(d) ==
    /\ d \in queue
    /\ \A e \in queue : d.year < e.year
                           \/ (d.year = e.year /\ d.resolution <= e.resolution)

(* _annual_groups_from_staging: whatever is staged for the year, by shard. *)
Groups(d, r) ==
    {[dataset |-> d, revision |-> r, shard |-> ShardOf[f.symbol],
      bars |-> {g \in staging : g.year = d.year /\ ShardOf[g.symbol] = ShardOf[f.symbol]}] :
        f \in {g \in staging : g.year = d.year}}

(* Other bytes stand at the object's key. *)
KeyTaken(o) ==
    \E x \in store : /\ x.dataset = o.dataset /\ x.revision = o.revision
                     /\ x.shard = o.shard /\ x # o

Written(groups) == {o \in groups : ~KeyTaken(o)}

(* Mutant: the failed chunks are held against the native dataset only. *)
IncidentOfNative(d) ==
    d.resolution = 0 /\ \E c \in failed : d.year \in MarkedBy[c]

(* A chunk that failed lies in the year, as far as its dates tell. *)
Incident(d) == \E c \in failed : d.year \in MarkedBy[c]

Outcome(d, groups) ==
    IF groups # {} /\ Written(groups) = groups /\ ~Incident(d)
    THEN "AVAILABLE" ELSE "QUARANTINED"

(* publish_dataset for the whole year: nothing of the previous revision is  *)
(* kept, and a derived dataset names the native manifest of this call.      *)
Publish(d) ==
    /\ pc = "publish" /\ IsNextDataset(d)
    /\ \E latest \in 0..MaxRevision :
        LET r == latest + 1
            groups == Groups(d, r)
        IN
        /\ IsLatest(d, latest) /\ r \in Revisions
        /\ store' = store \cup Written(groups)
        /\ manifests' = [manifests EXCEPT ![d] = [v \in Revisions |->
               IF v = r
               THEN [status |-> Outcome(d, groups),
                     bars |-> UNION {o.bars : o \in Written(groups)},
                     source |-> IF d.resolution = 0 THEN 0 ELSE native]
               ELSE IF v = latest /\ Outcome(d, groups) = "AVAILABLE"
               THEN [manifests[d][v] EXCEPT !.status = "SUPERSEDED"]
               ELSE manifests[d][v]]]
        /\ native' = IF d.resolution = 0 THEN r ELSE native
        /\ flawed' = (flawed \/ Outcome(d, groups) # "AVAILABLE")
    /\ queue' = queue \ {d}
    /\ UNCHANGED <<cut, status, staging, told, bounds, pc, symbols, resume, todo, pending,
                   failed>>

Crash == crashes < MaxCrashes /\ crashes' = crashes + 1

(* The process dies inside publish_dataset: some objects are stored and the *)
(* manifest is BUILDING.                                                   *)
DiesInPublish(d) ==
    /\ pc = "publish" /\ IsNextDataset(d) /\ Crash
    /\ \E latest \in 0..MaxRevision :
        /\ IsLatest(d, latest) /\ latest + 1 \in Revisions
        /\ \E stored \in SUBSET Written(Groups(d, latest + 1)) :
              store' = store \cup stored
        /\ manifests' = [manifests EXCEPT ![d][latest + 1] =
               [NoManifest EXCEPT !.status = "BUILDING"]]
    /\ End
    /\ UNCHANGED <<cut, status, staging, told, fetchFailures>>

(* The process dies anywhere else. *)
Dies ==
    /\ pc # "idle" /\ Crash
    /\ End
    /\ UNCHANGED <<cut, catalog, staging, store, told, fetchFailures>>

(* Mutant: the run is finished before its last dataset is published. *)
FinishByFirstDataset ==
    /\ pc = "publish" /\ queue # Datasets
    /\ status' = IF flawed THEN "FAILED" ELSE "SUCCEEDED"
    /\ told' = IF flawed THEN told ELSE told \cup symbols
    /\ End
    /\ UNCHANGED <<cut, manifests, staging, store, bounds>>

(* finish_pipeline_run. *)
Finish ==
    /\ pc = "publish" /\ queue = {}
    /\ IF failed # {} \/ flawed
       THEN status' = "FAILED" /\ UNCHANGED told
       ELSE status' = "SUCCEEDED" /\ told' = told \cup symbols
    /\ End
    /\ UNCHANGED <<cut, manifests, staging, store, bounds>>

Command == \E S \in Requests : \E again \in ResumeFlags : Begin(S, again)

Step ==
    \/ SkipStaged
    \/ Fetch
    \/ FetchFails
    \/ WriteFragment
    \/ EndCollect
    \/ \E d \in Datasets : Publish(d)
    \/ Finish

Next ==
    \/ Command
    \/ \E S \in Requests : ReuseRun(S)
    \/ CleanupStaging
    \/ Step
    \/ \E d \in Datasets : DiesInPublish(d)
    \/ Dies

Spec == Init /\ [][Next]_vars

(* The command runs once started, and the operator repeats it until the run *)
(* has SUCCEEDED.                                                          *)
FairSpec == Spec /\ WF_vars(Step) /\ WF_vars(Command)
-----------------------------------------------------------------------------
(***************************************************************************)
(* Properties.                                                             *)
(***************************************************************************)
ManifestRecords ==
    [status : {"ABSENT", "BUILDING", "AVAILABLE", "QUARANTINED", "SUPERSEDED"},
     bars : SUBSET Fragments, source : 0..MaxRevision]

(* The type invariant of the run, the files, the catalog and the call. *)
TypeOK ==
    /\ status \in {"ABSENT", "RUNNING", "FAILED", "SUCCEEDED"}
    /\ staging \subseteq Fragments
    /\ store \subseteq Objects
    /\ manifests \in [Datasets -> [Revisions -> ManifestRecords]]
    /\ told \subseteq Symbols /\ cut \in BOOLEAN
    /\ fetchFailures \in 0..MaxFetchFailures /\ crashes \in 0..MaxCrashes
    /\ pc \in {"idle", "collect", "publish"}
    /\ symbols \subseteq Symbols /\ resume \in BOOLEAN
    /\ todo \subseteq Jobs /\ pending \subseteq Fragments
    /\ failed \subseteq Chunks /\ queue \subseteq Datasets
    /\ native \in 0..MaxRevision /\ flawed \in BOOLEAN

Readable(d, r) == manifests[d][r].status \in {"AVAILABLE", "SUPERSEDED"}

(* What the operator was told SUCCEEDED for is served: the latest AVAILABLE *)
(* manifest of every year and resolution holds all bars of those symbols.   *)
ToldIsServed ==
    \A d \in Datasets : \A f \in Bars :
        f.symbol \in told /\ f.year = d.year =>
            \E r \in Available(d) : IsLatest(d, r) /\ f \in manifests[d][r].bars

(* The same, unless --resume took a chunk for staged of which a crash had   *)
(* kept one year's file from being written.                                 *)
ToldIsServedUnlessCut == ~cut => ToldIsServed

(* A readable year never holds only a part of a symbol's bars of that year, *)
(* and never those of another year, unless such a chunk was skipped.        *)
NoPartialSymbol ==
    ~cut => \A d \in Datasets, r \in Revisions : Readable(d, r) =>
        \A f \in manifests[d][r].bars :
            /\ f.year = d.year
            /\ \A g \in Bars : g.symbol = f.symbol /\ g.year = f.year
                                  => g \in manifests[d][r].bars

NativeOf(d) == [d EXCEPT !.resolution = 0]

(* The derived manifest comes from a readable native manifest of the same   *)
(* year, made of the same bars.                                            *)
IsDerivedFromPublished(d, r) ==
    LET s == manifests[d][r].source IN
    /\ s \in Revisions /\ Readable(NativeOf(d), s)
    /\ manifests[NativeOf(d)][s].bars = manifests[d][r].bars

(* Every readable derived manifest comes from what is published. *)
DerivedFromPublished ==
    \A d \in Datasets, r \in Revisions :
        d.resolution # 0 /\ Readable(d, r) => IsDerivedFromPublished(d, r)

(* An attempt that lacked bars of a shard stored an object under the next   *)
(* revision of the dataset, where a complete attempt has others.            *)
Obstructed(d) ==
    \E r \in 0..MaxRevision, o \in store :
        /\ IsLatest(d, r) /\ o.dataset = d /\ o.revision = r + 1
        /\ o.bars # {f \in Bars : f.year = d.year /\ ShardOf[f.symbol] = o.shard}

(* The same, unless the native dataset of that year is one that can not be  *)
(* published any more.                                                     *)
DerivedUnlessObstructed ==
    \A d \in Datasets, r \in Revisions :
        d.resolution # 0 /\ Readable(d, r) =>
            IsDerivedFromPublished(d, r) \/ Obstructed(NativeOf(d))

(* A backfill that is repeated until it succeeds does succeed. *)
RetrySucceeds == status \in {"RUNNING", "FAILED"} ~> status = "SUCCEEDED"

(* The same, unless a cut chunk was skipped or an incomplete attempt has    *)
(* taken a key the next one needs: crashes, failed chunks and --resume do   *)
(* no harm otherwise.                                                      *)
RetrySucceedsUnlessObstructed ==
    status \in {"RUNNING", "FAILED"}
        ~> status = "SUCCEEDED" \/ cut \/ \E d \in Datasets : Obstructed(d)

(* A call fails for a reason: a chunk failed, a cut one was skipped, a year   *)
(* has no bars of its symbols, or the key of an object is taken for good.    *)
FailsForCause ==
    [][status # "FAILED" /\ status' = "FAILED" =>
            \/ failed # {} \/ cut
            \/ \E y \in Years : \A f \in Bars : f.year = y => f.symbol \notin symbols
            \/ \E d \in Datasets : Obstructed(d)]_vars
=============================================================================
