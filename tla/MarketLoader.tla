---------------------------- MODULE MarketLoader ----------------------------
(***************************************************************************)
(* The standalone market loader: processes that run BackfillEngine.run for  *)
(* one year and one adjustment, over a PostgreSQL catalog and an S3 bucket. *)
(* A step is one transaction of the catalog or one call to S3, so that any  *)
(* number of loaders interleave between them and may fail or die there.     *)
(* Loaders share the catalog and the bucket; each has its own staging        *)
(* directory.                                                              *)
(***************************************************************************)
EXTENDS Naturals, FiniteSets

CONSTANTS
    Procs,         \* loader processes
    Runs,          \* idempotency keys: what a run was asked to load
    SampleRuns,    \* those of at most 5 symbols and 366 days
    ResumedRuns,   \* runs an operator keeps resuming until they succeed; the
                   \* others are begun once
    ResolutionCount, \* how many of RESOLUTION_ORDER a run asks for
    ShardCount,    \* config.data.shard_count
    Pieces,        \* the bars one shard's Parquet file can hold
    Provides,      \* for each run, the data Alpaca may answer it with, by shard
    Version,       \* for each run, its processing_version
    MaxRevision,   \* bound: manifests of one feed and period
    MaxFailures    \* bound: exceptions and dead processes

Resolutions == 1..ResolutionCount  \* 1 is "30m", the others derive from it
Shards == 0..(ShardCount - 1)
Revisions == 1..MaxRevision
Data == [Shards -> Pieces]

ASSUME CountsAssumption == ResolutionCount \in Nat \ {0} /\ ShardCount \in Nat \ {0}
ASSUME RunsAssumption == SampleRuns \subseteq Runs /\ ResumedRuns \subseteq Runs
ASSUME ProvidesAssumption == Provides \in [Runs -> SUBSET Data]
ASSUME VersionAssumption == Version \in [Runs -> Nat]
ASSUME LoaderBoundAssumption == MaxRevision \in Nat /\ MaxFailures \in Nat

VARIABLES
    runs,        \* pipeline_runs: the status of each run
    partitions,  \* pipeline_partitions: result_manifest_id, 0 while PENDING
    manifests,   \* dataset_manifests with their dataset_objects and lineage
    s3,          \* the bucket's objects; IfNoneMatch leaves a key one version
    failures,    \* how many failures have happened
    (* per process: the local variables of BackfillEngine.run *)
    pc, run, data, resolution, source, revision, previous, shard

tables == <<runs, partitions, manifests>>
locals == <<run, data, resolution, source, revision, previous, shard>>
vars == <<tables, s3, failures, pc, locals>>

-----------------------------------------------------------------------------
NoRun == "no run"
NoData == <<>>

NoManifest == [status |-> "ABSENT", version |-> 0, supersedes |-> 0,
               objects |-> {}, source |-> 0]

(* A stored file; its key is the resolution, the revision (the manifest)    *)
(* and the shard.  write_parquet stamps every file it writes with the time   *)
(* (created_at), so that no two of them have one SHA-256, whatever bars they *)
(* hold; a key gets one file, the first that is put.                         *)
Files == [resolution : Resolutions, revision : Revisions, shard : Shards,
          piece : Pieces]

SameKey(f, g) ==
    f.resolution = g.resolution /\ f.revision = g.revision /\ f.shard = g.shard

Known(m) == {v \in Revisions : manifests[m][v].status # "ABSENT"}

(* The last manifest of a feed and period by revision; 0 when there is none. *)
IsLast(m, v) ==
    \/ v \in Known(m) /\ \A w \in Known(m) : w <= v
    \/ v = 0 /\ Known(m) = {}

Init ==
    /\ runs = [r \in Runs |-> "ABSENT"]
    /\ partitions = [r \in Runs |-> [m \in Resolutions |-> [s \in Shards |-> 0]]]
    /\ manifests = [m \in Resolutions |-> [v \in Revisions |-> NoManifest]]
    /\ s3 = {}
    /\ failures = 0
    /\ pc = [p \in Procs |-> "idle"]
    /\ run = [p \in Procs |-> NoRun]
    /\ data = [p \in Procs |-> NoData]
    /\ resolution = [p \in Procs |-> 0]
    /\ source = [p \in Procs |-> 0]
    /\ revision = [p \in Procs |-> 0]
    /\ previous = [p \in Procs |-> 0]
    /\ shard = [p \in Procs |-> 0]

Goto(p, label) == pc' = [pc EXCEPT ![p] = label]

(* The process returns or dies: its locals are gone. *)
End(p) ==
    /\ Goto(p, "idle")
    /\ run' = [run EXCEPT ![p] = NoRun]
    /\ data' = [data EXCEPT ![p] = NoData]
    /\ resolution' = [resolution EXCEPT ![p] = 0]
    /\ source' = [source EXCEPT ![p] = 0]
    /\ revision' = [revision EXCEPT ![p] = 0]
    /\ previous' = [previous EXCEPT ![p] = 0]
    /\ shard' = [shard EXCEPT ![p] = 0]

-----------------------------------------------------------------------------

(* The sample gate, then create_run: a SUCCEEDED run is not run again, any  *)
(* other existing one is continued, its status left as it is.              *)
Begin(p, r) ==
    /\ pc[p] = "idle"
    /\ r \in SampleRuns \/ \E q \in SampleRuns : runs[q] = "SUCCEEDED"
    /\ runs[r] # "SUCCEEDED"
    /\ r \in ResumedRuns \/ runs[r] = "ABSENT"
    /\ runs' = IF runs[r] = "ABSENT" THEN [runs EXCEPT ![r] = "RUNNING"] ELSE runs
    /\ run' = [run EXCEPT ![p] = r]
    /\ Goto(p, "collect")
    /\ UNCHANGED <<partitions, manifests, s3, failures, data, resolution, source,
                   revision, previous, shard>>

(* _collect_period: the bars of the year, whatever Alpaca answers today. *)
Collect(p) ==
    /\ pc[p] = "collect"
    /\ \E d \in Provides[run[p]] : data' = [data EXCEPT ![p] = d]
    /\ resolution' = [resolution EXCEPT ![p] = 1]
    /\ source' = [source EXCEPT ![p] = 0]
    /\ Goto(p, "check")
    /\ UNCHANGED <<tables, s3, failures, run, revision, previous, shard>>

(* The manifest all partitions of the resolution already succeeded with. *)
Completed(r, m, v) ==
    v # 0 /\ \A s \in Shards : partitions[r][m][s] = v

(* Mutant: the manifest of a skipped 30m resolution is not remembered. *)
SkipForgettingSource(p) ==
    LET m == resolution[p] IN
    /\ pc[p] = "check" /\ m \in Resolutions
    /\ \E v \in Revisions : Completed(run[p], m, v)
    /\ resolution' = [resolution EXCEPT ![p] = m + 1]
    /\ UNCHANGED <<tables, s3, failures, pc, run, data, source, revision, previous,
                   shard>>

(* successful_manifest_for_partitions found one: the resolution is skipped. *)
SkipResolution(p) ==
    LET m == resolution[p] IN
    /\ pc[p] = "check" /\ m \in Resolutions
    /\ \E v \in Revisions :
        /\ Completed(run[p], m, v)
        /\ source' = IF m = 1 THEN [source EXCEPT ![p] = v] ELSE source
    /\ resolution' = [resolution EXCEPT ![p] = m + 1]
    /\ UNCHANGED <<tables, s3, failures, pc, run, data, revision, previous, shard>>

(* It found none: the bars are resampled and validated, then published. *)
StartResolution(p) ==
    LET m == resolution[p] IN
    /\ pc[p] = "check" /\ m \in Resolutions
    /\ \A v \in Revisions : ~Completed(run[p], m, v)
    /\ Goto(p, "create")
    /\ UNCHANGED <<tables, s3, failures, locals>>

(* Mutant: the last manifest is taken over whatever its status. *)
ReusesAny(m, v, r) == v \in Revisions /\ manifests[m][v].version = Version[r]

(* A BUILDING manifest of the same processing version is taken over. *)
Reuses(m, v, r) ==
    /\ v \in Revisions
    /\ manifests[m][v].status = "BUILDING"
    /\ manifests[m][v].version = Version[r]

(* Mutant: the last manifest is retired when its successor is created. *)
CreateRetiring(p) ==
    LET m == resolution[p] IN
    /\ pc[p] = "create"
    /\ \E last \in 0..MaxRevision :
        /\ IsLast(m, last) /\ ~Reuses(m, last, run[p]) /\ last + 1 \in Revisions
        /\ revision' = [revision EXCEPT ![p] = last + 1]
        /\ previous' = [previous EXCEPT ![p] = last]
        /\ manifests' = [manifests EXCEPT ![m] = [v \in Revisions |->
               IF v = last + 1
               THEN [status |-> "BUILDING", version |-> Version[run[p]],
                     supersedes |-> last, objects |-> {}, source |-> 0]
               ELSE IF v = last THEN [manifests[m][v] EXCEPT !.status = "SUPERSEDED"]
               ELSE manifests[m][v]]]
    /\ shard' = [shard EXCEPT ![p] = 0]
    /\ Goto(p, "upload")
    /\ UNCHANGED <<runs, partitions, s3, failures, run, data, resolution, source>>

(* create_manifest, under its advisory lock; another loader may have published *)
(* the resolution since it was checked.                                     *)
CreateManifest(p) ==
    LET m == resolution[p] IN
    /\ pc[p] = "create"
    /\ \E last \in 0..MaxRevision :
        /\ IsLast(m, last)
        /\ \/ /\ Reuses(m, last, run[p])
              /\ revision' = [revision EXCEPT ![p] = last]
              /\ previous' = [previous EXCEPT ![p] = manifests[m][last].supersedes]
              /\ UNCHANGED manifests
           \/ /\ ~Reuses(m, last, run[p])
              /\ last + 1 \in Revisions
              /\ revision' = [revision EXCEPT ![p] = last + 1]
              /\ previous' = [previous EXCEPT ![p] = last]
              /\ manifests' = [manifests EXCEPT ![m][last + 1] =
                     [status |-> "BUILDING", version |-> Version[run[p]],
                      supersedes |-> last, objects |-> {}, source |-> 0]]
    /\ shard' = [shard EXCEPT ![p] = 0]
    /\ Goto(p, "upload")
    /\ UNCHANGED <<runs, partitions, s3, failures, run, data, resolution, source>>

(* write_parquet, in each call of publish_shard: a file unlike all others. *)
FileOf(p) ==
    [resolution |-> resolution[p], revision |-> revision[p], shard |-> shard[p],
     piece |-> data[p][shard[p]]]

(* Any file at the key is another one, also one of the same bars that this    *)
(* run stored before it was interrupted: 412 on put, and the hashes differ.   *)
Conflicts(p) == \E f \in s3 : SameKey(f, FileOf(p))

(* Mutant: a file that stands at the key is taken for the process's own. *)
UploadAdopting(p) ==
    /\ pc[p] = "upload" /\ shard[p] \in Shards
    /\ IF Conflicts(p)
       THEN /\ \E f \in s3 : SameKey(f, FileOf(p)) /\
                  data' = [data EXCEPT ![p] = [@ EXCEPT ![shard[p]] = f.piece]]
            /\ UNCHANGED s3
       ELSE s3' = s3 \cup {FileOf(p)} /\ UNCHANGED data
    /\ shard' = [shard EXCEPT ![p] = @ + 1]
    /\ UNCHANGED <<tables, failures, pc, run, resolution, source, revision, previous>>

(* publish_shard: put_object with IfNoneMatch.  A stored file of the same     *)
(* SHA-256 is reused; that is this very file, put by a call whose answer was  *)
(* lost and which the client repeats within the step.                        *)
Upload(p) ==
    /\ pc[p] = "upload" /\ shard[p] \in Shards
    /\ ~Conflicts(p)
    /\ s3' = s3 \cup {FileOf(p)}
    /\ shard' = [shard EXCEPT ![p] = @ + 1]
    /\ UNCHANGED <<tables, failures, pc, run, data, resolution, source, revision,
                   previous>>

(* S3ConflictError. *)
UploadConflict(p) ==
    /\ pc[p] = "upload" /\ shard[p] \in Shards
    /\ Conflicts(p)
    /\ Goto(p, "failing")
    /\ UNCHANGED <<tables, s3, failures, locals>>
-----------------------------------------------------------------------------
(* The rows finalize_manifest registers: what this process uploaded. *)
Registered(p) ==
    {[resolution |-> resolution[p], revision |-> revision[p], shard |-> s,
      piece |-> data[p][s]] : s \in Shards}

(* The manifests of the transaction, when nothing forbids it. *)
Finalized(p) ==
    LET m == resolution[p] IN
    [v \in Revisions |->
        IF v = revision[p]
        THEN [manifests[m][v] EXCEPT
                 !.status = "AVAILABLE", !.objects = Registered(p),
                 !.source = IF m = 1 THEN 0 ELSE source[p]]
        ELSE IF v = previous[p] /\ manifests[m][v].status = "AVAILABLE"
        THEN [manifests[m][v] EXCEPT !.status = "SUPERSEDED"]
        ELSE manifests[m][v]]

(* The manifest is BUILDING, which also means that no row of it exists yet, *)
(* and the index uq_available_manifest_period allows the result.            *)
Finalizable(p) ==
    /\ manifests[resolution[p]][revision[p]].status = "BUILDING"
    /\ \A v, w \in Revisions :
          Finalized(p)[v].status = "AVAILABLE" /\ Finalized(p)[w].status = "AVAILABLE"
              => v = w

(* Mutant: the manifest is finalized before its last shard is uploaded. *)
FinalizeEarly(p) ==
    LET m == resolution[p] IN
    /\ pc[p] = "upload"
    /\ Finalizable(p)
    /\ manifests' = [manifests EXCEPT ![m] = Finalized(p)]
    /\ partitions' = [partitions EXCEPT ![run[p]][m] = [s \in Shards |-> revision[p]]]
    /\ source' = IF m = 1 THEN [source EXCEPT ![p] = revision[p]] ELSE source
    /\ resolution' = [resolution EXCEPT ![p] = m + 1]
    /\ Goto(p, "check")
    /\ UNCHANGED <<runs, s3, failures, run, data, revision, previous, shard>>

(* finalize_manifest: objects, partitions, lineage and both statuses in one *)
(* transaction.                                                            *)
Finalize(p) ==
    LET m == resolution[p] IN
    /\ pc[p] = "upload" /\ shard[p] \notin Shards
    /\ Finalizable(p)
    /\ manifests' = [manifests EXCEPT ![m] = Finalized(p)]
    /\ partitions' = [partitions EXCEPT ![run[p]][m] = [s \in Shards |-> revision[p]]]
    /\ source' = IF m = 1 THEN [source EXCEPT ![p] = revision[p]] ELSE source
    /\ resolution' = [resolution EXCEPT ![p] = m + 1]
    /\ Goto(p, "check")
    /\ UNCHANGED <<runs, s3, failures, run, data, revision, previous, shard>>

(* The transaction is rolled back. *)
FinalizeRejected(p) ==
    /\ pc[p] = "upload" /\ shard[p] \notin Shards
    /\ ~Finalizable(p)
    /\ Goto(p, "failing")
    /\ UNCHANGED <<tables, s3, failures, locals>>

(* complete_run after the last resolution. *)
Complete(p) ==
    /\ pc[p] = "check" /\ resolution[p] \notin Resolutions
    /\ runs' = [runs EXCEPT ![run[p]] = "SUCCEEDED"]
    /\ Goto(p, "report")
    /\ UNCHANGED <<partitions, manifests, s3, failures, locals>>

(* _write_report and the return. *)
Report(p) ==
    /\ pc[p] = "report"
    /\ End(p)
    /\ UNCHANGED <<tables, s3, failures>>

(* The except clause: complete_run with succeeded=False, then the raise. *)
RecordFailure(p) ==
    /\ pc[p] = "failing"
    /\ runs' = [runs EXCEPT ![run[p]] = "FAILED"]
    /\ End(p)
    /\ UNCHANGED <<partitions, manifests, s3, failures>>

Count == failures < MaxFailures /\ failures' = failures + 1

(* An exception of Alpaca, of validation, of S3, of the database or of the  *)
(* report file.                                                            *)
Fails(p) ==
    /\ pc[p] \in {"collect", "check", "create", "upload", "report"} /\ Count
    /\ Goto(p, "failing")
    /\ UNCHANGED <<tables, s3, locals>>

(* The process dies. *)
Dies(p) ==
    /\ pc[p] # "idle" /\ Count
    /\ End(p)
    /\ UNCHANGED <<tables, s3>>

Step(p) ==
    \/ Collect(p)
    \/ SkipResolution(p)
    \/ StartResolution(p)
    \/ CreateManifest(p)
    \/ Upload(p)
    \/ UploadConflict(p)
    \/ Finalize(p)
    \/ FinalizeRejected(p)
    \/ Complete(p)
    \/ Report(p)
    \/ RecordFailure(p)

Next ==
    \E p \in Procs :
        \/ \E r \in Runs : Begin(p, r)
        \/ Step(p)
        \/ Fails(p)
        \/ Dies(p)

Spec == Init /\ [][Next]_vars

(* A loader runs once started, and the operator keeps resuming the runs of  *)
(* ResumedRuns, as RUNBOOK.md asks, however often another run gets the      *)
(* process first.                                                          *)
FairSpec ==
    /\ Spec
    /\ \A p \in Procs : WF_vars(Step(p))
    /\ \A r \in ResumedRuns : SF_vars(\E p \in Procs : Begin(p, r))
-----------------------------------------------------------------------------
(***************************************************************************)
(* Properties.                                                             *)
(***************************************************************************)
RunStatuses == {"ABSENT", "RUNNING", "FAILED", "SUCCEEDED"}

ManifestRecords ==
    [status : {"ABSENT", "BUILDING", "AVAILABLE", "SUPERSEDED"},
     version : Nat, supersedes : 0..MaxRevision, objects : SUBSET Files,
     source : 0..MaxRevision]

Labels == {"idle", "collect", "check", "create", "upload", "report", "failing"}

(* The type invariant of the tables, the bucket and the processes. *)
TypeOK ==
    /\ runs \in [Runs -> RunStatuses]
    /\ partitions \in [Runs -> [Resolutions -> [Shards -> 0..MaxRevision]]]
    /\ manifests \in [Resolutions -> [Revisions -> ManifestRecords]]
    /\ s3 \subseteq Files
    /\ failures \in Nat
    /\ pc \in [Procs -> Labels]
    /\ run \in [Procs -> Runs \cup {NoRun}]
    /\ data \in [Procs -> Data \cup {NoData}]
    /\ resolution \in [Procs -> Nat]
    /\ source \in [Procs -> 0..MaxRevision]
    /\ revision \in [Procs -> 0..MaxRevision]
    /\ previous \in [Procs -> 0..MaxRevision]
    /\ shard \in [Procs -> Nat]

Readable(m, v) == manifests[m][v].status \in {"AVAILABLE", "SUPERSEDED"}

(* A manifest that was published lists one object per shard, and each of    *)
(* them is in the bucket, under a key that holds nothing else.              *)
PublishedIsStored ==
    \A m \in Resolutions, v \in Revisions : Readable(m, v) =>
        /\ \A s \in Shards : \E f \in manifests[m][v].objects : f.shard = s
        /\ \A f \in manifests[m][v].objects :
              f \in s3 /\ \A g \in s3 : SameKey(f, g) => f = g

(* Loaders that share a BUILDING manifest never publish a mixture: the      *)
(* shards of a published manifest are one answer of Alpaca to one run, and  *)
(* a run that SUCCEEDED has such a manifest of its own for every resolution. *)
LoadedBy(r, m, v) ==
    \E d \in Provides[r] : \A f \in manifests[m][v].objects : f.piece = d[f.shard]
PublishedIsOneLoad ==
    /\ \A m \in Resolutions, v \in Revisions :
          Readable(m, v) => \E r \in Runs : LoadedBy(r, m, v)
    /\ \A r \in Runs : runs[r] = "SUCCEEDED" =>
          \A m \in Resolutions : \E v \in Revisions :
              Completed(r, m, v) /\ Readable(m, v) /\ LoadedBy(r, m, v)

(* A derived manifest was resampled from a published 30m manifest that      *)
(* holds the data it was made of.                                          *)
DerivedMatchesSource ==
    \A m \in Resolutions \ {1}, v \in Revisions : Readable(m, v) =>
        LET w == manifests[m][v].source IN
        /\ w \in Revisions /\ Readable(1, w)
        /\ \A f \in manifests[m][v].objects, g \in manifests[1][w].objects :
              f.shard = g.shard => f.piece = g.piece

(* The manifests of a feed and period readers may find AVAILABLE. *)
Available(m) == {v \in Revisions : manifests[m][v].status = "AVAILABLE"}

(* Readers never lose a dataset and never go back to an older revision,     *)
(* and what a published manifest lists never changes.                       *)
KeepsServing ==
    \A m \in Resolutions :
        /\ \A v \in Available(m) : \E w \in Available(m)' : w >= v
        /\ \A v \in Revisions : Readable(m, v) =>
              /\ manifests'[m][v].status \in {"AVAILABLE", "SUPERSEDED"}
              /\ manifests'[m][v].objects = manifests[m][v].objects
              /\ manifests'[m][v].source = manifests[m][v].source

ServedNeverRegresses == [][KeepsServing]_vars

(* A BUILDING manifest is orphaned when a loader stored shards of it and then  *)
(* failed or died: no loader is past those shards any more.                   *)
Orphaned(m, v) ==
    /\ manifests[m][v].status = "BUILDING"
    /\ \E f \in s3 : f.resolution = m /\ f.revision = v
    /\ \A p \in Procs :
          ~(pc[p] = "upload" /\ resolution[p] = m /\ revision[p] = v /\ shard[p] > 0)

(* An orphaned manifest stays one for good: whoever takes it over meets the    *)
(* stored files and fails (publish_shard).                                   *)
OrphanStays ==
    [][\A m \in Resolutions, v \in Revisions :
           Orphaned(m, v) => Orphaned(m, v)']_vars

(* While all runs are of one processing version create_manifest hands it to    *)
(* every loader of the resolution: readers never get another manifest of it.   *)
OrphanBlocks ==
    [][\A m \in Resolutions, v \in Revisions :
           Orphaned(m, v) => manifests'[m] = manifests[m]]_vars

(* Who stores all shards of a manifest can publish it: while all runs are of   *)
(* one processing version, neither another loader nor the index               *)
(* uq_available_manifest_period makes finalize_manifest fail.                 *)
UploadedIsFinalizable ==
    \A p \in Procs : pc[p] = "upload" /\ shard[p] \notin Shards => Finalizable(p)

(* What readers are given of a resolution is a SnapshotSeries of one period, *)
(* the year of the feed, whose objects every manifest replaces all at once. *)
Year == "year"
SamePeriod(p, q) == p = q

Only(S) == IF S = {} THEN 0 ELSE CHOOSE v \in S : TRUE

Served(m) == Only(Available(m))

AsObject(f) ==
    [revision |-> f.revision, slot |-> [period |-> Year, shard |-> f.shard],
     content |-> f.piece]

ServedObjects(m) ==
    IF Served(m) = 0 THEN {} ELSE {AsObject(f) : f \in manifests[m][Served(m)].objects}

SeriesOf(m) == INSTANCE SnapshotSeries WITH
    Periods <- {Year}, Overlaps <- SamePeriod, Contents <- Pieces,
    served <- Served(m), content <- ServedObjects(m)

(* A run that was interrupted or failed and is resumed ends SUCCEEDED, as      *)
(* RUNBOOK.md promises.                                                      *)
Resumable ==
    \A r \in ResumedRuns :
        runs[r] \in {"RUNNING", "FAILED"} ~> runs[r] = "SUCCEEDED"

(* What the code gives of that: it does so however loaders overlap, take over  *)
(* each other's manifests, conflict and are rejected, unless the last manifest *)
(* of a resolution it has not completed is orphaned and it would take it over.  *)
BlockedAt(r, m) ==
    /\ \A v \in Revisions : ~Completed(r, m, v)
    /\ \E v \in Revisions : IsLast(m, v) /\ Reuses(m, v, r) /\ Orphaned(m, v)

EndsUnlessOrphaned ==
    \A r \in ResumedRuns :
        runs[r] \in {"RUNNING", "FAILED"}
            ~> runs[r] = "SUCCEEDED" \/ \E m \in Resolutions : BlockedAt(r, m)
=============================================================================
