---------------------------- MODULE MarketLoaderProofs ----------------------------
(***************************************************************************)
(* What loaders publish is stored, is the load of one run, and is never      *)
(* withdrawn or changed, for any number of loaders, runs, shards and         *)
(* resolutions, whatever fails or dies and whatever Alpaca answers: it is    *)
(* the SnapshotSeries that the official pipeline promises too.              *)
(***************************************************************************)
EXTENDS MarketLoader, TLAPS

-----------------------------------------------------------------------------
(* The invariant, in parts.                                                 *)
File(m, v, s, piece) == [resolution |-> m, revision |-> v, shard |-> s, piece |-> piece]

(* A key of the bucket never names two files. *)
KeysAreUnique == \A f, g \in s3 : SameKey(f, g) => f = g

(* A manifest supersedes an earlier one. *)
LaterSupersedes == \A m \in Resolutions, v \in Revisions : manifests[m][v].supersedes < v

(* What is published is stored, and loaded by one run. *)
PublishedIsWhole ==
    \A m \in Resolutions, v \in Revisions : Readable(m, v) =>
        /\ manifests[m][v].objects \subseteq s3
        /\ \A s \in Shards : \E f \in manifests[m][v].objects : f.shard = s
        /\ \E r \in Runs : LoadedBy(r, m, v)

(* Partitions that succeeded with one manifest name one of the run's own. *)
CompletedIsOwn ==
    \A r \in Runs, m \in Resolutions, v \in Revisions :
        Completed(r, m, v) => Readable(m, v) /\ LoadedBy(r, m, v)

HasCompleted(r, m) == \E v \in Revisions : Completed(r, m, v)

SucceededHasAll ==
    \A r \in Runs : runs[r] = "SUCCEEDED" => \A m \in Resolutions : HasCompleted(r, m)

(* Where a loader stands: its bars are an answer to its run, the resolutions  *)
(* behind it are completed, and the shards behind it are stored.             *)
LoaderIsSound(q) ==
    /\ pc[q] # "idle" => run[q] \in Runs
    /\ pc[q] \in {"check", "create", "upload"} =>
          /\ data[q] \in Provides[run[q]]
          /\ resolution[q] > 0
          /\ \A m \in Resolutions : m < resolution[q] => HasCompleted(run[q], m)
    /\ pc[q] \in {"create", "upload"} => resolution[q] \in Resolutions
    /\ pc[q] = "upload" =>
          /\ revision[q] \in Revisions
          /\ previous[q] < revision[q]
          /\ \A s \in Shards : s < shard[q] =>
                File(resolution[q], revision[q], s, data[q][s]) \in s3

TablesInv ==
    /\ KeysAreUnique /\ LaterSupersedes /\ PublishedIsWhole /\ CompletedIsOwn
    /\ SucceededHasAll

LoaderInv == TypeOK /\ TablesInv /\ \A q \in Procs : LoaderIsSound(q)

-----------------------------------------------------------------------------
(* Nothing is stored, listed or completed at first. *)
LEMMA InitLoader == Init => LoaderInv
<1> SUFFICES ASSUME Init PROVE LoaderInv
  OBVIOUS
<1>1. \A m \in Resolutions, v \in Revisions : manifests[m][v] = NoManifest
  BY DEF Init
<1>2. \A r \in Runs, m \in Resolutions, s \in Shards : partitions[r][m][s] = 0
  BY DEF Init
<1>3. NoManifest \in ManifestRecords
  BY LoaderBoundAssumption DEF NoManifest, ManifestRecords
<1>4. manifests \in [Resolutions -> [Revisions -> ManifestRecords]]
  BY <1>3 DEF Init
<1>5. partitions \in [Runs -> [Resolutions -> [Shards -> 0..MaxRevision]]]
  BY LoaderBoundAssumption DEF Init
<1>6. TypeOK
  BY <1>4, <1>5, LoaderBoundAssumption DEF Init, TypeOK, RunStatuses, Labels
<1>7. KeysAreUnique /\ SucceededHasAll
  BY DEF Init, KeysAreUnique, SucceededHasAll
<1>8. LaterSupersedes /\ PublishedIsWhole
  BY <1>1, LoaderBoundAssumption
  DEF LaterSupersedes, PublishedIsWhole, Readable, NoManifest, Revisions
<1>9. CompletedIsOwn
  <2>1. 0 \in Shards /\ 0 \notin Revisions
    BY CountsAssumption, LoaderBoundAssumption DEF Shards, Revisions
  <2> QED BY <1>2, <2>1 DEF CompletedIsOwn, Completed
<1>10. \A q \in Procs : LoaderIsSound(q)
  BY DEF Init, LoaderIsSound
<1> QED
  BY <1>6, <1>7, <1>8, <1>9, <1>10 DEF LoaderInv, TablesInv

(* A loader whose own variables do not change stays sound when files are only *)
(* added and completed resolutions stay completed.                          *)
LEMMA OthersStaySound ==
  ASSUME NEW q \in Procs, LoaderIsSound(q),
         pc'[q] = pc[q], run'[q] = run[q], data'[q] = data[q],
         resolution'[q] = resolution[q], revision'[q] = revision[q],
         previous'[q] = previous[q], shard'[q] = shard[q],
         s3 \subseteq s3',
         \A r \in Runs, m \in Resolutions : HasCompleted(r, m) => HasCompleted(r, m)'
  PROVE  LoaderIsSound(q)'
  BY DEF LoaderIsSound

(* While the tables keep their rows and the bucket its files, so does what   *)
(* they promise; a run may become SUCCEEDED with all resolutions completed.  *)
LEMMA TablesStay ==
  ASSUME TablesInv, UNCHANGED <<partitions, manifests, s3>>,
         \A r \in Runs : runs'[r] = "SUCCEEDED" /\ runs[r] # "SUCCEEDED"
             => \A m \in Resolutions : HasCompleted(r, m)
  PROVE  /\ TablesInv'
         /\ \A r \in Runs, m \in Resolutions : HasCompleted(r, m) => HasCompleted(r, m)'
<1>1. \A r \in Runs, m \in Resolutions : HasCompleted(r, m) <=> HasCompleted(r, m)'
  BY DEF HasCompleted, Completed
<1>2. SucceededHasAll'
  BY <1>1 DEF TablesInv, SucceededHasAll
<1>3. KeysAreUnique' /\ LaterSupersedes' /\ PublishedIsWhole' /\ CompletedIsOwn'
  BY DEF TablesInv, KeysAreUnique, LaterSupersedes, PublishedIsWhole, CompletedIsOwn,
         Readable, LoadedBy, Completed
<1> QED BY <1>1, <1>2, <1>3 DEF TablesInv

-----------------------------------------------------------------------------
(* A step that ends a process, or sends it to its except clause, leaves it   *)
(* with nothing to be sound about.                                          *)
LEMMA EndSound ==
  ASSUME TypeOK, NEW p \in Procs, End(p)
  PROVE  /\ pc' \in [Procs -> Labels] /\ run' \in [Procs -> Runs \cup {NoRun}]
         /\ data' \in [Procs -> Data \cup {NoData}]
         /\ resolution' \in [Procs -> Nat] /\ source' \in [Procs -> 0..MaxRevision]
         /\ revision' \in [Procs -> 0..MaxRevision]
         /\ previous' \in [Procs -> 0..MaxRevision] /\ shard' \in [Procs -> Nat]
         /\ pc'[p] = "idle"
         /\ \A q \in Procs \ {p} :
               /\ pc'[q] = pc[q] /\ run'[q] = run[q] /\ data'[q] = data[q]
               /\ resolution'[q] = resolution[q] /\ revision'[q] = revision[q]
               /\ previous'[q] = previous[q] /\ shard'[q] = shard[q]
  BY LoaderBoundAssumption DEF TypeOK, End, Goto, Labels

(* Report and Dies. *)
LEMMA EndStep ==
  ASSUME LoaderInv, NEW p \in Procs, End(p), UNCHANGED <<tables, s3>>, failures' \in Nat
  PROVE  LoaderInv'
<1>0. UNCHANGED <<runs, partitions, manifests, s3>>
  BY DEF tables
<1>1. TypeOK /\ TablesInv /\ \A q \in Procs : LoaderIsSound(q)
  BY DEF LoaderInv
<1>2. TypeOK'
  BY <1>0, <1>1, EndSound DEF TypeOK, ManifestRecords
<1>3. /\ TablesInv'
      /\ \A r \in Runs, m \in Resolutions : HasCompleted(r, m) => HasCompleted(r, m)'
  BY <1>0, <1>1, TablesStay
<1>4. \A q \in Procs \ {p} : LoaderIsSound(q)'
  BY <1>0, <1>1, <1>3, EndSound, OthersStaySound
<1>5. LoaderIsSound(p)'
  BY <1>1, EndSound DEF LoaderIsSound
<1> QED BY <1>2, <1>3, <1>4, <1>5 DEF LoaderInv

(* The except clause: the run is FAILED. *)
LEMMA RecordFailureStep ==
  ASSUME LoaderInv, NEW p \in Procs, RecordFailure(p)
  PROVE  LoaderInv'
<1>0. /\ UNCHANGED <<partitions, manifests, s3, failures>> /\ End(p)
      /\ runs' = [runs EXCEPT ![run[p]] = "FAILED"] /\ pc[p] = "failing"
  BY DEF RecordFailure
<1>1. TypeOK /\ TablesInv /\ \A q \in Procs : LoaderIsSound(q)
  BY DEF LoaderInv
<1>2. run[p] \in Runs
  BY <1>0, <1>1 DEF LoaderIsSound
<1>3. runs' \in [Runs -> RunStatuses] /\ \A r \in Runs : runs'[r] # runs[r] => runs'[r] = "FAILED"
  BY <1>0, <1>1, <1>2 DEF TypeOK, RunStatuses
<1>4. TypeOK'
  BY <1>0, <1>1, <1>3, EndSound DEF TypeOK, ManifestRecords
<1>5. /\ TablesInv'
      /\ \A r \in Runs, m \in Resolutions : HasCompleted(r, m) => HasCompleted(r, m)'
  BY <1>0, <1>1, <1>3, TablesStay
<1>6. \A q \in Procs \ {p} : LoaderIsSound(q)'
  BY <1>0, <1>1, <1>5, EndSound, OthersStaySound
<1>7. LoaderIsSound(p)'
  BY <1>0, <1>1, EndSound DEF LoaderIsSound
<1> QED BY <1>4, <1>5, <1>6, <1>7 DEF LoaderInv

(* UploadConflict, FinalizeRejected and Fails. *)
LEMMA FailingStep ==
  ASSUME LoaderInv, NEW p \in Procs, pc[p] # "idle", Goto(p, "failing"),
         UNCHANGED <<tables, s3, locals>>, failures' \in Nat
  PROVE  LoaderInv'
<1>0. /\ UNCHANGED <<runs, partitions, manifests, s3>>
      /\ UNCHANGED <<run, data, resolution, source, revision, previous, shard>>
      /\ pc' = [pc EXCEPT ![p] = "failing"]
  BY DEF tables, locals, Goto
<1>1. TypeOK /\ TablesInv /\ \A q \in Procs : LoaderIsSound(q)
  BY DEF LoaderInv
<1>2. /\ pc' \in [Procs -> Labels] /\ pc'[p] = "failing"
      /\ \A q \in Procs \ {p} : pc'[q] = pc[q]
  BY <1>0, <1>1 DEF TypeOK, Labels
<1>3. TypeOK'
  BY <1>0, <1>1, <1>2 DEF TypeOK, ManifestRecords
<1>4. /\ TablesInv'
      /\ \A r \in Runs, m \in Resolutions : HasCompleted(r, m) => HasCompleted(r, m)'
  BY <1>0, <1>1, TablesStay
<1>5. \A q \in Procs \ {p} : LoaderIsSound(q)'
  BY <1>0, <1>1, <1>2, <1>4, OthersStaySound
<1>6. LoaderIsSound(p)'
  BY <1>0, <1>1, <1>2 DEF LoaderIsSound
<1> QED BY <1>3, <1>4, <1>5, <1>6 DEF LoaderInv

(* The run exists from here on, never SUCCEEDED by this. *)
LEMMA BeginStep ==
  ASSUME LoaderInv, NEW p \in Procs, NEW r \in Runs, Begin(p, r)
  PROVE  LoaderInv'
<1>0. /\ UNCHANGED <<partitions, manifests, s3, failures, data, resolution, source,
                     revision, previous, shard>>
      /\ pc' = [pc EXCEPT ![p] = "collect"] /\ run' = [run EXCEPT ![p] = r]
      /\ runs' = IF runs[r] = "ABSENT" THEN [runs EXCEPT ![r] = "RUNNING"] ELSE runs
  BY DEF Begin, Goto
<1>1. TypeOK /\ TablesInv /\ \A q \in Procs : LoaderIsSound(q)
  BY DEF LoaderInv
<1>2. /\ pc' \in [Procs -> Labels] /\ pc'[p] = "collect"
      /\ run' \in [Procs -> Runs \cup {NoRun}] /\ run'[p] = r
      /\ \A q \in Procs \ {p} : pc'[q] = pc[q] /\ run'[q] = run[q]
  BY <1>0, <1>1 DEF TypeOK, Labels
<1>3. runs' \in [Runs -> RunStatuses] /\ \A x \in Runs : runs'[x] # runs[x] => runs'[x] = "RUNNING"
  BY <1>0, <1>1 DEF TypeOK, RunStatuses
<1>4. TypeOK'
  BY <1>0, <1>1, <1>2, <1>3 DEF TypeOK, ManifestRecords
<1>5. /\ TablesInv'
      /\ \A x \in Runs, m \in Resolutions : HasCompleted(x, m) => HasCompleted(x, m)'
  BY <1>0, <1>1, <1>3, TablesStay
<1>6. \A q \in Procs \ {p} : LoaderIsSound(q)'
  BY <1>0, <1>1, <1>2, <1>5, OthersStaySound
<1>7. LoaderIsSound(p)'
  BY <1>2 DEF LoaderIsSound
<1> QED BY <1>4, <1>5, <1>6, <1>7 DEF LoaderInv

(* The bars are an answer to the run. *)
LEMMA CollectStep ==
  ASSUME LoaderInv, NEW p \in Procs, Collect(p)
  PROVE  LoaderInv'
<1>0. /\ UNCHANGED <<runs, partitions, manifests, s3, failures, run, revision, previous, shard>>
      /\ pc[p] = "collect" /\ pc' = [pc EXCEPT ![p] = "check"]
      /\ resolution' = [resolution EXCEPT ![p] = 1] /\ source' = [source EXCEPT ![p] = 0]
  BY DEF Collect, Goto, tables
<1>1. TypeOK /\ TablesInv /\ \A q \in Procs : LoaderIsSound(q)
  BY DEF LoaderInv
<1>2. PICK d \in Provides[run[p]] : data' = [data EXCEPT ![p] = d]
  BY DEF Collect
<1>3. run[p] \in Runs /\ d \in Data
  BY <1>0, <1>1, ProvidesAssumption DEF LoaderIsSound
<1>4. /\ pc' \in [Procs -> Labels] /\ pc'[p] = "check"
      /\ resolution' \in [Procs -> Nat] /\ resolution'[p] = 1
      /\ source' \in [Procs -> 0..MaxRevision]
      /\ data' \in [Procs -> Data \cup {NoData}] /\ data'[p] = d
      /\ \A q \in Procs \ {p} :
            pc'[q] = pc[q] /\ data'[q] = data[q] /\ resolution'[q] = resolution[q]
  BY <1>0, <1>1, <1>2, <1>3, LoaderBoundAssumption DEF TypeOK, Labels
<1>5. TypeOK'
  BY <1>0, <1>1, <1>4 DEF TypeOK, ManifestRecords
<1>6. /\ TablesInv'
      /\ \A x \in Runs, m \in Resolutions : HasCompleted(x, m) => HasCompleted(x, m)'
  BY <1>0, <1>1, TablesStay
<1>7. \A q \in Procs \ {p} : LoaderIsSound(q)'
  BY <1>0, <1>1, <1>4, <1>6, OthersStaySound
<1>8. LoaderIsSound(p)'
  <2>1. \A m \in Resolutions : ~(m < 1)
    BY DEF Resolutions
  <2> QED BY <1>0, <1>2, <1>3, <1>4, <2>1 DEF LoaderIsSound
<1> QED BY <1>5, <1>6, <1>7, <1>8 DEF LoaderInv

(* The resolution that is skipped is completed. *)
LEMMA SkipStep ==
  ASSUME LoaderInv, NEW p \in Procs, SkipResolution(p)
  PROVE  LoaderInv'
<1>0. /\ UNCHANGED <<runs, partitions, manifests, s3, failures, pc, run, data, revision,
                     previous, shard>>
      /\ pc[p] = "check" /\ resolution[p] \in Resolutions
      /\ resolution' = [resolution EXCEPT ![p] = resolution[p] + 1]
  BY DEF SkipResolution, tables
<1>1. TypeOK /\ TablesInv /\ \A q \in Procs : LoaderIsSound(q)
  BY DEF LoaderInv
<1>2. PICK v \in Revisions :
        /\ Completed(run[p], resolution[p], v)
        /\ source' = IF resolution[p] = 1 THEN [source EXCEPT ![p] = v] ELSE source
  BY DEF SkipResolution
<1>3. v \in 0..MaxRevision
  BY LoaderBoundAssumption DEF Revisions
<1>4. /\ resolution' \in [Procs -> Nat] /\ resolution'[p] = resolution[p] + 1
      /\ \A q \in Procs \ {p} : resolution'[q] = resolution[q]
      /\ source' \in [Procs -> 0..MaxRevision]
  BY <1>0, <1>1, <1>2, <1>3 DEF TypeOK
<1>5. TypeOK'
  BY <1>0, <1>1, <1>4 DEF TypeOK, ManifestRecords
<1>6. /\ TablesInv'
      /\ \A x \in Runs, m \in Resolutions : HasCompleted(x, m) => HasCompleted(x, m)'
  BY <1>0, <1>1, TablesStay
<1>7. \A q \in Procs \ {p} : LoaderIsSound(q)'
  BY <1>0, <1>1, <1>4, <1>6, OthersStaySound
<1>8. LoaderIsSound(p)'
  <2>1. PICK r \in Runs : r = run[p]
    BY <1>0, <1>1 DEF LoaderIsSound
  <2>2. HasCompleted(r, resolution[p])
    BY <1>2, <2>1 DEF HasCompleted
  <2>3. /\ data[p] \in Provides[r] /\ resolution[p] \in Nat
        /\ \A m \in Resolutions : m < resolution[p] => HasCompleted(r, m)
    BY <1>0, <1>1, <2>1 DEF LoaderIsSound, TypeOK
  <2>4. \A m \in Resolutions : m < resolution[p] + 1 => HasCompleted(r, m)
    BY <2>2, <2>3, CountsAssumption DEF Resolutions
  <2>5. \A m \in Resolutions : m < resolution[p] + 1 => HasCompleted(r, m)'
    BY <1>6, <2>4
  <2>6. /\ pc'[p] = "check" /\ run'[p] = r /\ data'[p] = data[p]
        /\ resolution[p] + 1 > 0
    BY <1>0, <2>1, <2>3
  <2> QED BY <1>4, <2>1, <2>3, <2>5, <2>6 DEF LoaderIsSound
<1> QED BY <1>5, <1>6, <1>7, <1>8 DEF LoaderInv

(* The resolution that is not skipped is one of the run's. *)
LEMMA StartStep ==
  ASSUME LoaderInv, NEW p \in Procs, StartResolution(p)
  PROVE  LoaderInv'
<1>0. /\ UNCHANGED <<runs, partitions, manifests, s3, failures, run, data, resolution,
                     source, revision, previous, shard>>
      /\ pc[p] = "check" /\ resolution[p] \in Resolutions
      /\ pc' = [pc EXCEPT ![p] = "create"]
  BY DEF StartResolution, Goto, tables, locals
<1>1. TypeOK /\ TablesInv /\ \A q \in Procs : LoaderIsSound(q)
  BY DEF LoaderInv
<1>2. /\ pc' \in [Procs -> Labels] /\ pc'[p] = "create"
      /\ \A q \in Procs \ {p} : pc'[q] = pc[q]
  BY <1>0, <1>1 DEF TypeOK, Labels
<1>3. TypeOK'
  BY <1>0, <1>1, <1>2 DEF TypeOK, ManifestRecords
<1>4. /\ TablesInv'
      /\ \A r \in Runs, m \in Resolutions : HasCompleted(r, m) => HasCompleted(r, m)'
  BY <1>0, <1>1, TablesStay
<1>5. \A q \in Procs \ {p} : LoaderIsSound(q)'
  BY <1>0, <1>1, <1>2, <1>4, OthersStaySound
<1>6. LoaderIsSound(p)'
  BY <1>0, <1>1, <1>2, <1>4 DEF LoaderIsSound
<1> QED BY <1>3, <1>4, <1>5, <1>6 DEF LoaderInv

(* The run that ends has completed every resolution. *)
LEMMA CompleteStep ==
  ASSUME LoaderInv, NEW p \in Procs, Complete(p)
  PROVE  LoaderInv'
<1>0. /\ UNCHANGED <<partitions, manifests, s3, failures, run, data, resolution, source,
                     revision, previous, shard>>
      /\ pc[p] = "check" /\ resolution[p] \notin Resolutions
      /\ pc' = [pc EXCEPT ![p] = "report"]
      /\ runs' = [runs EXCEPT ![run[p]] = "SUCCEEDED"]
  BY DEF Complete, Goto, locals
<1>1. TypeOK /\ TablesInv /\ \A q \in Procs : LoaderIsSound(q)
  BY DEF LoaderInv
<1>2. run[p] \in Runs /\ \A m \in Resolutions : HasCompleted(run[p], m)
  <2>1. /\ run[p] \in Runs /\ resolution[p] \in Nat /\ resolution[p] > 0
        /\ \A m \in Resolutions : m < resolution[p] => HasCompleted(run[p], m)
    BY <1>0, <1>1 DEF LoaderIsSound, TypeOK
  <2>2. \A m \in Resolutions : m < resolution[p]
    BY <1>0, <2>1, CountsAssumption DEF Resolutions
  <2> QED BY <2>1, <2>2
<1>3. /\ pc' \in [Procs -> Labels] /\ pc'[p] = "report"
      /\ \A q \in Procs \ {p} : pc'[q] = pc[q]
      /\ runs' \in [Runs -> RunStatuses]
      /\ \A r \in Runs : runs'[r] # runs[r] => r = run[p]
  BY <1>0, <1>1, <1>2 DEF TypeOK, Labels, RunStatuses
<1>4. TypeOK'
  BY <1>0, <1>1, <1>3 DEF TypeOK, ManifestRecords
<1>5. /\ TablesInv'
      /\ \A x \in Runs, m \in Resolutions : HasCompleted(x, m) => HasCompleted(x, m)'
  BY <1>0, <1>1, <1>2, <1>3, TablesStay
<1>6. \A q \in Procs \ {p} : LoaderIsSound(q)'
  BY <1>0, <1>1, <1>3, <1>5, OthersStaySound
<1>7. LoaderIsSound(p)'
  BY <1>0, <1>2, <1>3 DEF LoaderIsSound
<1> QED BY <1>4, <1>5, <1>6, <1>7 DEF LoaderInv

-----------------------------------------------------------------------------
(* A new manifest takes the place of none, as the last one is before it, and  *)
(* a manifest that is taken over supersedes an earlier one.                  *)
LEMMA CreateStep ==
  ASSUME LoaderInv, NEW p \in Procs, CreateManifest(p)
  PROVE  LoaderInv' /\ KeepsServing
<1> DEFINE m == resolution[p]
<1>0. /\ UNCHANGED <<runs, partitions, s3, failures, run, data, resolution, source>>
      /\ pc[p] = "create" /\ m \in Resolutions
      /\ pc' = [pc EXCEPT ![p] = "upload"] /\ shard' = [shard EXCEPT ![p] = 0]
  BY DEF CreateManifest, Goto, LoaderInv, LoaderIsSound
<1>1. TypeOK /\ TablesInv /\ \A q \in Procs : LoaderIsSound(q)
  BY DEF LoaderInv
<1>2. run[p] \in Runs /\ Version[run[p]] \in Nat
  BY <1>0, <1>1, VersionAssumption DEF LoaderIsSound
<1>3. PICK last \in 0..MaxRevision :
        /\ IsLast(m, last)
        /\ \/ /\ Reuses(m, last, run[p])
              /\ revision' = [revision EXCEPT ![p] = last]
              /\ previous' = [previous EXCEPT ![p] = manifests[m][last].supersedes]
              /\ UNCHANGED manifests
           \/ /\ ~Reuses(m, last, run[p])
              /\ last + 1 \in Revisions
              /\ revision' = [revision EXCEPT ![p] = last + 1]
              /\ previous' = [previous EXCEPT ![p] = last]
              /\ manifests' = [manifests EXCEPT ![m][last + 1] =
                     [status |-> "BUILDING", version |-> Version[run[p]],
                      supersedes |-> last, objects |-> {}, source |-> 0]]
  BY DEF CreateManifest
<1> DEFINE new == [status |-> "BUILDING", version |-> Version[run[p]],
                   supersedes |-> last, objects |-> {}, source |-> 0]
<1>4. manifests \in [Resolutions -> [Revisions -> ManifestRecords]]
  BY <1>1 DEF TypeOK
<1>5. \/ UNCHANGED manifests
      \/ /\ last + 1 \in Revisions /\ manifests[m][last + 1].status = "ABSENT"
         /\ manifests'[m][last + 1] = new
         /\ manifests' \in [Resolutions -> [Revisions -> ManifestRecords]]
         /\ \A k \in Resolutions, v \in Revisions :
               k # m \/ v # last + 1 => manifests'[k][v] = manifests[k][v]
  <2> SUFFICES ASSUME last + 1 \in Revisions, IsLast(m, last),
                      manifests' = [manifests EXCEPT ![m][last + 1] = new]
               PROVE  /\ manifests[m][last + 1].status = "ABSENT"
                      /\ manifests'[m][last + 1] = new
                      /\ manifests' \in [Resolutions -> [Revisions -> ManifestRecords]]
                      /\ \A k \in Resolutions, v \in Revisions :
                            k # m \/ v # last + 1 => manifests'[k][v] = manifests[k][v]
    BY <1>3
  <2>1. last + 1 \notin Known(m)
    BY LoaderBoundAssumption DEF IsLast, Known, Revisions
  <2>2. new \in ManifestRecords
    BY <1>2, LoaderBoundAssumption DEF ManifestRecords
  <2> HIDE DEF new, m
  <2>3. m \in Resolutions
    BY <1>0
  <2> QED BY <2>1, <2>2, <2>3, <1>4 DEF Known
<1>6. \A k \in Resolutions, v \in Revisions :
        /\ (Readable(k, v)' <=> Readable(k, v))
        /\ Readable(k, v) => manifests'[k][v] = manifests[k][v]
        /\ manifests'[k][v].supersedes < v
  <2>1. \A k \in Resolutions, v \in Revisions : manifests[k][v].supersedes < v
    BY <1>1 DEF TablesInv, LaterSupersedes
  <2>2. last < last + 1
    BY LoaderBoundAssumption
  <2>3. new.status = "BUILDING" /\ new.supersedes = last
    OBVIOUS
  <2> HIDE DEF new, m
  <2> QED BY <1>5, <2>1, <2>2, <2>3 DEF Readable
<1>7. \A q \in Procs : q # p =>
        /\ pc'[q] = pc[q] /\ shard'[q] = shard[q]
        /\ revision'[q] = revision[q] /\ previous'[q] = previous[q]
  BY <1>0, <1>1, <1>3 DEF TypeOK
<1>8. /\ revision'[p] \in Revisions /\ previous'[p] < revision'[p]
      /\ previous'[p] \in 0..MaxRevision
      /\ pc'[p] = "upload" /\ shard'[p] = 0
  <2>1. CASE Reuses(m, last, run[p])
    <3>1. /\ revision'[p] = last /\ last \in Revisions
          /\ previous'[p] = manifests[m][last].supersedes
      BY <1>1, <1>3, <2>1 DEF Reuses, TypeOK
    <3>2. manifests[m][last].supersedes < last
      BY <1>0, <1>1, <3>1 DEF TablesInv, LaterSupersedes
    <3>3. manifests[m][last].supersedes \in 0..MaxRevision
      BY <1>0, <1>4, <3>1 DEF ManifestRecords
    <3> QED BY <1>0, <1>1, <3>1, <3>2, <3>3 DEF TypeOK
  <2>2. CASE ~Reuses(m, last, run[p])
    BY <1>0, <1>1, <1>3, <2>2, LoaderBoundAssumption DEF TypeOK
  <2> QED BY <2>1, <2>2
<1>9. TypeOK'
  <2>1. manifests' \in [Resolutions -> [Revisions -> ManifestRecords]]
    BY <1>4, <1>5
  <2>2. revision' \in [Procs -> 0..MaxRevision] /\ previous' \in [Procs -> 0..MaxRevision]
    <3>1. \A q \in Procs : revision'[q] \in 0..MaxRevision /\ previous'[q] \in 0..MaxRevision
      <4> SUFFICES ASSUME NEW q \in Procs
                   PROVE  revision'[q] \in 0..MaxRevision /\ previous'[q] \in 0..MaxRevision
        OBVIOUS
      <4>1. CASE q = p
        BY <1>8, <4>1, LoaderBoundAssumption DEF Revisions
      <4>2. CASE q # p
        BY <1>1, <1>7, <4>2 DEF TypeOK
      <4> QED BY <4>1, <4>2
    <3>2. /\ revision' = [q \in Procs |-> revision'[q]]
          /\ previous' = [q \in Procs |-> previous'[q]]
      BY <1>1, <1>3 DEF TypeOK
    <3> QED BY <3>1, <3>2
  <2>3. pc' \in [Procs -> Labels] /\ shard' \in [Procs -> Nat]
    BY <1>0, <1>1 DEF TypeOK, Labels
  <2> QED BY <1>0, <1>1, <2>1, <2>2, <2>3 DEF TypeOK, ManifestRecords
<1>10. \A r \in Runs, k \in Resolutions : HasCompleted(r, k) <=> HasCompleted(r, k)'
  BY <1>0 DEF HasCompleted, Completed
<1>11. TablesInv'
  <2>1. KeysAreUnique' /\ LaterSupersedes' /\ SucceededHasAll'
    BY <1>0, <1>1, <1>6, <1>10 DEF TablesInv, KeysAreUnique, LaterSupersedes, SucceededHasAll
  <2>2. PublishedIsWhole' /\ CompletedIsOwn'
    BY <1>0, <1>1, <1>6 DEF TablesInv, PublishedIsWhole, CompletedIsOwn, LoadedBy, Completed
  <2> QED BY <2>1, <2>2 DEF TablesInv
<1>12. \A q \in Procs \ {p} : LoaderIsSound(q)'
  BY <1>0, <1>1, <1>7, <1>10, OthersStaySound
<1>13. LoaderIsSound(p)'
  <2>1. \A s \in Shards : ~(s < 0)
    BY DEF Shards
  <2>2. /\ data[p] \in Provides[run[p]] /\ resolution[p] > 0
        /\ \A k \in Resolutions : k < resolution[p] => HasCompleted(run[p], k)
    BY <1>0, <1>1 DEF LoaderIsSound
  <2> QED BY <1>0, <1>2, <1>8, <1>10, <2>1, <2>2 DEF LoaderIsSound
<1>14. KeepsServing
  <2>1. \A k \in Resolutions : \A v \in Available(k) : v \in Available(k)' /\ v >= v
    BY <1>6, LoaderBoundAssumption DEF Available, Readable, Revisions
  <2> QED BY <1>6, <2>1 DEF KeepsServing, Readable
<1> QED BY <1>9, <1>11, <1>12, <1>13, <1>14 DEF LoaderInv

(* A file is put only where no other one stands. *)
LEMMA UploadStep ==
  ASSUME LoaderInv, NEW p \in Procs, Upload(p)
  PROVE  LoaderInv'
<1>0. /\ UNCHANGED <<runs, partitions, manifests, failures, pc, run, data, resolution,
                     source, revision, previous>>
      /\ pc[p] = "upload" /\ shard[p] \in Shards /\ ~Conflicts(p)
      /\ s3' = s3 \cup {FileOf(p)}
      /\ shard' = [shard EXCEPT ![p] = shard[p] + 1]
  BY DEF Upload, tables
<1>1. TypeOK /\ TablesInv /\ \A q \in Procs : LoaderIsSound(q)
  BY DEF LoaderInv
<1>2. /\ run[p] \in Runs /\ data[p] \in Provides[run[p]] /\ data[p] \in Data
      /\ resolution[p] \in Resolutions /\ revision[p] \in Revisions
  BY <1>0, <1>1, ProvidesAssumption DEF LoaderIsSound
<1>3. FileOf(p) \in Files
  BY <1>0, <1>2 DEF FileOf, Files, Data
<1>4. /\ shard' \in [Procs -> Nat] /\ shard'[p] = shard[p] + 1
      /\ \A q \in Procs \ {p} : shard'[q] = shard[q]
  BY <1>0, <1>1 DEF TypeOK
<1>5. TypeOK'
  BY <1>0, <1>1, <1>3, <1>4 DEF TypeOK, ManifestRecords
<1>6. KeysAreUnique'
  BY <1>0, <1>1 DEF TablesInv, KeysAreUnique, Conflicts, SameKey
<1>7. TablesInv'
  <2>1. LaterSupersedes' /\ SucceededHasAll' /\ CompletedIsOwn'
    BY <1>0, <1>1
    DEF TablesInv, LaterSupersedes, SucceededHasAll, CompletedIsOwn, HasCompleted,
        Completed, Readable, LoadedBy
  <2>2. PublishedIsWhole'
    BY <1>0, <1>1 DEF TablesInv, PublishedIsWhole, Readable, LoadedBy
  <2> QED BY <1>6, <2>1, <2>2 DEF TablesInv
<1>8. \A r \in Runs, k \in Resolutions : HasCompleted(r, k) => HasCompleted(r, k)'
  BY <1>0 DEF HasCompleted, Completed
<1>9. \A q \in Procs \ {p} : LoaderIsSound(q)'
  BY <1>0, <1>1, <1>4, <1>8, OthersStaySound
<1>10. LoaderIsSound(p)'
  <2>1. ASSUME NEW s \in Shards, s < shard[p] + 1
        PROVE  File(resolution[p], revision[p], s, data[p][s]) \in s3'
    <3>1. CASE s < shard[p]
      BY <1>0, <1>1, <3>1 DEF LoaderIsSound
    <3>2. CASE s = shard[p]
      BY <1>0, <3>2 DEF File, FileOf
    <3> QED BY <1>0, <2>1, <3>1, <3>2, CountsAssumption DEF Shards
  <2>2. LoaderIsSound(p)
    BY <1>1
  <2> QED BY <1>0, <1>4, <1>8, <2>1, <2>2 DEF LoaderIsSound
<1> QED BY <1>5, <1>7, <1>9, <1>10 DEF LoaderInv

(* What is finalized was BUILDING, so that nothing readable changes but the  *)
(* status of the one it supersedes; all its shards are stored; and the index  *)
(* leaves no other AVAILABLE one.                                           *)
LEMMA FinalizeStep ==
  ASSUME LoaderInv, NEW p \in Procs, Finalize(p)
  PROVE  LoaderInv' /\ KeepsServing
<1>1. TypeOK /\ TablesInv /\ \A q \in Procs : LoaderIsSound(q)
  BY DEF LoaderInv
<1>a. resolution[p] \in Resolutions /\ revision[p] \in Revisions /\ run[p] \in Runs
  BY <1>1 DEF LoaderIsSound, Finalize
<1>b. PICK m \in Resolutions, v \in Revisions, r \in Runs :
         m = resolution[p] /\ v = revision[p] /\ r = run[p]
  BY <1>a
<1>0. /\ UNCHANGED <<runs, s3, failures, run, data, revision, previous, shard>>
      /\ pc[p] = "upload" /\ shard[p] \notin Shards /\ Finalizable(p)
      /\ pc' = [pc EXCEPT ![p] = "check"]
      /\ manifests' = [manifests EXCEPT ![m] = Finalized(p)]
      /\ partitions' = [partitions EXCEPT ![r][m] = [s \in Shards |-> v]]
      /\ source' = IF m = 1 THEN [source EXCEPT ![p] = v] ELSE source
      /\ resolution' = [resolution EXCEPT ![p] = m + 1]
  BY <1>b DEF Finalize, Goto
<1>2. /\ r \in Runs /\ data[p] \in Provides[r] /\ data[p] \in Data
      /\ m \in Resolutions /\ m \in Nat /\ v \in Revisions /\ v \in 0..MaxRevision
      /\ previous[p] \in Nat /\ previous[p] < v
      /\ \A k \in Resolutions : k < m => HasCompleted(r, k)
      /\ \A s \in Shards : s < shard[p] => File(m, v, s, data[p][s]) \in s3
  BY <1>0, <1>1, <1>b, ProvidesAssumption, LoaderBoundAssumption
  DEF LoaderIsSound, TypeOK, Resolutions, Revisions
<1>3. Registered(p) \subseteq s3 /\ Registered(p) \subseteq Files
  <2>1. shard[p] \in Nat
    BY <1>1 DEF TypeOK
  <2>2. \A s \in Shards : s < shard[p]
    BY <1>0, <2>1, CountsAssumption DEF Shards
  <2>3. s3 \subseteq Files
    BY <1>1 DEF TypeOK
  <2> QED BY <1>2, <1>b, <2>2, <2>3 DEF Registered, File
<1>4. manifests \in [Resolutions -> [Revisions -> ManifestRecords]]
  BY <1>1 DEF TypeOK
<1>5. /\ manifests'[m] = Finalized(p)
      /\ \A k \in Resolutions \ {m} : manifests'[k] = manifests[k]
  BY <1>0, <1>2, <1>4
<1>6. manifests[m][v].status = "BUILDING"
  BY <1>0, <1>b DEF Finalizable
<1>7. manifests'[m][v] = [manifests[m][v] EXCEPT
        !.status = "AVAILABLE", !.objects = Registered(p),
        !.source = IF m = 1 THEN 0 ELSE source[p]]
  BY <1>2, <1>5, <1>b DEF Finalized
<1>8. \A w \in Revisions \ {v} :
        manifests'[m][w] = IF w = previous[p] /\ manifests[m][w].status = "AVAILABLE"
                           THEN [manifests[m][w] EXCEPT !.status = "SUPERSEDED"]
                           ELSE manifests[m][w]
  BY <1>5, <1>b DEF Finalized
<1>9. /\ manifests'[m][v].status = "AVAILABLE" /\ manifests'[m][v].objects = Registered(p)
      /\ manifests'[m][v].supersedes = manifests[m][v].supersedes
      /\ manifests'[m][v] \in ManifestRecords
  <2>1. manifests[m][v] \in ManifestRecords
    BY <1>2, <1>4
  <2>2. source[p] \in 0..MaxRevision /\ 0 \in 0..MaxRevision
    BY <1>1, LoaderBoundAssumption DEF TypeOK
  <2> QED BY <1>3, <1>7, <2>1, <2>2 DEF ManifestRecords
<1>10. \A k \in Resolutions, w \in Revisions : k # m \/ w # v =>
         /\ manifests'[k][w] \in ManifestRecords
         /\ manifests'[k][w].objects = manifests[k][w].objects
         /\ manifests'[k][w].supersedes = manifests[k][w].supersedes
         /\ manifests'[k][w].source = manifests[k][w].source
         /\ (Readable(k, w)' <=> Readable(k, w))
  <2> SUFFICES ASSUME NEW k \in Resolutions, NEW w \in Revisions, k # m \/ w # v
               PROVE  /\ manifests'[k][w] \in ManifestRecords
                      /\ manifests'[k][w].objects = manifests[k][w].objects
                      /\ manifests'[k][w].supersedes = manifests[k][w].supersedes
                      /\ manifests'[k][w].source = manifests[k][w].source
                      /\ (Readable(k, w)' <=> Readable(k, w))
    OBVIOUS
  <2>1. manifests[k][w] \in ManifestRecords
    BY <1>4
  <2>2. \/ manifests'[k][w] = manifests[k][w]
        \/ /\ manifests[k][w].status = "AVAILABLE"
           /\ manifests'[k][w] = [manifests[k][w] EXCEPT !.status = "SUPERSEDED"]
    BY <1>5, <1>8
  <2> QED BY <2>1, <2>2 DEF ManifestRecords, Readable
<1>11. /\ Readable(m, v)' /\ ~Readable(m, v)
  BY <1>6, <1>9 DEF Readable
<1>12. LoadedBy(r, m, v)'
  <2>1. \A f \in Registered(p) : f.piece = data[p][f.shard]
    BY DEF Registered
  <2> QED BY <1>2, <1>9, <2>1 DEF LoadedBy
<1>13. \A q \in Runs, k \in Resolutions, w \in Revisions :
         Readable(k, w) => (LoadedBy(q, k, w)' <=> LoadedBy(q, k, w))
  BY <1>10, <1>11 DEF LoadedBy
<1>14. /\ \A q \in Runs, k \in Resolutions : q # r \/ k # m =>
              partitions'[q][k] = partitions[q][k]
       /\ partitions'[r][m] = [s \in Shards |-> v]
       /\ partitions' \in [Runs -> [Resolutions -> [Shards -> 0..MaxRevision]]]
  BY <1>0, <1>1, <1>2 DEF TypeOK
<1>15. /\ \A w \in Revisions : (Completed(r, m, w)' <=> w = v)
       /\ \A q \in Runs, k \in Resolutions, w \in Revisions :
            q # r \/ k # m => (Completed(q, k, w)' <=> Completed(q, k, w))
  <2>1. 0 \in Shards /\ v # 0
    BY <1>2, CountsAssumption, LoaderBoundAssumption DEF Shards, Revisions
  <2> QED BY <1>14, <2>1 DEF Completed
<1>16. \A q \in Runs, k \in Resolutions : HasCompleted(q, k) => HasCompleted(q, k)'
  BY <1>2, <1>15 DEF HasCompleted
<1>17. TablesInv'
  <2>1. KeysAreUnique' /\ SucceededHasAll'
    BY <1>0, <1>1, <1>16 DEF TablesInv, KeysAreUnique, SucceededHasAll
  <2>2. LaterSupersedes'
    BY <1>1, <1>9, <1>10 DEF TablesInv, LaterSupersedes
  <2>3. PublishedIsWhole'
    <3> SUFFICES ASSUME NEW k \in Resolutions, NEW w \in Revisions, Readable(k, w)'
                 PROVE  /\ manifests'[k][w].objects \subseteq s3'
                        /\ \A s \in Shards : \E f \in manifests'[k][w].objects : f.shard = s
                        /\ \E q \in Runs : LoadedBy(q, k, w)'
      BY DEF PublishedIsWhole
    <3>1. CASE k = m /\ w = v
      <4>1. \A s \in Shards : \E f \in Registered(p) : f.shard = s
        <5>1. \A s \in Shards :
                 [resolution |-> m, revision |-> v, shard |-> s, piece |-> data[p][s]]
                     \in Registered(p)
          BY <1>b DEF Registered
        <5> QED BY <5>1
      <4> QED BY <1>0, <1>2, <1>3, <1>9, <1>12, <3>1, <4>1
    <3>2. CASE k # m \/ w # v
      <4>1. Readable(k, w)
        BY <1>10, <3>2
      <4> QED BY <1>0, <1>1, <1>10, <1>13, <3>2, <4>1 DEF TablesInv, PublishedIsWhole
    <3> QED BY <3>1, <3>2
  <2>4. CompletedIsOwn'
    <3> SUFFICES ASSUME NEW q \in Runs, NEW k \in Resolutions, NEW w \in Revisions,
                        Completed(q, k, w)'
                 PROVE  Readable(k, w)' /\ LoadedBy(q, k, w)'
      BY DEF CompletedIsOwn
    <3>1. CASE q = r /\ k = m
      BY <1>11, <1>12, <1>15, <3>1
    <3>2. CASE q # r \/ k # m
      <4>1. Readable(k, w) /\ LoadedBy(q, k, w)
        BY <1>1, <1>15, <3>2 DEF TablesInv, CompletedIsOwn
      <4> QED BY <1>10, <1>11, <1>13, <4>1
    <3> QED BY <3>1, <3>2
  <2> QED BY <2>1, <2>2, <2>3, <2>4 DEF TablesInv
<1>18. /\ pc' \in [Procs -> Labels] /\ pc'[p] = "check"
       /\ resolution' \in [Procs -> Nat] /\ resolution'[p] = m + 1
       /\ source' \in [Procs -> 0..MaxRevision]
       /\ \A q \in Procs \ {p} : pc'[q] = pc[q] /\ resolution'[q] = resolution[q]
  BY <1>0, <1>1, <1>2 DEF TypeOK, Labels
<1>19. TypeOK'
  <2>1. manifests' \in [Resolutions -> [Revisions -> ManifestRecords]]
    <3>1. \A k \in Resolutions, w \in Revisions : manifests'[k][w] \in ManifestRecords
      BY <1>9, <1>10
    <3>2. \A k \in Resolutions : manifests'[k] = [w \in Revisions |-> manifests'[k][w]]
      BY <1>4, <1>5 DEF Finalized
    <3>3. manifests' = [k \in Resolutions |-> manifests'[k]]
      BY <1>0, <1>4
    <3> QED BY <3>1, <3>2, <3>3
  <2> QED BY <1>0, <1>1, <1>14, <1>18, <2>1 DEF TypeOK, ManifestRecords
<1>20. \A q \in Procs \ {p} : LoaderIsSound(q)'
  BY <1>0, <1>1, <1>16, <1>18, OthersStaySound
<1>21. LoaderIsSound(p)'
  <2>1. HasCompleted(r, m)'
    BY <1>2, <1>15 DEF HasCompleted
  <2>2. \A k \in Resolutions : k < m + 1 => k < m \/ k = m
    BY <1>2 DEF Resolutions
  <2>3. \A k \in Resolutions : k < m + 1 => HasCompleted(r, k)'
    BY <1>2, <1>16, <2>1, <2>2
  <2>4. m + 1 > 0 /\ run'[p] = r /\ data'[p] = data[p]
    BY <1>0, <1>2, <1>b
  <2> QED BY <1>2, <1>18, <2>3, <2>4 DEF LoaderIsSound
<1>22. KeepsServing
  <2>1. ASSUME NEW k \in Resolutions, NEW w \in Available(k)
        PROVE  \E x \in Available(k)' : x >= w
    <3>1. w \in Revisions /\ w \in Nat /\ manifests[k][w].status = "AVAILABLE"
      BY LoaderBoundAssumption DEF Available, Revisions
    <3>2. CASE k # m
      BY <1>5, <3>1, <3>2 DEF Available
    <3>3. CASE k = m
      <4>1. w # v
        BY <1>6, <3>1, <3>3
      <4>2. v \in Available(m)'
        BY <1>2, <1>9 DEF Available
      <4>3. w = previous[p]
        <5>1. w # previous[p] => Finalized(p)[w].status = "AVAILABLE"
          BY <1>5, <1>8, <3>1, <3>3, <4>1
        <5>2. Finalized(p)[v].status = "AVAILABLE"
          BY <1>5, <1>9
        <5>3. w # previous[p] => w = v
          BY <1>0, <1>2, <3>1, <5>1, <5>2 DEF Finalizable
        <5> QED BY <4>1, <5>3
      <4>4. v \in Nat
        BY <1>2, LoaderBoundAssumption
      <4> QED BY <1>2, <3>3, <4>2, <4>3, <4>4
    <3> QED BY <3>2, <3>3
  <2>2. ASSUME NEW k \in Resolutions, NEW w \in Revisions, Readable(k, w)
        PROVE  /\ manifests'[k][w].status \in {"AVAILABLE", "SUPERSEDED"}
               /\ manifests'[k][w].objects = manifests[k][w].objects
               /\ manifests'[k][w].source = manifests[k][w].source
    BY <1>10, <1>11, <2>2 DEF Readable
  <2> QED BY <2>1, <2>2 DEF KeepsServing
<1> QED BY <1>17, <1>19, <1>20, <1>21, <1>22 DEF LoaderInv

-----------------------------------------------------------------------------
(* Steps that leave the manifests alone keep serving. *)
LEMMA SameManifestsKeepServing ==
  ASSUME UNCHANGED manifests PROVE KeepsServing
<1>1. \A m \in Resolutions : \A v \in Available(m) : v \in Available(m)' /\ v >= v
  BY LoaderBoundAssumption DEF Available, Revisions
<1> QED BY <1>1 DEF KeepsServing, Readable

(* Every step of every loader keeps the tables, and readers keep what they have *)
(* or get a later revision.                                                  *)
LEMMA StepLoader == LoaderInv /\ [Next]_vars => LoaderInv' /\ KeepsServing
<1> SUFFICES ASSUME LoaderInv, [Next]_vars PROVE LoaderInv' /\ KeepsServing
  OBVIOUS
<1>0. failures \in Nat
  BY DEF LoaderInv, TypeOK
<1>1. ASSUME NEW p \in Procs, NEW r \in Runs, Begin(p, r) PROVE LoaderInv' /\ KeepsServing
  BY <1>1, BeginStep, SameManifestsKeepServing DEF Begin
<1>2. ASSUME NEW p \in Procs, Step(p) PROVE LoaderInv' /\ KeepsServing
  <2>1. CASE Collect(p)
    BY <2>1, CollectStep, SameManifestsKeepServing DEF Collect, tables
  <2>2. CASE SkipResolution(p)
    BY <2>2, SkipStep, SameManifestsKeepServing DEF SkipResolution, tables
  <2>11. CASE StartResolution(p)
    BY <2>11, StartStep, SameManifestsKeepServing DEF StartResolution, tables
  <2>3. CASE CreateManifest(p)
    BY <2>3, CreateStep
  <2>4. CASE Upload(p)
    BY <2>4, UploadStep, SameManifestsKeepServing DEF Upload, tables
  <2>5. CASE UploadConflict(p)
    BY <1>0, <2>5, FailingStep, SameManifestsKeepServing DEF UploadConflict, tables
  <2>6. CASE Finalize(p)
    BY <2>6, FinalizeStep
  <2>7. CASE FinalizeRejected(p)
    BY <1>0, <2>7, FailingStep, SameManifestsKeepServing DEF FinalizeRejected, tables
  <2>8. CASE Complete(p)
    BY <2>8, CompleteStep, SameManifestsKeepServing DEF Complete
  <2>9. CASE Report(p)
    BY <1>0, <2>9, EndStep, SameManifestsKeepServing DEF Report, tables
  <2>10. CASE RecordFailure(p)
    BY <2>10, RecordFailureStep, SameManifestsKeepServing DEF RecordFailure
  <2> QED
    BY <1>2, <2>1, <2>2, <2>3, <2>4, <2>5, <2>6, <2>7, <2>8, <2>9, <2>10, <2>11 DEF Step
<1>3. ASSUME NEW p \in Procs, Fails(p) PROVE LoaderInv' /\ KeepsServing
  BY <1>0, <1>3, FailingStep, SameManifestsKeepServing DEF Fails, Count, tables
<1>4. ASSUME NEW p \in Procs, Dies(p) PROVE LoaderInv' /\ KeepsServing
  BY <1>0, <1>4, EndStep, SameManifestsKeepServing DEF Dies, Count, tables
<1>5. CASE UNCHANGED vars
  <2>1. /\ UNCHANGED <<runs, partitions, manifests, s3, failures, pc>>
        /\ UNCHANGED <<run, data, resolution, source, revision, previous, shard>>
    BY <1>5 DEF vars, tables, locals
  <2>2. TypeOK'
    BY <2>1 DEF LoaderInv, TypeOK, ManifestRecords
  <2>3. /\ TablesInv'
        /\ \A r \in Runs, m \in Resolutions : HasCompleted(r, m) => HasCompleted(r, m)'
    BY <2>1, TablesStay DEF LoaderInv
  <2>4. \A q \in Procs : LoaderIsSound(q)'
    BY <2>1, <2>3, OthersStaySound DEF LoaderInv
  <2> QED BY <2>1, <2>2, <2>3, <2>4, SameManifestsKeepServing DEF LoaderInv
<1> QED
  BY <1>1, <1>2, <1>3, <1>4, <1>5 DEF Next

-----------------------------------------------------------------------------
(* Every table, the bucket and every loader hold what the code puts there    *)
(* (BackfillEngine.run and the repositories).                               *)
THEOREM LoaderTypeCorrect == Spec => []TypeOK
<1>1. LoaderInv => TypeOK
  BY DEF LoaderInv
<1> QED BY <1>1, InitLoader, StepLoader, PTL DEF Spec

(* However many loaders run at once, fail and die: a published manifest has   *)
(* its objects in the bucket, under keys of their own (finalize_manifest,     *)
(* publish_shard).                                                          *)
THEOREM AlwaysStored == Spec => []PublishedIsStored
<1>1. LoaderInv => PublishedIsStored
  BY DEF LoaderInv, TablesInv, PublishedIsWhole, KeysAreUnique, PublishedIsStored
<1> QED BY <1>1, InitLoader, StepLoader, PTL DEF Spec

(* ... it is one answer of Alpaca to one run, though loaders take BUILDING    *)
(* manifests over from each other, and a SUCCEEDED run has published all      *)
(* resolutions.                                                             *)
THEOREM AlwaysOneLoad == Spec => []PublishedIsOneLoad
<1>1. LoaderInv => PublishedIsOneLoad
  BY DEF LoaderInv, TablesInv, PublishedIsWhole, CompletedIsOwn, SucceededHasAll,
         HasCompleted, PublishedIsOneLoad
<1> QED BY <1>1, InitLoader, StepLoader, PTL DEF Spec

(* ... and readers never lose it, never see it change and never go back to an *)
(* earlier revision.                                                        *)
THEOREM LoaderNeverRegresses == Spec => ServedNeverRegresses
<1>1. LoaderInv /\ [Next]_vars => [KeepsServing]_vars
  BY StepLoader
<1> QED BY <1>1, InitLoader, StepLoader, PTL DEF Spec, ServedNeverRegresses
-----------------------------------------------------------------------------
(* Lineage.  The 30m manifest a loader derives from is one of its own run, but *)
(* its bars are the loader's own only if Alpaca answers a run alike every time: *)
(* a resumed loader skips 30m and collects the year again (backfill.py, run).    *)
AnswersAgree == \A r \in Runs : \A d, e \in Provides[r] : d = e

(* Manifest v was made of the published 30m manifest w. *)
DerivedFrom(m, v, w) ==
    /\ manifests[m][v].source = w /\ Readable(1, w)
    /\ \A f \in manifests[m][v].objects, g \in manifests[1][w].objects :
          f.shard = g.shard => f.piece = g.piece

DerivedHasSource ==
    \A m \in Resolutions \ {1}, v \in Revisions :
        Readable(m, v) => \E w \in Revisions : DerivedFrom(m, v, w)

(* The source a loader past 30m remembers. *)
SourceIsOwn(q) ==
    pc[q] \in {"check", "create", "upload"} /\ resolution[q] > 1 =>
        /\ source[q] \in Revisions /\ Readable(1, source[q])
        /\ LoadedBy(run[q], 1, source[q])

LineageInv == LoaderInv /\ DerivedHasSource /\ \A q \in Procs : SourceIsOwn(q)

LEMMA InitLineage == Init => LineageInv
<1> SUFFICES ASSUME Init PROVE LineageInv
  OBVIOUS
<1>1. \A m \in Resolutions, v \in Revisions : ~Readable(m, v)
  BY DEF Init, NoManifest, Readable
<1>2. DerivedHasSource
  BY <1>1 DEF DerivedHasSource
<1>3. \A q \in Procs : SourceIsOwn(q)
  BY DEF Init, SourceIsOwn
<1> QED BY <1>2, <1>3, InitLoader DEF LineageInv

(* A published manifest stays what it is. *)
LEMMA ReadableStays ==
  ASSUME KeepsServing, NEW m \in Resolutions, NEW v \in Revisions, Readable(m, v)
  PROVE  /\ Readable(m, v)'
         /\ manifests'[m][v].objects = manifests[m][v].objects
         /\ manifests'[m][v].source = manifests[m][v].source
         /\ \A r \in Runs : LoadedBy(r, m, v) => LoadedBy(r, m, v)'
  BY DEF KeepsServing, Readable, LoadedBy

(* So do the source of a derived one ... *)
LEMMA DerivedStays ==
  ASSUME KeepsServing, NEW m \in Resolutions, NEW v \in Revisions, NEW w \in Revisions,
         Readable(m, v), DerivedFrom(m, v, w)
  PROVE  DerivedFrom(m, v, w)'
<1>1. 1 \in Resolutions
  BY CountsAssumption DEF Resolutions
<1>2. /\ manifests'[m][v].objects = manifests[m][v].objects
      /\ manifests'[m][v].source = manifests[m][v].source
  BY ReadableStays
<1>3. Readable(1, w)' /\ manifests'[1][w].objects = manifests[1][w].objects
  BY <1>1, ReadableStays DEF DerivedFrom
<1> QED BY <1>2, <1>3 DEF DerivedFrom

(* ... and that of a loader which does not move. *)
LEMMA SourceStays ==
  ASSUME LoaderInv, KeepsServing, NEW q \in Procs, SourceIsOwn(q),
         pc'[q] = pc[q], run'[q] = run[q], resolution'[q] = resolution[q],
         source'[q] = source[q]
  PROVE  SourceIsOwn(q)'
<1> SUFFICES ASSUME pc[q] \in {"check", "create", "upload"}, resolution[q] > 1
             PROVE  /\ source[q] \in Revisions /\ Readable(1, source[q])'
                    /\ LoadedBy(run[q], 1, source[q])'
  BY DEF SourceIsOwn
<1>1. source[q] \in Revisions /\ Readable(1, source[q]) /\ LoadedBy(run[q], 1, source[q])
  BY DEF SourceIsOwn
<1>2. 1 \in Resolutions
  BY CountsAssumption DEF Resolutions
<1>3. run[q] \in Runs
  BY DEF LoaderInv, LoaderIsSound
<1>4. PICK w \in Revisions, r \in Runs : w = source[q] /\ r = run[q]
  BY <1>1, <1>3
<1> QED BY <1>1, <1>2, <1>4, ReadableStays

(* A loader that leaves check and upload, or starts again with 30m, needs none; *)
(* one that goes on with the same resolution keeps what it has.                *)
LEMMA SameSource ==
  ASSUME LoaderInv, KeepsServing, NEW p \in Procs, \A q \in Procs : SourceIsOwn(q),
         \A q \in Procs \ {p} : /\ pc'[q] = pc[q] /\ run'[q] = run[q]
                                /\ resolution'[q] = resolution[q] /\ source'[q] = source[q],
         \/ pc'[p] \notin {"check", "create", "upload"}
         \/ resolution'[p] = 1
         \/ /\ pc[p] \in {"check", "create", "upload"} /\ run'[p] = run[p]
            /\ resolution'[p] = resolution[p] /\ source'[p] = source[p]
  PROVE  \A q \in Procs : SourceIsOwn(q)'
<1>1. \A q \in Procs \ {p} : SourceIsOwn(q)'
  BY SourceStays
<1>2. CASE pc'[p] \notin {"check", "create", "upload"} \/ resolution'[p] = 1
  <2>1. SourceIsOwn(p)'
    BY <1>2 DEF SourceIsOwn
  <2> QED BY <1>1, <2>1
<1>3. CASE /\ pc[p] \in {"check", "create", "upload"} /\ run'[p] = run[p]
           /\ resolution'[p] = resolution[p] /\ source'[p] = source[p]
  <2>1. 1 \in Resolutions /\ run[p] \in Runs
    BY <1>3, CountsAssumption DEF LoaderInv, LoaderIsSound, Resolutions
  <2>2. ASSUME resolution[p] > 1
        PROVE  /\ source[p] \in Revisions /\ Readable(1, source[p])'
               /\ LoadedBy(run[p], 1, source[p])'
    <3>1. source[p] \in Revisions /\ Readable(1, source[p]) /\ LoadedBy(run[p], 1, source[p])
      BY <1>3, <2>2 DEF SourceIsOwn
    <3>2. PICK w \in Revisions, r \in Runs : w = source[p] /\ r = run[p]
      BY <2>1, <3>1
    <3>3. Readable(1, w)' /\ LoadedBy(r, 1, w)'
      BY <2>1, <3>1, <3>2, ReadableStays
    <3> QED BY <1>3, <3>1, <3>2, <3>3
  <2>3. SourceIsOwn(p)'
    <3>1. /\ source[p] = source'[p] /\ run[p] = run'[p] /\ resolution[p] = resolution'[p]
      BY <1>3
    <3> QED BY <2>2, <3>1 DEF SourceIsOwn
  <2> QED BY <1>1, <2>3
<1> QED BY <1>2, <1>3

(* While nothing is published, derived manifests keep their source. *)
LEMMA SameDerived ==
  ASSUME KeepsServing, DerivedHasSource,
         \A m \in Resolutions, v \in Revisions : Readable(m, v)' => Readable(m, v)
  PROVE  DerivedHasSource'
<1> SUFFICES ASSUME NEW m \in Resolutions \ {1}, NEW v \in Revisions, Readable(m, v)'
             PROVE  \E w \in Revisions : DerivedFrom(m, v, w)'
  BY DEF DerivedHasSource
<1>1. PICK w \in Revisions : DerivedFrom(m, v, w)
  BY DEF DerivedHasSource
<1> QED BY <1>1, DerivedStays

(* What is published was finalized by a loader in this step: after 30m, its    *)
(* source is the one that loader remembers, with the bars it holds.           *)
LEMMA FinalizeLineage ==
  ASSUME AnswersAgree, LineageInv, NEW p \in Procs, Finalize(p)
  PROVE  DerivedHasSource' /\ \A q \in Procs : SourceIsOwn(q)'
<1>1. LoaderInv /\ LoaderInv' /\ KeepsServing
  BY FinalizeStep DEF LineageInv
<1>2. PICK m \in Resolutions, v \in Revisions, r \in Runs :
         m = resolution[p] /\ v = revision[p] /\ r = run[p]
  BY <1>1 DEF LoaderInv, LoaderIsSound, Finalize
<1>3. /\ pc[p] = "upload" /\ Finalizable(p) /\ pc' = [pc EXCEPT ![p] = "check"]
      /\ manifests' = [manifests EXCEPT ![m] = Finalized(p)]
      /\ partitions' = [partitions EXCEPT ![r][m] = [s \in Shards |-> v]]
      /\ source' = IF m = 1 THEN [source EXCEPT ![p] = v] ELSE source
      /\ resolution' = [resolution EXCEPT ![p] = m + 1] /\ run' = run
  BY <1>2 DEF Finalize, Goto
<1>4. /\ data[p] \in Provides[r] /\ m \in Nat /\ m > 0 /\ 1 \in Resolutions
      /\ source \in [Procs -> 0..MaxRevision] /\ resolution \in [Procs -> Nat]
      /\ partitions \in [Runs -> [Resolutions -> [Shards -> 0..MaxRevision]]]
      /\ manifests \in [Resolutions -> [Revisions -> ManifestRecords]]
      /\ pc \in [Procs -> Labels]
  BY <1>1, <1>2, <1>3, CountsAssumption DEF LoaderInv, LoaderIsSound, TypeOK, Resolutions
<1>5. \A q \in Procs \ {p} : SourceIsOwn(q)'
  <2>1. \A q \in Procs \ {p} : /\ pc'[q] = pc[q] /\ run'[q] = run[q]
                               /\ resolution'[q] = resolution[q] /\ source'[q] = source[q]
    BY <1>3, <1>4
  <2> QED BY <1>1, <2>1, SourceStays DEF LineageInv
<1>6. CASE m = 1
  <2>1. source'[p] = v /\ run'[p] = r
    BY <1>2, <1>3, <1>4, <1>6
  <2>2. Completed(r, 1, v)'
    <3>1. partitions'[r][1] = [s \in Shards |-> v] /\ v # 0
      BY <1>2, <1>3, <1>4, <1>6, LoaderBoundAssumption DEF Revisions
    <3> QED BY <3>1 DEF Completed
  <2>3. Readable(1, v)' /\ LoadedBy(r, 1, v)'
    BY <1>1, <1>4, <2>2 DEF LoaderInv, TablesInv, CompletedIsOwn
  <2>4. SourceIsOwn(p)'
    BY <2>1, <2>3 DEF SourceIsOwn
  <2>5. \A k \in Resolutions \ {1}, w \in Revisions : Readable(k, w)' => Readable(k, w)
    BY <1>3, <1>4, <1>6 DEF Readable
  <2>6. DerivedHasSource'
    <3> SUFFICES ASSUME NEW k \in Resolutions \ {1}, NEW w \in Revisions, Readable(k, w)'
                 PROVE  \E x \in Revisions : DerivedFrom(k, w, x)'
      BY DEF DerivedHasSource
    <3>1. Readable(k, w)
      BY <2>5
    <3>2. PICK x \in Revisions : DerivedFrom(k, w, x)
      BY <3>1 DEF LineageInv, DerivedHasSource
    <3> QED BY <1>1, <3>1, <3>2, DerivedStays
  <2> QED BY <1>5, <2>4, <2>6
<1>7. CASE m # 1
  <2>1. m > 1
    BY <1>4, <1>7
  <2>2. PICK w \in Revisions : w = source[p] /\ Readable(1, w) /\ LoadedBy(r, 1, w)
    BY <1>2, <1>3, <2>1 DEF LineageInv, SourceIsOwn
  <2>3. Readable(1, w)' /\ LoadedBy(r, 1, w)'
    BY <1>1, <1>4, <2>2, ReadableStays
  <2>4. source'[p] = w /\ run'[p] = r
    BY <1>2, <1>3, <1>7, <2>2
  <2>5. SourceIsOwn(p)'
    BY <2>2, <2>3, <2>4 DEF SourceIsOwn
  <2>6. manifests'[m][v] = [manifests[m][v] EXCEPT
          !.status = "AVAILABLE", !.objects = Registered(p), !.source = w]
    BY <1>2, <1>3, <1>4, <1>7, <2>2 DEF Finalized
  <2>7. manifests'[m][v].source = w /\ manifests'[m][v].objects = Registered(p)
    <3>1. manifests[m][v] \in ManifestRecords
      BY <1>4
    <3> QED BY <2>6, <3>1 DEF ManifestRecords
  <2>8. DerivedFrom(m, v, w)'
    <3>1. \A f \in Registered(p) : f.piece = data[p][f.shard]
      BY DEF Registered
    <3>2. \A g \in manifests'[1][w].objects : g.piece = data[p][g.shard]
      BY <1>4, <2>3 DEF LoadedBy, AnswersAgree
    <3> QED BY <2>3, <2>7, <3>1, <3>2 DEF DerivedFrom
  <2>9. ASSUME NEW k \in Resolutions \ {1}, NEW x \in Revisions, Readable(k, x)'
        PROVE  \E y \in Revisions : DerivedFrom(k, x, y)'
    <3>1. CASE k = m /\ x = v
      BY <2>8, <3>1
    <3>2. CASE k # m \/ x # v
      <4>1. manifests[k][x] \in ManifestRecords
        BY <1>4
      <4>2. \/ manifests'[k][x] = manifests[k][x]
            \/ /\ manifests[k][x].status = "AVAILABLE"
               /\ manifests'[k][x] = [manifests[k][x] EXCEPT !.status = "SUPERSEDED"]
        BY <1>2, <1>3, <1>4, <3>2 DEF Finalized
      <4>3. Readable(k, x)
        BY <2>9, <4>1, <4>2 DEF Readable, ManifestRecords
      <4>4. PICK y \in Revisions : DerivedFrom(k, x, y)
        BY <4>3 DEF LineageInv, DerivedHasSource
      <4> QED BY <1>1, <4>3, <4>4, DerivedStays
    <3> QED BY <3>1, <3>2
  <2> QED BY <1>5, <2>5, <2>9 DEF DerivedHasSource
<1> QED BY <1>6, <1>7

(* A loader that skips 30m remembers the manifest it skips it for. *)
LEMMA SkipLineage ==
  ASSUME LineageInv, NEW p \in Procs, SkipResolution(p)
  PROVE  \A q \in Procs : SourceIsOwn(q)'
<1>1. LoaderInv /\ KeepsServing
  BY SameManifestsKeepServing DEF LineageInv, SkipResolution, tables
<1>2. PICK m \in Resolutions, v \in Revisions, r \in Runs :
         /\ m = resolution[p] /\ r = run[p] /\ Completed(r, m, v)
         /\ source' = IF m = 1 THEN [source EXCEPT ![p] = v] ELSE source
  BY <1>1 DEF LoaderInv, LoaderIsSound, SkipResolution
<1>3. /\ pc[p] = "check" /\ pc' = pc /\ run' = run
      /\ resolution' = [resolution EXCEPT ![p] = m + 1]
  BY <1>2 DEF SkipResolution
<1>4. /\ source \in [Procs -> 0..MaxRevision] /\ resolution \in [Procs -> Nat]
      /\ 1 \in Resolutions /\ m \in Nat /\ m > 0
  BY <1>1, CountsAssumption DEF LoaderInv, TypeOK, Resolutions
<1>5. \A q \in Procs \ {p} : SourceIsOwn(q)'
  BY <1>1, <1>2, <1>3, <1>4, SourceStays DEF LineageInv
<1>6. SourceIsOwn(p)'
  <2>1. CASE m = 1
    <3>1. Readable(1, v) /\ LoadedBy(r, 1, v)
      BY <1>1, <1>2, <2>1 DEF LoaderInv, TablesInv, CompletedIsOwn
    <3>2. source'[p] = v /\ run'[p] = r
      BY <1>2, <1>3, <1>4, <2>1
    <3>3. Readable(1, v)' /\ LoadedBy(r, 1, v)'
      BY <1>1, <1>4, <3>1, ReadableStays
    <3> QED BY <3>2, <3>3 DEF SourceIsOwn
  <2>2. CASE m # 1
    <3>1. m > 1
      BY <1>4, <2>2
    <3>2. PICK w \in Revisions : w = source[p] /\ Readable(1, w) /\ LoadedBy(r, 1, w)
      BY <1>2, <1>3, <3>1 DEF LineageInv, SourceIsOwn
    <3>3. source'[p] = w /\ run'[p] = r
      BY <1>2, <1>3, <2>2, <3>2
    <3>4. Readable(1, w)' /\ LoadedBy(r, 1, w)'
      BY <1>1, <1>4, <3>2, ReadableStays
    <3> QED BY <3>3, <3>4 DEF SourceIsOwn
  <2> QED BY <2>1, <2>2
<1> QED BY <1>5, <1>6

(* Every step of every loader keeps the lineage. *)
LEMMA StepLineage ==
  ASSUME AnswersAgree, LineageInv, [Next]_vars
  PROVE  LineageInv'
<1>1. LoaderInv /\ LoaderInv' /\ KeepsServing /\ DerivedHasSource
  BY StepLoader DEF LineageInv
<1>2. pc \in [Procs -> Labels] /\ resolution \in [Procs -> Nat]
  BY <1>1 DEF LoaderInv, TypeOK
<1> USE DEF LineageInv
<1>3. ASSUME NEW p \in Procs, End(p), UNCHANGED manifests PROVE LineageInv'
  <2>1. /\ pc'[p] = "idle"
        /\ \A q \in Procs \ {p} : /\ pc'[q] = pc[q] /\ run'[q] = run[q]
                                  /\ resolution'[q] = resolution[q] /\ source'[q] = source[q]
    BY <1>1, <1>3 DEF LoaderInv, TypeOK, End, Goto
  <2>2. \A q \in Procs : SourceIsOwn(q)'
    BY <1>1, <2>1, SameSource
  <2>3. DerivedHasSource'
    BY <1>1, <1>3, SameDerived DEF Readable
  <2> QED BY <1>1, <2>2, <2>3
<1>4. ASSUME NEW p \in Procs, Goto(p, "failing"), UNCHANGED <<manifests, locals>>
      PROVE  LineageInv'
  <2>1. /\ pc'[p] = "failing" /\ \A q \in Procs \ {p} : pc'[q] = pc[q]
        /\ UNCHANGED <<run, resolution, source>>
    BY <1>2, <1>4 DEF Goto, locals
  <2>2. \A q \in Procs : SourceIsOwn(q)'
    BY <1>1, <2>1, SameSource
  <2>3. DerivedHasSource'
    BY <1>1, <1>4, SameDerived DEF Readable
  <2> QED BY <1>1, <2>2, <2>3
<1>5. ASSUME NEW p \in Procs, NEW r \in Runs, Begin(p, r) PROVE LineageInv'
  <2>1. /\ pc'[p] = "collect"
        /\ \A q \in Procs \ {p} : /\ pc'[q] = pc[q] /\ run'[q] = run[q]
                                  /\ resolution'[q] = resolution[q] /\ source'[q] = source[q]
    BY <1>2, <1>5 DEF Begin, Goto
  <2>2. \A q \in Procs : SourceIsOwn(q)'
    BY <1>1, <2>1, SameSource
  <2>3. DerivedHasSource'
    BY <1>1, <1>5, SameDerived DEF Readable, Begin
  <2> QED BY <1>1, <2>2, <2>3
<1>6. ASSUME NEW p \in Procs, Collect(p) PROVE LineageInv'
  <2>1. /\ resolution'[p] = 1
        /\ \A q \in Procs \ {p} : /\ pc'[q] = pc[q] /\ run'[q] = run[q]
                                  /\ resolution'[q] = resolution[q] /\ source'[q] = source[q]
    BY <1>2, <1>6 DEF Collect, Goto
  <2>2. \A q \in Procs : SourceIsOwn(q)'
    BY <1>1, <2>1, SameSource
  <2>3. DerivedHasSource'
    BY <1>1, <1>6, SameDerived DEF Readable, Collect, tables
  <2> QED BY <1>1, <2>2, <2>3
<1>7. ASSUME NEW p \in Procs, SkipResolution(p) PROVE LineageInv'
  <2>1. DerivedHasSource'
    BY <1>1, <1>7, SameDerived DEF Readable, SkipResolution, tables
  <2> QED BY <1>1, <1>7, <2>1, SkipLineage
<1>8. ASSUME NEW p \in Procs, CreateManifest(p) PROVE LineageInv'
  <2>1. /\ pc[p] = "create" /\ pc' = [pc EXCEPT ![p] = "upload"]
        /\ UNCHANGED <<run, resolution, source>>
    BY <1>8 DEF CreateManifest, Goto
  <2>2. \A q \in Procs : SourceIsOwn(q)'
    BY <1>1, <1>2, <2>1, SameSource
  <2>3. \A k \in Resolutions, v \in Revisions : Readable(k, v)' => Readable(k, v)
    <3>1. manifests \in [Resolutions -> [Revisions -> ManifestRecords]]
      BY <1>1 DEF LoaderInv, TypeOK
    <3>2. \/ UNCHANGED manifests
          \/ \E m \in Resolutions, v \in Revisions : \E new :
                /\ manifests' = [manifests EXCEPT ![m][v] = new]
                /\ new.status = "BUILDING"
      <4>1. resolution[p] \in Resolutions
        BY <1>1, <2>1 DEF LoaderInv, LoaderIsSound
      <4> QED BY <1>8, <4>1 DEF CreateManifest
    <3> QED BY <3>1, <3>2 DEF Readable
  <2>4. DerivedHasSource'
    BY <1>1, <2>3, SameDerived
  <2> QED BY <1>1, <2>2, <2>4
<1>15. ASSUME NEW p \in Procs, StartResolution(p) PROVE LineageInv'
  <2>1. /\ pc[p] = "check" /\ \A q \in Procs \ {p} : pc'[q] = pc[q]
        /\ UNCHANGED <<run, resolution, source>>
    BY <1>2, <1>15 DEF StartResolution, Goto, locals
  <2>2. \A q \in Procs : SourceIsOwn(q)'
    BY <1>1, <2>1, SameSource
  <2>3. DerivedHasSource'
    BY <1>1, <1>15, SameDerived DEF Readable, StartResolution, tables
  <2> QED BY <1>1, <2>2, <2>3
<1>9. ASSUME NEW p \in Procs, Upload(p) PROVE LineageInv'
  <2>1. UNCHANGED <<pc, run, resolution, source>> /\ pc[p] = "upload"
    BY <1>9 DEF Upload
  <2>2. \A q \in Procs : SourceIsOwn(q)'
    BY <1>1, <2>1, SameSource
  <2>3. DerivedHasSource'
    BY <1>1, <1>9, SameDerived DEF Readable, Upload, tables
  <2> QED BY <1>1, <2>2, <2>3
<1>10. ASSUME NEW p \in Procs, Finalize(p) PROVE LineageInv'
  BY <1>1, <1>10, FinalizeLineage
<1>11. ASSUME NEW p \in Procs, Complete(p) PROVE LineageInv'
  <2>1. /\ pc'[p] = "report" /\ \A q \in Procs \ {p} : pc'[q] = pc[q]
        /\ UNCHANGED <<run, resolution, source>>
    BY <1>2, <1>11 DEF Complete, Goto, locals
  <2>2. \A q \in Procs : SourceIsOwn(q)'
    BY <1>1, <2>1, SameSource
  <2>3. DerivedHasSource'
    BY <1>1, <1>11, SameDerived DEF Readable, Complete
  <2> QED BY <1>1, <2>2, <2>3
<1>12. ASSUME NEW p \in Procs, Step(p) PROVE LineageInv'
  <2>1. CASE UploadConflict(p) \/ FinalizeRejected(p)
    BY <1>4, <2>1 DEF UploadConflict, FinalizeRejected, tables
  <2>2. CASE Report(p) \/ RecordFailure(p)
    BY <1>3, <2>2 DEF Report, RecordFailure, tables
  <2> QED BY <1>6, <1>7, <1>8, <1>9, <1>10, <1>11, <1>12, <1>15, <2>1, <2>2 DEF Step
<1>13. ASSUME NEW p \in Procs, Fails(p) \/ Dies(p) PROVE LineageInv'
  BY <1>3, <1>4, <1>13 DEF Fails, Dies, tables
<1>14. CASE UNCHANGED vars
  <2>1. UNCHANGED <<manifests, pc, run, resolution, source>>
    BY <1>14 DEF vars, tables, locals
  <2>2. \A q \in Procs : SourceIsOwn(q)'
    BY <1>1, <2>1, SourceStays
  <2>3. DerivedHasSource'
    BY <1>1, <2>1, SameDerived DEF Readable
  <2> QED BY <1>1, <2>2, <2>3
<1> QED
  BY <1>5, <1>12, <1>13, <1>14 DEF Next

(* While Alpaca answers a run alike, a derived manifest was resampled from a   *)
(* published 30m manifest that holds its bars, however often its run was       *)
(* resumed and whoever else published meanwhile (BackfillEngine.run,           *)
(* finalize_manifest); loader_lineage shows that the condition is needed.      *)
THEOREM AlwaysMatchesSource == ASSUME AnswersAgree PROVE Spec => []DerivedMatchesSource
<1>1. LineageInv => DerivedMatchesSource
  BY DEF LineageInv, DerivedHasSource, DerivedFrom, DerivedMatchesSource
<1>2. LineageInv /\ [Next]_vars => LineageInv'
  BY StepLineage
<1> QED BY <1>1, <1>2, InitLineage, PTL DEF Spec
-----------------------------------------------------------------------------
(* Orphans.  The first shard of a manifest is stored before its others, by the *)
(* one loader that goes on with it, while the manifest is BUILDING.            *)
Building(m, v) == manifests[m][v].status = "BUILDING"

HasFirst(m, v) == \E f \in s3 : f.resolution = m /\ f.revision = v /\ f.shard = 0

StoredHasFirst ==
    /\ \A f \in s3 : HasFirst(f.resolution, f.revision)
    /\ \A m \in Resolutions, v \in Revisions : Readable(m, v) => HasFirst(m, v)

IsAt(q, m, v) == pc[q] = "upload" /\ resolution[q] = m /\ revision[q] = v

GoesOn(q, m, v) == IsAt(q, m, v) /\ shard[q] > 0

OneGoesOn ==
    \A m \in Resolutions, v \in Revisions, p, q \in Procs :
        GoesOn(p, m, v) /\ GoesOn(q, m, v) => p = q

AtBuilding ==
    \A m \in Resolutions, v \in Revisions, q \in Procs :
        /\ IsAt(q, m, v) => v \in Known(m)
        /\ GoesOn(q, m, v) => Building(m, v)

FirstInv == StoredHasFirst /\ OneGoesOn /\ AtBuilding

LEMMA InitFirst == Init => FirstInv
<1> SUFFICES ASSUME Init PROVE FirstInv
  OBVIOUS
<1>1. \A m \in Resolutions, v \in Revisions : ~Readable(m, v)
  BY DEF Init, NoManifest, Readable
<1>2. s3 = {} /\ \A q \in Procs : pc[q] = "idle"
  BY DEF Init
<1> QED
  BY <1>1, <1>2 DEF FirstInv, StoredHasFirst, OneGoesOn, AtBuilding, GoesOn, IsAt

(* A loader that goes on with a manifest stored its first shard.              *)
LEMMA GoesOnHasFirst ==
  ASSUME LoaderInv, NEW m, NEW v, NEW q \in Procs, GoesOn(q, m, v)
  PROVE  HasFirst(m, v)
<1>1. 0 \in Shards
  BY CountsAssumption DEF Shards
<1>2. File(m, v, 0, data[q][0]) \in s3
  BY <1>1 DEF LoaderInv, LoaderIsSound, GoesOn, IsAt
<1> QED BY <1>2 DEF HasFirst, File

(* Who uploads and finds the first shard stored goes on already: the key of    *)
(* that shard takes no second file (publish_shard).                           *)
LEMMA UploadAfterFirst ==
  ASSUME LoaderInv, NEW m, NEW v, NEW p \in Procs, Upload(p), IsAt(p, m, v), HasFirst(m, v)
  PROVE  GoesOn(p, m, v)
<1>1. shard[p] \in Nat /\ ~Conflicts(p)
  BY DEF LoaderInv, TypeOK, Upload
<1>2. shard[p] # 0
  BY <1>1 DEF Conflicts, SameKey, FileOf, HasFirst, IsAt
<1> QED BY <1>1, <1>2 DEF GoesOn

(* A loader that stands where it stood, while files are only added and BUILDING  *)
(* manifests stay, keeps what FirstInv says of it.                            *)
LEMMA FirstStays ==
  ASSUME FirstInv, NEW p \in Procs, UNCHANGED <<manifests, s3>>,
         \A q \in Procs \ {p} :
             /\ pc'[q] = pc[q] /\ resolution'[q] = resolution[q]
             /\ revision'[q] = revision[q] /\ shard'[q] = shard[q],
         pc'[p] # "upload"
  PROVE  FirstInv'
<1>1. /\ \A m, v, q : q \in Procs /\ IsAt(q, m, v)' => IsAt(q, m, v)
      /\ \A m, v, q : q \in Procs /\ GoesOn(q, m, v)' => GoesOn(q, m, v)
  BY DEF IsAt, GoesOn
<1>2. /\ \A m, v : HasFirst(m, v)' <=> HasFirst(m, v)
      /\ \A m, v : Readable(m, v)' <=> Readable(m, v)
      /\ \A m, v : Building(m, v)' <=> Building(m, v)
      /\ \A m : Known(m)' = Known(m)
  BY DEF HasFirst, Readable, Building, Known
<1>3. StoredHasFirst'
  BY <1>2 DEF FirstInv, StoredHasFirst
<1>4. OneGoesOn' /\ AtBuilding'
  BY <1>1, <1>2 DEF FirstInv, OneGoesOn, AtBuilding
<1> QED BY <1>3, <1>4 DEF FirstInv

(* A file that is put is a first shard, of a manifest that is BUILDING, or comes *)
(* after one of the loader's own.                                             *)
LEMMA FirstUpload ==
  ASSUME LoaderInv, FirstInv, NEW p \in Procs, Upload(p)
  PROVE  FirstInv'
<1>0. PICK k \in Resolutions, w \in Revisions : IsAt(p, k, w)
  BY DEF Upload, LoaderInv, LoaderIsSound, IsAt
<1>1. /\ UNCHANGED <<manifests, pc, resolution, revision>>
      /\ shard[p] \in Shards /\ s3' = s3 \cup {FileOf(p)}
      /\ shard' = [shard EXCEPT ![p] = shard[p] + 1]
      /\ shard \in [Procs -> Nat]
  BY DEF Upload, tables, LoaderInv, TypeOK
<1>2. FileOf(p).resolution = k /\ FileOf(p).revision = w /\ FileOf(p).shard = shard[p]
  BY <1>0 DEF FileOf, IsAt
<1>3. \A m, v : HasFirst(m, v) => HasFirst(m, v)'
  BY <1>1 DEF HasFirst
<1>4. HasFirst(k, w)'
  <2>1. CASE shard[p] = 0
    BY <1>1, <1>2, <2>1 DEF HasFirst
  <2>2. CASE shard[p] # 0
    <3>1. GoesOn(p, k, w)
      BY <1>0, <1>1, <2>2 DEF GoesOn
    <3> QED BY <1>3, <3>1, GoesOnHasFirst
  <2> QED BY <2>1, <2>2
<1>5. StoredHasFirst'
  <2>1. ASSUME NEW f \in s3' PROVE HasFirst(f.resolution, f.revision)'
    <3>1. CASE f \in s3
      BY <1>3, <3>1 DEF FirstInv, StoredHasFirst
    <3>2. CASE f = FileOf(p)
      BY <1>2, <1>4, <3>2
    <3> QED BY <1>1, <3>1, <3>2
  <2>2. ASSUME NEW m \in Resolutions, NEW v \in Revisions, Readable(m, v)'
        PROVE  HasFirst(m, v)'
    BY <1>1, <1>3, <2>2 DEF FirstInv, StoredHasFirst, Readable
  <2> QED BY <2>1, <2>2 DEF StoredHasFirst
<1>6. \A m, v, q : q \in Procs =>
        /\ IsAt(q, m, v)' <=> IsAt(q, m, v)
        /\ GoesOn(q, m, v)' => GoesOn(q, m, v) \/ (q = p /\ m = k /\ v = w)
  BY <1>0, <1>1 DEF IsAt, GoesOn
<1>7. \A m \in Resolutions, v \in Revisions, q \in Procs : GoesOn(q, m, v) => HasFirst(m, v)
  BY GoesOnHasFirst
<1>8. HasFirst(k, w) => GoesOn(p, k, w)
  BY <1>0, UploadAfterFirst
<1>9. OneGoesOn'
  BY <1>6, <1>7, <1>8 DEF FirstInv, OneGoesOn
<1>10. Building(k, w)
  <2>1. CASE HasFirst(k, w)
    BY <1>8, <2>1 DEF FirstInv, AtBuilding
  <2>2. CASE ~HasFirst(k, w)
    <3>1. w \in Known(k) /\ ~Readable(k, w)
      BY <1>0, <2>2 DEF FirstInv, AtBuilding, StoredHasFirst
    <3>2. manifests[k][w] \in ManifestRecords
      BY DEF LoaderInv, TypeOK
    <3> QED BY <3>1, <3>2 DEF Known, Readable, Building, ManifestRecords
  <2> QED BY <2>1, <2>2
<1>11. AtBuilding'
  <2>1. /\ \A m : Known(m)' = Known(m)
        /\ \A m, v : Building(m, v)' <=> Building(m, v)
    BY <1>1 DEF Known, Building
  <2> QED BY <1>6, <1>10, <2>1 DEF FirstInv, AtBuilding
<1> QED BY <1>5, <1>9, <1>11 DEF FirstInv

(* What CreateManifest does to the manifests: nothing, or one that was ABSENT   *)
(* is BUILDING after the last one; and the loader stands at its first shard.    *)
LEMMA Creates ==
  ASSUME LoaderInv, NEW p \in Procs, CreateManifest(p), NEW k \in Resolutions,
         k = resolution[p]
  PROVE  \E last \in 0..MaxRevision :
           /\ IsLast(k, last)
           /\ \/ /\ Reuses(k, last, run[p]) /\ UNCHANGED manifests
                 /\ revision'[p] = last /\ previous'[p] = manifests[k][last].supersedes
              \/ /\ ~Reuses(k, last, run[p]) /\ last + 1 \in Revisions
                 /\ revision'[p] = last + 1 /\ previous'[p] = last
                 /\ manifests[k][last + 1].status = "ABSENT"
                 /\ manifests'[k][last + 1].status = "BUILDING"
                 /\ manifests'[k][last + 1].supersedes = last
                 /\ manifests'[k][last + 1].version = Version[run[p]]
                 /\ \A m \in Resolutions, v \in Revisions :
                       m # k \/ v # last + 1 => manifests'[m][v] = manifests[m][v]
<1>1. /\ manifests \in [Resolutions -> [Revisions -> ManifestRecords]]
      /\ revision \in [Procs -> 0..MaxRevision] /\ previous \in [Procs -> 0..MaxRevision]
  BY DEF LoaderInv, TypeOK
<1>2. PICK last \in 0..MaxRevision :
        /\ IsLast(k, last)
        /\ \/ /\ Reuses(k, last, run[p])
              /\ revision' = [revision EXCEPT ![p] = last]
              /\ previous' = [previous EXCEPT ![p] = manifests[k][last].supersedes]
              /\ UNCHANGED manifests
           \/ /\ ~Reuses(k, last, run[p])
              /\ last + 1 \in Revisions
              /\ revision' = [revision EXCEPT ![p] = last + 1]
              /\ previous' = [previous EXCEPT ![p] = last]
              /\ manifests' = [manifests EXCEPT ![k][last + 1] =
                     [status |-> "BUILDING", version |-> Version[run[p]],
                      supersedes |-> last, objects |-> {}, source |-> 0]]
  BY DEF CreateManifest
<1>3. CASE Reuses(k, last, run[p])
  BY <1>1, <1>2, <1>3
<1>4. CASE ~Reuses(k, last, run[p])
  <2> DEFINE new == [status |-> "BUILDING", version |-> Version[run[p]],
                     supersedes |-> last, objects |-> {}, source |-> 0]
  <2>1. /\ last + 1 \in Revisions /\ revision'[p] = last + 1 /\ previous'[p] = last
        /\ manifests' = [manifests EXCEPT ![k][last + 1] = new]
    BY <1>1, <1>2, <1>4
  <2>2. last + 1 \notin Known(k)
    BY <1>2, LoaderBoundAssumption DEF IsLast, Known, Revisions
  <2>3. new.status = "BUILDING" /\ new.supersedes = last /\ new.version = Version[run[p]]
    OBVIOUS
  <2> HIDE DEF new
  <2>4. /\ manifests'[k][last + 1] = new
        /\ \A m \in Resolutions, v \in Revisions :
              m # k \/ v # last + 1 => manifests'[m][v] = manifests[m][v]
    BY <1>1, <2>1
  <2> QED BY <1>2, <1>4, <2>1, <2>2, <2>3, <2>4 DEF Known
<1> QED BY <1>3, <1>4

(* A loader that creates a manifest or takes one over has stored nothing of it. *)
LEMMA FirstCreate ==
  ASSUME LoaderInv, FirstInv, NEW p \in Procs, CreateManifest(p)
  PROVE  FirstInv'
<1>0. PICK k \in Resolutions : k = resolution[p]
  BY DEF CreateManifest, LoaderInv, LoaderIsSound
<1>1. /\ UNCHANGED <<s3, resolution>>
      /\ pc'[p] = "upload" /\ shard'[p] = 0 /\ revision'[p] \in Revisions
      /\ \A q \in Procs \ {p} :
            /\ pc'[q] = pc[q] /\ shard'[q] = shard[q] /\ revision'[q] = revision[q]
  <2>1. /\ pc \in [Procs -> Labels] /\ shard \in [Procs -> Nat]
        /\ revision \in [Procs -> 0..MaxRevision]
    BY DEF LoaderInv, TypeOK
  <2>2. /\ UNCHANGED <<s3, resolution>>
        /\ pc' = [pc EXCEPT ![p] = "upload"] /\ shard' = [shard EXCEPT ![p] = 0]
        /\ \E v \in 0..MaxRevision \cup Revisions : revision' = [revision EXCEPT ![p] = v]
    BY DEF CreateManifest, Goto
  <2>3. pc'[p] = "upload" /\ revision'[p] \in Revisions
    BY <2>1, <2>2, CreateStep DEF LoaderInv, LoaderIsSound
  <2> QED BY <2>1, <2>2, <2>3
<1>2. PICK last \in 0..MaxRevision :
           \/ /\ Reuses(k, last, run[p]) /\ UNCHANGED manifests
              /\ revision'[p] = last
           \/ /\ last + 1 \in Revisions /\ revision'[p] = last + 1
              /\ manifests[k][last + 1].status = "ABSENT"
              /\ manifests'[k][last + 1].status = "BUILDING"
              /\ \A m \in Resolutions, v \in Revisions :
                    m # k \/ v # last + 1 => manifests'[m][v] = manifests[m][v]
  BY <1>0, Creates
<1>3. /\ \A m \in Resolutions, v \in Revisions : Readable(m, v)' <=> Readable(m, v)
      /\ \A m \in Resolutions, v \in Revisions : Building(m, v) => Building(m, v)'
      /\ \A m \in Resolutions : Known(m) \subseteq Known(m)'
      /\ revision'[p] \in Known(k)'
  BY <1>2 DEF Readable, Building, Known, Reuses
<1>4. \A m, v : HasFirst(m, v)' <=> HasFirst(m, v)
  BY <1>1 DEF HasFirst
<1>5. \A m, v, q : q \in Procs =>
        /\ GoesOn(q, m, v)' => GoesOn(q, m, v)
        /\ IsAt(q, m, v)' => IsAt(q, m, v) \/ (m = k /\ v = revision'[p])
  BY <1>0, <1>1 DEF GoesOn, IsAt
<1>6. StoredHasFirst'
  BY <1>1, <1>3, <1>4 DEF FirstInv, StoredHasFirst
<1>7. OneGoesOn' /\ AtBuilding'
  BY <1>3, <1>5 DEF FirstInv, OneGoesOn, AtBuilding
<1> QED BY <1>6, <1>7 DEF FirstInv

(* What Finalize does to the manifests: the one it was built for was BUILDING    *)
(* and is AVAILABLE; of the others, an AVAILABLE one may be SUPERSEDED.         *)
LEMMA Finalizes ==
  ASSUME LoaderInv, NEW p \in Procs, Finalize(p),
         NEW k \in Resolutions, NEW w \in Revisions, k = resolution[p], w = revision[p]
  PROVE  /\ GoesOn(p, k, w) /\ Building(k, w)
         /\ manifests'[k][w].status = "AVAILABLE"
         /\ manifests'[k] = Finalized(p)
         /\ \A m \in Resolutions \ {k} : manifests'[m] = manifests[m]
         /\ \A v \in Revisions \ {w} :
               /\ manifests'[k][v].supersedes = manifests[k][v].supersedes
               /\ manifests'[k][v].version = manifests[k][v].version
               /\ \/ manifests'[k][v].status = manifests[k][v].status
                  \/ /\ manifests[k][v].status = "AVAILABLE"
                     /\ manifests'[k][v].status = "SUPERSEDED"
         /\ \A q \in Procs \ {p} : pc'[q] = pc[q] /\ resolution'[q] = resolution[q]
         /\ pc'[p] = "check" /\ UNCHANGED <<s3, revision, shard, previous>>
<1>1. /\ manifests \in [Resolutions -> [Revisions -> ManifestRecords]]
      /\ pc \in [Procs -> Labels] /\ resolution \in [Procs -> Nat] /\ shard[p] \in Nat
  BY DEF LoaderInv, TypeOK
<1>2. /\ pc[p] = "upload" /\ shard[p] \notin Shards /\ Finalizable(p)
      /\ manifests' = [manifests EXCEPT ![k] = Finalized(p)]
      /\ pc' = [pc EXCEPT ![p] = "check"]
      /\ resolution' = [resolution EXCEPT ![p] = k + 1]
      /\ UNCHANGED <<s3, revision, shard, previous>>
  BY DEF Finalize, Goto
<1>3. GoesOn(p, k, w)
  <2>1. shard[p] # 0
    BY <1>2, CountsAssumption DEF Shards
  <2> QED BY <1>1, <1>2, <2>1 DEF GoesOn, IsAt
<1>4. manifests'[k] = Finalized(p) /\ \A m \in Resolutions \ {k} : manifests'[m] = manifests[m]
  BY <1>1, <1>2
<1>5. manifests'[k][w].status = "AVAILABLE"
  <2>1. manifests[k][w] \in ManifestRecords
    BY <1>1
  <2>2. manifests'[k][w] = [manifests[k][w] EXCEPT
          !.status = "AVAILABLE", !.objects = Registered(p),
          !.source = IF k = 1 THEN 0 ELSE source[p]]
    BY <1>4 DEF Finalized
  <2> QED BY <2>1, <2>2 DEF ManifestRecords
<1>6. ASSUME NEW v \in Revisions \ {w}
      PROVE  /\ manifests'[k][v].supersedes = manifests[k][v].supersedes
             /\ manifests'[k][v].version = manifests[k][v].version
             /\ \/ manifests'[k][v].status = manifests[k][v].status
                \/ /\ manifests[k][v].status = "AVAILABLE"
                   /\ manifests'[k][v].status = "SUPERSEDED"
  <2>1. manifests[k][v] \in ManifestRecords
    BY <1>1
  <2>2. manifests'[k][v] = IF v = previous[p] /\ manifests[k][v].status = "AVAILABLE"
                           THEN [manifests[k][v] EXCEPT !.status = "SUPERSEDED"]
                           ELSE manifests[k][v]
    BY <1>4 DEF Finalized
  <2> QED BY <2>1, <2>2 DEF ManifestRecords
<1> QED BY <1>1, <1>2, <1>3, <1>4, <1>5, <1>6 DEF Finalizable, Building

(* The one loader that goes on with a manifest finalizes it.                   *)
LEMMA FirstFinalize ==
  ASSUME LoaderInv, FirstInv, NEW p \in Procs, Finalize(p)
  PROVE  FirstInv'
<1>0. PICK k \in Resolutions, w \in Revisions : k = resolution[p] /\ w = revision[p]
  BY DEF Finalize, LoaderInv, LoaderIsSound
<1>1. /\ GoesOn(p, k, w) /\ Building(k, w)
      /\ manifests'[k][w].status = "AVAILABLE"
      /\ \A m \in Resolutions \ {k} : manifests'[m] = manifests[m]
      /\ \A v \in Revisions \ {w} :
            \/ manifests'[k][v].status = manifests[k][v].status
            \/ /\ manifests[k][v].status = "AVAILABLE"
               /\ manifests'[k][v].status = "SUPERSEDED"
      /\ \A q \in Procs \ {p} : pc'[q] = pc[q] /\ resolution'[q] = resolution[q]
      /\ pc'[p] = "check" /\ UNCHANGED <<s3, revision, shard>>
  BY <1>0, Finalizes
<1>2. \A m, v : HasFirst(m, v)' <=> HasFirst(m, v)
  BY <1>1 DEF HasFirst
<1>3. HasFirst(k, w)
  BY <1>1, GoesOnHasFirst
<1>4. /\ \A m \in Resolutions, v \in Revisions :
            Readable(m, v)' => Readable(m, v) \/ (m = k /\ v = w)
      /\ \A m \in Resolutions, v \in Revisions :
            Building(m, v) => Building(m, v)' \/ (m = k /\ v = w)
      /\ \A m \in Resolutions : Known(m) \subseteq Known(m)'
  BY <1>1 DEF Readable, Building, Known
<1>5. StoredHasFirst'
  BY <1>1, <1>2, <1>3, <1>4 DEF FirstInv, StoredHasFirst
<1>6. \A m, v, q : q \in Procs =>
        /\ IsAt(q, m, v)' => IsAt(q, m, v) /\ q # p
        /\ GoesOn(q, m, v)' => GoesOn(q, m, v) /\ q # p
  BY <1>1 DEF IsAt, GoesOn
<1>7. OneGoesOn' /\ AtBuilding'
  BY <1>1, <1>4, <1>6 DEF FirstInv, OneGoesOn, AtBuilding
<1> QED BY <1>5, <1>7 DEF FirstInv

(* Every step of every loader.                                               *)
LEMMA StepFirst == LoaderInv /\ FirstInv /\ [Next]_vars => FirstInv'
<1> SUFFICES ASSUME LoaderInv, FirstInv, [Next]_vars PROVE FirstInv'
  OBVIOUS
<1>1. TypeOK
  BY DEF LoaderInv
<1>2. ASSUME NEW p \in Procs, Upload(p) \/ CreateManifest(p) \/ Finalize(p) PROVE FirstInv'
  BY <1>2, FirstUpload, FirstCreate, FirstFinalize
<1>3. ASSUME NEW p \in Procs,
             \/ \E r \in Runs : Begin(p, r)
             \/ Collect(p) \/ SkipResolution(p) \/ StartResolution(p)
             \/ UploadConflict(p) \/ FinalizeRejected(p) \/ Complete(p) \/ Fails(p)
      PROVE  FirstInv'
  <2>1. /\ UNCHANGED <<manifests, s3, revision, shard>>
        /\ \A q \in Procs \ {p} : pc'[q] = pc[q] /\ resolution'[q] = resolution[q]
        /\ pc'[p] # "upload"
    BY <1>1, <1>3
    DEF Begin, Collect, SkipResolution, StartResolution, UploadConflict, FinalizeRejected,
        Complete, Fails, Goto, TypeOK, tables, locals
  <2> QED BY <2>1, FirstStays
<1>4. ASSUME NEW p \in Procs, Report(p) \/ RecordFailure(p) \/ Dies(p) PROVE FirstInv'
  <2>1. UNCHANGED <<manifests, s3>> /\ End(p)
    BY <1>4 DEF Report, RecordFailure, Dies, tables
  <2>2. /\ pc'[p] = "idle"
        /\ \A q \in Procs \ {p} :
              /\ pc'[q] = pc[q] /\ resolution'[q] = resolution[q]
              /\ revision'[q] = revision[q] /\ shard'[q] = shard[q]
    BY <1>1, <2>1, EndSound
  <2> QED BY <2>1, <2>2, FirstStays
<1>5. CASE UNCHANGED vars
  BY <1>5 DEF vars, tables, locals, FirstInv, StoredHasFirst, OneGoesOn, AtBuilding, HasFirst,
              Readable, IsAt, GoesOn, Building, Known
<1> QED
  BY <1>2, <1>3, <1>4, <1>5 DEF Next, Step

LEMMA FirstAlways == Spec => [](LoaderInv /\ FirstInv)
<1>1. LoaderInv /\ FirstInv /\ [Next]_vars => LoaderInv' /\ FirstInv'
  BY StepLoader, StepFirst
<1> QED BY <1>1, InitLoader, InitFirst, PTL DEF Spec

(* Files are only added, who goes on with a manifest stays with it or leaves it, *)
(* and another one goes on only where no first shard is stored.                *)
LEMMA OthersNeverGoOn ==
  ASSUME LoaderInv, [Next]_vars, NEW m, NEW v, HasFirst(m, v), NEW q \in Procs,
         GoesOn(q, m, v)'
  PROVE  GoesOn(q, m, v)
<1>1. TypeOK
  BY DEF LoaderInv
<1>2. ASSUME NEW p \in Procs, Upload(p) PROVE GoesOn(q, m, v)
  <2>1. CASE q = p
    <3>1. IsAt(p, m, v)
      BY <1>2, <2>1 DEF Upload, GoesOn, IsAt
    <3> QED BY <1>2, <2>1, <3>1, UploadAfterFirst
  <2>2. CASE q # p
    BY <1>1, <1>2, <2>2 DEF Upload, GoesOn, IsAt, TypeOK
  <2> QED BY <2>1, <2>2
<1>3. ASSUME NEW p \in Procs, Report(p) \/ RecordFailure(p) \/ Dies(p) PROVE GoesOn(q, m, v)
  <2>1. End(p)
    BY <1>3 DEF Report, RecordFailure, Dies
  <2> QED BY <1>1, <2>1, EndSound DEF GoesOn, IsAt
<1>4. ASSUME NEW p \in Procs, CreateManifest(p) PROVE GoesOn(q, m, v)
  <2>1. /\ UNCHANGED resolution
        /\ pc' = [pc EXCEPT ![p] = "upload"] /\ shard' = [shard EXCEPT ![p] = 0]
        /\ \E w \in 0..MaxRevision \cup Revisions : revision' = [revision EXCEPT ![p] = w]
    BY <1>4 DEF CreateManifest, Goto
  <2>2. q # p
    BY <1>1, <2>1 DEF TypeOK, GoesOn
  <2> QED BY <1>1, <2>1, <2>2 DEF TypeOK, GoesOn, IsAt
<1>5. ASSUME NEW p \in Procs,
             \/ \E r \in Runs : Begin(p, r)
             \/ Collect(p) \/ SkipResolution(p) \/ StartResolution(p)
             \/ UploadConflict(p) \/ FinalizeRejected(p) \/ Complete(p) \/ Fails(p)
      PROVE  GoesOn(q, m, v)
  <2>1. /\ UNCHANGED <<revision, shard>> /\ pc'[p] # "upload"
        /\ \A x \in Procs \ {p} : pc'[x] = pc[x] /\ resolution'[x] = resolution[x]
    BY <1>1, <1>5
    DEF Begin, Collect, SkipResolution, StartResolution, UploadConflict, FinalizeRejected,
        Complete, Fails, Goto, TypeOK, tables, locals
  <2> QED BY <2>1 DEF GoesOn, IsAt
<1>6. ASSUME NEW p \in Procs, Finalize(p) PROVE GoesOn(q, m, v)
  <2>1. /\ UNCHANGED <<revision, shard>> /\ pc'[p] # "upload"
        /\ \A x \in Procs \ {p} : pc'[x] = pc[x] /\ resolution'[x] = resolution[x]
    BY <1>1, <1>6 DEF Finalize, Goto, TypeOK
  <2> QED BY <2>1 DEF GoesOn, IsAt
<1>7. CASE UNCHANGED vars
  BY <1>7 DEF vars, locals, GoesOn, IsAt
<1> QED BY <1>2, <1>3, <1>4, <1>5, <1>6, <1>7 DEF Next, Step

LEMMA FilesStay == ASSUME [Next]_vars PROVE s3 \subseteq s3'
  BY DEF Next, Step, vars, Begin, Collect, SkipResolution, StartResolution, CreateManifest, Upload,
         UploadConflict, Finalize, FinalizeRejected, Complete, Report, RecordFailure, Fails, Dies

(* A BUILDING manifest is left BUILDING by all but the loader that goes on with   *)
(* it.                                                                        *)
LEMMA BuildingStays ==
  ASSUME LoaderInv, [Next]_vars, NEW m \in Resolutions, NEW v \in Revisions, Building(m, v),
         \A q \in Procs : ~GoesOn(q, m, v)
  PROVE  Building(m, v)'
<1>1. ASSUME NEW p \in Procs, CreateManifest(p) PROVE Building(m, v)'
  <2>1. PICK k \in Resolutions : k = resolution[p]
    BY <1>1 DEF CreateManifest, LoaderInv, LoaderIsSound
  <2> QED BY <1>1, <2>1, Creates DEF Building
<1>2. ASSUME NEW p \in Procs, Finalize(p) PROVE Building(m, v)'
  <2>1. PICK k \in Resolutions, w \in Revisions : k = resolution[p] /\ w = revision[p]
    BY <1>2 DEF Finalize, LoaderInv, LoaderIsSound
  <2>2. /\ GoesOn(p, k, w)
        /\ \A x \in Resolutions \ {k} : manifests'[x] = manifests[x]
        /\ \A x \in Revisions \ {w} :
              \/ manifests'[k][x].status = manifests[k][x].status
              \/ manifests[k][x].status = "AVAILABLE"
    BY <1>2, <2>1, Finalizes
  <2>3. m # k \/ v # w
    BY <2>2
  <2> QED BY <2>2, <2>3 DEF Building
<1>3. CASE ~\E p \in Procs : CreateManifest(p) \/ Finalize(p)
  <2>1. UNCHANGED manifests
    BY <1>3 DEF Next, Step, vars, tables, Begin, Collect, SkipResolution, StartResolution,
                Upload, UploadConflict, FinalizeRejected, Complete, Report, RecordFailure,
                Fails, Dies
  <2> QED BY <2>1 DEF Building
<1> QED BY <1>1, <1>2, <1>3

(* An orphaned manifest in terms of the invariant.                            *)
LEMMA OrphanedIs ==
  ASSUME FirstInv, NEW m, NEW v, Orphaned(m, v)
  PROVE  Building(m, v) /\ HasFirst(m, v) /\ \A q \in Procs : ~GoesOn(q, m, v)
<1>1. PICK f \in s3 : f.resolution = m /\ f.revision = v
  BY DEF Orphaned
<1>2. HasFirst(m, v)
  BY <1>1 DEF FirstInv, StoredHasFirst
<1> QED BY <1>2 DEF Orphaned, Building, GoesOn, IsAt

(* A loader that failed or died after its first put leaves a manifest that no    *)
(* loader ever finishes, whatever its version and whatever bars it has: the    *)
(* files that stand at the keys are never its own (publish_shard,             *)
(* write_parquet's created_at, ImmutableS3.upload).                           *)
THEOREM AlwaysStaysOrphaned == Spec => OrphanStays
<1>1. ASSUME LoaderInv, FirstInv, [Next]_vars, NEW m \in Resolutions, NEW v \in Revisions,
             Orphaned(m, v)
      PROVE  Orphaned(m, v)'
  <2>1. Building(m, v) /\ HasFirst(m, v) /\ \A q \in Procs : ~GoesOn(q, m, v)
    BY <1>1, OrphanedIs
  <2>2. Building(m, v)'
    BY <1>1, <2>1, BuildingStays
  <2>3. \E f \in s3' : f.resolution = m /\ f.revision = v
    BY <1>1, FilesStay DEF Orphaned
  <2>4. \A q \in Procs : ~GoesOn(q, m, v)'
    BY <1>1, <2>1, OthersNeverGoOn
  <2> QED BY <2>2, <2>3, <2>4 DEF Orphaned, Building, GoesOn, IsAt
<1>2. LoaderInv /\ FirstInv /\ [Next]_vars =>
        [\A m \in Resolutions, v \in Revisions : Orphaned(m, v) => Orphaned(m, v)']_vars
  BY <1>1
<1> QED BY <1>2, FirstAlways, PTL DEF Spec, OrphanStays
-----------------------------------------------------------------------------
(* Runs of one processing version: a BUILDING manifest is the last one of its    *)
(* resolution and supersedes the AVAILABLE one.                               *)
SameVersion == \A r, q \in Runs : Version[r] = Version[q]

Orderly ==
    \A m \in Resolutions :
        /\ \A v, w \in Known(m) : Building(m, v) => w <= v
        /\ \A v \in Available(m), w \in Known(m) :
              w > v => Building(m, w) /\ manifests[m][w].supersedes = v
        /\ \A v \in Known(m) :
              Building(m, v) => \E r \in Runs : manifests[m][v].version = Version[r]

(* A loader knows which manifest its own supersedes.                           *)
KnowsPrevious ==
    \A m \in Resolutions, v \in Revisions, q \in Procs :
        IsAt(q, m, v) => previous[q] = manifests[m][v].supersedes

OrderInv == LoaderInv /\ FirstInv /\ Orderly /\ KnowsPrevious

LEMMA InitOrder == Init => Orderly /\ KnowsPrevious
<1> SUFFICES ASSUME Init PROVE Orderly /\ KnowsPrevious
  OBVIOUS
<1>1. \A m \in Resolutions, v \in Revisions : manifests[m][v].status = "ABSENT"
  BY DEF Init, NoManifest
<1>2. \A m \in Resolutions : Known(m) = {} /\ Available(m) = {}
  BY <1>1 DEF Known, Available
<1>3. \A q \in Procs : pc[q] = "idle"
  BY DEF Init
<1> QED BY <1>2, <1>3 DEF Orderly, KnowsPrevious, IsAt

(* While the manifests stay, loaders keep what they know of them.              *)
LEMMA OrderStays ==
  ASSUME Orderly, KnowsPrevious, UNCHANGED manifests,
         \A m \in Resolutions, v \in Revisions, q \in Procs :
             IsAt(q, m, v)' => IsAt(q, m, v) /\ previous'[q] = previous[q]
  PROVE  Orderly' /\ KnowsPrevious'
<1>1. /\ \A m : Known(m)' = Known(m) /\ Available(m)' = Available(m)
      /\ \A m, v : Building(m, v)' <=> Building(m, v)
  BY DEF Known, Available, Building
<1>2. Orderly'
  BY <1>1 DEF Orderly
<1>3. KnowsPrevious'
  BY DEF KnowsPrevious
<1> QED BY <1>2, <1>3

(* A manifest is created after the last one, which is AVAILABLE or SUPERSEDED:  *)
(* a BUILDING one of the same version is taken over.                          *)
LEMMA OrderCreate ==
  ASSUME SameVersion, OrderInv, NEW p \in Procs, CreateManifest(p)
  PROVE  Orderly' /\ KnowsPrevious'
<1>0. PICK m \in Resolutions : m = resolution[p]
  BY DEF CreateManifest, OrderInv, LoaderInv, LoaderIsSound
<1>1. /\ \A q \in Procs \ {p} : /\ pc'[q] = pc[q] /\ revision'[q] = revision[q]
                                /\ previous'[q] = previous[q]
      /\ UNCHANGED resolution /\ run[p] \in Runs
  <2>1. /\ pc \in [Procs -> Labels] /\ revision \in [Procs -> 0..MaxRevision]
        /\ previous \in [Procs -> 0..MaxRevision]
    BY DEF OrderInv, LoaderInv, TypeOK
  <2>2. /\ UNCHANGED resolution /\ pc[p] = "create" /\ pc' = [pc EXCEPT ![p] = "upload"]
        /\ \E v, w : /\ revision' = [revision EXCEPT ![p] = v]
                     /\ previous' = [previous EXCEPT ![p] = w]
    BY DEF CreateManifest, Goto
  <2>3. run[p] \in Runs
    BY <2>2 DEF OrderInv, LoaderInv, LoaderIsSound
  <2> QED BY <2>1, <2>2, <2>3
<1>2. PICK last \in 0..MaxRevision :
           /\ IsLast(m, last)
           /\ \/ /\ Reuses(m, last, run[p]) /\ UNCHANGED manifests
                 /\ revision'[p] = last /\ previous'[p] = manifests[m][last].supersedes
              \/ /\ ~Reuses(m, last, run[p]) /\ last + 1 \in Revisions
                 /\ revision'[p] = last + 1 /\ previous'[p] = last
                 /\ manifests[m][last + 1].status = "ABSENT"
                 /\ manifests'[m][last + 1].status = "BUILDING"
                 /\ manifests'[m][last + 1].supersedes = last
                 /\ manifests'[m][last + 1].version = Version[run[p]]
                 /\ \A k \in Resolutions, v \in Revisions :
                       k # m \/ v # last + 1 => manifests'[k][v] = manifests[k][v]
  BY <1>0, Creates DEF OrderInv
<1>3. CASE Reuses(m, last, run[p])
  <2>1. /\ UNCHANGED manifests
        /\ revision'[p] = last /\ previous'[p] = manifests[m][last].supersedes
    BY <1>2, <1>3
  <2>2. /\ \A k : Known(k)' = Known(k) /\ Available(k)' = Available(k)
        /\ \A k, w : Building(k, w)' <=> Building(k, w)
    BY <2>1 DEF Known, Available, Building
  <2>3. Orderly'
    BY <2>1, <2>2 DEF OrderInv, Orderly
  <2>4. KnowsPrevious'
    BY <1>0, <1>1, <2>1 DEF OrderInv, KnowsPrevious, IsAt
  <2> QED BY <2>3, <2>4
<1>4. CASE ~Reuses(m, last, run[p])
  <2>0. PICK n \in Revisions : n = last + 1
    BY <1>2, <1>4
  <2>1. /\ revision'[p] = n /\ previous'[p] = last
        /\ manifests[m][n].status = "ABSENT"
        /\ manifests'[m][n].status = "BUILDING"
        /\ manifests'[m][n].supersedes = last
        /\ manifests'[m][n].version = Version[run[p]]
        /\ \A k \in Resolutions, v \in Revisions :
              k # m \/ v # n => manifests'[k][v] = manifests[k][v]
    BY <1>2, <1>4, <2>0
  <2>2. last \in Nat /\ n \notin Known(m) /\ \A w \in Known(m) : w \in Nat /\ w < n
    BY <1>2, <2>0, LoaderBoundAssumption DEF IsLast, Known, Revisions
  <2>3. /\ Known(m)' = Known(m) \cup {n} /\ Available(m)' = Available(m)
        /\ \A k \in Resolutions \ {m} : Known(k)' = Known(k) /\ Available(k)' = Available(k)
        /\ \A k \in Resolutions, w \in Revisions :
              k # m \/ w # n => (Building(k, w)' <=> Building(k, w))
        /\ Building(m, n)'
    BY <2>1 DEF Known, Available, Building
  <2>4. \A w \in Known(m) : ~Building(m, w)
    <3> SUFFICES ASSUME NEW w \in Known(m), Building(m, w) PROVE FALSE
      OBVIOUS
    <3>1. w \in Revisions /\ w = last
      <4>1. last \in Known(m) /\ last >= w
        BY <1>2 DEF IsLast
      <4>2. w >= last
        BY <4>1 DEF OrderInv, Orderly
      <4> QED BY <2>2, <4>1, <4>2 DEF Known
    <3>2. PICK r \in Runs : manifests[m][w].version = Version[r]
      BY DEF OrderInv, Orderly
    <3>3. Version[r] = Version[run[p]]
      BY <1>1, <3>2 DEF SameVersion
    <3> QED BY <1>4, <3>1, <3>2, <3>3 DEF Reuses, Building
  <2>5. \A v \in Available(m) : v = last
    <3> SUFFICES ASSUME NEW v \in Available(m) PROVE v = last
      OBVIOUS
    <3>1. v \in Known(m) /\ v \in Nat
      BY <2>2 DEF Available, Known
    <3>2. last \in Known(m) /\ last >= v
      BY <1>2, <3>1 DEF IsLast
    <3>3. ~(last > v)
      BY <2>4, <3>2 DEF OrderInv, Orderly
    <3> QED BY <2>2, <3>1, <3>2, <3>3
  <2>6. Orderly'
    <3> SUFFICES ASSUME NEW k \in Resolutions
                 PROVE  /\ \A v, w \in Known(k)' : Building(k, v)' => w <= v
                        /\ \A v \in Available(k)', w \in Known(k)' :
                              w > v => Building(k, w)' /\ manifests'[k][w].supersedes = v
                        /\ \A v \in Known(k)' :
                              Building(k, v)' =>
                                  \E r \in Runs : manifests'[k][v].version = Version[r]
      BY DEF Orderly
    <3>0. \A w \in Known(k) : w \in Revisions
      BY DEF Known
    <3>1. CASE k # m
      BY <2>1, <2>3, <3>0, <3>1 DEF OrderInv, Orderly, Available
    <3>2. CASE k = m
      <4>1. ASSUME NEW v \in Known(k)', NEW w \in Known(k)', Building(k, v)' PROVE w <= v
        <5>1. v = n
          BY <2>3, <2>4, <3>0, <3>2, <4>1
        <5> QED BY <2>0, <2>2, <2>3, <3>2, <4>1, <5>1
      <4>2. ASSUME NEW v \in Available(k)', NEW w \in Known(k)', w > v
            PROVE  Building(k, w)' /\ manifests'[k][w].supersedes = v
        <5>1. v = last
          BY <2>3, <2>5, <3>2
        <5>2. w = n
          BY <2>0, <2>2, <2>3, <3>2, <4>2, <5>1
        <5> QED BY <2>1, <2>3, <3>2, <5>1, <5>2
      <4>3. ASSUME NEW v \in Known(k)', Building(k, v)'
            PROVE  \E r \in Runs : manifests'[k][v].version = Version[r]
        <5>1. v = n
          BY <2>3, <2>4, <3>0, <3>2, <4>3
        <5> QED BY <1>1, <2>1, <3>2, <5>1
      <4> QED BY <4>1, <4>2, <4>3
    <3> QED BY <3>1, <3>2
  <2>7. KnowsPrevious'
    <3> SUFFICES ASSUME NEW k \in Resolutions, NEW v \in Revisions, NEW q \in Procs,
                        IsAt(q, k, v)'
                 PROVE  previous'[q] = manifests'[k][v].supersedes
      BY DEF KnowsPrevious
    <3>1. CASE q = p
      BY <1>0, <1>1, <2>1, <3>1 DEF IsAt
    <3>2. CASE q # p
      <4>1. IsAt(q, k, v) /\ previous'[q] = previous[q]
        BY <1>1, <3>2 DEF IsAt
      <4>2. v \in Known(k)
        BY <4>1 DEF OrderInv, FirstInv, AtBuilding
      <4>3. manifests'[k][v] = manifests[k][v]
        BY <2>1, <2>2, <4>2
      <4> QED BY <4>1, <4>3 DEF OrderInv, KnowsPrevious
    <3> QED BY <3>1, <3>2
  <2> QED BY <2>6, <2>7
<1> QED BY <1>3, <1>4

(* Of the manifests that are AVAILABLE after a loader finalized a BUILDING one   *)
(* there is that one only.                                                    *)
LEMMA OnlyOneFinalized ==
  ASSUME OrderInv, NEW p \in Procs, NEW m \in Resolutions, NEW v \in Revisions,
         IsAt(p, m, v), Building(m, v)
  PROVE  \A w \in Revisions : Finalized(p)[w].status = "AVAILABLE" => w = v
<1>1. /\ v \in Known(m) /\ previous[p] = manifests[m][v].supersedes
      /\ manifests \in [Resolutions -> [Revisions -> ManifestRecords]]
  BY DEF OrderInv, LoaderInv, TypeOK, FirstInv, AtBuilding, KnowsPrevious
<1> SUFFICES ASSUME NEW w \in Revisions, w # v PROVE Finalized(p)[w].status # "AVAILABLE"
  OBVIOUS
<1>2. manifests[m][w] \in ManifestRecords
  BY <1>1
<1>3. ASSUME manifests[m][w].status = "AVAILABLE" PROVE w = previous[p]
  <2>1. w \in Available(m) /\ w \in Known(m) /\ v \in Nat /\ w \in Nat
    BY <1>3, LoaderBoundAssumption DEF Available, Known, Revisions
  <2>2. v > w
    BY <1>1, <2>1 DEF OrderInv, Orderly
  <2> QED BY <1>1, <2>1, <2>2 DEF OrderInv, Orderly
<1>4. Finalized(p)[w] =
        IF w = previous[p] /\ manifests[m][w].status = "AVAILABLE"
        THEN [manifests[m][w] EXCEPT !.status = "SUPERSEDED"]
        ELSE manifests[m][w]
  BY DEF Finalized, IsAt
<1> QED BY <1>2, <1>3, <1>4 DEF ManifestRecords

(* A manifest that is finalized is BUILDING no longer, and it was the last one  *)
(* and the only one of its resolution that was.                               *)
LEMMA OrderFinalize ==
  ASSUME OrderInv, NEW p \in Procs, Finalize(p)
  PROVE  Orderly' /\ KnowsPrevious'
<1>0. PICK m \in Resolutions, v \in Revisions : m = resolution[p] /\ v = revision[p]
  BY DEF Finalize, OrderInv, LoaderInv, LoaderIsSound
<1>1. /\ GoesOn(p, m, v) /\ Building(m, v)
      /\ manifests'[m][v].status = "AVAILABLE"
      /\ manifests'[m] = Finalized(p)
      /\ \A k \in Resolutions \ {m} : manifests'[k] = manifests[k]
      /\ \A w \in Revisions \ {v} :
            /\ manifests'[m][w].supersedes = manifests[m][w].supersedes
            /\ manifests'[m][w].version = manifests[m][w].version
            /\ \/ manifests'[m][w].status = manifests[m][w].status
               \/ /\ manifests[m][w].status = "AVAILABLE"
                  /\ manifests'[m][w].status = "SUPERSEDED"
      /\ \A q \in Procs \ {p} : pc'[q] = pc[q] /\ resolution'[q] = resolution[q]
      /\ pc'[p] = "check" /\ UNCHANGED <<s3, revision, shard, previous>>
  BY <1>0, Finalizes DEF OrderInv
<1>2. \A k \in Resolutions : Known(k)' = Known(k)
  BY <1>1 DEF Known, Building
<1>3. Available(m)' = {v}
  <2>1. \A w \in Revisions : manifests'[m][w].status = "AVAILABLE" => w = v
    BY <1>1, OnlyOneFinalized DEF GoesOn
  <2> QED BY <1>1, <2>1 DEF Available
<1>4. /\ \A k \in Resolutions \ {m} : Available(k)' = Available(k)
      /\ \A k \in Resolutions \ {m}, w \in Revisions : Building(k, w)' <=> Building(k, w)
  BY <1>1 DEF Available, Building
<1>5. \A w \in Known(m) : w \in Nat /\ w <= v
  <2>1. v \in Known(m)
    BY <1>1 DEF Known, Building
  <2> QED BY <1>1, <2>1, LoaderBoundAssumption DEF OrderInv, Orderly, Known, Revisions
<1>6. \A w \in Revisions : ~Building(m, w)'
  <2> SUFFICES ASSUME NEW w \in Revisions, w # v, Building(m, w) PROVE FALSE
    BY <1>1 DEF Building
  <2>1. v \in Known(m) /\ w \in Known(m)
    BY <1>1 DEF Known, Building
  <2>2. v <= w /\ w <= v
    BY <1>1, <2>1 DEF OrderInv, Orderly
  <2> QED BY <1>5, <2>1, <2>2
<1>7. Orderly'
  <2> SUFFICES ASSUME NEW k \in Resolutions
               PROVE  /\ \A a, w \in Known(k)' : Building(k, a)' => w <= a
                      /\ \A a \in Available(k)', w \in Known(k)' :
                            w > a => Building(k, w)' /\ manifests'[k][w].supersedes = a
                      /\ \A a \in Known(k)' :
                            Building(k, a)' =>
                                \E q \in Runs : manifests'[k][a].version = Version[q]
    BY DEF Orderly
  <2>0. \A w \in Known(k) : w \in Revisions
    BY DEF Known
  <2>1. CASE k # m
    BY <1>1, <1>2, <1>4, <2>0, <2>1 DEF OrderInv, Orderly
  <2>2. CASE k = m
    <3>1. v \in Nat /\ \A w \in Known(m) : ~(w > v)
      BY <1>5, LoaderBoundAssumption DEF Revisions
    <3> QED BY <1>2, <1>3, <1>6, <2>0, <2>2, <3>1
  <2> QED BY <2>1, <2>2
<1>8. KnowsPrevious'
  <2>1. \A k \in Resolutions, w \in Revisions :
          manifests'[k][w].supersedes = manifests[k][w].supersedes
    <3>1. manifests'[m][v].supersedes = manifests[m][v].supersedes
      <4>1. manifests[m][v] \in ManifestRecords
        BY DEF OrderInv, LoaderInv, TypeOK
      <4>2. manifests'[m][v] = [manifests[m][v] EXCEPT
              !.status = "AVAILABLE", !.objects = Registered(p),
              !.source = IF m = 1 THEN 0 ELSE source[p]]
        BY <1>0, <1>1 DEF Finalized
      <4> QED BY <4>1, <4>2 DEF ManifestRecords
    <3> QED BY <1>1, <3>1
  <2>2. \A k, w, q : q \in Procs /\ IsAt(q, k, w)' =>
          IsAt(q, k, w) /\ previous'[q] = previous[q]
    BY <1>1 DEF IsAt
  <2> QED BY <2>1, <2>2 DEF OrderInv, KnowsPrevious
<1> QED BY <1>7, <1>8

(* Every step of every loader.                                               *)
LEMMA StepOrder ==
  ASSUME SameVersion PROVE OrderInv /\ [Next]_vars => OrderInv'
<1> SUFFICES ASSUME OrderInv, [Next]_vars PROVE Orderly' /\ KnowsPrevious'
  BY StepLoader, StepFirst DEF OrderInv
<1>1. TypeOK /\ Orderly /\ KnowsPrevious
  BY DEF OrderInv, LoaderInv
<1>2. ASSUME NEW p \in Procs, CreateManifest(p) \/ Finalize(p)
      PROVE  Orderly' /\ KnowsPrevious'
  BY <1>2, OrderCreate, OrderFinalize
<1>3. ASSUME NEW p \in Procs, Upload(p) PROVE Orderly' /\ KnowsPrevious'
  <2>1. UNCHANGED <<manifests, pc, resolution, revision, previous>>
    BY <1>3 DEF Upload, tables
  <2> QED BY <1>1, <2>1, OrderStays DEF IsAt
<1>4. ASSUME NEW p \in Procs,
             \/ \E r \in Runs : Begin(p, r)
             \/ Collect(p) \/ SkipResolution(p) \/ StartResolution(p)
             \/ UploadConflict(p) \/ FinalizeRejected(p) \/ Complete(p) \/ Fails(p)
      PROVE  Orderly' /\ KnowsPrevious'
  <2>1. /\ UNCHANGED <<manifests, revision, previous>>
        /\ \A q \in Procs \ {p} : pc'[q] = pc[q] /\ resolution'[q] = resolution[q]
        /\ pc'[p] # "upload"
    BY <1>1, <1>4
    DEF Begin, Collect, SkipResolution, StartResolution, UploadConflict, FinalizeRejected,
        Complete, Fails, Goto, TypeOK, tables, locals
  <2> QED BY <1>1, <2>1, OrderStays DEF IsAt
<1>5. ASSUME NEW p \in Procs, Report(p) \/ RecordFailure(p) \/ Dies(p)
      PROVE  Orderly' /\ KnowsPrevious'
  <2>1. UNCHANGED manifests /\ End(p)
    BY <1>5 DEF Report, RecordFailure, Dies, tables
  <2>2. /\ pc'[p] = "idle"
        /\ \A q \in Procs \ {p} :
              /\ pc'[q] = pc[q] /\ resolution'[q] = resolution[q]
              /\ revision'[q] = revision[q] /\ previous'[q] = previous[q]
    BY <1>1, <2>1, EndSound
  <2> QED BY <1>1, <2>1, <2>2, OrderStays DEF IsAt
<1>6. CASE UNCHANGED vars
  <2>1. UNCHANGED <<manifests, pc, resolution, revision, previous>>
    BY <1>6 DEF vars, tables, locals
  <2> QED BY <1>1, <2>1, OrderStays DEF IsAt
<1> QED BY <1>2, <1>3, <1>4, <1>5, <1>6 DEF Next, Step

LEMMA OrderAlways == ASSUME SameVersion PROVE Spec => []OrderInv
<1>1. Init => OrderInv
  BY InitLoader, InitFirst, InitOrder DEF OrderInv
<1>2. OrderInv /\ [Next]_vars => OrderInv'
  BY StepOrder
<1> QED BY <1>1, <1>2, PTL DEF Spec

(* Runs of one processing version: the orphaned manifest is the last one and is  *)
(* handed to every loader, none finishes it, and so readers never get another   *)
(* manifest of the resolution (create_manifest, publish_shard).                *)
THEOREM AlwaysBlocked == ASSUME SameVersion PROVE Spec => OrphanBlocks
<1>1. ASSUME OrderInv, [Next]_vars, NEW m \in Resolutions, NEW v \in Revisions, Orphaned(m, v)
      PROVE  manifests'[m] = manifests[m]
  <2>1. /\ Building(m, v) /\ v \in Known(m) /\ \A q \in Procs : ~GoesOn(q, m, v)
        /\ \A w \in Known(m) : w \in Nat /\ w <= v
        /\ manifests \in [Resolutions -> [Revisions -> ManifestRecords]]
    BY <1>1, OrphanedIs, LoaderBoundAssumption
    DEF OrderInv, LoaderInv, TypeOK, Orderly, Building, Known, Revisions
  <2>2. ASSUME NEW p \in Procs, CreateManifest(p) PROVE manifests'[m] = manifests[m]
    <3>1. PICK k \in Resolutions : k = resolution[p]
      BY <1>1, <2>2 DEF CreateManifest, OrderInv, LoaderInv, LoaderIsSound
    <3>2. CASE k = m
      <4>1. PICK last \in 0..MaxRevision :
              /\ IsLast(m, last)
              /\ UNCHANGED manifests \/ ~Reuses(m, last, run[p])
        BY <2>2, <3>1, <3>2 DEF CreateManifest
      <4>2. last = v
        BY <2>1, <4>1 DEF IsLast
      <4>3. PICK r \in Runs : manifests[m][v].version = Version[r]
        BY <1>1, <2>1 DEF OrderInv, Orderly
      <4>4. run[p] \in Runs
        BY <1>1, <2>2 DEF CreateManifest, OrderInv, LoaderInv, LoaderIsSound
      <4>5. Reuses(m, last, run[p])
        BY <2>1, <4>2, <4>3, <4>4 DEF Reuses, Building, SameVersion
      <4> QED BY <4>1, <4>5
    <3>3. CASE k # m
      <4>1. \A w \in Revisions : manifests'[m][w] = manifests[m][w]
        BY <1>1, <2>2, <3>1, <3>3, Creates DEF OrderInv
      <4>2. manifests' \in [Resolutions -> [Revisions -> ManifestRecords]]
        BY <1>1, StepLoader DEF OrderInv, LoaderInv, TypeOK
      <4> QED BY <2>1, <4>1, <4>2
    <3> QED BY <3>2, <3>3
  <2>3. ASSUME NEW p \in Procs, Finalize(p) PROVE manifests'[m] = manifests[m]
    <3>1. PICK k \in Resolutions, w \in Revisions : k = resolution[p] /\ w = revision[p]
      BY <1>1, <2>3 DEF Finalize, OrderInv, LoaderInv, LoaderIsSound
    <3>2. /\ GoesOn(p, k, w) /\ Building(k, w)
          /\ \A x \in Resolutions \ {k} : manifests'[x] = manifests[x]
      BY <1>1, <2>3, <3>1, Finalizes DEF OrderInv
    <3>3. k # m
      <4> SUFFICES ASSUME k = m PROVE FALSE
        OBVIOUS
      <4>1. w \in Known(m)
        BY <3>2 DEF Building, Known
      <4>2. w <= v /\ v <= w /\ w \in Nat /\ v \in Nat
        BY <1>1, <2>1, <3>2, <4>1 DEF OrderInv, Orderly
      <4> QED BY <2>1, <3>2, <4>2
    <3> QED BY <3>2, <3>3
  <2>4. CASE ~\E p \in Procs : CreateManifest(p) \/ Finalize(p)
    BY <1>1, <2>4 DEF Next, Step, vars, tables, Begin, Collect, SkipResolution, StartResolution,
                      Upload, UploadConflict, FinalizeRejected, Complete, Report, RecordFailure,
                      Fails, Dies
  <2> QED BY <2>2, <2>3, <2>4
<1>2. OrderInv /\ [Next]_vars =>
        [\A m \in Resolutions, v \in Revisions :
             Orphaned(m, v) => manifests'[m] = manifests[m]]_vars
  BY <1>1
<1> QED BY <1>2, OrderAlways, PTL DEF Spec, OrphanBlocks

(* ... and a loader that stores all shards of a manifest is never refused by the *)
(* database: it is the only one that goes on with it, and the AVAILABLE manifest *)
(* is the one it supersedes (finalize_manifest, uq_available_manifest_period);  *)
(* loader_upgraded.cfg shows that the condition is needed.                     *)
THEOREM AlwaysFinalizable == ASSUME SameVersion PROVE Spec => []UploadedIsFinalizable
<1>1. OrderInv => UploadedIsFinalizable
  <2> SUFFICES ASSUME OrderInv, NEW p \in Procs, pc[p] = "upload", shard[p] \notin Shards
               PROVE  Finalizable(p)
    BY DEF UploadedIsFinalizable
  <2>1. PICK m \in Resolutions, v \in Revisions : m = resolution[p] /\ v = revision[p]
    BY DEF OrderInv, LoaderInv, LoaderIsSound
  <2>2. shard[p] \in Nat /\ shard[p] # 0
    BY CountsAssumption DEF Shards, OrderInv, LoaderInv, TypeOK
  <2>3. IsAt(p, m, v) /\ GoesOn(p, m, v)
    BY <2>1, <2>2 DEF IsAt, GoesOn
  <2>4. Building(m, v)
    BY <2>3 DEF OrderInv, FirstInv, AtBuilding
  <2>5. \A w \in Revisions : Finalized(p)[w].status = "AVAILABLE" => w = v
    BY <2>3, <2>4, OnlyOneFinalized
  <2> QED BY <2>1, <2>4, <2>5 DEF Finalizable, Building
<1> QED BY <1>1, OrderAlways, PTL
-----------------------------------------------------------------------------
(* The abstract specification.  A resolution has one AVAILABLE manifest at    *)
(* most, and readers are given its objects.                                 *)
OneServed == \A m \in Resolutions : \A v, w \in Available(m) : v = w

SeriesInv == LoaderInv /\ OneServed

LEMMA OnlyIsTheOne == ASSUME NEW v PROVE Only({v}) = v
  BY DEF Only

(* What is served of a resolution is a revision of it, if anything is.       *)
LEMMA ServedIsAvailable ==
  ASSUME NEW m \in Resolutions PROVE IF Available(m) = {} THEN Served(m) = 0
                                     ELSE Served(m) \in Available(m)
  BY DEF Served, Only

LEMMA InitSeries == Init => OneServed /\ \A m \in Resolutions : SeriesOf(m)!Init
<1> SUFFICES ASSUME Init, NEW m \in Resolutions
             PROVE  (\A v, w \in Available(m) : v = w) /\ SeriesOf(m)!Init
  BY DEF OneServed
<1>1. Available(m) = {}
  BY DEF Init, Available, NoManifest
<1> QED BY <1>1 DEF SeriesOf!Init, ServedObjects, Served, Only

(* A step that changes no AVAILABLE manifest of a resolution is a stutter of   *)
(* its series.                                                              *)
LEMMA SameSeries ==
  ASSUME NEW m \in Resolutions, Available(m)' = Available(m),
         \A v \in Available(m) : manifests'[m][v].objects = manifests[m][v].objects
  PROVE  UNCHANGED SeriesOf(m)!svars
<1>1. Served(m)' = Served(m)
  BY DEF Served
<1>2. Served(m) = 0 \/ Served(m) \in Available(m)
  BY ServedIsAvailable
<1>3. Served(m) # 0 => manifests'[m][Served(m)].objects = manifests[m][Served(m)].objects
  BY <1>2
<1>4. ServedObjects(m)' = ServedObjects(m)
  <2>1. CASE Served(m) = 0
    BY <1>1, <2>1 DEF ServedObjects
  <2>2. CASE Served(m) # 0
    <3>1. ServedObjects(m) = {AsObject(f) : f \in manifests[m][Served(m)].objects}
      BY <2>2 DEF ServedObjects
    <3>2. ServedObjects(m)' = {AsObject(f) : f \in manifests'[m][Served(m)].objects}
      BY <1>1, <2>2 DEF ServedObjects, AsObject
    <3> QED BY <1>3, <2>2, <3>1, <3>2
  <2> QED BY <2>1, <2>2
<1> QED BY <1>1, <1>4 DEF SeriesOf!svars

(* create_manifest adds a BUILDING manifest, or takes one over.              *)
LEMMA CreateSeries ==
  ASSUME LoaderInv, NEW p \in Procs, CreateManifest(p), NEW m \in Resolutions
  PROVE  /\ Available(m)' = Available(m)
         /\ \A v \in Available(m) : manifests'[m][v].objects = manifests[m][v].objects
<1> DEFINE k == resolution[p]
<1>0. k \in Resolutions /\ manifests \in [Resolutions -> [Revisions -> ManifestRecords]]
  BY DEF CreateManifest, LoaderInv, LoaderIsSound, TypeOK
<1>1. CASE UNCHANGED manifests
  BY <1>1 DEF Available
<1>2. CASE ~UNCHANGED manifests
  <2>1. PICK last \in 0..MaxRevision :
          /\ IsLast(k, last) /\ last + 1 \in Revisions
          /\ manifests' = [manifests EXCEPT ![k][last + 1] =
                 [status |-> "BUILDING", version |-> Version[run[p]],
                  supersedes |-> last, objects |-> {}, source |-> 0]]
    BY <1>2 DEF CreateManifest
  <2>2. manifests[k][last + 1].status # "AVAILABLE"
    <3>1. last + 1 \notin Known(k)
      BY <2>1 DEF IsLast, Known, Revisions
    <3> QED BY <2>1, <3>1 DEF Known
  <2>3. manifests'[k][last + 1].status = "BUILDING"
    BY <1>0, <2>1
  <2>4. \A v \in Revisions : m # k \/ v # last + 1 => manifests'[m][v] = manifests[m][v]
    BY <1>0, <2>1
  <2> QED BY <2>2, <2>3, <2>4 DEF Available
<1> QED BY <1>1, <1>2

(* finalize_manifest publishes the next snapshot of one resolution: every     *)
(* object of it was written for that manifest, and the index lets no other    *)
(* one be AVAILABLE.                                                        *)
LEMMA FinalizeSeries ==
  ASSUME SeriesInv, NEW p \in Procs, Finalize(p)
  PROVE  /\ OneServed'
         /\ \A m \in Resolutions : [SeriesOf(m)!Next]_(SeriesOf(m)!svars)
<1> PICK k \in Resolutions, r \in Revisions : k = resolution[p] /\ r = revision[p]
  BY DEF Finalize, SeriesInv, LoaderInv, LoaderIsSound
<1>0. /\ Finalizable(p)
      /\ manifests' = [manifests EXCEPT ![k] = Finalized(p)]
      /\ data[p] \in Provides[run[p]] /\ run[p] \in Runs
      /\ manifests \in [Resolutions -> [Revisions -> ManifestRecords]]
      /\ manifests[k][r].status = "BUILDING"
  BY DEF Finalize, Finalizable, SeriesInv, LoaderInv, LoaderIsSound, TypeOK
<1>1. manifests'[k] = Finalized(p) /\ \A m \in Resolutions \ {k} : manifests'[m] = manifests[m]
  BY <1>0
<1>2. Finalized(p)[r].status = "AVAILABLE" /\ Finalized(p)[r].objects = Registered(p)
  <2>1. manifests[k][r] \in ManifestRecords
    BY <1>0
  <2>2. Finalized(p)[r] = [manifests[k][r] EXCEPT
             !.status = "AVAILABLE", !.objects = Registered(p),
             !.source = IF k = 1 THEN 0 ELSE source[p]]
    BY <1>0 DEF Finalized
  <2> QED BY <2>1, <2>2 DEF ManifestRecords
<1>3. Available(k)' = {r}
  <2>1. \A v \in Revisions : Finalized(p)[v].status = "AVAILABLE" => v = r
    BY <1>0, <1>2 DEF Finalizable
  <2> QED BY <1>0, <1>1, <1>2, <2>1 DEF Available
<1>4. \A m \in Resolutions \ {k} : Available(m)' = Available(m)
  BY <1>1 DEF Available
<1>5. OneServed'
  BY <1>3, <1>4 DEF SeriesInv, OneServed
<1>6. ASSUME NEW m \in Resolutions, m # k PROVE UNCHANGED SeriesOf(m)!svars
  BY <1>1, <1>4, <1>6, SameSeries
<1>7. SeriesOf(k)!Next
  <2>1. Served(k)' = r
    BY <1>3, OnlyIsTheOne DEF Served
  <2>2. Served(k)' \in (Served(k) + 1)..MaxRevision
    <3>1. Served(k) \in Nat /\ Served(k) < r
      <4>1. CASE Available(k) = {}
        BY <4>1, <1>0, ServedIsAvailable DEF Revisions
      <4>2. CASE Available(k) # {}
        <5>1. Served(k) \in Available(k)
          BY <4>2, <1>0, ServedIsAvailable
        <5>2. Served(k) \in Revisions /\ Served(k) # r
          BY <5>1, <1>0 DEF Available
        <5>3. PICK w \in Available(k)' : w >= Served(k)
          <6>1. KeepsServing
            BY StepLoader DEF SeriesInv, Next, Step
          <6> QED BY <5>1, <6>1 DEF KeepsServing
        <5> QED BY <1>0, <1>3, <5>2, <5>3 DEF Revisions
      <4> QED BY <4>1, <4>2
    <3> QED BY <2>1, <3>1, <1>0, LoaderBoundAssumption DEF Revisions
  <2>3. ServedObjects(k)' = {AsObject(f) : f \in Registered(p)}
    <3>1. r # 0
      BY <1>0 DEF Revisions
    <3>2. manifests'[k][r].objects = Registered(p)
      BY <1>1, <1>2
    <3> QED BY <2>1, <3>1, <3>2 DEF ServedObjects, AsObject
  <2>4. ASSUME NEW s \in Shards
        PROVE  data[p][s] \in Pieces
    BY <1>0, ProvidesAssumption DEF Data
  <2>5. \A o \in ServedObjects(k)' :
          /\ o.revision = r /\ o.slot.period = Year
          /\ o.slot.shard \in Shards /\ o.content \in Pieces
    <3> SUFFICES ASSUME NEW s \in Shards,
                        NEW o, o = AsObject([resolution |-> k, revision |-> r, shard |-> s,
                                             piece |-> data[p][s]])
                 PROVE  /\ o.revision = r /\ o.slot.period = Year
                        /\ o.slot.shard \in Shards /\ o.content \in Pieces
      BY <2>3 DEF Registered
    <3> QED BY <2>4 DEF AsObject
  <2>6. ServedObjects(k)' # {}
    <3>1. 0 \in Shards
      BY CountsAssumption DEF Shards
    <3> QED BY <2>3, <3>1 DEF Registered
  <2>7. SeriesOf(k)!Kept({Year}) = {}
    <3>1. \A o \in ServedObjects(k) : o.slot.period = Year
      BY DEF ServedObjects, AsObject
    <3>2. SamePeriod(Year, Year)
      BY DEF SamePeriod
    <3> QED BY <3>1, <3>2 DEF SeriesOf!Kept
  <2>8. SeriesOf(k)!Publish({Year})
    BY <2>1, <2>2, <2>5, <2>6, <2>7 DEF SeriesOf!Publish
  <2> QED BY <2>8 DEF SeriesOf!Next
<1> QED BY <1>5, <1>6, <1>7

(* Every other step is a stutter of every series.                            *)
LEMMA StepSeries ==
  SeriesInv /\ [Next]_vars
    => SeriesInv' /\ \A m \in Resolutions : [SeriesOf(m)!Next]_(SeriesOf(m)!svars)
<1> SUFFICES ASSUME SeriesInv, [Next]_vars
             PROVE  /\ OneServed'
                    /\ \A m \in Resolutions : [SeriesOf(m)!Next]_(SeriesOf(m)!svars)
  BY StepLoader DEF SeriesInv
<1>1. CASE \E p \in Procs : Finalize(p)
  BY <1>1, FinalizeSeries
<1>2. CASE ~\E p \in Procs : Finalize(p)
  <2>1. UNCHANGED manifests \/ \E p \in Procs : CreateManifest(p)
    BY <1>2 DEF Next, Step, vars, tables, Begin, Collect, SkipResolution, StartResolution, Upload,
                UploadConflict, FinalizeRejected, Complete, Report, RecordFailure, Fails, Dies
  <2>2. ASSUME NEW m \in Resolutions
        PROVE  /\ Available(m)' = Available(m)
               /\ \A v \in Available(m) : manifests'[m][v].objects = manifests[m][v].objects
    <3>1. CASE UNCHANGED manifests
      BY <3>1 DEF Available
    <3>2. CASE \E p \in Procs : CreateManifest(p)
      BY <3>2, CreateSeries DEF SeriesInv
    <3> QED BY <2>1, <3>1, <3>2
  <2>3. OneServed'
    BY <2>2 DEF SeriesInv, OneServed
  <2> QED BY <2>2, <2>3, SameSeries
<1> QED BY <1>1, <1>2

(* For the readers of a resolution, any number of loaders that work on one    *)
(* feed and year, share BUILDING manifests, fail and die are a series of      *)
(* whole snapshots, as publish_dataset is: finalize_manifest takes one step   *)
(* of it, everything else none (BackfillEngine.run and the repositories).    *)
THEOREM LoaderImplementsSeries ==
  ASSUME NEW m \in Resolutions PROVE Spec => SeriesOf(m)!Spec
<1>1. Init => SeriesInv /\ SeriesOf(m)!Init
  BY InitLoader, InitSeries DEF SeriesInv
<1>2. SeriesInv /\ [Next]_vars => SeriesInv' /\ [SeriesOf(m)!Next]_(SeriesOf(m)!svars)
  BY StepSeries
<1> QED
  BY <1>1, <1>2, PTL DEF Spec, SeriesOf!Spec
===================================================================================
