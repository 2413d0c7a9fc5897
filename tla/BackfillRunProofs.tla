---------------------------- MODULE BackfillRunProofs ----------------------------
(***************************************************************************)
(* What a backfill that is repeated, interrupted and resumed publishes, for   *)
(* any symbols, years, chunks, shards, failures and crashes.                *)
(***************************************************************************)
EXTENDS BackfillRun, TLAPS

-----------------------------------------------------------------------------
(* What is staged of a year, and of a shard of it.                           *)
StagedIn(y) == {g \in staging : g.year = y}
StagedOf(y, k) == {g \in staging : g.year = y /\ ShardOf[g.symbol] = k}

(* Where the call stands, and which run it is of.                            *)
CallShape ==
    /\ pc = "idle" => /\ todo = {} /\ pending = {} /\ failed = {} /\ queue = {}
                      /\ native = 0 /\ flawed = FALSE
    /\ pc = "collect" => queue = {} /\ native = 0 /\ flawed = FALSE
    /\ pc = "publish" => todo = {} /\ pending = {}
    /\ pc # "idle" => status = "RUNNING" /\ symbols \in Requests
    /\ staging \subseteq Bars /\ pending \subseteq Bars

(* The groups of a year hold what is staged of it.                           *)
LEMMA GroupsCover ==
  ASSUME NEW d, NEW r
  PROVE  /\ \A o \in Groups(d, r) : /\ o.dataset = d /\ o.revision = r
                                    /\ o.bars = StagedOf(d.year, o.shard)
         /\ \A f \in StagedIn(d.year) :
                \E o \in Groups(d, r) : o.shard = ShardOf[f.symbol] /\ f \in o.bars
         /\ UNION {o.bars : o \in Groups(d, r)} = StagedIn(d.year)
<1>1. ASSUME NEW o \in Groups(d, r)
      PROVE  o.dataset = d /\ o.revision = r /\ o.bars = StagedOf(d.year, o.shard)
  <2>1. PICK f \in StagedIn(d.year) :
           o = [dataset |-> d, revision |-> r, shard |-> ShardOf[f.symbol],
                bars |-> StagedOf(d.year, ShardOf[f.symbol])]
    BY DEF Groups, StagedIn, StagedOf
  <2> QED BY <2>1
<1>2. ASSUME NEW f \in StagedIn(d.year)
      PROVE  \E o \in Groups(d, r) : o.shard = ShardOf[f.symbol] /\ f \in o.bars
  <2>1. [dataset |-> d, revision |-> r, shard |-> ShardOf[f.symbol],
         bars |-> StagedOf(d.year, ShardOf[f.symbol])] \in Groups(d, r)
    BY DEF Groups, StagedIn, StagedOf
  <2> QED BY <2>1 DEF StagedIn, StagedOf
<1>3. UNION {o.bars : o \in Groups(d, r)} = StagedIn(d.year)
  BY <1>1, <1>2 DEF StagedIn, StagedOf
<1> QED BY <1>1, <1>2, <1>3

(* What a group is published as is an object.                                *)
LEMMA GroupsType ==
  ASSUME staging \subseteq Fragments, NEW d \in Datasets, NEW r \in Revisions
  PROVE  Groups(d, r) \subseteq Objects
  BY DEF Groups, Objects, Fragments

(* What publishing writes: the revision after the latest one, and the        *)
(* retirement of that.                                                      *)
LEMMA PublishWrites ==
  ASSUME TypeOK, NEW d \in Datasets, Publish(d)
  PROVE  \E latest \in 0..MaxRevision, r \in Revisions :
            /\ r = latest + 1 /\ IsLatest(d, latest)
            /\ store' = store \cup Written(Groups(d, r))
            /\ \A e \in Datasets \ {d} : manifests'[e] = manifests[e]
            /\ manifests'[d][r] =
                  [status |-> Outcome(d, Groups(d, r)),
                   bars |-> UNION {o.bars : o \in Written(Groups(d, r))},
                   source |-> IF d.resolution = 0 THEN 0 ELSE native]
            /\ \A v \in Revisions \ {r} :
                  /\ manifests'[d][v].bars = manifests[d][v].bars
                  /\ manifests'[d][v].source = manifests[d][v].source
                  /\ manifests'[d][v].status =
                        IF v = latest /\ Outcome(d, Groups(d, r)) = "AVAILABLE"
                        THEN "SUPERSEDED" ELSE manifests[d][v].status
            /\ native' = IF d.resolution = 0 THEN r ELSE native
            /\ flawed' = (flawed \/ Outcome(d, Groups(d, r)) # "AVAILABLE")
<1>1. PICK latest \in 0..MaxRevision :
          /\ IsLatest(d, latest) /\ latest + 1 \in Revisions
          /\ store' = store \cup Written(Groups(d, latest + 1))
          /\ manifests' = [manifests EXCEPT ![d] = [v \in Revisions |->
               IF v = latest + 1
               THEN [status |-> Outcome(d, Groups(d, latest + 1)),
                     bars |-> UNION {o.bars : o \in Written(Groups(d, latest + 1))},
                     source |-> IF d.resolution = 0 THEN 0 ELSE native]
               ELSE IF v = latest /\ Outcome(d, Groups(d, latest + 1)) = "AVAILABLE"
               THEN [manifests[d][v] EXCEPT !.status = "SUPERSEDED"]
               ELSE manifests[d][v]]]
          /\ native' = IF d.resolution = 0 THEN latest + 1 ELSE native
          /\ flawed' = (flawed \/ Outcome(d, Groups(d, latest + 1)) # "AVAILABLE")
  BY DEF Publish
<1>2. PICK r \in Revisions : r = latest + 1
  BY <1>1
<1>3. /\ manifests \in [Datasets -> [Revisions -> ManifestRecords]]
      /\ \A v \in Revisions : manifests[d][v] \in ManifestRecords
  BY DEF TypeOK
<1>4. manifests'[d] = [v \in Revisions |->
               IF v = r
               THEN [status |-> Outcome(d, Groups(d, r)),
                     bars |-> UNION {o.bars : o \in Written(Groups(d, r))},
                     source |-> IF d.resolution = 0 THEN 0 ELSE native]
               ELSE IF v = latest /\ Outcome(d, Groups(d, r)) = "AVAILABLE"
               THEN [manifests[d][v] EXCEPT !.status = "SUPERSEDED"]
               ELSE manifests[d][v]]
  BY <1>1, <1>2, <1>3
<1>5. \A e \in Datasets \ {d} : manifests'[e] = manifests[e]
  BY <1>1, <1>3
<1>6. ASSUME NEW v \in Revisions \ {r}
      PROVE  /\ manifests'[d][v].bars = manifests[d][v].bars
             /\ manifests'[d][v].source = manifests[d][v].source
             /\ manifests'[d][v].status =
                   IF v = latest /\ Outcome(d, Groups(d, r)) = "AVAILABLE"
                   THEN "SUPERSEDED" ELSE manifests[d][v].status
  <2>1. manifests'[d][v] =
           IF v = latest /\ Outcome(d, Groups(d, r)) = "AVAILABLE"
           THEN [manifests[d][v] EXCEPT !.status = "SUPERSEDED"] ELSE manifests[d][v]
    BY <1>4
  <2> QED BY <2>1, <1>3 DEF ManifestRecords
<1>7. /\ r = latest + 1 /\ IsLatest(d, latest)
      /\ store' = store \cup Written(Groups(d, r))
      /\ native' = IF d.resolution = 0 THEN r ELSE native
  BY <1>1, <1>2
<1>8. flawed' = (flawed \/ Outcome(d, Groups(d, r)) # "AVAILABLE")
  <2>1. latest + 1 = r
    BY <1>2
  <2> QED BY <1>1, <2>1, Zenon
<1>9. manifests'[d][r] =
         [status |-> Outcome(d, Groups(d, r)),
          bars |-> UNION {o.bars : o \in Written(Groups(d, r))},
          source |-> IF d.resolution = 0 THEN 0 ELSE native]
  BY <1>4
<1> QED BY <1>5, <1>6, <1>7, <1>8, <1>9, Zenon

-----------------------------------------------------------------------------
(* Nothing is staged, stored or published at first.                          *)
LEMMA InitType == Init => TypeOK /\ CallShape
<1> SUFFICES ASSUME Init PROVE TypeOK /\ CallShape
  OBVIOUS
<1>1. NoManifest \in ManifestRecords
  BY BoundsAssumption DEF NoManifest, ManifestRecords
<1>2. manifests \in [Datasets -> [Revisions -> ManifestRecords]]
  BY <1>1 DEF Init
<1>3. /\ fetchFailures \in 0..MaxFetchFailures /\ crashes \in 0..MaxCrashes
      /\ native \in 0..MaxRevision
  BY BoundsAssumption DEF Init
<1> QED BY <1>2, <1>3 DEF Init, TypeOK, CallShape

(* A call that ends or dies leaves no locals.                                *)
LEMMA EndType ==
  ASSUME End
  PROVE  /\ pc' \in {"idle", "collect", "publish"}
         /\ symbols' \subseteq Symbols /\ resume' \in BOOLEAN
         /\ todo' \subseteq Jobs /\ pending' \subseteq Fragments
         /\ failed' \subseteq Chunks /\ queue' \subseteq Datasets
         /\ native' \in 0..MaxRevision /\ flawed' \in BOOLEAN
         /\ pc' = "idle" /\ pending' = {}
         /\ pc' = "idle" => /\ todo' = {} /\ pending' = {} /\ failed' = {} /\ queue' = {}
                            /\ native' = 0 /\ flawed' = FALSE
<1>1. native' \in 0..MaxRevision
  BY BoundsAssumption DEF End
<1> QED BY <1>1 DEF End

(* Every variable keeps its type.                                            *)
LEMMA TypeStep == TypeOK /\ CallShape /\ [Next]_vars => TypeOK' /\ CallShape'
<1> SUFFICES ASSUME TypeOK, CallShape, [Next]_vars PROVE TypeOK' /\ CallShape'
  OBVIOUS
<1> Bars \subseteq Fragments
  BY BarsAssumption
<1>1. ASSUME NEW S \in Requests, NEW again \in ResumeFlags, Begin(S, again) PROVE TypeOK' /\ CallShape'
  BY <1>1, RequestAssumption DEF Begin, TypeOK, CallShape, bounds
<1>2. ASSUME NEW S \in Requests, ReuseRun(S) PROVE TypeOK' /\ CallShape'
  BY <1>2, RequestAssumption DEF ReuseRun, TypeOK, CallShape, bounds, catalog, locals
<1>3. CASE CleanupStaging
  BY <1>3 DEF CleanupStaging, TypeOK, CallShape, bounds, catalog, locals
<1>4. CASE SkipStaged
  BY <1>4 DEF SkipStaged, TypeOK, CallShape, bounds, catalog
<1>5. CASE Fetch
  BY <1>5 DEF Fetch, OfJob, TypeOK, CallShape, bounds, catalog
<1>6. CASE FetchFails
  <2>1. \E j \in todo : failed' = failed \cup {j.chunk} /\ todo' = todo \ {j}
    BY <1>6 DEF FetchFails
  <2>2. failed' \subseteq Chunks /\ todo' \subseteq Jobs
    BY <2>1 DEF TypeOK, Jobs
  <2> QED BY <1>6, <2>2, BoundsAssumption DEF FetchFails, TypeOK, CallShape, catalog
<1>7. CASE WriteFragment
  BY <1>7 DEF WriteFragment, TypeOK, CallShape, bounds, catalog
<1>8. CASE EndCollect
  BY <1>8 DEF EndCollect, TypeOK, CallShape, bounds, catalog
<1>9. ASSUME NEW d \in Datasets, Publish(d) PROVE TypeOK' /\ CallShape'
  <2>1. PICK latest \in 0..MaxRevision, r \in Revisions :
            /\ store' = store \cup Written(Groups(d, r))
            /\ manifests' = [manifests EXCEPT ![d] = [v \in Revisions |->
               IF v = r
               THEN [status |-> Outcome(d, Groups(d, r)),
                     bars |-> UNION {o.bars : o \in Written(Groups(d, r))},
                     source |-> IF d.resolution = 0 THEN 0 ELSE native]
               ELSE IF v = latest /\ Outcome(d, Groups(d, r)) = "AVAILABLE"
               THEN [manifests[d][v] EXCEPT !.status = "SUPERSEDED"]
               ELSE manifests[d][v]]]
            /\ native' = IF d.resolution = 0 THEN r ELSE native
            /\ flawed' = (flawed \/ Outcome(d, Groups(d, r)) # "AVAILABLE")
    BY <1>9 DEF Publish
  <2>2. Written(Groups(d, r)) \subseteq Objects
    BY GroupsType DEF Written, TypeOK
  <2>3. UNION {o.bars : o \in Written(Groups(d, r))} \subseteq Fragments
    BY <2>2 DEF Objects
  <2>4. manifests' \in [Datasets -> [Revisions -> ManifestRecords]]
    <3> DEFINE m == [v \in Revisions |->
               IF v = r
               THEN [status |-> Outcome(d, Groups(d, r)),
                     bars |-> UNION {o.bars : o \in Written(Groups(d, r))},
                     source |-> IF d.resolution = 0 THEN 0 ELSE native]
               ELSE IF v = latest /\ Outcome(d, Groups(d, r)) = "AVAILABLE"
               THEN [manifests[d][v] EXCEPT !.status = "SUPERSEDED"]
               ELSE manifests[d][v]]
    <3>0. Outcome(d, Groups(d, r)) \in {"AVAILABLE", "QUARANTINED"}
      BY DEF Outcome
    <3>1. m \in [Revisions -> ManifestRecords]
      <4> SUFFICES ASSUME NEW v \in Revisions PROVE m[v] \in ManifestRecords
        OBVIOUS
      <4>1. manifests[d][v] \in ManifestRecords
        BY DEF TypeOK
      <4>2. CASE v = r
        BY <2>3, <3>0, <4>2, BoundsAssumption DEF TypeOK, ManifestRecords
      <4>3. CASE v # r
        BY <4>1, <4>3 DEF ManifestRecords
      <4> QED BY <4>2, <4>3
    <3>2. manifests' = [manifests EXCEPT ![d] = m]
      BY <2>1
    <3> HIDE DEF m
    <3> QED BY <3>1, <3>2 DEF TypeOK
  <2>5. native' \in 0..MaxRevision
    BY <2>1, BoundsAssumption DEF TypeOK, Revisions
  <2>6. /\ pc = "publish" /\ queue' = queue \ {d}
        /\ UNCHANGED <<cut, status, staging, told, bounds, pc, symbols, resume, todo, pending, failed>>
    BY <1>9 DEF Publish
  <2>7. flawed' \in BOOLEAN
    BY <2>1 DEF TypeOK
  <2>8. /\ status' = status /\ staging' = staging /\ pc' = pc /\ todo' = todo
        /\ pending' = pending /\ failed' = failed /\ symbols' = symbols
    BY <2>6
  <2>9. CallShape'
    BY <2>6, <2>8 DEF CallShape
  <2>10. store' \subseteq Objects
    BY <2>1, <2>2 DEF TypeOK
  <2> QED BY <2>4, <2>5, <2>6, <2>7, <2>9, <2>10 DEF TypeOK, bounds
<1>10. CASE Finish
  <2>1. /\ End /\ UNCHANGED <<cut, manifests, staging, store, bounds>>
        /\ status' \in {"FAILED", "SUCCEEDED"} /\ told' \subseteq Symbols
    BY <1>10 DEF Finish, TypeOK
  <2> QED BY <2>1, EndType DEF TypeOK, CallShape, bounds
<1>11. ASSUME NEW d \in Datasets, DiesInPublish(d) PROVE TypeOK' /\ CallShape'
  <2>1. PICK latest \in 0..MaxRevision, r \in Revisions :
            /\ \E stored \in SUBSET Written(Groups(d, r)) : store' = store \cup stored
            /\ manifests' = [manifests EXCEPT ![d][r] = [NoManifest EXCEPT !.status = "BUILDING"]]
    BY <1>11 DEF DiesInPublish
  <2>2. store' \subseteq Objects
    BY <2>1, GroupsType DEF Written, TypeOK
  <2>3. manifests' \in [Datasets -> [Revisions -> ManifestRecords]]
    <3>1. [NoManifest EXCEPT !.status = "BUILDING"] \in ManifestRecords
      BY BoundsAssumption DEF NoManifest, ManifestRecords
    <3> QED BY <2>1, <3>1 DEF TypeOK
  <2>4. /\ End /\ crashes' \in 0..MaxCrashes
        /\ UNCHANGED <<cut, status, staging, told, fetchFailures>>
    BY <1>11, BoundsAssumption DEF DiesInPublish, Crash, TypeOK
  <2> QED BY <2>2, <2>3, <2>4, EndType DEF TypeOK, CallShape
<1>12. CASE Dies
  <2>1. /\ End /\ crashes' \in 0..MaxCrashes
        /\ UNCHANGED <<cut, catalog, staging, store, told, fetchFailures>>
    BY <1>12, BoundsAssumption DEF Dies, Crash, TypeOK
  <2> QED BY <2>1, EndType DEF TypeOK, CallShape, catalog
<1>13. CASE UNCHANGED vars
  BY <1>13 DEF vars, catalog, bounds, locals, TypeOK, CallShape
<1> QED
  BY <1>1, <1>2, <1>3, <1>4, <1>5, <1>6, <1>7, <1>8, <1>9, <1>10, <1>11, <1>12, <1>13
     DEF Next, Command, Step

-----------------------------------------------------------------------------
(* Readers of a dataset have its latest AVAILABLE revision, and older ones.   *)
ReadableBelow ==
    \A d \in Datasets : \A r \in Revisions :
        Readable(d, r) => \E a \in Available(d) : r <= a

RunInv == TypeOK /\ CallShape /\ ReadableBelow

(* There is one latest revision.                                             *)
LEMMA LatestIsOne ==
  ASSUME NEW d, NEW a, NEW b, IsLatest(d, a), IsLatest(d, b)
  PROVE  a = b
<1>1. Available(d) \subseteq Nat
  BY BoundsAssumption DEF Available, Revisions
<1> QED BY <1>1 DEF IsLatest

(* What readers find after publish_dataset: the revision after the latest    *)
(* one, which they did not have before, if it came out AVAILABLE.            *)
LEMMA PublishReads ==
  ASSUME RunInv, NEW d \in Datasets, Publish(d)
  PROVE  \E latest \in 0..MaxRevision, r \in Revisions :
            /\ r = latest + 1 /\ IsLatest(d, latest) /\ ~Readable(d, r)
            /\ store' = store \cup Written(Groups(d, r))
            /\ \A e \in Datasets \ {d} : manifests'[e] = manifests[e]
            /\ manifests'[d][r].status = Outcome(d, Groups(d, r))
            /\ manifests'[d][r].bars = UNION {o.bars : o \in Written(Groups(d, r))}
            /\ manifests'[d][r].source = IF d.resolution = 0 THEN 0 ELSE native
            /\ \A v \in Revisions \ {r} :
                  /\ manifests'[d][v].bars = manifests[d][v].bars
                  /\ manifests'[d][v].source = manifests[d][v].source
                  /\ (Readable(d, v)') <=> Readable(d, v)
            /\ IF Outcome(d, Groups(d, r)) = "AVAILABLE"
               THEN r \in (Available(d)') /\ (IsLatest(d, r)')
               ELSE (Available(d)') = Available(d) /\ (IsLatest(d, latest)')
            /\ native' = IF d.resolution = 0 THEN r ELSE native
            /\ flawed' = (flawed \/ Outcome(d, Groups(d, r)) # "AVAILABLE")
<1>1. PICK latest \in 0..MaxRevision, r \in Revisions :
            /\ r = latest + 1 /\ IsLatest(d, latest)
            /\ store' = store \cup Written(Groups(d, r))
            /\ \A e \in Datasets \ {d} : manifests'[e] = manifests[e]
            /\ manifests'[d][r] =
                  [status |-> Outcome(d, Groups(d, r)),
                   bars |-> UNION {o.bars : o \in Written(Groups(d, r))},
                   source |-> IF d.resolution = 0 THEN 0 ELSE native]
            /\ \A v \in Revisions \ {r} :
                  /\ manifests'[d][v].bars = manifests[d][v].bars
                  /\ manifests'[d][v].source = manifests[d][v].source
                  /\ manifests'[d][v].status =
                        IF v = latest /\ Outcome(d, Groups(d, r)) = "AVAILABLE"
                        THEN "SUPERSEDED" ELSE manifests[d][v].status
            /\ native' = IF d.resolution = 0 THEN r ELSE native
            /\ flawed' = (flawed \/ Outcome(d, Groups(d, r)) # "AVAILABLE")
  BY PublishWrites DEF RunInv
<1>2. Revisions \subseteq Nat /\ latest \in Nat
  BY BoundsAssumption DEF Revisions
<1>3. \A a \in Available(d) : a <= latest
  BY <1>1 DEF IsLatest
<1>4. \A v \in Revisions : Readable(d, v) => v <= latest
  <2> SUFFICES ASSUME NEW v \in Revisions, Readable(d, v) PROVE v <= latest
    OBVIOUS
  <2>1. PICK a \in Available(d) : v <= a
    BY DEF RunInv, ReadableBelow
  <2>2. a \in Revisions
    BY DEF Available
  <2> QED BY <2>1, <2>2, <1>2, <1>3
<1>5. ~Readable(d, r)
  BY <1>1, <1>2, <1>4
<1>6. Outcome(d, Groups(d, r)) \in {"AVAILABLE", "QUARANTINED"}
  BY DEF Outcome
<1>7. manifests'[d][r].status = Outcome(d, Groups(d, r))
  BY <1>1
<1>8. ASSUME NEW v \in Revisions \ {r}
      PROVE  (Readable(d, v)') <=> Readable(d, v)
  <2>1. CASE v = latest
    <3>1. latest \in Available(d)
      BY <1>1, <2>1 DEF IsLatest, Revisions
    <3> QED BY <1>1, <2>1, <3>1 DEF Available, Readable
  <2>2. CASE v # latest
    BY <1>1, <2>2 DEF Readable
  <2> QED BY <2>1, <2>2
<1>9. IF Outcome(d, Groups(d, r)) = "AVAILABLE"
      THEN r \in (Available(d)') /\ (IsLatest(d, r)')
      ELSE (Available(d)') = Available(d) /\ (IsLatest(d, latest)')
  <2>1. CASE Outcome(d, Groups(d, r)) = "AVAILABLE"
    <3>1. r \in (Available(d)')
      BY <1>7, <2>1 DEF Available
    <3>2. ASSUME NEW v \in (Available(d)') PROVE v <= r
      <4>1. v \in Revisions /\ (v = r \/ Readable(d, v))
        BY <1>8 DEF Available, Readable
      <4> QED BY <1>1, <1>2, <1>4, <4>1
    <3> QED BY <2>1, <3>1, <3>2 DEF IsLatest
  <2>2. CASE Outcome(d, Groups(d, r)) # "AVAILABLE"
    <3>1. r \notin (Available(d)') /\ r \notin Available(d)
      BY <1>7, <2>2, <1>5 DEF Available, Readable
    <3>2. \A v \in Revisions \ {r} : manifests'[d][v].status = manifests[d][v].status
      BY <1>1, <2>2
    <3>3. (Available(d)') = Available(d)
      BY <3>1, <3>2 DEF Available
    <3> QED BY <2>2, <3>3, <1>1 DEF IsLatest
  <2> QED BY <2>1, <2>2
<1> QED BY <1>1, <1>5, <1>7, <1>8, <1>9

(* What readers find does not change when publish_dataset dies.              *)
LEMMA DyingReads ==
  ASSUME RunInv, NEW d \in Datasets, DiesInPublish(d)
  PROVE  /\ \E latest \in 0..MaxRevision, r \in Revisions :
               /\ r = latest + 1 /\ IsLatest(d, latest)
               /\ \E stored \in SUBSET Written(Groups(d, r)) : store' = store \cup stored
         /\ \A e \in Datasets : (Available(e)') = Available(e)
         /\ \A e \in Datasets, v \in Revisions :
               /\ (Readable(e, v)') <=> Readable(e, v)
               /\ Readable(e, v) => manifests'[e][v] = manifests[e][v]
<1>1. PICK latest \in 0..MaxRevision :
          /\ IsLatest(d, latest) /\ latest + 1 \in Revisions
          /\ \E stored \in SUBSET Written(Groups(d, latest + 1)) : store' = store \cup stored
          /\ manifests' = [manifests EXCEPT ![d][latest + 1] =
                               [NoManifest EXCEPT !.status = "BUILDING"]]
  BY DEF DiesInPublish
<1>2. PICK r \in Revisions : r = latest + 1
  BY <1>1
<1>3. /\ \A e \in Datasets \ {d} : manifests'[e] = manifests[e]
      /\ \A v \in Revisions \ {r} : manifests'[d][v] = manifests[d][v]
      /\ manifests'[d][r].status = "BUILDING"
  <2>1. manifests \in [Datasets -> [Revisions -> ManifestRecords]]
    BY DEF RunInv, TypeOK
  <2>2. manifests' = [manifests EXCEPT ![d][r] = [NoManifest EXCEPT !.status = "BUILDING"]]
    BY <1>1, <1>2
  <2> QED BY <2>1, <2>2 DEF NoManifest
<1>4. Revisions \subseteq Nat /\ latest \in Nat
  BY BoundsAssumption DEF Revisions
<1>5. ~Readable(d, r)
  <2> SUFFICES ASSUME Readable(d, r) PROVE FALSE
    OBVIOUS
  <2>1. PICK a \in Available(d) : r <= a
    BY DEF RunInv, ReadableBelow
  <2>2. a <= latest /\ a \in Revisions
    BY <1>1, <2>1 DEF IsLatest, Available
  <2> QED BY <1>2, <1>4, <2>1, <2>2
<1>6. ASSUME NEW e \in Datasets, NEW v \in Revisions
      PROVE  /\ (Readable(e, v)') <=> Readable(e, v)
             /\ Readable(e, v) => manifests'[e][v] = manifests[e][v]
             /\ (v \in (Available(e)')) <=> v \in Available(e)
  <2>1. CASE e = d /\ v = r
    BY <1>3, <1>5, <2>1 DEF Readable, Available
  <2>2. CASE ~(e = d /\ v = r)
    <3>1. manifests'[e][v] = manifests[e][v]
      BY <1>3, <2>2
    <3> QED BY <3>1 DEF Readable, Available
  <2> QED BY <2>1, <2>2
<1>7. ASSUME NEW e \in Datasets PROVE (Available(e)') = Available(e)
  BY <1>6 DEF Available
<1>8. \E stored \in SUBSET Written(Groups(d, r)) : store' = store \cup stored
  BY <1>1, <1>2
<1> QED BY <1>1, <1>2, <1>6, <1>7, <1>8

(* No other step changes what is stored or published.                        *)
LEMMA OthersLeaveCatalog ==
  ASSUME [Next]_vars, ~\E d \in Datasets : Publish(d), ~\E d \in Datasets : DiesInPublish(d)
  PROVE  manifests' = manifests /\ store' = store
  BY DEF Next, Command, Step, Begin, ReuseRun, CleanupStaging, SkipStaged, Fetch, FetchFails,
         WriteFragment, EndCollect, Finish, Dies, vars, catalog

LEMMA InitRun == Init => RunInv
<1>1. Init => ReadableBelow
  BY DEF Init, NoManifest, ReadableBelow, Readable
<1> QED BY <1>1, InitType DEF RunInv

LEMMA RunStep == RunInv /\ [Next]_vars => RunInv'
<1> SUFFICES ASSUME RunInv, [Next]_vars PROVE RunInv'
  OBVIOUS
<1>1. TypeOK' /\ CallShape'
  BY TypeStep DEF RunInv
<1>2. ASSUME NEW d \in Datasets, Publish(d) PROVE ReadableBelow'
  <2>1. PICK latest \in 0..MaxRevision, r \in Revisions :
            /\ r = latest + 1 /\ IsLatest(d, latest) /\ ~Readable(d, r)
            /\ \A e \in Datasets \ {d} : manifests'[e] = manifests[e]
            /\ manifests'[d][r].status = Outcome(d, Groups(d, r))
            /\ \A v \in Revisions \ {r} : (Readable(d, v)') <=> Readable(d, v)
            /\ IF Outcome(d, Groups(d, r)) = "AVAILABLE"
               THEN r \in (Available(d)') /\ (IsLatest(d, r)')
               ELSE (Available(d)') = Available(d) /\ (IsLatest(d, latest)')
    BY <1>2, PublishReads
  <2> SUFFICES ASSUME NEW e \in Datasets, NEW v \in Revisions, Readable(e, v)'
               PROVE  \E a \in (Available(e)') : v <= a
    BY DEF ReadableBelow
  <2>2. Revisions \subseteq Nat
    BY BoundsAssumption DEF Revisions
  <2>3. CASE e # d
    <3>1. manifests'[e] = manifests[e]
      BY <2>1, <2>3
    <3>2. Readable(e, v) /\ (Available(e)') = Available(e)
      BY <3>1 DEF Readable, Available
    <3> QED BY <3>2 DEF RunInv, ReadableBelow
  <2>4. CASE e = d /\ v = r
    <3>1. Outcome(d, Groups(d, r)) = "AVAILABLE"
      BY <2>1, <2>4 DEF Outcome, Readable
    <3> QED BY <2>1, <2>2, <2>4, <3>1
  <2>5. CASE e = d /\ v # r
    <3>1. PICK a \in Available(d) : v <= a
      BY <2>1, <2>5 DEF RunInv, ReadableBelow
    <3>2. a \in Revisions /\ a <= latest /\ latest \in Nat
      BY <2>1, <3>1, BoundsAssumption DEF IsLatest, Available
    <3> QED BY <2>1, <2>2, <2>5, <3>1, <3>2
  <2> QED BY <2>3, <2>4, <2>5
<1>3. ASSUME NEW d \in Datasets, DiesInPublish(d) PROVE ReadableBelow'
  <2>1. /\ \A e \in Datasets : (Available(e)') = Available(e)
        /\ \A e \in Datasets, v \in Revisions : (Readable(e, v)') <=> Readable(e, v)
    BY <1>3, DyingReads
  <2> QED BY <2>1 DEF RunInv, ReadableBelow
<1>4. ASSUME ~\E d \in Datasets : Publish(d), ~\E d \in Datasets : DiesInPublish(d)
      PROVE  ReadableBelow'
  <2>1. manifests' = manifests
    BY <1>4, OthersLeaveCatalog
  <2> QED BY <2>1 DEF RunInv, ReadableBelow, Readable, Available
<1>5. ReadableBelow'
  BY <1>2, <1>3, <1>4
<1> QED BY <1>1, <1>5 DEF RunInv

(* The run, its files, the catalog and the call keep their types through      *)
(* failed chunks, dead processes, resumed and repeated commands.              *)
THEOREM RunTypeCorrect == Spec => []TypeOK
<1>1. Init => RunInv
  BY InitRun
<1>2. RunInv /\ [Next]_vars => RunInv'
  BY RunStep
<1> QED BY <1>1, <1>2, PTL DEF Spec, RunInv

-----------------------------------------------------------------------------
(* The command is given for one set of symbols, as an operator does who       *)
(* repeats it.                                                             *)
OneRequest == \A S, T \in Requests : S = T

Asked == UNION Requests

(* The bars of a year that the command is for.                               *)
Wanted(y) == {f \in Bars : f.year = y /\ f.symbol \in Asked}

JobOf(f) == [symbol |-> f.symbol, chunk |-> f.chunk]

(* Every bar asked for is staged, in hand, still to be fetched, of a chunk    *)
(* that failed, or of a cut one.                                            *)
Covered ==
    /\ \A f \in staging \cup pending \cup todo : f.symbol \in Asked
    /\ ~cut /\ pc # "idle" =>
          \A f \in Bars : f.symbol \in Asked =>
              \/ f \in staging \/ f \in pending
              \/ f.chunk \in failed \/ JobOf(f) \in todo

(* A readable year holds all bars asked for.                                 *)
ReadableIsWhole ==
    ~cut => \A d \in Datasets : \A r \in Revisions :
        Readable(d, r) => manifests[d][r].bars = Wanted(d.year)

(* Who was told SUCCEEDED can read every dataset; so far a call that is not   *)
(* flawed has published all that it is through with.                        *)
HasLatest(d) == \E r \in Available(d) : IsLatest(d, r)
ToldHasAll ==
    /\ told \subseteq Asked
    /\ told # {} => status = "SUCCEEDED"
    /\ status = "SUCCEEDED" => \A d \in Datasets : HasLatest(d)
    /\ pc = "publish" /\ ~flawed => \A d \in Datasets \ queue : HasLatest(d)

WholeInv == Covered /\ ReadableIsWhole /\ ToldHasAll

LEMMA InitWhole == Init => WholeInv
  BY DEF Init, NoManifest, WholeInv, Covered, ReadableIsWhole, ToldHasAll, Readable

(* Collecting covers what is asked for.                                      *)
LEMMA CoveredStep ==
  ASSUME OneRequest, RunInv, Covered, [Next]_vars
  PROVE  Covered'
<1>0. TypeOK /\ CallShape
  BY DEF RunInv
<1> Bars \subseteq Fragments
  BY BarsAssumption
<1>1. ASSUME NEW S \in Requests, NEW again \in ResumeFlags, Begin(S, again) PROVE Covered'
  <2>1. S = Asked
    BY <1>1 DEF OneRequest, Asked
  <2>2. /\ pending = {} /\ pending' = pending /\ staging' = staging /\ cut' = cut
        /\ todo' = {j \in Jobs : j.symbol \in S}
    BY <1>0, <1>1 DEF Begin, CallShape
  <2>3. \A f \in Bars : f.symbol \in Asked => JobOf(f) \in todo'
    BY <2>1, <2>2 DEF JobOf, Jobs, Fragments
  <2>4. \A f \in staging' \cup pending' \cup todo' : f.symbol \in Asked
    BY <2>1, <2>2 DEF Covered
  <2> QED BY <2>3, <2>4 DEF Covered, Asked
<1>2. CASE SkipStaged
  <2>1. PICK j \in todo : /\ todo' = todo \ {j}
                         /\ cut' = (cut \/ ~(OfJob(j, Bars) \subseteq staging))
    BY <1>2 DEF SkipStaged
  <2>2. UNCHANGED <<staging, pending, failed, pc>> /\ pc = "collect"
    BY <1>2 DEF SkipStaged
  <2>3. ~cut' => ~cut /\ OfJob(j, Bars) \subseteq staging
    BY <2>1
  <2>4. \A f \in Bars : JobOf(f) = j => f \in OfJob(j, Bars)
    BY DEF JobOf, OfJob
  <2> QED BY <2>1, <2>2, <2>3, <2>4 DEF Covered
<1>3. CASE Fetch
  <2>1. PICK j \in todo : todo' = todo \ {j} /\ pending' = OfJob(j, Bars)
    BY <1>3 DEF Fetch
  <2>2. UNCHANGED <<cut, staging, failed, pc>> /\ pc = "collect" /\ pending = {}
    BY <1>3 DEF Fetch
  <2>3. \A f \in Bars : JobOf(f) = j => f \in OfJob(j, Bars)
    BY DEF JobOf, OfJob
  <2>4. j.symbol \in Asked
    BY DEF Covered
  <2>5. \A f \in pending' : f.symbol \in Asked
    BY <2>1, <2>4 DEF OfJob
  <2> QED BY <2>1, <2>2, <2>3, <2>5 DEF Covered
<1>4. CASE FetchFails
  <2>1. PICK j \in todo : todo' = todo \ {j} /\ failed' = failed \cup {j.chunk}
    BY <1>4 DEF FetchFails
  <2>2. UNCHANGED <<cut, staging, pending, pc>> /\ pc = "collect"
    BY <1>4 DEF FetchFails
  <2>3. \A f \in Bars : JobOf(f) = j => f.chunk \in failed'
    BY <2>1 DEF JobOf
  <2> QED BY <2>1, <2>2, <2>3 DEF Covered
<1>5. CASE WriteFragment
  <2>1. PICK f \in pending : staging' = staging \cup {f} /\ pending' = pending \ {f}
    BY <1>5 DEF WriteFragment
  <2>2. UNCHANGED <<cut, failed, todo, pc>>
    BY <1>5 DEF WriteFragment
  <2> QED BY <2>1, <2>2 DEF Covered
<1>6. CASE EndCollect
  BY <1>6 DEF EndCollect, Covered
<1>7. ASSUME NEW d \in Datasets, Publish(d) PROVE Covered'
  BY <1>7 DEF Publish, Covered
<1>8. ASSUME End, UNCHANGED staging PROVE Covered'
  BY <1>8 DEF End, Covered
<1>9. CASE Finish
  BY <1>8, <1>9 DEF Finish
<1>10. ASSUME NEW d \in Datasets, DiesInPublish(d) PROVE Covered'
  BY <1>8, <1>10 DEF DiesInPublish
<1>11. CASE Dies
  BY <1>8, <1>11 DEF Dies
<1>12. ASSUME NEW S \in Requests, ReuseRun(S) PROVE Covered'
  BY <1>12 DEF ReuseRun, Covered, locals
<1>13. CASE CleanupStaging
  BY <1>13 DEF CleanupStaging, Covered, locals
<1>14. CASE UNCHANGED vars
  BY <1>14 DEF vars, locals, Covered
<1> QED
  BY <1>1, <1>2, <1>3, <1>4, <1>5, <1>6, <1>7, <1>9, <1>10, <1>11, <1>12, <1>13, <1>14
     DEF Next, Command, Step

(* What is published as AVAILABLE is the year as it is staged.               *)
LEMMA AvailableIsStaged ==
  ASSUME NEW d, NEW r, Outcome(d, Groups(d, r)) = "AVAILABLE"
  PROVE  /\ Written(Groups(d, r)) = Groups(d, r) /\ ~Incident(d)
         /\ UNION {o.bars : o \in Written(Groups(d, r))} = StagedIn(d.year)
<1>1. Written(Groups(d, r)) = Groups(d, r) /\ ~Incident(d)
  BY DEF Outcome
<1> QED BY <1>1, GroupsCover

(* ... and without a cut chunk that is all that was asked for.               *)
LEMMA StagedIsWanted ==
  ASSUME RunInv, Covered, ~cut, pc = "publish", NEW d \in Datasets, ~Incident(d)
  PROVE  StagedIn(d.year) = Wanted(d.year)
<1>1. /\ staging \subseteq Bars /\ todo = {} /\ pending = {} /\ Bars \subseteq Fragments
      /\ failed \subseteq Chunks
  BY BarsAssumption DEF RunInv, CallShape, TypeOK
<1>2. ASSUME NEW f \in Wanted(d.year) PROVE f \in staging
  <2>1. f \in Bars /\ f.year = d.year /\ f.symbol \in Asked
    BY DEF Wanted
  <2>2. f.chunk \in Chunks /\ f.year \in CoversOf[f.chunk]
    BY <2>1, BarsAssumption DEF Fragments
  <2>3. d.year \in MarkedBy[f.chunk]
    BY <2>1, <2>2, CoverAssumption
  <2>4. f.chunk \notin failed
    BY <2>3 DEF Incident
  <2> QED BY <1>1, <2>1, <2>4 DEF Covered
<1> QED BY <1>1, <1>2 DEF StagedIn, Wanted, Covered

(* Publishing keeps readable years whole.                                    *)
LEMMA WholeStep ==
  ASSUME RunInv, Covered, ReadableIsWhole, [Next]_vars
  PROVE  ReadableIsWhole'
<1>1. ~cut' => ~cut
  BY DEF Next, Command, Step, Begin, ReuseRun, CleanupStaging, SkipStaged, Fetch, FetchFails,
         WriteFragment, EndCollect, Publish, Finish, DiesInPublish, Dies, vars
<1> SUFFICES ASSUME ~cut', ~cut, NEW e \in Datasets, NEW v \in Revisions, Readable(e, v)'
             PROVE  manifests'[e][v].bars = Wanted(e.year)
  BY <1>1 DEF ReadableIsWhole, Wanted, Asked
<1>2. ASSUME NEW d \in Datasets, Publish(d) PROVE manifests'[e][v].bars = Wanted(e.year)
  <2>1. PICK latest \in 0..MaxRevision, r \in Revisions :
            /\ \A x \in Datasets \ {d} : manifests'[x] = manifests[x]
            /\ manifests'[d][r].status = Outcome(d, Groups(d, r))
            /\ manifests'[d][r].bars = UNION {o.bars : o \in Written(Groups(d, r))}
            /\ \A w \in Revisions \ {r} :
                  /\ manifests'[d][w].bars = manifests[d][w].bars
                  /\ (Readable(d, w)') <=> Readable(d, w)
    BY <1>2, PublishReads
  <2>2. CASE e # d
    <3>1. manifests'[e] = manifests[e]
      BY <2>1, <2>2
    <3>2. Readable(e, v)
      BY <3>1 DEF Readable
    <3> QED BY <3>1, <3>2 DEF ReadableIsWhole
  <2>3. CASE e = d /\ v # r
    <3>1. Readable(e, v)
      BY <2>1, <2>3
    <3> QED BY <2>1, <2>3, <3>1 DEF ReadableIsWhole
  <2>4. CASE e = d /\ v = r
    <3>1. Outcome(d, Groups(d, r)) = "AVAILABLE"
      BY <2>1, <2>4 DEF Outcome, Readable
    <3>2. pc = "publish"
      BY <1>2 DEF Publish
    <3>3. ~Incident(d) /\ manifests'[d][r].bars = StagedIn(d.year)
      BY <2>1, <3>1, AvailableIsStaged
    <3> QED BY <2>4, <3>2, <3>3, StagedIsWanted
  <2> QED BY <2>2, <2>3, <2>4
<1>3. ASSUME NEW d \in Datasets, DiesInPublish(d) PROVE manifests'[e][v].bars = Wanted(e.year)
  <2>1. Readable(e, v) /\ manifests'[e][v] = manifests[e][v]
    BY <1>3, DyingReads
  <2> QED BY <2>1 DEF ReadableIsWhole
<1>4. ASSUME ~\E d \in Datasets : Publish(d), ~\E d \in Datasets : DiesInPublish(d)
      PROVE  manifests'[e][v].bars = Wanted(e.year)
  <2>1. manifests' = manifests
    BY <1>4, OthersLeaveCatalog
  <2> QED BY <2>1 DEF ReadableIsWhole, Readable
<1> QED BY <1>2, <1>3, <1>4

(* Publishing a dataset leaves readers of all that had one a latest revision. *)
LEMMA KeepsLatest ==
  ASSUME RunInv, [Next]_vars, NEW e \in Datasets, HasLatest(e)
  PROVE  HasLatest(e)'
<1>1. ASSUME NEW d \in Datasets, Publish(d) PROVE HasLatest(e)'
  <2>1. PICK latest \in 0..MaxRevision, r \in Revisions :
            /\ IsLatest(d, latest)
            /\ \A x \in Datasets \ {d} : manifests'[x] = manifests[x]
            /\ IF Outcome(d, Groups(d, r)) = "AVAILABLE"
               THEN r \in (Available(d)') /\ (IsLatest(d, r)')
               ELSE (Available(d)') = Available(d) /\ (IsLatest(d, latest)')
    BY <1>1, PublishReads
  <2>2. CASE e # d
    <3>1. manifests'[e] = manifests[e]
      BY <2>1, <2>2
    <3> QED BY <3>1 DEF HasLatest, IsLatest, Available
  <2>3. CASE e = d
    BY <2>1, <2>3 DEF HasLatest, IsLatest
  <2> QED BY <2>2, <2>3
<1>2. ASSUME NEW d \in Datasets, DiesInPublish(d) PROVE HasLatest(e)'
  <2>1. (Available(e)') = Available(e)
    BY <1>2, DyingReads
  <2> QED BY <2>1 DEF HasLatest, IsLatest
<1>3. ASSUME ~\E d \in Datasets : Publish(d), ~\E d \in Datasets : DiesInPublish(d)
      PROVE  HasLatest(e)'
  <2>1. manifests' = manifests
    BY <1>3, OthersLeaveCatalog
  <2> QED BY <2>1 DEF HasLatest, IsLatest, Available
<1> QED BY <1>1, <1>2, <1>3

(* SUCCEEDED is told when every dataset was published AVAILABLE.             *)
LEMMA ToldStep ==
  ASSUME RunInv, ToldHasAll, [Next]_vars
  PROVE  ToldHasAll'
<1>0. TypeOK /\ CallShape
  BY DEF RunInv
<1>1. ASSUME NEW S \in Requests, NEW again \in ResumeFlags, Begin(S, again) PROVE ToldHasAll'
  BY <1>1 DEF Begin, ToldHasAll, Asked
<1>2. ASSUME NEW S \in Requests, ReuseRun(S) PROVE ToldHasAll'
  BY <1>2 DEF ReuseRun, ToldHasAll, Asked, catalog, locals, HasLatest, IsLatest, Available
<1>3. ASSUME UNCHANGED <<status, manifests, told>>, pc' # "publish" PROVE ToldHasAll'
  BY <1>3 DEF ToldHasAll, Asked, HasLatest, IsLatest, Available
<1>4. CASE CleanupStaging \/ SkipStaged \/ Fetch \/ FetchFails \/ WriteFragment \/ Dies
  BY <1>3, <1>4 DEF CleanupStaging, SkipStaged, Fetch, FetchFails, WriteFragment, Dies, End, catalog
<1>5. CASE EndCollect
  BY <1>5 DEF EndCollect, ToldHasAll, Asked, catalog, HasLatest, IsLatest, Available
<1>6. ASSUME NEW d \in Datasets, Publish(d) PROVE ToldHasAll'
  <2>1. /\ pc = "publish" /\ queue' = queue \ {d} /\ status = "RUNNING" /\ told = {}
        /\ UNCHANGED <<status, told, pc>>
    BY <1>0, <1>6 DEF Publish, CallShape, ToldHasAll
  <2>2. ASSUME ~flawed' PROVE ~flawed /\ (HasLatest(d)')
    <3>1. PICK latest \in 0..MaxRevision, r \in Revisions :
            /\ flawed' = (flawed \/ Outcome(d, Groups(d, r)) # "AVAILABLE")
            /\ IF Outcome(d, Groups(d, r)) = "AVAILABLE"
               THEN r \in (Available(d)') /\ (IsLatest(d, r)')
               ELSE (Available(d)') = Available(d) /\ (IsLatest(d, latest)')
      BY <1>6, PublishReads
    <3>2. ~flawed /\ Outcome(d, Groups(d, r)) = "AVAILABLE"
      BY <2>2, <3>1
    <3> QED BY <3>1, <3>2 DEF HasLatest
  <2>3. ASSUME ~flawed', NEW e \in Datasets \ queue' PROVE HasLatest(e)'
    BY <2>1, <2>2, <2>3, KeepsLatest DEF ToldHasAll
  <2> QED BY <2>1, <2>3 DEF ToldHasAll
<1>7. CASE Finish
  <2>1. /\ pc = "publish" /\ queue = {} /\ UNCHANGED manifests /\ pc' = "idle"
        /\ symbols \in Requests /\ told = {}
    BY <1>0, <1>7 DEF Finish, End, CallShape, ToldHasAll
  <2>2. CASE failed # {} \/ flawed
    BY <1>7, <2>1, <2>2 DEF Finish, ToldHasAll
  <2>3. CASE ~(failed # {} \/ flawed)
    <3>1. status' = "SUCCEEDED" /\ told' \subseteq Asked
      BY <1>7, <2>1, <2>3 DEF Finish, Asked
    <3>2. \A e \in Datasets : HasLatest(e)'
      BY <2>1, <2>3 DEF ToldHasAll, HasLatest, IsLatest, Available
    <3> QED BY <2>1, <3>1, <3>2 DEF ToldHasAll, Asked
  <2> QED BY <2>2, <2>3
<1>8. ASSUME NEW d \in Datasets, DiesInPublish(d) PROVE ToldHasAll'
  <2>1. /\ status = "RUNNING" /\ told = {} /\ pc' = "idle" /\ UNCHANGED <<status, told>>
    BY <1>0, <1>8 DEF DiesInPublish, End, CallShape, ToldHasAll
  <2> QED BY <2>1 DEF ToldHasAll
<1>9. CASE UNCHANGED vars
  BY <1>9 DEF vars, locals, catalog, ToldHasAll, Asked, HasLatest, IsLatest, Available
<1> QED
  BY <1>1, <1>2, <1>4, <1>5, <1>6, <1>7, <1>8, <1>9 DEF Next, Command, Step

LEMMA WholeAlways == ASSUME OneRequest PROVE Spec => [](RunInv /\ WholeInv)
<1>1. Init => RunInv /\ WholeInv
  BY InitRun, InitWhole
<1>2. RunInv /\ WholeInv /\ [Next]_vars => RunInv' /\ WholeInv'
  BY RunStep, CoveredStep, WholeStep, ToldStep DEF WholeInv
<1> QED BY <1>1, <1>2, PTL DEF Spec

(* However often a backfill of one set of symbols failed, died and was         *)
(* resumed, no readable year has a part of a symbol's bars, as long as no     *)
(* chunk was skipped that lacked a file (collect_staging, publish_dataset).   *)
THEOREM NeverPartial == ASSUME OneRequest PROVE Spec => []NoPartialSymbol
<1>1. RunInv /\ WholeInv => NoPartialSymbol
  BY DEF WholeInv, ReadableIsWhole, NoPartialSymbol, Wanted
<1> QED BY <1>1, WholeAlways, PTL

(* ... and whom the command told SUCCEEDED finds all bars asked for in the    *)
(* latest revision of every dataset (finish_pipeline_run).                   *)
THEOREM ToldAlwaysServed == ASSUME OneRequest PROVE Spec => []ToldIsServedUnlessCut
<1>1. ASSUME RunInv, WholeInv, ~cut, NEW d \in Datasets, NEW f \in Bars,
             f.symbol \in told, f.year = d.year
      PROVE  \E r \in Available(d) : IsLatest(d, r) /\ f \in manifests[d][r].bars
  <2>1. f \in Wanted(d.year) /\ HasLatest(d)
    BY <1>1 DEF WholeInv, ToldHasAll, Wanted
  <2>2. PICK r \in Available(d) : IsLatest(d, r)
    BY <2>1 DEF HasLatest
  <2>3. r \in Revisions /\ Readable(d, r)
    BY DEF Available, Readable
  <2> QED BY <1>1, <2>1, <2>2, <2>3 DEF WholeInv, ReadableIsWhole
<1>2. RunInv /\ WholeInv => ToldIsServedUnlessCut
  BY <1>1 DEF ToldIsServedUnlessCut, ToldIsServed
<1> QED BY <1>2, WholeAlways, PTL

-----------------------------------------------------------------------------
(* As staging files are only added until the run has SUCCEEDED, an object     *)
(* never holds more than what is staged now.                                *)
StoreIsStaged ==
    status # "SUCCEEDED" => \A x \in store : x.bars \subseteq StagedOf(x.dataset.year, x.shard)

(* An incomplete object stands for good where the next revision of a dataset  *)
(* needs another.                                                          *)
Blocks(n, x) ==
    /\ \E l \in 0..MaxRevision : IsLatest(n, l) /\ x.revision = l + 1
    /\ x.dataset = n
    /\ x.bars # {f \in Bars : f.year = n.year /\ ShardOf[f.symbol] = x.shard}
    /\ status # "SUCCEEDED" => x.bars # StagedOf(n.year, x.shard)
Blocked(n) == \E x \in store : Blocks(n, x)

(* What became of the native dataset of a year before those derived from it   *)
(* are published.                                                          *)
IsPublished(n) ==
    native \in Revisions /\ Readable(n, native) /\ manifests[n][native].bars = StagedIn(n.year)
NativeIsDone ==
    pc = "publish" => \A n \in Datasets \ queue :
        n.resolution = 0 /\ (\E e \in queue : e.year = n.year) =>
            /\ \A e \in queue : n.year <= e.year
            /\ IsPublished(n) \/ Incident(n) \/ StagedIn(n.year) = {} \/ Blocked(n)

DerivedHasSource ==
    \A d \in Datasets : \A r \in Revisions :
        d.resolution # 0 /\ Readable(d, r) =>
            IsDerivedFromPublished(d, r) \/ Blocked(NativeOf(d))

DerivedInv == StoreIsStaged /\ NativeIsDone /\ DerivedHasSource

LEMMA InitDerived == Init => DerivedInv
  BY DEF Init, NoManifest, DerivedInv, StoreIsStaged, NativeIsDone, DerivedHasSource, Readable

(* Staging files are only removed after the run has SUCCEEDED, and the run    *)
(* is never entered again then.                                            *)
LEMMA StagingGrows ==
  ASSUME RunInv, [Next]_vars, status' # "SUCCEEDED"
  PROVE  status # "SUCCEEDED" /\ staging \subseteq staging'
<1>1. CallShape
  BY DEF RunInv
<1>2. status # "SUCCEEDED"
  BY <1>1 DEF Next, Command, Step, Begin, ReuseRun, CleanupStaging, SkipStaged, Fetch, FetchFails,
         WriteFragment, EndCollect, Publish, Finish, DiesInPublish, Dies, vars, catalog, CallShape
<1>3. staging \subseteq staging'
  BY <1>2 DEF Next, Command, Step, Begin, ReuseRun, CleanupStaging, SkipStaged, Fetch, FetchFails,
         WriteFragment, EndCollect, Publish, Finish, DiesInPublish, Dies, vars
<1> QED BY <1>2, <1>3

(* Publishing needs files for its rows, and leaves them as they are.         *)
LEMMA PublishingCall ==
  ASSUME RunInv, NEW d \in Datasets, Publish(d) \/ DiesInPublish(d)
  PROVE  /\ pc = "publish" /\ status = "RUNNING" /\ status' = status /\ staging' = staging
         /\ d \in queue /\ \A e \in queue : d.year <= e.year
         /\ \A e \in queue : e.year = d.year => d.resolution <= e.resolution
<1>1. CallShape /\ queue \subseteq Datasets
  BY DEF RunInv, TypeOK
<1>2. pc = "publish" /\ IsNextDataset(d) /\ status' = status /\ staging' = staging
  BY DEF Publish, DiesInPublish
<1>3. d.year \in Nat /\ \A e \in queue : e.year \in Nat
  BY <1>1 DEF Datasets, Years
<1> QED BY <1>1, <1>2, <1>3 DEF IsNextDataset, CallShape

LEMMA StoreStep == RunInv /\ StoreIsStaged /\ [Next]_vars => StoreIsStaged'
<1> SUFFICES ASSUME RunInv, StoreIsStaged, [Next]_vars, status' # "SUCCEEDED", NEW x \in store'
             PROVE  x.bars \subseteq StagedOf(x.dataset.year, x.shard)'
  BY DEF StoreIsStaged
<1>1. status # "SUCCEEDED" /\ staging \subseteq staging'
  BY StagingGrows
<1>2. CASE x \in store
  BY <1>1, <1>2 DEF StoreIsStaged, StagedOf
<1>3. ASSUME NEW d \in Datasets, Publish(d) \/ DiesInPublish(d), x \notin store
      PROVE  x.bars \subseteq StagedOf(x.dataset.year, x.shard)'
  <2>1. PICK r \in Revisions : x \in Groups(d, r)
    <3>1. ASSUME Publish(d) PROVE \E r \in Revisions : x \in Groups(d, r)
      BY <1>3, <3>1, PublishReads DEF Written
    <3>2. ASSUME DiesInPublish(d) PROVE \E r \in Revisions : x \in Groups(d, r)
      BY <1>3, <3>2, DyingReads DEF Written
    <3> QED BY <1>3, <3>1, <3>2
  <2>2. x.dataset = d /\ x.bars = StagedOf(d.year, x.shard)
    BY <2>1, GroupsCover
  <2> QED BY <1>1, <2>2 DEF StagedOf
<1> QED BY <1>2, <1>3, OthersLeaveCatalog

(* Where an incomplete object stands, publishing the next revision fails.     *)
LEMMA BlockedFails ==
  ASSUME RunInv, StoreIsStaged, NEW n \in Datasets, NEW x \in store, Blocks(n, x),
         status # "SUCCEEDED", NEW latest, NEW r, IsLatest(n, latest), r = latest + 1
  PROVE  Outcome(n, Groups(n, r)) = "QUARANTINED"
<1>1. PICK l \in 0..MaxRevision : IsLatest(n, l) /\ x.revision = l + 1
  BY DEF Blocks
<1>2. x.revision = r /\ x.dataset = n
  BY <1>1, LatestIsOne DEF Blocks
<1>3. x.bars \subseteq StagedOf(n.year, x.shard) /\ x.bars # StagedOf(n.year, x.shard)
  BY <1>2 DEF StoreIsStaged, Blocks
<1>4. PICK f \in StagedIn(n.year) : ShardOf[f.symbol] = x.shard
  BY <1>3 DEF StagedOf, StagedIn
<1>5. PICK o \in Groups(n, r) : o.shard = x.shard
  BY <1>4, GroupsCover
<1>6. o.dataset = n /\ o.revision = r /\ o.bars = StagedOf(n.year, o.shard)
  BY GroupsCover
<1>7. KeyTaken(o)
  BY <1>2, <1>3, <1>5, <1>6 DEF KeyTaken
<1>8. Written(Groups(n, r)) # Groups(n, r)
  BY <1>7 DEF Written
<1> QED BY <1>8 DEF Outcome

(* So it stands there for good.                                              *)
LEMMA BlockedStays ==
  ASSUME RunInv, StoreIsStaged, [Next]_vars, NEW n \in Datasets, Blocked(n)
  PROVE  Blocked(n)'
<1>1. PICK x \in store : Blocks(n, x)
  BY DEF Blocked
<1>2. PICK l \in 0..MaxRevision : IsLatest(n, l) /\ x.revision = l + 1
  BY <1>1 DEF Blocks
<1>3. x.dataset = n
  BY <1>1 DEF Blocks
<1>4. ASSUME status' # "SUCCEEDED" PROVE x.bars # StagedOf(n.year, x.shard)'
  <2>1. status # "SUCCEEDED" /\ staging \subseteq staging'
    BY <1>4, StagingGrows
  <2>2. x.bars \subseteq StagedOf(n.year, x.shard) /\ x.bars # StagedOf(n.year, x.shard)
    BY <1>1, <1>3, <2>1 DEF StoreIsStaged, Blocks
  <2>3. StagedOf(n.year, x.shard) \subseteq StagedOf(n.year, x.shard)'
    BY <2>1 DEF StagedOf
  <2> QED BY <2>2, <2>3
<1>5. x \in store' /\ (IsLatest(n, l)')
  <2>1. ASSUME NEW d \in Datasets, Publish(d) PROVE x \in store' /\ (IsLatest(n, l)')
    <3>1. PICK latest \in 0..MaxRevision, r \in Revisions :
            /\ r = latest + 1 /\ IsLatest(d, latest)
            /\ store' = store \cup Written(Groups(d, r))
            /\ \A e \in Datasets \ {d} : manifests'[e] = manifests[e]
            /\ IF Outcome(d, Groups(d, r)) = "AVAILABLE"
               THEN r \in (Available(d)') /\ (IsLatest(d, r)')
               ELSE (Available(d)') = Available(d) /\ (IsLatest(d, latest)')
      BY <2>1, PublishReads
    <3>2. CASE d # n
      <4>1. manifests'[n] = manifests[n]
        BY <3>1, <3>2
      <4> QED BY <3>1, <4>1, <1>2 DEF IsLatest, Available
    <3>3. CASE d = n
      <4>1. status # "SUCCEEDED"
        BY <2>1, PublishingCall
      <4>2. Outcome(d, Groups(d, r)) = "QUARANTINED"
        BY <1>1, <3>1, <3>3, <4>1, BlockedFails
      <4>3. latest = l
        BY <3>1, <3>3, <1>2, LatestIsOne
      <4> QED BY <3>1, <3>3, <4>2, <4>3
    <3> QED BY <3>2, <3>3
  <2>2. ASSUME NEW d \in Datasets, DiesInPublish(d) PROVE x \in store' /\ (IsLatest(n, l)')
    <3>1. store \subseteq store' /\ (Available(n)') = Available(n)
      BY <2>2, DyingReads
    <3> QED BY <3>1, <1>2 DEF IsLatest
  <2>3. ASSUME ~\E d \in Datasets : Publish(d), ~\E d \in Datasets : DiesInPublish(d)
        PROVE  x \in store' /\ (IsLatest(n, l)')
    <3>1. manifests' = manifests /\ store' = store
      BY <2>3, OthersLeaveCatalog
    <3> QED BY <3>1, <1>2 DEF IsLatest, Available
  <2> QED BY <2>1, <2>2, <2>3
<1>6. Blocks(n, x)'
  <2>1. \E k \in 0..MaxRevision : (IsLatest(n, k)') /\ x.revision = k + 1
    BY <1>2, <1>5
  <2>2. x.bars # {f \in Bars : f.year = n.year /\ ShardOf[f.symbol] = x.shard}
    BY <1>1 DEF Blocks
  <2> QED BY <1>3, <1>4, <2>1, <2>2 DEF Blocks
<1> QED BY <1>5, <1>6 DEF Blocked

(* A key that is taken when a year is published is taken by less than what    *)
(* is staged of it.                                                        *)
LEMMA TakenBlocks ==
  ASSUME RunInv, StoreIsStaged, [Next]_vars, NEW n \in Datasets, Publish(n),
         NEW latest \in 0..MaxRevision, NEW r \in Revisions,
         r = latest + 1, IsLatest(n, latest)', Written(Groups(n, r)) # Groups(n, r)
  PROVE  Blocked(n)'
<1>1. status = "RUNNING" /\ status' = status /\ staging' = staging
  BY PublishingCall
<1>2. store \subseteq Objects /\ staging \subseteq Bars /\ staging \subseteq Fragments
  BY DEF RunInv, TypeOK, CallShape
<1>3. PICK o \in Groups(n, r) : KeyTaken(o)
  BY DEF Written
<1>4. PICK x \in store : /\ x.dataset = o.dataset /\ x.revision = o.revision
                        /\ x.shard = o.shard /\ x # o
  BY <1>3 DEF KeyTaken
<1>5. o.dataset = n /\ o.revision = r /\ o.bars = StagedOf(n.year, o.shard)
  BY GroupsCover
<1>6. x \in Objects /\ o \in Objects
  BY <1>2, GroupsType
<1>7. x.bars # o.bars
  BY <1>4, <1>6 DEF Objects
<1>8. x.bars \subseteq StagedOf(n.year, x.shard) /\ x.bars # StagedOf(n.year, x.shard)
  BY <1>1, <1>4, <1>5, <1>7 DEF StoreIsStaged
<1>9. StagedOf(n.year, x.shard) \subseteq {f \in Bars : f.year = n.year /\ ShardOf[f.symbol] = x.shard}
  BY <1>2 DEF StagedOf
<1>10. x.bars # {f \in Bars : f.year = n.year /\ ShardOf[f.symbol] = x.shard}
  BY <1>8, <1>9
<1>11. x.bars # StagedOf(n.year, x.shard)'
  BY <1>1, <1>8 DEF StagedOf
<1>12. Blocks(n, x)'
  BY <1>4, <1>5, <1>10, <1>11 DEF Blocks
<1>13. x \in store'
  BY PublishReads
<1> QED BY <1>12, <1>13 DEF Blocked

(* The native dataset of a year is published, or it is known why not, before  *)
(* those derived from it.                                                   *)
LEMMA NativeStep ==
  ASSUME RunInv, StoreIsStaged, NativeIsDone, [Next]_vars
  PROVE  NativeIsDone'
<1>1. ASSUME NEW d \in Datasets, Publish(d) PROVE NativeIsDone'
  <2>0. /\ pc = "publish" /\ queue' = queue \ {d} /\ UNCHANGED <<staging, failed>>
        /\ d \in queue /\ queue \subseteq Datasets
        /\ \A e \in queue : d.year <= e.year
    BY <1>1, PublishingCall DEF Publish, RunInv, TypeOK
  <2>1. PICK latest \in 0..MaxRevision, r \in Revisions :
            /\ r = latest + 1 /\ IsLatest(d, latest)
            /\ \A e \in Datasets \ {d} : manifests'[e] = manifests[e]
            /\ manifests'[d][r].status = Outcome(d, Groups(d, r))
            /\ manifests'[d][r].bars = UNION {o.bars : o \in Written(Groups(d, r))}
            /\ IF Outcome(d, Groups(d, r)) = "AVAILABLE"
               THEN r \in (Available(d)') /\ (IsLatest(d, r)')
               ELSE (Available(d)') = Available(d) /\ (IsLatest(d, latest)')
            /\ native' = IF d.resolution = 0 THEN r ELSE native
    BY <1>1, PublishReads
  <2> SUFFICES ASSUME NEW n \in Datasets, n \notin queue', n.resolution = 0,
                      NEW e \in queue', e.year = n.year
               PROVE  /\ \A f \in queue' : n.year <= f.year
                      /\ (IsPublished(n)') \/ (Incident(n)') \/ (StagedIn(n.year)') = {}
                            \/ (Blocked(n)')
    BY DEF NativeIsDone
  <2>2. CASE n \notin queue
    <3>1. /\ \A f \in queue : n.year <= f.year
          /\ IsPublished(n) \/ Incident(n) \/ StagedIn(n.year) = {} \/ Blocked(n)
      BY <2>0, <2>2 DEF NativeIsDone
    <3>2. d.year = n.year
      <4>1. n.year <= d.year /\ d.year <= n.year
        BY <2>0, <3>1
      <4>2. n.year \in Nat /\ d.year \in Nat
        BY DEF Datasets, Years
      <4> QED BY <4>1, <4>2
    <3>3. d # n
      BY <2>0, <2>2
    <3>4. d.resolution # 0
      BY <3>2, <3>3 DEF Datasets
    <3>5. native' = native /\ manifests'[n] = manifests[n]
      BY <2>1, <3>3, <3>4
    <3>6. IsPublished(n) => IsPublished(n)'
      BY <2>0, <3>5 DEF IsPublished, Readable, StagedIn
    <3>7. Incident(n) => Incident(n)'
      BY <2>0 DEF Incident
    <3>8. StagedIn(n.year) = {} => (StagedIn(n.year)') = {}
      BY <2>0 DEF StagedIn
    <3>9. Blocked(n) => Blocked(n)'
      BY BlockedStays
    <3> QED BY <2>0, <3>1, <3>6, <3>7, <3>8, <3>9
  <2>3. CASE n \in queue
    <3>1. n = d
      BY <2>0, <2>3
    <3>2. \A f \in queue' : n.year <= f.year
      BY <2>0, <3>1
    <3>3. CASE Outcome(d, Groups(d, r)) = "AVAILABLE"
      <4>1. manifests'[d][r].bars = StagedIn(d.year)
        BY <2>1, <3>3, AvailableIsStaged
      <4>2. native' = r
        BY <2>1, <3>1
      <4>3. IsPublished(n)'
        BY <2>0, <2>1, <3>1, <3>3, <4>1, <4>2 DEF IsPublished, Readable, StagedIn
      <4> QED BY <3>2, <4>3
    <3>4. CASE Outcome(d, Groups(d, r)) # "AVAILABLE"
      <4>1. \/ Groups(d, r) = {} \/ Incident(d)
            \/ Written(Groups(d, r)) # Groups(d, r)
        BY <3>4 DEF Outcome
      <4>2. CASE Groups(d, r) = {}
        <5>1. StagedIn(d.year) = {}
          BY <4>2, GroupsCover
        <5>2. (StagedIn(n.year)') = {}
          BY <2>0, <3>1, <5>1 DEF StagedIn
        <5> QED BY <3>2, <5>2
      <4>3. CASE Incident(d)
        <5>1. Incident(n)'
          BY <2>0, <3>1, <4>3 DEF Incident
        <5> QED BY <3>2, <5>1
      <4>4. CASE Written(Groups(d, r)) # Groups(d, r)
        <5>1. IsLatest(d, latest)'
          BY <2>1, <3>4
        <5>2. Blocked(d)'
          BY <1>1, <2>1, <4>4, <5>1, TakenBlocks
        <5> QED BY <3>1, <3>2, <5>2
      <4> QED BY <4>1, <4>2, <4>3, <4>4
    <3> QED BY <3>3, <3>4
  <2> QED BY <2>2, <2>3
<1>2. CASE EndCollect
  BY <1>2 DEF EndCollect, NativeIsDone
<1>3. ASSUME pc' # "publish" PROVE NativeIsDone'
  BY <1>3 DEF NativeIsDone
<1>4. ASSUME NEW S \in Requests, NEW again \in ResumeFlags, Begin(S, again) PROVE NativeIsDone'
  BY <1>3, <1>4 DEF Begin
<1>5. ASSUME NEW S \in Requests, ReuseRun(S) PROVE NativeIsDone'
  BY <1>3, <1>5 DEF ReuseRun
<1>6. CASE CleanupStaging \/ SkipStaged \/ Fetch \/ FetchFails \/ WriteFragment \/ Finish \/ Dies
  BY <1>3, <1>6 DEF CleanupStaging, SkipStaged, Fetch, FetchFails, WriteFragment, Finish, Dies, End
<1>7. ASSUME NEW d \in Datasets, DiesInPublish(d) PROVE NativeIsDone'
  BY <1>3, <1>7 DEF DiesInPublish, End
<1>8. CASE UNCHANGED vars
  <2>1. UNCHANGED <<pc, queue, native, manifests, staging, failed, store, status>>
    BY <1>8 DEF vars, locals, catalog
  <2>2. \A n : /\ (IsPublished(n)') <=> IsPublished(n)
               /\ (Incident(n)') <=> Incident(n)
               /\ (StagedIn(n.year)') = StagedIn(n.year)
               /\ (Blocked(n)') <=> Blocked(n)
    BY <2>1 DEF IsPublished, Readable, Incident, StagedIn, Blocked, Blocks, IsLatest, Available, StagedOf
  <2> QED BY <2>1, <2>2 DEF NativeIsDone
<1> QED BY <1>1, <1>2, <1>4, <1>5, <1>6, <1>7, <1>8 DEF Next, Command, Step

LEMMA NativeOfType ==
  ASSUME NEW d \in Datasets
  PROVE  /\ NativeOf(d) \in Datasets /\ NativeOf(d).year = d.year
         /\ NativeOf(d).resolution = 0
         /\ d.resolution # 0 => NativeOf(d) # d
<1>1. /\ NativeOf(d).year = d.year /\ NativeOf(d).resolution = 0
      /\ NativeOf(d) = [year |-> d.year, resolution |-> 0]
  BY DEF NativeOf, Datasets
<1>2. DerivedCount \in Nat
  BY BoundsAssumption
<1>3. NativeOf(d) \in Datasets
  BY <1>1, <1>2 DEF Datasets
<1> QED BY <1>1, <1>3

(* A derived dataset that becomes AVAILABLE is made from the native manifest  *)
(* of this call, or its native dataset is blocked.                          *)
LEMMA NewDerived ==
  ASSUME RunInv, StoreIsStaged, NativeIsDone, [Next]_vars,
         NEW d \in Datasets, Publish(d), d.resolution # 0,
         NEW r \in Revisions, Outcome(d, Groups(d, r)) = "AVAILABLE",
         manifests'[d][r].bars = UNION {o.bars : o \in Written(Groups(d, r))},
         manifests'[d][r].source = native,
         manifests'[NativeOf(d)] = manifests[NativeOf(d)]
  PROVE  IsDerivedFromPublished(d, r)' \/ Blocked(NativeOf(d))'
<1> DEFINE n == NativeOf(d)
<1>1. n \in Datasets /\ n.year = d.year /\ n.resolution = 0
  BY NativeOfType
<1>2. /\ pc = "publish" /\ d \in queue
      /\ \A e \in queue : e.year = d.year => d.resolution <= e.resolution
  BY PublishingCall
<1>3. n \notin queue
  <2>1. d.resolution \in Nat /\ DerivedCount \in Nat
    BY BoundsAssumption DEF Datasets
  <2> QED BY <1>1, <1>2, <2>1
<1>4. IsPublished(n) \/ Incident(n) \/ StagedIn(n.year) = {} \/ Blocked(n)
  BY <1>1, <1>2, <1>3 DEF NativeIsDone
<1>5. ~Incident(d) /\ manifests'[d][r].bars = StagedIn(d.year)
  BY AvailableIsStaged
<1>6. ~Incident(n)
  BY <1>1, <1>5 DEF Incident
<1>7. StagedIn(n.year) # {}
  <2>1. Groups(d, r) # {}
    BY DEF Outcome
  <2> QED BY <1>1, <2>1 DEF Groups, StagedIn
<1>8. CASE IsPublished(n)
  <2>1. /\ native \in Revisions /\ Readable(n, native)
        /\ manifests[n][native].bars = StagedIn(n.year)
    BY <1>8 DEF IsPublished
  <2>2. Readable(n, native)'
        <=> manifests'[n][native'].status \in {"AVAILABLE", "SUPERSEDED"}
    BY DEF Readable
  <2>3. manifests'[n] = manifests[n]
    OBVIOUS
  <2>4. manifests'[n][native].status \in {"AVAILABLE", "SUPERSEDED"}
    BY <2>1, <2>3 DEF Readable
  <2>5. manifests'[n][native].bars = manifests'[d][r].bars
    BY <1>1, <1>5, <2>1, <2>3
  <2> QED BY <2>1, <2>4, <2>5 DEF IsDerivedFromPublished, Readable
<1>9. CASE Blocked(n)
  BY <1>1, <1>9, BlockedStays
<1> QED BY <1>4, <1>6, <1>7, <1>8, <1>9

(* What a derived manifest was made from stays what it was.                   *)
LEMMA SourceStays ==
  ASSUME RunInv, NEW d \in Datasets, NEW r \in Revisions,
         IsDerivedFromPublished(d, r),
         manifests'[d][r].bars = manifests[d][r].bars,
         manifests'[d][r].source = manifests[d][r].source,
         \A s \in Revisions : Readable(NativeOf(d), s) =>
            /\ Readable(NativeOf(d), s)'
            /\ manifests'[NativeOf(d)][s].bars = manifests[NativeOf(d)][s].bars
  PROVE  IsDerivedFromPublished(d, r)'
<1> DEFINE s == manifests[d][r].source
<1>1. /\ s \in Revisions /\ Readable(NativeOf(d), s)
      /\ manifests[NativeOf(d)][s].bars = manifests[d][r].bars
  BY DEF IsDerivedFromPublished
<1>2. /\ manifests'[NativeOf(d)][s].status \in {"AVAILABLE", "SUPERSEDED"}
      /\ manifests'[NativeOf(d)][s].bars = manifests'[d][r].bars
  BY <1>1 DEF Readable
<1> QED BY <1>1, <1>2 DEF IsDerivedFromPublished, Readable

LEMMA DerivedStep ==
  ASSUME RunInv, StoreIsStaged, NativeIsDone, DerivedHasSource, [Next]_vars
  PROVE  DerivedHasSource'
<1> SUFFICES ASSUME NEW d \in Datasets, NEW r \in Revisions, d.resolution # 0, Readable(d, r)'
             PROVE  IsDerivedFromPublished(d, r)' \/ Blocked(NativeOf(d))'
  BY DEF DerivedHasSource
<1> DEFINE n == NativeOf(d)
<1>1. n \in Datasets /\ n # d /\ n.resolution = 0
  BY NativeOfType
<1>2. ASSUME Readable(d, r),
             manifests'[d][r].bars = manifests[d][r].bars,
             manifests'[d][r].source = manifests[d][r].source,
             \A s \in Revisions : Readable(n, s) =>
                /\ Readable(n, s)'
                /\ manifests'[n][s].bars = manifests[n][s].bars
      PROVE  IsDerivedFromPublished(d, r)' \/ Blocked(n)'
  <2>1. IsDerivedFromPublished(d, r) \/ Blocked(n)
    BY <1>2 DEF DerivedHasSource
  <2>2. CASE IsDerivedFromPublished(d, r)
    BY <1>2, <2>2, SourceStays
  <2>3. CASE Blocked(n)
    BY <1>1, <2>3, BlockedStays
  <2> QED BY <2>1, <2>2, <2>3
<1>3. ASSUME NEW e \in Datasets, Publish(e)
      PROVE  IsDerivedFromPublished(d, r)' \/ Blocked(n)'
  <2>1. PICK latest \in 0..MaxRevision, q \in Revisions :
            /\ ~Readable(e, q)
            /\ \A f \in Datasets \ {e} : manifests'[f] = manifests[f]
            /\ manifests'[e][q].status = Outcome(e, Groups(e, q))
            /\ manifests'[e][q].bars = UNION {o.bars : o \in Written(Groups(e, q))}
            /\ manifests'[e][q].source = IF e.resolution = 0 THEN 0 ELSE native
            /\ \A v \in Revisions \ {q} :
                  /\ manifests'[e][v].bars = manifests[e][v].bars
                  /\ manifests'[e][v].source = manifests[e][v].source
                  /\ (Readable(e, v)') <=> Readable(e, v)
    BY <1>3, PublishReads
  <2>2. CASE e = d /\ r = q
    <3>1. Outcome(d, Groups(d, r)) = "AVAILABLE"
      <4>1. manifests'[d][r].status \in {"AVAILABLE", "SUPERSEDED"}
        BY DEF Readable
      <4> QED BY <2>1, <2>2, <4>1 DEF Outcome
    <3>2. manifests'[n] = manifests[n]
      BY <1>1, <2>1, <2>2
    <3>3. Publish(d)
      BY <1>3, <2>2
    <3>4. /\ manifests'[d][r].source = native
          /\ manifests'[d][r].bars = UNION {o.bars : o \in Written(Groups(d, r))}
      BY <2>1, <2>2
    <3> QED BY <3>1, <3>2, <3>3, <3>4, NewDerived
  <2>3. CASE e = d /\ r # q
    <3>1. manifests'[n] = manifests[n]
      BY <1>1, <2>1, <2>3
    <3>2. \A s \in Revisions : Readable(n, s) =>
             Readable(n, s)' /\ manifests'[n][s].bars = manifests[n][s].bars
      BY <3>1 DEF Readable
    <3>3. /\ Readable(d, r) /\ manifests'[d][r].bars = manifests[d][r].bars
          /\ manifests'[d][r].source = manifests[d][r].source
      BY <2>1, <2>3
    <3> QED BY <1>2, <3>2, <3>3
  <2>4. CASE e = n
    <3>1. manifests'[d] = manifests[d]
      BY <1>1, <2>1, <2>4
    <3>2. \A s \in Revisions : Readable(n, s) =>
             Readable(n, s)' /\ manifests'[n][s].bars = manifests[n][s].bars
      BY <2>1, <2>4
    <3>3. Readable(d, r)
      BY <3>1 DEF Readable
    <3> QED BY <1>2, <3>1, <3>2, <3>3
  <2>5. CASE e # d /\ e # n
    <3>1. manifests'[d] = manifests[d] /\ manifests'[n] = manifests[n]
      BY <1>1, <2>1, <2>5
    <3>2. \A s \in Revisions : Readable(n, s) =>
             Readable(n, s)' /\ manifests'[n][s].bars = manifests[n][s].bars
      BY <3>1 DEF Readable
    <3>3. Readable(d, r)
      BY <3>1 DEF Readable
    <3> QED BY <1>2, <3>1, <3>2, <3>3
  <2> QED BY <2>2, <2>3, <2>4, <2>5
<1>4. ASSUME NEW e \in Datasets, DiesInPublish(e)
      PROVE  IsDerivedFromPublished(d, r)' \/ Blocked(n)'
  <2>1. \A f \in Datasets, v \in Revisions :
               /\ (Readable(f, v)') <=> Readable(f, v)
               /\ Readable(f, v) => manifests'[f][v] = manifests[f][v]
    BY <1>4, DyingReads
  <2>2. Readable(d, r) /\ manifests'[d][r] = manifests[d][r]
    BY <2>1
  <2>3. \A s \in Revisions : Readable(n, s) =>
           Readable(n, s)' /\ manifests'[n][s].bars = manifests[n][s].bars
    BY <1>1, <2>1
  <2> QED BY <1>2, <2>2, <2>3
<1>5. CASE (~\E e \in Datasets : Publish(e)) /\ (~\E e \in Datasets : DiesInPublish(e))
  <2>1. manifests' = manifests
    BY <1>5, OthersLeaveCatalog
  <2> QED BY <1>2, <2>1 DEF Readable
<1> QED BY <1>3, <1>4, <1>5

(* Every readable derived manifest comes from a readable native manifest made *)
(* of the same bars, except in a year where an incomplete attempt has taken a *)
(* key the native dataset needs: whatever symbols the runs are started for.   *)
THEOREM DerivedAlwaysSourced == Spec => []DerivedUnlessObstructed
<1>1. Init => RunInv /\ DerivedInv
  BY InitRun, InitDerived
<1>2. RunInv /\ DerivedInv /\ [Next]_vars => RunInv' /\ DerivedInv'
  BY RunStep, StoreStep, NativeStep, DerivedStep DEF DerivedInv
<1>3. ASSUME NEW n, Blocked(n) PROVE Obstructed(n)
  BY <1>3 DEF Blocked, Blocks, Obstructed
<1>4. RunInv /\ DerivedInv => DerivedUnlessObstructed
  BY <1>3 DEF DerivedInv, DerivedHasSource, DerivedUnlessObstructed
<1> QED BY <1>1, <1>2, <1>4, PTL DEF Spec
-----------------------------------------------------------------------------
(* Why a call fails.                                                        *)

(* What Alpaca has of the symbols of the call is staged, in hand, still to be  *)
(* fetched, of a chunk that failed, or of a cut one.                         *)
CallCovers ==
    ~cut /\ pc # "idle" =>
        \A f \in Bars : f.symbol \in symbols =>
            \/ f \in staging \/ f \in pending
            \/ f.chunk \in failed \/ JobOf(f) \in todo

(* A call that is flawed so far, although no chunk failed, found a key taken,  *)
(* or a year without files.                                                  *)
FlawHasCause ==
    pc = "publish" /\ flawed =>
        \/ failed # {}
        \/ \E y \in Years : StagedIn(y) = {}
        \/ \E n \in Datasets : Blocked(n)

CauseInv == RunInv /\ StoreIsStaged /\ CallCovers /\ FlawHasCause

(* The chunks of the call are gone through one by one.                       *)
LEMMA CallCoversStep ==
  ASSUME RunInv, CallCovers, [Next]_vars
  PROVE  CallCovers'
<1>0. TypeOK /\ CallShape
  BY DEF RunInv
<1> Bars \subseteq Fragments
  BY BarsAssumption
<1>1. ASSUME NEW S \in Requests, NEW again \in ResumeFlags, Begin(S, again) PROVE CallCovers'
  <2>1. symbols' = S /\ todo' = {j \in Jobs : j.symbol \in S}
    BY <1>1 DEF Begin
  <2>2. \A f \in Bars : f.symbol \in S => JobOf(f) \in todo'
    BY <2>1 DEF JobOf, Jobs, Fragments
  <2> QED BY <2>1, <2>2 DEF CallCovers
<1>2. CASE SkipStaged
  <2>1. PICK j \in todo : /\ todo' = todo \ {j}
                         /\ cut' = (cut \/ ~(OfJob(j, Bars) \subseteq staging))
    BY <1>2 DEF SkipStaged
  <2>2. UNCHANGED <<staging, pending, failed, pc, symbols>>
    BY <1>2 DEF SkipStaged
  <2>3. ~cut' => ~cut /\ OfJob(j, Bars) \subseteq staging
    BY <2>1
  <2>4. \A f \in Bars : JobOf(f) = j => f \in OfJob(j, Bars)
    BY DEF JobOf, OfJob
  <2> QED BY <2>1, <2>2, <2>3, <2>4 DEF CallCovers
<1>3. CASE Fetch
  <2>1. PICK j \in todo : todo' = todo \ {j} /\ pending' = OfJob(j, Bars)
    BY <1>3 DEF Fetch
  <2>2. UNCHANGED <<cut, staging, failed, pc, symbols>> /\ pending = {}
    BY <1>3 DEF Fetch
  <2>3. \A f \in Bars : JobOf(f) = j => f \in OfJob(j, Bars)
    BY DEF JobOf, OfJob
  <2> QED BY <2>1, <2>2, <2>3 DEF CallCovers
<1>4. CASE FetchFails
  <2>1. PICK j \in todo : todo' = todo \ {j} /\ failed' = failed \cup {j.chunk}
    BY <1>4 DEF FetchFails
  <2>2. UNCHANGED <<cut, staging, pending, pc, symbols>>
    BY <1>4 DEF FetchFails
  <2>3. \A f \in Bars : JobOf(f) = j => f.chunk \in failed'
    BY <2>1 DEF JobOf
  <2> QED BY <2>1, <2>2, <2>3 DEF CallCovers
<1>5. CASE WriteFragment
  <2>1. PICK f \in pending : staging' = staging \cup {f} /\ pending' = pending \ {f}
    BY <1>5 DEF WriteFragment
  <2>2. UNCHANGED <<cut, failed, todo, pc, symbols>>
    BY <1>5 DEF WriteFragment
  <2> QED BY <2>1, <2>2 DEF CallCovers
<1>6. CASE EndCollect
  BY <1>6 DEF EndCollect, CallCovers
<1>7. ASSUME NEW d \in Datasets, Publish(d) PROVE CallCovers'
  BY <1>7 DEF Publish, CallCovers
<1>8. ASSUME pc' = "idle" PROVE CallCovers'
  BY <1>8 DEF CallCovers
<1>9. CASE Finish \/ Dies \/ CleanupStaging
  BY <1>8, <1>9 DEF Finish, Dies, CleanupStaging, End
<1>10. ASSUME NEW d \in Datasets, DiesInPublish(d) PROVE CallCovers'
  BY <1>8, <1>10 DEF DiesInPublish, End
<1>11. ASSUME NEW S \in Requests, ReuseRun(S) PROVE CallCovers'
  BY <1>8, <1>11 DEF ReuseRun
<1>12. CASE UNCHANGED vars
  BY <1>12 DEF vars, locals, CallCovers
<1> QED
  BY <1>1, <1>2, <1>3, <1>4, <1>5, <1>6, <1>7, <1>9, <1>10, <1>11, <1>12 DEF Next, Command, Step

(* What keeps publish_dataset from publishing is one of the causes, and stays  *)
(* one for the rest of the call.                                            *)
LEMMA FlawStep ==
  ASSUME RunInv, StoreIsStaged, FlawHasCause, [Next]_vars
  PROVE  FlawHasCause'
<1>0. TypeOK /\ CallShape
  BY DEF RunInv
<1>1. \A n \in Datasets : Blocked(n) => Blocked(n)'
  BY BlockedStays
<1>2. ASSUME NEW d \in Datasets, Publish(d) PROVE FlawHasCause'
  <2>1. /\ pc = "publish" /\ staging' = staging /\ failed' = failed
        /\ \A y : StagedIn(y)' = StagedIn(y)
    BY <1>2 DEF Publish, StagedIn
  <2>2. CASE flawed
    BY <1>1, <2>1, <2>2 DEF FlawHasCause
  <2>3. CASE ~flawed
    <3>1. PICK latest \in 0..MaxRevision, r \in Revisions :
            /\ r = latest + 1
            /\ IF Outcome(d, Groups(d, r)) = "AVAILABLE"
               THEN r \in (Available(d)') /\ (IsLatest(d, r)')
               ELSE (Available(d)') = Available(d) /\ (IsLatest(d, latest)')
            /\ manifests'[d][r].status = Outcome(d, Groups(d, r))
            /\ IsLatest(d, latest)
      BY <1>2, PublishReads
    <3>2. flawed' => Outcome(d, Groups(d, r)) # "AVAILABLE"
      <4>1. PICK l \in 0..MaxRevision : /\ IsLatest(d, l)
              /\ flawed' = (flawed \/ Outcome(d, Groups(d, l + 1)) # "AVAILABLE")
        BY <1>2 DEF Publish
      <4>2. l = latest
        BY <3>1, <4>1, LatestIsOne
      <4> QED BY <2>3, <3>1, <4>1, <4>2, Zenon
    <3>3. CASE Written(Groups(d, r)) # Groups(d, r) /\ flawed'
      <4>1. Blocked(d)'
        BY <1>2, <3>1, <3>2, <3>3, TakenBlocks
      <4> QED BY <4>1 DEF FlawHasCause
    <3>4. CASE Groups(d, r) = {}
      <4>1. StagedIn(d.year) = {}
        <5>1. UNION {o.bars : o \in Groups(d, r)} = StagedIn(d.year)
          BY GroupsCover
        <5> QED BY <3>4, <5>1
      <4>2. d.year \in Years
        BY DEF Datasets
      <4> QED BY <2>1, <4>1, <4>2 DEF FlawHasCause
    <3>5. CASE Incident(d)
      BY <2>1, <3>5 DEF Incident, FlawHasCause
    <3>6. CASE ~flawed'
      BY <3>6 DEF FlawHasCause
    <3> QED BY <3>2, <3>3, <3>4, <3>5, <3>6 DEF Outcome
  <2> QED BY <2>2, <2>3
<1>3. ASSUME pc' # "publish" \/ ~flawed' PROVE FlawHasCause'
  BY <1>3 DEF FlawHasCause
<1>4. CASE EndCollect
  <2>1. ~flawed'
    BY <1>0, <1>4 DEF EndCollect, CallShape
  <2> QED BY <1>3, <2>1
<1>5. CASE UNCHANGED vars
  BY <1>1, <1>5 DEF vars, locals, FlawHasCause, StagedIn
<1>6. CASE Command \/ SkipStaged \/ Fetch \/ FetchFails \/ WriteFragment \/ Finish
           \/ CleanupStaging \/ Dies \/ (\E S \in Requests : ReuseRun(S))
           \/ (\E d \in Datasets : DiesInPublish(d))
  <2>1. pc' # "publish"
    BY <1>6 DEF Command, Begin, SkipStaged, Fetch, FetchFails, WriteFragment, Finish,
                CleanupStaging, Dies, ReuseRun, DiesInPublish, End
  <2> QED BY <1>3, <2>1
<1> QED BY <1>2, <1>4, <1>5, <1>6 DEF Next, Step

(* However often a backfill is repeated, for whatever symbols, a call that      *)
(* ends FAILED although nothing failed while it collected has found one of      *)
(* two things: a year without bars of its symbols, or an object at a key that  *)
(* it needs (finish_pipeline_run, LocalObjectStore.put).                      *)
THEOREM AlwaysFailsForCause == Spec => FailsForCause
<1> DEFINE ForCause == status # "FAILED" /\ status' = "FAILED" =>
               \/ failed # {} \/ cut
               \/ \E y \in Years : \A f \in Bars : f.year = y => f.symbol \notin symbols
               \/ \E d \in Datasets : Obstructed(d)
<1>1. Init => CauseInv
  <2>1. Init => StoreIsStaged
    BY InitDerived DEF DerivedInv
  <2> QED BY <2>1, InitRun DEF Init, CauseInv, CallCovers, FlawHasCause
<1>2. CauseInv /\ [Next]_vars => CauseInv'
  BY RunStep, StoreStep, CallCoversStep, FlawStep DEF CauseInv
<1>3. CauseInv /\ [Next]_vars => [ForCause]_vars
  <2> SUFFICES ASSUME CauseInv, [Next]_vars, status # "FAILED", status' = "FAILED",
                      failed = {}, ~cut
               PROVE  \/ \E y \in Years : \A f \in Bars : f.year = y => f.symbol \notin symbols
                      \/ \E d \in Datasets : Obstructed(d)
    OBVIOUS
  <2>1. Finish
    BY DEF Next, Command, Step, Begin, ReuseRun, CleanupStaging, SkipStaged, Fetch, FetchFails,
           WriteFragment, EndCollect, Publish, DiesInPublish, Dies, vars, catalog
  <2>2. pc = "publish" /\ flawed
    BY <2>1 DEF Finish
  <2>3. CASE \E n \in Datasets : Blocked(n)
    <3>1. PICK n \in Datasets : Blocked(n)
      BY <2>3
    <3>2. Obstructed(n)
      BY <3>1 DEF Blocked, Blocks, Obstructed
    <3> QED BY <3>2
  <2>4. CASE \E y \in Years : StagedIn(y) = {}
    <3>1. PICK y \in Years : StagedIn(y) = {}
      BY <2>4
    <3>2. pending = {} /\ todo = {}
      BY <2>2 DEF CauseInv, RunInv, CallShape
    <3>3. ASSUME NEW f \in Bars, f.year = y PROVE f.symbol \notin symbols
      BY <2>2, <3>1, <3>2, <3>3 DEF CauseInv, CallCovers, StagedIn
    <3> QED BY <3>3
  <2> QED BY <2>2, <2>3, <2>4 DEF CauseInv, FlawHasCause
<1>4. Spec => [][ForCause]_vars
  BY <1>1, <1>2, <1>3, PTL DEF Spec
<1> QED BY <1>4 DEF FailsForCause
=============================================================================
