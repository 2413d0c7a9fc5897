------------------------ MODULE DatasetLifecycleProofs ------------------------
(***************************************************************************)
(* What readers of a dataset once got, and what a SUCCEEDED incremental was  *)
(* for, stays served over any sequence of the pipeline's commands, with any   *)
(* calendar, failures, retries and deaths, unless one of the losses that the  *)
(* model names occurs.  Derived datasets serve what the native one does, and   *)
(* all of them one adjustment of a symbol, unless a command published its      *)
(* datasets differently or a re-adjustment was missed.  The readers of each     *)
(* are given a SnapshotSeries.                                              *)
(***************************************************************************)
EXTENDS DatasetLifecycle, FiniteSetTheorems, WellFoundedInduction, TLAPS

-----------------------------------------------------------------------------
(* What the operator is trusted with: every request is for all instruments,   *)
(* a day already in a longer object is not asked for again (Careful), and the  *)
(* derived datasets are left to the commands that also publish the native one.  *)
Trusted == Careful /\ Requests \subseteq {Symbols} /\ "derive" \notin Commands

-----------------------------------------------------------------------------
(* What the variables hold.                                                 *)
Statuses == {"ABSENT", "QUARANTINED", "AVAILABLE", "SUPERSEDED"}
Manifests == [status : Statuses, objects : SUBSET Objects]
JobParts == [dataset : Datasets, grain : DAY..YEAR, period : SUBSET Days, shard : Shards,
             rows : SUBSET Rows]
Jobs == [key : Keys, symbols : SUBSET Symbols, parts : SUBSET JobParts,
         replaced : SUBSET SUBSET Days, rest : SUBSET Datasets,
         incident : BOOLEAN, flawed : BOOLEAN]
Calls == [days : SUBSET Days, symbols : SUBSET Symbols]

Typed ==
    /\ today \in 0..DayCount /\ feed \in [Symbols -> Versions]
    /\ manifests \in [Datasets -> [Revisions -> Manifests]]
    /\ succeeded \subseteq Keys /\ staging \subseteq [key : Keys, row : Rows]
    /\ failures \in 0..MaxFailures /\ deaths \in 0..MaxDeaths
    /\ told \subseteq Symbols \X Days /\ slips \subseteq Slips
    /\ pc \in {"idle", "collect", "publish"} /\ job \in Jobs /\ waiting \in Calls

(* Rows are of sessions that have ended, in an object of their period and shard. *)
Placed(o) ==
    \A x \in o.rows : x.day \in o.period /\ x.day <= today /\ ShardOf[x.symbol] = o.shard

AllPlaced ==
    /\ \A d \in Datasets, r \in Revisions : \A o \in manifests[d][r].objects : Placed(o)
    /\ \A f \in staging : f.row.day <= today
    /\ pc # "idle" => \A p \in job.parts : Placed(p)

(* The command in progress.  A correction, which an incremental waits for,     *)
(* names its revision, and there is room for what is still to publish.       *)
JobFits ==
    /\ pc = "idle" => waiting = NoCall
    /\ pc # "idle" =>
        /\ job.key.command \in {"incremental", "backfill", "compact", "derive", "migrate"}
        /\ pc = "collect" => job.key.command \in {"incremental", "backfill"}
        /\ job.key.revision < MaxRevision
        /\ \A d \in Datasets : pc = "collect" \/ waiting.days # {} \/ d \in job.rest =>
               Latest(d) < MaxRevision
        /\ waiting.days # {} =>
               /\ job.key.command = "backfill" /\ job.key.revision # 0
               /\ waiting.symbols \in Requests /\ \A x \in waiting.days : x <= today
        /\ job.key.command = "incremental" =>
               /\ job.key = IncrementalKey(job.key.days)
               /\ job.symbols \in Requests /\ \A x \in job.key.days : x <= today
        /\ job.incident => job.flawed
        /\ \A p \in job.parts : p.period \in job.replaced
        /\ \A p, q \in job.parts :
               p.period \cap q.period # {} => p.period = q.period /\ p.grain = q.grain

FitInv == Typed /\ AllPlaced /\ JobFits

-----------------------------------------------------------------------------
NoLoss == slips \cap Losses = {}

(* No revision was built on top of an earlier attempt at it, or of itself. *)
NoReuse == slips \cap {"leaked", "inplace"} = {}

(* Symbols and days that the parts of a dataset hold. *)
PartDays(d) ==
    {<<x.symbol, x.day>> : x \in UNION {p.rows : p \in {q \in job.parts : q.dataset = d}}}

(* Objects that overlap are of the same period. *)
Apart(d) ==
    \A o, q \in Served(d) :
        o.period \cap q.period # {} => o.period = q.period /\ o.grain = q.grain

(* What is served lies in the year that the command publishes anew. *)
InScope(d) ==
    /\ job.key.command = "backfill" =>
           job.symbols = Symbols /\ \A x \in ServedRows(d) : x.day \in job.key.days
    /\ job.key.command = "migrate" => \A x \in ServedRows(d) : x.day \in LegacyDays

(* The parts hold what the command was for; those of compact hold what is      *)
(* served in its period.                                                     *)
PartsHold(d) ==
    IF job.key.command = "compact"
    THEN \A o \in Served(d) :
            o.period \subseteq UNION job.replaced /\ o.period \cap UNION job.replaced # {} =>
                \A x \in o.rows : <<x.symbol, x.day>> \in PartDays(d)
    ELSE job.key.command \in {"incremental", "backfill"} /\ ~job.incident =>
            \A s \in job.symbols, x \in job.key.days : x <= today => <<s, x>> \in PartDays(d)

(* The datasets that are still to publish, and those that are published. *)
ToDo(d) == pc = "collect" \/ (pc = "publish" /\ d \in job.rest)

ServedInv ==
    NoLoss =>
        /\ \A d \in Datasets : Apart(d)
        /\ pc # "idle" => job.key.command # "derive" /\ job.symbols \subseteq Symbols
        /\ \A d \in Datasets : ToDo(d) => InScope(d)
        /\ \A d \in Datasets : pc = "publish" /\ d \in job.rest => PartsHold(d)
        /\ pc = "publish" /\ job.key.command = "incremental" =>
              job.replaced = {{x} : x \in job.key.days}

ToldInv ==
    NoLoss =>
        /\ \A days \in SUBSET Days : IncrementalKey(days) \in succeeded => Symbols \X days \subseteq told
        /\ \A d \in Datasets : told \subseteq ServedDays(d)
        /\ pc = "publish" /\ job.key.command = "incremental" /\ ~job.flawed =>
              \A d \in Datasets \ job.rest : Symbols \X job.key.days \subseteq ServedDays(d)

-----------------------------------------------------------------------------
(* The greatest of some revisions is one of them.                            *)
LEMMA GreatestRevision ==
  ASSUME NEW A \in SUBSET Revisions, A # {}
  PROVE  Max(A) \in A /\ \A x \in A : x <= Max(A)
<1> DEFINE U == {MaxRevision - t : t \in A}
<1>1. MaxRevision \in Nat /\ \A t \in A : t \in Nat /\ t <= MaxRevision
  BY BoundAssumption DEF Revisions
<1>2. U \subseteq Nat /\ U # {}
  <2>1. \A t \in A : MaxRevision - t \in Nat
    BY <1>1
  <2> QED BY <2>1
<1>3. PICK u \in U : \A y \in U : <<y, u>> \notin OpToRel(<, Nat)
  BY <1>2, NatLessThanWellFounded, WFMin, Zenon
<1>4. \A y, z \in Nat : y < z => <<y, z>> \in OpToRel(<, Nat)
  BY DEF OpToRel
<1>5. \A y \in U : ~(y < u)
  BY <1>2, <1>3, <1>4, Zenon
<1>6. PICK x \in A : u = MaxRevision - x
  BY <1>3
<1>7. ASSUME NEW y \in A PROVE x >= y
  <2>1. MaxRevision - y \in U /\ MaxRevision - y \in Nat /\ MaxRevision - x \in Nat
    BY <1>1
  <2>2. ~(MaxRevision - y < MaxRevision - x)
    BY <1>5, <1>6, <2>1
  <2> QED BY <1>1, <2>1, <2>2
<1>8. \A y \in A : x >= y
  BY <1>7
<1>9. Max(A) \in A /\ \A y \in A : Max(A) >= y
  BY <1>8 DEF Max
<1> QED BY <1>1, <1>9

LatestOf(A, l) == IF A = {} THEN l = 0 ELSE l \in A /\ \A x \in A : x <= l

LEMMA LatestIs ==
  ASSUME NEW A \in SUBSET Revisions, NEW l, l = IF A = {} THEN 0 ELSE Max(A)
  PROVE  l \in 0..MaxRevision /\ LatestOf(A, l)
BY GreatestRevision, BoundAssumption DEF LatestOf, Revisions

LEMMA LatestUnique ==
  ASSUME NEW A \in SUBSET Revisions, NEW l, NEW k, LatestOf(A, l), LatestOf(A, k)
  PROVE  k = l
<1>1. CASE A = {}
  BY <1>1 DEF LatestOf
<1>2. CASE A # {}
  <2>1. l \in A /\ k \in A /\ l <= k /\ k <= l
    BY <1>2 DEF LatestOf
  <2>2. l \in Nat /\ k \in Nat
    BY <2>1, BoundAssumption DEF Revisions
  <2> QED BY <2>1, <2>2
<1> QED BY <1>1, <1>2

LEMMA LatestNow ==
  ASSUME NEW d
  PROVE  Available(d) \in SUBSET Revisions /\ Latest(d) \in 0..MaxRevision
         /\ LatestOf(Available(d), Latest(d))
<1>1. Available(d) \in SUBSET Revisions
  BY DEF Available
<1>2. Latest(d) = IF Available(d) = {} THEN 0 ELSE Max(Available(d))
  BY DEF Latest
<1> QED BY <1>1, <1>2, LatestIs

LEMMA LatestThen ==
  ASSUME NEW d
  PROVE  Available(d)' \in SUBSET Revisions /\ Latest(d)' \in 0..MaxRevision
         /\ LatestOf(Available(d)', Latest(d)')
<1>1. Available(d)' \in SUBSET Revisions
  BY DEF Available
<1>2. Latest(d)' = IF Available(d)' = {} THEN 0 ELSE Max(Available(d)')
  BY DEF Latest
<1> QED BY <1>1, <1>2, LatestIs

(* A dataset whose manifests stay is served as before. *)
LEMMA ServedFrame ==
  ASSUME NEW d, manifests'[d] = manifests[d]
  PROVE  /\ Latest(d)' = Latest(d) /\ Served(d)' = Served(d)
         /\ ServedRows(d)' = ServedRows(d) /\ ServedDays(d)' = ServedDays(d)
<1>1. Available(d)' = Available(d)
  BY DEF Available
<1>2. Latest(d)' = Latest(d)
  BY <1>1 DEF Latest
<1>3. Served(d)' = Served(d)
  BY <1>2 DEF Served
<1> QED BY <1>2, <1>3 DEF ServedRows, ServedDays

-----------------------------------------------------------------------------
(* What one publish_dataset call does. *)
Publishing(d, l, r, new, snapshot, good) ==
    /\ d \in job.rest /\ l = Latest(d) /\ r = NextRevision(d) /\ r >= l
    /\ new = {ObjectOf(p, r) : p \in {q \in job.parts : q.dataset = d}}
    /\ snapshot \subseteq Retained(d) \cup new /\ Retained(d) \subseteq snapshot
    /\ good \in BOOLEAN /\ (good => snapshot = Retained(d) \cup new /\ snapshot # {} /\ ~job.incident)
    /\ manifests' = [manifests EXCEPT ![d] = [v \in Revisions |->
           IF v = r
           THEN [status |-> IF ~good THEN "QUARANTINED"
                            ELSE IF r = l THEN "SUPERSEDED" ELSE "AVAILABLE",
                 objects |-> manifests[d][v].objects \cup snapshot]
           ELSE IF v = l /\ good
           THEN [manifests[d][v] EXCEPT !.status = "SUPERSEDED"]
           ELSE manifests[d][v]]]
    /\ job' = [job EXCEPT !.rest = @ \ {d}, !.flawed = @ \/ ~good]
    /\ slips \subseteq slips' /\ slips' \subseteq Slips
    /\ slips' \cap {"leaked", "inplace"} = {} =>
           r # l /\ (good => manifests[d][r].objects \subseteq snapshot)
    /\ slips' \cap Losses = {} /\ good =>
                   /\ \A o \in Served(d) : ~CutBy(o, job.replaced)
                   /\ job.key.command = "migrate" => Legacy \subseteq UNION {o.rows : o \in new}
    /\ \A e \in job.rest : d <= e
    /\ "uneven" \notin slips' => ~Uneven(d, good)

LEMMA PublishIs ==
  ASSUME FitInv, Publish
  PROVE  /\ pc = "publish"
         /\ UNCHANGED <<today, feed, succeeded, staging, bounds, told, pc, waiting>>
         /\ \E d \in Datasets : \E l, r, new, snapshot, good : Publishing(d, l, r, new, snapshot, good)
<1>1. pc = "publish" /\ UNCHANGED <<today, feed, succeeded, staging, bounds, told, pc, waiting>>
  BY DEF Publish
<1> DEFINE R(d) == NextRevision(d)
           New(d) == {ObjectOf(p, R(d)) : p \in {q \in job.parts : q.dataset = d}}
           Written(d) == {o \in New(d) : ~KeyTaken(d, o)}
           Snapshot(d) == Retained(d) \cup Written(d)
           Good(d) == Snapshot(d) # {} /\ Written(d) = New(d) /\ ~job.incident /\ ~Untraceable(d)
<1>2. PICK d \in Datasets :
         /\ IsNextDataset(d) /\ R(d) >= Latest(d)
         /\ manifests' = [manifests EXCEPT ![d] = [v \in Revisions |->
               IF v = R(d)
               THEN [status |-> IF ~Good(d) THEN "QUARANTINED"
                                ELSE IF R(d) = Latest(d) THEN "SUPERSEDED" ELSE "AVAILABLE",
                     objects |-> manifests[d][v].objects \cup Snapshot(d)]
               ELSE IF v = Latest(d) /\ Good(d)
               THEN [manifests[d][v] EXCEPT !.status = "SUPERSEDED"]
               ELSE manifests[d][v]]]
         /\ job' = [job EXCEPT !.rest = @ \ {d}, !.flawed = @ \/ ~Good(d)]
         /\ slips' = slips \cup {x \in {"leaked"} :
                                   Good(d) /\ ~(manifests[d][R(d)].objects \subseteq Snapshot(d))}
                         \cup {x \in {"inplace"} : R(d) = Latest(d)}
                         \cup {x \in {"swept"} :
                                   Good(d) /\ \E o \in Served(d) : CutBy(o, job.replaced)}
                         \cup {x \in {"uneven"} : Uneven(d, Good(d))}
                         \cup {x \in {"partial"} :
                                   Good(d) /\ job.key.command = "migrate"
                                        /\ ~(Legacy \subseteq UNION {o.rows : o \in New(d)})}
  BY DEF Publish
<1> DEFINE G == Good(d)
<1>3. /\ G \in BOOLEAN
      /\ G => Snapshot(d) = Retained(d) \cup New(d) /\ Snapshot(d) # {} /\ ~job.incident
  OBVIOUS
<1>4. Snapshot(d) \subseteq Retained(d) \cup New(d) /\ Retained(d) \subseteq Snapshot(d)
  OBVIOUS
<1>5. d \in job.rest
  BY <1>2 DEF IsNextDataset
<1>6. New(d) = {ObjectOf(p, R(d)) : p \in {q \in job.parts : q.dataset = d}}
  OBVIOUS
<1> HIDE DEF New, Snapshot, Good
<1>7. slips \subseteq slips' /\ slips' \subseteq Slips
  BY <1>2 DEF FitInv, Typed, Slips
<1>10. slips' \cap {"leaked", "inplace"} = {} =>
           R(d) # Latest(d) /\ (G => manifests[d][R(d)].objects \subseteq Snapshot(d))
  <2> HIDE DEF R
  <2> QED BY <1>2
<1>8. slips' \cap Losses = {} /\ G =>
                /\ \A o \in Served(d) : ~CutBy(o, job.replaced)
                /\ job.key.command = "migrate" => Legacy \subseteq UNION {o.rows : o \in New(d)}
  <2> HIDE DEF R
  <2> QED BY <1>2 DEF Losses
<1>9. Publishing(d, Latest(d), R(d), New(d), Snapshot(d), G)
  <2>1. /\ manifests' = [manifests EXCEPT ![d] = [v \in Revisions |->
           IF v = R(d)
           THEN [status |-> IF ~G THEN "QUARANTINED"
                            ELSE IF R(d) = Latest(d) THEN "SUPERSEDED" ELSE "AVAILABLE",
                 objects |-> manifests[d][v].objects \cup Snapshot(d)]
           ELSE IF v = Latest(d) /\ G
           THEN [manifests[d][v] EXCEPT !.status = "SUPERSEDED"]
           ELSE manifests[d][v]]]
        /\ job' = [job EXCEPT !.rest = @ \ {d}, !.flawed = @ \/ ~G]
    BY <1>2
  <2>2. \A e \in job.rest : d <= e
    BY <1>2 DEF IsNextDataset
  <2>3. "uneven" \notin slips' => ~Uneven(d, G)
    <3> HIDE DEF R
    <3> QED BY <1>2
  <2> HIDE DEF G
  <2> QED BY <1>2, <1>3, <1>4, <1>5, <1>6, <1>7, <1>8, <1>10, <2>1, <2>2, <2>3 DEF Publishing
<1> QED BY <1>1, <1>9

LEMMA RevisionFits ==
  ASSUME FitInv, pc = "publish", NEW d \in job.rest, NextRevision(d) >= Latest(d)
  PROVE  /\ d \in Datasets /\ NextRevision(d) \in Revisions /\ Latest(d) < MaxRevision
         /\ waiting.days # {} => NextRevision(d) < MaxRevision
<1>1. d \in Datasets /\ job.key \in Keys
  BY DEF FitInv, Typed, Jobs
<1>2. Latest(d) < MaxRevision /\ job.key.revision < MaxRevision
      /\ (waiting.days # {} => job.key.revision # 0)
  BY <1>1 DEF FitInv, JobFits
<1>3. job.key.revision \in 0..MaxRevision
  BY <1>1 DEF Keys
<1>4. Latest(d) \in 0..MaxRevision /\ MaxRevision \in Nat
  BY LatestNow, BoundAssumption
<1> QED BY <1>1, <1>2, <1>3, <1>4 DEF NextRevision, Revisions

(* The manifests after the call, one by one. *)
LEMMA PublishedManifests ==
  ASSUME FitInv, pc = "publish", NEW d, NEW l, NEW r, NEW new, NEW snapshot, NEW good,
         Publishing(d, l, r, new, snapshot, good)
  PROVE  /\ d \in Datasets /\ r \in Revisions /\ r >= l
         /\ manifests' = [manifests EXCEPT ![d] = manifests'[d]]
         /\ manifests'[d] \in [Revisions -> [status : Statuses, objects : (SUBSET Objects) \cup {manifests[d][r].objects \cup snapshot}]]
         /\ manifests'[d][r].objects = manifests[d][r].objects \cup snapshot
         /\ \A v \in Revisions \ {r} : manifests'[d][v].objects = manifests[d][v].objects
         /\ manifests'[d][r].status = "AVAILABLE" <=> good /\ r # l
         /\ \A v \in Revisions \ {r} : manifests'[d][v].status = "AVAILABLE"
                <=> manifests[d][v].status = "AVAILABLE" /\ ~(good /\ v = l)
<1>1. d \in Datasets /\ r \in Revisions /\ r >= l /\ good \in BOOLEAN
  BY RevisionFits DEF Publishing
<1>2. manifests \in [Datasets -> [Revisions -> Manifests]]
  BY DEF FitInv, Typed
<1> DEFINE M == [v \in Revisions |->
           IF v = r
           THEN [status |-> IF ~good THEN "QUARANTINED"
                            ELSE IF r = l THEN "SUPERSEDED" ELSE "AVAILABLE",
                 objects |-> manifests[d][v].objects \cup snapshot]
           ELSE IF v = l /\ good
           THEN [manifests[d][v] EXCEPT !.status = "SUPERSEDED"]
           ELSE manifests[d][v]]
<1>3. manifests' = [manifests EXCEPT ![d] = M]
  BY DEF Publishing
<1>4. manifests'[d] = M
  <2> HIDE DEF M
  <2> QED BY <1>1, <1>2, <1>3
<1>5. \A v \in Revisions : manifests[d][v] \in Manifests
  BY <1>1, <1>2
<1>6. M[r].objects = manifests[d][r].objects \cup snapshot
      /\ (M[r].status = "AVAILABLE" <=> good /\ r # l)
      /\ M[r].status \in Statuses /\ M[r] = [status |-> M[r].status, objects |-> M[r].objects]
  BY <1>1 DEF Statuses
<1>7. ASSUME NEW v \in Revisions \ {r}
      PROVE  /\ M[v].objects = manifests[d][v].objects /\ M[v] \in Manifests
             /\ M[v].status = "AVAILABLE" <=> manifests[d][v].status = "AVAILABLE" /\ ~(good /\ v = l)
  <2>1. CASE v = l /\ good
    <3>1. M[v] = [manifests[d][v] EXCEPT !.status = "SUPERSEDED"]
      BY <2>1
    <3>2. manifests[d][v] \in Manifests
      BY <1>5
    <3> HIDE DEF M
    <3> QED BY <2>1, <3>1, <3>2 DEF Manifests, Statuses
  <2>2. CASE ~(v = l /\ good)
    <3>1. M[v] = manifests[d][v]
      BY <2>2
    <3> QED BY <1>5, <2>2, <3>1
  <2> QED BY <2>1, <2>2
<1>8. DOMAIN M = Revisions /\ M = [v \in Revisions |-> M[v]]
  OBVIOUS
<1> HIDE DEF M
<1>9. M \in [Revisions -> [status : Statuses, objects : (SUBSET Objects) \cup {manifests[d][r].objects \cup snapshot}]]
  <2>1. ASSUME NEW v \in Revisions
        PROVE  M[v] \in [status : Statuses, objects : (SUBSET Objects) \cup {manifests[d][r].objects \cup snapshot}]
    <3>1. CASE v = r
      BY <1>6, <3>1
    <3>2. CASE v # r
      BY <1>7, <3>2 DEF Manifests
    <3> QED BY <3>1, <3>2
  <2> QED BY <1>8, <2>1
<1>10. manifests' = [manifests EXCEPT ![d] = manifests'[d]]
  BY <1>3, <1>4
<1> QED BY <1>1, <1>4, <1>6, <1>7, <1>9, <1>10

(* The revisions that can be read after it. *)
LEMMA PublishedAvailable ==
  ASSUME FitInv, pc = "publish", NEW d, NEW l, NEW r, NEW new, NEW snapshot, NEW good,
         Publishing(d, l, r, new, snapshot, good)
  PROVE  Available(d)' = (Available(d) \ ({r} \cup {v \in {l} : good}))
                             \cup {v \in {r} : good /\ r # l}
<1>1. /\ r \in Revisions
      /\ manifests'[d][r].status = "AVAILABLE" <=> good /\ r # l
      /\ \A v \in Revisions \ {r} : manifests'[d][v].status = "AVAILABLE"
                <=> manifests[d][v].status = "AVAILABLE" /\ ~(good /\ v = l)
  BY PublishedManifests
<1>2. \A v \in Revisions : v \in Available(d)' <=> manifests'[d][v].status = "AVAILABLE"
  BY DEF Available
<1>3. \A v \in Revisions : v \in Available(d) <=> manifests[d][v].status = "AVAILABLE"
  BY DEF Available
<1>4. Available(d)' \subseteq Revisions /\ Available(d) \subseteq Revisions
  BY DEF Available
<1> QED BY <1>1, <1>2, <1>3, <1>4

LEMMA PublishedRoom ==
  ASSUME FitInv, pc = "publish", NEW d, NEW l, NEW r, NEW new, NEW snapshot, NEW good,
         Publishing(d, l, r, new, snapshot, good), waiting.days # {}
  PROVE  Latest(d)' < MaxRevision
<1>1. r < MaxRevision /\ l < MaxRevision
  BY RevisionFits DEF Publishing
<1>2. Available(d)' \subseteq Available(d) \cup {r}
  BY PublishedAvailable
<1>3. l = Latest(d)
  BY DEF Publishing
<1>4. \A x \in Available(d) : x <= l
  BY <1>3, LatestNow DEF LatestOf
<1>5. Latest(d)' = 0 \/ Latest(d)' \in Available(d)'
  BY LatestThen DEF LatestOf
<1>6. \A x \in Available(d) : x \in Nat
  BY BoundAssumption DEF Available, Revisions
<1>7. l \in Nat /\ MaxRevision \in Nat
  BY <1>3, LatestNow, BoundAssumption
<1> QED BY <1>1, <1>2, <1>4, <1>5, <1>6, <1>7

(* What a reader gets after it. *)
LEMMA PublishedServed ==
  ASSUME FitInv, pc = "publish", NEW d, NEW l, NEW r, NEW new, NEW snapshot, NEW good,
         Publishing(d, l, r, new, snapshot, good), NoReuse'
  PROVE  Served(d)' = IF good THEN Retained(d) \cup new ELSE Served(d)
<1>1. /\ d \in Datasets /\ r \in Revisions /\ r >= l
      /\ manifests'[d][r].objects = manifests[d][r].objects \cup snapshot
      /\ \A v \in Revisions \ {r} : manifests'[d][v].objects = manifests[d][v].objects
  BY PublishedManifests
<1>2. /\ l = Latest(d) /\ r # l /\ good \in BOOLEAN
      /\ good => snapshot = Retained(d) \cup new /\ manifests[d][r].objects \subseteq snapshot
  BY DEF Publishing, NoReuse
<1>3. l \in 0..MaxRevision /\ LatestOf(Available(d), l) /\ MaxRevision \in Nat
      /\ Available(d) \subseteq Revisions
  BY <1>2, LatestNow, BoundAssumption
<1>4. r \in Nat /\ r > l
  BY <1>1, <1>2, <1>3 DEF Revisions
<1>5. r \notin Available(d)
  BY <1>1, <1>3, <1>4 DEF LatestOf
<1>6. CASE good
  <2>1. Available(d)' = (Available(d) \ {l}) \cup {r}
    <3>1. Available(d)' = (Available(d) \ ({r} \cup {v \in {l} : good}))
                              \cup {v \in {r} : good /\ r # l}
      BY PublishedAvailable
    <3> QED BY <1>2, <1>5, <1>6, <3>1
  <2>2. \A x \in Available(d)' : x <= r
    <3>1. \A x \in Available(d) : x \in Nat /\ x <= l
      BY <1>3 DEF LatestOf, Revisions
    <3> QED BY <1>3, <1>4, <2>1, <3>1
  <2>3. LatestOf(Available(d)', r)
    BY <2>1, <2>2 DEF LatestOf
  <2>4. Latest(d)' = r
    BY <2>3, LatestThen, LatestUnique
  <2>5. Served(d)' = IF Latest(d)' = 0 THEN {} ELSE manifests'[d][Latest(d)'].objects
    BY DEF Served
  <2>6. r # 0
    BY <1>3, <1>4
  <2> QED BY <1>1, <1>2, <1>6, <2>4, <2>5, <2>6
<1>7. CASE ~good
  <2>1. Available(d)' = Available(d)
    BY <1>5, <1>7, PublishedAvailable
  <2>2. Latest(d)' = Latest(d)
    BY <2>1 DEF Latest
  <2>3. l # 0 => l \in Revisions
    BY <1>3 DEF Revisions
  <2>4. l # 0 => manifests'[d][l].objects = manifests[d][l].objects
    BY <1>1, <1>2, <1>7, <2>3
  <2> QED BY <1>2, <1>7, <2>2, <2>4 DEF Served
<1> QED BY <1>2, <1>6, <1>7

-----------------------------------------------------------------------------
(* The objects that rows are grouped into. *)
LEMMA PartsAre ==
  ASSUME NEW d \in Datasets, NEW grain \in DAY..YEAR, NEW period \in SUBSET Days,
         NEW rows \in SUBSET Rows
  PROVE  /\ \A p \in Parts(d, grain, period, rows) :
               /\ p \in JobParts /\ p.dataset = d /\ p.grain = grain /\ p.period = period
               /\ \A x \in p.rows : x \in rows /\ x.day \in period /\ ShardOf[x.symbol] = p.shard
         /\ \A x \in rows : x.day \in period =>
               \E p \in Parts(d, grain, period, rows) : x \in p.rows
<1> DEFINE inside == {r \in rows : r.day \in period}
           shards == {ShardOf[r.symbol] : r \in inside}
           Part(k) == [dataset |-> d, grain |-> grain, period |-> period, shard |-> k,
                       rows |-> {r \in inside : ShardOf[r.symbol] = k}]
<1>1. Parts(d, grain, period, rows) = {Part(k) : k \in shards}
  BY DEF Parts
<1>2. shards \subseteq Shards
  BY DEF Shards, Rows
<1>3. ASSUME NEW k \in shards
      PROVE  /\ Part(k) \in JobParts /\ Part(k).dataset = d /\ Part(k).grain = grain
             /\ Part(k).period = period
             /\ \A x \in Part(k).rows : x \in rows /\ x.day \in period /\ ShardOf[x.symbol] = k
             /\ Part(k).shard = k
  <2>1. {r \in inside : ShardOf[r.symbol] = k} \in SUBSET Rows /\ k \in Shards
    BY <1>2
  <2> HIDE DEF inside, shards
  <2>2. Part(k) \in JobParts
    BY <2>1 DEF JobParts
  <2> QED BY <2>2 DEF inside
<1>4. ASSUME NEW x \in rows, x.day \in period
      PROVE  ShardOf[x.symbol] \in shards /\ x \in Part(ShardOf[x.symbol]).rows
  BY <1>4
<1> HIDE DEF Part, shards
<1> QED BY <1>1, <1>3, <1>4

LEMMA YearPartsAre ==
  ASSUME NEW D \in SUBSET Datasets, NEW rows \in SUBSET Rows
  PROVE  /\ \A p \in YearParts(D, rows) :
               /\ p \in JobParts /\ p.dataset \in D /\ p.grain = YEAR /\ p.period = Days
               /\ \A x \in p.rows : x \in rows /\ x.day \in p.period /\ ShardOf[x.symbol] = p.shard
         /\ \A d \in D, x \in rows :
               \E p \in YearParts(D, rows) : p.dataset = d /\ x \in p.rows
<1>1. YEAR \in DAY..YEAR /\ Days \in SUBSET Days /\ \A x \in rows : x.day \in Days
  BY DEF DAY, YEAR, Rows
<1>2. ASSUME NEW d \in D
      PROVE  /\ \A p \in Parts(d, YEAR, Days, rows) :
                   /\ p \in JobParts /\ p.dataset = d /\ p.grain = YEAR /\ p.period = Days
                   /\ \A x \in p.rows : x \in rows /\ x.day \in p.period /\ ShardOf[x.symbol] = p.shard
             /\ \A x \in rows : \E p \in Parts(d, YEAR, Days, rows) : x \in p.rows
  <2>1. d \in Datasets
    OBVIOUS
  <2> QED BY <1>1, <2>1, PartsAre
<1>3. \A p : p \in YearParts(D, rows) <=> \E d \in D : p \in Parts(d, YEAR, Days, rows)
  BY DEF YearParts
<1> QED BY <1>2, <1>3

OneDay(period, days) == \E x \in days : period = {x}

LEMMA DayPartsAre ==
  ASSUME NEW days \in SUBSET Days, NEW rows \in SUBSET Rows
  PROVE  /\ \A p \in DayParts(days, rows) :
               /\ p \in JobParts /\ p.grain = DAY /\ OneDay(p.period, days)
               /\ \A x \in p.rows : x \in rows /\ x.day \in p.period /\ ShardOf[x.symbol] = p.shard
         /\ \A d \in Datasets, x \in rows : x.day \in days =>
               \E p \in DayParts(days, rows) : p.dataset = d /\ x \in p.rows
<1>1. DAY \in DAY..YEAR
  BY DEF DAY, YEAR
<1>2. ASSUME NEW d \in Datasets, NEW y \in days
      PROVE  /\ \A p \in Parts(d, DAY, {y}, rows) :
                   /\ p \in JobParts /\ p.dataset = d /\ p.grain = DAY /\ p.period = {y}
                   /\ \A x \in p.rows : x \in rows /\ x.day \in p.period /\ ShardOf[x.symbol] = p.shard
             /\ \A x \in rows : x.day = y => \E p \in Parts(d, DAY, {y}, rows) : x \in p.rows
  <2>1. {y} \in SUBSET Days
    OBVIOUS
  <2> QED BY <1>1, <2>1, PartsAre
<1> DEFINE Q(d, y) == Parts(d, DAY, {y}, rows)
<1>3. DayParts(days, rows) = UNION {Q(d, x) : d \in Datasets, x \in days}
  BY DEF DayParts
<1>4. \A d \in Datasets, y \in days : Q(d, y) = Parts(d, DAY, {y}, rows)
  OBVIOUS
<1> HIDE DEF Q
<1>7. \A p \in DayParts(days, rows) : \E d \in Datasets, y \in days : p \in Q(d, y)
  BY <1>3
<1>8. \A d \in Datasets, y \in days : Q(d, y) \subseteq DayParts(days, rows)
  BY <1>3
<1>5. ASSUME NEW p \in DayParts(days, rows)
      PROVE  /\ p \in JobParts /\ p.grain = DAY /\ OneDay(p.period, days)
             /\ \A x \in p.rows : x \in rows /\ x.day \in p.period /\ ShardOf[x.symbol] = p.shard
  <2>1. PICK d \in Datasets, y \in days : p \in Q(d, y)
    BY <1>7
  <2>2. p \in Parts(d, DAY, {y}, rows)
    BY <1>4, <2>1
  <2> QED BY <1>2, <2>2 DEF OneDay
<1>6. ASSUME NEW d \in Datasets, NEW x \in rows, x.day \in days
      PROVE  \E p \in DayParts(days, rows) : p.dataset = d /\ x \in p.rows
  <2>1. PICK p \in Parts(d, DAY, {x.day}, rows) : x \in p.rows
    BY <1>2, <1>6
  <2>2. p \in DayParts(days, rows)
    BY <1>4, <1>6, <1>8, <2>1
  <2> QED BY <1>2, <1>6, <2>1, <2>2
<1> QED BY <1>5, <1>6

-----------------------------------------------------------------------------
LEMMA RoomForAll ==
  ASSUME HasRoom
  PROVE  \A d \in Datasets : Latest(d) \in Nat /\ Latest(d) + 1 < MaxRevision /\ Latest(d) < MaxRevision
BY LatestNow, BoundAssumption DEF HasRoom

LEMMA ServedAll ==
  ASSUME UNCHANGED manifests
  PROVE  /\ \A d \in Datasets : Latest(d)' = Latest(d) /\ Served(d)' = Served(d)
         /\ \A d \in Datasets : ServedRows(d)' = ServedRows(d) /\ ServedDays(d)' = ServedDays(d)
BY ServedFrame

(* What is served are objects of the dataset's manifests. *)
LEMMA ServedTyped ==
  ASSUME FitInv, NEW d \in Datasets
  PROVE  /\ Served(d) \subseteq Objects /\ \A o \in Served(d) : Placed(o)
         /\ ServedRows(d) \subseteq Rows /\ \A x \in ServedRows(d) : x.day <= today
<1>1. Latest(d) \in 0..MaxRevision
  BY LatestNow
<1>2. Latest(d) = 0 \/ Latest(d) \in Revisions
  BY <1>1, BoundAssumption DEF Revisions
<1>3. Served(d) \subseteq Objects /\ \A o \in Served(d) : Placed(o)
  BY <1>2 DEF FitInv, Typed, AllPlaced, Served, Manifests
<1>4. \A o \in Served(d) : o.rows \subseteq Rows
  BY <1>3 DEF Objects
<1> QED BY <1>3, <1>4 DEF ServedRows, Placed

LEMMA IdleTyped == NoKey \in Keys /\ NoJob \in Jobs /\ NoCall \in Calls
<1>1. 0 \in 0..MaxRevision /\ 0 \in Datasets /\ 0 \in DAY..YEAR
  BY BoundAssumption, CallAssumption DEF Datasets, DAY, YEAR
<1>2. NoKey \in Keys
  BY <1>1 DEF NoKey, Keys, DAY
<1>3. NoJob \in Jobs
  BY <1>2 DEF NoJob, Jobs
<1>4. NoCall \in Calls
  BY DEF NoCall, Calls
<1> QED BY <1>2, <1>3, <1>4

(* The job of a command that collects, of one that publishes what there is,  *)
(* and of the first once its bars are collected.                            *)
Begun(k, symbols) == [NoJob EXCEPT !.key = k, !.symbols = symbols]
Made(k, parts, replaced, rest) ==
    [NoJob EXCEPT !.key = k, !.parts = parts, !.replaced = replaced, !.rest = rest]
Failed(J, flawed) == [J EXCEPT !.flawed = flawed]
Collected(J, parts, replaced, incident) ==
    [J EXCEPT !.parts = parts, !.replaced = replaced, !.rest = Datasets,
              !.incident = incident, !.flawed = incident]

LEMMA JobBegun ==
  ASSUME NEW k \in Keys, NEW symbols \in SUBSET Symbols
  PROVE  /\ Begun(k, symbols) \in Jobs /\ Begun(k, symbols).key = k
         /\ Begun(k, symbols).symbols = symbols /\ Begun(k, symbols).parts = {}
         /\ ~Begun(k, symbols).incident
<1>1. NoJob \in Jobs
  BY IdleTyped
<1>2. NoJob.parts = {} /\ ~NoJob.incident
  BY DEF NoJob
<1> QED BY <1>1, <1>2 DEF Jobs, Begun

IsJob(J, k, parts, replaced, rest) ==
    /\ J \in Jobs /\ J.key = k /\ J.symbols = {} /\ J.parts = parts /\ J.replaced = replaced
    /\ J.rest = rest /\ ~J.incident

LEMMA JobMade ==
  ASSUME NEW k \in Keys, NEW parts \in SUBSET JobParts, NEW replaced \in SUBSET SUBSET Days,
         NEW rest \in SUBSET Datasets
  PROVE  IsJob(Made(k, parts, replaced, rest), k, parts, replaced, rest)
<1>1. NoJob \in Jobs
  BY IdleTyped
<1>2. NoJob.symbols = {} /\ ~NoJob.incident
  BY DEF NoJob
<1> QED BY <1>1, <1>2 DEF Jobs, Made, IsJob

LEMMA JobFailed ==
  ASSUME NEW J \in Jobs, NEW flawed \in BOOLEAN, NEW K, K = Failed(J, flawed)
  PROVE  /\ K \in Jobs /\ K.key = J.key /\ K.symbols = J.symbols /\ K.parts = J.parts
         /\ K.replaced = J.replaced /\ K.rest = J.rest /\ K.incident = J.incident
BY DEF Jobs, Failed

LEMMA JobCollected ==
  ASSUME NEW K \in Jobs, NEW parts \in SUBSET JobParts, NEW replaced \in SUBSET SUBSET Days,
         NEW incident \in BOOLEAN, NEW J, J = Collected(K, parts, replaced, incident)
  PROVE  /\ J \in Jobs /\ J.key = K.key /\ J.symbols = K.symbols /\ J.parts = parts
         /\ J.replaced = replaced /\ J.rest = Datasets
         /\ J.incident = incident /\ J.flawed = incident
BY DEF Jobs, Collected

LEMMA KeysTyped ==
  /\ \A days \in SUBSET Days : IncrementalKey(days) \in Keys
  /\ \A days \in SUBSET Days, r \in 0..MaxRevision : BackfillKey(r, days) \in Keys
  /\ \A d \in Datasets, grain \in DAY..YEAR, days \in SUBSET Days : CompactKey(d, grain, days) \in Keys
  /\ DeriveKey \in Keys /\ MigrateKey \in Keys
  /\ \A d \in Datasets : MigrateFiles(d) \in Keys
<1>1. 0 \in 0..MaxRevision /\ 0 \in Datasets /\ DAY \in DAY..YEAR /\ YEAR \in DAY..YEAR
  BY BoundAssumption, CallAssumption DEF Datasets, DAY, YEAR
<1>2. DeriveKey = [command |-> "derive", revision |-> 0, dataset |-> 0, grain |-> YEAR, days |-> {}]
  BY DEF DeriveKey, NoKey
<1>3. MigrateKey = [command |-> "migrate", revision |-> 0, dataset |-> 0, grain |-> YEAR, days |-> {}]
  <2> DEFINE K == [NoKey EXCEPT !.command = "migrate"]
  <2>1. K = [command |-> "migrate", revision |-> 0, dataset |-> 0, grain |-> DAY, days |-> {}]
    BY DEF NoKey
  <2>2. MigrateKey = [K EXCEPT !.grain = YEAR]
    BY Zenon DEF MigrateKey, NoKey
  <2> HIDE DEF K
  <2> QED BY <2>1, <2>2
<1>4. \A d : MigrateFiles(d) = [command |-> "migrate", revision |-> 0, dataset |-> d, grain |-> YEAR, days |-> {}]
  BY <1>3 DEF MigrateFiles
<1> HIDE DEF NoKey
<1>5. \A days \in SUBSET Days : IncrementalKey(days) \in Keys
  BY <1>1 DEF IncrementalKey, Keys
<1>6. \A days \in SUBSET Days, r \in 0..MaxRevision : BackfillKey(r, days) \in Keys
  BY <1>1 DEF BackfillKey, Keys
<1>7. \A d \in Datasets, grain \in DAY..YEAR, days \in SUBSET Days : CompactKey(d, grain, days) \in Keys
  BY <1>1 DEF CompactKey, Keys
<1>8. DeriveKey \in Keys /\ MigrateKey \in Keys /\ \A d \in Datasets : MigrateFiles(d) \in Keys
  BY <1>1, <1>2, <1>3, <1>4 DEF Keys
<1> QED BY <1>5, <1>6, <1>7, <1>8

-----------------------------------------------------------------------------
(* FitInv holds at first, and each step keeps it. *)
LEMMA PlacedStep ==
  ASSUME FitInv, UNCHANGED <<today, manifests>>,
         \A f \in staging' : f \in staging \/ f.row.day <= today,
         pc' # "idle" => \A p \in job'.parts : Placed(p)
  PROVE  AllPlaced'
<1>1. \A o : Placed(o)' <=> Placed(o)
  BY DEF Placed
<1>2. \A d \in Datasets, r \in Revisions : \A o \in manifests'[d][r].objects : Placed(o)'
  BY <1>1 DEF FitInv, AllPlaced
<1>3. \A f \in staging' : f.row.day <= today'
  BY DEF FitInv, AllPlaced
<1>4. pc' # "idle" => \A p \in job'.parts : Placed(p)'
  BY <1>1
<1> QED BY <1>2, <1>3, <1>4 DEF AllPlaced

LEMMA FitEnd ==
  ASSUME FitInv, End, UNCHANGED <<today, manifests>>, staging' \subseteq staging
  PROVE  job' \in Jobs /\ waiting' \in Calls /\ pc' = "idle" /\ AllPlaced' /\ JobFits'
<1>1. pc' = "idle" /\ job' = NoJob /\ waiting' = NoCall
  BY DEF End
<1>2. AllPlaced'
  BY <1>1, PlacedStep
<1> QED BY <1>1, <1>2, IdleTyped DEF JobFits

LEMMA FitCollecting ==
  ASSUME FitInv, NEW key \in Keys, NEW symbols \in SUBSET Symbols, Collecting(key, symbols),
         key.command \in {"incremental", "backfill"}, key.revision < MaxRevision,
         \A d \in Datasets : Latest(d) < MaxRevision,
         waiting'.days # {} =>
             /\ key.command = "backfill" /\ key.revision # 0
             /\ waiting'.symbols \in Requests /\ \A x \in waiting'.days : x <= today,
         key.command = "incremental" =>
             /\ key = IncrementalKey(key.days)
             /\ symbols \in Requests /\ \A x \in key.days : x <= today,
         UNCHANGED <<today, manifests>>, staging' \subseteq staging
  PROVE  job' \in Jobs /\ pc' = "collect" /\ AllPlaced' /\ JobFits'
<1>1. pc' = "collect" /\ job' = Begun(key, symbols)
  BY DEF Collecting, Begun
<1>2. /\ job' \in Jobs /\ job'.key = key /\ job'.symbols = symbols /\ job'.parts = {}
      /\ ~job'.incident
  BY <1>1, JobBegun
<1>3. AllPlaced'
  BY <1>2, PlacedStep
<1>4. \A d \in Datasets : Latest(d)' < MaxRevision
  BY ServedAll
<1>5. JobFits'
  BY <1>1, <1>2, <1>4 DEF JobFits, IncrementalKey
<1> QED BY <1>1, <1>2, <1>3, <1>5

LEMMA FitFirst == Init => FitInv
<1> SUFFICES ASSUME Init PROVE FitInv
  OBVIOUS
<1>1. manifests = [d \in Datasets |-> [r \in Revisions |-> NoManifest]]
  BY DEF Init
<1>2. NoManifest \in Manifests /\ NoManifest.objects = {}
  BY DEF NoManifest, Manifests, Statuses
<1>3. Typed
  BY <1>1, <1>2, BoundAssumption, IdleTyped DEF Init, Typed, Versions
<1>4. AllPlaced
  BY <1>1, <1>2 DEF Init, AllPlaced
<1>5. JobFits
  BY DEF Init, JobFits
<1> QED BY <1>3, <1>4, <1>5 DEF FitInv

LEMMA FitStutter == FitInv /\ UNCHANGED vars => FitInv'
<1> SUFFICES ASSUME FitInv, UNCHANGED vars PROVE FitInv'
  OBVIOUS
<1>1. UNCHANGED <<today, feed, manifests, succeeded, staging, failures, deaths, told, slips, pc, job, waiting>>
  BY DEF vars, bounds, history
<1>2. Typed'
  BY <1>1 DEF FitInv, Typed
<1>3. AllPlaced'
  BY <1>1, PlacedStep DEF FitInv, AllPlaced
<1>4. \A d \in Datasets : Latest(d)' = Latest(d)
  BY <1>1, ServedAll
<1>5. \A days : IncrementalKey(days)' = IncrementalKey(days)
  BY DEF IncrementalKey
<1>6. JobFits'
  BY <1>1, <1>4, <1>5 DEF FitInv, JobFits
<1> QED BY <1>2, <1>3, <1>6 DEF FitInv

LEMMA FitNextDay == FitInv /\ NextDay => FitInv'
<1> SUFFICES ASSUME FitInv, NextDay PROVE FitInv'
  OBVIOUS
<1>1. /\ pc = "idle" /\ today < DayCount /\ today' = today + 1
      /\ UNCHANGED <<feed, manifests, succeeded, staging, failures, deaths, told, slips, pc, job, waiting>>
  BY DEF NextDay, bounds, history
<1>2. Typed'
  BY <1>1, BoundAssumption DEF FitInv, Typed
<1>3. \A x \in Rows : x.day <= today => x.day <= today'
  BY <1>1 DEF FitInv, Typed, Rows, Days
<1>4. \A o : o.rows \subseteq Rows /\ Placed(o) => Placed(o)'
  BY <1>3 DEF Placed
<1>5. \A d \in Datasets, r \in Revisions : \A o \in manifests[d][r].objects : o.rows \subseteq Rows
  BY DEF FitInv, Typed, Manifests, Objects
<1>6. \A d \in Datasets, r \in Revisions : \A o \in manifests'[d][r].objects : Placed(o)'
  BY <1>1, <1>4, <1>5 DEF FitInv, AllPlaced
<1>7. \A f \in staging' : f.row.day <= today'
  BY <1>1, <1>3 DEF FitInv, Typed, AllPlaced
<1>8. AllPlaced'
  BY <1>1, <1>6, <1>7 DEF AllPlaced
<1>9. JobFits'
  BY <1>1 DEF FitInv, JobFits
<1> QED BY <1>2, <1>8, <1>9 DEF FitInv

LEMMA FitSplit == ASSUME NEW s \in Symbols PROVE FitInv /\ Split(s) => FitInv'
<1> SUFFICES ASSUME FitInv, Split(s) PROVE FitInv'
  OBVIOUS
<1>1. /\ feed[s] < MaxVersion /\ feed' = [feed EXCEPT ![s] = @ + 1]
      /\ slips' = IF pc = "idle" THEN slips ELSE slips \cup {"raced"}
      /\ UNCHANGED <<today, manifests, succeeded, staging, failures, deaths, told, pc, job, waiting>>
  BY DEF Split, bounds
<1>2. feed' \in [Symbols -> Versions]
  BY <1>1, BoundAssumption DEF FitInv, Typed, Versions
<1>3. slips' \subseteq Slips
  BY <1>1 DEF FitInv, Typed, Slips
<1>4. Typed'
  BY <1>1, <1>2, <1>3 DEF FitInv, Typed
<1>5. AllPlaced'
  BY <1>1, PlacedStep DEF FitInv, AllPlaced
<1>6. \A d \in Datasets : Latest(d)' = Latest(d)
  BY <1>1, ServedAll
<1>7. \A days : IncrementalKey(days)' = IncrementalKey(days)
  BY DEF IncrementalKey
<1>8. JobFits'
  BY <1>1, <1>6, <1>7 DEF FitInv, JobFits
<1> QED BY <1>4, <1>5, <1>8 DEF FitInv

(* The call of an incremental, or the one that goes on after a correction.     *)
LEMMA FitEnter ==
  ASSUME FitInv, NEW days \in SUBSET Days, NEW symbols \in Requests,
         EnterIncremental(days, symbols), \A x \in days : x <= today,
         \A d \in Datasets : Latest(d) < MaxRevision, 0 < MaxRevision,
         UNCHANGED <<today, manifests>>, staging' \subseteq staging
  PROVE  /\ job' \in Jobs /\ waiting' \in Calls /\ pc' \in {"idle", "collect", "publish"}
         /\ AllPlaced' /\ JobFits' /\ told' \subseteq Symbols \X Days
<1>1. symbols \in SUBSET Symbols /\ told \subseteq Symbols \X Days
  BY CallAssumption DEF FitInv, Typed
<1>2. CASE IncrementalKey(days) \in succeeded
  BY <1>1, <1>2, FitEnd DEF EnterIncremental, Told
<1>3. CASE IncrementalKey(days) \notin succeeded
  <2>1. Collecting(IncrementalKey(days), symbols) /\ waiting' = NoCall /\ told' = told
    BY <1>3 DEF EnterIncremental
  <2>2. waiting' \in Calls /\ waiting'.days = {}
    BY <2>1, IdleTyped DEF NoCall
  <2>3. IncrementalKey(days) \in Keys
    BY KeysTyped
  <2>4. /\ IncrementalKey(days).command = "incremental" /\ IncrementalKey(days).revision = 0
        /\ IncrementalKey(days).days = days
    BY DEF IncrementalKey
  <2>5. job' \in Jobs /\ pc' = "collect" /\ AllPlaced' /\ JobFits'
    BY <1>1, <2>1, <2>2, <2>3, <2>4, FitCollecting
  <2> QED BY <1>1, <2>1, <2>2, <2>5
<1> QED BY <1>2, <1>3

LEMMA FailuresFit ==
  ASSUME NEW n, failures' = failures + n, failures + n <= MaxFailures, n \in Nat, FitInv
  PROVE  failures' \in 0..MaxFailures
BY BoundAssumption DEF FitInv, Typed

LEMMA SymbolsFinite ==
  ASSUME NEW S \in SUBSET Symbols
  PROVE  Cardinality(S) \in Nat
<1>1. 1 \in Int /\ SymbolCount \in Int
  BY BoundAssumption
<1>2. IsFiniteSet(Symbols)
  BY <1>1, FS_Interval DEF Symbols
<1>3. IsFiniteSet(S)
  BY <1>2, FS_Subset
<1> QED BY <1>3, FS_CardinalityType

LEMMA FilesFinite ==
  ASSUME NEW S \in SUBSET (Datasets \X Symbols)
  PROVE  Cardinality(S) \in Nat
<1>1. 0 \in Int /\ 1 \in Int /\ SymbolCount \in Int /\ DerivedCount \in Int
  BY BoundAssumption, CallAssumption
<1>2. IsFiniteSet(Symbols) /\ IsFiniteSet(Datasets)
  BY <1>1, FS_Interval DEF Symbols, Datasets
<1>3. IsFiniteSet(Datasets \X Symbols)
  BY <1>2, FS_Product
<1>4. IsFiniteSet(S)
  BY <1>3, FS_Subset
<1> QED BY <1>4, FS_CardinalityType

LEMMA FitIncremental ==
  ASSUME NEW days \in SessionRanges, NEW symbols \in Requests
  PROVE  FitInv /\ Incremental(days, symbols) => FitInv'
<1> SUFFICES ASSUME FitInv, Incremental(days, symbols) PROVE FitInv'
  OBVIOUS
<1>1. /\ pc = "idle" /\ HasRoom /\ \A x \in days : x <= today
      /\ UNCHANGED <<today, feed, manifests, succeeded, staging, deaths>>
  BY DEF Incremental
<1>2. PICK unfetched \in SUBSET symbols :
        /\ failures + Cardinality(unfetched) <= MaxFailures
        /\ failures' = failures + Cardinality(unfetched)
        /\ IF Detected(days, symbols \ unfetched)
           THEN /\ Collecting(BackfillKey(Latest(0) + 1, Days), Symbols)
                /\ waiting' = [days |-> days, symbols |-> symbols]
                /\ UNCHANGED history
           ELSE /\ EnterIncremental(days, symbols)
                /\ slips' = slips
                      \cup {x \in {"unfetched"} : unfetched # {}}
                      \cup {x \in {"gap"} : \E s \in Symbols : OutOfSight(days, s)}
  BY DEF Incremental
<1>3. days \in SUBSET Days /\ symbols \in SUBSET Symbols /\ 0 \in Datasets
  BY CallAssumption DEF Datasets
<1>4. \A d \in Datasets : Latest(d) \in Nat /\ Latest(d) + 1 < MaxRevision /\ Latest(d) < MaxRevision
  BY <1>1, RoomForAll
<1>5. failures' \in 0..MaxFailures
  BY <1>2, <1>3, FailuresFit, SymbolsFinite
<1>6. slips' \subseteq Slips
  BY <1>2 DEF FitInv, Typed, Slips, history
<1>7. MaxRevision \in Nat /\ 0 < MaxRevision /\ Latest(0) + 1 \in 0..MaxRevision
      /\ Latest(0) + 1 # 0
  BY <1>3, <1>4, BoundAssumption
<1>8. CASE Detected(days, symbols \ unfetched)
  <2>1. /\ Collecting(BackfillKey(Latest(0) + 1, Days), Symbols)
        /\ waiting' = [days |-> days, symbols |-> symbols] /\ told' = told
    BY <1>2, <1>8 DEF history
  <2>2. waiting' \in Calls /\ waiting'.symbols \in Requests /\ \A x \in waiting'.days : x <= today
    BY <1>1, <1>3, <2>1 DEF Calls
  <2>3. BackfillKey(Latest(0) + 1, Days) \in Keys
    BY <1>7, KeysTyped
  <2>4. /\ BackfillKey(Latest(0) + 1, Days).command = "backfill"
        /\ BackfillKey(Latest(0) + 1, Days).revision = Latest(0) + 1
    BY DEF BackfillKey
  <2>5. BackfillKey(Latest(0) + 1, Days).revision < MaxRevision
    BY <1>3, <1>4, <2>4
  <2>6. UNCHANGED <<today, manifests>> /\ staging' \subseteq staging
    BY <1>1
  <2>7. job' \in Jobs /\ pc' = "collect" /\ AllPlaced' /\ JobFits'
    BY <1>4, <1>7, <2>1, <2>2, <2>3, <2>4, <2>5, <2>6, FitCollecting
  <2>8. Typed'
    BY <1>1, <1>5, <1>6, <2>1, <2>2, <2>7 DEF FitInv, Typed
  <2> QED BY <2>7, <2>8 DEF FitInv
<1>9. CASE ~Detected(days, symbols \ unfetched)
  <2>1. EnterIncremental(days, symbols)
    BY <1>2, <1>9
  <2>2. UNCHANGED <<today, manifests>> /\ staging' \subseteq staging
    BY <1>1
  <2>3. /\ job' \in Jobs /\ waiting' \in Calls /\ pc' \in {"idle", "collect", "publish"}
        /\ AllPlaced' /\ JobFits' /\ told' \subseteq Symbols \X Days
    BY <1>1, <1>3, <1>4, <1>7, <2>1, <2>2, FitEnter
  <2>4. Typed'
    BY <1>1, <1>5, <1>6, <2>3 DEF FitInv, Typed
  <2> QED BY <2>3, <2>4 DEF FitInv
<1> QED BY <1>8, <1>9

LEMMA FitBackfill ==
  ASSUME NEW days \in BackfillRanges, NEW symbols \in Requests
  PROVE  FitInv /\ Backfill(days, symbols) => FitInv'
<1> SUFFICES ASSUME FitInv, Backfill(days, symbols) PROVE FitInv'
  OBVIOUS
<1>1. /\ pc = "idle" /\ HasRoom /\ Collecting(BackfillKey(0, days), symbols)
      /\ UNCHANGED <<today, feed, manifests, succeeded, staging, failures, deaths, told, slips, waiting>>
  BY DEF Backfill, bounds, history
<1>2. days \in SUBSET Days /\ symbols \in SUBSET Symbols /\ 0 \in Datasets
  BY CallAssumption DEF Datasets
<1>3. \A d \in Datasets : Latest(d) \in Nat /\ Latest(d) + 1 < MaxRevision /\ Latest(d) < MaxRevision
  BY <1>1, RoomForAll
<1>4. MaxRevision \in Nat /\ 0 < MaxRevision /\ 0 \in 0..MaxRevision
  BY <1>2, <1>3, BoundAssumption
<1>5. BackfillKey(0, days) \in Keys
  BY <1>2, <1>4, KeysTyped
<1>6. BackfillKey(0, days).command = "backfill" /\ BackfillKey(0, days).revision = 0
  BY DEF BackfillKey
<1>7. waiting' = NoCall /\ waiting'.days = {} /\ waiting' \in Calls
  BY <1>1, IdleTyped DEF FitInv, JobFits, NoCall
<1>8. UNCHANGED <<today, manifests>> /\ staging' \subseteq staging
  BY <1>1
<1>9. job' \in Jobs /\ pc' = "collect" /\ AllPlaced' /\ JobFits'
  BY <1>1, <1>2, <1>3, <1>4, <1>5, <1>6, <1>7, <1>8, FitCollecting
<1>10. Typed'
  BY <1>1, <1>7, <1>9 DEF FitInv, Typed
<1> QED BY <1>9, <1>10 DEF FitInv

LEMMA StagedTyped ==
  ASSUME FitInv, NEW key
  PROVE  Staged(key) \subseteq Rows /\ \A x \in Staged(key) : x.day <= today
<1>1. \A f \in staging : f.row \in Rows /\ f.row.day <= today
  BY DEF FitInv, Typed, AllPlaced
<1>2. \A x \in Staged(key) : \E f \in staging : x = f.row
  BY DEF Staged
<1> QED BY <1>1, <1>2

LEMMA BarsTyped ==
  ASSUME FitInv, NEW S \in SUBSET Symbols, NEW days \in SUBSET Days
  PROVE  Bars(S, days) \subseteq Rows /\ \A x \in Bars(S, days) : x.day <= today
<1>1. feed \in [Symbols -> Versions]
  BY DEF FitInv, Typed
<1>2. \A s \in S, y \in days : [symbol |-> s, day |-> y, version |-> feed[s]] \in Rows
  BY <1>1 DEF Rows
<1> QED BY <1>2 DEF Bars

(* What a collection does. *)
LEMMA CollectIs ==
  ASSUME FitInv, Collect
  PROVE  /\ pc = "collect" /\ pc' = "publish"
         /\ UNCHANGED <<today, feed, manifests, succeeded, deaths, told, waiting>>
         /\ \E unfetched \in SUBSET job.symbols, rows \in SUBSET Rows :
                /\ \A x \in rows : x.day <= today
                /\ failures' \in 0..MaxFailures
                /\ staging' \subseteq {f \in staging : f.key # job.key}
                        \cup {[key |-> job.key, row |-> x] : x \in rows}
                /\ slips \subseteq slips' /\ slips' \subseteq Slips
                /\ "stale" \notin slips' => {x \in rows : x.symbol \notin unfetched}
                                               = Bars(job.symbols \ unfetched, job.key.days)
                /\ job' = Collected(job,
                             IF job.key.command = "incremental" THEN DayParts(job.key.days, rows)
                             ELSE YearParts(Datasets, rows),
                             IF job.key.command = "incremental" THEN {{x} : x \in job.key.days}
                             ELSE {Days},
                             unfetched # {})
<1>1. /\ pc = "collect" /\ pc' = "publish"
      /\ UNCHANGED <<today, feed, manifests, succeeded, deaths, told, waiting>>
  BY DEF Collect
<1>2. job \in Jobs /\ job.key \in Keys /\ job.symbols \subseteq Symbols /\ job.key.days \subseteq Days
  BY DEF FitInv, Typed, Jobs, Keys
<1> DEFINE skip(resume) == IF resume THEN {x.symbol : x \in Staged(job.key)} ELSE {}
           fetch(resume, unfetched) == job.symbols \ (skip(resume) \cup unfetched)
           found(resume, unfetched) ==
               {x \in Staged(job.key) : x.symbol \notin fetch(resume, unfetched)}
                   \cup Bars(fetch(resume, unfetched), job.key.days)
<1>3. PICK resume \in ResumeFlags, unfetched \in SUBSET job.symbols :
        /\ unfetched \cap skip(resume) = {}
        /\ failures + Cardinality(unfetched) <= MaxFailures
        /\ failures' = failures + Cardinality(unfetched)
        /\ staging' = {f \in staging : f.key # job.key}
              \cup {[key |-> job.key, row |-> x] : x \in found(resume, unfetched)}
        /\ slips' = slips \cup {x \in {"stale"} :
              {y \in found(resume, unfetched) : y.symbol \notin fetch(resume, unfetched) \cup unfetched}
                  # Bars(skip(resume) \cap job.symbols, job.key.days)}
        /\ job' = [job EXCEPT
               !.parts = IF job.key.command = "incremental"
                         THEN DayParts(job.key.days, found(resume, unfetched))
                         ELSE YearParts(Datasets, found(resume, unfetched)),
               !.replaced = IF job.key.command = "incremental"
                            THEN {{x} : x \in job.key.days} ELSE {Days},
               !.rest = Datasets,
               !.incident = unfetched # {},
               !.flawed = unfetched # {}]
  BY DEF Collect
<1> DEFINE S == skip(resume)
           F == fetch(resume, unfetched)
           R == found(resume, unfetched)
<1>4. Staged(job.key) \subseteq Rows /\ \A x \in Staged(job.key) : x.day <= today
  BY StagedTyped
<1>5. S \in SUBSET Symbols
  BY <1>4 DEF Rows
<1>6. F \in SUBSET job.symbols /\ F \in SUBSET Symbols /\ F = job.symbols \ (S \cup unfetched)
  BY <1>2
<1>7. Bars(F, job.key.days) \subseteq Rows /\ \A x \in Bars(F, job.key.days) : x.day <= today
  BY <1>2, <1>6, BarsTyped
<1>8. R = {x \in Staged(job.key) : x.symbol \notin F} \cup Bars(F, job.key.days)
  OBVIOUS
<1> HIDE DEF S, F, R, skip, fetch, found
<1>9. R \in SUBSET Rows /\ \A x \in R : x.day <= today
  BY <1>4, <1>7, <1>8
<1>10. failures' \in 0..MaxFailures
  BY <1>2, <1>3, FailuresFit, SymbolsFinite
<1>11. slips \subseteq slips' /\ slips' \subseteq Slips
  BY <1>3 DEF FitInv, Typed, Slips
<1>14. ASSUME "stale" \notin slips'
       PROVE  {x \in R : x.symbol \notin unfetched} = Bars(job.symbols \ unfetched, job.key.days)
  <2>1. {x \in R : x.symbol \notin F \cup unfetched} = Bars(S \cap job.symbols, job.key.days)
    BY <1>3, <1>14 DEF F, S, R
  <2>2. unfetched \cap S = {}
    BY <1>3 DEF S
  <2>3. job.symbols \ unfetched = F \cup (S \cap job.symbols)
    BY <1>6, <2>2
  <2>4. Bars(job.symbols \ unfetched, job.key.days)
            = Bars(F, job.key.days) \cup Bars(S \cap job.symbols, job.key.days)
    BY <2>3 DEF Bars
  <2>5. \A x \in Bars(F, job.key.days) : x.symbol \in F
    BY DEF Bars
  <2> QED BY <1>6, <1>8, <2>1, <2>4, <2>5
<1>12. job' = Collected(job,
                        IF job.key.command = "incremental" THEN DayParts(job.key.days, R)
                        ELSE YearParts(Datasets, R),
                        IF job.key.command = "incremental" THEN {{x} : x \in job.key.days}
                        ELSE {Days},
                        unfetched # {})
  BY <1>3, Zenon DEF Collected, R
<1>13. staging' \subseteq {f \in staging : f.key # job.key} \cup {[key |-> job.key, row |-> x] : x \in R}
  BY <1>3 DEF R
<1> QED BY <1>1, <1>9, <1>10, <1>11, <1>12, <1>13, <1>14

LEMMA FitCollect == FitInv /\ Collect => FitInv'
<1> SUFFICES ASSUME FitInv, Collect PROVE FitInv'
  OBVIOUS
<1>1. /\ pc = "collect" /\ pc' = "publish"
      /\ UNCHANGED <<today, feed, manifests, succeeded, deaths, told, waiting>>
  BY CollectIs
<1> DEFINE parts(rows) == IF job.key.command = "incremental" THEN DayParts(job.key.days, rows)
                          ELSE YearParts(Datasets, rows)
           replaced == IF job.key.command = "incremental" THEN {{x} : x \in job.key.days} ELSE {Days}
<1>2. PICK rows \in SUBSET Rows, incident \in BOOLEAN :
         /\ \A x \in rows : x.day <= today
         /\ failures' \in 0..MaxFailures
         /\ staging' \subseteq {f \in staging : f.key # job.key}
                        \cup {[key |-> job.key, row |-> x] : x \in rows}
         /\ slips' \subseteq Slips
         /\ job' = Collected(job, parts(rows), replaced, incident)
  BY CollectIs, Zenon
<1> DEFINE P == parts(rows)
<1>3. job \in Jobs /\ job.key \in Keys /\ job.key.days \in SUBSET Days
  BY DEF FitInv, Typed, Jobs, Keys
<1>4. replaced \in SUBSET SUBSET Days
  BY <1>3
<1>5. /\ P \in SUBSET JobParts
      /\ \A p \in P : p.period \in replaced /\ \A x \in p.rows :
             x \in rows /\ x.day \in p.period /\ ShardOf[x.symbol] = p.shard
      /\ \A p, q \in P : p.period \cap q.period # {} => p.period = q.period /\ p.grain = q.grain
  <2>1. CASE job.key.command = "incremental"
    <3>1. P = DayParts(job.key.days, rows) /\ replaced = {{x} : x \in job.key.days}
      BY <2>1
    <3> HIDE DEF P, replaced
    <3>2. \A p \in P :
               /\ p \in JobParts /\ p.grain = DAY /\ OneDay(p.period, job.key.days)
               /\ \A x \in p.rows : x \in rows /\ x.day \in p.period /\ ShardOf[x.symbol] = p.shard
      <4>1. PICK D \in SUBSET Days : D = job.key.days
        BY <1>3
      <4>2. \A p \in DayParts(D, rows) :
               /\ p \in JobParts /\ p.grain = DAY /\ OneDay(p.period, D)
               /\ \A x \in p.rows : x \in rows /\ x.day \in p.period /\ ShardOf[x.symbol] = p.shard
        BY DayPartsAre
      <4>3. P = DayParts(D, rows)
        BY <3>1, <4>1
      <4> QED BY <4>1, <4>2, <4>3
    <3>3. \A p, q \in P : p.period \cap q.period # {} => p.period = q.period /\ p.grain = q.grain
      BY <3>2 DEF OneDay
    <3>4. \A p \in P : p.period \in replaced
      BY <3>1, <3>2 DEF OneDay
    <3> QED BY <3>2, <3>3, <3>4
  <2>2. CASE job.key.command # "incremental"
    <3>1. P = YearParts(Datasets, rows) /\ replaced = {Days}
      BY <2>2
    <3> HIDE DEF P, replaced
    <3>2. \A p \in P :
               /\ p \in JobParts /\ p.grain = YEAR /\ p.period = Days
               /\ \A x \in p.rows : x \in rows /\ x.day \in p.period /\ ShardOf[x.symbol] = p.shard
      BY <3>1, YearPartsAre
    <3> QED BY <3>1, <3>2
  <2> QED BY <2>1, <2>2
<1>6. job' = Collected(job, P, replaced, incident)
  BY <1>2
<1> HIDE DEF P, parts, replaced
<1>7. /\ job' \in Jobs /\ job'.key = job.key /\ job'.symbols = job.symbols /\ job'.parts = P
      /\ job'.replaced = replaced /\ job'.incident = incident /\ job'.flawed = incident
  BY <1>3, <1>4, <1>5, <1>6, JobCollected
<1>8. staging' \subseteq [key : Keys, row : Rows] /\ \A f \in staging' : f \in staging \/ f.row.day <= today
  BY <1>2, <1>3 DEF FitInv, Typed
<1>9. Typed'
  BY <1>1, <1>2, <1>7, <1>8 DEF FitInv, Typed
<1>10. \A p \in job'.parts : Placed(p)
  BY <1>2, <1>5, <1>7 DEF Placed
<1>11. AllPlaced'
  BY <1>1, <1>8, <1>10, PlacedStep
<1>12. \A d \in Datasets : Latest(d)' < MaxRevision
  BY <1>1, ServedAll DEF FitInv, JobFits
<1>13. JobFits'
  BY <1>1, <1>5, <1>7, <1>12 DEF FitInv, JobFits, IncrementalKey
<1> QED BY <1>9, <1>11, <1>13 DEF FitInv

LEMMA PeriodsTyped ==
  ASSUME NEW grain \in WEEK..YEAR, NEW period \in PeriodsOf(grain)
  PROVE  period \in SUBSET Days /\ grain \in DAY..YEAR
BY CalendarAssumption DEF PeriodsOf, WEEK, MONTH, YEAR, DAY

(* Once a command publishes what there is, without an incident. *)
LEMMA FitPublishing ==
  ASSUME FitInv, pc = "idle", HasRoom, pc' = "publish",
         NEW k \in Keys, NEW parts \in SUBSET JobParts, NEW replaced \in SUBSET SUBSET Days,
         NEW rest \in SUBSET Datasets, NEW flawed \in BOOLEAN,
         job' = Made(k, parts, replaced, rest)
         \/ job' = Failed(Made(k, parts, replaced, rest), flawed),
         k.command \in {"compact", "derive", "migrate"}, k.revision = 0,
         \A p \in parts : p.period \in replaced /\ Placed(p),
         \A p, q \in parts : p.period \cap q.period # {} => p.period = q.period /\ p.grain = q.grain,
         UNCHANGED <<today, feed, manifests, succeeded, deaths, told, slips, waiting>>,
         failures' \in 0..MaxFailures,
         staging' \subseteq [key : Keys, row : Rows],
         \A f \in staging' : f \in staging \/ f.row.day <= today
  PROVE  FitInv'
<1>1. /\ job' \in Jobs /\ job'.key = k /\ job'.parts = parts /\ job'.replaced = replaced
      /\ job'.rest = rest /\ ~job'.incident
  <2> DEFINE M == Made(k, parts, replaced, rest)
  <2>1. /\ M \in Jobs /\ M.key = k /\ M.parts = parts /\ M.replaced = replaced
        /\ M.rest = rest /\ ~M.incident
    <3>1. IsJob(M, k, parts, replaced, rest)
      BY JobMade
    <3> HIDE DEF M
    <3> QED BY <3>1 DEF IsJob
  <2>2. job' = M \/ job' = Failed(M, flawed)
    OBVIOUS
  <2> HIDE DEF M
  <2>3. CASE job' = M
    BY <2>1, <2>3
  <2>4. CASE job' = Failed(M, flawed)
    BY <2>1, <2>4, JobFailed
  <2> QED BY <2>2, <2>3, <2>4
<1>2. Typed'
  BY <1>1 DEF FitInv, Typed
<1>3. AllPlaced'
  BY <1>1, PlacedStep
<1>4. \A d \in Datasets : Latest(d) \in Nat /\ Latest(d) + 1 < MaxRevision /\ Latest(d)' < MaxRevision
  BY RoomForAll, ServedAll
<1>5. 0 < MaxRevision
  <2>1. 0 \in Datasets
    BY CallAssumption DEF Datasets
  <2> QED BY <1>4, <2>1, BoundAssumption
<1>6. waiting' = NoCall /\ waiting'.days = {}
  BY DEF FitInv, JobFits, NoCall
<1>7. JobFits'
  BY <1>1, <1>4, <1>5, <1>6 DEF JobFits
<1> QED BY <1>2, <1>3, <1>7 DEF FitInv

LEMMA FitCompact ==
  ASSUME NEW d \in Datasets, NEW grain \in WEEK..YEAR, NEW period \in PeriodsOf(grain)
  PROVE  FitInv /\ Compact(d, grain, period) => FitInv'
<1> SUFFICES ASSUME FitInv, Compact(d, grain, period) PROVE FitInv'
  OBVIOUS
<1> DEFINE rows == UNION {o.rows : o \in Smaller(d, grain, period)}
           k == CompactKey(d, grain, period)
           parts == Parts(d, grain, period, rows)
<1>1. /\ pc = "idle" /\ HasRoom /\ pc' = "publish"
      /\ job' = Made(k, parts, {period}, {d})
      /\ UNCHANGED <<today, feed, manifests, succeeded, staging, failures, deaths, told, slips, waiting>>
  BY DEF Compact, Made, bounds, history
<1>2. period \in SUBSET Days /\ grain \in DAY..YEAR
  BY PeriodsTyped
<1>3. rows \in SUBSET Rows /\ \A x \in rows : x.day <= today
  <2>1. Smaller(d, grain, period) \subseteq Served(d)
    BY DEF Smaller
  <2>2. rows \subseteq ServedRows(d)
    BY <2>1 DEF ServedRows
  <2> QED BY <2>2, ServedTyped
<1>4. k \in Keys /\ k.command = "compact" /\ k.revision = 0
  <2>1. k.command = "compact" /\ k.revision = 0
    BY DEF CompactKey
  <2> QED BY <1>2, <2>1, KeysTyped
<1> HIDE DEF rows, k
<1>5. \A p \in parts :
               /\ p \in JobParts /\ p.grain = grain /\ p.period = period
               /\ \A x \in p.rows : x \in rows /\ x.day \in period /\ ShardOf[x.symbol] = p.shard
  BY <1>2, <1>3, PartsAre
<1> HIDE DEF parts
<1>6. \A p \in parts : p.period \in {period} /\ Placed(p)
  BY <1>3, <1>5 DEF Placed
<1>7. parts \in SUBSET JobParts /\ {period} \in SUBSET SUBSET Days /\ {d} \in SUBSET Datasets
      /\ FALSE \in BOOLEAN
  BY <1>2, <1>5
<1>8. \A p, q \in parts : p.period \cap q.period # {} => p.period = q.period /\ p.grain = q.grain
  BY <1>5
<1>9. failures' \in 0..MaxFailures /\ staging' \subseteq [key : Keys, row : Rows]
      /\ \A f \in staging' : f \in staging \/ f.row.day <= today
  BY <1>1 DEF FitInv, Typed
<1> QED BY <1>1, <1>4, <1>6, <1>7, <1>8, <1>9, FitPublishing

LEMMA FitDerive == FitInv /\ Derive => FitInv'
<1> SUFFICES ASSUME FitInv, Derive PROVE FitInv'
  OBVIOUS
<1> DEFINE parts == YearParts(Derived, ServedRows(0))
<1>1. /\ pc = "idle" /\ HasRoom /\ pc' = "publish"
      /\ job' = Made(DeriveKey, parts, {Days}, Derived)
      /\ UNCHANGED <<today, feed, manifests, succeeded, staging, failures, deaths, told, slips, waiting>>
  BY DEF Derive, Made, bounds, history
<1>2. 0 \in Datasets /\ Derived \in SUBSET Datasets
  BY CallAssumption DEF Datasets, Derived
<1>3. ServedRows(0) \in SUBSET Rows /\ \A x \in ServedRows(0) : x.day <= today
  BY <1>2, ServedTyped
<1>4. DeriveKey \in Keys /\ DeriveKey.command = "derive" /\ DeriveKey.revision = 0
  BY KeysTyped DEF DeriveKey, NoKey
<1>5. \A p \in parts :
               /\ p \in JobParts /\ p.grain = YEAR /\ p.period = Days
               /\ \A x \in p.rows : x \in ServedRows(0) /\ x.day \in p.period /\ ShardOf[x.symbol] = p.shard
  BY <1>2, <1>3, YearPartsAre
<1> HIDE DEF parts
<1>6. \A p \in parts : p.period \in {Days} /\ Placed(p)
  BY <1>3, <1>5 DEF Placed
<1>7. parts \in SUBSET JobParts /\ {Days} \in SUBSET SUBSET Days /\ FALSE \in BOOLEAN
  BY <1>5
<1>8. \A p, q \in parts : p.period \cap q.period # {} => p.period = q.period /\ p.grain = q.grain
  BY <1>5
<1>9. failures' \in 0..MaxFailures /\ staging' \subseteq [key : Keys, row : Rows]
      /\ \A f \in staging' : f \in staging \/ f.row.day <= today
  BY <1>1 DEF FitInv, Typed
<1> QED BY <1>1, <1>2, <1>4, <1>6, <1>7, <1>8, <1>9, FitPublishing

(* What migrate does before it publishes: the parts of each dataset. *)
LEMMA MigrateIs ==
  ASSUME FitInv, Migrate
  PROVE  /\ pc = "idle" /\ HasRoom /\ pc' = "publish"
         /\ Careful => \A d \in Datasets : ServedDays(d) \subseteq Symbols \X LegacyDays
         /\ UNCHANGED <<today, feed, manifests, succeeded, deaths, told, slips, waiting>>
         /\ failures' \in 0..MaxFailures
         /\ staging' \subseteq [key : Keys, row : Rows]
         /\ \A f \in staging' : f \in staging \/ f.row.day <= today
         /\ \E parts \in SUBSET JobParts, flawed \in BOOLEAN :
              /\ job' = Failed(Made(MigrateKey, parts, {Days}, Datasets), flawed)
              /\ \A p \in parts : p.period = Days /\ p.grain = YEAR /\ Placed(p)
<1>1. /\ pc = "idle" /\ HasRoom /\ pc' = "publish"
      /\ Careful => \A d \in Datasets : ServedDays(d) \subseteq Symbols \X LegacyDays
      /\ \A x \in LegacyDays : x <= today
      /\ UNCHANGED <<today, feed, manifests, succeeded, deaths, told, slips, waiting>>
  BY DEF Migrate, history
<1> DEFINE read(d, broken, upTo) == {r \in Legacy : <<d, r.symbol>> \in broken => r.day <= upTo}
                                       \cup Staged(MigrateFiles(d))
<1>2. PICK broken \in SUBSET (Datasets \X Symbols), upTo \in 0..DayCount :
        /\ failures + Cardinality(broken) <= MaxFailures
        /\ failures' = failures + Cardinality(broken)
        /\ staging' = staging \cup
               UNION {{[key |-> MigrateFiles(d), row |-> r] : r \in read(d, broken, upTo)} : d \in Datasets}
        /\ job' = [NoJob EXCEPT
               !.key = MigrateKey,
               !.parts = UNION {YearParts({d}, read(d, broken, upTo)) : d \in Datasets},
               !.replaced = {Days},
               !.rest = Datasets,
               !.flawed = broken # {}]
  BY DEF Migrate
<1> DEFINE Read(d) == read(d, broken, upTo)
           parts == UNION {YearParts({d}, Read(d)) : d \in Datasets}
<1>3. ASSUME NEW d \in Datasets
      PROVE  Read(d) \in SUBSET Rows /\ \A x \in Read(d) : x.day <= today
  <2>1. Read(d) \subseteq Legacy \cup Staged(MigrateFiles(d))
    OBVIOUS
  <2>2. Legacy \subseteq Rows /\ \A x \in Legacy : x.day <= today
    BY <1>1, BoundAssumption, CallAssumption DEF Legacy, Rows, Versions
  <2> HIDE DEF Read
  <2> QED BY <2>1, <2>2, StagedTyped
<1>4. job' = Failed(Made(MigrateKey, parts, {Days}, Datasets), broken # {})
  BY <1>2, Zenon DEF Made, Failed
<1>5. staging' = staging \cup
               UNION {{[key |-> MigrateFiles(d), row |-> r] : r \in Read(d)} : d \in Datasets}
  BY <1>2
<1>6. failures' \in 0..MaxFailures
  BY <1>2, FailuresFit, FilesFinite
<1> HIDE DEF Read, read
<1>7. \A d \in Datasets : \A x \in Read(d) :
          [key |-> MigrateFiles(d), row |-> x] \in [key : Keys, row : Rows]
  BY <1>3, KeysTyped
<1>8. \A f \in staging' : f \in staging \/ \E d \in Datasets : \E x \in Read(d) : 
           f = [key |-> MigrateFiles(d), row |-> x]
  BY <1>5
<1>9. staging' \subseteq [key : Keys, row : Rows]
      /\ \A f \in staging' : f \in staging \/ f.row.day <= today
  BY <1>3, <1>7, <1>8 DEF FitInv, Typed
<1>10. \A p \in parts : \E d \in Datasets : p \in YearParts({d}, Read(d))
  OBVIOUS
<1>11. ASSUME NEW d \in Datasets, NEW p \in YearParts({d}, Read(d))
       PROVE  p \in JobParts /\ p.period = Days /\ p.grain = YEAR /\ Placed(p)
  <2>1. {d} \in SUBSET Datasets
    OBVIOUS
  <2>2. /\ p \in JobParts /\ p.grain = YEAR /\ p.period = Days
        /\ \A x \in p.rows : x \in Read(d) /\ x.day \in p.period /\ ShardOf[x.symbol] = p.shard
    BY <1>3, <2>1, YearPartsAre
  <2> QED BY <1>3, <2>2 DEF Placed
<1> HIDE DEF parts
<1>12. parts \in SUBSET JobParts /\ \A p \in parts : p.period = Days /\ p.grain = YEAR /\ Placed(p)
  BY <1>10, <1>11
<1> QED BY <1>1, <1>4, <1>6, <1>9, <1>12

LEMMA FitMigrate == FitInv /\ Migrate => FitInv'
<1> SUFFICES ASSUME FitInv, Migrate PROVE FitInv'
  OBVIOUS
<1>1. /\ pc = "idle" /\ HasRoom /\ pc' = "publish"
      /\ UNCHANGED <<today, feed, manifests, succeeded, deaths, told, slips, waiting>>
      /\ failures' \in 0..MaxFailures
      /\ staging' \subseteq [key : Keys, row : Rows]
      /\ \A f \in staging' : f \in staging \/ f.row.day <= today
  BY MigrateIs
<1>2. PICK parts \in SUBSET JobParts, flawed \in BOOLEAN :
         /\ job' = Failed(Made(MigrateKey, parts, {Days}, Datasets), flawed)
         /\ \A p \in parts : p.period = Days /\ p.grain = YEAR /\ Placed(p)
  BY MigrateIs
<1>3. MigrateKey \in Keys /\ MigrateKey.command = "migrate" /\ MigrateKey.revision = 0
  BY KeysTyped DEF MigrateKey, NoKey
<1>4. {Days} \in SUBSET SUBSET Days /\ Datasets \in SUBSET Datasets
  OBVIOUS
<1>5. \A p \in parts : p.period \in {Days} /\ Placed(p)
  BY <1>2
<1>6. \A p, q \in parts : p.period \cap q.period # {} => p.period = q.period /\ p.grain = q.grain
  BY <1>2
<1> QED BY <1>1, <1>2, <1>3, <1>4, <1>5, <1>6, FitPublishing

(* The objects of a snapshot. *)
LEMMA SnapshotTyped ==
  ASSUME FitInv, pc = "publish", NEW d, NEW l, NEW r, NEW new, NEW snapshot, NEW good,
         Publishing(d, l, r, new, snapshot, good)
  PROVE  /\ new \subseteq Objects /\ \A o \in new : Placed(o)
         /\ snapshot \subseteq Objects /\ \A o \in snapshot : Placed(o)
<1>1. d \in Datasets /\ r \in Revisions
  BY PublishedManifests
<1>2. /\ new = {ObjectOf(p, r) : p \in {q \in job.parts : q.dataset = d}}
      /\ snapshot \subseteq Retained(d) \cup new
  BY DEF Publishing
<1>3. \A p \in job.parts : p \in JobParts /\ Placed(p)
  BY DEF FitInv, Typed, Jobs, AllPlaced
<1>4. ASSUME NEW p \in job.parts
      PROVE  ObjectOf(p, r) \in Objects /\ Placed(ObjectOf(p, r))
  BY <1>1, <1>3 DEF ObjectOf, Objects, JobParts, Placed
<1>5. Retained(d) \subseteq Objects /\ \A o \in Retained(d) : Placed(o)
  BY <1>1, ServedTyped DEF Retained
<1>6. new \subseteq Objects /\ \A o \in new : Placed(o)
  BY <1>2, <1>4
<1> QED BY <1>2, <1>5, <1>6

(* The command in progress after it. *)
LEMMA PublishedJob ==
  ASSUME FitInv, NEW d, NEW l, NEW r, NEW new, NEW snapshot, NEW good,
         Publishing(d, l, r, new, snapshot, good)
  PROVE  /\ job' \in Jobs /\ job'.key = job.key /\ job'.symbols = job.symbols
         /\ job'.parts = job.parts /\ job'.replaced = job.replaced /\ job'.rest = job.rest \ {d}
         /\ job'.incident = job.incident /\ job'.flawed = (job.flawed \/ ~good)
<1>1. job \in Jobs /\ good \in BOOLEAN
  BY DEF FitInv, Typed, Publishing
<1>2. job' = [job EXCEPT !.rest = @ \ {d}, !.flawed = @ \/ ~good]
  BY DEF Publishing
<1>3. job.flawed \in BOOLEAN /\ job.rest \subseteq Datasets
  BY <1>1 DEF Jobs
<1> QED BY <1>1, <1>2, <1>3 DEF Jobs

LEMMA FitPublish == FitInv /\ Publish => FitInv'
<1> SUFFICES ASSUME FitInv, Publish PROVE FitInv'
  OBVIOUS
<1>1. /\ pc = "publish" /\ pc' = "publish"
      /\ UNCHANGED <<today, feed, succeeded, staging, failures, deaths, told, waiting>>
  BY PublishIs DEF bounds
<1>2. PICK d, l, r, new, snapshot, good : Publishing(d, l, r, new, snapshot, good)
  BY PublishIs
<1>3. slips' \subseteq Slips
  BY <1>2 DEF Publishing
<1>4. /\ job' \in Jobs /\ job'.key = job.key /\ job'.symbols = job.symbols
      /\ job'.parts = job.parts /\ job'.replaced = job.replaced /\ job'.rest = job.rest \ {d}
      /\ job'.incident = job.incident /\ job'.flawed = (job.flawed \/ ~good)
  BY <1>2, PublishedJob
<1>5. snapshot \subseteq Objects /\ \A o \in snapshot : Placed(o)
  BY <1>1, <1>2, SnapshotTyped
<1>6. /\ d \in Datasets /\ r \in Revisions
      /\ manifests' = [manifests EXCEPT ![d] = manifests'[d]]
      /\ manifests'[d] \in [Revisions -> [status : Statuses,
             objects : (SUBSET Objects) \cup {manifests[d][r].objects \cup snapshot}]]
      /\ manifests'[d][r].objects = manifests[d][r].objects \cup snapshot
      /\ \A v \in Revisions \ {r} : manifests'[d][v].objects = manifests[d][v].objects
  BY <1>1, <1>2, PublishedManifests
<1>7. manifests \in [Datasets -> [Revisions -> Manifests]]
  BY DEF FitInv, Typed
<1>8. manifests[d][r].objects \cup snapshot \in SUBSET Objects
  BY <1>5, <1>6, <1>7 DEF Manifests
<1>9. manifests'[d] \in [Revisions -> Manifests]
  BY <1>6, <1>8 DEF Manifests
<1>10. manifests' \in [Datasets -> [Revisions -> Manifests]]
  BY <1>6, <1>7, <1>9
<1>11. Typed'
  BY <1>1, <1>3, <1>4, <1>10 DEF FitInv, Typed
<1>12. \A o : Placed(o)' <=> Placed(o)
  BY <1>1 DEF Placed
<1>13. \A e \in Datasets \ {d} : manifests'[e] = manifests[e]
  BY <1>6, <1>7
<1>14. AllPlaced'
  <2>1. ASSUME NEW e \in Datasets, NEW v \in Revisions, NEW o \in manifests'[e][v].objects
        PROVE  Placed(o)'
    <3>1. \A x \in manifests[e][v].objects : Placed(x)
      BY DEF FitInv, AllPlaced
    <3>2. CASE e # d
      BY <1>12, <1>13, <3>1, <3>2
    <3>3. CASE e = d /\ v # r
      BY <1>6, <1>12, <3>1, <3>3
    <3>4. CASE e = d /\ v = r
      BY <1>5, <1>6, <1>12, <3>1, <3>4
    <3> QED BY <3>2, <3>3, <3>4
  <2>2. \A f \in staging' : f.row.day <= today'
    BY <1>1 DEF FitInv, AllPlaced
  <2>3. \A p \in job'.parts : Placed(p)'
    BY <1>1, <1>4, <1>12 DEF FitInv, AllPlaced
  <2> QED BY <2>1, <2>2, <2>3 DEF AllPlaced
<1>15. ASSUME NEW e \in Datasets, waiting'.days # {} \/ e \in job'.rest
       PROVE  Latest(e)' < MaxRevision
  <2>1. CASE e = d
    BY <1>1, <1>2, <1>4, <1>15, <2>1, PublishedRoom
  <2>2. CASE e # d
    <3>1. Latest(e)' = Latest(e)
      BY <1>13, <2>2, ServedFrame
    <3>2. Latest(e) < MaxRevision
      BY <1>1, <1>4, <1>15 DEF FitInv, JobFits
    <3> QED BY <3>1, <3>2
  <2> QED BY <2>1, <2>2
<1>16. good \in BOOLEAN
  BY <1>2 DEF Publishing
<1>17. JobFits'
  BY <1>1, <1>4, <1>15, <1>16 DEF FitInv, JobFits, IncrementalKey
<1> QED BY <1>11, <1>14, <1>17 DEF FitInv

LEMMA FitRefused == FitInv /\ Refused => FitInv'
<1> SUFFICES ASSUME FitInv, Refused PROVE FitInv'
  OBVIOUS
<1>1. /\ End /\ slips' = slips \cup {"refused"}
      /\ UNCHANGED <<today, feed, manifests, succeeded, staging, failures, deaths, told>>
  BY DEF Refused, bounds
<1>2. slips' \subseteq Slips
  BY <1>1 DEF FitInv, Typed, Slips
<1>3. job' \in Jobs /\ waiting' \in Calls /\ pc' = "idle" /\ AllPlaced' /\ JobFits'
  BY <1>1, FitEnd
<1>4. Typed'
  BY <1>1, <1>2, <1>3 DEF FitInv, Typed
<1> QED BY <1>3, <1>4 DEF FitInv

LEMMA FitDies == FitInv /\ Dies => FitInv'
<1> SUFFICES ASSUME FitInv, Dies PROVE FitInv'
  OBVIOUS
<1>1. /\ End /\ deaths < MaxDeaths /\ deaths' = deaths + 1
      /\ slips' = slips \cup {x \in {"halfway"} :
             OfAllDatasets /\ ~job.flawed /\ job.rest # {} /\ 0 \notin job.rest}
      /\ UNCHANGED <<today, feed, manifests, succeeded, staging, failures, told>>
  BY DEF Dies
<1>2. slips' \subseteq Slips
  BY <1>1 DEF FitInv, Typed, Slips
<1>3. job' \in Jobs /\ waiting' \in Calls /\ pc' = "idle" /\ AllPlaced' /\ JobFits'
  BY <1>1, FitEnd
<1>4. deaths' \in 0..MaxDeaths
  BY <1>1, BoundAssumption DEF FitInv, Typed
<1>5. Typed'
  BY <1>1, <1>2, <1>3, <1>4 DEF FitInv, Typed
<1> QED BY <1>3, <1>5 DEF FitInv

LEMMA FitFinish == FitInv /\ Finish => FitInv'
<1> SUFFICES ASSUME FitInv, Finish PROVE FitInv'
  OBVIOUS
<1>1. /\ pc = "publish" /\ job.rest = {}
      /\ UNCHANGED <<today, feed, manifests, failures, deaths, slips>>
  BY DEF Finish, bounds
<1>2. job \in Jobs /\ job.key \in Keys /\ job.symbols \subseteq Symbols /\ job.key.days \subseteq Days
      /\ waiting \in Calls /\ told \subseteq Symbols \X Days
  BY DEF FitInv, Typed, Jobs, Keys
<1>3. CASE job.flawed
  <2>1. End /\ UNCHANGED <<succeeded, staging, told>>
    BY <1>3 DEF Finish
  <2>2. job' \in Jobs /\ waiting' \in Calls /\ pc' = "idle" /\ AllPlaced' /\ JobFits'
    BY <1>1, <2>1, FitEnd
  <2>3. Typed'
    BY <1>1, <2>1, <2>2 DEF FitInv, Typed
  <2> QED BY <2>2, <2>3 DEF FitInv
<1>4. CASE ~job.flawed
  <2>1. succeeded' = succeeded \cup {job.key} /\ staging' = {f \in staging : f.key # job.key}
    BY <1>4 DEF Finish
  <2>2. UNCHANGED <<today, manifests>> /\ staging' \subseteq staging
    BY <1>1, <2>1
  <2>3. /\ job' \in Jobs /\ waiting' \in Calls /\ pc' \in {"idle", "collect", "publish"}
        /\ AllPlaced' /\ JobFits' /\ told' \subseteq Symbols \X Days
    <3>1. CASE waiting.days # {}
      <4>1. EnterIncremental(waiting.days, waiting.symbols)
        BY <1>4, <3>1 DEF Finish
      <4>2. /\ waiting.days \in SUBSET Days /\ waiting.symbols \in Requests
            /\ \A x \in waiting.days : x <= today
            /\ \A d \in Datasets : Latest(d) < MaxRevision
        BY <1>1, <1>2, <3>1 DEF FitInv, JobFits, Calls
      <4>3. 0 < MaxRevision
        <5>1. 0 \in Datasets
          BY CallAssumption DEF Datasets
        <5>2. Latest(0) \in Nat
          BY LatestNow
        <5> QED BY <4>2, <5>1, <5>2, BoundAssumption
      <4> QED BY <2>2, <4>1, <4>2, <4>3, FitEnter
    <3>2. CASE waiting.days = {}
      <4>1. End /\ IF job.key.command = "incremental" THEN Told(job.key.days, job.symbols)
                   ELSE UNCHANGED told
        BY <1>4, <3>2 DEF Finish
      <4>2. told' \subseteq Symbols \X Days
        BY <1>2, <4>1 DEF Told
      <4> QED BY <2>2, <4>1, <4>2, FitEnd
    <3> QED BY <3>1, <3>2
  <2>4. Typed'
    BY <1>1, <1>2, <2>1, <2>3 DEF FitInv, Typed
  <2> QED BY <2>3, <2>4 DEF FitInv
<1> QED BY <1>3, <1>4

LEMMA FitNext == FitInv /\ [Next]_vars => FitInv'
BY FitStutter, FitNextDay, FitSplit, FitIncremental, FitBackfill, FitCollect, FitCompact,
   FitDerive, FitMigrate, FitPublish, FitRefused, FitFinish, FitDies DEF Next

LEMMA FitAlways == Spec => []FitInv
BY FitFirst, FitNext, PTL DEF Spec

(* Every variable holds what its comment says, whatever is published, fails   *)
(* or dies, and a published object holds rows of its period and shard only.   *)
THEOREM AlwaysTyped == Spec => []TypeOK
<1>1. FitInv => TypeOK
  <2> SUFFICES ASSUME FitInv PROVE TypeOK
    OBVIOUS
  <2>1. \A d \in Datasets, r \in Revisions :
          /\ manifests[d][r].status \in Statuses /\ manifests[d][r].objects \subseteq Objects
          /\ \A o \in manifests[d][r].objects : Placed(o)
    BY DEF FitInv, Typed, AllPlaced, Manifests
  <2>2. job.key \in Keys /\ job.rest \subseteq Datasets
    BY DEF FitInv, Typed, Jobs
  <2>3. \A f \in staging : f.key \in Keys /\ f.row \in Rows
    BY DEF FitInv, Typed
  <2> QED BY <2>1, <2>2, <2>3 DEF FitInv, Typed, TypeOK, Statuses, Placed
<1> QED BY <1>1, FitAlways, PTL

-----------------------------------------------------------------------------
(* Which symbols and days are served, and are in the parts. *)
InObjects(objects, s, x) == \E o \in objects : \E y \in o.rows : y.symbol = s /\ y.day = x
InParts(parts, d, s, x) == \E p \in parts : p.dataset = d /\ \E y \in p.rows : y.symbol = s /\ y.day = x

LEMMA DaysServed ==
  ASSUME NEW d, NEW s, NEW x
  PROVE  /\ <<s, x>> \in ServedDays(d) <=> InObjects(Served(d), s, x)
         /\ <<s, x>> \in ServedDays(d)' <=> InObjects(Served(d)', s, x)
<1>1. <<s, x>> \in ServedDays(d) <=> InObjects(Served(d), s, x)
  BY DEF ServedDays, ServedRows, InObjects
<1>2. <<s, x>> \in ServedDays(d)' <=> InObjects(Served(d)', s, x)
  BY DEF ServedDays, ServedRows, InObjects
<1> QED BY <1>1, <1>2

LEMMA DaysInParts ==
  ASSUME NEW d, NEW s, NEW x
  PROVE  /\ <<s, x>> \in PartDays(d) <=> InParts(job.parts, d, s, x)
         /\ <<s, x>> \in PartDays(d)' <=> InParts(job'.parts, d, s, x)
<1>1. <<s, x>> \in PartDays(d) <=> InParts(job.parts, d, s, x)
  BY DEF PartDays, InParts
<1>2. <<s, x>> \in PartDays(d)' <=> InParts(job'.parts, d, s, x)
  BY DEF PartDays, InParts
<1> QED BY <1>1, <1>2

(* Pairs are all that is served. *)
LEMMA DaysArePairs ==
  ASSUME NEW d
  PROVE  /\ \A t \in ServedDays(d) : \E s, x : t = <<s, x>>
         /\ \A t \in ServedDays(d)' : \E s, x : t = <<s, x>>
BY DEF ServedDays

LEMMA SlipsGrow == FitInv /\ [Next]_vars => slips \subseteq slips'
<1> SUFFICES ASSUME FitInv, [Next]_vars PROVE slips \subseteq slips'
  OBVIOUS
<1>1. CASE UNCHANGED vars
  BY <1>1 DEF vars, history
<1>2. CASE NextDay
  BY <1>2 DEF NextDay, history
<1>3. CASE \E s \in Symbols : Split(s)
  BY <1>3 DEF Split
<1>4. CASE \E days \in SessionRanges, symbols \in Requests : Incremental(days, symbols)
  <2>1. PICK days \in SessionRanges, symbols \in Requests : Incremental(days, symbols)
    BY <1>4
  <2> QED BY <2>1 DEF Incremental, history
<1>5. CASE \E days \in BackfillRanges, symbols \in Requests : Backfill(days, symbols)
  BY <1>5 DEF Backfill, history
<1>6. CASE Collect
  BY <1>6, CollectIs
<1>7. CASE \E d \in Datasets, grain \in WEEK..YEAR : \E period \in PeriodsOf(grain) :
            Compact(d, grain, period)
  BY <1>7 DEF Compact, history
<1>8. CASE Derive
  BY <1>8 DEF Derive, history
<1>9. CASE Migrate
  BY <1>9 DEF Migrate, history
<1>10. CASE Publish
  <2>1. PICK d, l, r, new, snapshot, good : Publishing(d, l, r, new, snapshot, good)
    BY <1>10, PublishIs, Zenon
  <2> QED BY <2>1 DEF Publishing
<1>11. CASE Refused
  BY <1>11 DEF Refused
<1>12. CASE Finish
  BY <1>12 DEF Finish
<1>13. CASE Dies
  BY <1>13 DEF Dies
<1> QED BY <1>1, <1>2, <1>3, <1>4, <1>5, <1>6, <1>7, <1>8, <1>9, <1>10, <1>11, <1>12, <1>13 DEF Next

(* The bars that an object loses its place for are in the new objects. *)
LEMMA ReplacedHeld ==
  ASSUME Trusted, FitInv, ServedInv, pc = "publish",
         NEW d, NEW l, NEW r, NEW new, NEW snapshot, NEW good,
         Publishing(d, l, r, new, snapshot, good), NoLoss', good,
         NEW o \in Served(d), o \notin Retained(d), NEW y \in o.rows
  PROVE  InObjects(new, y.symbol, y.day)
<1>0. d \in Datasets
  BY PublishedManifests
<1>1. /\ d \in job.rest /\ ~job.incident
      /\ new = {ObjectOf(p, r) : p \in {q \in job.parts : q.dataset = d}}
      /\ ~CutBy(o, job.replaced)
      /\ job.key.command = "migrate" => Legacy \subseteq UNION {n.rows : n \in new}
  BY DEF Publishing, NoLoss
<1>2. NoLoss
  BY DEF NoLoss, Publishing
<1>3. PICK p \in job.replaced : o.period \cap p # {}
  BY DEF Retained
<1>4. o.period \subseteq UNION job.replaced /\ o.period \cap UNION job.replaced # {}
  BY <1>1, <1>3 DEF CutBy
<1>5. y \in Rows /\ y.symbol \in Symbols /\ y.day \in o.period /\ y.day <= today /\ y \in ServedRows(d)
  <2>1. o \in Objects /\ Placed(o)
    BY <1>0, ServedTyped
  <2> QED BY <2>1 DEF Objects, Placed, Rows, ServedRows
<1>6. InScope(d) /\ PartsHold(d) /\ job.key.command # "derive"
      /\ (job.key.command = "incremental" => job.replaced = {{x} : x \in job.key.days})
  BY <1>0, <1>1, <1>2 DEF ServedInv, ToDo
<1>7. ASSUME <<y.symbol, y.day>> \in PartDays(d)
      PROVE  InObjects(new, y.symbol, y.day)
  <2>1. PICK q \in job.parts : q.dataset = d /\ \E z \in q.rows : z.symbol = y.symbol /\ z.day = y.day
    BY <1>7, DaysInParts DEF InParts
  <2>2. ObjectOf(q, r) \in new
    BY <1>1, <2>1
  <2>3. ObjectOf(q, r).rows = q.rows
    BY DEF ObjectOf
  <2> QED BY <2>1, <2>2, <2>3 DEF InObjects
<1>8. CASE job.key.command = "incremental"
  <2>1. y.day \in job.key.days
    BY <1>4, <1>5, <1>6, <1>8
  <2>2. job.symbols = Symbols
    BY <1>8 DEF Trusted, FitInv, JobFits
  <2> QED BY <1>1, <1>5, <1>6, <1>7, <1>8, <2>1, <2>2 DEF PartsHold
<1>9. CASE job.key.command = "backfill"
  BY <1>1, <1>5, <1>6, <1>7, <1>9 DEF PartsHold, InScope
<1>10. CASE job.key.command = "compact"
  BY <1>4, <1>6, <1>7, <1>10 DEF PartsHold
<1>11. CASE job.key.command = "migrate"
  <2>1. y.day \in LegacyDays
    BY <1>5, <1>6, <1>11 DEF InScope
  <2> DEFINE z == [symbol |-> y.symbol, day |-> y.day, version |-> 0]
  <2>2. z \in Legacy
    BY <1>5, <2>1 DEF Legacy
  <2>3. PICK n \in new : z \in n.rows
    BY <1>1, <1>11, <2>2
  <2>4. z.symbol = y.symbol /\ z.day = y.day
    OBVIOUS
  <2> QED BY <2>3, <2>4 DEF InObjects
<1>12. job.key.command \in {"incremental", "backfill", "compact", "derive", "migrate"}
  BY DEF FitInv, JobFits
<1> QED BY <1>6, <1>8, <1>9, <1>10, <1>11, <1>12

LEMMA NoLossNoReuse == NoLoss' => NoReuse'
BY DEF NoLoss, NoReuse, Losses

(* A publication takes nothing from its readers. *)
LEMMA PublishKeeps ==
  ASSUME Trusted, FitInv, ServedInv, pc = "publish",
         NEW d, NEW l, NEW r, NEW new, NEW snapshot, NEW good,
         Publishing(d, l, r, new, snapshot, good), NoLoss', NEW e \in Datasets
  PROVE  ServedDays(e) \subseteq ServedDays(e)'
<1>1. CASE e # d
  <2>1. manifests'[e] = manifests[e]
    <3>1. manifests' = [manifests EXCEPT ![d] = manifests'[d]] /\ d \in Datasets
      BY PublishedManifests
    <3>2. manifests \in [Datasets -> [Revisions -> Manifests]]
      BY DEF FitInv, Typed
    <3> QED BY <1>1, <3>1, <3>2
  <2> QED BY <2>1, ServedFrame
<1>2. CASE e = d /\ ~good
  <2>1. Served(e)' = Served(e)
    BY <1>2, PublishedServed, NoLossNoReuse
  <2> QED BY <2>1 DEF ServedDays, ServedRows
<1>3. CASE e = d /\ good
  <2>1. Served(d)' = Retained(d) \cup new
    BY <1>3, PublishedServed, NoLossNoReuse
  <2>2. ASSUME NEW s, NEW x, <<s, x>> \in ServedDays(d)
        PROVE  <<s, x>> \in ServedDays(d)'
    <3>1. PICK o \in Served(d) : \E y \in o.rows : y.symbol = s /\ y.day = x
      BY <2>2, DaysServed DEF InObjects
    <3>2. PICK y \in o.rows : y.symbol = s /\ y.day = x
      BY <3>1
    <3>3. CASE o \in Retained(d)
      BY <2>1, <3>2, <3>3, DaysServed DEF InObjects
    <3>4. CASE o \notin Retained(d)
      <4>1. InObjects(new, s, x)
        BY <1>3, <3>2, <3>4, ReplacedHeld
      <4> QED BY <2>1, <4>1, DaysServed DEF InObjects
    <3> QED BY <3>3, <3>4
  <2> QED BY <1>3, <2>2, DaysArePairs
<1> QED BY <1>1, <1>2, <1>3 DEF Publishing

-----------------------------------------------------------------------------
(* ServedInv, step by step.  What is said of the datasets alone: *)
LEMMA ApartFrame ==
  ASSUME ServedInv, NoLoss, UNCHANGED manifests
  PROVE  \A d \in Datasets : Apart(d)'
<1>1. \A d \in Datasets : Served(d)' = Served(d)
  BY ServedAll
<1> QED BY <1>1 DEF ServedInv, Apart

LEMMA ServedIdle ==
  ASSUME ServedInv, slips \subseteq slips', UNCHANGED manifests, pc' = "idle"
  PROVE  ServedInv'
<1>1. NoLoss' => NoLoss
  BY DEF NoLoss
<1>2. NoLoss' => \A d \in Datasets : Apart(d)'
  BY <1>1, ApartFrame
<1> QED BY <1>2 DEF ServedInv, ToDo

LEMMA ServedSame ==
  ASSUME ServedInv, slips \subseteq slips', UNCHANGED <<today, manifests, pc, job>>
  PROVE  ServedInv'
<1> SUFFICES ASSUME NoLoss' PROVE ServedInv'
  BY DEF ServedInv
<1>1. NoLoss
  BY DEF NoLoss
<1>2. \A d \in Datasets : Apart(d)'
  BY <1>1, ApartFrame
<1>3. ASSUME NEW d \in Datasets
      PROVE  Served(d)' = Served(d) /\ ServedRows(d)' = ServedRows(d) /\ PartDays(d)' = PartDays(d)
  BY ServedAll DEF PartDays
<1>4. ASSUME NEW d \in Datasets
      PROVE  /\ InScope(d)' <=> InScope(d)
             /\ ToDo(d)' <=> ToDo(d)
  BY <1>3 DEF InScope, ToDo
<1>5. ASSUME NEW d \in Datasets
      PROVE  PartsHold(d)' <=> PartsHold(d)
  <2>1. Served(d)' = Served(d) /\ PartDays(d)' = PartDays(d)
    BY <1>3
  <2> QED BY <2>1 DEF PartsHold
<1>6. pc # "idle" => job.key.command # "derive" /\ job.symbols \subseteq Symbols
  BY <1>1 DEF ServedInv
<1>7. \A d \in Datasets : ToDo(d) => InScope(d)
  BY <1>1 DEF ServedInv
<1>8. \A d \in Datasets : pc = "publish" /\ d \in job.rest => PartsHold(d)
  BY <1>1 DEF ServedInv
<1>9. pc = "publish" /\ job.key.command = "incremental" => job.replaced = {{x} : x \in job.key.days}
  BY <1>1 DEF ServedInv
<1>10. \A d \in Datasets : ToDo(d)' => InScope(d)'
  BY <1>4, <1>7
<1>11. \A d \in Datasets : pc' = "publish" /\ d \in job'.rest => PartsHold(d)'
  BY <1>5, <1>8
<1> QED BY <1>2, <1>6, <1>9, <1>10, <1>11 DEF ServedInv

(* A command that collects: a backfill is for all that is served. *)
LEMMA ServedCollecting ==
  ASSUME FitInv, ServedInv, slips \subseteq slips', UNCHANGED manifests,
         NEW key \in Keys, NEW symbols \in SUBSET Symbols, Collecting(key, symbols),
         key.command \in {"incremental", "backfill"},
         key.command = "backfill" =>
             symbols = Symbols /\ \A d \in Datasets : \A x \in ServedRows(d) : x.day \in key.days
  PROVE  ServedInv'
<1> SUFFICES ASSUME NoLoss' PROVE ServedInv'
  BY DEF ServedInv
<1>1. NoLoss
  BY DEF NoLoss
<1>2. \A d \in Datasets : Apart(d)'
  BY <1>1, ApartFrame
<1>3. pc' = "collect" /\ job' = Begun(key, symbols)
  BY DEF Collecting, Begun
<1>4. job'.key = key /\ job'.symbols = symbols
  BY <1>3, JobBegun
<1>5. \A d \in Datasets : ServedRows(d)' = ServedRows(d)
  BY ServedAll
<1>6. \A d \in Datasets : InScope(d)'
  BY <1>4, <1>5 DEF InScope
<1> QED BY <1>2, <1>3, <1>4, <1>6 DEF ServedInv, ToDo

LEMMA ServedEnter ==
  ASSUME FitInv, ServedInv, slips \subseteq slips', UNCHANGED manifests,
         NEW days \in SUBSET Days, NEW symbols \in Requests, EnterIncremental(days, symbols)
  PROVE  ServedInv'
<1>1. CASE IncrementalKey(days) \in succeeded
  <2>1. pc' = "idle"
    BY <1>1 DEF EnterIncremental, End
  <2> QED BY <2>1, ServedIdle
<1>2. CASE IncrementalKey(days) \notin succeeded
  <2>1. Collecting(IncrementalKey(days), symbols)
    BY <1>2 DEF EnterIncremental
  <2>2. IncrementalKey(days) \in Keys /\ symbols \in SUBSET Symbols
    BY KeysTyped, CallAssumption
  <2>3. IncrementalKey(days).command = "incremental"
    BY DEF IncrementalKey
  <2> QED BY <2>1, <2>2, <2>3, ServedCollecting
<1> QED BY <1>1, <1>2

LEMMA ServedIncremental ==
  ASSUME FitInv, ServedInv, slips \subseteq slips',
         NEW days \in SessionRanges, NEW symbols \in Requests, Incremental(days, symbols)
  PROVE  ServedInv'
<1>1. UNCHANGED manifests /\ HasRoom
  BY DEF Incremental
<1>2. \/ Collecting(BackfillKey(Latest(0) + 1, Days), Symbols)
      \/ EnterIncremental(days, symbols)
  <2>1. PICK unfetched \in SUBSET symbols :
          IF Detected(days, symbols \ unfetched)
          THEN Collecting(BackfillKey(Latest(0) + 1, Days), Symbols)
          ELSE EnterIncremental(days, symbols)
    BY DEF Incremental
  <2> QED BY <2>1
<1>3. CASE Collecting(BackfillKey(Latest(0) + 1, Days), Symbols)
  <2>1. Latest(0) + 1 \in 0..MaxRevision
    <3>1. 0 \in Datasets
      BY CallAssumption DEF Datasets
    <3> QED BY <1>1, <3>1, RoomForAll, BoundAssumption
  <2>2. BackfillKey(Latest(0) + 1, Days) \in Keys /\ Symbols \in SUBSET Symbols
    BY <2>1, KeysTyped
  <2>3. /\ BackfillKey(Latest(0) + 1, Days).command = "backfill"
        /\ BackfillKey(Latest(0) + 1, Days).days = Days
    BY DEF BackfillKey
  <2>4. \A d \in Datasets : \A x \in ServedRows(d) : x.day \in Days
    BY ServedTyped DEF Rows
  <2> QED BY <1>1, <1>3, <2>2, <2>3, <2>4, ServedCollecting
<1>4. CASE EnterIncremental(days, symbols)
  <2>1. days \in SUBSET Days
    BY CallAssumption
  <2> QED BY <1>1, <1>4, <2>1, ServedEnter
<1> QED BY <1>2, <1>3, <1>4

LEMMA ServedBackfill ==
  ASSUME Trusted, FitInv, ServedInv, slips \subseteq slips',
         NEW days \in BackfillRanges, NEW symbols \in Requests, Backfill(days, symbols)
  PROVE  ServedInv'
<1>1. /\ UNCHANGED manifests /\ Collecting(BackfillKey(0, days), symbols)
      /\ \A d \in Datasets : ServedDays(d) \subseteq symbols \X days
  BY DEF Backfill, Trusted
<1>2. symbols = Symbols /\ days \in SUBSET Days /\ 0 \in 0..MaxRevision
  BY CallAssumption, BoundAssumption DEF Trusted
<1>3. BackfillKey(0, days) \in Keys
  BY <1>2, KeysTyped
<1>4. BackfillKey(0, days).command = "backfill" /\ BackfillKey(0, days).days = days
  BY DEF BackfillKey
<1>5. ASSUME NEW d \in Datasets, NEW x \in ServedRows(d)
      PROVE  x.day \in days
  <2>1. <<x.symbol, x.day>> \in ServedDays(d)
    BY DEF ServedDays
  <2>2. <<x.symbol, x.day>> \in symbols \X days
    BY <1>1, <2>1
  <2> QED BY <2>2
<1> QED BY <1>1, <1>2, <1>3, <1>4, <1>5, ServedCollecting

LEMMA ServedCollect ==
  ASSUME FitInv, ServedInv, slips \subseteq slips', Collect
  PROVE  ServedInv'
<1> SUFFICES ASSUME NoLoss' PROVE ServedInv'
  BY DEF ServedInv
<1>1. NoLoss
  BY DEF NoLoss
<1>2. /\ pc = "collect" /\ pc' = "publish" /\ UNCHANGED <<today, feed, manifests>>
  BY CollectIs
<1>3. \A d \in Datasets : Apart(d)'
  BY <1>1, <1>2, ApartFrame
<1> DEFINE parts(rows) == IF job.key.command = "incremental" THEN DayParts(job.key.days, rows)
                          ELSE YearParts(Datasets, rows)
           replaced == IF job.key.command = "incremental" THEN {{x} : x \in job.key.days} ELSE {Days}
<1>5. PICK unfetched \in SUBSET job.symbols, rows \in SUBSET Rows :
          /\ "stale" \notin slips' => {x \in rows : x.symbol \notin unfetched}
                                         = Bars(job.symbols \ unfetched, job.key.days)
          /\ job' = Collected(job, parts(rows), replaced, unfetched # {})
  BY CollectIs, Zenon
<1>6. job \in Jobs /\ job.key.days \in SUBSET Days /\ job.symbols \subseteq Symbols
      /\ job.key.command \in {"incremental", "backfill"}
  BY <1>2 DEF FitInv, Typed, Jobs, Keys, JobFits
<1>7. ASSUME NEW d \in Datasets, NEW x \in rows, x.day \in job.key.days
      PROVE  \E p \in parts(rows) : p.dataset = d /\ x \in p.rows
  <2>1. CASE job.key.command = "incremental"
    <3>1. parts(rows) = DayParts(job.key.days, rows)
      BY <2>1
    <3>2. PICK D \in SUBSET Days : D = job.key.days
      BY <1>6
    <3>3. \E p \in DayParts(D, rows) : p.dataset = d /\ x \in p.rows
      BY <1>7, <3>2, DayPartsAre
    <3> HIDE DEF parts
    <3> QED BY <3>1, <3>2, <3>3
  <2>2. CASE job.key.command # "incremental"
    <3>1. parts(rows) = YearParts(Datasets, rows)
      BY <2>2
    <3>2. \E p \in YearParts(Datasets, rows) : p.dataset = d /\ x \in p.rows
      BY YearPartsAre
    <3> HIDE DEF parts
    <3> QED BY <3>1, <3>2
  <2> QED BY <2>1, <2>2
<1>8. /\ parts(rows) \in SUBSET JobParts /\ replaced \in SUBSET SUBSET Days
      /\ (unfetched # {}) \in BOOLEAN
  <2>1. CASE job.key.command = "incremental"
    <3>1. PICK D \in SUBSET Days : D = job.key.days
      BY <1>6
    <3>2. DayParts(D, rows) \in SUBSET JobParts
      BY DayPartsAre
    <3> QED BY <1>6, <2>1, <3>1, <3>2
  <2>2. CASE job.key.command # "incremental"
    <3>1. YearParts(Datasets, rows) \in SUBSET JobParts
      BY YearPartsAre
    <3> QED BY <2>2, <3>1
  <2> QED BY <2>1, <2>2
<1> DEFINE P == parts(rows)
<1>9. /\ job'.key = job.key /\ job'.symbols = job.symbols /\ job'.parts = P
      /\ job'.replaced = replaced /\ job'.incident = (unfetched # {})
  <2>1. PICK incident \in BOOLEAN : incident = (unfetched # {})
    BY <1>8
  <2>2. P \in SUBSET JobParts /\ job' = Collected(job, P, replaced, incident)
    BY <1>5, <1>8, <2>1
  <2>3. job \in Jobs /\ replaced \in SUBSET SUBSET Days
    BY <1>6, <1>8
  <2> HIDE DEF P, parts, replaced
  <2>4. /\ job'.key = job.key /\ job'.symbols = job.symbols /\ job'.parts = P
        /\ job'.replaced = replaced /\ job'.incident = incident
    BY <2>2, <2>3, JobCollected
  <2> QED BY <2>1, <2>4
<1>10. \A x \in rows, d \in Datasets : x.day \in job.key.days => \E p \in P : p.dataset = d /\ x \in p.rows
  BY <1>7
<1>11. replaced = IF job.key.command = "incremental" THEN {{x} : x \in job.key.days} ELSE {Days}
  OBVIOUS
<1> HIDE DEF P, parts, replaced
<1>12. ASSUME NEW d \in Datasets, unfetched = {}, NEW s \in job.symbols, NEW x \in job.key.days, x <= today
       PROVE  <<s, x>> \in PartDays(d)'
  <2> DEFINE y == [symbol |-> s, day |-> x, version |-> feed[s]]
  <2>1. y \in rows
    <3>1. y \in Bars(job.symbols \ unfetched, job.key.days)
      BY <1>12 DEF Bars
    <3>2. "stale" \notin slips'
      BY DEF NoLoss, Losses
    <3> QED BY <1>5, <3>1, <3>2
  <2>2. y.symbol = s /\ y.day = x
    OBVIOUS
  <2> HIDE DEF y
  <2>3. PICK p \in P : p.dataset = d /\ y \in p.rows
    BY <1>10, <2>1, <2>2
  <2>4. InParts(job'.parts, d, s, x)
    BY <1>9, <2>2, <2>3 DEF InParts
  <2> QED BY <2>4, DaysInParts
<1>13. \A d \in Datasets : PartsHold(d)'
  BY <1>2, <1>6, <1>9, <1>12 DEF PartsHold
<1>14. \A d \in Datasets : ServedRows(d)' = ServedRows(d)
  BY <1>2, ServedAll
<1>15. \A d \in Datasets : InScope(d)
  BY <1>1, <1>2 DEF ServedInv, ToDo
<1>16. \A d \in Datasets : InScope(d)'
  BY <1>9, <1>14, <1>15 DEF InScope
<1> QED BY <1>2, <1>3, <1>6, <1>9, <1>11, <1>13, <1>16 DEF ServedInv

LEMMA ServedCompact ==
  ASSUME FitInv, ServedInv, slips \subseteq slips',
         NEW d \in Datasets, NEW grain \in WEEK..YEAR, NEW period \in PeriodsOf(grain),
         Compact(d, grain, period)
  PROVE  ServedInv'
<1> SUFFICES ASSUME NoLoss' PROVE ServedInv'
  BY DEF ServedInv
<1> DEFINE rows == UNION {o.rows : o \in Smaller(d, grain, period)}
           k == CompactKey(d, grain, period)
           parts == Parts(d, grain, period, rows)
<1>1. /\ pc' = "publish" /\ job' = Made(k, parts, {period}, {d})
      /\ period \subseteq UNION {o.period : o \in Smaller(d, grain, period)}
      /\ UNCHANGED <<today, manifests>>
  BY DEF Compact, Made
<1>2. period \in SUBSET Days /\ grain \in DAY..YEAR
  BY PeriodsTyped
<1>3. rows \in SUBSET Rows
  <2>1. Smaller(d, grain, period) \subseteq Served(d)
    BY DEF Smaller
  <2>2. rows \subseteq ServedRows(d)
    BY <2>1 DEF ServedRows
  <2> QED BY <2>2, ServedTyped
<1>4. k \in Keys /\ k.command = "compact"
  <2>1. k.command = "compact"
    BY DEF CompactKey
  <2> QED BY <1>2, <2>1, KeysTyped
<1>5. NoLoss
  BY DEF NoLoss
<1>6. Apart(d) /\ \A e \in Datasets : Apart(e)'
  BY <1>1, <1>5, ApartFrame DEF ServedInv
<1>7. \A o \in Smaller(d, grain, period), x \in Rows : x \in o.rows => x \in rows
  OBVIOUS
<1> HIDE DEF rows, k
<1>8. /\ \A p \in parts : p \in JobParts /\ p.dataset = d
      /\ \A x \in rows : x.day \in period => \E p \in parts : x \in p.rows
  BY <1>2, <1>3, PartsAre
<1> HIDE DEF parts
<1>9. IsJob(Made(k, parts, {period}, {d}), k, parts, {period}, {d})
  <2>1. parts \in SUBSET JobParts /\ {period} \in SUBSET SUBSET Days /\ {d} \in SUBSET Datasets
    BY <1>2, <1>8
  <2> QED BY <1>4, <2>1, JobMade
<1>10. /\ job'.key = k /\ job'.symbols = {} /\ job'.parts = parts /\ job'.replaced = {period}
       /\ job'.rest = {d}
  BY <1>1, <1>9 DEF IsJob
<1>11. Served(d)' = Served(d)
  BY <1>1, ServedAll
<1>12. UNION job'.replaced = period
  BY <1>10
<1>13. ASSUME NEW o \in Served(d), o.period \subseteq period, o.period \cap period # {},
              NEW y \in o.rows
       PROVE  <<y.symbol, y.day>> \in PartDays(d)'
  <2>1. PICK z \in o.period : z \in period
    BY <1>13
  <2>2. PICK q \in Smaller(d, grain, period) : z \in q.period
    BY <1>1, <2>1
  <2>3. q \in Served(d) /\ q.grain < grain
    BY DEF Smaller
  <2>4. o.period = q.period /\ o.grain = q.grain
    BY <1>6, <2>1, <2>2, <2>3 DEF Apart
  <2>5. o \in Smaller(d, grain, period)
    BY <1>13, <2>3, <2>4 DEF Smaller
  <2>6. y \in Rows /\ y.day \in period
    BY <1>13, ServedTyped DEF Objects, Placed
  <2>7. PICK p \in parts : y \in p.rows
    BY <1>7, <1>8, <2>5, <2>6
  <2>8. InParts(job'.parts, d, y.symbol, y.day)
    BY <1>8, <1>10, <2>7 DEF InParts
  <2> QED BY <2>8, DaysInParts
<1>14. PartsHold(d)'
  BY <1>4, <1>10, <1>11, <1>12, <1>13 DEF PartsHold
<1>15. \A e \in Datasets : InScope(e)'
  BY <1>4, <1>10 DEF InScope
<1> QED BY <1>1, <1>4, <1>6, <1>10, <1>14, <1>15 DEF ServedInv

LEMMA ServedMigrate ==
  ASSUME Trusted, FitInv, ServedInv, slips \subseteq slips', Migrate
  PROVE  ServedInv'
<1> SUFFICES ASSUME NoLoss' PROVE ServedInv'
  BY DEF ServedInv
<1>1. /\ pc' = "publish" /\ UNCHANGED <<today, manifests>>
      /\ \A d \in Datasets : ServedDays(d) \subseteq Symbols \X LegacyDays
  BY MigrateIs DEF Trusted
<1>2. PICK parts \in SUBSET JobParts, flawed \in BOOLEAN :
         job' = Failed(Made(MigrateKey, parts, {Days}, Datasets), flawed)
  BY MigrateIs
<1>3. MigrateKey \in Keys /\ MigrateKey.command = "migrate"
  BY KeysTyped DEF MigrateKey, NoKey
<1>4. job'.key = MigrateKey /\ job'.symbols = {}
  <2> DEFINE M == Made(MigrateKey, parts, {Days}, Datasets)
  <2>1. IsJob(M, MigrateKey, parts, {Days}, Datasets)
    BY <1>3, JobMade
  <2> HIDE DEF M
  <2>2. M \in Jobs /\ M.key = MigrateKey /\ M.symbols = {}
    BY <2>1 DEF IsJob
  <2>3. job' = Failed(M, flawed)
    BY <1>2 DEF M
  <2> QED BY <2>2, <2>3, JobFailed
<1>5. NoLoss
  BY DEF NoLoss
<1>6. \A d \in Datasets : Apart(d)' /\ ServedRows(d)' = ServedRows(d)
  BY <1>1, <1>5, ApartFrame, ServedAll
<1>7. ASSUME NEW d \in Datasets, NEW x \in ServedRows(d)
      PROVE  x.day \in LegacyDays
  <2>1. <<x.symbol, x.day>> \in ServedDays(d)
    BY DEF ServedDays
  <2>2. <<x.symbol, x.day>> \in Symbols \X LegacyDays
    BY <1>1, <2>1
  <2> QED BY <2>2
<1>8. \A d \in Datasets : InScope(d)'
  BY <1>3, <1>4, <1>6, <1>7 DEF InScope
<1>9. \A d \in Datasets : PartsHold(d)'
  BY <1>3, <1>4 DEF PartsHold
<1> QED BY <1>1, <1>3, <1>4, <1>6, <1>8, <1>9 DEF ServedInv

(* New objects are of periods that none of the retained ones meets. *)
LEMMA PublishApart ==
  ASSUME FitInv, pc = "publish",
         NEW d, NEW l, NEW r, NEW new, NEW snapshot, NEW good,
         Publishing(d, l, r, new, snapshot, good), NoReuse', Apart(d)
  PROVE  Apart(d)'
<1>3. CASE ~good
  <2>1. Served(d)' = Served(d)
    BY <1>3, PublishedServed
  <2> QED BY <2>1 DEF Apart
<1>4. CASE good
  <2>1. Served(d)' = Retained(d) \cup new
    BY <1>4, PublishedServed
  <2>2. new = {ObjectOf(p, r) : p \in {q \in job.parts : q.dataset = d}}
    BY DEF Publishing
  <2>3. \A o \in new : \E p \in job.parts : o.period = p.period /\ o.grain = p.grain
    BY <2>2 DEF ObjectOf
  <2>4. /\ \A p \in job.parts : p.period \in job.replaced
        /\ \A p, q \in job.parts :
             p.period \cap q.period # {} => p.period = q.period /\ p.grain = q.grain
    BY DEF FitInv, JobFits
  <2>5. \A o, q \in new : o.period \cap q.period # {} => o.period = q.period /\ o.grain = q.grain
    BY <2>3, <2>4
  <2>6. \A o \in Retained(d), q \in new : o.period \cap q.period = {}
    BY <2>3, <2>4 DEF Retained
  <2>7. \A o, q \in Retained(d) : o.period \cap q.period # {} => o.period = q.period /\ o.grain = q.grain
    BY DEF Retained, Apart
  <2>8. ASSUME NEW o \in Served(d)', NEW q \in Served(d)', o.period \cap q.period # {}
        PROVE  o.period = q.period /\ o.grain = q.grain
    BY <2>1, <2>5, <2>6, <2>7, <2>8
  <2> QED BY <2>8 DEF Apart
<1> QED BY <1>3, <1>4 DEF Publishing

LEMMA OthersStay ==
  ASSUME FitInv, pc = "publish", NEW d, NEW l, NEW r, NEW new, NEW snapshot, NEW good,
         Publishing(d, l, r, new, snapshot, good), NEW e \in Datasets, e # d
  PROVE  Served(e)' = Served(e) /\ ServedRows(e)' = ServedRows(e) /\ ServedDays(e)' = ServedDays(e)
<1>1. manifests' = [manifests EXCEPT ![d] = manifests'[d]] /\ d \in Datasets
  BY PublishedManifests
<1>2. manifests \in [Datasets -> [Revisions -> Manifests]]
  BY DEF FitInv, Typed
<1>3. manifests'[e] = manifests[e]
  BY <1>1, <1>2
<1> QED BY <1>3, ServedFrame

LEMMA ServedPublish ==
  ASSUME FitInv, ServedInv, slips \subseteq slips', Publish
  PROVE  ServedInv'
<1> SUFFICES ASSUME NoLoss' PROVE ServedInv'
  BY DEF ServedInv
<1>1. /\ pc = "publish" /\ pc' = "publish" /\ today' = today
  BY PublishIs
<1>2. PICK d, l, r, new, snapshot, good : Publishing(d, l, r, new, snapshot, good)
  BY PublishIs, Zenon
<1>3. NoLoss
  BY DEF NoLoss
<1>4. /\ job'.key = job.key /\ job'.symbols = job.symbols
      /\ job'.parts = job.parts /\ job'.replaced = job.replaced /\ job'.rest = job.rest \ {d}
      /\ job'.incident = job.incident
  BY <1>2, PublishedJob
<1>5. ASSUME NEW e \in Datasets
      PROVE  Apart(e)'
  <2>1. CASE e = d
    <3>1. Apart(d) /\ NoReuse'
      BY <1>3, <2>1, NoLossNoReuse DEF ServedInv
    <3> QED BY <1>1, <1>2, <2>1, <3>1, PublishApart
  <2>2. CASE e # d
    <3>1. Served(e)' = Served(e)
      BY <1>1, <1>2, <2>2, OthersStay
    <3> QED BY <1>3, <3>1 DEF ServedInv, Apart
  <2> QED BY <2>1, <2>2
<1>6. ASSUME NEW e \in Datasets, e \in job'.rest
      PROVE  InScope(e)' /\ PartsHold(e)'
  <2>1. Served(e)' = Served(e) /\ ServedRows(e)' = ServedRows(e)
    BY <1>1, <1>2, <1>4, <1>6, OthersStay
  <2>2. PartDays(e)' = PartDays(e)
    BY <1>4 DEF PartDays
  <2>3. InScope(e) /\ PartsHold(e)
    BY <1>1, <1>3, <1>4, <1>6 DEF ServedInv, ToDo
  <2>4. InScope(e)'
    BY <1>4, <2>1, <2>3 DEF InScope
  <2>5. PartsHold(e)'
    BY <1>1, <1>4, <2>1, <2>2, <2>3 DEF PartsHold
  <2> QED BY <2>4, <2>5
<1>7. job.key.command # "derive" /\ job.symbols \subseteq Symbols
      /\ (job.key.command = "incremental" => job.replaced = {{x} : x \in job.key.days})
  BY <1>1, <1>3 DEF ServedInv
<1> QED BY <1>1, <1>4, <1>5, <1>6, <1>7 DEF ServedInv, ToDo

LEMMA ServedNext == Trusted => (FitInv /\ ServedInv /\ [Next]_vars => ServedInv')
<1> SUFFICES ASSUME Trusted, FitInv, ServedInv, [Next]_vars PROVE ServedInv'
  OBVIOUS
<1>0. slips \subseteq slips'
  BY SlipsGrow
<1>1. CASE UNCHANGED vars
  BY <1>0, <1>1, ServedSame DEF vars
<1>2. CASE NextDay
  BY <1>0, <1>2, ServedIdle DEF NextDay
<1>3. CASE \E s \in Symbols : Split(s)
  BY <1>0, <1>3, ServedSame DEF Split
<1>4. CASE \E days \in SessionRanges, symbols \in Requests : Incremental(days, symbols)
  BY <1>0, <1>4, ServedIncremental
<1>5. CASE \E days \in BackfillRanges, symbols \in Requests : Backfill(days, symbols)
  BY <1>0, <1>5, ServedBackfill
<1>6. CASE Collect
  BY <1>0, <1>6, ServedCollect
<1>7. CASE \E d \in Datasets, grain \in WEEK..YEAR : \E period \in PeriodsOf(grain) :
            Compact(d, grain, period)
  BY <1>0, <1>7, ServedCompact
<1>8. CASE Derive
  BY <1>8 DEF Derive, Trusted
<1>9. CASE Migrate
  BY <1>0, <1>9, ServedMigrate
<1>10. CASE Publish
  BY <1>0, <1>10, ServedPublish
<1>11. CASE Refused
  BY <1>0, <1>11, ServedIdle DEF Refused, End
<1>12. CASE Finish
  <2>1. UNCHANGED manifests
    BY <1>12 DEF Finish
  <2>2. CASE job.flawed \/ waiting.days = {}
    <3>1. End
      BY <1>12, <2>2 DEF Finish
    <3> QED BY <1>0, <2>1, <3>1, ServedIdle DEF End
  <2>3. CASE ~job.flawed /\ waiting.days # {}
    <3>1. EnterIncremental(waiting.days, waiting.symbols)
      BY <1>12, <2>3 DEF Finish
    <3>2. waiting.days \in SUBSET Days /\ waiting.symbols \in Requests
      BY <1>12, <2>3 DEF Finish, FitInv, Typed, Calls, JobFits
    <3> QED BY <1>0, <2>1, <3>1, <3>2, ServedEnter
  <2> QED BY <2>2, <2>3
<1>13. CASE Dies
  BY <1>0, <1>13, ServedIdle DEF Dies, End
<1> QED BY <1>1, <1>2, <1>3, <1>4, <1>5, <1>6, <1>7, <1>8, <1>9, <1>10, <1>11, <1>12, <1>13 DEF Next

LEMMA NothingServed ==
  ASSUME Init, NEW d \in Datasets
  PROVE  Served(d) = {}
<1>1. \A r \in Revisions : manifests[d][r].objects = {}
  BY DEF Init, NoManifest
<1>2. Latest(d) = 0 \/ Latest(d) \in Revisions
  BY LatestNow, BoundAssumption DEF Revisions
<1> QED BY <1>1, <1>2 DEF Served

LEMMA ServedFirst == Init => ServedInv
<1> SUFFICES ASSUME Init PROVE ServedInv
  OBVIOUS
<1>1. \A d \in Datasets : Served(d) = {}
  BY NothingServed
<1>2. \A d \in Datasets : Apart(d)
  BY <1>1 DEF Apart
<1> QED BY <1>2 DEF Init, ServedInv, ToDo

-----------------------------------------------------------------------------
(* ToldInv, step by step. *)
LEMMA ToldFirst == Init => ToldInv
BY DEF Init, ToldInv

(* A step that publishes nothing and adds no key. *)
LEMMA ToldSame ==
  ASSUME ToldInv, slips \subseteq slips', UNCHANGED <<manifests, succeeded>>,
         \/ told' = told
         \/ \E days \in SUBSET Days, symbols \in SUBSET Symbols :
               IncrementalKey(days) \in succeeded /\ told' = told \cup (symbols \X days),
         \/ pc' # "publish" \/ job'.key.command # "incremental" \/ job'.rest = Datasets
         \/ UNCHANGED <<pc, job>>
  PROVE  ToldInv'
<1> SUFFICES ASSUME NoLoss' PROVE ToldInv'
  BY DEF ToldInv
<1>1. NoLoss
  BY DEF NoLoss
<1>2. /\ \A days \in SUBSET Days : IncrementalKey(days) \in succeeded => Symbols \X days \subseteq told
      /\ \A d \in Datasets : told \subseteq ServedDays(d)
      /\ pc = "publish" /\ job.key.command = "incremental" /\ ~job.flawed =>
            \A d \in Datasets \ job.rest : Symbols \X job.key.days \subseteq ServedDays(d)
  BY <1>1 DEF ToldInv
<1>3. told' = told
  <2>1. CASE told' = told
    BY <2>1
  <2>2. ASSUME NEW days \in SUBSET Days, NEW symbols \in SUBSET Symbols,
               IncrementalKey(days) \in succeeded, told' = told \cup (symbols \X days)
        PROVE  told' = told
    <3>1. Symbols \X days \subseteq told
      BY <1>2, <2>2
    <3>2. symbols \X days \subseteq Symbols \X days
      OBVIOUS
    <3> QED BY <2>2, <3>1, <3>2
  <2> QED BY <2>1, <2>2
<1>4. \A d \in Datasets : ServedDays(d)' = ServedDays(d)
  BY ServedAll
<1>5. \A days : IncrementalKey(days)' = IncrementalKey(days)
  BY DEF IncrementalKey
<1>6. \A days \in SUBSET Days : IncrementalKey(days)' \in succeeded' => Symbols \X days \subseteq told'
  BY <1>2, <1>3, <1>5
<1>7. \A d \in Datasets : told' \subseteq ServedDays(d)'
  BY <1>2, <1>3, <1>4
<1>8. pc' = "publish" /\ job'.key.command = "incremental" /\ ~job'.flawed =>
            \A d \in Datasets \ job'.rest : Symbols \X job'.key.days \subseteq ServedDays(d)'
  BY <1>2, <1>4
<1> QED BY <1>6, <1>7, <1>8 DEF ToldInv

LEMMA ToldEnter ==
  ASSUME NEW days \in SUBSET Days, NEW symbols \in Requests, EnterIncremental(days, symbols)
  PROVE  /\ pc' # "publish"
         /\ \/ told' = told
            \/ \E d \in SUBSET Days, s \in SUBSET Symbols :
                  IncrementalKey(d) \in succeeded /\ told' = told \cup (s \X d)
<1>1. symbols \in SUBSET Symbols
  BY CallAssumption
<1>2. CASE IncrementalKey(days) \in succeeded
  BY <1>1, <1>2 DEF EnterIncremental, End, Told
<1>3. CASE IncrementalKey(days) \notin succeeded
  BY <1>3 DEF EnterIncremental, Collecting
<1> QED BY <1>2, <1>3

LEMMA ToldIncremental ==
  ASSUME FitInv, ToldInv, slips \subseteq slips',
         NEW days \in SessionRanges, NEW symbols \in Requests, Incremental(days, symbols)
  PROVE  ToldInv'
<1>1. UNCHANGED <<manifests, succeeded>>
  BY DEF Incremental
<1>2. \/ Collecting(BackfillKey(Latest(0) + 1, Days), Symbols) /\ told' = told
      \/ EnterIncremental(days, symbols)
  <2>1. PICK unfetched \in SUBSET symbols :
          IF Detected(days, symbols \ unfetched)
          THEN Collecting(BackfillKey(Latest(0) + 1, Days), Symbols) /\ UNCHANGED history
          ELSE EnterIncremental(days, symbols)
    BY DEF Incremental
  <2> QED BY <2>1 DEF history
<1>3. CASE Collecting(BackfillKey(Latest(0) + 1, Days), Symbols) /\ told' = told
  <2>1. pc' # "publish"
    BY <1>3 DEF Collecting
  <2> QED BY <1>1, <1>3, <2>1, ToldSame
<1>4. CASE EnterIncremental(days, symbols)
  <2>1. days \in SUBSET Days
    BY CallAssumption
  <2>2. /\ pc' # "publish"
        /\ \/ told' = told
           \/ \E d \in SUBSET Days, s \in SUBSET Symbols :
                 IncrementalKey(d) \in succeeded /\ told' = told \cup (s \X d)
    BY <1>4, <2>1, ToldEnter
  <2> QED BY <1>1, <2>2, ToldSame
<1> QED BY <1>2, <1>3, <1>4

LEMMA ToldPublish ==
  ASSUME Trusted, FitInv, ServedInv, ToldInv, slips \subseteq slips', Publish
  PROVE  ToldInv'
<1> SUFFICES ASSUME NoLoss' PROVE ToldInv'
  BY DEF ToldInv
<1>1. /\ pc = "publish" /\ pc' = "publish" /\ UNCHANGED <<succeeded, told>>
  BY PublishIs
<1>2. PICK d, l, r, new, snapshot, good : Publishing(d, l, r, new, snapshot, good)
  BY PublishIs, Zenon
<1>3. NoLoss
  BY DEF NoLoss
<1>4. /\ \A days \in SUBSET Days : IncrementalKey(days) \in succeeded => Symbols \X days \subseteq told
      /\ \A e \in Datasets : told \subseteq ServedDays(e)
      /\ pc = "publish" /\ job.key.command = "incremental" /\ ~job.flawed =>
            \A e \in Datasets \ job.rest : Symbols \X job.key.days \subseteq ServedDays(e)
  BY <1>3 DEF ToldInv
<1>5. \A e \in Datasets : ServedDays(e) \subseteq ServedDays(e)'
  BY <1>1, <1>2, PublishKeeps
<1>6. /\ job'.key = job.key /\ job'.parts = job.parts /\ job'.rest = job.rest \ {d}
      /\ job'.flawed = (job.flawed \/ ~good)
  BY <1>2, PublishedJob
<1>7. ASSUME job.key.command = "incremental", good, NEW s \in Symbols, NEW x \in job.key.days
      PROVE  <<s, x>> \in ServedDays(d)'
  <2>1. d \in Datasets /\ d \in job.rest /\ ~job.incident
        /\ new = {ObjectOf(p, r) : p \in {q \in job.parts : q.dataset = d}}
    <3>1. d \in Datasets
      BY <1>1, <1>2, PublishedManifests
    <3> QED BY <1>2, <1>7, <3>1 DEF Publishing
  <2>2. job.symbols = Symbols /\ x <= today
    BY <1>1, <1>7 DEF Trusted, FitInv, JobFits
  <2>3. PartsHold(d)
    BY <1>1, <1>3, <2>1 DEF ServedInv
  <2>4. <<s, x>> \in PartDays(d)
    BY <1>7, <2>1, <2>2, <2>3 DEF PartsHold
  <2>5. PICK q \in job.parts : q.dataset = d /\ \E z \in q.rows : z.symbol = s /\ z.day = x
    BY <2>4, DaysInParts DEF InParts
  <2>6. ObjectOf(q, r) \in new /\ ObjectOf(q, r).rows = q.rows
    BY <2>1, <2>5 DEF ObjectOf
  <2>7. Served(d)' = Retained(d) \cup new
    BY <1>1, <1>2, <1>7, PublishedServed, NoLossNoReuse
  <2>8. InObjects(Served(d)', s, x)
    BY <2>5, <2>6, <2>7 DEF InObjects
  <2> QED BY <2>8, DaysServed
<1>8. ASSUME job'.key.command = "incremental", ~job'.flawed, NEW e \in Datasets \ job'.rest
      PROVE  Symbols \X job'.key.days \subseteq ServedDays(e)'
  <2>1. job.key.command = "incremental" /\ ~job.flawed /\ good
    BY <1>2, <1>6, <1>8 DEF Publishing
  <2>2. CASE e = d
    BY <1>6, <1>7, <2>1, <2>2
  <2>3. CASE e # d
    BY <1>1, <1>4, <1>5, <1>6, <1>8, <2>1, <2>3
  <2> QED BY <2>2, <2>3
<1>9. \A days : IncrementalKey(days)' = IncrementalKey(days)
  BY DEF IncrementalKey
<1>10. \A days \in SUBSET Days : IncrementalKey(days)' \in succeeded' => Symbols \X days \subseteq told'
  BY <1>1, <1>4, <1>9
<1>11. \A e \in Datasets : told' \subseteq ServedDays(e)'
  BY <1>1, <1>4, <1>5
<1> QED BY <1>1, <1>8, <1>10, <1>11 DEF ToldInv

LEMMA ToldFinish ==
  ASSUME Trusted, FitInv, ToldInv, slips \subseteq slips', Finish
  PROVE  ToldInv'
<1> SUFFICES ASSUME NoLoss' PROVE ToldInv'
  BY DEF ToldInv
<1>1. pc = "publish" /\ job.rest = {} /\ UNCHANGED manifests
  BY DEF Finish
<1>2. CASE job.flawed
  <2>1. pc' # "publish" /\ UNCHANGED <<succeeded, told>>
    BY <1>2 DEF Finish, End
  <2> QED BY <1>1, <2>1, ToldSame
<1>3. CASE ~job.flawed
  <2>1. NoLoss
    BY DEF NoLoss
  <2>2. /\ \A days \in SUBSET Days : IncrementalKey(days) \in succeeded => Symbols \X days \subseteq told
        /\ \A d \in Datasets : told \subseteq ServedDays(d)
        /\ job.key.command = "incremental" =>
              \A d \in Datasets : Symbols \X job.key.days \subseteq ServedDays(d)
    BY <1>1, <1>3, <2>1 DEF ToldInv
  <2>3. succeeded' = succeeded \cup {job.key}
    BY <1>3 DEF Finish
  <2>4. \A d \in Datasets : ServedDays(d)' = ServedDays(d)
    BY <1>1, ServedAll
  <2>5. \A days : IncrementalKey(days)' = IncrementalKey(days)
        /\ IncrementalKey(days).command = "incremental" /\ IncrementalKey(days).days = days
    BY DEF IncrementalKey
  <2>6. /\ pc' # "publish" /\ told \subseteq told'
        /\ job.key.command = "incremental" => told' = told \cup (Symbols \X job.key.days)
        /\ job.key.command # "incremental" => told' = told
    <3>1. CASE waiting.days # {}
      <4>1. EnterIncremental(waiting.days, waiting.symbols)
        BY <1>3, <3>1 DEF Finish
      <4>2. waiting.days \in SUBSET Days /\ waiting.symbols \in Requests
            /\ job.key.command = "backfill"
        BY <1>1, <3>1 DEF FitInv, Typed, Calls, JobFits
      <4>3. /\ pc' # "publish"
            /\ \/ told' = told
               \/ \E d \in SUBSET Days, s \in SUBSET Symbols :
                     IncrementalKey(d) \in succeeded /\ told' = told \cup (s \X d)
        BY <4>1, <4>2, ToldEnter
      <4>4. ASSUME NEW d \in SUBSET Days, NEW s \in SUBSET Symbols,
                   IncrementalKey(d) \in succeeded, told' = told \cup (s \X d)
            PROVE  told' = told
        <5>1. Symbols \X d \subseteq told
          BY <2>2, <4>4
        <5>2. s \X d \subseteq Symbols \X d
          OBVIOUS
        <5> QED BY <4>4, <5>1, <5>2
      <4> QED BY <4>2, <4>3, <4>4
    <3>2. CASE waiting.days = {}
      <4>1. pc' = "idle" /\ (IF job.key.command = "incremental"
                             THEN told' = told \cup (job.symbols \X job.key.days) ELSE told' = told)
        BY <1>3, <3>2 DEF Finish, End, Told
      <4>2. job.key.command = "incremental" => job.symbols = Symbols
        BY <1>1 DEF FitInv, JobFits, Trusted
      <4> QED BY <4>1, <4>2
    <3> QED BY <3>1, <3>2
  <2>7. ASSUME NEW days \in SUBSET Days, IncrementalKey(days)' \in succeeded'
        PROVE  Symbols \X days \subseteq told'
    <3>1. CASE IncrementalKey(days) \in succeeded
      BY <2>2, <2>6, <3>1
    <3>2. CASE IncrementalKey(days) = job.key
      BY <2>5, <2>6, <3>2
    <3> QED BY <2>3, <2>5, <2>7, <3>1, <3>2
  <2>8. \A d \in Datasets : told' \subseteq ServedDays(d)'
    BY <2>2, <2>4, <2>6
  <2> QED BY <2>6, <2>7, <2>8 DEF ToldInv
<1> QED BY <1>2, <1>3

LEMMA ToldNext == Trusted => (FitInv /\ ServedInv /\ ToldInv /\ [Next]_vars => ToldInv')
<1> SUFFICES ASSUME Trusted, FitInv, ServedInv, ToldInv, [Next]_vars PROVE ToldInv'
  OBVIOUS
<1>0. slips \subseteq slips'
  BY SlipsGrow
<1>1. CASE UNCHANGED vars
  BY <1>0, <1>1, ToldSame DEF vars, history
<1>2. CASE NextDay
  BY <1>0, <1>2, ToldSame DEF NextDay, history
<1>3. CASE \E s \in Symbols : Split(s)
  BY <1>0, <1>3, ToldSame DEF Split
<1>4. CASE \E days \in SessionRanges, symbols \in Requests : Incremental(days, symbols)
  BY <1>0, <1>4, ToldIncremental
<1>5. CASE \E days \in BackfillRanges, symbols \in Requests : Backfill(days, symbols)
  BY <1>0, <1>5, ToldSame DEF Backfill, Collecting, history
<1>6. CASE Collect
  <2>1. UNCHANGED <<manifests, succeeded, told>>
    BY <1>6, CollectIs
  <2>2. job'.rest = Datasets
    <3>1. PICK skipped \in SUBSET Symbols, unfetched \in SUBSET job.symbols :
             \E fetched \in SUBSET job.symbols, rows \in SUBSET Rows :
                job' = Collected(job,
                             IF job.key.command = "incremental" THEN DayParts(job.key.days, rows)
                             ELSE YearParts(Datasets, rows),
                             IF job.key.command = "incremental" THEN {{x} : x \in job.key.days}
                             ELSE {Days},
                             unfetched # {})
      BY <1>6, CollectIs, Zenon
    <3>2. PICK parts, replaced, incident : job' = Collected(job, parts, replaced, incident)
      BY <3>1, Zenon
    <3>3. job \in Jobs
      BY DEF FitInv, Typed
    <3> QED BY <3>2, <3>3 DEF Collected, Jobs
  <2> QED BY <1>0, <2>1, <2>2, ToldSame
<1>7. CASE \E d \in Datasets, grain \in WEEK..YEAR : \E period \in PeriodsOf(grain) :
            Compact(d, grain, period)
  <2>1. PICK d \in Datasets, grain \in WEEK..YEAR :
          \E period \in PeriodsOf(grain) : Compact(d, grain, period)
    BY <1>7
  <2>2. PICK period \in PeriodsOf(grain) : Compact(d, grain, period)
    BY <2>1
  <2>3. UNCHANGED <<manifests, succeeded, told>>
    BY <2>2 DEF Compact, history
  <2>4. PICK parts, replaced, rest : job' = Made(CompactKey(d, grain, period), parts, replaced, rest)
    BY <2>2, Zenon DEF Compact, Made
  <2>5. job'.key = CompactKey(d, grain, period)
    BY <2>4, IdleTyped DEF Made, Jobs
  <2>6. job'.key.command # "incremental"
    BY <2>5 DEF CompactKey
  <2> QED BY <1>0, <2>3, <2>6, ToldSame
<1>8. CASE Derive
  BY <1>8 DEF Derive, Trusted
<1>9. CASE Migrate
  <2>1. UNCHANGED <<manifests, succeeded, told>>
    BY <1>9, MigrateIs
  <2>2. PICK parts, flawed : job' = Failed(Made(MigrateKey, parts, {Days}, Datasets), flawed)
    BY <1>9, MigrateIs, Zenon
  <2>3. job'.key = MigrateKey
    BY <2>2, IdleTyped DEF Made, Failed, Jobs
  <2>4. job'.key.command # "incremental"
    BY <2>3 DEF MigrateKey, NoKey
  <2> QED BY <1>0, <2>1, <2>4, ToldSame
<1>10. CASE Publish
  BY <1>0, <1>10, ToldPublish
<1>11. CASE Refused
  BY <1>0, <1>11, ToldSame DEF Refused, End
<1>12. CASE Finish
  BY <1>0, <1>12, ToldFinish
<1>13. CASE Dies
  BY <1>0, <1>13, ToldSame DEF Dies, End
<1> QED BY <1>1, <1>2, <1>3, <1>4, <1>5, <1>6, <1>7, <1>8, <1>9, <1>10, <1>11, <1>12, <1>13 DEF Next

-----------------------------------------------------------------------------
Kept == FitInv /\ ServedInv /\ ToldInv

LEMMA KeptAlways == Trusted => (Spec => []Kept)
<1> SUFFICES ASSUME Trusted PROVE Spec => []Kept
  OBVIOUS
<1>1. Init => Kept
  BY FitFirst, ServedFirst, ToldFirst DEF Kept
<1>2. Kept /\ [Next]_vars => Kept'
  BY FitNext, ServedNext, ToldNext DEF Kept
<1> QED BY <1>1, <1>2, PTL DEF Spec

(* What an incremental that answered SUCCEEDED was for is served from then     *)
(* on, natively and in every derived dataset, whatever is collected, corrected, *)
(* compacted or migrated later and whatever fails or dies on the way.          *)
THEOREM AlwaysTold == Trusted => (Spec => []ToldIsServed)
<1> SUFFICES ASSUME Trusted PROVE Spec => []ToldIsServed
  OBVIOUS
<1>1. Kept => ToldIsServed
  BY DEF Kept, ToldInv, ToldIsServed, NoLoss
<1> QED BY <1>1, KeptAlways, PTL

(* No step of any command takes a symbol's day from the readers of a dataset.  *)
THEOREM AlwaysStays == Trusted => (Spec => StaysServed)
<1> SUFFICES ASSUME Trusted PROVE Spec => StaysServed
  OBVIOUS
<1> DEFINE Keeps == slips' \cap Losses = {} =>
                        \A d \in Datasets : ServedDays(d) \subseteq ServedDays(d)'
<1>1. Kept /\ [Next]_vars => [Keeps]_vars
  <2> SUFFICES ASSUME Kept, [Next]_vars, slips' \cap Losses = {}, NEW d \in Datasets
               PROVE  ServedDays(d) \subseteq ServedDays(d)'
    OBVIOUS
  <2>1. NoLoss' /\ FitInv /\ ServedInv
    BY DEF NoLoss, Kept
  <2>2. CASE Publish
    <3>1. pc = "publish"
      BY <2>1, <2>2, PublishIs
    <3>2. PICK e, l, r, new, snapshot, good : Publishing(e, l, r, new, snapshot, good)
      BY <2>1, <2>2, PublishIs, Zenon
    <3> QED BY <2>1, <3>1, <3>2, PublishKeeps
  <2>3. CASE UNCHANGED manifests
    BY <2>3, ServedAll
  <2>4. Publish \/ UNCHANGED manifests
    BY DEF Next, vars, NextDay, Split, Incremental, Backfill, Collect, Compact, Derive, Migrate,
           Refused, Finish, Dies
  <2> QED BY <2>2, <2>3, <2>4
<1>2. (Spec => []Kept) /\ (Spec => [][Next]_vars)
  BY KeptAlways, PTL DEF Spec
<1>3. Spec => [][Keeps]_vars
  BY <1>1, <1>2, PTL
<1> QED BY <1>3 DEF StaysServed
-----------------------------------------------------------------------------
(* Which rows the datasets serve, and not only which days: a command either    *)
(* does the same to all datasets, or leaves their rows alone.                *)

(* What the parts of a dataset hold, and what stays beside them. *)
PartRows(d) == UNION {p.rows : p \in {q \in job.parts : q.dataset = d}}

Beside(d) == {x \in ServedRows(d) : x.day \notin (UNION job.replaced) \cup Cut(d)}

NoSplinter == slips \cap ({"leaked", "inplace"} \cup Splinters) = {}

(* A dataset that the command still publishes as it did the native one. *)
Awaits(d) == d \in job.rest /\ ~job.flawed

AllSame == \A d \in Datasets : ServedRows(d) = ServedRows(0)

(* The staging files of migrate hold bars of the legacy files. *)
StagedLegacy == \A f \in staging : f.key.command = "migrate" => f.row \in Legacy

(* While a command publishes, the native dataset has already what the others    *)
(* will have; compact and derive change no rows.                             *)
SameInv ==
    /\ StagedLegacy
    /\ NoSplinter =>
        /\ \A d \in Datasets : Apart(d)
        /\ pc # "publish" \/ ~OfAllDatasets \/ 0 \in job.rest => AllSame
        /\ pc = "publish" /\ ~OfAllDatasets =>
               \A d \in job.rest : Cut(d) = {} => Beside(d) \cup PartRows(d) = ServedRows(d)
        /\ pc = "publish" /\ OfAllDatasets =>
            /\ 0 \in job.rest => job.rest = Datasets
            /\ ~job.flawed => \A d \in Datasets : PartRows(d) = PartRows(0)
            /\ 0 \notin job.rest =>
                   \A d \in Datasets : ServedRows(0) =
                       IF Awaits(d) THEN Beside(d) \cup PartRows(d) ELSE ServedRows(d)

LEMMA NoSplinterNoReuse ==
  ASSUME slips \subseteq slips', NoSplinter'
  PROVE  NoSplinter /\ NoReuse'
BY DEF NoSplinter, NoReuse

LEMMA InPartRows ==
  ASSUME NEW d, NEW x
  PROVE  x \in PartRows(d) <=> \E p \in job.parts : p.dataset = d /\ x \in p.rows
BY DEF PartRows

(* The rows of a dataset after a publication. *)
LEMMA PublishedRows ==
  ASSUME FitInv, pc = "publish", NEW d, NEW l, NEW r, NEW new, NEW snapshot, NEW good,
         Publishing(d, l, r, new, snapshot, good), NoReuse', Apart(d)
  PROVE  ServedRows(d)' = IF good THEN Beside(d) \cup PartRows(d) ELSE ServedRows(d)
<1>0. new = {ObjectOf(p, r) : p \in {q \in job.parts : q.dataset = d}}
  BY DEF Publishing
<1>1. d \in Datasets
  BY PublishedManifests
<1>2. Served(d)' = IF good THEN Retained(d) \cup new ELSE Served(d)
  BY PublishedServed
<1>3. ASSUME NEW x PROVE (\E o \in new : x \in o.rows) <=> x \in PartRows(d)
  <2>1. \A p : ObjectOf(p, r).rows = p.rows
    BY DEF ObjectOf
  <2>2. (\E o \in new : x \in o.rows) <=> \E p \in job.parts : p.dataset = d /\ x \in p.rows
    BY <1>0, <2>1
  <2> QED BY <2>2, InPartRows
<1>4. \A o \in Served(d) : Placed(o)
  BY <1>1, ServedTyped
<1>5. ASSUME NEW x, NEW o \in Retained(d), x \in o.rows
      PROVE  x \in Beside(d)
  <2>1. o \in Served(d) /\ x.day \in o.period /\ \A p \in job.replaced : o.period \cap p = {}
    BY <1>4, <1>5 DEF Retained, Placed
  <2>2. x.day \notin UNION job.replaced
    BY <2>1
  <2>3. ASSUME x.day \in Cut(d) PROVE FALSE
    <3>1. PICK q \in Served(d) : CutBy(q, job.replaced) /\ x.day \in q.period
      BY <2>3 DEF Cut
    <3>2. o.period = q.period
      BY <2>1, <3>1 DEF Apart
    <3>3. q.period \cap UNION job.replaced # {}
      BY <3>1 DEF CutBy
    <3> QED BY <2>1, <3>2, <3>3
  <2> QED BY <1>5, <2>1, <2>2, <2>3 DEF Beside, ServedRows
<1>6. ASSUME NEW x \in Beside(d)
      PROVE  \E o \in Retained(d) : x \in o.rows
  <2>1. PICK o \in Served(d) : x \in o.rows
    BY <1>6 DEF Beside, ServedRows
  <2>2. x.day \in o.period /\ x.day \notin UNION job.replaced /\ x.day \notin Cut(d)
    BY <1>4, <1>6, <2>1 DEF Beside, Placed
  <2>3. ~CutBy(o, job.replaced)
    BY <2>2 DEF Cut
  <2>4. o.period \cap UNION job.replaced = {}
    BY <2>2, <2>3 DEF CutBy
  <2>5. o \in Retained(d)
    BY <2>4 DEF Retained
  <2> QED BY <2>1, <2>5
<1>7. \A x : x \in ServedRows(d)' <=> \E o \in Served(d)' : x \in o.rows
  BY DEF ServedRows
<1>8. CASE good
  <2>1. \A x : x \in ServedRows(d)' <=> x \in Beside(d) \cup PartRows(d)
    BY <1>2, <1>3, <1>5, <1>6, <1>7, <1>8
  <2> QED BY <1>8, <2>1
<1>9. CASE ~good
  BY <1>2, <1>9 DEF ServedRows
<1> QED BY <1>8, <1>9 DEF Publishing

(* What the rows of a dataset depend on. *)
LEMMA RowsFrame ==
  ASSUME NEW d, Served(d)' = Served(d), job'.parts = job.parts, job'.replaced = job.replaced
  PROVE  /\ ServedRows(d)' = ServedRows(d) /\ PartRows(d)' = PartRows(d)
         /\ Cut(d)' = Cut(d) /\ Beside(d)' = Beside(d) /\ Apart(d)' = Apart(d)
<1>1. ServedRows(d)' = ServedRows(d)
  BY DEF ServedRows
<1>2. PartRows(d)' = PartRows(d)
  BY DEF PartRows
<1>3. \A o : CutBy(o, job.replaced)' <=> CutBy(o, job.replaced)
  BY DEF CutBy
<1>4. Cut(d)' = Cut(d)
  BY <1>3 DEF Cut
<1>5. Beside(d)' = Beside(d)
  BY <1>1, <1>4 DEF Beside
<1> QED BY <1>1, <1>2, <1>4, <1>5 DEF Apart

(* Rows that no command has in hand stay the same everywhere. *)
LEMMA SameSame ==
  ASSUME FitInv, SameInv, slips \subseteq slips', UNCHANGED <<manifests, staging, pc, job>>
  PROVE  SameInv'
<1>1. StagedLegacy'
  BY DEF SameInv, StagedLegacy, Legacy
<1> SUFFICES ASSUME NoSplinter' PROVE SameInv'
  BY <1>1 DEF SameInv
<1>2. NoSplinter
  BY NoSplinterNoReuse
<1>3. ASSUME NEW d \in Datasets
      PROVE  /\ ServedRows(d)' = ServedRows(d) /\ PartRows(d)' = PartRows(d)
             /\ Cut(d)' = Cut(d) /\ Beside(d)' = Beside(d) /\ Apart(d)' = Apart(d)
             /\ Awaits(d)' = Awaits(d)
  <2>1. Served(d)' = Served(d)
    BY ServedAll
  <2> QED BY <2>1, RowsFrame DEF Awaits
<1>4. 0 \in Datasets
  BY CallAssumption DEF Datasets
<1>5. AllSame' <=> AllSame
  BY <1>3, <1>4 DEF AllSame
<1>6. OfAllDatasets' <=> OfAllDatasets
  BY DEF OfAllDatasets
<1>7. job.rest \subseteq Datasets
  BY DEF FitInv, Typed, Jobs
<1>8. pc' # "publish" \/ ~OfAllDatasets' \/ 0 \in job'.rest => AllSame'
  BY <1>2, <1>5, <1>6 DEF SameInv
<1>9. ASSUME pc' = "publish", ~OfAllDatasets', NEW d \in job'.rest, Cut(d)' = {}
      PROVE  Beside(d)' \cup PartRows(d)' = ServedRows(d)'
  <2>1. d \in job.rest /\ d \in Datasets /\ Cut(d) = {}
    BY <1>3, <1>7, <1>9
  <2>2. Beside(d) \cup PartRows(d) = ServedRows(d)
    BY <1>2, <1>6, <1>9, <2>1 DEF SameInv
  <2> QED BY <1>3, <2>1, <2>2
<1>10. ASSUME pc' = "publish", OfAllDatasets'
       PROVE  /\ 0 \in job'.rest => job'.rest = Datasets
              /\ ~job'.flawed => \A d \in Datasets : PartRows(d)' = PartRows(0)'
              /\ 0 \notin job'.rest =>
                   \A d \in Datasets : ServedRows(0)' =
                       IF Awaits(d)' THEN Beside(d)' \cup PartRows(d)' ELSE ServedRows(d)'
  <2>1. /\ 0 \in job.rest => job.rest = Datasets
        /\ ~job.flawed => \A d \in Datasets : PartRows(d) = PartRows(0)
        /\ 0 \notin job.rest =>
               \A d \in Datasets : ServedRows(0) =
                   IF Awaits(d) THEN Beside(d) \cup PartRows(d) ELSE ServedRows(d)
    BY <1>2, <1>6, <1>10 DEF SameInv
  <2> QED BY <1>3, <1>4, <2>1
<1>11. \A d \in Datasets : Apart(d)'
  BY <1>2, <1>3 DEF SameInv
<1> QED BY <1>1, <1>8, <1>9, <1>10, <1>11 DEF SameInv

(* A command that ends, or that begins and collects first. *)
LEMMA SameRest ==
  ASSUME SameInv, slips \subseteq slips', UNCHANGED manifests, staging' \subseteq staging,
         pc' # "publish",
         NoSplinter' => pc # "publish" \/ ~OfAllDatasets \/ 0 \in job.rest
                           \/ \A d \in Datasets : ~Awaits(d)
  PROVE  SameInv'
<1>1. StagedLegacy'
  BY DEF SameInv, StagedLegacy, Legacy
<1> SUFFICES ASSUME NoSplinter' PROVE SameInv'
  BY <1>1 DEF SameInv
<1>2. NoSplinter
  BY NoSplinterNoReuse
<1>3. \A d \in Datasets : Served(d)' = Served(d) /\ ServedRows(d)' = ServedRows(d)
  BY ServedAll
<1>4. \A d \in Datasets : Apart(d)'
  BY <1>2, <1>3 DEF SameInv, Apart
<1>5. 0 \in Datasets
  BY CallAssumption DEF Datasets
<1>6. AllSame
  <2>1. CASE pc # "publish" \/ ~OfAllDatasets \/ 0 \in job.rest
    BY <1>2, <2>1 DEF SameInv
  <2>2. CASE pc = "publish" /\ OfAllDatasets /\ 0 \notin job.rest
    <3>1. \A d \in Datasets : ~Awaits(d)
      BY <2>2
    <3>2. \A d \in Datasets : ServedRows(0) =
             IF Awaits(d) THEN Beside(d) \cup PartRows(d) ELSE ServedRows(d)
      BY <1>2, <2>2 DEF SameInv
    <3> QED BY <3>1, <3>2 DEF AllSame
  <2> QED BY <2>1, <2>2
<1>7. AllSame'
  BY <1>3, <1>5, <1>6 DEF AllSame
<1> QED BY <1>1, <1>4, <1>7 DEF SameInv

LEMMA SamePublish ==
  ASSUME FitInv, SameInv, slips \subseteq slips', Publish
  PROVE  SameInv'
<1>1. pc = "publish" /\ pc' = "publish" /\ staging' = staging
  BY PublishIs
<1>2. PICK d, l, r, new, snapshot, good : Publishing(d, l, r, new, snapshot, good)
  BY PublishIs, Zenon
<1>3. StagedLegacy'
  BY <1>1 DEF SameInv, StagedLegacy, Legacy
<1> SUFFICES ASSUME NoSplinter' PROVE SameInv'
  BY <1>3 DEF SameInv
<1>4. NoSplinter /\ NoReuse' /\ "uneven" \notin slips'
  BY NoSplinterNoReuse DEF NoSplinter, Splinters
<1>5. /\ job'.key = job.key /\ job'.parts = job.parts /\ job'.replaced = job.replaced
      /\ job'.rest = job.rest \ {d} /\ job'.flawed = (job.flawed \/ ~good)
  BY <1>2, PublishedJob
<1>6. /\ d \in Datasets /\ d \in job.rest /\ good \in BOOLEAN /\ \A e \in job.rest : d <= e
      /\ ~Uneven(d, good)
  <2>1. d \in Datasets
    BY <1>1, <1>2, PublishedManifests
  <2>2. d \in job.rest /\ good \in BOOLEAN /\ (\A e \in job.rest : d <= e) /\ ~Uneven(d, good)
    BY <1>2, <1>4 DEF Publishing
  <2> QED BY <2>1, <2>2
<1>7. \A e \in Datasets : Apart(e)
  BY <1>4 DEF SameInv
<1>8. ServedRows(d)' = IF good THEN Beside(d) \cup PartRows(d) ELSE ServedRows(d)
  BY <1>1, <1>2, <1>4, <1>6, <1>7, PublishedRows
<1>9. ASSUME NEW e \in Datasets, e # d
      PROVE  /\ ServedRows(e)' = ServedRows(e) /\ Cut(e)' = Cut(e) /\ Beside(e)' = Beside(e)
             /\ Apart(e)'
  <2>1. Served(e)' = Served(e)
    BY <1>1, <1>2, <1>9, OthersStay
  <2> QED BY <1>5, <1>7, <2>1, RowsFrame
<1>10. \A e \in Datasets : Apart(e)'
  BY <1>1, <1>2, <1>4, <1>7, <1>9, PublishApart
<1>11. \A e : PartRows(e)' = PartRows(e)
  BY <1>5 DEF PartRows
<1>12. OfAllDatasets' <=> OfAllDatasets
  BY <1>5 DEF OfAllDatasets
<1>13. 0 \in Datasets /\ job.rest \subseteq Datasets /\ \A e \in Datasets : e \in Nat
  BY CallAssumption DEF Datasets, FitInv, Typed, Jobs
<1>14. CASE ~OfAllDatasets
  <2>1. AllSame
    BY <1>1, <1>4, <1>14 DEF SameInv
  <2>2. good => Cut(d) = {}
    BY <1>6, <1>14 DEF Uneven
  <2>3. \A e \in job.rest : Cut(e) = {} => Beside(e) \cup PartRows(e) = ServedRows(e)
    BY <1>1, <1>4, <1>14 DEF SameInv
  <2>4. ServedRows(d)' = ServedRows(d)
    BY <1>6, <1>8, <2>2, <2>3
  <2>5. AllSame'
    BY <1>9, <1>13, <2>1, <2>4 DEF AllSame
  <2>6. \A e \in job'.rest : Cut(e)' = {} => Beside(e)' \cup PartRows(e)' = ServedRows(e)'
    BY <1>5, <1>9, <1>11, <1>13, <2>3
  <2> QED BY <1>1, <1>3, <1>10, <1>12, <1>14, <2>5, <2>6 DEF SameInv
<1>15. CASE OfAllDatasets /\ 0 \in job.rest
  <2>1. d = 0
    BY <1>6, <1>13, <1>15
  <2>2. AllSame /\ (~job.flawed => \A e \in Datasets : PartRows(e) = PartRows(0))
    BY <1>1, <1>4, <1>15 DEF SameInv
  <2>3. good => ~job.flawed /\ \A e \in Datasets : Cut(e) = Cut(0)
    BY <1>6, <1>15 DEF Uneven
  <2>4. ASSUME NEW e \in Datasets
        PROVE  ServedRows(0)' = IF Awaits(e)' THEN Beside(e)' \cup PartRows(e)' ELSE ServedRows(e)'
    <3>1. CASE e = 0
      BY <1>5, <2>1, <3>1 DEF Awaits
    <3>2. CASE e # 0 /\ good
      <4>1. Beside(e) = Beside(0) /\ PartRows(e) = PartRows(0)
        BY <2>2, <2>3, <3>2 DEF Beside, AllSame
      <4>2. Awaits(e)' \/ e \notin job.rest
        BY <1>5, <2>1, <2>3, <3>2 DEF Awaits
      <4>3. job.rest = Datasets
        BY <1>1, <1>4, <1>15 DEF SameInv
      <4> QED BY <1>8, <1>9, <1>11, <2>1, <3>2, <4>1, <4>2, <4>3
    <3>3. CASE e # 0 /\ ~good
      <4>1. ~Awaits(e)'
        BY <1>5, <3>3 DEF Awaits
      <4> QED BY <1>8, <1>9, <2>1, <2>2, <3>3, <4>1 DEF AllSame
    <3> QED BY <1>6, <3>1, <3>2, <3>3
  <2>5. 0 \notin job'.rest
    BY <1>5, <2>1
  <2>6. ~job'.flawed => \A e \in Datasets : PartRows(e)' = PartRows(0)'
    BY <1>5, <1>11, <2>2
  <2> QED BY <1>1, <1>3, <1>10, <1>12, <1>15, <2>4, <2>5, <2>6 DEF SameInv
<1>16. CASE OfAllDatasets /\ 0 \notin job.rest
  <2>1. /\ ~job.flawed => \A e \in Datasets : PartRows(e) = PartRows(0)
        /\ \A e \in Datasets : ServedRows(0) =
               IF Awaits(e) THEN Beside(e) \cup PartRows(e) ELSE ServedRows(e)
    BY <1>1, <1>4, <1>16 DEF SameInv
  <2>2. d # 0 /\ ServedRows(0)' = ServedRows(0)
    BY <1>6, <1>9, <1>13, <1>16
  <2>3. good <=> ~job.flawed
    BY <1>6, <1>16 DEF Uneven
  <2>4. ASSUME NEW e \in Datasets
        PROVE  ServedRows(0)' = IF Awaits(e)' THEN Beside(e)' \cup PartRows(e)' ELSE ServedRows(e)'
    <3>1. CASE e = d
      <4>1. ~Awaits(d)' /\ (Awaits(d) <=> good)
        BY <1>5, <1>6, <2>3 DEF Awaits
      <4> QED BY <1>8, <2>1, <2>2, <3>1, <4>1
    <3>2. CASE e # d
      <4>1. Awaits(e)' <=> Awaits(e)
        BY <1>5, <2>3, <3>2 DEF Awaits
      <4> QED BY <1>9, <1>11, <2>1, <2>2, <3>2, <4>1
    <3> QED BY <3>1, <3>2
  <2>5. 0 \notin job'.rest
    BY <1>5, <1>16
  <2>6. ~job'.flawed => \A e \in Datasets : PartRows(e)' = PartRows(0)'
    BY <1>5, <1>11, <2>1
  <2> QED BY <1>1, <1>3, <1>10, <1>12, <1>16, <2>4, <2>5, <2>6 DEF SameInv
<1> QED BY <1>14, <1>15, <1>16

(* What the parts of a year hold, and those of some days. *)
RowsOf(parts, d) == UNION {p.rows : p \in {q \in parts : q.dataset = d}}

LEMMA YearPartRows ==
  ASSUME NEW D \in SUBSET Datasets, NEW rows \in SUBSET Rows, NEW d \in D
  PROVE  RowsOf(YearParts(D, rows), d) = rows
<1>1. \A x : x \in RowsOf(YearParts(D, rows), d)
                <=> \E p \in YearParts(D, rows) : p.dataset = d /\ x \in p.rows
  BY DEF RowsOf
<1>2. /\ \A p \in YearParts(D, rows) : \A x \in p.rows : x \in rows
      /\ \A x \in rows : \E p \in YearParts(D, rows) : p.dataset = d /\ x \in p.rows
  BY YearPartsAre
<1> QED BY <1>1, <1>2

LEMMA DayPartRows ==
  ASSUME NEW days \in SUBSET Days, NEW rows \in SUBSET Rows, NEW d \in Datasets
  PROVE  RowsOf(DayParts(days, rows), d) = {x \in rows : x.day \in days}
<1>1. \A x : x \in RowsOf(DayParts(days, rows), d)
                <=> \E p \in DayParts(days, rows) : p.dataset = d /\ x \in p.rows
  BY DEF RowsOf
<1>2. /\ \A p \in DayParts(days, rows) :
           OneDay(p.period, days) /\ \A x \in p.rows : x \in rows /\ x.day \in p.period
      /\ \A x \in rows : x.day \in days =>
             \E p \in DayParts(days, rows) : p.dataset = d /\ x \in p.rows
  BY DayPartsAre
<1>3. \A p \in DayParts(days, rows) : \A x \in p.rows : x \in rows /\ x.day \in days
  BY <1>2 DEF OneDay
<1> QED BY <1>1, <1>2, <1>3

(* What is collected for the datasets. *)
LEMMA CollectedRows ==
  ASSUME FitInv, Collect
  PROVE  /\ job'.key = job.key /\ job'.symbols = job.symbols /\ job'.rest = Datasets
         /\ job.key.command \in {"incremental", "backfill"}
         /\ job.key.command = "backfill" => job'.replaced = {Days}
         /\ \E unfetched \in SUBSET job.symbols, rows \in SUBSET Rows :
                /\ job'.flawed = (unfetched # {})
                /\ "stale" \notin slips' => {x \in rows : x.symbol \notin unfetched}
                                               = Bars(job.symbols \ unfetched, job.key.days)
                /\ \A d \in Datasets : PartRows(d)' =
                       IF job.key.command = "incremental" THEN {x \in rows : x.day \in job.key.days}
                       ELSE rows
<1> DEFINE parts(rows) == IF job.key.command = "incremental" THEN DayParts(job.key.days, rows)
                          ELSE YearParts(Datasets, rows)
           replaced == IF job.key.command = "incremental" THEN {{x} : x \in job.key.days} ELSE {Days}
<1>1. PICK unfetched \in SUBSET job.symbols, rows \in SUBSET Rows :
          /\ "stale" \notin slips' => {x \in rows : x.symbol \notin unfetched}
                                         = Bars(job.symbols \ unfetched, job.key.days)
          /\ job' = Collected(job, parts(rows), replaced, unfetched # {})
  BY CollectIs, Zenon
<1>2. job \in Jobs /\ job.key.days \in SUBSET Days /\ job.symbols \subseteq Symbols
      /\ job.key.command \in {"incremental", "backfill"}
  <2>1. pc = "collect"
    BY CollectIs
  <2> QED BY <2>1 DEF FitInv, Typed, Jobs, Keys, JobFits
<1>3. PICK days \in SUBSET Days : days = job.key.days
  BY <1>2
<1>4. \A p \in DayParts(days, rows) : p \in JobParts
  BY DayPartsAre
<1>5. \A p \in YearParts(Datasets, rows) : p \in JobParts
  BY YearPartsAre
<1>6. parts(rows) \in SUBSET JobParts /\ replaced \in SUBSET SUBSET Days
  BY <1>2, <1>3, <1>4, <1>5
<1>7. PICK incident \in BOOLEAN : incident = (unfetched # {})
  OBVIOUS
<1> DEFINE P == parts(rows)
<1>8. job' = Collected(job, P, replaced, incident) /\ P \in SUBSET JobParts
  BY <1>1, <1>6, <1>7
<1>9. \A d \in Datasets : RowsOf(P, d) =
          IF job.key.command = "incremental" THEN {x \in rows : x.day \in job.key.days} ELSE rows
  <2>1. \A d \in Datasets : RowsOf(DayParts(days, rows), d) = {x \in rows : x.day \in days}
    BY DayPartRows
  <2>2. \A d \in Datasets : RowsOf(YearParts(Datasets, rows), d) = rows
    BY YearPartRows
  <2> QED BY <1>3, <2>1, <2>2
<1>10. job.key.command = "backfill" => replaced = {Days}
  OBVIOUS
<1>11. job \in Jobs /\ replaced \in SUBSET SUBSET Days
  BY <1>2, <1>6
<1> HIDE DEF P, parts, replaced
<1>12. /\ job'.key = job.key /\ job'.symbols = job.symbols /\ job'.parts = P
       /\ job'.replaced = replaced /\ job'.rest = Datasets /\ job'.flawed = incident
  BY <1>8, <1>11, JobCollected
<1>13. \A d \in Datasets : PartRows(d)' = RowsOf(P, d)
  BY <1>12 DEF PartRows, RowsOf
<1>14. /\ job'.flawed = (unfetched # {})
       /\ "stale" \notin slips' => {x \in rows : x.symbol \notin unfetched}
                                      = Bars(job.symbols \ unfetched, job.key.days)
       /\ \A d \in Datasets : PartRows(d)' =
              IF job.key.command = "incremental" THEN {x \in rows : x.day \in job.key.days}
              ELSE rows
  BY <1>1, <1>7, <1>9, <1>12, <1>13
<1>15. job.key.command = "backfill" => job'.replaced = {Days}
  BY <1>10, <1>12
<1>16. job'.key = job.key /\ job'.symbols = job.symbols /\ job'.rest = Datasets
  BY <1>12
<1> QED BY <1>2, <1>14, <1>15, <1>16, Zenon

(* What is read of the legacy files, and of what an earlier attempt staged. *)
LEMMA MigratedRows ==
  ASSUME FitInv, StagedLegacy, Migrate
  PROVE  /\ StagedLegacy'
         /\ job'.key = MigrateKey /\ job'.rest = Datasets /\ job'.replaced = {Days}
         /\ ~job'.flawed => \A d \in Datasets : PartRows(d)' = Legacy
<1>1. \A x \in LegacyDays : x <= today
  BY DEF Migrate
<1> DEFINE read(d, broken, upTo) == {r \in Legacy : <<d, r.symbol>> \in broken => r.day <= upTo}
                                       \cup Staged(MigrateFiles(d))
<1>2. PICK broken \in SUBSET (Datasets \X Symbols), upTo \in 0..DayCount :
        /\ failures + Cardinality(broken) <= MaxFailures
        /\ failures' = failures + Cardinality(broken)
        /\ staging' = staging \cup
               UNION {{[key |-> MigrateFiles(d), row |-> r] : r \in read(d, broken, upTo)} : d \in Datasets}
        /\ job' = [NoJob EXCEPT
               !.key = MigrateKey,
               !.parts = UNION {YearParts({d}, read(d, broken, upTo)) : d \in Datasets},
               !.replaced = {Days},
               !.rest = Datasets,
               !.flawed = broken # {}]
  BY DEF Migrate
<1> DEFINE Read(d) == read(d, broken, upTo)
           parts == UNION {YearParts({d}, Read(d)) : d \in Datasets}
<1>3. Legacy \subseteq Rows
  BY BoundAssumption, CallAssumption DEF Legacy, Rows, Versions
<1>4. ASSUME NEW d
      PROVE  Staged(MigrateFiles(d)) \subseteq Legacy
  <2>1. MigrateFiles(d).command = "migrate"
    <3>1. MigrateKey.command = "migrate"
      BY DEF MigrateKey, NoKey
    <3>2. MigrateKey \in Keys
      BY KeysTyped
    <3> QED BY <3>1, <3>2 DEF MigrateFiles, Keys
  <2>2. \A x \in Staged(MigrateFiles(d)) : \E f \in staging : f.key = MigrateFiles(d) /\ x = f.row
    BY DEF Staged
  <2> HIDE DEF read
  <2> QED BY <2>1, <2>2 DEF StagedLegacy
<1>5. \A d : Read(d) \subseteq Legacy
  BY <1>4
<1>6. broken = {} => \A d : Read(d) = Legacy
  BY <1>4
<1>7. job' = Failed(Made(MigrateKey, parts, {Days}, Datasets), broken # {})
  BY <1>2, Zenon DEF Made, Failed
<1>8. staging' = staging \cup
               UNION {{[key |-> MigrateFiles(d), row |-> r] : r \in Read(d)} : d \in Datasets}
  BY <1>2
<1> HIDE DEF Read, read
<1>9. \A f \in staging' : f \in staging \/ f.row \in Legacy
  <2>1. \A f \in staging' : f \in staging \/ \E d \in Datasets : \E x \in Read(d) :
           f = [key |-> MigrateFiles(d), row |-> x]
    BY <1>8
  <2> QED BY <1>5, <2>1
<1>10. StagedLegacy'
  BY <1>9 DEF StagedLegacy, Legacy
<1>11. \A p : p \in parts <=> \E d \in Datasets : p \in YearParts({d}, Read(d))
  OBVIOUS
<1>12. ASSUME NEW d \in Datasets
       PROVE  /\ \A p \in YearParts({d}, Read(d)) : p \in JobParts /\ p.dataset = d
              /\ RowsOf(YearParts({d}, Read(d)), d) = Read(d)
  <2>1. {d} \in SUBSET Datasets /\ Read(d) \in SUBSET Rows
    BY <1>3, <1>5
  <2>2. \A p \in YearParts({d}, Read(d)) : p \in JobParts /\ p.dataset \in {d}
    BY <2>1, YearPartsAre
  <2>3. RowsOf(YearParts({d}, Read(d)), d) = Read(d)
    BY <2>1, YearPartRows
  <2> QED BY <2>2, <2>3
<1> HIDE DEF parts
<1>13. parts \in SUBSET JobParts
  BY <1>11, <1>12
<1>14. ASSUME NEW d \in Datasets
       PROVE  RowsOf(parts, d) = Read(d)
  <2>1. {q \in parts : q.dataset = d} = {q \in YearParts({d}, Read(d)) : q.dataset = d}
    BY <1>11, <1>12
  <2> QED BY <1>12, <2>1 DEF RowsOf
<1>15. /\ job'.key = MigrateKey /\ job'.parts = parts /\ job'.replaced = {Days}
       /\ job'.rest = Datasets /\ job'.flawed = (broken # {})
  <2> DEFINE M == Made(MigrateKey, parts, {Days}, Datasets)
  <2>1. MigrateKey \in Keys /\ {Days} \in SUBSET SUBSET Days /\ Datasets \in SUBSET Datasets
    BY KeysTyped
  <2>2. IsJob(M, MigrateKey, parts, {Days}, Datasets)
    BY <1>13, <2>1, JobMade
  <2>3. PICK flawed \in BOOLEAN : flawed = (broken # {})
    OBVIOUS
  <2> HIDE DEF M
  <2>4. M \in Jobs /\ M.key = MigrateKey /\ M.parts = parts /\ M.replaced = {Days} /\ M.rest = Datasets
    BY <2>2 DEF IsJob
  <2>5. job' = Failed(M, flawed)
    BY <1>7, <2>3 DEF M
  <2>6. job'.flawed = flawed
    BY <2>4, <2>5 DEF Failed, Jobs
  <2> QED BY <2>3, <2>4, <2>5, <2>6, JobFailed
<1>16. \A d \in Datasets : PartRows(d)' = RowsOf(parts, d)
  BY <1>15 DEF PartRows, RowsOf
<1> QED BY <1>6, <1>10, <1>14, <1>15, <1>16

(* A command for all datasets that has not published anything yet. *)
LEMMA SameBegins ==
  ASSUME SameInv, NoSplinter, pc # "publish", UNCHANGED manifests, StagedLegacy',
         job'.key.command \notin {"compact", "derive"}, job'.rest = Datasets,
         ~job'.flawed => \A d \in Datasets : PartRows(d)' = PartRows(0)'
  PROVE  SameInv'
<1>1. 0 \in Datasets
  BY CallAssumption DEF Datasets
<1>2. \A d \in Datasets : Served(d)' = Served(d) /\ ServedRows(d)' = ServedRows(d)
  BY ServedAll
<1>3. \A d \in Datasets : Apart(d)'
  BY <1>2 DEF SameInv, Apart
<1>4. AllSame'
  BY <1>1, <1>2 DEF SameInv, AllSame
<1>5. OfAllDatasets'
  BY DEF OfAllDatasets
<1> QED BY <1>1, <1>3, <1>4, <1>5 DEF SameInv

LEMMA SameCollect ==
  ASSUME FitInv, SameInv, slips \subseteq slips', Collect
  PROVE  SameInv'
<1>1. pc = "collect" /\ UNCHANGED manifests
  BY CollectIs
<1>2. /\ job'.key = job.key /\ job'.rest = Datasets
      /\ job.key.command \in {"incremental", "backfill"}
      /\ \E rows : \A d \in Datasets : PartRows(d)' =
             IF job.key.command = "incremental" THEN {x \in rows : x.day \in job.key.days} ELSE rows
  BY CollectedRows
<1>3. \A d \in Datasets : PartRows(d)' = PartRows(0)'
  <2>1. 0 \in Datasets
    BY CallAssumption DEF Datasets
  <2> QED BY <1>2, <2>1
<1>4. \A f \in staging' : f \in staging \/ f.key = job.key
  <2>1. PICK rows : staging' \subseteq {f \in staging : f.key # job.key}
                        \cup {[key |-> job.key, row |-> x] : x \in rows}
    BY CollectIs
  <2> QED BY <2>1
<1>5. StagedLegacy'
  BY <1>2, <1>4 DEF SameInv, StagedLegacy, Legacy
<1>6. CASE NoSplinter'
  <2>1. NoSplinter
    BY <1>6, NoSplinterNoReuse
  <2> QED BY <1>1, <1>2, <1>3, <1>5, <2>1, SameBegins
<1>7. CASE ~NoSplinter'
  BY <1>5, <1>7 DEF SameInv
<1> QED BY <1>6, <1>7

LEMMA SameMigrate ==
  ASSUME FitInv, SameInv, slips \subseteq slips', Migrate
  PROVE  SameInv'
<1>1. pc = "idle" /\ UNCHANGED manifests
  BY MigrateIs
<1>2. /\ StagedLegacy' /\ job'.key = MigrateKey /\ job'.rest = Datasets
      /\ ~job'.flawed => \A d \in Datasets : PartRows(d)' = Legacy
  BY MigratedRows DEF SameInv
<1>3. ~job'.flawed => \A d \in Datasets : PartRows(d)' = PartRows(0)'
  <2>1. 0 \in Datasets
    BY CallAssumption DEF Datasets
  <2> QED BY <1>2, <2>1
<1>4. MigrateKey.command = "migrate"
  BY DEF MigrateKey, NoKey
<1>5. CASE NoSplinter'
  <2>1. NoSplinter
    BY <1>5, NoSplinterNoReuse
  <2> QED BY <1>1, <1>2, <1>3, <1>4, <2>1, SameBegins
<1>6. CASE ~NoSplinter'
  BY <1>2, <1>6 DEF SameInv
<1> QED BY <1>5, <1>6

(* A command that rewrites what some datasets serve already. *)
LEMMA SameRewrites ==
  ASSUME SameInv, slips \subseteq slips', pc # "publish", UNCHANGED <<manifests, staging>>,
         job'.key.command \in {"compact", "derive"}, job'.rest \subseteq Datasets,
         NoSplinter => \A d \in job'.rest :
             Cut(d)' = {} => Beside(d)' \cup PartRows(d)' = ServedRows(d)
  PROVE  SameInv'
<1>1. StagedLegacy'
  BY DEF SameInv, StagedLegacy, Legacy
<1> SUFFICES ASSUME NoSplinter' PROVE SameInv'
  BY <1>1 DEF SameInv
<1>2. NoSplinter
  BY NoSplinterNoReuse
<1>3. 0 \in Datasets
  BY CallAssumption DEF Datasets
<1>4. \A d \in Datasets : Served(d)' = Served(d) /\ ServedRows(d)' = ServedRows(d)
  BY ServedAll
<1>5. \A d \in Datasets : Apart(d)'
  BY <1>2, <1>4 DEF SameInv, Apart
<1>6. AllSame'
  BY <1>2, <1>3, <1>4 DEF SameInv, AllSame
<1>7. ~OfAllDatasets'
  BY DEF OfAllDatasets
<1> QED BY <1>1, <1>2, <1>4, <1>5, <1>6, <1>7 DEF SameInv

LEMMA SameCompact ==
  ASSUME FitInv, SameInv, slips \subseteq slips',
         NEW d \in Datasets, NEW grain \in WEEK..YEAR, NEW period \in PeriodsOf(grain),
         Compact(d, grain, period)
  PROVE  SameInv'
<1> DEFINE rows == UNION {o.rows : o \in Smaller(d, grain, period)}
           k == CompactKey(d, grain, period)
           parts == Parts(d, grain, period, rows)
<1>1. /\ pc = "idle" /\ job' = Made(k, parts, {period}, {d})
      /\ period \subseteq UNION {o.period : o \in Smaller(d, grain, period)}
      /\ UNCHANGED <<manifests, staging>>
  BY DEF Compact, Made
<1>2. period \in SUBSET Days /\ grain \in DAY..YEAR
  BY PeriodsTyped
<1>3. rows \subseteq ServedRows(d) /\ rows \in SUBSET Rows
  <2>1. Smaller(d, grain, period) \subseteq Served(d)
    BY DEF Smaller
  <2>2. rows \subseteq ServedRows(d)
    BY <2>1 DEF ServedRows
  <2> QED BY <2>2, ServedTyped
<1>4. k \in Keys /\ k.command = "compact"
  <2>1. k.command = "compact"
    BY DEF CompactKey
  <2> QED BY <1>2, <2>1, KeysTyped
<1>5. \A o \in Smaller(d, grain, period), x \in Rows : x \in o.rows => x \in rows
  OBVIOUS
<1> HIDE DEF rows, k
<1>6. /\ \A p \in parts : p \in JobParts /\ p.dataset = d /\ \A x \in p.rows : x \in rows
      /\ \A x \in rows : x.day \in period => \E p \in parts : x \in p.rows
  BY <1>2, <1>3, PartsAre
<1> HIDE DEF parts
<1>7. IsJob(Made(k, parts, {period}, {d}), k, parts, {period}, {d})
  <2>1. parts \in SUBSET JobParts /\ {period} \in SUBSET SUBSET Days /\ {d} \in SUBSET Datasets
    BY <1>2, <1>6
  <2> QED BY <1>4, <2>1, JobMade
<1>8. /\ job'.key = k /\ job'.parts = parts /\ job'.replaced = {period} /\ job'.rest = {d}
  BY <1>1, <1>7 DEF IsJob
<1>9. ServedRows(d)' = ServedRows(d)
  BY <1>1, ServedAll
<1>10. PartRows(d)' = RowsOf(parts, d)
  BY <1>8 DEF PartRows, RowsOf
<1>11. \A x : x \in RowsOf(parts, d) <=> \E p \in parts : p.dataset = d /\ x \in p.rows
  BY DEF RowsOf
<1>12. ASSUME NoSplinter, Cut(d)' = {}
       PROVE  Beside(d)' \cup PartRows(d)' = ServedRows(d)
  <2>1. Apart(d)
    BY <1>12 DEF SameInv
  <2>2. Beside(d)' = {x \in ServedRows(d) : x.day \notin period}
    BY <1>8, <1>9, <1>12 DEF Beside
  <2>3. PartRows(d)' \subseteq ServedRows(d)
    BY <1>3, <1>6, <1>10, <1>11
  <2>4. ASSUME NEW x \in ServedRows(d), x.day \in period
        PROVE  x \in PartRows(d)'
    <3>1. PICK o \in Served(d) : x \in o.rows
      BY <2>4 DEF ServedRows
    <3>2. x \in Rows /\ x.day \in o.period
      BY <3>1, ServedTyped DEF Placed
    <3>3. PICK q \in Smaller(d, grain, period) : x.day \in q.period
      BY <1>1, <2>4
    <3>4. q \in Served(d) /\ q.grain < grain
      BY DEF Smaller
    <3>5. o.grain = q.grain
      BY <2>1, <3>2, <3>3, <3>4 DEF Apart
    <3>6. o \in Smaller(d, grain, period)
      BY <2>4, <3>2, <3>4, <3>5 DEF Smaller
    <3>7. x \in rows
      BY <1>5, <3>1, <3>2, <3>6
    <3> QED BY <1>6, <1>10, <1>11, <2>4, <3>7
  <2> QED BY <2>2, <2>3, <2>4
<1>13. /\ job'.key.command \in {"compact", "derive"} /\ job'.rest \subseteq Datasets
       /\ NoSplinter => \A e \in job'.rest :
             Cut(e)' = {} => Beside(e)' \cup PartRows(e)' = ServedRows(e)
  BY <1>4, <1>8, <1>12
<1> QED BY <1>1, <1>13, SameRewrites

LEMMA SameDerive ==
  ASSUME FitInv, SameInv, slips \subseteq slips', Derive
  PROVE  SameInv'
<1> DEFINE parts == YearParts(Derived, ServedRows(0))
<1>1. /\ pc = "idle" /\ job' = Made(DeriveKey, parts, {Days}, Derived)
      /\ UNCHANGED <<manifests, staging>>
  BY DEF Derive, Made
<1>2. 0 \in Datasets /\ Derived \in SUBSET Datasets
  BY CallAssumption DEF Datasets, Derived
<1>3. ServedRows(0) \in SUBSET Rows
  BY <1>2, ServedTyped
<1>4. DeriveKey \in Keys /\ DeriveKey.command = "derive"
  BY KeysTyped DEF DeriveKey, NoKey
<1>5. parts \in SUBSET JobParts
  BY <1>2, <1>3, YearPartsAre
<1>6. \A d \in Derived : RowsOf(parts, d) = ServedRows(0)
  BY <1>2, <1>3, YearPartRows
<1> HIDE DEF parts
<1>7. IsJob(Made(DeriveKey, parts, {Days}, Derived), DeriveKey, parts, {Days}, Derived)
  <2>1. {Days} \in SUBSET SUBSET Days
    OBVIOUS
  <2> QED BY <1>2, <1>4, <1>5, <2>1, JobMade
<1>8. job'.key = DeriveKey /\ job'.parts = parts /\ job'.rest = Derived
  BY <1>1, <1>7 DEF IsJob
<1>9. \A d : PartRows(d)' = RowsOf(parts, d)
  BY <1>8 DEF PartRows, RowsOf
<1>10. ASSUME NoSplinter, NEW d \in Derived
       PROVE  Beside(d)' \cup PartRows(d)' = ServedRows(d)
  <2>1. ServedRows(d) = ServedRows(0)
    BY <1>1, <1>2, <1>10 DEF SameInv, AllSame
  <2>2. ServedRows(d)' = ServedRows(d)
    BY <1>1, <1>2, ServedAll
  <2>3. Beside(d)' \subseteq ServedRows(d)
    BY <2>2 DEF Beside
  <2> QED BY <1>6, <1>9, <2>1, <2>3
<1>11. /\ job'.key.command \in {"compact", "derive"} /\ job'.rest \subseteq Datasets
       /\ NoSplinter => \A d \in job'.rest :
             Cut(d)' = {} => Beside(d)' \cup PartRows(d)' = ServedRows(d)
  BY <1>2, <1>4, <1>8, <1>10
<1> QED BY <1>1, <1>11, SameRewrites

LEMMA SameNext == FitInv /\ SameInv /\ [Next]_vars => SameInv'
<1> SUFFICES ASSUME FitInv, SameInv, [Next]_vars PROVE SameInv'
  OBVIOUS
<1>0. slips \subseteq slips'
  BY SlipsGrow
<1>1. CASE UNCHANGED vars
  BY <1>0, <1>1, SameSame DEF vars
<1>2. CASE NextDay
  BY <1>0, <1>2, SameSame DEF NextDay
<1>3. CASE \E s \in Symbols : Split(s)
  BY <1>0, <1>3, SameSame DEF Split
<1>4. CASE \E days \in SessionRanges, symbols \in Requests : Incremental(days, symbols)
  <2>1. /\ pc = "idle" /\ UNCHANGED <<manifests, staging>>
        /\ pc' \in {"idle", "collect"}
    BY <1>4, Zenon DEF Incremental, Collecting, EnterIncremental, End
  <2> QED BY <1>0, <2>1, SameRest
<1>5. CASE \E days \in BackfillRanges, symbols \in Requests : Backfill(days, symbols)
  <2>1. pc = "idle" /\ UNCHANGED <<manifests, staging>> /\ pc' = "collect"
    BY <1>5 DEF Backfill, Collecting
  <2> QED BY <1>0, <2>1, SameRest
<1>6. CASE Collect
  BY <1>0, <1>6, SameCollect
<1>7. CASE \E d \in Datasets, grain \in WEEK..YEAR : \E period \in PeriodsOf(grain) :
            Compact(d, grain, period)
  BY <1>0, <1>7, SameCompact
<1>8. CASE Derive
  BY <1>0, <1>8, SameDerive
<1>9. CASE Migrate
  BY <1>0, <1>9, SameMigrate
<1>10. CASE Publish
  BY <1>0, <1>10, SamePublish
<1>11. CASE Refused
  <2>1. "refused" \in slips' /\ UNCHANGED <<manifests, staging>> /\ pc' = "idle"
    BY <1>11 DEF Refused, End
  <2>2. ~NoSplinter'
    BY <2>1 DEF NoSplinter, Splinters
  <2> QED BY <1>0, <2>1, <2>2, SameRest
<1>12. CASE Finish
  <2>1. UNCHANGED manifests /\ staging' \subseteq staging /\ job.rest = {}
    BY <1>12 DEF Finish
  <2>2. pc' \in {"idle", "collect"}
    BY <1>12, Zenon DEF Finish, Collecting, EnterIncremental, End
  <2>3. \A d \in Datasets : ~Awaits(d)
    BY <2>1 DEF Awaits
  <2> QED BY <1>0, <2>1, <2>2, <2>3, SameRest
<1>13. CASE Dies
  <2>1. UNCHANGED <<manifests, staging>> /\ pc' = "idle"
    BY <1>13 DEF Dies, End
  <2>2. "halfway" \in slips' \/ ~OfAllDatasets \/ job.flawed \/ job.rest = {} \/ 0 \in job.rest
    BY <1>13 DEF Dies
  <2>3. "halfway" \in slips' => ~NoSplinter'
    BY DEF NoSplinter, Splinters
  <2>4. job.flawed \/ job.rest = {} => \A d \in Datasets : ~Awaits(d)
    BY DEF Awaits
  <2> QED BY <1>0, <2>1, <2>2, <2>3, <2>4, SameRest
<1> QED BY <1>1, <1>2, <1>3, <1>4, <1>5, <1>6, <1>7, <1>8, <1>9, <1>10, <1>11, <1>12, <1>13 DEF Next

LEMMA SameFirst == Init => SameInv
<1> SUFFICES ASSUME Init PROVE SameInv
  OBVIOUS
<1>1. 0 \in Datasets
  BY CallAssumption DEF Datasets
<1>2. \A d \in Datasets : Served(d) = {} /\ ServedRows(d) = {}
  <2>1. \A d \in Datasets : Served(d) = {}
    BY NothingServed
  <2> QED BY <2>1 DEF ServedRows
<1>3. \A d \in Datasets : Apart(d)
  BY <1>2 DEF Apart
<1>4. AllSame
  BY <1>1, <1>2 DEF AllSame
<1>5. StagedLegacy
  BY DEF Init, StagedLegacy
<1> QED BY <1>3, <1>4, <1>5 DEF Init, SameInv

LEMMA SameAlways == Spec => [](FitInv /\ SameInv)
<1>1. Init => FitInv /\ SameInv
  BY FitFirst, SameFirst
<1>2. FitInv /\ SameInv /\ [Next]_vars => (FitInv /\ SameInv)'
  BY FitNext, SameNext
<1> QED BY <1>1, <1>2, PTL DEF Spec

(* Between commands a derived dataset serves just the bars of the native one,   *)
(* through any commands, re-adjustments, failed requests, repeated commands and   *)
(* deaths, unless a revision was reused or a command published its datasets     *)
(* differently.                                                             *)
THEOREM AlwaysDerived == Spec => []DerivedIsNative
<1>1. SameInv => DerivedIsNative
  BY CallAssumption DEF SameInv, NoSplinter, AllSame, DerivedIsNative, Derived
<1> QED BY <1>1, SameAlways, PTL
-----------------------------------------------------------------------------
(* The adjustments of what is served.  A command that published its datasets   *)
(* like each other leaves one adjustment in each of them.                     *)

(* No re-adjustment was missed, and no dataset came out differently. *)
NoMiss == slips \subseteq {"swept", "partial"}

(* Bars as Alpaca answers with them now. *)
Fresh(rows) == \A x \in rows : x.version = feed[x.symbol]

OfSymbols(rows, symbols) == {x \in rows : x.symbol \in symbols}

OneVersion(d) ==
    \A a, b \in ServedRows(d) : a.symbol = b.symbol => a.version = b.version

(* The adjustment of the parts, and of what they do not replace. *)
PartsAdjusted(d) ==
    /\ job.key.command \in {"backfill", "migrate"} => job.replaced = {Days}
    /\ job.key.command \in {"incremental", "backfill"} => Fresh(PartRows(d))
    /\ job.key.command = "incremental" => \A x \in PartRows(d) : x.symbol \in job.symbols
    /\ job.key.command = "backfill" /\ d \notin job.rest => Fresh(ServedRows(d))
    /\ job.key.command = "migrate" => \A x \in PartRows(d) : x.version = 0

(* An incremental runs only once its symbols are served as Alpaca answers now. *)
AdjustedInv ==
    NoMiss =>
        /\ \A d \in Datasets : OneVersion(d)
        /\ pc # "idle" /\ job.key.command = "incremental" =>
               \A d \in Datasets : Fresh(OfSymbols(ServedRows(d), job.symbols))
        /\ pc = "publish" /\ ~job.flawed => \A d \in Datasets : PartsAdjusted(d)

LEMMA NoMissNoSplinter ==
  /\ NoMiss => NoSplinter
  /\ NoMiss' => NoSplinter'
  /\ slips \subseteq slips' /\ NoMiss' => NoMiss
BY DEF NoMiss, NoSplinter, Splinters

LEMMA AdjustedSame ==
  ASSUME AdjustedInv, slips \subseteq slips', UNCHANGED <<feed, manifests, pc, job>>
  PROVE  AdjustedInv'
<1> SUFFICES ASSUME NoMiss' PROVE AdjustedInv'
  BY DEF AdjustedInv
<1>1. NoMiss
  BY NoMissNoSplinter
<1>2. \A d \in Datasets : ServedRows(d)' = ServedRows(d) /\ PartRows(d)' = PartRows(d)
  BY ServedAll DEF PartRows
<1>3. \A d \in Datasets : OneVersion(d)' <=> OneVersion(d)
  BY <1>2 DEF OneVersion
<1>4. \A d \in Datasets : PartsAdjusted(d)' <=> PartsAdjusted(d)
  BY <1>2 DEF PartsAdjusted, Fresh
<1>5. \A d \in Datasets : Fresh(OfSymbols(ServedRows(d), job.symbols))'
                             <=> Fresh(OfSymbols(ServedRows(d), job.symbols))
  BY <1>2 DEF OfSymbols, Fresh
<1> QED BY <1>1, <1>3, <1>4, <1>5 DEF AdjustedInv

(* A step between commands, or into one. *)
LEMMA AdjustedStep ==
  ASSUME AdjustedInv, slips \subseteq slips', UNCHANGED manifests,
         NoMiss' /\ pc' # "idle" /\ job'.key.command = "incremental" =>
             \A d \in Datasets : Fresh(OfSymbols(ServedRows(d), job.symbols))',
         NoMiss' /\ pc' = "publish" /\ ~job'.flawed => \A d \in Datasets : PartsAdjusted(d)'
  PROVE  AdjustedInv'
<1> SUFFICES ASSUME NoMiss' PROVE AdjustedInv'
  BY DEF AdjustedInv
<1>1. NoMiss
  BY NoMissNoSplinter
<1>2. \A d \in Datasets : ServedRows(d)' = ServedRows(d)
  BY ServedAll
<1>3. \A d \in Datasets : OneVersion(d)'
  BY <1>1, <1>2 DEF AdjustedInv, OneVersion
<1> QED BY <1>3 DEF AdjustedInv

(* The overlap answers for all that is served of a symbol. *)
LEMMA SeenIsFresh ==
  ASSUME AllSame, \A d \in Datasets : OneVersion(d), NEW days, NEW symbols \in SUBSET Symbols,
         ~Detected(days, symbols), \A s \in Symbols : ~OutOfSight(days, s),
         NEW d \in Datasets
  PROVE  Fresh(OfSymbols(ServedRows(d), symbols))
<1>1. 0 \in Datasets
  BY CallAssumption DEF Datasets
<1>2. ASSUME NEW x \in ServedRows(0), x.symbol \in symbols
      PROVE  x.version = feed[x.symbol]
  <2>1. PICK s \in symbols : s = x.symbol
    BY <1>2
  <2>2. ~OutOfSight(days, s)
    OBVIOUS
  <2>3. PICK y \in ServedRows(0) : y.symbol = s /\ y.day \in OverlapOf(days)
    BY <1>2, <2>1, <2>2 DEF OutOfSight
  <2>4. y.version = feed[y.symbol]
    BY <2>3 DEF Detected
  <2>5. x.version = y.version
    BY <1>1, <2>1, <2>3 DEF OneVersion
  <2> QED BY <2>1, <2>3, <2>4, <2>5
<1>3. ServedRows(d) = ServedRows(0)
  BY DEF AllSame
<1> QED BY <1>2, <1>3 DEF Fresh, OfSymbols

LEMMA AdjustedEnter ==
  ASSUME AdjustedInv, slips \subseteq slips', UNCHANGED <<feed, manifests>>,
         NEW days \in SUBSET Days, NEW symbols \in SUBSET Symbols, EnterIncremental(days, symbols),
         NoMiss' => \A d \in Datasets : Fresh(OfSymbols(ServedRows(d), symbols))
  PROVE  AdjustedInv'
<1>1. CASE IncrementalKey(days) \in succeeded
  <2>1. pc' = "idle"
    BY <1>1 DEF EnterIncremental, End
  <2> QED BY <2>1, AdjustedStep
<1>2. CASE IncrementalKey(days) \notin succeeded
  <2>1. pc' = "collect" /\ job' = Begun(IncrementalKey(days), symbols)
    BY <1>2 DEF EnterIncremental, Collecting, Begun
  <2>2. job'.symbols = symbols
    BY <2>1, KeysTyped, JobBegun
  <2>3. \A d \in Datasets : ServedRows(d)' = ServedRows(d)
    BY ServedAll
  <2>4. NoMiss' => \A d \in Datasets : Fresh(OfSymbols(ServedRows(d), job.symbols))'
    BY <2>2, <2>3 DEF Fresh, OfSymbols
  <2> QED BY <2>1, <2>4, AdjustedStep
<1> QED BY <1>1, <1>2

LEMMA AdjustedIncremental ==
  ASSUME FitInv, SameInv, AdjustedInv, slips \subseteq slips',
         NEW days \in SessionRanges, NEW symbols \in Requests, Incremental(days, symbols)
  PROVE  AdjustedInv'
<1>1. /\ pc = "idle" /\ UNCHANGED <<feed, manifests>> /\ HasRoom
  BY DEF Incremental
<1>2. days \in SUBSET Days /\ symbols \in SUBSET Symbols
  BY CallAssumption
<1>3. PICK unfetched \in SUBSET symbols :
          IF Detected(days, symbols \ unfetched)
          THEN Collecting(BackfillKey(Latest(0) + 1, Days), Symbols)
          ELSE /\ EnterIncremental(days, symbols)
               /\ slips' = slips
                      \cup {x \in {"unfetched"} : unfetched # {}}
                      \cup {x \in {"gap"} : \E s \in Symbols : OutOfSight(days, s)}
  BY DEF Incremental
<1>4. CASE Detected(days, symbols \ unfetched)
  <2>1. pc' = "collect" /\ job' = Begun(BackfillKey(Latest(0) + 1, Days), Symbols)
    BY <1>3, <1>4 DEF Collecting, Begun
  <2>2. Latest(0) + 1 \in 0..MaxRevision
    <3>1. 0 \in Datasets
      BY CallAssumption DEF Datasets
    <3> QED BY <1>1, <3>1, RoomForAll, BoundAssumption
  <2>3. BackfillKey(Latest(0) + 1, Days) \in Keys /\ Symbols \in SUBSET Symbols
    BY <2>2, KeysTyped
  <2>4. job'.key = BackfillKey(Latest(0) + 1, Days)
    BY <2>1, <2>3, JobBegun
  <2>5. job'.key.command = "backfill"
    BY <2>4 DEF BackfillKey
  <2> QED BY <1>1, <2>1, <2>5, AdjustedStep
<1>5. CASE ~Detected(days, symbols \ unfetched)
  <2>1. /\ EnterIncremental(days, symbols)
        /\ slips' = slips
               \cup {x \in {"unfetched"} : unfetched # {}}
               \cup {x \in {"gap"} : \E s \in Symbols : OutOfSight(days, s)}
    BY <1>3, <1>5
  <2>2. ASSUME NoMiss', NEW d \in Datasets
        PROVE  Fresh(OfSymbols(ServedRows(d), symbols))
    <3>1. "unfetched" \notin slips' /\ "gap" \notin slips'
      BY <2>2 DEF NoMiss
    <3>2. unfetched = {} /\ \A s \in Symbols : ~OutOfSight(days, s)
      BY <2>1, <3>1
    <3>3. ~Detected(days, symbols)
      BY <1>5, <3>2
    <3>4. NoMiss /\ NoSplinter
      BY <2>2, NoMissNoSplinter
    <3>5. AllSame /\ \A e \in Datasets : OneVersion(e)
      BY <1>1, <3>4 DEF SameInv, AdjustedInv
    <3> QED BY <1>2, <3>2, <3>3, <3>5, SeenIsFresh
  <2> QED BY <1>1, <1>2, <2>1, <2>2, AdjustedEnter
<1> QED BY <1>4, <1>5

LEMMA AdjustedCollect ==
  ASSUME FitInv, AdjustedInv, slips \subseteq slips', Collect
  PROVE  AdjustedInv'
<1>1. pc = "collect" /\ UNCHANGED <<feed, manifests>>
  BY CollectIs
<1>2. /\ job'.key = job.key /\ job'.symbols = job.symbols /\ job'.rest = Datasets
      /\ job.key.command \in {"incremental", "backfill"}
      /\ job.key.command = "backfill" => job'.replaced = {Days}
  BY CollectedRows
<1>3. PICK unfetched \in SUBSET job.symbols, rows \in SUBSET Rows :
          /\ job'.flawed = (unfetched # {})
          /\ "stale" \notin slips' => {x \in rows : x.symbol \notin unfetched}
                                         = Bars(job.symbols \ unfetched, job.key.days)
          /\ \A d \in Datasets : PartRows(d)' =
                 IF job.key.command = "incremental" THEN {x \in rows : x.day \in job.key.days}
                 ELSE rows
  BY CollectedRows
<1>4. \A d \in Datasets : ServedRows(d)' = ServedRows(d)
  BY <1>1, ServedAll
<1>5. ASSUME NoMiss', job'.key.command = "incremental", NEW d \in Datasets
      PROVE  Fresh(OfSymbols(ServedRows(d), job.symbols))'
  <2>1. Fresh(OfSymbols(ServedRows(d), job.symbols))
    BY <1>1, <1>2, <1>5, NoMissNoSplinter DEF AdjustedInv
  <2> QED BY <1>1, <1>2, <1>4, <2>1 DEF Fresh, OfSymbols
<1>6. ASSUME NoMiss', ~job'.flawed, NEW d \in Datasets
      PROVE  PartsAdjusted(d)'
  <2>1. "stale" \notin slips'
    BY <1>6 DEF NoMiss
  <2>2. rows = Bars(job.symbols, job.key.days)
    BY <1>3, <1>6, <2>1
  <2>3. \A x \in rows : x.symbol \in job.symbols /\ x.version = feed[x.symbol]
    BY <2>2 DEF Bars
  <2>4. \A x \in PartRows(d)' : x.symbol \in job.symbols /\ x.version = feed[x.symbol]
    BY <1>3, <2>3
  <2>5. Fresh(PartRows(d))'
    BY <1>1, <2>4 DEF Fresh
  <2> QED BY <1>2, <2>4, <2>5 DEF PartsAdjusted
<1> QED BY <1>1, <1>5, <1>6, AdjustedStep

LEMMA AdjustedMigrate ==
  ASSUME FitInv, SameInv, AdjustedInv, slips \subseteq slips', Migrate
  PROVE  AdjustedInv'
<1>1. UNCHANGED manifests
  BY MigrateIs
<1>2. /\ job'.key = MigrateKey /\ job'.replaced = {Days}
      /\ ~job'.flawed => \A d \in Datasets : PartRows(d)' = Legacy
  BY MigratedRows DEF SameInv
<1>3. job'.key.command = "migrate"
  BY <1>2 DEF MigrateKey, NoKey
<1>4. \A x \in Legacy : x.version = 0
  BY DEF Legacy
<1>5. ~job'.flawed => \A d \in Datasets : PartsAdjusted(d)'
  BY <1>2, <1>3, <1>4 DEF PartsAdjusted
<1> QED BY <1>1, <1>3, <1>5, AdjustedStep

LEMMA AdjustedCompact ==
  ASSUME FitInv, AdjustedInv, slips \subseteq slips',
         NEW d \in Datasets, NEW grain \in WEEK..YEAR, NEW period \in PeriodsOf(grain),
         Compact(d, grain, period)
  PROVE  AdjustedInv'
<1>1. UNCHANGED manifests /\ pc' = "publish"
  BY DEF Compact
<1>2. job'.key = CompactKey(d, grain, period)
  BY DEF Compact, NoJob
<1>3. job'.key.command = "compact"
  BY <1>2 DEF CompactKey
<1>4. \A e \in Datasets : PartsAdjusted(e)'
  BY <1>3 DEF PartsAdjusted
<1> QED BY <1>1, <1>3, <1>4, AdjustedStep

LEMMA AdjustedDerive ==
  ASSUME AdjustedInv, slips \subseteq slips', Derive
  PROVE  AdjustedInv'
<1>1. UNCHANGED manifests /\ pc' = "publish"
  BY DEF Derive
<1>2. job'.key = DeriveKey
  BY DEF Derive, NoJob
<1>3. job'.key.command = "derive"
  BY <1>2 DEF DeriveKey, NoKey
<1>4. \A e \in Datasets : PartsAdjusted(e)'
  BY <1>3 DEF PartsAdjusted
<1> QED BY <1>1, <1>3, <1>4, AdjustedStep

LEMMA AdjustedPublish ==
  ASSUME FitInv, SameInv, AdjustedInv, slips \subseteq slips', Publish
  PROVE  AdjustedInv'
<1> SUFFICES ASSUME NoMiss' PROVE AdjustedInv'
  BY DEF AdjustedInv
<1>1. pc = "publish" /\ pc' = "publish" /\ feed' = feed
  BY PublishIs
<1>2. PICK d, l, r, new, snapshot, good : Publishing(d, l, r, new, snapshot, good)
  BY PublishIs, Zenon
<1>3. NoMiss /\ NoSplinter /\ NoSplinter'
  BY NoMissNoSplinter
<1>4. NoReuse' /\ "uneven" \notin slips'
  BY <1>3, NoSplinterNoReuse DEF NoSplinter, Splinters
<1>5. /\ job'.key = job.key /\ job'.symbols = job.symbols /\ job'.parts = job.parts
      /\ job'.replaced = job.replaced /\ job'.rest = job.rest \ {d}
      /\ job'.flawed = (job.flawed \/ ~good)
  BY <1>2, PublishedJob
<1>6. d \in Datasets /\ d \in job.rest /\ good \in BOOLEAN /\ ~Uneven(d, good)
  <2>1. d \in Datasets
    BY <1>1, <1>2, PublishedManifests
  <2>2. d \in job.rest /\ good \in BOOLEAN /\ ~Uneven(d, good)
    BY <1>2, <1>4 DEF Publishing
  <2> QED BY <2>1, <2>2
<1>7. Apart(d)
  BY <1>3, <1>6 DEF SameInv
<1>8. ServedRows(d)' = IF good THEN Beside(d) \cup PartRows(d) ELSE ServedRows(d)
  BY <1>1, <1>2, <1>4, <1>7, PublishedRows
<1>9. \A e \in Datasets : e # d => ServedRows(e)' = ServedRows(e)
  BY <1>1, <1>2, OthersStay
<1>10. \A e : PartRows(e)' = PartRows(e)
  BY <1>5 DEF PartRows
<1>11. Beside(d) \subseteq ServedRows(d)
  BY DEF Beside
<1>12. job.key.command \in {"incremental", "backfill", "compact", "derive", "migrate"}
  BY <1>1 DEF FitInv, JobFits
<1>13. /\ \A e \in Datasets : OneVersion(e)
       /\ job.key.command = "incremental" =>
              \A e \in Datasets : Fresh(OfSymbols(ServedRows(e), job.symbols))
       /\ ~job.flawed => \A e \in Datasets : PartsAdjusted(e)
  BY <1>1, <1>3 DEF AdjustedInv
<1>14. good /\ OfAllDatasets => ~job.flawed /\ PartsAdjusted(d)
  BY <1>6, <1>13 DEF Uneven
<1>15. ASSUME good, job.key.command \in {"backfill", "migrate"}
       PROVE  Beside(d) = {}
  <2>1. job.replaced = {Days}
    BY <1>14, <1>15 DEF PartsAdjusted, OfAllDatasets
  <2>2. \A x \in ServedRows(d) : x.day \in Days
    BY <1>6, ServedTyped DEF Rows
  <2> QED BY <2>1, <2>2 DEF Beside
<1>16. OneVersion(d)'
  <2>1. CASE ~good
    BY <1>6, <1>8, <1>13, <2>1 DEF OneVersion
  <2>2. CASE good /\ job.key.command \in {"compact", "derive"}
    <3>1. Cut(d) = {} /\ ~OfAllDatasets
      BY <1>6, <2>2 DEF Uneven, OfAllDatasets
    <3>2. Beside(d) \cup PartRows(d) = ServedRows(d)
      BY <1>1, <1>3, <1>6, <3>1 DEF SameInv
    <3> QED BY <1>6, <1>8, <1>13, <2>2, <3>2 DEF OneVersion
  <2>3. CASE good /\ job.key.command = "backfill"
    <3>1. Fresh(PartRows(d)) /\ Beside(d) = {}
      BY <1>14, <1>15, <2>3 DEF PartsAdjusted, OfAllDatasets
    <3> QED BY <1>8, <2>3, <3>1 DEF OneVersion, Fresh
  <2>4. CASE good /\ job.key.command = "migrate"
    <3>1. (\A x \in PartRows(d) : x.version = 0) /\ Beside(d) = {}
      BY <1>14, <1>15, <2>4 DEF PartsAdjusted, OfAllDatasets
    <3> QED BY <1>8, <2>4, <3>1 DEF OneVersion
  <2>5. CASE good /\ job.key.command = "incremental"
    <3>1. Fresh(PartRows(d)) /\ \A x \in PartRows(d) : x.symbol \in job.symbols
      BY <1>14, <2>5 DEF PartsAdjusted, OfAllDatasets
    <3>2. Fresh(OfSymbols(ServedRows(d), job.symbols)) /\ OneVersion(d)
      BY <1>6, <1>13, <2>5
    <3>3. \A x \in ServedRows(d)' : x.symbol \in job.symbols => x.version = feed[x.symbol]
      BY <1>8, <1>11, <2>5, <3>1, <3>2 DEF Fresh, OfSymbols
    <3>4. \A x \in ServedRows(d)' : x.symbol \notin job.symbols => x \in ServedRows(d)
      BY <1>8, <1>11, <2>5, <3>1
    <3> QED BY <3>2, <3>3, <3>4 DEF OneVersion
  <2> QED BY <1>6, <1>12, <2>1, <2>2, <2>3, <2>4, <2>5
<1>17. \A e \in Datasets : OneVersion(e)'
  BY <1>9, <1>13, <1>16 DEF OneVersion
<1>18. ASSUME job.key.command = "incremental", NEW e \in Datasets
       PROVE  Fresh(OfSymbols(ServedRows(e), job.symbols))'
  <2>1. Fresh(OfSymbols(ServedRows(e), job.symbols))
    BY <1>13, <1>18
  <2>2. CASE e = d /\ good
    <3>1. Fresh(PartRows(d))
      BY <1>14, <1>18, <2>2 DEF PartsAdjusted, OfAllDatasets
    <3> QED BY <1>1, <1>5, <1>8, <1>11, <2>1, <2>2, <3>1 DEF Fresh, OfSymbols
  <2>3. CASE ~(e = d /\ good)
    <3>1. ServedRows(e)' = ServedRows(e)
      BY <1>6, <1>8, <1>9, <2>3
    <3> QED BY <1>1, <1>5, <2>1, <3>1 DEF Fresh, OfSymbols
  <2> QED BY <2>2, <2>3
<1>19. ASSUME ~job'.flawed, NEW e \in Datasets
       PROVE  PartsAdjusted(e)'
  <2>1. good /\ ~job.flawed /\ PartsAdjusted(e)
    BY <1>5, <1>6, <1>13, <1>19
  <2>2. PartsAdjusted(e) => 
          /\ job'.key.command \in {"backfill", "migrate"} => job'.replaced = {Days}
          /\ job'.key.command \in {"incremental", "backfill"} => Fresh(PartRows(e))'
          /\ job'.key.command = "incremental" => \A x \in PartRows(e)' : x.symbol \in job'.symbols
          /\ job'.key.command = "migrate" => \A x \in PartRows(e)' : x.version = 0
    BY <1>1, <1>5, <1>10 DEF PartsAdjusted, Fresh
  <2>3. ASSUME job.key.command = "backfill", e \notin job'.rest
        PROVE  Fresh(ServedRows(e))'
    <3>1. CASE e = d
      <4>1. Fresh(PartRows(d)) /\ Beside(d) = {}
        BY <1>15, <2>1, <2>3, <3>1 DEF PartsAdjusted
      <4> QED BY <1>1, <1>8, <2>1, <3>1, <4>1 DEF Fresh
    <3>2. CASE e # d
      <4>1. Fresh(ServedRows(e))
        BY <1>5, <2>1, <2>3, <3>2 DEF PartsAdjusted
      <4> QED BY <1>1, <1>9, <3>2, <4>1 DEF Fresh
    <3> QED BY <3>1, <3>2
  <2> QED BY <1>5, <2>1, <2>2, <2>3 DEF PartsAdjusted
<1> QED BY <1>1, <1>5, <1>17, <1>18, <1>19 DEF AdjustedInv

(* After its correction an incremental finds the whole year as Alpaca answers. *)
LEMMA AdjustedFinish ==
  ASSUME FitInv, AdjustedInv, slips \subseteq slips', Finish
  PROVE  AdjustedInv'
<1>1. pc = "publish" /\ job.rest = {} /\ UNCHANGED <<feed, manifests>>
  BY DEF Finish
<1>2. CASE job.flawed \/ waiting.days = {}
  <2>1. pc' = "idle"
    BY <1>2 DEF Finish, End
  <2> QED BY <1>1, <2>1, AdjustedStep
<1>3. CASE ~job.flawed /\ waiting.days # {}
  <2>1. EnterIncremental(waiting.days, waiting.symbols)
    BY <1>3 DEF Finish
  <2>2. /\ waiting.days \in SUBSET Days /\ waiting.symbols \in SUBSET Symbols
        /\ job.key.command = "backfill"
    BY <1>1, <1>3 DEF FitInv, Typed, Calls, JobFits
  <2>3. ASSUME NoMiss', NEW d \in Datasets
        PROVE  Fresh(OfSymbols(ServedRows(d), waiting.symbols))
    <3>1. NoMiss
      BY <2>3, NoMissNoSplinter
    <3>2. PartsAdjusted(d)
      BY <1>1, <1>3, <3>1 DEF AdjustedInv
    <3>3. Fresh(ServedRows(d))
      BY <1>1, <2>2, <3>2 DEF PartsAdjusted
    <3> QED BY <3>3 DEF Fresh, OfSymbols
  <2> QED BY <1>1, <2>1, <2>2, <2>3, AdjustedEnter
<1> QED BY <1>2, <1>3

LEMMA AdjustedNext == FitInv /\ SameInv /\ AdjustedInv /\ [Next]_vars => AdjustedInv'
<1> SUFFICES ASSUME FitInv, SameInv, AdjustedInv, [Next]_vars PROVE AdjustedInv'
  OBVIOUS
<1>0. slips \subseteq slips'
  BY SlipsGrow
<1>1. CASE UNCHANGED vars
  BY <1>0, <1>1, AdjustedSame DEF vars
<1>2. CASE NextDay
  BY <1>0, <1>2, AdjustedSame DEF NextDay
<1>3. CASE \E s \in Symbols : Split(s)
  <2>1. UNCHANGED <<manifests, pc>> /\ (pc = "idle" \/ "raced" \in slips')
    BY <1>3 DEF Split
  <2>2. "raced" \in slips' => ~NoMiss'
    BY DEF NoMiss
  <2> QED BY <1>0, <2>1, <2>2, AdjustedStep
<1>4. CASE \E days \in SessionRanges, symbols \in Requests : Incremental(days, symbols)
  BY <1>0, <1>4, AdjustedIncremental
<1>5. CASE \E days \in BackfillRanges, symbols \in Requests : Backfill(days, symbols)
  <2>1. PICK days \in BackfillRanges, symbols \in Requests : Backfill(days, symbols)
    BY <1>5
  <2>2. UNCHANGED manifests /\ pc' = "collect" /\ job' = Begun(BackfillKey(0, days), symbols)
    BY <2>1 DEF Backfill, Collecting, Begun
  <2>3. BackfillKey(0, days) \in Keys /\ symbols \in SUBSET Symbols
    <3>1. days \in SUBSET Days /\ symbols \in SUBSET Symbols /\ 0 \in 0..MaxRevision
      BY CallAssumption, BoundAssumption
    <3> QED BY <3>1, KeysTyped
  <2>4. job'.key = BackfillKey(0, days)
    BY <2>2, <2>3, JobBegun
  <2>5. job'.key.command = "backfill"
    BY <2>4 DEF BackfillKey
  <2> QED BY <1>0, <2>2, <2>5, AdjustedStep
<1>6. CASE Collect
  BY <1>0, <1>6, AdjustedCollect
<1>7. CASE \E d \in Datasets, grain \in WEEK..YEAR : \E period \in PeriodsOf(grain) :
            Compact(d, grain, period)
  <2>1. PICK d \in Datasets, grain \in WEEK..YEAR : \E period \in PeriodsOf(grain) :
            Compact(d, grain, period)
    BY <1>7
  <2>2. PICK period \in PeriodsOf(grain) : Compact(d, grain, period)
    BY <2>1
  <2> QED BY <1>0, <2>2, AdjustedCompact
<1>8. CASE Derive
  BY <1>0, <1>8, AdjustedDerive
<1>9. CASE Migrate
  BY <1>0, <1>9, AdjustedMigrate
<1>10. CASE Publish
  BY <1>0, <1>10, AdjustedPublish
<1>11. CASE Refused
  BY <1>0, <1>11, AdjustedStep DEF Refused, End
<1>12. CASE Finish
  BY <1>0, <1>12, AdjustedFinish
<1>13. CASE Dies
  BY <1>0, <1>13, AdjustedStep DEF Dies, End
<1> QED BY <1>1, <1>2, <1>3, <1>4, <1>5, <1>6, <1>7, <1>8, <1>9, <1>10, <1>11, <1>12, <1>13 DEF Next

LEMMA AdjustedFirst == Init => AdjustedInv
<1> SUFFICES ASSUME Init PROVE AdjustedInv
  OBVIOUS
<1>1. \A d \in Datasets : ServedRows(d) = {}
  BY NothingServed DEF ServedRows
<1>2. \A d \in Datasets : OneVersion(d)
  BY <1>1 DEF OneVersion
<1> QED BY <1>2 DEF Init, AdjustedInv

(* Between commands the served bars of a symbol have one adjustment in every     *)
(* dataset, after any corrections, compactions, failures and deaths, as long as  *)
(* no re-adjustment was missed in a named way.                               *)
THEOREM AlwaysOneAdjustment == Spec => []OneAdjustment
<1>1. Init => AdjustedInv
  BY AdjustedFirst
<1>2. FitInv /\ SameInv /\ AdjustedInv /\ [Next]_vars => AdjustedInv'
  BY AdjustedNext
<1>3. AdjustedInv => OneAdjustment
  BY DEF AdjustedInv, NoMiss, OneVersion, OneAdjustment
<1> QED BY <1>1, <1>2, <1>3, SameAlways, PTL DEF Spec
-----------------------------------------------------------------------------
(* The objects that readers of a dataset are given, as those of a series.    *)
ObjectsOf(d) == {AsObject(o) : o \in Served(d)}

(* What the replaced periods do not meet stays.                             *)
LEMMA KeptAreRetained ==
  ASSUME NEW d
  PROVE  SeriesOf(d)!Kept(job.replaced) = {AsObject(o) : o \in Retained(d)}
<1>1. \A o : AsObject(o).slot.period = o.period
  BY DEF AsObject
<1>2. SeriesOf(d)!Kept(job.replaced) =
          {a \in ObjectsOf(d) : \A p \in job.replaced : ~Meet(a.slot.period, p)}
  BY DEF SeriesOf!Kept, ObjectsOf
<1>3. ASSUME NEW q \in Served(d)
      PROVE  (\A p \in job.replaced : ~Meet(AsObject(q).slot.period, p)) <=> q \in Retained(d)
  <2>1. AsObject(q).slot.period = q.period
    BY <1>1
  <2> HIDE DEF AsObject
  <2> QED BY <2>1 DEF Meet, Retained
<1>4. Retained(d) \subseteq Served(d)
  BY DEF Retained
<1> HIDE DEF AsObject
<1>5. {a \in ObjectsOf(d) : \A p \in job.replaced : ~Meet(a.slot.period, p)}
          = {AsObject(q) : q \in Retained(d)}
  BY <1>3, <1>4 DEF ObjectsOf
<1> QED BY <1>2, <1>5

(* A dataset whose manifests stay is at the same snapshot.                    *)
LEMMA SeriesSame ==
  ASSUME NEW d, manifests'[d] = manifests[d]
  PROVE  UNCHANGED SeriesOf(d)!svars
<1>1. Latest(d)' = Latest(d) /\ Served(d)' = Served(d)
  BY ServedFrame
<1>2. {AsObject(o) : o \in Served(d)}' = {AsObject(o) : o \in Served(d)}
  BY <1>1 DEF AsObject
<1> QED BY <1>1, <1>2 DEF SeriesOf!svars

(* One publish_dataset call publishes the next snapshot of its dataset, for    *)
(* the periods that the command replaces, or leaves its readers where they    *)
(* are.                                                                    *)
LEMMA SeriesPublish ==
  ASSUME FitInv, Publish, NoReuse', NEW e \in Datasets
  PROVE  [SeriesOf(e)!Next]_(SeriesOf(e)!svars)
<1>1. pc = "publish"
  BY PublishIs
<1>2. PICK d, l, r, new, snapshot, good : Publishing(d, l, r, new, snapshot, good)
  BY PublishIs, Zenon
<1>3. /\ d \in Datasets /\ r \in Revisions /\ r >= l
      /\ manifests' = [manifests EXCEPT ![d] = manifests'[d]]
  BY <1>1, <1>2, PublishedManifests
<1>4. CASE e # d
  <2>1. manifests \in [Datasets -> [Revisions -> Manifests]]
    BY DEF FitInv, Typed
  <2>2. manifests'[e] = manifests[e]
    BY <1>3, <1>4, <2>1
  <2> QED BY <2>2, SeriesSame
<1>5. l = Latest(d) /\ r # l /\ good \in BOOLEAN
      /\ (good => snapshot = Retained(d) \cup new /\ snapshot # {})
      /\ new = {ObjectOf(p, r) : p \in {q \in job.parts : q.dataset = d}}
  BY <1>2 DEF Publishing, NoReuse
<1>6. l \in Nat /\ r \in Nat /\ r > l /\ MaxRevision \in Nat /\ r <= MaxRevision
      /\ LatestOf(Available(d), l) /\ Available(d) \subseteq Revisions
  BY <1>3, <1>5, LatestNow, BoundAssumption DEF Revisions
<1>7. r \notin Available(d)
  BY <1>6 DEF LatestOf
<1>8. Served(d)' = IF good THEN Retained(d) \cup new ELSE Served(d)
  BY <1>1, <1>2, PublishedServed
<1>9. CASE ~good
  <2>1. Available(d)' = (Available(d) \ ({r} \cup {v \in {l} : good}))
                             \cup {v \in {r} : good /\ r # l}
    BY <1>1, <1>2, PublishedAvailable
  <2>2. Available(d)' = Available(d)
    BY <1>7, <1>9, <2>1
  <2>3. Latest(d)' = Latest(d)
    BY <2>2 DEF Latest
  <2>4. Served(d)' = Served(d)
    BY <1>8, <1>9
  <2>5. {AsObject(o) : o \in Served(d)}' = {AsObject(o) : o \in Served(d)}
    BY <2>4 DEF AsObject
  <2>6. UNCHANGED SeriesOf(d)!svars
    BY <2>3, <2>5 DEF SeriesOf!svars
  <2> QED BY <1>4, <2>6
<1>10. CASE good
  <2>1. Available(d)' = (Available(d) \ {l}) \cup {r}
    <3>1. Available(d)' = (Available(d) \ ({r} \cup {v \in {l} : good}))
                              \cup {v \in {r} : good /\ r # l}
      BY <1>1, <1>2, PublishedAvailable
    <3> QED BY <1>5, <1>7, <1>10, <3>1
  <2>2. \A x \in Available(d)' : x <= r
    <3>1. \A x \in Available(d) : x \in Nat /\ x <= l
      BY <1>6 DEF LatestOf, Revisions
    <3> QED BY <1>6, <2>1, <3>1
  <2>3. Latest(d)' = r
    <3>1. LatestOf(Available(d)', r)
      BY <2>1, <2>2 DEF LatestOf
    <3> QED BY <3>1, LatestThen, LatestUnique
  <2>4. ObjectsOf(d)' = {AsObject(o) : o \in Retained(d) \cup new}
    BY <1>8, <1>10 DEF ObjectsOf, AsObject
  <2>5. SeriesOf(d)!Kept(job.replaced) = {AsObject(o) : o \in Retained(d)}
    BY KeptAreRetained
  <2>6. ASSUME NEW o \in new
        PROVE  /\ AsObject(o).revision = r /\ AsObject(o).slot.period \in job.replaced
               /\ AsObject(o).slot.shard \in Shards /\ AsObject(o).content \in SUBSET Rows
    <3>1. PICK p \in job.parts : o = ObjectOf(p, r)
      BY <1>5
    <3>2. p \in JobParts /\ p.period \in job.replaced
      BY <1>1 DEF FitInv, Typed, Jobs, JobFits
    <3>3. o.revision = r /\ o.period = p.period /\ o.shard = p.shard /\ o.rows = p.rows
      BY <3>1 DEF ObjectOf
    <3> QED BY <3>2, <3>3 DEF AsObject, JobParts
  <2>7. job.replaced \in SUBSET SUBSET Days
    BY DEF FitInv, Typed, Jobs
  <2>8. SeriesOf(d)!Publish(job.replaced)
    <3>1. Latest(d)' \in (Latest(d) + 1)..MaxRevision
      BY <1>5, <1>6, <2>3
    <3>2. ObjectsOf(d)' # {}
      BY <1>5, <1>10, <2>4
    <3>3. SeriesOf(d)!Kept(job.replaced) \subseteq ObjectsOf(d)'
      BY <2>4, <2>5
    <3>4. ASSUME NEW a \in ObjectsOf(d)' \ SeriesOf(d)!Kept(job.replaced)
          PROVE  /\ a.revision = Latest(d)' /\ a.slot.period \in job.replaced
                 /\ a.slot.shard \in Shards /\ a.content \in SUBSET Rows
      <4>1. PICK o \in Retained(d) \cup new : a = AsObject(o)
        BY <2>4
      <4>2. o \in new
        BY <2>5, <4>1
      <4> QED BY <2>3, <2>6, <4>1, <4>2
    <3> QED BY <3>1, <3>2, <3>3, <3>4 DEF SeriesOf!Publish, ObjectsOf
  <2>9. SeriesOf(d)!Next
    BY <2>7, <2>8 DEF SeriesOf!Next
  <2> QED BY <1>4, <2>9
<1> QED BY <1>5, <1>9, <1>10

LEMMA SeriesNext ==
  ASSUME FitInv, [Next]_vars, NoReuse', NEW d \in Datasets
  PROVE  [SeriesOf(d)!Next]_(SeriesOf(d)!svars)
<1>1. Publish \/ UNCHANGED manifests
  BY DEF Next, vars, NextDay, Split, Incremental, Backfill, Collect, Compact, Derive, Migrate,
         Refused, Finish, Dies
<1> QED BY <1>1, SeriesPublish, SeriesSame

(* Whatever sequence of commands runs, fails, is retried and dies, with       *)
(* whatever calendar, each publish_dataset call moves the readers of its       *)
(* dataset to the next whole snapshot or leaves them where they are, and every  *)
(* other step leaves them there, unless a revision was reused.               *)
THEOREM AlwaysSeries == Spec => StaysSeries
<1> DEFINE Steps == slips' \cap {"leaked", "inplace"} = {} =>
                        \A d \in Datasets : [SeriesOf(d)!Next]_(SeriesOf(d)!svars)
<1>1. FitInv /\ [Next]_vars => [Steps]_vars
  BY SeriesNext DEF NoReuse
<1>2. Spec => []FitInv /\ [][Next]_vars
  BY FitAlways, PTL DEF Spec
<1>3. Spec => [][Steps]_vars
  BY <1>1, <1>2, PTL
<1> QED BY <1>3 DEF StaysSeries

(* Where none ever was, the readers of a dataset see a SnapshotSeries.        *)
THEOREM LifecycleImplementsSeries ==
  ASSUME NEW d \in Datasets
  PROVE  Spec /\ []NoReuse => SeriesOf(d)!Spec
<1>1. Init => SeriesOf(d)!Init
  <2> SUFFICES ASSUME Init PROVE SeriesOf(d)!Init
    OBVIOUS
  <2>1. Served(d) = {}
    BY NothingServed
  <2>2. Available(d) = {}
    BY DEF Init, NoManifest, Available
  <2> QED BY <2>1, <2>2 DEF SeriesOf!Init, Latest
<1>2. FitInv /\ [Next]_vars /\ NoReuse' => [SeriesOf(d)!Next]_(SeriesOf(d)!svars)
  BY SeriesNext
<1>3. Spec => []FitInv /\ [][Next]_vars
  BY FitAlways, PTL DEF Spec
<1> QED BY <1>1, <1>2, <1>3, PTL DEF Spec, SeriesOf!Spec
=============================================================================
