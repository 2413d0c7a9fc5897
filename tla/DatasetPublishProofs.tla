------------------------ MODULE DatasetPublishProofs ------------------------
(***************************************************************************)
(* Theorems about DatasetPublish, for every set of periods, shards and      *)
(* contents and every bound on revisions and failures: first what holds of  *)
(* what is stored and listed, whatever fails, and that readers are given a  *)
(* SnapshotSeries as long as nothing leaks; then what publish_dataset       *)
(* achieves when nothing fails: the inventory of a readable manifest is the *)
(* snapshot it was hashed over, one manifest is AVAILABLE between calls, no *)
(* time of a shard is given by two objects.                                 *)
(***************************************************************************)
EXTENDS DatasetPublish, FiniteSetTheorems, TLAPS

(* The fixed order picks an element. *)
LEMMA FirstOfIsElement ==
    ASSUME NEW S, S # {}
    PROVE  FirstOf(S) \in S
  BY DEF FirstOf

(* The object written for a group is a well-typed object. *)
LEMMA NewObjectType ==
    ASSUME NEW g \in Groups, revision \in Revisions
    PROVE  NewObjectOf(g) \in Objects
  BY DEF NewObjectOf, Groups, Objects

(* What the previous manifest keeps are objects. *)
LEMMA RetainedType ==
    ASSUME TypeOK
    PROVE  Retained \subseteq Objects
  <1>1. previous # 0 => previous \in Revisions
    BY RevisionAssumption DEF TypeOK, Revisions
  <1>2. QED
    BY <1>1 DEF TypeOK, Retained

(* The row the local reader returns for no manifest is a typed one.          *)
LEMMA NoManifestType == NoManifest \in ManifestRecords
  BY RevisionAssumption DEF NoManifest, ManifestRecords, Statuses

(* After an abnormal or normal return the locals are typed. *)
LEMMA EndCallType ==
    ASSUME EndCall
    PROVE  /\ pc' = "idle"
           /\ revision' \in 0..MaxRevision
           /\ previous' \in 0..MaxRevision
           /\ previousRecord' \in ManifestRecords
           /\ replaced' \subseteq Periods
           /\ todo' \subseteq Groups
           /\ fresh' \subseteq Objects
           /\ flawed' \in BOOLEAN
           /\ snapshot' \subseteq Objects
           /\ unstaged' \subseteq Objects
           /\ current' \in Objects \cup {NoObject}
  <1>1. 0 \in 0..MaxRevision
    BY RevisionAssumption
  <1>2. flawed' \in BOOLEAN
    BY Zenon DEF EndCall
  <1>3. QED
    BY <1>1, <1>2, NoManifestType, SMT DEF EndCall

-----------------------------------------------------------------------------
(* Every variable keeps its type. *)
LEMMA TypeStep == TypeOK /\ [Next]_vars => TypeOK'
  <1> SUFFICES ASSUME TypeOK, [Next]_vars PROVE TypeOK'
    OBVIOUS
  <1> USE DEF TypeOK
  <1>1. CASE Call
    <2>1. PICK periods \in Batches,
               groups \in SUBSET Groups,
               callerFailed \in BOOLEAN :
                   BeginPublish(periods, groups, callerFailed)
      BY <1>1 DEF Call
    <2>2. PICK latest \in 0..MaxRevision : \E r \in NextRevision(latest) :
              /\ IsLatest(latest)
              /\ revision' = r
              /\ previous' = latest
              /\ previousRecord' = IF latest = 0 THEN NoManifest ELSE manifest[latest]
              /\ manifest' = [manifest EXCEPT ![r] =
                     [status |-> "BUILDING", hash |-> {}, supersedes |-> latest]]
      BY <2>1 DEF BeginPublish
    <2>3. PICK r \in NextRevision(latest) :
              /\ revision' = r
              /\ previous' = latest
              /\ previousRecord' = IF latest = 0 THEN NoManifest ELSE manifest[latest]
              /\ manifest' = [manifest EXCEPT ![r] =
                     [status |-> "BUILDING", hash |-> {}, supersedes |-> latest]]
      BY <2>2
    <2>4. r \in Revisions /\ revision' \in Revisions /\ revision' \in 0..MaxRevision
      BY <2>3, RevisionAssumption DEF NextRevision, Revisions
    <2>5. [status |-> "BUILDING", hash |-> {}, supersedes |-> latest] \in ManifestRecords
      BY DEF ManifestRecords, Statuses
    <2>6. manifest' \in [Revisions -> ManifestRecords]
      BY <2>3, <2>5
    <2>7. previousRecord' \in ManifestRecords
      BY <2>3, NoManifestType, RevisionAssumption DEF Revisions
    <2>8. failures' \in Nat
      BY <2>1 DEF BeginPublish, Fail
    <2>9. replaced' \subseteq Periods /\ todo' \subseteq Groups /\ flawed' \in BOOLEAN
      BY <2>1, BatchesAssumption DEF BeginPublish
    <2> QED
      BY <2>1, <2>3, <2>4, <2>6, <2>7, <2>8, <2>9 DEF BeginPublish
  <1>2. CASE PutObject
    <2>1. FirstOf(todo) \in Groups
      BY <1>2, FirstOfIsElement DEF PutObject
    <2>2. NewObjectOf(FirstOf(todo)) \in Objects
      BY <1>2, <2>1, NewObjectType DEF PutObject
    <2> QED
      BY <1>2, <2>2 DEF PutObject, catalogVars
  <1>3. CASE GroupFails
    <2>1. FirstOf(todo) \in Groups
      BY <1>3, FirstOfIsElement DEF GroupFails
    <2>2. NewObjectOf(FirstOf(todo)) \in Objects
      BY <1>3, <2>1, NewObjectType DEF GroupFails
    <2>3. store' \subseteq Objects /\ failures' \in Nat
      BY <1>3, <2>2 DEF GroupFails, Fail
    <2> QED
      BY <1>3, <2>3 DEF GroupFails, catalogVars
  <1>4. CASE ComputeSnapshot
    BY <1>4, RetainedType DEF ComputeSnapshot, catalogVars
  <1>5. CASE StageStorage
    <2> DEFINE S == IF unstaged \subseteq fresh THEN unstaged ELSE unstaged \ fresh
    <2>1. S # {} /\ S \subseteq Objects
      BY <1>5 DEF StageStorage
    <2>2. FirstOf(S) \in Objects
      BY <2>1, FirstOfIsElement
    <2> QED
      BY <1>5, <2>2 DEF StageStorage
  <1>6. CASE StageRelation
    BY <1>6 DEF StageRelation
  <1>7. CASE RecordProvenance
    BY <1>7 DEF RecordProvenance
  <1>8. CASE RecordIncidents
    BY <1>8 DEF RecordIncidents, callVars
  <1>9. CASE PublishManifest
    <2>1. FinalManifest \in ManifestRecords
      BY DEF FinalManifest, Outcome, ManifestRecords, Statuses
    <2>2. manifest' \in [Revisions -> ManifestRecords]
      BY <1>9, <2>1 DEF PublishManifest
    <2>3. CASE EndCall
      BY <1>9, <2>2, <2>3, EndCallType DEF PublishManifest
    <2>4. CASE pc' = "supersede" /\ UNCHANGED callVars
      BY <1>9, <2>2, <2>4 DEF PublishManifest, callVars
    <2> QED
      BY <1>9, <2>3, <2>4 DEF PublishManifest
  <1>10. CASE SupersedePrevious
    <2>1. [previousRecord EXCEPT !.status = "SUPERSEDED"] \in ManifestRecords
      BY DEF ManifestRecords, Statuses
    <2>2. manifest' \in [Revisions -> ManifestRecords]
      BY <1>10, <2>1 DEF SupersedePrevious
    <2> QED
      BY <1>10, <2>2, EndCallType DEF SupersedePrevious
  <1>11. CASE Crash
    BY <1>11, EndCallType DEF Crash, Fail, catalogVars
  <1>12. CASE UNCHANGED vars
    BY <1>12 DEF vars, catalogVars, callVars
  <1> QED
    BY <1>1, <1>2, <1>3, <1>4, <1>5, <1>6, <1>7, <1>8, <1>9, <1>10, <1>11, <1>12
    DEF Next, Step

(* The empty catalog and store are typed.                                    *)
LEMMA InitType == Init => TypeOK
  <1> SUFFICES ASSUME Init PROVE TypeOK
    OBVIOUS
  <1>1. 0 \in 0..MaxRevision
    BY RevisionAssumption
  <1>2. flawed \in BOOLEAN
    BY Zenon DEF Init, IdleCall
  <1>3. manifest \in [Revisions -> ManifestRecords]
    BY NoManifestType DEF Init
  <1>4. previousRecord \in ManifestRecords
    BY NoManifestType DEF Init, IdleCall
  <1>5. QED
    BY <1>1, <1>2, <1>3, <1>4, SMT DEF Init, IdleCall, TypeOK

(* The type invariant holds in every reachable state. *)
THEOREM TypeCorrect == Spec => []TypeOK
  BY InitType, TypeStep, PTL DEF Spec

-----------------------------------------------------------------------------
(* What Backed rests on while a call runs: nothing is staged before its     *)
(* bytes are stored, nothing is related before its storage row, and what    *)
(* the loop has passed is in the inventory.                                 *)
Staging == {"stage", "relate", "trace", "report", "supersede"}

CallIsBacked ==
    /\ fresh \subseteq store
    /\ pc \in Staging =>
          /\ snapshot \subseteq store
          /\ unstaged \subseteq snapshot
          /\ snapshot \ unstaged \subseteq members[revision]
    /\ pc \in {"relate", "trace"} => current \in unstaged /\ current \in storage
    /\ pc = "trace" => current \in members[revision]
    /\ pc \in {"report", "supersede"} => unstaged = {}
    /\ pc # "idle" /\ previous # 0 => previousRecord.hash \subseteq members[previous]

BackedInv == TypeOK /\ Backed /\ CallIsBacked

(* What the previous manifest keeps is stored. *)
LEMMA RetainedStored ==
    ASSUME TypeOK, Backed
    PROVE  Retained \subseteq store
  <1>1. previous # 0 => previous \in Revisions
    BY RevisionAssumption DEF TypeOK, Revisions
  <1>2. QED
    BY <1>1 DEF Retained, Backed

(* Storing an object whose key is not taken keeps a key for one content. *)
LEMMA PutKeepsKeys ==
    ASSUME KeysNameOneObject, NEW o, ~KeyTaken(o), store' = store \cup {o}
    PROVE  KeysNameOneObject'
  <1>1. store' = store \cup {o}
    OBVIOUS
  <1>2. \A x \in store : ObjectKey(x) = ObjectKey(o) => x = o
    BY DEF KeyTaken
  <1>3. SUFFICES ASSUME NEW a \in store', NEW b \in store', ObjectKey(a) = ObjectKey(b)
                 PROVE  a = b
    BY DEF KeysNameOneObject, ObjectKey
  <1>4. a \in store \cup {o} /\ b \in store \cup {o}
    BY <1>1
  <1>5. ASSUME a \in store, b \in store PROVE a = b
    BY <1>3, <1>5 DEF KeysNameOneObject
  <1>6. ASSUME a = o PROVE a = b
    BY <1>2, <1>3, <1>4, <1>6
  <1>7. ASSUME b = o PROVE a = b
    BY <1>2, <1>3, <1>4, <1>7
  <1>8. QED
    BY <1>4, <1>5, <1>6, <1>7

(* A step that only ends the call, or fails it, keeps what is backed. *)
LEMMA EndCallBacked ==
    ASSUME Backed, EndCall, UNCHANGED <<store, catalogVars>>
    PROVE  Backed' /\ CallIsBacked'
  BY DEF Backed, EndCall, CallIsBacked, Staging, catalogVars, Readable,
         KeysNameOneObject, ObjectKey

(* Every step keeps the inventory backed by rows and bytes. *)
LEMMA BackedStep == BackedInv /\ [Next]_vars => Backed' /\ CallIsBacked'
  <1> SUFFICES ASSUME TypeOK, Backed, CallIsBacked, [Next]_vars
               PROVE  Backed' /\ CallIsBacked'
    BY DEF BackedInv
  <1> TypeOK'
    BY TypeStep
  <1> USE DEF Staging
  <1>1. CASE Call
    <2>1. PICK periods \in Batches, groups \in SUBSET Groups, callerFailed \in BOOLEAN :
              BeginPublish(periods, groups, callerFailed)
      BY <1>1 DEF Call
    <2>2. PICK latest \in 0..MaxRevision, r \in Revisions :
              /\ IsLatest(latest)
              /\ previous' = latest
              /\ previousRecord' = IF latest = 0 THEN NoManifest ELSE manifest[latest]
              /\ manifest' = [manifest EXCEPT ![r] =
                     [status |-> "BUILDING", hash |-> {}, supersedes |-> latest]]
      BY <2>1 DEF BeginPublish, NextRevision
    <2>3. UNCHANGED <<store, storage, members, fresh>> /\ pc' = "write"
      BY <2>1 DEF BeginPublish
    <2>4. \A q \in Revisions : Readable(q)' => Readable(q) /\ manifest'[q] = manifest[q]
      BY <2>2 DEF Readable, TypeOK
    <2>5. Backed'
      BY <2>3, <2>4 DEF Backed, KeysNameOneObject, ObjectKey
    <2>6. latest # 0 => latest \in Revisions /\ Readable(latest)
      BY <2>2 DEF IsLatest, Available, Readable
    <2>7. previous' # 0 => previousRecord'.hash \subseteq members'[previous']
      BY <2>2, <2>3, <2>6 DEF Backed
    <2> QED
      BY <2>3, <2>5, <2>7 DEF CallIsBacked
  <1>2. CASE PutObject
    <2>1. KeysNameOneObject'
      BY <1>2, PutKeepsKeys DEF Backed, PutObject
    <2>2. store \subseteq store' /\ fresh' \subseteq store' /\ UNCHANGED catalogVars
      BY <1>2 DEF PutObject, CallIsBacked
    <2>3. Backed'
      BY <2>1, <2>2 DEF Backed, Readable, catalogVars
    <2> QED
      BY <1>2, <2>2, <2>3 DEF PutObject, CallIsBacked, catalogVars
  <1>3. CASE GroupFails
    <2> DEFINE o == NewObjectOf(FirstOf(todo))
    <2>1. UNCHANGED <<storage, members, manifest>>
      BY <1>3 DEF GroupFails, catalogVars
    <2>2. store' = store \/ (~KeyTaken(o) /\ store' = store \cup {o})
      BY <1>3 DEF GroupFails
    <2>3. KeysNameOneObject'
      <3>1. CASE store' = store
        BY <3>1 DEF Backed, KeysNameOneObject, ObjectKey
      <3>2. CASE ~KeyTaken(o) /\ store' = store \cup {o}
        BY <3>2, PutKeepsKeys DEF Backed
      <3> QED
        BY <2>2, <3>1, <3>2
    <2>4. Backed'
      BY <2>1, <2>2, <2>3 DEF Backed, Readable
    <2> QED
      BY <1>3, <2>1, <2>2, <2>4 DEF GroupFails, CallIsBacked
  <1>4. CASE ComputeSnapshot
    <2>1. UNCHANGED <<store, storage, members, manifest>>
      BY <1>4 DEF ComputeSnapshot, catalogVars
    <2>2. Backed'
      BY <2>1 DEF Backed, Readable, KeysNameOneObject, ObjectKey
    <2> QED
      BY <1>4, <2>1, <2>2, RetainedStored DEF ComputeSnapshot, CallIsBacked
  <1>5. CASE StageStorage
    <2> DEFINE S == IF unstaged \subseteq fresh THEN unstaged ELSE unstaged \ fresh
    <2>1. S # {} /\ S \subseteq unstaged
      BY <1>5 DEF StageStorage
    <2>2. current' \in unstaged /\ storage' = storage \cup {current'}
      BY <1>5, <2>1, FirstOfIsElement DEF StageStorage
    <2>3. /\ UNCHANGED <<store, members, manifest, fresh, snapshot, unstaged,
                         revision, previous, previousRecord>>
          /\ pc = "stage" /\ pc' = "relate"
      BY <1>5 DEF StageStorage
    <2>4. current' \in store
      BY <2>2, <2>3 DEF CallIsBacked
    <2>5. Backed'
      BY <2>2, <2>3, <2>4 DEF Backed, Readable, KeysNameOneObject, ObjectKey
    <2> QED
      BY <2>2, <2>3, <2>5 DEF CallIsBacked
  <1>6. CASE StageRelation
    <2>1. revision \in Revisions
      BY <1>6 DEF StageRelation, TypeOK
    <2>2. /\ members'[revision] = members[revision] \cup {current}
          /\ \A q \in Revisions : members[q] \subseteq members'[q]
          /\ \A q \in Revisions : members'[q] \subseteq members[q] \cup {current}
      BY <1>6, <2>1 DEF StageRelation, TypeOK
    <2>3. current \in storage /\ current \in unstaged /\ UNCHANGED <<store, storage, manifest>>
      BY <1>6 DEF StageRelation, CallIsBacked
    <2>4. Backed'
      BY <2>2, <2>3 DEF Backed, Readable, KeysNameOneObject, ObjectKey
    <2>5. previous # 0 => previousRecord'.hash \subseteq members'[previous']
      <3>1. previous # 0 => previous \in Revisions
        BY RevisionAssumption DEF TypeOK, Revisions
      <3> QED
        BY <1>6, <2>2, <3>1 DEF StageRelation, CallIsBacked
    <2>6. /\ snapshot' \subseteq store' /\ unstaged' \subseteq snapshot'
          /\ snapshot' \ unstaged' \subseteq members'[revision']
      BY <1>6, <2>2 DEF StageRelation, CallIsBacked
    <2> QED
      BY <1>6, <2>2, <2>3, <2>4, <2>5, <2>6 DEF StageRelation, CallIsBacked
  <1>7. CASE RecordProvenance
    <2>1. Backed'
      BY <1>7 DEF RecordProvenance, Backed, Readable, KeysNameOneObject, ObjectKey
    <2> QED
      BY <1>7, <2>1 DEF RecordProvenance, CallIsBacked
  <1>8. CASE RecordIncidents
    <2>1. Backed'
      BY <1>8 DEF RecordIncidents, Backed, Readable, KeysNameOneObject, ObjectKey
    <2> QED
      BY <1>8, <2>1 DEF RecordIncidents, CallIsBacked, callVars
  <1>9. CASE PublishManifest
    <2>1. revision \in Revisions /\ unstaged = {} /\ snapshot \subseteq members[revision]
      BY <1>9 DEF PublishManifest, TypeOK, CallIsBacked
    <2>2. /\ manifest'[revision].hash = snapshot
          /\ \A q \in Revisions \ {revision} : manifest'[q] = manifest[q]
      BY <1>9, <2>1 DEF PublishManifest, FinalManifest, TypeOK
    <2>3. UNCHANGED <<store, storage, members>>
      BY <1>9 DEF PublishManifest
    <2>4. Backed'
      BY <2>1, <2>2, <2>3 DEF Backed, Readable, KeysNameOneObject, ObjectKey
    <2>5. CASE EndCall
      BY <2>4, <2>5, <2>3 DEF EndCall, CallIsBacked
    <2>6. CASE pc' = "supersede" /\ UNCHANGED callVars
      BY <1>9, <2>1, <2>3, <2>4, <2>6 DEF CallIsBacked, callVars, PublishManifest
    <2> QED
      BY <1>9, <2>5, <2>6 DEF PublishManifest
  <1>10. CASE SupersedePrevious
    <2>1. UNCHANGED <<store, storage, members>>
      BY <1>10 DEF SupersedePrevious
    <2>2. \A q \in Revisions \ {previous} : manifest'[q] = manifest[q]
      BY <1>10 DEF SupersedePrevious, TypeOK
    <2>3. previous \in Revisions =>
              manifest'[previous].hash = previousRecord.hash
      BY <1>10 DEF SupersedePrevious, TypeOK, ManifestRecords
    <2>4. previous \in Revisions => previousRecord.hash \subseteq members[previous]
      BY <1>10 DEF SupersedePrevious, CallIsBacked, Revisions
    <2>5. Backed'
      BY <2>1, <2>2, <2>3, <2>4 DEF Backed, Readable, KeysNameOneObject, ObjectKey
    <2> QED
      BY <1>10, <2>1, <2>5 DEF SupersedePrevious, EndCall, CallIsBacked
  <1>11. CASE Crash
    BY <1>11, EndCallBacked DEF Crash
  <1>12. CASE UNCHANGED vars
    BY <1>12 DEF vars, catalogVars, callVars, Backed, CallIsBacked, Readable,
                 KeysNameOneObject, ObjectKey
  <1> QED
    BY <1>1, <1>2, <1>3, <1>4, <1>5, <1>6, <1>7, <1>8, <1>9, <1>10, <1>11, <1>12
    DEF Next, Step

(* An empty catalog and an empty store agree. *)
LEMMA InitBacked == Init => BackedInv
  <1> SUFFICES ASSUME Init PROVE BackedInv
    OBVIOUS
  <1>1. TypeOK
    BY InitType
  <1>2. Backed /\ CallIsBacked
    BY DEF Init, IdleCall, Backed, CallIsBacked, Staging, Readable, NoManifest,
           KeysNameOneObject
  <1> QED
    BY <1>1, <1>2 DEF BackedInv

(* Whatever fails and whatever is retried, the inventory of a readable      *)
(* manifest is backed by storage rows and by stored bytes, and no key of    *)
(* the store ever names two contents.                                       *)
THEOREM AlwaysBacked == Spec => []Backed
  <1>1. Init => BackedInv
    BY InitBacked
  <1>2. BackedInv /\ [Next]_vars => BackedInv'
    BY TypeStep, BackedStep DEF BackedInv
  <1>3. BackedInv => Backed
    BY DEF BackedInv
  <1>4. QED
    BY <1>1, <1>2, <1>3, PTL DEF Spec

-----------------------------------------------------------------------------
(* Without an explicit PipelineConfig.revision a call works on a revision   *)
(* above every readable one, and the manifest it replaces cannot change     *)
(* meanwhile.                                                              *)
ServedIsNewest ==
    \A r \in Revisions : Readable(r) => \E a \in Available : a >= r

CallIsAhead ==
    /\ pc \notin {"idle", "supersede"} =>
          /\ \A r \in Revisions : Readable(r) => r < revision
          /\ previous < revision
    /\ pc # "idle" /\ previous # 0 =>
          previous \in Available /\ previousRecord = manifest[previous]
    /\ pc = "supersede" =>
          revision \in Available /\ previous \in Revisions /\ previous < revision

SeriesInv == TypeOK /\ ChainIsReadable /\ ServedIsNewest /\ CallIsAhead

(* Steps that write no manifest and stay in the call. *)
LEMMA WorkingStep ==
    ASSUME SeriesInv, pc \notin {"idle", "supersede"}, pc' \notin {"idle", "supersede"},
           UNCHANGED <<manifest, revision, previous, previousRecord>>
    PROVE  ChainIsReadable' /\ ServedIsNewest' /\ CallIsAhead' /\ KeepsServing
  BY DEF SeriesInv, ChainIsReadable, ServedIsNewest, CallIsAhead, KeepsServing,
         Readable, Available, TypeOK, Revisions

(* Relating an object to the manifest being built touches no readable one. *)
LEMMA WorkingKeepsReadable ==
    ASSUME SeriesInv, pc \notin {"idle", "supersede"}, UNCHANGED manifest,
           \A r \in Revisions \ {revision} : members'[r] = members[r]
    PROVE  KeepsReadable
  BY RevisionAssumption DEF SeriesInv, CallIsAhead, KeepsReadable, Readable, TypeOK, Revisions

(* The first revision above the latest available one is above all readable  *)
(* ones.                                                                   *)
LEMMA NextIsAhead ==
    ASSUME SeriesInv, ExplicitRevisions = {},
           NEW latest \in 0..MaxRevision, IsLatest(latest),
           NEW r \in NextRevision(latest)
    PROVE  /\ r \in Revisions /\ latest < r
           /\ \A q \in Revisions : Readable(q) => q < r
  <1>1. r \in Revisions /\ r = latest + 1
    BY DEF NextRevision
  <1>2. \A q \in Revisions : Readable(q) => q <= latest
    BY RevisionAssumption DEF SeriesInv, ServedIsNewest, IsLatest, Available, Revisions
  <1>3. QED
    BY <1>1, <1>2, RevisionAssumption DEF Revisions

(* A step of the pipeline keeps the series and rewrites nothing readable. *)
LEMMA SeriesStep ==
    ASSUME ExplicitRevisions = {}, SeriesInv, [Next]_vars
    PROVE  SeriesInv' /\ KeepsReadable /\ KeepsServing
  <1> SUFFICES ChainIsReadable' /\ ServedIsNewest' /\ CallIsAhead'
               /\ KeepsReadable /\ KeepsServing
    BY TypeStep DEF SeriesInv
  <1> TypeOK
    BY DEF SeriesInv
  <1> MaxRevision \in Nat
    BY RevisionAssumption
  <1>1. CASE Call
    <2>1. PICK periods \in Batches, groups \in SUBSET Groups, callerFailed \in BOOLEAN :
              BeginPublish(periods, groups, callerFailed)
      BY <1>1 DEF Call
    <2>2. PICK latest \in 0..MaxRevision : IsLatest(latest) /\
              \E r \in NextRevision(latest) :
                  /\ revision' = r
                  /\ previous' = latest
                  /\ previousRecord' = IF latest = 0 THEN NoManifest ELSE manifest[latest]
                  /\ manifest' = [manifest EXCEPT ![r] =
                         [status |-> "BUILDING", hash |-> {}, supersedes |-> latest]]
      BY <2>1 DEF BeginPublish
    <2>3. PICK r \in NextRevision(latest) :
              /\ revision' = r
              /\ previous' = latest
              /\ previousRecord' = IF latest = 0 THEN NoManifest ELSE manifest[latest]
              /\ manifest' = [manifest EXCEPT ![r] =
                     [status |-> "BUILDING", hash |-> {}, supersedes |-> latest]]
      BY <2>2
    <2>4. /\ r \in Revisions /\ latest < r
          /\ \A q \in Revisions : Readable(q) => q < r
      BY <2>2, NextIsAhead
    <2>5. pc' = "write" /\ UNCHANGED members
      BY <2>1 DEF BeginPublish
    <2>6. /\ manifest'[r].status = "BUILDING"
          /\ \A q \in Revisions \ {r} : manifest'[q] = manifest[q]
      BY <2>3, <2>4 DEF TypeOK
    <2>7. ~Readable(r)
      BY <2>4 DEF Revisions
    <2>8. \A q \in Revisions : Readable(q)' <=> Readable(q)
      BY <2>6, <2>7 DEF Readable
    <2>9. Available' = Available
      BY <2>6, <2>7 DEF Readable, Available
    <2>10. ChainIsReadable'
      <3> SUFFICES ASSUME NEW q \in Revisions, Readable(q)',
                          manifest'[q].supersedes # 0
                   PROVE  /\ manifest'[q].supersedes < q
                          /\ manifest'[manifest'[q].supersedes].status
                                \in {"AVAILABLE", "SUPERSEDED"}
        BY DEF ChainIsReadable, Readable
      <3>1. q # r /\ manifest'[q] = manifest[q] /\ Readable(q)
        BY <2>6, <2>7, <2>8
      <3>2. manifest[q].supersedes < q /\ Readable(manifest[q].supersedes)
        BY <3>1 DEF SeriesInv, ChainIsReadable
      <3>3. manifest[q].supersedes \in Revisions
        BY <3>1 DEF TypeOK, ManifestRecords, Revisions
      <3> QED
        BY <2>8, <3>1, <3>2, <3>3 DEF Readable
    <2>11. ServedIsNewest'
      BY <2>8, <2>9 DEF SeriesInv, ServedIsNewest
    <2>12. latest # 0 => latest \in Available /\ manifest'[latest] = manifest[latest]
      BY <2>2, <2>4, <2>6 DEF IsLatest, Available, Revisions
    <2>13. CallIsAhead'
      BY <2>3, <2>4, <2>5, <2>8, <2>9, <2>12 DEF CallIsAhead
    <2>14. KeepsReadable
      BY <2>5, <2>6, <2>7 DEF KeepsReadable, Readable
    <2>15. KeepsServing
      BY <2>9 DEF KeepsServing, Available, Revisions
    <2> QED
      BY <2>10, <2>11, <2>13, <2>14, <2>15
  <1>2. CASE PutObject \/ GroupFails \/ ComputeSnapshot \/ StageStorage
             \/ StageRelation \/ RecordProvenance \/ RecordIncidents
    <2>1. /\ pc \notin {"idle", "supersede"} /\ pc' \notin {"idle", "supersede"}
          /\ UNCHANGED <<manifest, revision, previous, previousRecord>>
      BY <1>2 DEF PutObject, GroupFails, ComputeSnapshot, StageStorage, StageRelation,
                  RecordProvenance, RecordIncidents, catalogVars, callVars
    <2>2. \A r \in Revisions \ {revision} : members'[r] = members[r]
      BY <1>2 DEF PutObject, GroupFails, ComputeSnapshot, StageStorage, StageRelation,
                  RecordProvenance, RecordIncidents, catalogVars, TypeOK
    <2> QED
      BY <2>1, <2>2, WorkingStep, WorkingKeepsReadable
  <1>3. CASE PublishManifest
    <2>1. /\ revision \in Revisions /\ previous < revision
          /\ \A q \in Revisions : Readable(q) => q < revision
      BY <1>3 DEF PublishManifest, SeriesInv, CallIsAhead, TypeOK
    <2>2. ~Readable(revision)
      BY <2>1 DEF Revisions
    <2>3. /\ manifest'[revision] = FinalManifest
          /\ \A q \in Revisions \ {revision} : manifest'[q] = manifest[q]
          /\ UNCHANGED members
      BY <1>3, <2>1 DEF PublishManifest, TypeOK
    <2>4. \A q \in Revisions : Readable(q) => Readable(q)' /\ manifest'[q] = manifest[q]
      BY <2>2, <2>3 DEF Readable
    <2>5. Available \subseteq Available'
      BY <2>2, <2>3 DEF Available, Readable
    <2>6. manifest'[revision].status = Outcome /\ Outcome \in {"AVAILABLE", "QUARANTINED"}
      BY <2>3 DEF FinalManifest, Outcome
    <2>7. manifest'[revision].status \in {"AVAILABLE", "SUPERSEDED"}
              => revision \in Available'
      BY <2>1, <2>6 DEF Available
    <2>8. previous # 0 => previous \in Available /\ previousRecord = manifest[previous]
      BY <1>3 DEF PublishManifest, SeriesInv, CallIsAhead
    <2>9. ChainIsReadable'
      <3> SUFFICES ASSUME NEW q \in Revisions, Readable(q)',
                          manifest'[q].supersedes # 0
                   PROVE  /\ manifest'[q].supersedes < q
                          /\ manifest'[manifest'[q].supersedes].status
                                \in {"AVAILABLE", "SUPERSEDED"}
        BY DEF ChainIsReadable, Readable
      <3>1. CASE q = revision
        <4>1. manifest'[q].supersedes = previous
          BY <2>3, <3>1 DEF FinalManifest
        <4>2. previous \in Revisions /\ Readable(previous)
          BY <2>8, <4>1 DEF Available, Readable
        <4> QED
          BY <2>1, <2>4, <3>1, <4>1, <4>2 DEF Readable
      <3>2. CASE q # revision
        <4>1. manifest'[q] = manifest[q] /\ Readable(q)
          BY <2>3, <3>2 DEF Readable
        <4>2. manifest[q].supersedes < q /\ Readable(manifest[q].supersedes)
          BY <4>1 DEF SeriesInv, ChainIsReadable
        <4>3. manifest[q].supersedes \in Revisions
          BY <4>1 DEF TypeOK, ManifestRecords, Revisions
        <4> QED
          BY <2>4, <4>1, <4>2, <4>3 DEF Readable
      <3> QED
        BY <3>1, <3>2
    <2>10. ServedIsNewest'
      <3> SUFFICES ASSUME NEW q \in Revisions, Readable(q)'
                   PROVE  \E a \in Available' : a >= q
        BY DEF ServedIsNewest
      <3>1. CASE q = revision
        BY <2>7, <3>1 DEF Readable, Revisions
      <3>2. CASE q # revision
        BY <2>3, <2>5, <3>2 DEF Readable, SeriesInv, ServedIsNewest
      <3> QED
        BY <3>1, <3>2
    <2>11. CallIsAhead'
      <3>1. CASE EndCall
        BY <3>1 DEF EndCall, CallIsAhead
      <3>2. CASE Outcome = "AVAILABLE" /\ previous # 0 /\ pc' = "supersede"
                 /\ UNCHANGED callVars
        <4>1. revision' \in Available' /\ previous' \in Available' /\ previous' < revision'
          BY <2>1, <2>5, <2>6, <2>7, <2>8, <3>2 DEF callVars
        <4>2. previous' \in Revisions /\ previousRecord' = manifest'[previous']
          <5>1. UNCHANGED <<previous, previousRecord>>
            BY <3>2 DEF callVars
          <5>2. previous \in Revisions /\ previousRecord = manifest[previous]
            BY <2>8, <3>2 DEF Available
          <5>3. previous # revision
            BY <2>1, <5>2 DEF Revisions
          <5> QED
            BY <2>3, <5>1, <5>2, <5>3
        <4> QED
          BY <3>2, <4>1, <4>2 DEF CallIsAhead
      <3> QED
        BY <1>3, <3>1, <3>2 DEF PublishManifest
    <2>12. KeepsReadable
      BY <2>3, <2>4 DEF KeepsReadable, Readable
    <2>13. KeepsServing
      BY <2>5 DEF KeepsServing, Available, Revisions
    <2> QED
      BY <2>9, <2>10, <2>11, <2>12, <2>13
  <1>4. CASE SupersedePrevious
    <2>1. /\ revision \in Available /\ previous \in Revisions /\ previous < revision
          /\ previous \in Available /\ previousRecord = manifest[previous]
      BY <1>4 DEF SupersedePrevious, SeriesInv, CallIsAhead, Revisions
    <2>2. /\ manifest'[previous] = [manifest[previous] EXCEPT !.status = "SUPERSEDED"]
          /\ \A q \in Revisions \ {previous} : manifest'[q] = manifest[q]
          /\ UNCHANGED members
      BY <1>4, <2>1 DEF SupersedePrevious, TypeOK
    <2>3. /\ manifest'[previous].status = "SUPERSEDED"
          /\ manifest'[previous].hash = manifest[previous].hash
          /\ manifest'[previous].supersedes = manifest[previous].supersedes
      BY <2>1, <2>2 DEF TypeOK, ManifestRecords
    <2>4. Readable(previous)
      BY <2>1 DEF Available, Readable
    <2>5. \A q \in Revisions :
              /\ Readable(q)' <=> Readable(q)
              /\ manifest'[q].supersedes = manifest[q].supersedes
              /\ manifest'[q].hash = manifest[q].hash
      BY <2>2, <2>3, <2>4 DEF Readable
    <2>6. Available' = Available \ {previous}
      BY <2>1, <2>2, <2>3 DEF Available
    <2>7. ChainIsReadable'
      <3> SUFFICES ASSUME NEW q \in Revisions, Readable(q)',
                          manifest'[q].supersedes # 0
                   PROVE  /\ manifest'[q].supersedes < q
                          /\ manifest'[manifest'[q].supersedes].status
                                \in {"AVAILABLE", "SUPERSEDED"}
        BY DEF ChainIsReadable, Readable
      <3>1. manifest'[q].supersedes = manifest[q].supersedes /\ Readable(q)
        BY <2>5
      <3>2. manifest[q].supersedes < q /\ Readable(manifest[q].supersedes)
        BY <3>1 DEF SeriesInv, ChainIsReadable
      <3>3. manifest[q].supersedes \in Revisions
        BY <3>1 DEF TypeOK, ManifestRecords, Revisions
      <3> QED
        BY <2>5, <3>1, <3>2, <3>3 DEF Readable
    <2>8. \A a \in Available : \E b \in Available' : b >= a
      <3> TAKE a \in Available
      <3>1. CASE a = previous
        BY <2>1, <2>6, <3>1 DEF Available, Revisions
      <3>2. CASE a # previous
        BY <2>6, <3>2 DEF Available, Revisions
      <3> QED
        BY <3>1, <3>2
    <2>9. ServedIsNewest'
      <3> SUFFICES ASSUME NEW q \in Revisions, Readable(q)'
                   PROVE  \E b \in Available' : b >= q
        BY DEF ServedIsNewest
      <3>1. PICK a \in Available : a >= q
        BY <2>5 DEF SeriesInv, ServedIsNewest
      <3>2. PICK b \in Available' : b >= a
        BY <2>8
      <3> QED
        BY <3>1, <3>2 DEF Available, Revisions
    <2>10. CallIsAhead'
      BY <1>4 DEF SupersedePrevious, EndCall, CallIsAhead
    <2>11. KeepsReadable
      BY <2>2, <2>5 DEF KeepsReadable, Readable
    <2> QED
      BY <2>7, <2>8, <2>9, <2>10, <2>11 DEF KeepsServing
  <1>5. CASE Crash
    <2>1. UNCHANGED <<manifest, members>> /\ EndCall
      BY <1>5 DEF Crash, catalogVars
    <2>2. ChainIsReadable' /\ ServedIsNewest'
      BY <2>1 DEF SeriesInv, ChainIsReadable, ServedIsNewest, Readable, Available
    <2>3. CallIsAhead'
      BY <2>1 DEF EndCall, CallIsAhead
    <2> QED
      BY <2>1, <2>2, <2>3 DEF KeepsReadable, KeepsServing, Readable, Available, Revisions
  <1>6. CASE UNCHANGED vars
    <2>1. UNCHANGED <<manifest, members, pc, revision, previous, previousRecord>>
      BY <1>6 DEF vars, catalogVars, callVars
    <2> QED
      BY <2>1 DEF SeriesInv, ChainIsReadable, ServedIsNewest, CallIsAhead,
                  KeepsReadable, KeepsServing, Readable, Available, Revisions
  <1> QED
    BY <1>1, <1>2, <1>3, <1>4, <1>5, <1>6 DEF Next, Step

(* An empty catalog has nothing to freeze or to regress from.                *)
LEMMA SeriesInit == Init => SeriesInv
  <1> SUFFICES ASSUME Init PROVE SeriesInv
    OBVIOUS
  <1>1. ChainIsReadable /\ ServedIsNewest
    BY DEF Init, ChainIsReadable, ServedIsNewest, Readable, NoManifest
  <1>2. CallIsAhead
    BY DEF Init, IdleCall, CallIsAhead
  <1> QED
    BY <1>1, <1>2, InitType DEF SeriesInv

(* As long as no revision is forced by the configuration, a readable        *)
(* manifest and its inventory never change again, whatever calls follow,    *)
(* fail or are retried.                                                    *)
THEOREM Frozen == ASSUME ExplicitRevisions = {} PROVE Spec => ReadableIsFrozen
  <1>1. SeriesInv /\ [Next]_vars => SeriesInv' /\ KeepsReadable
    BY SeriesStep
  <1>2. QED
    BY <1>1, SeriesInit, PTL DEF Spec, ReadableIsFrozen

(* Under the same condition readers never lose the dataset and never go     *)
(* back to an older revision, through failures and through crashes.         *)
THEOREM NeverRegresses == ASSUME ExplicitRevisions = {} PROVE Spec => ServedNeverRegresses
  <1>1. SeriesInv /\ [Next]_vars => SeriesInv' /\ KeepsServing
    BY SeriesStep
  <1>2. QED
    BY <1>1, SeriesInit, PTL DEF Spec, ServedNeverRegresses

(* And the chain of superseded manifests holds readable manifests only. *)
THEOREM ReadableChain == ASSUME ExplicitRevisions = {} PROVE Spec => []ChainIsReadable
  <1>1. SeriesInv /\ [Next]_vars => SeriesInv'
    BY SeriesStep
  <1>2. SeriesInv => ChainIsReadable
    BY DEF SeriesInv
  <1>3. QED
    BY <1>1, <1>2, SeriesInit, PTL DEF Spec

-----------------------------------------------------------------------------
(* What a call retains.  What holds with failures, too: nothing but the       *)
(* replaced periods is dropped.                                             *)


(* From the snapshot on, a call holds all that it retains.                   *)
CallRetains == pc \in Staging => Retained \subseteq snapshot

RetainInv == BackedInv /\ CallRetains

(* The relation that a call stages is one of its snapshot, so that even a    *)
(* manifest that is rebuilt in place retains no more than that.              *)
LEMMA RetainStep ==
    ASSUME RetainInv, [Next]_vars
    PROVE  CallRetains' /\ (\A r \in Available' \ Available : previous # 0 =>
              \A o \in members[previous] : ~Covered(o, replaced) => o \in members'[r])
<1> DEFINE Kept == \A r \in Available' \ Available : previous # 0 =>
              \A o \in members[previous] : ~Covered(o, replaced) => o \in members'[r]
<1> SUFFICES CallRetains' /\ Kept
  OBVIOUS
<1> TypeOK /\ Backed /\ CallIsBacked /\ CallRetains
  BY DEF RetainInv, BackedInv
<1> TypeOK'
  BY TypeStep
<1> USE DEF Staging
<1>1. ASSUME UNCHANGED manifest PROVE Kept
  BY <1>1 DEF Available
<1> HIDE DEF Kept
<1>2. CASE Call
  <2>1. PICK periods \in Batches, groups \in SUBSET Groups, callerFailed \in BOOLEAN :
            BeginPublish(periods, groups, callerFailed)
    BY <1>2 DEF Call
  <2>2. pc' = "write"
    BY <2>1 DEF BeginPublish
  <2>3. Available' \subseteq Available
    <3>1. PICK r \in Revisions, latest \in 0..MaxRevision :
              manifest' = [manifest EXCEPT ![r] =
                   [status |-> "BUILDING", hash |-> {}, supersedes |-> latest]]
      BY <2>1 DEF BeginPublish, NextRevision
    <3>2. manifest \in [Revisions -> ManifestRecords]
      BY DEF TypeOK
    <3> QED BY <3>1, <3>2 DEF Available
  <2> QED BY <2>2, <2>3 DEF Kept, CallRetains
<1>3. CASE PutObject \/ GroupFails
  BY <1>1, <1>3 DEF PutObject, GroupFails, CallRetains, catalogVars
<1>4. CASE ComputeSnapshot
  BY <1>1, <1>4 DEF ComputeSnapshot, CallRetains, Retained, catalogVars
<1>5. CASE StageStorage
  BY <1>1, <1>5 DEF StageStorage, CallRetains, Retained
<1>6. CASE StageRelation
  <2>1. members' = [members EXCEPT ![revision] = @ \cup {current}] /\ current \in snapshot
    BY <1>6 DEF StageRelation, CallIsBacked
  <2>2. members'[previous] \subseteq members[previous] \cup {current} \/ previous = 0
    BY <2>1 DEF TypeOK, Revisions
  <2>3. Retained' \subseteq Retained \cup {current}
    BY <1>6, <2>2 DEF StageRelation, Retained, Covered
  <2> QED BY <1>1, <1>6, <2>1, <2>3 DEF StageRelation, CallRetains
<1>7. CASE RecordProvenance
  BY <1>1, <1>7 DEF RecordProvenance, CallRetains, Retained
<1>8. CASE RecordIncidents
  BY <1>1, <1>8 DEF RecordIncidents, CallRetains, Retained, callVars
<1>9. CASE PublishManifest
  <2>1. CallRetains'
    BY <1>9 DEF PublishManifest, CallRetains, Retained, callVars, EndCall
  <2>2. Available' \subseteq Available \cup {revision}
    <3>1. manifest' = [manifest EXCEPT ![revision] = FinalManifest]
      BY <1>9 DEF PublishManifest
    <3> QED BY <3>1 DEF Available, TypeOK
  <2>3. Retained \subseteq members'[revision] /\ UNCHANGED members
    BY <1>9 DEF PublishManifest, CallRetains, CallIsBacked
  <2>4. ASSUME NEW o \in members[previous], previous # 0, ~Covered(o, replaced)
        PROVE  o \in Retained
    BY <2>4 DEF Retained
  <2> QED BY <2>1, <2>2, <2>3, <2>4 DEF Kept
<1>10. CASE SupersedePrevious
  <2>1. CallRetains'
    BY <1>10 DEF SupersedePrevious, CallRetains, EndCall
  <2>2. Available' \subseteq Available
    BY <1>10 DEF SupersedePrevious, Available, TypeOK, ManifestRecords
  <2> QED BY <2>1, <2>2 DEF Kept
<1>11. CASE Crash
  BY <1>1, <1>11 DEF Crash, EndCall, CallRetains, catalogVars
<1>12. CASE UNCHANGED vars
  BY <1>1, <1>12 DEF vars, catalogVars, callVars, CallRetains, Retained
<1> QED
  BY <1>2, <1>3, <1>4, <1>5, <1>6, <1>7, <1>8, <1>9, <1>10, <1>11, <1>12
     DEF Next, Step

(* Publishing a dataset never loses an object that the call did not replace, *)
(* whatever failed or was rebuilt before (publish_dataset's inherited rows). *)
THEOREM KeepsTheRest == Spec => NothingElseDropped
<1>1. Init => RetainInv
  <2> SUFFICES ASSUME Init PROVE RetainInv
    OBVIOUS
  <2>1. BackedInv
    BY InitBacked
  <2>2. CallRetains
    BY DEF Init, CallRetains, Staging
  <2> QED BY <2>1, <2>2 DEF RetainInv
<1>2. RetainInv /\ [Next]_vars => RetainInv'
  BY RetainStep, TypeStep, BackedStep DEF RetainInv, BackedInv
<1>3. RetainInv /\ [Next]_vars =>
         [\A r \in Available' \ Available : previous # 0 =>
              \A o \in members[previous] : ~Covered(o, replaced) => o \in members'[r]]_vars
  BY RetainStep
<1> QED
  BY <1>1, <1>2, <1>3, PTL DEF Spec, NothingElseDropped

-----------------------------------------------------------------------------
(* The series of snapshots, with calls that fail, crash and are made again:   *)
(* the call in progress works on what is served, and adds to it objects of    *)
(* its own for the replaced periods.                                        *)
CallIsWhole ==
    /\ pc = "idle" => fresh = {}
    /\ pc # "idle" =>
          /\ \A g \in todo : g.slot.period \in replaced
          /\ \A o \in fresh : o.revision = revision /\ o.slot.period \in replaced
    /\ pc \in Staging \ {"supersede"} => snapshot = Retained \cup fresh
    /\ pc \notin {"idle", "supersede"} => IsLatest(previous)
    /\ pc = "supersede" => IsLatest(revision)

WholeInv == SeriesInv /\ CallIsWhole

(* A set of revisions has one latest.                                        *)
LEMMA LatestIs ==
  ASSUME NEW A \in SUBSET Revisions, NEW x \in 0..MaxRevision,
         (x \in A /\ \A s \in A : s <= x) \/ (x = 0 /\ A = {})
  PROVE  (CHOOSE r \in 0..MaxRevision :
             \/ r \in A /\ \A s \in A : s <= r
             \/ r = 0 /\ A = {}) = x
<1> DEFINE L(r) == \/ r \in A /\ \A s \in A : s <= r
                   \/ r = 0 /\ A = {}
<1>1. L(x)
  OBVIOUS
<1>2. ASSUME NEW r \in 0..MaxRevision, L(r) PROVE r = x
  BY <1>2, RevisionAssumption DEF Revisions
<1> HIDE DEF L
<1>3. (CHOOSE r \in 0..MaxRevision : L(r)) = x
  BY <1>1, <1>2
<1> QED BY <1>3 DEF L

(* The manifest that readers are given while a call runs.                    *)
LEMMA LatestOfCall ==
  ASSUME WholeInv
  PROVE  /\ pc \notin {"idle", "supersede"} => LatestRevision = previous
         /\ pc = "supersede" => LatestRevision = revision
<1> TypeOK /\ MaxRevision \in Nat
  BY RevisionAssumption DEF WholeInv, SeriesInv
<1>1. Available \in SUBSET Revisions
  BY DEF Available
<1>2. ASSUME NEW r \in 0..MaxRevision, IsLatest(r) PROVE LatestRevision = r
  BY <1>1, <1>2, LatestIs DEF LatestRevision, IsLatest
<1> QED BY <1>2 DEF WholeInv, CallIsWhole, TypeOK

(* Readers see neither a step that leaves the AVAILABLE manifests and the     *)
(* inventory of the latest one.                                             *)
LEMMA Unseen ==
  ASSUME Available' = Available,
         LatestRevision # 0 => members'[LatestRevision] = members[LatestRevision]
  PROVE  UNCHANGED Series!svars
<1>1. LatestRevision' = LatestRevision
  BY DEF LatestRevision, IsLatest
<1> QED BY <1>1 DEF Series!svars

(* A call that ends and publishes nothing.                                   *)
LEMMA EndingWhole ==
  ASSUME EndCall, Available' = Available, UNCHANGED members
  PROVE  CallIsWhole' /\ UNCHANGED Series!svars
<1>1. CallIsWhole'
  BY DEF EndCall, CallIsWhole, Staging
<1> QED BY <1>1, Unseen

(* The steps of a call that write no manifest.                               *)
LEMMA WorkingWhole ==
  ASSUME WholeInv, pc \notin {"idle", "supersede"}, pc' \notin {"idle", "supersede"},
         UNCHANGED <<manifest, revision, previous, replaced>>,
         \A r \in Revisions \ {revision} : members'[r] = members[r],
         todo' \subseteq todo,
         \A o \in fresh' \ fresh : o.revision = revision /\ o.slot.period \in replaced,
         pc' = "write" \/ snapshot' = Retained \cup fresh'
  PROVE  CallIsWhole' /\ UNCHANGED Series!svars
<1> TypeOK /\ SeriesInv /\ CallIsWhole /\ MaxRevision \in Nat
  BY RevisionAssumption DEF WholeInv, SeriesInv
<1>1. previous < revision /\ previous \in 0..MaxRevision /\ revision \in Revisions
  BY DEF SeriesInv, CallIsAhead, TypeOK
<1>2. previous # 0 => members'[previous] = members[previous]
  BY <1>1 DEF Revisions
<1>3. Retained' = Retained
  BY <1>2 DEF Retained, Covered
<1>4. Available' = Available
  BY DEF Available
<1>5. CallIsWhole'
  BY <1>3, <1>4 DEF CallIsWhole, IsLatest, Staging
<1>6. UNCHANGED Series!svars
  BY <1>2, <1>4, LatestOfCall, Unseen
<1> QED BY <1>5, <1>6

(* The call that begins takes the latest manifest and the revision after it. *)
LEMMA BeginWhole ==
  ASSUME WholeInv, ExplicitRevisions = {}, Call
  PROVE  CallIsWhole' /\ UNCHANGED Series!svars
<1> TypeOK /\ SeriesInv /\ CallIsWhole /\ MaxRevision \in Nat
  BY RevisionAssumption DEF WholeInv, SeriesInv
<1>1. PICK periods \in Batches, groups \in SUBSET Groups, callerFailed \in BOOLEAN :
          /\ groups \subseteq {g \in Groups : g.slot.period \in periods}
          /\ BeginPublish(periods, groups, callerFailed)
  BY DEF Call
<1>2. /\ pc = "idle" /\ pc' = "write" /\ replaced' = periods /\ todo' = groups
      /\ UNCHANGED <<members, fresh>>
  BY <1>1 DEF BeginPublish
<1>3. PICK latest \in 0..MaxRevision : IsLatest(latest) /\
          \E r \in NextRevision(latest) :
              /\ previous' = latest
              /\ manifest' = [manifest EXCEPT ![r] =
                     [status |-> "BUILDING", hash |-> {}, supersedes |-> latest]]
  BY <1>1 DEF BeginPublish
<1>4. PICK r \in NextRevision(latest) :
              /\ previous' = latest
              /\ manifest' = [manifest EXCEPT ![r] =
                     [status |-> "BUILDING", hash |-> {}, supersedes |-> latest]]
  BY <1>3
<1>5. r \in Revisions /\ ~Readable(r)
  BY <1>3, NextIsAhead DEF Revisions
<1>6. Available' = Available
  BY <1>4, <1>5 DEF TypeOK, Available, Readable
<1>7. CallIsWhole'
  BY <1>1, <1>2, <1>3, <1>4, <1>6 DEF CallIsWhole, IsLatest, Staging
<1> QED BY <1>2, <1>6, <1>7, Unseen

(* The final record: the next snapshot, or a manifest that nobody is given.   *)
LEMMA PublishWhole ==
  ASSUME WholeInv, PublishManifest
  PROVE  /\ CallIsWhole'
         /\ InventoryIsHashed' => [Series!Next]_(Series!svars)
<1> TypeOK /\ SeriesInv /\ CallIsWhole /\ MaxRevision \in Nat
  BY RevisionAssumption DEF WholeInv, SeriesInv
<1>1. /\ pc \in {"stage", "report"} /\ UNCHANGED members
      /\ manifest' = [manifest EXCEPT ![revision] = FinalManifest]
  BY DEF PublishManifest
<1>2. /\ manifest'[revision] = FinalManifest /\ revision \in Revisions
      /\ \A r \in Revisions \ {revision} : manifest'[r] = manifest[r]
  BY <1>1 DEF TypeOK
<1>3. previous < revision /\ ~Readable(revision) /\ previous \in 0..MaxRevision
  BY <1>1, <1>2 DEF SeriesInv, CallIsAhead, Revisions, TypeOK
<1>4. FinalManifest.hash = snapshot /\ FinalManifest.status = Outcome
  BY DEF FinalManifest
<1>5. CASE Outcome # "AVAILABLE"
  <2>1. Available' = Available
    BY <1>2, <1>3, <1>4, <1>5 DEF Readable, Available
  <2>2. EndCall
    BY <1>5 DEF PublishManifest
  <2> QED BY <1>1, <2>1, <2>2, EndingWhole
<1>6. CASE Outcome = "AVAILABLE"
  <2>1. Available' = Available \cup {revision}
    BY <1>2, <1>4, <1>6 DEF Available
  <2>2. IF previous # 0 THEN pc' = "supersede" /\ UNCHANGED callVars ELSE EndCall
    BY <1>6 DEF PublishManifest
  <2>3. IsLatest(previous) /\ snapshot = Retained \cup fresh /\ snapshot # {}
    BY <1>1, <1>6 DEF CallIsWhole, Staging, Outcome
  <2>4. \A r \in Available' : r <= revision
    BY <1>2, <1>3, <2>1, <2>3 DEF IsLatest, Available, Revisions
  <2>5. CallIsWhole'
    <3>1. CASE previous = 0
      BY <2>2, <3>1 DEF EndCall, CallIsWhole, Staging
    <3>2. CASE previous # 0
      BY <1>1, <2>1, <2>2, <2>4, <3>2 DEF callVars, CallIsWhole, Staging, IsLatest
    <3> QED BY <3>1, <3>2
  <2>6. LatestRevision = previous
    BY <1>1, LatestOfCall
  <2>7. LatestRevision' = revision
    <3>1. revision \in 0..MaxRevision /\ Available' \in SUBSET Revisions /\ revision \in Available'
      BY <1>2, <2>1 DEF Revisions, Available
    <3> QED BY <2>4, <3>1, LatestIs DEF LatestRevision, IsLatest
  <2>8. ASSUME InventoryIsHashed' PROVE Series!Publish(replaced)
    <3>1. revision \in (previous + 1)..MaxRevision /\ revision # 0
      BY <1>2, <1>3 DEF Revisions
    <3>2. members'[revision] = Retained \cup fresh
      BY <1>2, <1>4, <1>6, <2>3, <2>8 DEF InventoryIsHashed, Readable
    <3>3. Retained = IF previous = 0 THEN {}
                     ELSE {o \in members[previous] : \A q \in replaced : ~Overlaps(o.slot.period, q)}
      BY DEF Retained, Covered
    <3>4. \A o \in fresh : /\ o.revision = revision /\ o.slot.period \in replaced
                           /\ o.slot.shard \in Shards /\ o.content \in Contents
      BY <1>1 DEF CallIsWhole, TypeOK, Objects, Slots
    <3> DEFINE new == IF LatestRevision = 0 THEN {} ELSE members[LatestRevision]
    <3>5. Series!Kept(replaced) = Retained
      BY <2>6, <3>3 DEF Series!Kept
    <3>6. new' = Retained \cup fresh
      BY <2>7, <3>1, <3>2
    <3> QED BY <2>3, <2>6, <2>7, <3>1, <3>4, <3>5, <3>6 DEF Series!Publish
  <2>9. replaced \in SUBSET Periods
    BY DEF TypeOK
  <2> QED BY <2>5, <2>8, <2>9 DEF Series!Next
<1> QED BY <1>5, <1>6

(* Retiring the manifest before leaves the later one.                        *)
LEMMA SupersedeWhole ==
  ASSUME WholeInv, SupersedePrevious
  PROVE  CallIsWhole' /\ UNCHANGED Series!svars
<1> TypeOK /\ SeriesInv /\ CallIsWhole /\ MaxRevision \in Nat
  BY RevisionAssumption DEF WholeInv, SeriesInv
<1>1. /\ pc = "supersede" /\ EndCall /\ UNCHANGED members
      /\ manifest' = [manifest EXCEPT ![previous] = [previousRecord EXCEPT !.status = "SUPERSEDED"]]
  BY DEF SupersedePrevious
<1>2. /\ previous \in Revisions /\ previous < revision /\ revision \in Revisions
      /\ revision \in Available /\ IsLatest(revision)
  BY <1>1 DEF SeriesInv, CallIsAhead, TypeOK, CallIsWhole
<1>3. /\ Available' \subseteq Available /\ revision \in Available'
  BY <1>1, <1>2 DEF TypeOK, ManifestRecords, Available, Revisions
<1>4. LatestRevision = revision
  BY <1>1, LatestOfCall
<1>5. LatestRevision' = revision
  <2>1. revision \in 0..MaxRevision /\ Available' \in SUBSET Revisions
    BY <1>2 DEF Revisions, Available
  <2>2. \A r \in Available' : r <= revision
    BY <1>2, <1>3 DEF IsLatest
  <2> QED BY <1>3, <2>1, <2>2, LatestIs DEF LatestRevision, IsLatest
<1>6. CallIsWhole'
  BY <1>1 DEF EndCall, CallIsWhole, Staging
<1> QED BY <1>1, <1>4, <1>5, <1>6 DEF Series!svars

LEMMA WholeStep ==
  ASSUME ExplicitRevisions = {}, WholeInv, [Next]_vars
  PROVE  CallIsWhole' /\ (InventoryIsHashed' => [Series!Next]_(Series!svars))
<1> TypeOK /\ SeriesInv /\ CallIsWhole
  BY DEF WholeInv, SeriesInv
<1> USE DEF Staging
<1>1. CASE Call
  BY <1>1, BeginWhole
<1>2. CASE PutObject
  <2>1. PICK g \in todo : todo' = todo \ {g} /\ fresh' = fresh \cup {NewObjectOf(g)}
    BY <1>2, FirstOfIsElement DEF PutObject
  <2>2. /\ pc = "write" /\ pc' = "write"
        /\ UNCHANGED <<manifest, members, revision, previous, replaced>>
    BY <1>2 DEF PutObject, catalogVars
  <2>3. NewObjectOf(g).revision = revision /\ NewObjectOf(g).slot.period \in replaced
    BY <2>1, <2>2 DEF NewObjectOf, CallIsWhole
  <2> QED BY <2>1, <2>2, <2>3, WorkingWhole
<1>3. CASE GroupFails
  BY <1>3, WorkingWhole DEF GroupFails, catalogVars
<1>4. CASE ComputeSnapshot
  BY <1>4, WorkingWhole DEF ComputeSnapshot, catalogVars
<1>5. CASE StageStorage \/ RecordProvenance \/ RecordIncidents
  <2>1. /\ pc \in Staging \ {"supersede"} /\ pc' \in Staging \ {"supersede"}
        /\ UNCHANGED <<manifest, members, revision, previous, replaced, todo, fresh, snapshot>>
    BY <1>5 DEF StageStorage, RecordProvenance, RecordIncidents, callVars
  <2> QED BY <2>1, WorkingWhole DEF CallIsWhole
<1>6. CASE StageRelation
  <2>1. /\ pc \in Staging \ {"supersede"} /\ pc' \in Staging \ {"supersede"}
        /\ members' = [members EXCEPT ![revision] = @ \cup {current}]
        /\ UNCHANGED <<manifest, revision, previous, replaced, todo, fresh, snapshot>>
    BY <1>6 DEF StageRelation
  <2>2. \A r \in Revisions \ {revision} : members'[r] = members[r]
    BY <2>1 DEF TypeOK
  <2> QED BY <2>1, <2>2, WorkingWhole DEF CallIsWhole
<1>7. CASE PublishManifest
  BY <1>7, PublishWhole
<1>8. CASE SupersedePrevious
  BY <1>8, SupersedeWhole
<1>9. CASE Crash
  <2>1. EndCall /\ Available' = Available /\ UNCHANGED members
    BY <1>9 DEF Crash, catalogVars, Available
  <2> QED BY <2>1, EndingWhole
<1>10. CASE UNCHANGED vars
  <2>1. Available' = Available /\ UNCHANGED members
    BY <1>10 DEF vars, catalogVars, Available
  <2>2. CallIsWhole'
    BY <1>10, <2>1 DEF vars, catalogVars, callVars, CallIsWhole, IsLatest, Retained, Covered
  <2> QED BY <2>1, <2>2, Unseen
<1> QED BY <1>1, <1>2, <1>3, <1>4, <1>5, <1>6, <1>7, <1>8, <1>9, <1>10 DEF Next, Step

LEMMA WholeAlways == ASSUME ExplicitRevisions = {} PROVE Spec => []WholeInv
<1>1. Init => WholeInv
  BY SeriesInit DEF WholeInv, Init, IdleCall, CallIsWhole, Staging
<1>2. WholeInv /\ [Next]_vars => WholeInv'
  BY WholeStep, SeriesStep DEF WholeInv
<1> QED BY <1>1, <1>2, PTL DEF Spec

(* Nothing is served at first.                                               *)
LEMMA InitSeries == Init => Series!Init
<1> SUFFICES ASSUME Init PROVE Series!Init
  OBVIOUS
<1>1. Available = {}
  BY DEF Init, NoManifest, Available
<1>2. LatestRevision = 0
  BY <1>1, LatestIs, RevisionAssumption DEF LatestRevision, IsLatest
<1> QED BY <1>2 DEF Series!Init

(* Whatever fails, crashes and is tried again, each publish_dataset call       *)
(* either moves readers from one whole snapshot to the next or leaves them     *)
(* where they are, as long as every published inventory is what was hashed.    *)
THEOREM AlwaysSeries == ASSUME ExplicitRevisions = {} PROVE Spec => StaysSeries
<1>1. WholeInv /\ [Next]_vars => [InventoryIsHashed' => [Series!Next]_(Series!svars)]_vars
  BY WholeStep
<1> QED BY <1>1, WholeAlways, PTL DEF Spec, StaysSeries

(* So it is the leak alone that keeps a dataset with failures and crashes from  *)
(* being a SnapshotSeries.                                                  *)
THEOREM ImplementsSeriesUnlessLeaked ==
  ASSUME ExplicitRevisions = {} PROVE Spec /\ []InventoryIsHashed => IsSnapshotSeries
<1>1. Init => Series!Init
  BY InitSeries
<1>2. WholeInv /\ [Next]_vars /\ InventoryIsHashed' => [Series!Next]_(Series!svars)
  BY WholeStep
<1> QED BY <1>1, <1>2, WholeAlways, PTL DEF Spec, IsSnapshotSeries, Series!Spec

-----------------------------------------------------------------------------
(* Nothing fails: MaxFailures = 0 and no revision is forced.  Then only the   *)
(* call in progress has written anything that is not published, all of it    *)
(* under its own revision; what is published is what was hashed.             *)
OnlyCallUnpublished ==
    /\ \A r \in Revisions :
          ~Readable(r) /\ (pc = "idle" \/ r # revision) => members[r] = {}
    /\ \A o \in store : Readable(o.revision) \/ o \in fresh

(* The groups of a call and the objects written for them have slots of their *)
(* own, in the periods replaced.                                             *)
CallIsSeparate ==
    /\ flawed = FALSE
    /\ pc = "idle" => fresh = {}
    /\ pc # "idle" =>
          /\ replaced \in Batches
          /\ \A g \in todo : g.slot.period \in replaced
          /\ \A g, h \in todo : g.slot = h.slot => g = h
          /\ \A o \in fresh : o.revision = revision /\ o.slot.period \in replaced
          /\ \A o, p \in fresh : o.slot = p.slot => o = p
          /\ \A g \in todo, o \in fresh : g.slot # o.slot

(* The snapshot is what the manifest read first retains and what is new, and *)
(* nothing else is in the inventory of the manifest under construction.      *)
CallIsSnapshot ==
    /\ pc = "write" => members[revision] = {}
    /\ pc \in Staging \ {"supersede"} =>
          snapshot = Retained \cup fresh /\ members[revision] \subseteq snapshot

(* One manifest is AVAILABLE, the one the call began with, until that is to  *)
(* be retired.                                                             *)
OneServed ==
    /\ pc # "supersede" => \A a, b \in Available : a = b
    /\ pc = "supersede" => Available = {previous, revision}
    /\ pc \notin {"idle", "supersede"} => IsLatest(previous)

CleanPart ==
    /\ InventoryIsHashed /\ OnlyCallUnpublished /\ CallIsSeparate
    /\ CallIsSnapshot /\ OneServed

CleanInv == BackedInv /\ SeriesInv /\ CleanPart

NothingFails == MaxFailures = 0 /\ ExplicitRevisions = {}

(* Nothing is stored or served at first.                                     *)
LEMMA InitClean == Init => CleanInv
<1> SUFFICES ASSUME Init PROVE CleanInv
  OBVIOUS
<1>1. BackedInv /\ SeriesInv
  BY InitBacked, SeriesInit
<1>2. \A r \in Revisions : manifest[r].status = "ABSENT" /\ members[r] = {}
  BY DEF Init, NoManifest
<1>3. Available = {} /\ \A r \in Revisions : ~Readable(r)
  BY <1>2 DEF Available, Readable
<1>4. CleanPart
  BY <1>2, <1>3 DEF Init, IdleCall, CleanPart, InventoryIsHashed, OnlyCallUnpublished,
     CallIsSeparate, CallIsSnapshot, OneServed, Staging
<1> QED BY <1>1, <1>4 DEF CleanInv

(* The call that begins finds nothing under its revision.                    *)
LEMMA BeginClean ==
  ASSUME CleanInv, NothingFails, Call
  PROVE  CleanPart'
<1> /\ TypeOK /\ SeriesInv /\ InventoryIsHashed /\ OnlyCallUnpublished /\ CallIsSeparate
    /\ OneServed /\ MaxRevision \in Nat
  BY RevisionAssumption DEF CleanInv, CleanPart, SeriesInv
<1>1. PICK periods \in Batches, groups \in SUBSET Groups, callerFailed \in BOOLEAN :
          /\ groups \subseteq {g \in Groups : g.slot.period \in periods}
          /\ IsCall(periods, groups)
          /\ BeginPublish(periods, groups, callerFailed)
  BY DEF Call
<1>2. /\ pc = "idle" /\ pc' = "write" /\ replaced' = periods /\ todo' = groups
      /\ flawed' = callerFailed /\ UNCHANGED <<store, members, fresh>>
      /\ (callerFailed => failures < MaxFailures)
  BY <1>1 DEF BeginPublish, Fail
<1>3. PICK latest \in 0..MaxRevision : IsLatest(latest) /\
          \E r \in NextRevision(latest) :
              /\ revision' = r
              /\ previous' = latest
              /\ manifest' = [manifest EXCEPT ![r] =
                     [status |-> "BUILDING", hash |-> {}, supersedes |-> latest]]
  BY <1>1 DEF BeginPublish
<1>4. PICK r \in NextRevision(latest) :
              /\ revision' = r
              /\ previous' = latest
              /\ manifest' = [manifest EXCEPT ![r] =
                     [status |-> "BUILDING", hash |-> {}, supersedes |-> latest]]
  BY <1>3
<1>5. /\ r \in Revisions /\ latest < r
      /\ \A q \in Revisions : Readable(q) => q < r
  BY <1>3, NextIsAhead DEF NothingFails
<1>6. /\ manifest'[r].status = "BUILDING"
      /\ \A q \in Revisions \ {r} : manifest'[q] = manifest[q]
  BY <1>4, <1>5 DEF TypeOK
<1>7. ~Readable(r)
  BY <1>5 DEF Revisions
<1>8. \A q \in Revisions : (Readable(q)') <=> Readable(q)
  BY <1>6, <1>7 DEF Readable
<1>9. Available' = Available
  BY <1>6, <1>7 DEF Readable, Available
<1>10. flawed' = FALSE
  BY <1>2, FailuresAssumption DEF NothingFails, TypeOK
<1>11. members[r] = {} /\ fresh = {}
  BY <1>2, <1>5, <1>7 DEF OnlyCallUnpublished, CallIsSeparate
<1>12. InventoryIsHashed'
  BY <1>2, <1>6, <1>7, <1>8 DEF InventoryIsHashed
<1>13. OnlyCallUnpublished'
  <2>1. \A q \in Revisions : ~(Readable(q)') => members'[q] = {}
    BY <1>2, <1>8 DEF OnlyCallUnpublished
  <2>2. \A o \in store' : (Readable(o.revision)') \/ o \in fresh'
    <3> SUFFICES ASSUME NEW o \in store PROVE Readable(o.revision)'
      BY <1>2
    <3>1. o.revision \in Revisions /\ Readable(o.revision)
      BY <1>11 DEF OnlyCallUnpublished, TypeOK, Objects
    <3> QED BY <1>8, <3>1
  <2> QED BY <2>1, <2>2 DEF OnlyCallUnpublished
<1>14. CallIsSeparate'
  <2>1. IsCall(periods, groups)
    BY <1>1
  <2> QED BY <1>2, <1>10, <1>11, <2>1 DEF CallIsSeparate, IsCall
<1>15. CallIsSnapshot'
  BY <1>2, <1>4, <1>11 DEF CallIsSnapshot, Staging
<1>16. OneServed'
  BY <1>2, <1>3, <1>4, <1>9 DEF OneServed, IsLatest
<1> QED BY <1>12, <1>13, <1>14, <1>15, <1>16 DEF CleanPart

(* No key is taken: whatever stands under the call's revision is its own, and *)
(* its groups have slots of their own.                                       *)
LEMMA NoKeyTaken ==
  ASSUME CleanInv, pc = "write", NEW g \in todo
  PROVE  ~KeyTaken(NewObjectOf(g))
<1> /\ TypeOK /\ SeriesInv /\ OnlyCallUnpublished /\ CallIsSeparate
  BY DEF CleanInv, CleanPart, SeriesInv
<1>1. SUFFICES ASSUME NEW x \in store, ObjectKey(x) = ObjectKey(NewObjectOf(g))
              PROVE FALSE
  BY DEF KeyTaken
<1>2. x.revision = revision /\ x.slot = g.slot
  BY <1>1 DEF ObjectKey, NewObjectOf
<1>3. x \notin fresh
  BY <1>2 DEF CallIsSeparate
<1>4. Readable(revision)
  BY <1>2, <1>3 DEF OnlyCallUnpublished
<1> QED BY <1>4 DEF SeriesInv, CallIsAhead, TypeOK, Revisions

(* Steps that write neither manifest nor inventory and stay in the call.     *)
LEMMA WorkingClean ==
  ASSUME CleanInv, pc \notin {"idle", "supersede"}, pc' \notin {"idle", "supersede"},
         UNCHANGED <<manifest, members, revision, previous>>,
         CallIsSeparate', CallIsSnapshot', store' \ store \subseteq fresh',
         fresh \subseteq fresh'
  PROVE  CleanPart'
<1> InventoryIsHashed /\ OnlyCallUnpublished /\ OneServed
  BY DEF CleanInv, CleanPart
<1>1. InventoryIsHashed'
  BY DEF InventoryIsHashed, Readable
<1>2. OnlyCallUnpublished'
  BY DEF OnlyCallUnpublished, Readable
<1>3. OneServed'
  BY DEF OneServed, Available, IsLatest
<1> QED BY <1>1, <1>2, <1>3 DEF CleanPart

(* The object of a group takes its slot from todo to fresh.                  *)
LEMMA PutClean ==
  ASSUME CleanInv, PutObject
  PROVE  CleanPart'
<1> /\ TypeOK /\ CallIsSeparate /\ CallIsSnapshot
  BY DEF CleanInv, CleanPart, SeriesInv
<1>1. PICK g \in todo : /\ todo' = todo \ {g}
                       /\ fresh' = fresh \cup {NewObjectOf(g)}
                       /\ store' = store \cup {NewObjectOf(g)}
  BY FirstOfIsElement DEF PutObject
<1>2. /\ pc = "write" /\ pc' = "write"
      /\ UNCHANGED <<manifest, members, revision, previous, replaced, flawed>>
  BY DEF PutObject, catalogVars
<1>3. CallIsSeparate'
  BY <1>1, <1>2 DEF CallIsSeparate, NewObjectOf
<1>4. CallIsSnapshot'
  BY <1>2 DEF CallIsSnapshot, Staging
<1> QED BY <1>1, <1>2, <1>3, <1>4, WorkingClean

(* Staging writes no manifest; its row goes under the call's revision, which  *)
(* nobody reads yet.                                                        *)
LEMMA StagingClean ==
  ASSUME CleanInv,
         ComputeSnapshot \/ StageStorage \/ RecordProvenance \/ RecordIncidents
  PROVE  CleanPart'
<1> /\ TypeOK /\ CallIsSeparate /\ CallIsSnapshot
  BY DEF CleanInv, CleanPart, SeriesInv
<1> USE DEF Staging
<1>1. CASE ComputeSnapshot
  <2>1. /\ pc = "write" /\ pc' = "stage" /\ snapshot' = Retained \cup fresh
        /\ UNCHANGED <<manifest, members, revision, previous, replaced, flawed, todo,
                       fresh, store>>
    BY <1>1 DEF ComputeSnapshot, catalogVars
  <2>2. CallIsSeparate'
    BY <2>1 DEF CallIsSeparate
  <2>3. CallIsSnapshot'
    BY <2>1 DEF CallIsSnapshot, Retained, Covered
  <2> QED BY <2>1, <2>2, <2>3, WorkingClean
<1>2. CASE StageStorage \/ RecordProvenance \/ RecordIncidents
  <2>1. /\ pc \in Staging \ {"supersede"} /\ pc' \in Staging \ {"supersede"}
        /\ UNCHANGED <<manifest, members, revision, previous, replaced, flawed, todo,
                       fresh, store, snapshot>>
    BY <1>2 DEF StageStorage, RecordProvenance, RecordIncidents, callVars
  <2>2. CallIsSeparate'
    BY <2>1 DEF CallIsSeparate
  <2>3. CallIsSnapshot'
    BY <2>1 DEF CallIsSnapshot, Retained, Covered
  <2> QED BY <2>1, <2>2, <2>3, WorkingClean
<1> QED BY <1>1, <1>2

(* The row of the inventory is one of the snapshot, under a revision that is  *)
(* not served.                                                              *)
LEMMA RelationClean ==
  ASSUME CleanInv, StageRelation
  PROVE  CleanPart'
<1> /\ TypeOK /\ CallIsSeparate /\ CallIsSnapshot /\ InventoryIsHashed /\ SeriesInv
    /\ OnlyCallUnpublished /\ OneServed /\ CallIsBacked /\ MaxRevision \in Nat
  BY RevisionAssumption DEF CleanInv, CleanPart, SeriesInv, BackedInv
<1> USE DEF Staging
<1>1. /\ pc = "relate" /\ pc' \in {"stage", "trace"}
      /\ members' = [members EXCEPT ![revision] = @ \cup {current}]
      /\ UNCHANGED <<manifest, revision, previous, replaced, flawed, todo,
                     fresh, store, snapshot>>
  BY DEF StageRelation
<1>2. current \in snapshot
  BY <1>1 DEF CallIsBacked
<1>3. /\ members'[revision] = members[revision] \cup {current}
      /\ \A r \in Revisions \ {revision} : members'[r] = members[r]
      /\ revision \in Revisions
  BY <1>1 DEF TypeOK
<1>4. previous < revision /\ ~Readable(revision)
  BY <1>1, <1>3 DEF SeriesInv, CallIsAhead, Revisions
<1>5. previous # 0 => members'[previous] = members[previous]
  BY <1>3, <1>4 DEF TypeOK, Revisions
<1>6. InventoryIsHashed'
  BY <1>1, <1>3, <1>4 DEF InventoryIsHashed, Readable
<1>7. OnlyCallUnpublished'
  BY <1>1, <1>3 DEF OnlyCallUnpublished, Readable
<1>8. CallIsSeparate'
  BY <1>1 DEF CallIsSeparate
<1>9. CallIsSnapshot'
  <2>1. Retained' = Retained
    BY <1>1, <1>5 DEF Retained, Covered
  <2> QED BY <1>1, <1>2, <1>3, <2>1 DEF CallIsSnapshot
<1>10. OneServed'
  BY <1>1 DEF OneServed, Available, IsLatest
<1> QED BY <1>6, <1>7, <1>8, <1>9, <1>10 DEF CleanPart

(* The final record either adds nothing anybody reads, or it is the next      *)
(* snapshot of the series.                                                   *)
LEMMA PublishClean ==
  ASSUME CleanInv, PublishManifest, SeriesInv'
  PROVE  CleanPart'
<1> /\ TypeOK /\ CallIsSeparate /\ CallIsSnapshot /\ InventoryIsHashed /\ SeriesInv
    /\ OnlyCallUnpublished /\ OneServed /\ CallIsBacked /\ MaxRevision \in Nat
  BY RevisionAssumption DEF CleanInv, CleanPart, SeriesInv, BackedInv
<1> USE DEF Staging
<1>1. /\ pc \in {"stage", "report"}
      /\ manifest' = [manifest EXCEPT ![revision] = FinalManifest]
      /\ UNCHANGED <<members, store>> /\ unstaged = {}
  BY DEF PublishManifest, CallIsBacked
<1>2. /\ manifest'[revision] = FinalManifest /\ revision \in Revisions
      /\ \A r \in Revisions \ {revision} : manifest'[r] = manifest[r]
  BY <1>1 DEF TypeOK
<1>3. /\ previous < revision /\ ~Readable(revision) /\ previous \in 0..MaxRevision
      /\ previous # 0 => previous \in Available
  BY <1>1, <1>2 DEF SeriesInv, CallIsAhead, Revisions, TypeOK
<1>4. members[revision] = snapshot /\ snapshot = Retained \cup fresh
  BY <1>1 DEF CallIsSnapshot, CallIsBacked
<1>5. FinalManifest.hash = snapshot /\ FinalManifest.status = Outcome
  BY DEF FinalManifest
<1>6. InventoryIsHashed'
  <2> SUFFICES ASSUME NEW r \in Revisions, Readable(r)'
               PROVE members'[r] = manifest'[r].hash
    BY DEF InventoryIsHashed
  <2>1. CASE r = revision
    BY <1>1, <1>2, <1>4, <1>5, <2>1
  <2>2. CASE r # revision
    BY <1>1, <1>2, <2>2 DEF InventoryIsHashed, Readable
  <2> QED BY <2>1, <2>2
<1>7. CASE Outcome # "AVAILABLE"
  <2>1. snapshot = {} /\ Outcome = "QUARANTINED"
    BY <1>7 DEF Outcome, CallIsSeparate
  <2>2. EndCall
    BY <1>7 DEF PublishManifest
  <2>3. \A r \in Revisions : (Readable(r)') <=> Readable(r)
    BY <1>2, <1>3, <1>5, <2>1 DEF Readable
  <2>4. Available' = Available
    BY <1>2, <1>3, <1>5, <2>1 DEF Readable, Available
  <2>5. OnlyCallUnpublished'
    <3>1. \A r \in Revisions : ~(Readable(r)') => members'[r] = {}
      BY <1>1, <1>4, <2>1, <2>3 DEF OnlyCallUnpublished
    <3>2. \A o \in store : o.revision \in Revisions /\ Readable(o.revision)
      BY <1>4, <2>1 DEF OnlyCallUnpublished, TypeOK, Objects
    <3>3. \A o \in store' : Readable(o.revision)'
      BY <1>1, <2>3, <3>2
    <3> QED BY <3>1, <3>3 DEF OnlyCallUnpublished
  <2>6. CallIsSeparate' /\ CallIsSnapshot'
    BY <2>2 DEF EndCall, CallIsSeparate, CallIsSnapshot
  <2>7. OneServed'
    BY <1>1, <2>2, <2>4 DEF EndCall, OneServed
  <2> QED BY <1>6, <2>5, <2>6, <2>7 DEF CleanPart
<1>8. CASE Outcome = "AVAILABLE"
  <2>1. snapshot # {}
    BY <1>8 DEF Outcome
  <2>2. Available' = Available \cup {revision}
    BY <1>2, <1>5, <1>8 DEF Available
  <2>3. \A r \in Revisions : (Readable(r)') <=> (Readable(r) \/ r = revision)
    BY <1>2, <1>5, <1>8 DEF Readable
  <2>4. IF previous # 0 THEN pc' = "supersede" /\ UNCHANGED callVars ELSE EndCall
    BY <1>8 DEF PublishManifest
  <2>5. Available = IF previous = 0 THEN {} ELSE {previous}
    <3>1. CASE previous = 0
      BY <1>1, <3>1 DEF OneServed, IsLatest, Available, Revisions
    <3>2. CASE previous # 0
      <4>1. previous \in Available /\ \A a \in Available : a = previous
        BY <1>1, <1>3, <3>2 DEF OneServed
      <4>2. Available = {previous}
        BY <4>1
      <4> QED BY <3>2, <4>2
    <3> QED BY <3>1, <3>2
  <2>6. OnlyCallUnpublished'
    <3>1. \A r \in Revisions : ~(Readable(r)') => members'[r] = {}
      BY <1>1, <2>3 DEF OnlyCallUnpublished
    <3>2. \A o \in store : /\ o.revision \in Revisions
                           /\ Readable(o.revision) \/ o.revision = revision
      <4>1. \A o \in store : o.revision \in Revisions
        BY DEF TypeOK, Objects
      <4>2. \A o \in fresh : o.revision = revision
        BY <1>1 DEF CallIsSeparate
      <4> QED BY <4>1, <4>2 DEF OnlyCallUnpublished
    <3>3. \A o \in store' : Readable(o.revision)'
      <4> SUFFICES ASSUME NEW o \in store PROVE Readable(o.revision)'
        BY <1>1
      <4>1. o.revision \in Revisions /\ (Readable(o.revision) \/ o.revision = revision)
        BY <3>2
      <4> QED BY <4>1, <2>3, <1>2
    <3> QED BY <3>1, <3>3 DEF OnlyCallUnpublished
  <2>7. CallIsSeparate' /\ CallIsSnapshot'
    BY <1>1, <2>4 DEF EndCall, CallIsSeparate, CallIsSnapshot, callVars
  <2>8. OneServed'
    <3>1. CASE previous = 0
      BY <2>2, <2>4, <2>5, <3>1 DEF EndCall, OneServed
    <3>2. CASE previous # 0
      <4>1. Available' = {previous, revision} /\ UNCHANGED <<previous, revision>>
        BY <2>2, <2>4, <2>5, <3>2 DEF callVars
      <4> QED BY <2>4, <3>2, <4>1 DEF OneServed
    <3> QED BY <3>1, <3>2
  <2> QED BY <1>6, <2>6, <2>7, <2>8 DEF CleanPart
<1> QED BY <1>7, <1>8

(* Retiring the manifest before leaves the later one to be served.           *)
LEMMA SupersedeClean ==
  ASSUME CleanInv, SupersedePrevious
  PROVE  CleanPart'
<1> /\ TypeOK /\ CallIsSeparate /\ InventoryIsHashed /\ SeriesInv
    /\ OnlyCallUnpublished /\ OneServed /\ MaxRevision \in Nat
  BY RevisionAssumption DEF CleanInv, CleanPart, SeriesInv
<1>1. /\ pc = "supersede" /\ EndCall /\ UNCHANGED <<members, store>>
      /\ manifest' = [manifest EXCEPT ![previous] = [previousRecord EXCEPT !.status = "SUPERSEDED"]]
  BY DEF SupersedePrevious
<1>2. /\ previous \in Revisions /\ previous < revision /\ revision \in Revisions
      /\ previous \in Available /\ previousRecord = manifest[previous]
  BY <1>1 DEF SeriesInv, CallIsAhead, TypeOK, Revisions
<1>3. /\ manifest'[previous] = [manifest[previous] EXCEPT !.status = "SUPERSEDED"]
      /\ \A r \in Revisions \ {previous} : manifest'[r] = manifest[r]
  BY <1>1, <1>2 DEF TypeOK
<1>4. manifest'[previous].status = "SUPERSEDED" /\ manifest'[previous].hash = manifest[previous].hash
  BY <1>2, <1>3 DEF TypeOK, ManifestRecords
<1>5. \A r \in Revisions : (Readable(r)') <=> Readable(r)
  BY <1>2, <1>3, <1>4 DEF Readable, Available
<1>6. Available' = {revision}
  <2>1. Available = {previous, revision} /\ previous # revision
    BY <1>1, <1>2 DEF OneServed, Revisions
  <2>2. Available' = Available \ {previous}
    BY <1>2, <1>3, <1>4 DEF Available
  <2> QED BY <2>1, <2>2
<1>7. InventoryIsHashed'
  BY <1>1, <1>3, <1>4, <1>5 DEF InventoryIsHashed
<1>8. Readable(revision)
  BY <1>1 DEF SeriesInv, CallIsAhead, Available, Readable
<1>9. OnlyCallUnpublished'
  <2>1. \A r \in Revisions : ~(Readable(r)') => members'[r] = {}
    BY <1>1, <1>5, <1>8 DEF OnlyCallUnpublished
  <2>2. \A o \in store : o.revision \in Revisions /\ Readable(o.revision)
    BY <1>1, <1>8 DEF OnlyCallUnpublished, TypeOK, Objects, CallIsSeparate
  <2>3. \A o \in store' : Readable(o.revision)'
    BY <1>1, <1>5, <2>2
  <2> QED BY <2>1, <2>3 DEF OnlyCallUnpublished
<1>10. CallIsSeparate' /\ CallIsSnapshot' /\ OneServed'
  BY <1>1, <1>6 DEF EndCall, CallIsSeparate, CallIsSnapshot, OneServed, Staging
<1> QED BY <1>7, <1>9, <1>10 DEF CleanPart

(* Every step that can happen when nothing fails.                            *)
LEMMA CleanStep ==
  ASSUME NothingFails, CleanInv, [Next]_vars
  PROVE  CleanInv'
<1> SUFFICES CleanPart'
  BY TypeStep, BackedStep, SeriesStep DEF CleanInv, BackedInv, NothingFails
<1> TypeOK
  BY DEF CleanInv, SeriesInv
<1>0. ~Fail
  BY FailuresAssumption DEF Fail, NothingFails, TypeOK
<1>1. CASE Call
  BY <1>1, BeginClean
<1>2. CASE PutObject
  BY <1>2, PutClean
<1>3. ~GroupFails
  <2> SUFFICES ASSUME GroupFails PROVE FALSE
    OBVIOUS
  <2>1. pc = "write" /\ KeyTaken(NewObjectOf(FirstOf(todo))) /\ FirstOf(todo) \in todo
    BY <1>0, FirstOfIsElement DEF GroupFails
  <2> QED BY <2>1, NoKeyTaken
<1>4. CASE ComputeSnapshot \/ StageStorage \/ RecordProvenance \/ RecordIncidents
  BY <1>4, StagingClean
<1>5. CASE StageRelation
  BY <1>5, RelationClean
<1>6. CASE PublishManifest
  BY <1>6, PublishClean, SeriesStep DEF CleanInv, NothingFails
<1>7. CASE SupersedePrevious
  BY <1>7, SupersedeClean
<1>8. ~Crash
  BY <1>0 DEF Crash
<1>9. CASE UNCHANGED vars
  BY <1>9 DEF CleanInv, CleanPart, InventoryIsHashed, OnlyCallUnpublished, CallIsSeparate,
     CallIsSnapshot, OneServed, Available, IsLatest, Readable, Retained, Covered,
     vars, catalogVars, callVars
<1> QED BY <1>1, <1>2, <1>3, <1>4, <1>5, <1>6, <1>7, <1>8, <1>9 DEF Next, Step

-----------------------------------------------------------------------------
(* Within one batch the periods are apart; then so are the objects that are  *)
(* retained and those that are new.                                         *)
BatchesAreApart == \A b \in Batches : \A p, q \in b : Overlaps(p, q) => p = q

GranularityInv == CleanInv /\ OneGranularityPerTime

LEMMA GranularityStep ==
  ASSUME NothingFails, BatchesAreApart, GranularityInv, [Next]_vars
  PROVE  OneGranularityPerTime'
<1> /\ TypeOK /\ CallIsSeparate /\ CallIsSnapshot /\ InventoryIsHashed /\ SeriesInv
    /\ OneServed /\ CallIsBacked /\ OneGranularityPerTime /\ MaxRevision \in Nat /\ CleanInv
  BY RevisionAssumption DEF GranularityInv, CleanInv, CleanPart, SeriesInv, BackedInv
<1> DEFINE Apart(S) == \A a, b \in S :
        a.slot.shard = b.slot.shard /\ Overlaps(a.slot.period, b.slot.period) => a = b
<1>1. KeepsReadable
  BY SeriesStep DEF NothingFails
<1>2. ASSUME \A r \in Revisions : (Readable(r)') => Readable(r)
      PROVE  OneGranularityPerTime'
  <2>1. \A r \in Revisions : (Readable(r)') => Readable(r) /\ members'[r] = members[r]
    BY <1>1, <1>2 DEF KeepsReadable
  <2> QED BY <2>1 DEF OneGranularityPerTime
<1>3. CASE UNCHANGED manifest
  BY <1>2, <1>3 DEF Readable
<1>4. CASE Call
  <2>1. PICK r \in Revisions, latest \in 0..MaxRevision :
            manifest' = [manifest EXCEPT ![r] =
                [status |-> "BUILDING", hash |-> {}, supersedes |-> latest]]
    BY <1>4 DEF Call, BeginPublish, NextRevision
  <2> QED BY <1>2, <2>1 DEF Readable, TypeOK
<1>5. CASE SupersedePrevious
  <2>1. previous \in Available
    BY <1>5 DEF SupersedePrevious, SeriesInv, CallIsAhead, Revisions
  <2> QED BY <1>2, <1>5, <2>1 DEF SupersedePrevious, Readable, TypeOK, Available
<1>6. CASE PublishManifest
  <2>1. /\ pc \in {"stage", "report"} /\ UNCHANGED members /\ unstaged = {}
        /\ manifest' = [manifest EXCEPT ![revision] = FinalManifest]
    BY <1>6 DEF PublishManifest, CallIsBacked
  <2>2. members[revision] = Retained \cup fresh
    BY <2>1 DEF CallIsSnapshot, CallIsBacked, Staging
  <2>3. Apart(Retained)
    <3>1. CASE previous = 0
      BY <3>1 DEF Retained
    <3>2. CASE previous # 0
      <4>1. previous \in Revisions /\ Readable(previous)
        BY <2>1, <3>2 DEF SeriesInv, CallIsAhead, Available, Readable
      <4>2. Apart(members[previous])
        BY <4>1 DEF OneGranularityPerTime
      <4> QED BY <4>2 DEF Retained
    <3> QED BY <3>1, <3>2
  <2>4. Apart(fresh)
    <3> SUFFICES ASSUME NEW a \in fresh, NEW b \in fresh,
                        a.slot.shard = b.slot.shard, Overlaps(a.slot.period, b.slot.period)
                 PROVE  a = b
      OBVIOUS
    <3>1. a.slot.period = b.slot.period
      BY <2>1 DEF CallIsSeparate, BatchesAreApart
    <3>2. a.slot \in Slots /\ b.slot \in Slots
      BY DEF TypeOK, Objects
    <3>3. a.slot = b.slot
      BY <3>1, <3>2 DEF Slots
    <3> QED BY <2>1, <3>3 DEF CallIsSeparate
  <2>5. ASSUME NEW a \in Retained, NEW b \in fresh
        PROVE  ~Overlaps(a.slot.period, b.slot.period) /\ ~Overlaps(b.slot.period, a.slot.period)
    <3>1. b.slot.period \in replaced
      BY <2>1 DEF CallIsSeparate
    <3>2. ~Overlaps(a.slot.period, b.slot.period)
      BY <3>1 DEF Retained, Covered
    <3> QED BY <3>2 DEF Overlaps
  <2>6. Apart(Retained \cup fresh)
    BY <2>3, <2>4, <2>5
  <2> HIDE DEF Apart
  <2>7. ASSUME NEW r \in Revisions, Readable(r)' PROVE Apart(members'[r])
    <3>1. CASE r = revision
      BY <2>1, <2>2, <2>6, <3>1
    <3>2. CASE r # revision
      <4>1. Readable(r)
        BY <2>1, <2>7, <3>2 DEF Readable, TypeOK
      <4>2. Apart(members[r])
        BY <4>1 DEF OneGranularityPerTime, Apart
      <4> QED BY <2>1, <4>2
    <3> QED BY <3>1, <3>2
  <2> QED BY <2>7 DEF OneGranularityPerTime, Apart
<1>7. [Next]_vars => \/ UNCHANGED manifest \/ Call \/ SupersedePrevious \/ PublishManifest
  BY DEF Next, Step, PutObject, GroupFails, ComputeSnapshot, StageStorage, StageRelation,
     RecordProvenance, RecordIncidents, Crash, vars, catalogVars
<1> QED BY <1>3, <1>4, <1>5, <1>6, <1>7

-----------------------------------------------------------------------------
LEMMA CleanAlways == ASSUME NothingFails PROVE Spec => []CleanInv
<1>1. Init => CleanInv
  BY InitClean
<1>2. CleanInv /\ [Next]_vars => CleanInv'
  BY CleanStep
<1> QED BY <1>1, <1>2, PTL DEF Spec

(* When nothing fails, the inventory a reader lists is what the manifest was  *)
(* hashed over (publish_dataset).                                           *)
THEOREM AlwaysHashed == ASSUME NothingFails PROVE Spec => []InventoryIsHashed
<1>1. CleanInv => InventoryIsHashed
  BY DEF CleanInv, CleanPart
<1> QED BY <1>1, CleanAlways, PTL

(* When nothing fails, a dataset has one AVAILABLE manifest between calls     *)
(* (publish_dataset retires the one before).                                 *)
THEOREM AlwaysOneAvailable == ASSUME NothingFails PROVE Spec => []OneAvailable
<1>1. CleanInv => OneAvailable
  <2> SUFFICES ASSUME CleanInv, pc = "idle" PROVE Cardinality(Available) <= 1
    BY DEF OneAvailable
  <2>1. Available = {} \/ \E a : Available = {a}
    <3>1. \A a, b \in Available : a = b
      BY DEF CleanInv, CleanPart, OneServed
    <3>2. CASE Available # {}
      <4>1. PICK a \in Available : TRUE
        BY <3>2
      <4>2. Available = {a}
        BY <3>1, <4>1
      <4> QED BY <4>2
    <3> QED BY <3>2
  <2>2. ASSUME NEW a, Available = {a} PROVE Cardinality(Available) <= 1
    BY <2>2, FS_Singleton
  <2>3. Available = {} => Cardinality(Available) <= 1
    BY FS_EmptySet
  <2> QED BY <2>1, <2>2, <2>3, Zenon
<1> QED BY <1>1, CleanAlways, PTL

(* When nothing fails and no call is given overlapping periods, no time of a  *)
(* shard is given by two objects of a readable manifest, whatever days,       *)
(* weeks, months and years replace each other (publish_dataset).             *)
THEOREM AlwaysOneGranularity ==
  ASSUME NothingFails, BatchesAreApart
  PROVE  Spec => []OneGranularityPerTime
<1>1. Init => GranularityInv
  <2>1. Init => OneGranularityPerTime
    BY DEF Init, OneGranularityPerTime, Readable, NoManifest
  <2> QED BY <2>1, InitClean DEF GranularityInv
<1>2. GranularityInv /\ [Next]_vars => GranularityInv'
  BY CleanStep, GranularityStep DEF GranularityInv
<1>3. GranularityInv => OneGranularityPerTime
  BY DEF GranularityInv
<1> QED BY <1>1, <1>2, <1>3, PTL DEF Spec

(* When nothing fails, a dataset is a SnapshotSeries: each publish_dataset    *)
(* either changes nothing readers see, or gives them a later snapshot that    *)
(* keeps all that was not replaced and adds new objects only for what was.    *)
THEOREM ImplementsSnapshotSeries == ASSUME NothingFails PROVE Spec => IsSnapshotSeries
BY AlwaysHashed, ImplementsSeriesUnlessLeaked, PTL DEF NothingFails
=============================================================================
