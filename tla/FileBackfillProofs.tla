--------------------------- MODULE FileBackfillProofs ---------------------------
(***************************************************************************)
(* The two commands of the file backfill.  Part files, state files and the   *)
(* manifest of build_manifest_year agree, and a shard of a manifest comes    *)
(* from one build, for any sources, shards, parts, failures and crashes.     *)
(* What the plan or upload-state.json of upload_objects calls remote is in   *)
(* the bucket, and an upload that is resumed is not refused, for any number  *)
(* of objects, failures and torn state files.                               *)
(***************************************************************************)
EXTENDS ManifestBuild, PlanUpload, FiniteSetTheorems, TLAPS

-----------------------------------------------------------------------------
(* The invariant, in parts.                                                 *)
Shape ==
    /\ states \in [Shards -> SUBSET Objects] /\ objects \subseteq Objects
    /\ mapped \subseteq Sources /\ known \subseteq Sources /\ rows \subseteq Sources
    /\ pc \in {"idle", "shard", "write"} /\ resume \in BOOLEAN
    /\ shard \in Nat /\ part \in Nat
    /\ pc = "shard" => shard > 0
    /\ pc = "write" => shard \in Shards /\ part > 0 /\ part <= PartCount + 1

(* The state file of a shard lists files of that shard. *)
OwnFiles == \A s \in Shards : \A o \in states[s] : o.shard = s

(* A build writes no file that something lists: its manifest lists none yet,  *)
(* the shard at hand has no state file, and of its parts only those before   *)
(* the one at hand are written.                                             *)
WritesUnlisted ==
    /\ pc # "idle" => manifest.objects = {}
    /\ pc = "write" => states[shard] = {}
    /\ pc = "write" => \A o \in objects : o.shard = shard => o.part < part

(* Without --resume nothing has been built before, as there is no manifest.  *)
NothingBefore ==
    /\ manifest.status = "ABSENT" => pc = "idle" /\ \A s \in Shards : states[s] = {}
    /\ pc # "idle" /\ ~resume => \A s \in Shards : s >= shard => states[s] = {}

(* The objects of the build in progress are stored. *)
Collected ==
    /\ objects \subseteq files
    /\ pc = "idle" => objects = {}
    /\ pc = "shard" => \A o \in objects : o.shard < shard
    /\ pc = "write" => \A o \in objects : o.shard <= shard

StoredInv ==
    Shape /\ OwnFiles /\ WritesUnlisted /\ NothingBefore /\ Collected /\ ListedIsStored

(* The objects of one build of a shard: made of the same sources, to the     *)
(* last part.                                                              *)
Whole(os, a) ==
    /\ \A b \in os : a.shard = b.shard => a.rows = b.rows
    /\ \E c \in os : c.shard = a.shard /\ c.part = PartCount

BuildInv ==
    /\ \A a \in manifest.objects : Whole(manifest.objects, a)
    /\ \A s \in Shards : \A a \in states[s] : Whole(states[s], a)
    /\ \A a \in objects : a.shard < shard => Whole(objects, a)
    /\ pc = "write" =>
          /\ \A a \in objects : a.shard = shard => a.rows = rows
          /\ part > 1 => \E c \in objects : c.shard = shard /\ c.part = part - 1

-----------------------------------------------------------------------------
(* Nothing is stored, stated or listed at first.                             *)
LEMMA InitStored == Init => StoredInv
<1> SUFFICES ASSUME Init PROVE StoredInv
  OBVIOUS
<1>1. Shape
  BY MapAssumption DEF Init, Shape
<1>2. ListedIsStored
  BY DEF Init, ListedIsStored, NoManifest
<1> QED
  BY <1>1, <1>2 DEF Init, StoredInv, OwnFiles, WritesUnlisted, NothingBefore, Collected, NoManifest

(* Begin empties the manifest. *)
LEMMA BeginStored ==
  ASSUME StoredInv, NEW again \in ResumeFlags, Begin(again) PROVE StoredInv'
<1>1. /\ manifest' = [status |-> "BUILDING", objects |-> {}, failures |-> {}]
      /\ resume' = again /\ known' = mapped /\ shard' = 1 /\ pc' = "shard" /\ pc = "idle"
      /\ UNCHANGED <<mapped, states, files, objects, rows, part>>
  BY DEF Begin, NoManifest
<1>2. objects = {}
  BY <1>1 DEF StoredInv, Collected
<1>3. ~again => \A s \in Shards : states[s] = {}
  BY DEF Begin, StoredInv, NothingBefore
<1>4. again \in BOOLEAN
  BY FlagAssumption
<1>5. Shape'
  BY <1>1, <1>4 DEF StoredInv, Shape
<1>6. ListedIsStored'
  BY <1>1 DEF StoredInv, ListedIsStored
<1>7. NothingBefore'
  BY <1>1, <1>3 DEF NothingBefore
<1> QED
  BY <1>1, <1>2, <1>5, <1>6, <1>7
  DEF StoredInv, OwnFiles, WritesUnlisted, Collected

(* A shard that is taken over brings the files of its state file. *)
LEMMA TakeOverStored == StoredInv /\ TakeOver => StoredInv'
<1> SUFFICES ASSUME StoredInv, TakeOver PROVE StoredInv'
  OBVIOUS
<1>1. /\ pc = "shard" /\ shard \in Shards /\ resume /\ shard' = shard + 1
      /\ objects' = objects \cup states[shard]
      /\ UNCHANGED <<mapped, manifest, states, files, pc, resume, known, rows, part>>
  BY DEF TakeOver
<1>2. states[shard] \subseteq files /\ states[shard] \subseteq Objects
  BY <1>1 DEF StoredInv, ListedIsStored, Shape
<1>3. \A o \in objects' : o.shard < shard'
  <2>1. \A o \in objects : o.shard < shard /\ o.shard \in Nat
    BY <1>1 DEF StoredInv, Shape, Collected, Objects, Shards
  <2>2. \A o \in states[shard] : o.shard = shard
    BY <1>1 DEF StoredInv, OwnFiles
  <2>3. shard \in Nat
    BY DEF StoredInv, Shape
  <2> QED BY <1>1, <2>1, <2>2, <2>3
<1>4. Shape'
  BY <1>1, <1>2 DEF StoredInv, Shape
<1>5. ListedIsStored' /\ OwnFiles'
  BY <1>1 DEF StoredInv, ListedIsStored, OwnFiles
<1>6. NothingBefore'
  BY <1>1 DEF StoredInv, NothingBefore
<1>7. WritesUnlisted' /\ Collected'
  BY <1>1, <1>2, <1>3 DEF StoredInv, WritesUnlisted, Collected
<1> QED
  BY <1>4, <1>5, <1>6, <1>7 DEF StoredInv

(* A shard that is built has no state file: either it was not complete, or   *)
(* there was none without --resume.                                         *)
LEMMA ReadStored == StoredInv /\ ReadShard => StoredInv'
<1> SUFFICES ASSUME StoredInv, ReadShard PROVE StoredInv'
  OBVIOUS
<1>1. /\ pc = "shard" /\ shard \in Shards /\ ~(resume /\ Complete(shard))
      /\ UNCHANGED <<mapped, manifest, states, files, resume, known, objects>>
  BY DEF ReadShard
<1>2. states[shard] = {}
  BY <1>1 DEF StoredInv, NothingBefore, Complete, ListedIsStored, Shape
<1>3. \/ /\ shard' = shard + 1 /\ UNCHANGED <<pc, rows, part>>
      \/ /\ pc' = "write" /\ part' = 1 /\ UNCHANGED shard
         /\ rows' \subseteq known
  BY DEF ReadShard
<1>4. Shape'
  BY <1>1, <1>3, PartAssumption DEF StoredInv, Shape
<1>5. ListedIsStored' /\ OwnFiles'
  BY <1>1 DEF StoredInv, ListedIsStored, OwnFiles
<1>6. NothingBefore'
  BY <1>1, <1>3 DEF StoredInv, NothingBefore, Shape
<1>7. \A o \in objects : o.shard < shard
  BY <1>1 DEF StoredInv, Collected
<1>8. objects \subseteq Objects /\ shard \in Nat
  BY DEF StoredInv, Shape
<1>9. WritesUnlisted'
  BY <1>1, <1>2, <1>3, <1>7, <1>8 DEF StoredInv, WritesUnlisted, Objects, Shards
<1>10. Collected'
  BY <1>1, <1>3, <1>7, <1>8 DEF StoredInv, Collected, Objects, Shards
<1> QED
  BY <1>4, <1>5, <1>6, <1>9, <1>10 DEF StoredInv

(* The file that a part replaces is listed nowhere. *)
LEMMA WriteStored == StoredInv /\ WritePart => StoredInv'
<1> SUFFICES ASSUME StoredInv, WritePart PROVE StoredInv'
  OBVIOUS
<1> DEFINE o == [shard |-> shard, part |-> part, rows |-> rows]
<1>1. /\ pc = "write" /\ part \in Parts /\ part' = part + 1
      /\ files' = {f \in files : ~(f.shard = shard /\ f.part = part)} \cup {o}
      /\ objects' = objects \cup {o}
      /\ UNCHANGED <<mapped, manifest, states, pc, resume, known, shard, rows>>
  BY DEF WritePart
<1>2. o \in Objects
  BY <1>1 DEF StoredInv, Shape, Objects
<1>3. Shape'
  BY <1>1, <1>2, PartAssumption DEF StoredInv, Shape, Parts
<1>4. objects' \subseteq files'
  <2>1. \A x \in objects : ~(x.shard = shard /\ x.part = part)
    BY <1>1 DEF StoredInv, WritesUnlisted, Shape
  <2> QED BY <1>1, <2>1 DEF StoredInv, Collected
<1>5. \A s \in Shards : states[s] \subseteq files'
  <2> SUFFICES ASSUME NEW s \in Shards, NEW x \in states[s] PROVE x \in files'
    OBVIOUS
  <2>1. x \in files /\ x.shard = s /\ s # shard
    BY <1>1 DEF StoredInv, ListedIsStored, OwnFiles, WritesUnlisted
  <2> QED BY <1>1, <2>1
<1>6. \A f, g \in files' : f.shard = g.shard /\ f.part = g.part => f = g
  <2>1. \A f, g \in files : f.shard = g.shard /\ f.part = g.part => f = g
    BY DEF StoredInv, ListedIsStored
  <2> QED BY <1>1, <2>1
<1>7. ListedIsStored'
  BY <1>1, <1>5, <1>6 DEF StoredInv, WritesUnlisted, ListedIsStored
<1>8. OwnFiles' /\ NothingBefore'
  BY <1>1 DEF StoredInv, OwnFiles, NothingBefore
<1>9. objects \subseteq Objects /\ shard \in Nat /\ part \in Nat
  BY DEF StoredInv, Shape
<1>10. WritesUnlisted'
  BY <1>1, <1>9 DEF StoredInv, WritesUnlisted, Objects, Parts
<1>11. Collected'
  BY <1>1, <1>4, <1>9 DEF StoredInv, Collected, Objects, Shards
<1> QED
  BY <1>3, <1>7, <1>8, <1>10, <1>11 DEF StoredInv

(* The state file of a shard names its own parts, all of them written.       *)
LEMMA StateStored == StoredInv /\ WriteState => StoredInv'
<1> SUFFICES ASSUME StoredInv, WriteState PROVE StoredInv'
  OBVIOUS
<1> DEFINE own == {o \in objects : o.shard = shard}
<1>1. /\ pc = "write" /\ pc' = "shard" /\ shard' = shard + 1
      /\ states' = [states EXCEPT ![shard] = own]
      /\ rows' = {} /\ part' = 0
      /\ UNCHANGED <<mapped, manifest, files, resume, known, objects>>
  BY DEF WriteState
<1>2. shard \in Shards /\ states \in [Shards -> SUBSET Objects] /\ own \subseteq Objects
  BY <1>1 DEF StoredInv, Shape
<1>3. Shape'
  BY <1>1, <1>2 DEF StoredInv, Shape
<1>4. \A s \in Shards : states'[s] = IF s = shard THEN own ELSE states[s]
  BY <1>1, <1>2
<1>5. own \subseteq files
  BY DEF StoredInv, Collected
<1>6. ListedIsStored' /\ OwnFiles'
  BY <1>1, <1>4, <1>5 DEF StoredInv, ListedIsStored, OwnFiles
<1>7. NothingBefore'
  <2>1. manifest.status # "ABSENT"
    BY <1>1 DEF StoredInv, NothingBefore
  <2>2. ~resume => \A s \in Shards : s >= shard + 1 => states'[s] = {}
    BY <1>1, <1>2, <1>4 DEF StoredInv, NothingBefore, Shards
  <2> QED BY <1>1, <2>1, <2>2 DEF NothingBefore
<1>8. objects \subseteq Objects /\ shard \in Nat
  BY DEF StoredInv, Shape
<1>9. WritesUnlisted' /\ Collected'
  BY <1>1, <1>8 DEF StoredInv, WritesUnlisted, Collected, Objects, Shards
<1> QED
  BY <1>3, <1>6, <1>7, <1>9 DEF StoredInv

(* The manifest lists what the call collected.                               *)
LEMMA FinishStored == StoredInv /\ Finish => StoredInv'
<1> SUFFICES ASSUME StoredInv, Finish PROVE StoredInv'
  OBVIOUS
<1>1. /\ manifest'.objects = objects /\ manifest'.status \in {"AVAILABLE", "QUARANTINED"}
      /\ pc' = "idle" /\ resume' = FALSE /\ known' = {} /\ objects' = {}
      /\ shard' = 0 /\ rows' = {} /\ part' = 0
      /\ UNCHANGED <<mapped, states, files>>
  BY DEF Finish, End
<1>2. ListedIsStored'
  BY <1>1 DEF StoredInv, Collected, ListedIsStored
<1> QED
  BY <1>1, <1>2
  DEF StoredInv, Shape, OwnFiles, WritesUnlisted, NothingBefore, Collected

(* A death loses the locals and leaves every file.                           *)
LEMMA DiesStored == StoredInv /\ Dies => StoredInv'
<1> SUFFICES ASSUME StoredInv, Dies PROVE StoredInv'
  OBVIOUS
<1>1. /\ pc # "idle"
      /\ pc' = "idle" /\ resume' = FALSE /\ known' = {} /\ objects' = {}
      /\ shard' = 0 /\ rows' = {} /\ part' = 0
      /\ UNCHANGED <<mapped, manifest, states, files>>
  BY DEF Dies, End
<1>2. ListedIsStored'
  BY <1>1 DEF StoredInv, ListedIsStored
<1> QED
  BY <1>1, <1>2
  DEF StoredInv, Shape, OwnFiles, WritesUnlisted, NothingBefore, Collected

(* Every step keeps what is listed stored.                                   *)
LEMMA StepStored == StoredInv /\ [Next]_vars => StoredInv'
<1> SUFFICES ASSUME StoredInv, [Next]_vars PROVE StoredInv'
  OBVIOUS
<1>1. ASSUME NEW s \in Sources, CompleteMap(s) PROVE StoredInv'
  BY <1>1 DEF CompleteMap, locals, StoredInv, Shape, OwnFiles, WritesUnlisted,
              NothingBefore, Collected, ListedIsStored
<1>2. CASE UNCHANGED vars
  BY <1>2 DEF vars, locals, StoredInv, Shape, OwnFiles, WritesUnlisted,
              NothingBefore, Collected, ListedIsStored
<1> QED
  BY <1>1, <1>2, BeginStored, TakeOverStored, ReadStored, WriteStored, StateStored,
     FinishStored, DiesStored
  DEF Next, Command, Step

-----------------------------------------------------------------------------
(* No manifest lists anything at first.                                      *)
LEMMA InitBuild == Init => BuildInv
  BY DEF Init, BuildInv, NoManifest

(* Parts join the build in progress with its rows; the state file takes the  *)
(* whole of it, and the manifest whole shards only.                          *)
LEMMA StepBuild == StoredInv /\ StoredInv' /\ BuildInv /\ [Next]_vars => BuildInv'
<1> SUFFICES ASSUME StoredInv, StoredInv', BuildInv, [Next]_vars PROVE BuildInv'
  OBVIOUS
<1>0. /\ objects \subseteq Objects /\ shard \in Nat /\ part \in Nat
      /\ states \in [Shards -> SUBSET Objects] /\ Objects \subseteq [shard : Nat, part : Nat, rows : SUBSET Sources]
  BY DEF StoredInv, Shape, Objects, Shards, Parts
<1>1. ASSUME NEW s \in Sources, CompleteMap(s) PROVE BuildInv'
  BY <1>1 DEF CompleteMap, locals, BuildInv, Whole
<1>2. ASSUME NEW again \in ResumeFlags, Begin(again) PROVE BuildInv'
  <2>1. /\ manifest'.objects = {} /\ pc' = "shard" /\ objects = {}
        /\ UNCHANGED <<states, objects>>
    BY <1>2 DEF Begin, NoManifest, StoredInv, Collected
  <2> QED BY <2>1 DEF BuildInv, Whole
<1>3. CASE TakeOver
  <2>1. /\ pc = "shard" /\ pc' = "shard" /\ shard \in Shards /\ shard' = shard + 1
        /\ objects' = objects \cup states[shard]
        /\ UNCHANGED <<manifest, states>>
    BY <1>3 DEF TakeOver
  <2>2. \A a \in objects : a.shard < shard /\ Whole(objects, a)
    BY <2>1 DEF StoredInv, Collected, BuildInv
  <2>3. \A a \in states[shard] : a.shard = shard /\ Whole(states[shard], a)
    BY <2>1 DEF StoredInv, OwnFiles, BuildInv
  <2>4. ASSUME NEW a \in objects' PROVE Whole(objects', a)
    <3>1. CASE a \in objects
      BY <2>1, <2>2, <2>3, <3>1, <1>0 DEF Whole
    <3>2. CASE a \in states[shard]
      BY <2>1, <2>2, <2>3, <3>2, <1>0 DEF Whole
    <3> QED BY <2>1, <3>1, <3>2
  <2> QED BY <2>1, <2>4 DEF BuildInv, Whole
<1>4. CASE ReadShard
  <2>1. /\ pc = "shard" /\ UNCHANGED <<manifest, states, objects>>
        /\ \/ shard' = shard + 1 /\ pc' = "shard"
           \/ pc' = "write" /\ part' = 1 /\ UNCHANGED shard
    BY <1>4 DEF ReadShard
  <2>2. \A a \in objects : a.shard < shard /\ Whole(objects, a)
    BY <2>1 DEF StoredInv, Collected, BuildInv
  <2>3. \A a \in objects : a.shard # shard
    BY <2>2, <1>0
  <2> QED BY <2>1, <2>2, <2>3 DEF BuildInv, Whole
<1>5. CASE WritePart
  <2> DEFINE o == [shard |-> shard, part |-> part, rows |-> rows]
  <2>1. /\ pc = "write" /\ pc' = "write" /\ part' = part + 1
        /\ objects' = objects \cup {o}
        /\ UNCHANGED <<manifest, states, shard, rows>>
    BY <1>5 DEF WritePart
  <2>2. ASSUME NEW a \in objects', a.shard < shard PROVE Whole(objects', a)
    <3>1. a \in objects /\ o.shard = shard
      BY <2>1, <2>2, <1>0
    <3> QED BY <2>1, <2>2, <3>1, <1>0 DEF BuildInv, Whole
  <2>3. \A a \in objects' : a.shard = shard => a.rows = rows
    BY <2>1 DEF BuildInv
  <2>4. \E c \in objects' : c.shard = shard /\ c.part = part' - 1
    <3>1. o \in objects' /\ o.shard = shard /\ o.part = part
      BY <2>1
    <3>2. part' - 1 = part
      BY <2>1, <1>0
    <3> QED BY <3>1, <3>2
  <2> QED BY <2>1, <2>2, <2>3, <2>4 DEF BuildInv, Whole
<1>6. CASE WriteState
  <2> DEFINE own == {x \in objects : x.shard = shard}
  <2>1. /\ pc = "write" /\ pc' = "shard" /\ shard' = shard + 1 /\ part \notin Parts
        /\ states' = [states EXCEPT ![shard] = own]
        /\ UNCHANGED <<manifest, objects>>
    BY <1>6 DEF WriteState
  <2>2. part = PartCount + 1 /\ part > 1 /\ PartCount \in Nat /\ shard \in Shards
    BY <2>1, <1>0, PartAssumption DEF StoredInv, Shape, Parts
  <2>3. PICK c \in objects : c.shard = shard /\ c.part = PartCount
    BY <2>1, <2>2 DEF BuildInv
  <2>4. \A a \in own : a.rows = rows /\ Whole(own, a) /\ Whole(objects, a)
    BY <2>1, <2>3 DEF BuildInv, Whole
  <2>5. \A s \in Shards : \A a \in states'[s] : Whole(states'[s], a)
    <3> SUFFICES ASSUME NEW s \in Shards, NEW a \in states'[s] PROVE Whole(states'[s], a)
      OBVIOUS
    <3>1. states'[s] = IF s = shard THEN own ELSE states[s]
      BY <2>1, <1>0
    <3> QED BY <3>1, <2>4 DEF BuildInv
  <2>6. \A a \in objects : Whole(objects, a)
    <3>1. \A a \in objects : a.shard < shard \/ a \in own
      BY <2>1, <1>0 DEF StoredInv, Collected
    <3> QED BY <3>1, <2>4 DEF BuildInv
  <2> QED BY <2>1, <2>5, <2>6 DEF BuildInv, Whole
<1>7. CASE Finish
  <2>1. /\ manifest'.objects = objects /\ pc = "shard" /\ pc' = "idle" /\ objects' = {}
        /\ UNCHANGED states
    BY <1>7 DEF Finish, End
  <2>2. \A a \in objects : Whole(objects, a)
    BY <2>1 DEF StoredInv, Collected, BuildInv
  <2> QED BY <2>1, <2>2 DEF BuildInv, Whole
<1>8. CASE Dies
  BY <1>8 DEF Dies, End, BuildInv, Whole
<1>9. CASE UNCHANGED vars
  BY <1>9 DEF vars, locals, BuildInv, Whole
<1> QED
  BY <1>1, <1>2, <1>3, <1>4, <1>5, <1>6, <1>7, <1>8, <1>9 DEF Next, Command, Step

-----------------------------------------------------------------------------
(* What a state file or the manifest lists is on disk, whatever died or      *)
(* failed in whichever attempt (build_manifest_year).                        *)
THEOREM AlwaysListed == Spec => []ListedIsStored
<1>1. StoredInv => ListedIsStored
  BY DEF StoredInv
<1> QED
  BY <1>1, InitStored, StepStored, PTL DEF Spec

(* However many attempts a manifest took, the parts of a shard in it come    *)
(* from one build of the shard and reach to its last part.                   *)
THEOREM AlwaysOneBuild == Spec => []OneBuildPerShard
<1>1. BuildInv => OneBuildPerShard
  BY DEF BuildInv, Whole, OneBuildPerShard
<1> QED
  BY <1>1, InitStored, StepStored, InitBuild, StepBuild, PTL DEF Spec

(* The types that StoredInv does not tell: the counters, the failures and    *)
(* how far the call may get.                                                *)
LEMMA InitManifestTyped == Init => TypeOK
<1> SUFFICES ASSUME Init PROVE TypeOK
  OBVIOUS
<1>1. resume \in BOOLEAN
  BY Zenon DEF Init
<1>2. /\ mapped = FirstMapped /\ manifest = NoManifest
      /\ states = [s \in Shards |-> {}] /\ files = {}
      /\ readFailures = 0 /\ crashes = 0 /\ pc = "idle"
      /\ known = {} /\ failures = {} /\ objects = {} /\ shard = 0 /\ rows = {} /\ part = 0
  BY Zenon DEF Init
<1> QED
  BY <1>1, <1>2, ShardAssumption, PartAssumption, MapAssumption, BoundAssumption
  DEF NoManifest, TypeOK

(* Each step keeps the types; a call adds objects of its own, or those of a   *)
(* state file.                                                              *)
LEMMA StepManifestTyped ==
  IsFiniteSet(Sources) /\ StoredInv /\ TypeOK /\ [Next]_vars => TypeOK'
<1> SUFFICES ASSUME IsFiniteSet(Sources), StoredInv, TypeOK, [Next]_vars PROVE TypeOK'
  OBVIOUS
<1> USE ShardAssumption, PartAssumption, MapAssumption, BoundAssumption, FlagAssumption
    DEF TypeOK, bounds, locals
<1>0. ASSUME End
      PROVE  /\ pc' = "idle" /\ resume' \in BOOLEAN /\ known' = {} /\ failures' = {}
             /\ objects' = {} /\ shard' = 0 /\ rows' = {} /\ part' = 0
  BY <1>0, Zenon DEF End
<1>1. ASSUME NEW s \in Sources, CompleteMap(s) PROVE TypeOK'
  BY <1>1 DEF CompleteMap
<1>2. ASSUME NEW again \in ResumeFlags, Begin(again) PROVE TypeOK'
  <2>1. {<<"UNMAPPED", s>> : s \in Sources \ mapped} \subseteq Failures
    BY DEF Failures
  <2>2. 1 \in 0..(ShardCount + 1)
    OBVIOUS
  <2> QED BY <1>2, <2>1, <2>2 DEF Begin, NoManifest
<1>3. CASE TakeOver
  BY <1>3 DEF TakeOver, Shards
<1>4. CASE ReadShard
  <2>1. PICK bad \in SUBSET {s \in known : ShardOf[s] = shard}, rejected \in BOOLEAN :
          LET tables == {s \in known : ShardOf[s] = shard} \ bad
              count == Cardinality(bad) + (IF rejected THEN 1 ELSE 0)
          IN
          /\ readFailures + count <= MaxReadFailures
          /\ readFailures' = readFailures + count
          /\ failures' = failures
                 \cup {<<"TRANSFORM", s>> : s \in bad}
                 \cup (IF rejected THEN {<<"QUALITY", shard>>} ELSE {})
          /\ IF tables = {} \/ rejected
             THEN shard' = shard + 1 /\ UNCHANGED <<pc, rows, part>>
             ELSE pc' = "write" /\ rows' = tables /\ part' = 1 /\ UNCHANGED shard
    BY <1>4 DEF ReadShard
  <2>2. /\ shard \in Shards
        /\ UNCHANGED <<mapped, manifest, states, files, crashes, resume, known, objects>>
    BY <1>4 DEF ReadShard
  <2>3. Cardinality(bad) \in Nat
    BY FS_Subset, FS_CardinalityType
  <2>4. readFailures' \in 0..MaxReadFailures
    <3>1. CASE rejected
      BY <3>1, <2>1, <2>3
    <3>2. CASE ~rejected
      BY <3>2, <2>1, <2>3
    <3> QED BY <3>1, <3>2
  <2>5. failures' \subseteq Failures
    BY <2>1, <2>2 DEF Failures
  <2>6. /\ shard' \in 0..(ShardCount + 1) /\ pc' \in {"idle", "shard", "write"}
        /\ rows' \subseteq Sources /\ part' \in 0..(PartCount + 1)
    BY <2>1, <2>2 DEF Shards
  <2> QED BY <2>2, <2>4, <2>5, <2>6
<1>5. CASE WritePart
  <2>1. [shard |-> shard, part |-> part, rows |-> rows] \in Objects
    BY <1>5 DEF WritePart, StoredInv, Shape, Objects
  <2> QED BY <1>5, <2>1 DEF WritePart, Parts
<1>6. CASE WriteState
  <2>1. shard \in Shards
    BY <1>6 DEF WriteState, StoredInv, Shape
  <2>2. states' \in [Shards -> SUBSET Objects]
    BY <1>6, <2>1 DEF WriteState
  <2> QED BY <1>6, <2>1, <2>2 DEF WriteState, Shards
<1>7. CASE Finish
  BY <1>0, <1>7 DEF Finish
<1>8. CASE Dies
  BY <1>0, <1>8 DEF Dies
<1>9. CASE UNCHANGED vars
  BY <1>9 DEF vars
<1> QED
  BY <1>1, <1>2, <1>3, <1>4, <1>5, <1>6, <1>7, <1>8, <1>9 DEF Next, Command, Step

(* The type invariant of the build (build_manifest_year), for finitely many   *)
(* source files.                                                            *)
THEOREM ManifestAlwaysTyped == ASSUME IsFiniteSet(Sources) PROVE Spec => []TypeOK
<1>1. StoredInv /\ TypeOK /\ [Next]_vars => StoredInv' /\ TypeOK'
  BY StepStored, StepManifestTyped
<1> QED
  BY <1>1, InitStored, InitManifestTyped, PTL DEF Spec

-----------------------------------------------------------------------------
(* While no source failed to be read, the objects of a shard that is done     *)
(* hold in every part every source of the shard that was mapped from the     *)
(* start; and a call that has noted no failure knows all sources.            *)
HasAll(os, sh, p) ==
    \A s \in FirstMapped : ShardOf[s] = sh =>
        \E o \in os : o.shard = sh /\ o.part = p /\ s \in o.rows

KnowsMapped ==
    /\ FirstMapped \subseteq mapped
    /\ pc # "idle" => /\ FirstMapped \subseteq known /\ known \subseteq mapped
                      /\ \A s \in Sources \ known : <<"UNMAPPED", s>> \in failures
    /\ readFailures \in Nat

DoneHasAll ==
    readFailures = 0 =>
        /\ \A s \in Shards, p \in Parts : states[s] # {} => HasAll(states[s], s, p)
        /\ pc # "idle" => \A s \in Shards, p \in Parts : s < shard => HasAll(objects, s, p)
        /\ pc = "write" =>
              /\ \A s \in FirstMapped : ShardOf[s] = shard => s \in rows
              /\ \A p \in Parts : p < part => HasAll(objects, shard, p)

AvailableHasAll ==
    manifest.status = "AVAILABLE" =>
        /\ mapped = Sources
        /\ readFailures = 0 => \A s \in Shards, p \in Parts : HasAll(manifest.objects, s, p)

CompleteInv == KnowsMapped /\ DoneHasAll /\ AvailableHasAll

(* More objects never lack a source.                                         *)
LEMMA MoreHasAll ==
  ASSUME NEW os, NEW more, os \subseteq more, NEW s, NEW p, HasAll(os, s, p)
  PROVE  HasAll(more, s, p)
  BY DEF HasAll

(* Nothing is done at first.                                                 *)
LEMMA InitComplete == Init => CompleteInv
  BY MapAssumption DEF Init, NoManifest, CompleteInv, KnowsMapped, DoneHasAll, AvailableHasAll

(* A shard is done whole, or a source of it failed and is counted.           *)
LEMMA StepComplete ==
  ASSUME IsFiniteSet(Sources), StoredInv, StoredInv', CompleteInv, [Next]_vars
  PROVE  CompleteInv'
<1> /\ KnowsMapped /\ DoneHasAll /\ AvailableHasAll
  BY DEF CompleteInv
<1>0. /\ objects \subseteq Objects /\ shard \in Nat /\ part \in Nat
      /\ states \in [Shards -> SUBSET Objects] /\ mapped \subseteq Sources
      /\ Shards \subseteq Nat /\ Parts \subseteq Nat
  BY DEF StoredInv, Shape, Objects, Shards, Parts
<1>1. ASSUME NEW s \in Sources, CompleteMap(s) PROVE CompleteInv'
  BY <1>1, <1>0 DEF CompleteMap, locals, bounds, CompleteInv, KnowsMapped, DoneHasAll, AvailableHasAll
<1>2. ASSUME NEW again \in ResumeFlags, Begin(again) PROVE CompleteInv'
  <2>1. /\ manifest'.status = "BUILDING" /\ pc = "idle" /\ pc' = "shard" /\ known' = mapped
        /\ failures' = {<<"UNMAPPED", s>> : s \in Sources \ mapped} /\ shard' = 1
        /\ UNCHANGED <<mapped, states, objects, readFailures>>
    BY <1>2 DEF Begin, NoManifest, bounds
  <2>2. KnowsMapped'
    BY <2>1 DEF KnowsMapped
  <2>3. DoneHasAll'
    BY <2>1 DEF DoneHasAll, Shards
  <2> QED BY <2>1, <2>2, <2>3 DEF CompleteInv, AvailableHasAll
<1>3. CASE TakeOver
  <2>1. /\ pc = "shard" /\ pc' = "shard" /\ shard \in Shards /\ shard' = shard + 1
        /\ objects' = objects \cup states[shard] /\ states[shard] # {}
        /\ UNCHANGED <<mapped, manifest, states, known, failures, readFailures>>
    BY <1>3 DEF TakeOver, Complete, bounds
  <2>2. KnowsMapped' /\ AvailableHasAll'
    BY <2>1 DEF KnowsMapped, AvailableHasAll
  <2>3. ASSUME readFailures = 0, NEW s \in Shards, NEW p \in Parts, s < shard'
        PROVE  HasAll(objects', s, p)
    <3>1. CASE s = shard
      BY <2>1, <2>3, <3>1, MoreHasAll DEF DoneHasAll
    <3>2. CASE s # shard
      <4>1. s < shard
        BY <2>1, <2>3, <3>2, <1>0
      <4> QED BY <2>1, <2>3, <4>1, MoreHasAll DEF DoneHasAll
    <3> QED BY <3>1, <3>2
  <2>4. DoneHasAll'
    BY <2>1, <2>3 DEF DoneHasAll
  <2> QED BY <2>2, <2>4 DEF CompleteInv
<1>4. CASE ReadShard
  <2>1. PICK bad \in SUBSET {s \in known : ShardOf[s] = shard}, rejected \in BOOLEAN :
            /\ readFailures' = readFailures + (Cardinality(bad) + (IF rejected THEN 1 ELSE 0))
            /\ failures \subseteq failures'
            /\ LET tables == {s \in known : ShardOf[s] = shard} \ bad
               IN IF tables = {} \/ rejected
                  THEN shard' = shard + 1 /\ UNCHANGED <<pc, rows, part>>
                  ELSE pc' = "write" /\ rows' = tables /\ part' = 1 /\ UNCHANGED shard
    BY <1>4 DEF ReadShard
  <2>2. /\ pc = "shard" /\ shard \in Shards
        /\ UNCHANGED <<mapped, manifest, states, known, objects>>
    BY <1>4 DEF ReadShard
  <2>3. IsFiniteSet(bad) /\ Cardinality(bad) \in Nat
    <3>1. bad \subseteq Sources
      BY <2>1 DEF StoredInv, Shape
    <3> QED BY <3>1, FS_Subset, FS_CardinalityType
  <2>4. readFailures' \in Nat /\ (readFailures' = 0 => readFailures = 0 /\ bad = {} /\ ~rejected)
    <3>1. Cardinality(bad) = 0 => bad = {}
      BY <2>3, FS_EmptySet
    <3> QED BY <2>1, <2>3, <3>1 DEF KnowsMapped
  <2>5. KnowsMapped'
    BY <2>1, <2>2, <2>4 DEF KnowsMapped
  <2>6. AvailableHasAll'
    BY <2>2, <2>4 DEF AvailableHasAll
  <2>7. DoneHasAll'
    <3> SUFFICES ASSUME readFailures' = 0 PROVE DoneHasAll'
      BY DEF DoneHasAll
    <3>1. readFailures = 0 /\ bad = {} /\ ~rejected
      BY <2>4
    <3> DEFINE tables == {s \in known : ShardOf[s] = shard}
    <3>2. \A s \in FirstMapped : ShardOf[s] = shard => s \in tables
      BY <2>2 DEF KnowsMapped
    <3>3. CASE tables = {}
      <4>1. shard' = shard + 1 /\ pc' = "shard"
        BY <2>1, <2>2, <3>1, <3>3
      <4>2. \A p \in Parts : HasAll(objects, shard, p)
        BY <3>2, <3>3 DEF HasAll
      <4>3. \A s \in Shards : s < shard' => s < shard \/ s = shard
        BY <4>1, <1>0
      <4> QED BY <2>2, <3>1, <4>1, <4>2, <4>3 DEF DoneHasAll
    <3>4. CASE tables # {}
      <4>1. pc' = "write" /\ rows' = tables /\ part' = 1 /\ UNCHANGED shard
        BY <2>1, <3>1, <3>4
      <4>2. \A p \in Parts : ~(p < part')
        BY <4>1 DEF Parts
      <4>3. \A s \in Shards, p \in Parts : states[s] # {} => HasAll(states[s], s, p)
        BY <3>1 DEF DoneHasAll
      <4>4. \A s \in Shards, p \in Parts : s < shard => HasAll(objects, s, p)
        BY <2>2, <3>1 DEF DoneHasAll
      <4> HIDE DEF tables
      <4> QED BY <2>2, <3>2, <4>1, <4>2, <4>3, <4>4 DEF DoneHasAll
    <3> QED BY <3>3, <3>4
  <2> QED BY <2>5, <2>6, <2>7 DEF CompleteInv
<1>5. CASE WritePart
  <2> DEFINE o == [shard |-> shard, part |-> part, rows |-> rows]
  <2>1. /\ pc = "write" /\ pc' = "write" /\ part' = part + 1
        /\ objects' = objects \cup {o}
        /\ UNCHANGED <<mapped, manifest, states, shard, rows, known, failures, readFailures>>
    BY <1>5 DEF WritePart, bounds
  <2>2. KnowsMapped' /\ AvailableHasAll'
    BY <2>1 DEF KnowsMapped, AvailableHasAll
  <2>3. ASSUME readFailures = 0, NEW p \in Parts, p < part' PROVE HasAll(objects', shard, p)
    <3>1. CASE p < part
      <4>1. HasAll(objects, shard, p)
        BY <2>1, <2>3, <3>1 DEF DoneHasAll
      <4> QED BY <2>1, <4>1 DEF HasAll
    <3>2. CASE p = part
      <4>1. \A s \in FirstMapped : ShardOf[s] = shard => s \in rows
        BY <2>1, <2>3 DEF DoneHasAll
      <4>2. o \in objects' /\ o.shard = shard /\ o.part = p /\ o.rows = rows
        BY <2>1, <3>2
      <4> QED BY <4>1, <4>2 DEF HasAll
    <3> QED BY <2>1, <2>3, <3>1, <3>2, <1>0
  <2>4. ASSUME readFailures = 0, NEW s \in Shards, NEW p \in Parts, s < shard
        PROVE  HasAll(objects', s, p)
    BY <2>1, <2>4, MoreHasAll DEF DoneHasAll
  <2>5. DoneHasAll'
    BY <2>1, <2>3, <2>4 DEF DoneHasAll
  <2> QED BY <2>2, <2>5 DEF CompleteInv
<1>6. CASE WriteState
  <2> DEFINE own == {x \in objects : x.shard = shard}
  <2>1. /\ pc = "write" /\ pc' = "shard" /\ shard' = shard + 1 /\ part \notin Parts
        /\ states' = [states EXCEPT ![shard] = own]
        /\ UNCHANGED <<mapped, manifest, objects, known, failures, readFailures>>
    BY <1>6 DEF WriteState, bounds
  <2>2. part = PartCount + 1 /\ PartCount \in Nat /\ shard \in Shards
    BY <2>1, <1>0, PartAssumption DEF StoredInv, Shape, Parts
  <2>3. KnowsMapped' /\ AvailableHasAll'
    BY <2>1 DEF KnowsMapped, AvailableHasAll
  <2>4. ASSUME readFailures = 0, NEW p \in Parts
        PROVE  HasAll(objects, shard, p) /\ HasAll(own, shard, p)
    <3>1. p < part
      BY <2>2 DEF Parts
    <3>2. HasAll(objects, shard, p)
      BY <2>1, <2>4, <3>1 DEF DoneHasAll
    <3> QED BY <3>2 DEF HasAll
  <2>5. \A s \in Shards : states'[s] = IF s = shard THEN own ELSE states[s]
    BY <2>1, <1>0
  <2>6. \A s \in Shards : s < shard' => s < shard \/ s = shard
    BY <2>1, <1>0
  <2> HIDE DEF own
  <2>7. DoneHasAll'
    BY <2>1, <2>4, <2>5, <2>6 DEF DoneHasAll
  <2> QED BY <2>3, <2>7 DEF CompleteInv
<1>7. CASE Finish
  <2>1. /\ manifest'.objects = objects /\ pc = "shard" /\ pc' = "idle" /\ shard \notin Shards
        /\ manifest'.status = "AVAILABLE" => failures = {}
        /\ UNCHANGED <<mapped, states, readFailures>>
    BY <1>7 DEF Finish, End, bounds
  <2>2. KnowsMapped'
    BY <2>1 DEF KnowsMapped
  <2>3. DoneHasAll'
    BY <2>1 DEF DoneHasAll
  <2>4. shard > 0 => \A s \in Shards : s < shard
    BY <2>1, <1>0, ShardAssumption DEF Shards
  <2>5. shard > 0
    BY <2>1 DEF StoredInv, Shape
  <2>6. AvailableHasAll'
    <3> SUFFICES ASSUME manifest'.status = "AVAILABLE"
                 PROVE  /\ mapped = Sources
                        /\ readFailures = 0 => \A s \in Shards, p \in Parts : HasAll(objects, s, p)
      BY <2>1 DEF AvailableHasAll
    <3>1. Sources \subseteq known /\ known \subseteq mapped
      BY <2>1 DEF KnowsMapped
    <3>2. mapped = Sources
      BY <3>1, <1>0
    <3> QED BY <2>1, <2>4, <2>5, <3>2 DEF DoneHasAll
  <2> QED BY <2>2, <2>3, <2>6 DEF CompleteInv
<1>8. CASE Dies
  BY <1>8 DEF Dies, End, CompleteInv, KnowsMapped, DoneHasAll, AvailableHasAll
<1>9. CASE UNCHANGED vars
  BY <1>9 DEF vars, locals, bounds, CompleteInv, KnowsMapped, DoneHasAll, AvailableHasAll
<1> QED
  BY <1>1, <1>2, <1>3, <1>4, <1>5, <1>6, <1>7, <1>8, <1>9 DEF Next, Command, Step

(* Whatever was resumed and taken over, an AVAILABLE manifest was built from  *)
(* a complete instrument map and lacks only sources that failed once         *)
(* (build_manifest_year).                                                   *)
THEOREM OnlyFailuresMissing == ASSUME IsFiniteSet(Sources) PROVE Spec => []OnlyFailedAreMissing
<1>1. CompleteInv => OnlyFailedAreMissing
  <2> SUFFICES ASSUME CompleteInv, manifest.status = "AVAILABLE", readFailures = 0,
                      NEW s \in FirstMapped, NEW p \in Parts
               PROVE  \E o \in manifest.objects :
                          o.shard = ShardOf[s] /\ o.part = p /\ s \in o.rows
    BY DEF CompleteInv, AvailableHasAll, OnlyFailedAreMissing
  <2>1. ShardOf[s] \in Shards
    BY MapAssumption, ShardAssumption
  <2> QED BY <2>1 DEF CompleteInv, AvailableHasAll, HasAll
<1>2. Init => StoredInv /\ CompleteInv
  BY InitStored, InitComplete
<1>3. StoredInv /\ CompleteInv /\ [Next]_vars => StoredInv' /\ CompleteInv'
  BY StepStored, StepComplete
<1> QED
  BY <1>1, <1>2, <1>3, PTL DEF Spec

-----------------------------------------------------------------------------
(* The upload: what the call in progress may hold.  completed is uploaded,   *)
(* the objects before next are completed, and the object at hand is uploaded *)
(* before the state file is written.                                        *)
CallIsUploaded ==
    /\ completed \subseteq bucket
    /\ uploading # "idle" => next > 0 /\ \A o \in PlanObjects : o < next => o \in completed
    /\ uploading = "state" => next \in PlanObjects \cap bucket /\ next \notin completed

UploadInv == UploadTypeOK /\ PlanIsUploaded /\ CallIsUploaded

(* The first plan names local files only.                                    *)
LEMMA InitUploaded == UploadInit => UploadInv
<1> SUFFICES ASSUME UploadInit PROVE UploadInv
  OBVIOUS
<1>1. UploadTypeOK
  <2>1. torn \in BOOLEAN /\ owed \in BOOLEAN /\ restarted \in BOOLEAN
    BY Zenon DEF UploadInit
  <2>2. /\ plan = {} /\ stated = {} /\ bucket = {} /\ completed = {}
        /\ uploadFailures = 0 /\ tears = 0 /\ next = 0 /\ uploading = "idle"
    BY Zenon DEF UploadInit
  <2> QED
    BY <2>1, <2>2, CountAssumption, UploadBoundAssumption DEF UploadTypeOK
<1> QED BY <1>1 DEF UploadInit, UploadInv, PlanIsUploaded, CallIsUploaded

(* A call that begins takes completed from the state file, or starts with    *)
(* nothing.                                                                 *)
LEMMA BeginUploaded ==
  ASSUME NEW again \in UploadFlags, UploadInv, BeginUpload(again) PROVE UploadInv'
<1> USE DEF UploadInv, UploadTypeOK, PlanIsUploaded, CallIsUploaded, stored, uploadBounds
<1>1. CASE torn \/ ~AllFound
  BY <1>1 DEF BeginUpload, uploadLocals
<1>2. CASE ~torn /\ AllFound
  <2>1. /\ completed' = IF again THEN stated ELSE {}
        /\ restarted' \in BOOLEAN /\ owed' \in BOOLEAN
        /\ next' = 1 /\ uploading' = "upload"
        /\ UNCHANGED <<stored, uploadBounds>>
    BY <1>2 DEF BeginUpload
  <2> QED BY <2>1, CountAssumption DEF PlanObjects
<1> QED BY <1>1, <1>2

(* Each step keeps the invariant.  FinishUpload may name every object remote  *)
(* because all of them are before next.                                     *)
LEMMA StepUploaded == UploadInv /\ [UploadNext]_uploadVars => UploadInv'
<1> SUFFICES ASSUME UploadInv, [UploadNext]_uploadVars PROVE UploadInv'
  OBVIOUS
<1> USE CountAssumption, UploadBoundAssumption
    DEF UploadInv, UploadTypeOK, PlanIsUploaded, CallIsUploaded,
        stored, uploadBounds, uploadLocals
<1>1. CASE Replan
  BY <1>1 DEF Replan
<1>2. CASE UploadCommand
  BY <1>2, BeginUploaded DEF UploadCommand
<1>3. CASE SkipCompleted
  BY <1>3 DEF SkipCompleted, PlanObjects
<1>4. CASE Upload
  BY <1>4 DEF Upload, PlanObjects
<1>5. CASE WriteUploadState
  BY <1>5 DEF WriteUploadState, PlanObjects
<1>6. CASE FinishUpload
  <2>1. \A o \in PlanObjects : o < next
    BY <1>6 DEF FinishUpload, PlanObjects
  <2>2. PlanObjects \subseteq bucket
    BY <1>6, <2>1 DEF FinishUpload
  <2>3. /\ plan' = PlanObjects /\ owed' = FALSE
        /\ uploading' = "idle" /\ completed' = {} /\ next' = 0
        /\ UNCHANGED <<restarted, stated, torn, bucket, uploadFailures, tears>>
    BY <1>6 DEF FinishUpload, EndUpload
  <2>4. 0 \in 0..(ObjectCount + 1)
    OBVIOUS
  <2> QED BY <2>2, <2>3, <2>4
<1>7. CASE Fails
  BY <1>7 DEF Fails, Fail, EndUpload
<1>8. CASE DiesWriting
  BY <1>8 DEF DiesWriting, Fail, EndUpload
<1>9. CASE UNCHANGED uploadVars
  BY <1>9 DEF uploadVars
<1> QED
  BY <1>1, <1>2, <1>3, <1>4, <1>5, <1>6, <1>7, <1>8, <1>9 DEF UploadNext, UploadStep

(* The type invariant of the upload: next goes one beyond the objects at      *)
(* most (upload_objects of market_data_backfill/remote.py).                  *)
THEOREM UploadAlwaysTyped == UploadSpec => []UploadTypeOK
<1>1. UploadInv => UploadTypeOK
  BY DEF UploadInv
<1> QED
  BY <1>1, InitUploaded, StepUploaded, PTL DEF UploadSpec

(* The plan and the state file never call an object remote that is not in    *)
(* the bucket (upload_objects of market_data_backfill/remote.py).            *)
THEOREM AlwaysUploaded == UploadSpec => []PlanIsUploaded
<1>1. UploadInv => PlanIsUploaded
  BY DEF UploadInv
<1> QED
  BY <1>1, InitUploaded, StepUploaded, PTL DEF UploadSpec

-----------------------------------------------------------------------------
(* A call is not refused: a plan with remote keys was written when the state  *)
(* file listed all of its objects, and a resumed call leaves it like that.   *)
RemoteIsStated ==
    /\ plan \in {{}, PlanObjects}
    /\ uploading # "idle" => ~torn /\ completed \in {{}, stated}
    /\ ~torn /\ ~restarted /\ plan # {} =>
          stated = PlanObjects /\ (uploading # "idle" => completed = PlanObjects)

(* A call that does not find every file ends in FileNotFoundError.           *)
FoundWhenResumed == AllFound \/ torn \/ restarted

(* The first plan is local, and no call has begun.                           *)
LEMMA InitStated == UploadInit => RemoteIsStated
  BY DEF UploadInit, RemoteIsStated

(* Each step keeps the state file complete for a remote plan.  A call that   *)
(* comes to its end has completed every object, so that completed, which     *)
(* holds the first one, is what the state file says.                        *)
LEMMA StepStated ==
  UploadInv /\ RemoteIsStated /\ [UploadNext]_uploadVars => RemoteIsStated'
<1> SUFFICES ASSUME UploadInv, RemoteIsStated, [UploadNext]_uploadVars
             PROVE  RemoteIsStated'
  OBVIOUS
<1> USE DEF RemoteIsStated, stored, uploadLocals
<1>0. UploadTypeOK /\ CallIsUploaded
  BY DEF UploadInv
<1>1. CASE Replan
  BY <1>1 DEF Replan
<1>2. ASSUME NEW again \in UploadFlags, BeginUpload(again) PROVE RemoteIsStated'
  <2>1. CASE torn \/ ~AllFound
    BY <1>2, <2>1 DEF BeginUpload
  <2>2. CASE ~torn /\ AllFound
    <3>1. /\ completed' = IF again THEN stated ELSE {}
          /\ restarted' = (restarted \/ (~again /\ plan # {}))
          /\ uploading' = "upload" /\ UNCHANGED <<plan, stated, torn>>
      BY <1>2, <2>2 DEF BeginUpload
    <3> QED BY <3>1, <2>2
  <2> QED BY <2>1, <2>2
<1>3. CASE SkipCompleted
  BY <1>3 DEF SkipCompleted
<1>4. CASE Upload
  BY <1>4 DEF Upload
<1>5. CASE WriteUploadState
  <2>1. next \in PlanObjects /\ next \notin completed /\ ~torn
    BY <1>0, <1>5 DEF WriteUploadState, CallIsUploaded
  <2>2. restarted \/ plan = {}
    BY <2>1, <1>5 DEF WriteUploadState
  <2> QED BY <2>1, <2>2, <1>5 DEF WriteUploadState
<1>6. CASE FinishUpload
  <2>1. next \in Nat /\ next > 0 /\ next \notin PlanObjects
    BY <1>0, <1>6 DEF FinishUpload, UploadTypeOK, CallIsUploaded
  <2>2. \A o \in PlanObjects : o < next
    BY <2>1, CountAssumption DEF PlanObjects
  <2>3. completed = PlanObjects
    BY <2>2, <1>0, <1>6 DEF FinishUpload, UploadTypeOK, CallIsUploaded
  <2>4. PlanObjects # {}
    <3>1. 1 \in PlanObjects
      BY CountAssumption DEF PlanObjects
    <3> QED BY <3>1
  <2>5. stated = PlanObjects
    BY <2>3, <2>4, <1>6 DEF FinishUpload
  <2> QED BY <2>5, <1>6 DEF FinishUpload, EndUpload
<1>7. CASE Fails
  BY <1>7 DEF Fails, EndUpload
<1>8. CASE DiesWriting
  BY <1>8 DEF DiesWriting, EndUpload
<1>9. CASE UNCHANGED uploadVars
  BY <1>9 DEF uploadVars
<1> QED
  BY <1>1, <1>2, <1>3, <1>4, <1>5, <1>6, <1>7, <1>8, <1>9
  DEF UploadNext, UploadCommand, UploadStep

(* Whatever died or failed before, an upload is refused only after the state  *)
(* file was torn, or after an upload of a finished plan was begun without    *)
(* --resume: the safety half of ResumedUploadSucceeds (the checks at the     *)
(* head of upload_objects).                                                *)
THEOREM AlwaysFoundWhenResumed == UploadSpec => []FoundWhenResumed
<1>1. UploadInv /\ RemoteIsStated => FoundWhenResumed
  BY DEF UploadInv, UploadTypeOK, RemoteIsStated, FoundWhenResumed,
         AllFound, Found
<1>2. UploadInit => UploadInv /\ RemoteIsStated
  BY InitUploaded, InitStated
<1>3. UploadInv /\ RemoteIsStated /\ [UploadNext]_uploadVars
        => UploadInv' /\ RemoteIsStated'
  BY StepUploaded, StepStated
<1> QED
  BY <1>1, <1>2, <1>3, PTL DEF UploadSpec

(* The steps a call has left: two for an object, one to finish.              *)
Left ==
    IF uploading = "idle" THEN 0
    ELSE 2 * (ObjectCount + 1 - next) + (IF uploading = "upload" THEN 2 ELSE 1)

GoesOn == [][UploadStep => Left \in Nat /\ Left' \in Nat /\ Left' < Left]_uploadVars

(* Every step of a call brings its end nearer, so that a call that does not  *)
(* die ends after 2 * ObjectCount + 2 steps at most: with the former theorem, *)
(* all that ResumedUploadSucceeds needs but fairness (the loop of             *)
(* upload_objects).                                                         *)
THEOREM UploadGoesOn == UploadSpec => GoesOn
<1>1. UploadInv /\ UploadStep => Left \in Nat /\ Left' \in Nat /\ Left' < Left
  <2> SUFFICES ASSUME UploadInv, UploadStep
               PROVE  Left \in Nat /\ Left' \in Nat /\ Left' < Left
    OBVIOUS
  <2> USE CountAssumption DEF Left
  <2>0. /\ next \in 0..(ObjectCount + 1)
        /\ uploading = "state" => next \in PlanObjects
    BY DEF UploadInv, UploadTypeOK, CallIsUploaded
  <2>1. CASE SkipCompleted
    BY <2>0, <2>1 DEF SkipCompleted, PlanObjects
  <2>2. CASE Upload
    BY <2>0, <2>2 DEF Upload, PlanObjects, uploadLocals
  <2>3. CASE WriteUploadState
    BY <2>0, <2>3 DEF WriteUploadState, PlanObjects
  <2>4. CASE FinishUpload
    BY <2>0, <2>4 DEF FinishUpload, EndUpload
  <2> QED BY <2>1, <2>2, <2>3, <2>4 DEF UploadStep
<1> QED
  BY <1>1, InitUploaded, StepUploaded, PTL DEF UploadSpec, GoesOn
=================================================================================
