---------------------------- MODULE ManifestBuild ----------------------------
(***************************************************************************)
(* The file backfill (market_data_backfill) of one dataset and one year:    *)
(* build_manifest_year turns per-instrument source files into the shards of *)
(* one manifest revision.  Part files, a state file per shard and the       *)
(* manifest are written one after the other, and --resume takes over what   *)
(* an earlier attempt has finished.  The operator may complete              *)
(* instrument_map.csv between two calls.                                    *)
(***************************************************************************)
EXTENDS Naturals, FiniteSets

CONSTANTS
    Sources,        \* source files that have rows in the year
    ShardCount,
    ShardOf,        \* stable_shard_number of a source's instrument
    PartCount,      \* parts a shard's table is split into
    FirstMapped,    \* the sources instrument_map.csv knows at first
    ResumeFlags,    \* whether the command is run with --resume
    MaxReadFailures, \* bound: sources that cannot be read, shards with an ERROR
    MaxCrashes      \* bound: dead processes and exceptions that escape

Shards == 1..ShardCount
Parts == 1..PartCount

(* A part file by its place, with the sources its rows come from. *)
Objects == [shard : Shards, part : Parts, rows : SUBSET Sources]

ASSUME ShardAssumption == ShardCount \in Nat /\ ShardOf \in [Sources -> Shards]
ASSUME PartAssumption == PartCount \in Nat \ {0}
ASSUME MapAssumption == FirstMapped \subseteq Sources
ASSUME FlagAssumption == ResumeFlags \subseteq BOOLEAN
ASSUME BoundAssumption == MaxReadFailures \in Nat /\ MaxCrashes \in Nat

VARIABLES
    mapped,      \* the sources instrument_map.csv knows
    manifest,    \* manifest.json
    states,      \* _shard_complete.json of each shard: its objects, or {}
    files,       \* the part files
    readFailures, crashes,
    (* local variables of the call in progress *)
    pc, resume, known, failures, objects, shard, rows, part

bounds == <<readFailures, crashes>>
locals == <<resume, known, failures, objects, shard, rows, part>>
vars == <<mapped, manifest, states, files, bounds, pc, locals>>

-----------------------------------------------------------------------------
NoManifest == [status |-> "ABSENT", objects |-> {}, failures |-> {}]

Init ==
    /\ mapped = FirstMapped
    /\ manifest = NoManifest
    /\ states = [s \in Shards |-> {}]
    /\ files = {}
    /\ readFailures = 0 /\ crashes = 0
    /\ pc = "idle"
    /\ resume = FALSE /\ known = {} /\ failures = {} /\ objects = {}
    /\ shard = 0 /\ rows = {} /\ part = 0

End ==
    /\ pc' = "idle"
    /\ resume' = FALSE /\ known' = {} /\ failures' = {} /\ objects' = {}
    /\ shard' = 0 /\ rows' = {} /\ part' = 0

(* The operator adds a missing row to instrument_map.csv. *)
CompleteMap(s) ==
    /\ pc = "idle"
    /\ s \notin mapped
    /\ mapped' = mapped \cup {s}
    /\ UNCHANGED <<manifest, states, files, bounds, pc, locals>>

(* Mutant: a BUILDING manifest is left to the process that builds it. *)
BeginUnlessBuilding(again) ==
    /\ pc = "idle"
    /\ manifest.status \notin {"AVAILABLE", "BUILDING"}
    /\ manifest.status # "ABSENT" => again
    /\ manifest' = [NoManifest EXCEPT !.status = "BUILDING"]
    /\ resume' = again
    /\ known' = mapped
    /\ failures' = {<<"UNMAPPED", s>> : s \in Sources \ mapped}
    /\ shard' = 1
    /\ pc' = "shard"
    /\ UNCHANGED <<mapped, states, files, bounds, objects, rows, part>>

(* An AVAILABLE manifest is returned as it is, and any other one needs      *)
(* --resume; then manifest.json is BUILDING, whatever it held.              *)
Begin(again) ==
    /\ pc = "idle"
    /\ manifest.status # "AVAILABLE"
    /\ manifest.status # "ABSENT" => again
    /\ manifest' = [NoManifest EXCEPT !.status = "BUILDING"]
    /\ resume' = again
    /\ known' = mapped
    /\ failures' = {<<"UNMAPPED", s>> : s \in Sources \ mapped}
    /\ shard' = 1
    /\ pc' = "shard"
    /\ UNCHANGED <<mapped, states, files, bounds, objects, rows, part>>

(* The shard's state file exists and its files have the recorded hashes. *)
Complete(s) == states[s] # {} /\ states[s] \subseteq files

(* _load_shard_state: the shard is not built again. *)
TakeOver ==
    /\ pc = "shard" /\ shard \in Shards
    /\ resume /\ Complete(shard)
    /\ objects' = objects \cup states[shard]
    /\ shard' = shard + 1
    /\ UNCHANGED <<mapped, manifest, states, files, bounds, pc, resume, known,
                   failures, rows, part>>

(* The shard's sources are read, some of them in vain; without rows, or     *)
(* with an ERROR among its quality issues, it gets no file.  A source file  *)
(* may be another one at the next attempt.                                 *)
ReadShard ==
    /\ pc = "shard" /\ shard \in Shards
    /\ ~(resume /\ Complete(shard))
    /\ \E bad \in SUBSET {s \in known : ShardOf[s] = shard}, rejected \in BOOLEAN :
        LET tables == {s \in known : ShardOf[s] = shard} \ bad
            count == Cardinality(bad) + (IF rejected THEN 1 ELSE 0)
        IN
        /\ rejected => tables # {}
        /\ readFailures + count <= MaxReadFailures
        /\ readFailures' = readFailures + count
        /\ failures' = failures
               \cup {<<"TRANSFORM", s>> : s \in bad}
               \cup (IF rejected THEN {<<"QUALITY", shard>>} ELSE {})
        /\ IF tables = {} \/ rejected
           THEN shard' = shard + 1 /\ UNCHANGED <<pc, rows, part>>
           ELSE pc' = "write" /\ rows' = tables /\ part' = 1 /\ UNCHANGED shard
    /\ UNCHANGED <<mapped, manifest, states, files, crashes, resume, known, objects>>

(* Mutant: a part file that is there already is kept. *)
WritePartOnce ==
    LET o == [shard |-> shard, part |-> part, rows |-> rows]
        there == {f \in files : f.shard = shard /\ f.part = part}
    IN
    /\ pc = "write" /\ part \in Parts
    /\ files' = IF there = {} THEN files \cup {o} ELSE files
    /\ objects' = objects \cup (IF there = {} THEN {o} ELSE there)
    /\ part' = part + 1
    /\ UNCHANGED <<mapped, manifest, states, bounds, pc, resume, known, failures,
                   shard, rows>>

(* os.replace of a part into its final path. *)
WritePart ==
    LET o == [shard |-> shard, part |-> part, rows |-> rows] IN
    /\ pc = "write" /\ part \in Parts
    /\ files' = {f \in files : ~(f.shard = shard /\ f.part = part)} \cup {o}
    /\ objects' = objects \cup {o}
    /\ part' = part + 1
    /\ UNCHANGED <<mapped, manifest, states, bounds, pc, resume, known, failures,
                   shard, rows>>

(* Mutant: the state file is written before the parts. *)
WriteStateFirst ==
    /\ pc = "write"
    /\ \/ /\ part = 1 /\ states[shard] = {}
          /\ states' = [states EXCEPT ![shard] =
                 {[shard |-> shard, part |-> p, rows |-> rows] : p \in Parts}]
          /\ UNCHANGED <<pc, shard, rows, part>>
       \/ /\ part \notin Parts
          /\ pc' = "shard" /\ shard' = shard + 1 /\ rows' = {} /\ part' = 0
          /\ UNCHANGED states
    /\ UNCHANGED <<mapped, manifest, files, bounds, resume, known, failures, objects>>

(* _shard_complete.json, once all parts are in place. *)
WriteState ==
    /\ pc = "write" /\ part \notin Parts
    /\ states' = [states EXCEPT ![shard] = {o \in objects : o.shard = shard}]
    /\ pc' = "shard"
    /\ shard' = shard + 1
    /\ rows' = {} /\ part' = 0
    /\ UNCHANGED <<mapped, manifest, files, bounds, resume, known, failures, objects>>

(* Mutant: a manifest with objects is AVAILABLE, whatever failed. *)
FinishWithObjects ==
    /\ pc = "shard" /\ shard \notin Shards
    /\ manifest' =
          [status |-> IF objects # {} THEN "AVAILABLE" ELSE "QUARANTINED",
           objects |-> objects, failures |-> failures]
    /\ End
    /\ UNCHANGED <<mapped, states, files, bounds>>

(* manifest.json: AVAILABLE if nothing failed and there are objects. *)
Finish ==
    /\ pc = "shard" /\ shard \notin Shards
    /\ manifest' =
          [status |-> IF failures = {} /\ objects # {}
                      THEN "AVAILABLE" ELSE "QUARANTINED",
           objects |-> objects, failures |-> failures]
    /\ End
    /\ UNCHANGED <<mapped, states, files, bounds>>

(* The process dies, or an exception of a write escapes. *)
Dies ==
    /\ pc # "idle"
    /\ crashes < MaxCrashes
    /\ crashes' = crashes + 1
    /\ End
    /\ UNCHANGED <<mapped, manifest, states, files, readFailures>>

Step == TakeOver \/ ReadShard \/ WritePart \/ WriteState \/ Finish

Command == \E again \in ResumeFlags : Begin(again)

Next ==
    \/ \E s \in Sources : CompleteMap(s)
    \/ Command
    \/ Step
    \/ Dies

Spec == Init /\ [][Next]_vars

(* The command runs once started and is repeated, and the map is completed. *)
FairSpec ==
    /\ Spec
    /\ WF_vars(Step)
    /\ WF_vars(Command)
    /\ \A s \in Sources : SF_vars(CompleteMap(s))
-----------------------------------------------------------------------------
(***************************************************************************)
(* Properties.                                                             *)
(***************************************************************************)
Failures ==
    {<<code, s>> : code \in {"UNMAPPED", "TRANSFORM"}, s \in Sources}
        \cup {<<"QUALITY", s>> : s \in Shards}

(* The type invariant of the files and of the call in progress. *)
TypeOK ==
    /\ mapped \subseteq Sources
    /\ manifest \in [status : {"ABSENT", "BUILDING", "AVAILABLE", "QUARANTINED"},
                     objects : SUBSET Objects, failures : SUBSET Failures]
    /\ states \in [Shards -> SUBSET Objects]
    /\ files \subseteq Objects
    /\ readFailures \in 0..MaxReadFailures /\ crashes \in 0..MaxCrashes
    /\ pc \in {"idle", "shard", "write"}
    /\ resume \in BOOLEAN /\ known \subseteq Sources
    /\ failures \subseteq Failures /\ objects \subseteq Objects
    /\ shard \in 0..(ShardCount + 1)
    /\ rows \subseteq Sources /\ part \in 0..(PartCount + 1)

(* What a state file or the manifest lists is on disk with those bytes, and *)
(* no two files stand at one path.                                         *)
ListedIsStored ==
    /\ manifest.objects \subseteq files
    /\ \A s \in Shards : states[s] \subseteq files
    /\ \A f, g \in files : f.shard = g.shard /\ f.part = g.part => f = g

(* All parts of a shard in a finished manifest come from one build of it,   *)
(* however many attempts it took.                                          *)
OneBuildPerShard ==
    \A a, b \in manifest.objects : a.shard = b.shard =>
        a.rows = b.rows /\ \E c \in manifest.objects :
                              c.shard = a.shard /\ c.part = PartCount

(* An AVAILABLE manifest has every source of the year in every part of its  *)
(* shard.                                                                  *)
AvailableIsComplete ==
    manifest.status = "AVAILABLE" =>
        \A s \in Sources, p \in Parts :
            \E o \in manifest.objects :
                o.shard = ShardOf[s] /\ o.part = p /\ s \in o.rows

(* An AVAILABLE manifest was built from a complete instrument map, and it   *)
(* lacks a source that was mapped from the start only if reading failed in  *)
(* an earlier attempt.                                                     *)
OnlyFailedAreMissing ==
    manifest.status = "AVAILABLE" =>
        /\ mapped = Sources
        /\ readFailures = 0 =>
              \A s \in FirstMapped, p \in Parts :
                  \E o \in manifest.objects :
                      o.shard = ShardOf[s] /\ o.part = p /\ s \in o.rows

(* A build that was interrupted, or lacked a mapping, and is repeated ends  *)
(* AVAILABLE.                                                              *)
EndsAvailable == manifest.status = "BUILDING" ~> manifest.status = "AVAILABLE"
=============================================================================
