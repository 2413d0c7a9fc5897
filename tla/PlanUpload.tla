------------------------------ MODULE PlanUpload ------------------------------
(***************************************************************************)
(* The upload of the file backfill: upload_objects sends the objects of     *)
(* load-plan/storage-objects.jsonl to a bucket one by one, notes each one   *)
(* in upload-state.json, and when all are there rewrites the plan with      *)
(* their remote keys.  transform may write the plan anew between uploads.   *)
(* It is the other command of the program of ManifestBuild, and shares no   *)
(* name with it.                                                           *)
(***************************************************************************)
EXTENDS Naturals, FiniteSets

CONSTANTS
    ObjectCount,   \* records of the plan
    HasPrefix,     \* whether the upload is given a key prefix
    UploadFlags,   \* whether it is run with --resume
    MaxFailures,   \* bound: dead processes, failed uploads and verifications
    MaxTorn        \* bound: those that die in the middle of write_text

PlanObjects == 1..ObjectCount

ASSUME CountAssumption == ObjectCount \in Nat \ {0}
ASSUME UploadBoundAssumption == MaxFailures \in Nat /\ MaxTorn \in Nat
ASSUME UploadAssumption == HasPrefix \in BOOLEAN /\ UploadFlags \subseteq BOOLEAN

VARIABLES
    plan,       \* records that name the remote key; the others are local
    stated,     \* upload-state.json: the objects it lists as completed
    torn,       \* upload-state.json is cut off and cannot be parsed
    bucket,     \* objects of the plan in the bucket
    owed,       \* an upload was asked for and has not ended well yet
    restarted,  \* history: one was begun without --resume when the plan named
                \* remote keys
    uploadFailures, tears,
    (* local variables of the call in progress *)
    uploading, completed, next

stored == <<plan, stated, torn, bucket>>
uploadBounds == <<uploadFailures, tears>>
uploadLocals == <<completed, next>>
uploadVars == <<stored, owed, restarted, uploadBounds, uploading, uploadLocals>>

UploadInit ==
    /\ plan = {} /\ stated = {} /\ torn = FALSE /\ bucket = {} /\ owed = FALSE
    /\ restarted = FALSE /\ uploadFailures = 0 /\ tears = 0
    /\ uploading = "idle" /\ completed = {} /\ next = 0

EndUpload == uploading' = "idle" /\ completed' = {} /\ next' = 0

-----------------------------------------------------------------------------
(* transform writes the plan again, with local keys. *)
Replan ==
    /\ uploading = "idle" /\ plan # {}
    /\ plan' = {}
    /\ restarted' = FALSE
    /\ UNCHANGED <<stated, torn, bucket, owed, uploadBounds, uploading, uploadLocals>>

(* The object's file: at its planned key under output_root, which a prefix  *)
(* makes the wrong place after the rewrite, or where the state file says.   *)
Found(o) == (o \in plan => ~HasPrefix) \/ o \in stated

AllFound == \A o \in PlanObjects : Found(o)

(* The command is entered; without --resume nothing counts as completed.    *)
(* A torn state file, or a file that is not found, ends it at once.         *)
BeginUpload(again) ==
    /\ uploading = "idle"
    /\ owed' = TRUE
    /\ IF ~torn /\ AllFound
       THEN /\ completed' = IF again THEN stated ELSE {}
            /\ restarted' = (restarted \/ (~again /\ plan # {}))
            /\ next' = 1
            /\ uploading' = "upload"
       ELSE UNCHANGED <<restarted, uploading, uploadLocals>>
    /\ UNCHANGED <<stored, uploadBounds>>

SkipCompleted ==
    /\ uploading = "upload" /\ next \in PlanObjects /\ next \in completed
    /\ next' = next + 1
    /\ UNCHANGED <<stored, owed, restarted, uploadBounds, uploading, completed>>

(* Mutant: the state file is written before the object is uploaded. *)
UploadAfterState ==
    /\ uploading = "upload" /\ next \in PlanObjects /\ next \notin completed
    /\ stated' = stated \cup {next}
    /\ uploading' = "state"
    /\ UNCHANGED <<restarted, plan, torn, bucket, owed, uploadBounds, uploadLocals>>

(* upload_file and the verification of what head_object tells. *)
Upload ==
    /\ uploading = "upload" /\ next \in PlanObjects /\ next \notin completed
    /\ bucket' = bucket \cup {next}
    /\ uploading' = "state"
    /\ UNCHANGED <<restarted, plan, stated, torn, owed, uploadBounds, uploadLocals>>

(* Mutant: the state file lists the last object only. *)
WriteLastOnly ==
    /\ uploading = "state"
    /\ completed' = completed \cup {next}
    /\ stated' = {next}
    /\ next' = next + 1
    /\ uploading' = "upload"
    /\ UNCHANGED <<restarted, plan, torn, bucket, owed, uploadBounds>>

(* upload-state.json is overwritten with what this call has completed. *)
WriteUploadState ==
    /\ uploading = "state"
    /\ completed' = completed \cup {next}
    /\ stated' = completed'
    /\ next' = next + 1
    /\ uploading' = "upload"
    /\ UNCHANGED <<restarted, plan, torn, bucket, owed, uploadBounds>>

(* The plan gets its remote keys, in one os.replace. *)
FinishUpload ==
    /\ uploading = "upload" /\ next \notin PlanObjects
    /\ plan' = PlanObjects
    /\ owed' = FALSE
    /\ EndUpload
    /\ UNCHANGED <<restarted, stated, torn, bucket, uploadBounds>>

Fail == uploadFailures < MaxFailures /\ uploadFailures' = uploadFailures + 1

(* The process dies, or an upload or its verification fails. *)
Fails ==
    /\ uploading # "idle" /\ Fail
    /\ EndUpload
    /\ UNCHANGED <<stored, owed, restarted, tears>>

(* The process dies inside write_text, which is not atomic. *)
DiesWriting ==
    /\ uploading = "state" /\ Fail
    /\ tears < MaxTorn /\ tears' = tears + 1
    /\ torn' = TRUE
    /\ stated' = {}
    /\ EndUpload
    /\ UNCHANGED <<restarted, plan, bucket, owed>>

UploadStep == SkipCompleted \/ Upload \/ WriteUploadState \/ FinishUpload

UploadCommand == \E again \in UploadFlags : BeginUpload(again)

UploadNext == Replan \/ UploadCommand \/ UploadStep \/ Fails \/ DiesWriting

UploadSpec == UploadInit /\ [][UploadNext]_uploadVars

(* The command runs once started, and is repeated while an upload is owed. *)
FairUploadSpec ==
    /\ UploadSpec
    /\ WF_uploadVars(UploadStep)
    /\ WF_uploadVars(owed /\ UploadCommand)
-----------------------------------------------------------------------------
(***************************************************************************)
(* Properties.                                                             *)
(***************************************************************************)
(* The type invariant of the files, the bucket and the call. *)
UploadTypeOK ==
    /\ plan \subseteq PlanObjects /\ stated \subseteq PlanObjects
    /\ bucket \subseteq PlanObjects
    /\ torn \in BOOLEAN /\ owed \in BOOLEAN /\ restarted \in BOOLEAN
    /\ uploadFailures \in 0..MaxFailures /\ tears \in 0..MaxTorn
    /\ uploading \in {"idle", "upload", "state"}
    /\ completed \subseteq PlanObjects /\ next \in 0..(ObjectCount + 1)

(* What the plan or the state file says is remote is in the bucket. *)
PlanIsUploaded == plan \cup stated \subseteq bucket

(* An upload that was asked for and is repeated ends well. *)
UploadSucceeds == owed ~> ~owed

(* The same, unless the state file was torn or an upload of a finished plan *)
(* was started over.                                                       *)
ResumedUploadSucceeds == owed ~> ~owed \/ torn \/ restarted
=============================================================================
