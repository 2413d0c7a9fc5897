--------------------------- MODULE DatasetLifecycle ---------------------------
(***************************************************************************)
(* The commands that the official pipeline gives a dataset over its life:   *)
(* incremental (DAY objects, with the detection of re-adjusted prices and   *)
(* the correction that follows), backfill of a range, compact (WEEK, MONTH, *)
(* YEAR), derive and migrate.  Each is a sequence of publish_dataset calls  *)
(* over the native 30m dataset and the datasets derived from it, here for   *)
(* the adjusted prices of one year.                                        *)
(*                                                                         *)
(* publish_dataset is one step here (DatasetPublish has its inner steps),   *)
(* a day stands for its session, a period for the sessions inside it, and   *)
(* the bars of a symbol and day for the adjustment they were fetched with.  *)
(***************************************************************************)
EXTENDS Naturals, FiniteSets, FiniteSetsExt

CONSTANTS
    DayCount,       \* sessions of the year
    Weeks, Months,  \* the sessions of each calendar week and month
    SymbolCount,    \* mapped instruments
    ShardOf,        \* stable_shard_key of a symbol's instrument
    DerivedCount,   \* how many of 1h, 4h and 1d are kept
    Overlap,        \* sessions that the detection compares, 10 in the code
    LegacyDays,     \* sessions that the legacy files hold
    Commands,       \* the commands the operator gives
    SessionRanges,  \* the sessions incremental is asked for
    BackfillRanges, \* the sessions backfill is asked for
    Requests,       \* the symbols incremental and backfill are asked for
    Careful,        \* collected days are not asked for again once compacted
    ResumeFlags,    \* whether commands are given with --resume
    MaxRevision,    \* bound: revisions of a dataset
    MaxVersion,     \* bound: adjustments of a symbol
    MaxFailures,    \* bound: requests and files that fail
    MaxDeaths       \* bound: dead processes

Days == 1..DayCount
Symbols == 1..SymbolCount
Datasets == 0..DerivedCount
Derived == Datasets \ {0}
Revisions == 1..MaxRevision
Versions == 0..MaxVersion

(* Granularities by rank. *)
DAY == 0
WEEK == 1
MONTH == 2
YEAR == 3

Rows == [symbol : Symbols, day : Days, version : Versions]
Shards == {ShardOf[s] : s \in Symbols}
Objects == [revision : Revisions, grain : DAY..YEAR, period : SUBSET Days,
            shard : Shards, rows : SUBSET Rows]
Keys == [command : {"incremental", "backfill", "compact", "derive", "migrate"},
         revision : 0..MaxRevision, dataset : Datasets, grain : DAY..YEAR,
         days : SUBSET Days]
Slips == {"unfetched", "raced", "gap", "refused", "uneven", "halfway", "leaked", "partial",
          "swept", "inplace", "stale"}

(* The ways in which served bars get lost. *)
Losses == {"leaked", "partial", "swept", "inplace", "stale"}

(* The ways in which a command ends with some of its datasets published and *)
(* others not.                                                             *)
Splinters == {"refused", "uneven", "halfway"}

ASSUME BoundAssumption ==
    {DayCount, SymbolCount, MaxRevision, MaxVersion, MaxFailures, MaxDeaths} \subseteq Nat
ASSUME CalendarAssumption ==
    /\ Weeks \subseteq SUBSET Days /\ Months \subseteq SUBSET Days
    /\ UNION Weeks = Days /\ UNION Months = Days
ASSUME CallAssumption ==
    /\ SessionRanges \subseteq (SUBSET Days) \ {{}}
    /\ BackfillRanges \subseteq (SUBSET Days) \ {{}}
    /\ Requests \subseteq SUBSET Symbols /\ LegacyDays \subseteq Days
    /\ Careful \in BOOLEAN /\ ResumeFlags \subseteq BOOLEAN
    /\ DerivedCount \in Nat /\ Overlap \in Nat

VARIABLES
    today,      \* sessions completed so far
    feed,       \* the adjustment Alpaca answers with, by symbol
    manifests,  \* by dataset and revision: status and dataset_objects rows
    succeeded,  \* keys of the pipeline runs that SUCCEEDED
    staging,    \* staging files, by run key
    failures, deaths,
    told,       \* symbols and days that a SUCCEEDED incremental was for
    slips,      \* history: how an adjustment may have been missed
    (* local variables of the command in progress *)
    pc, job, waiting

bounds == <<failures, deaths>>
history == <<told, slips>>
vars == <<today, feed, manifests, succeeded, staging, bounds, history, pc, job, waiting>>

-----------------------------------------------------------------------------
NoManifest == [status |-> "ABSENT", objects |-> {}]

Available(d) == {r \in Revisions : manifests[d][r].status = "AVAILABLE"}

(* latest_available_manifest, 0 when there is none. *)
Latest(d) == IF Available(d) = {} THEN 0 ELSE Max(Available(d))

(* objects_for_manifest of what a reader of the dataset gets. *)
Served(d) == IF Latest(d) = 0 THEN {} ELSE manifests[d][Latest(d)].objects

ServedRows(d) == UNION {o.rows : o \in Served(d)}

ServedDays(d) == {<<r.symbol, r.day>> : r \in ServedRows(d)}

NoKey == [command |-> "derive", revision |-> 0, dataset |-> 0, grain |-> DAY, days |-> {}]

(* What a command still has to do: parts to publish by dataset, the periods *)
(* they replace, and whether something failed (flawed) that also counts as  *)
(* an ERROR incident of the manifests (incident).                          *)
NoJob == [key |-> NoKey, symbols |-> {}, parts |-> {}, replaced |-> {}, rest |-> {},
          incident |-> FALSE, flawed |-> FALSE]

NoCall == [days |-> {}, symbols |-> {}]

Init ==
    /\ today = 0
    /\ feed = [s \in Symbols |-> 0]
    /\ manifests = [d \in Datasets |-> [r \in Revisions |-> NoManifest]]
    /\ succeeded = {} /\ staging = {}
    /\ failures = 0 /\ deaths = 0
    /\ told = {} /\ slips = {}
    /\ pc = "idle" /\ job = NoJob /\ waiting = NoCall

-----------------------------------------------------------------------------
(* The world: a session ends, Alpaca re-adjusts a symbol's whole history.   *)
NextDay ==
    /\ pc = "idle" /\ today < DayCount
    /\ today' = today + 1
    /\ UNCHANGED <<feed, manifests, succeeded, staging, bounds, history, pc, job, waiting>>

Split(s) ==
    /\ feed[s] < MaxVersion
    /\ feed' = [feed EXCEPT ![s] = @ + 1]
    /\ slips' = IF pc = "idle" THEN slips ELSE slips \cup {"raced"}
    /\ UNCHANGED <<today, manifests, succeeded, staging, bounds, told, pc, job, waiting>>

(* What Alpaca answers for the days. *)
Bars(symbols, days) ==
    {[symbol |-> s, day |-> d, version |-> feed[s]] :
        s \in symbols, d \in {x \in days : x <= today}}

(* The groups of a partition: one object for each shard that has rows. *)
Parts(d, grain, period, rows) ==
    LET inside == {r \in rows : r.day \in period}
    IN  {[dataset |-> d, grain |-> grain, period |-> period, shard |-> k,
          rows |-> {r \in inside : ShardOf[r.symbol] = k}] :
            k \in {ShardOf[r.symbol] : r \in inside}}

DayParts(days, rows) ==
    UNION {Parts(d, DAY, {x}, rows) : d \in Datasets, x \in days}

YearParts(datasets, rows) == UNION {Parts(d, YEAR, Days, rows) : d \in datasets}

(* The bound on revisions is never met inside a command. *)
HasRoom == \A d \in Datasets : Latest(d) + 1 < MaxRevision

End ==
    /\ pc' = "idle" /\ job' = NoJob /\ waiting' = NoCall

Collecting(key, symbols) ==
    /\ pc' = "collect"
    /\ job' = [NoJob EXCEPT !.key = key, !.symbols = symbols]
-----------------------------------------------------------------------------
IncrementalKey(days) ==
    [command |-> "incremental", revision |-> 0, dataset |-> 0, grain |-> DAY,
     days |-> days]

BackfillKey(revision, days) ==
    [command |-> "backfill", revision |-> revision, dataset |-> 0, grain |-> YEAR,
     days |-> days]

(* The sessions just before the first one asked for. *)
OverlapOf(days) ==
    {x \in Days : \A y \in days : x < y /\ \E z \in days : z <= x + Overlap}

(* Mutant: the sessions asked for are compared, and not those before them.  *)
DetectedInCall(days, symbols) ==
    \E r \in ServedRows(0) :
        r.symbol \in symbols /\ r.day \in days /\ r.version # feed[r.symbol]

(* _detect_adjusted_revision: a published bar of the overlap differs from   *)
(* what Alpaca answers now.  A symbol whose request fails is not compared.  *)
Detected(days, symbols) ==
    \E r \in ServedRows(0) :
        /\ r.symbol \in symbols /\ r.day \in OverlapOf(days)
        /\ r.version # feed[r.symbol]

(* Served days of a symbol, none of them in the overlap. *)
OutOfSight(days, s) ==
    /\ \E r \in ServedRows(0) : r.symbol = s
    /\ \A r \in ServedRows(0) : r.symbol = s => r.day \notin OverlapOf(days)

(* The days of the call are in no object of a longer period. *)
InDayObjects(days) ==
    \A d \in Datasets : \A o \in Served(d) :
        o.period \cap days # {} => o.grain = DAY

Told(days, symbols) == told' = told \cup (symbols \X days)

(* The run of these sessions, unless it SUCCEEDED before. *)
EnterIncremental(days, symbols) ==
    IF IncrementalKey(days) \in succeeded
    THEN End /\ Told(days, symbols)
    ELSE /\ Collecting(IncrementalKey(days), symbols)
         /\ waiting' = NoCall
         /\ UNCHANGED told

(* incremental up to its collection.  A detected revision first runs a      *)
(* backfill of the retained year, at the revision after the native one,     *)
(* for all symbols: no run has its key yet.                                *)
Incremental(days, symbols) ==
    /\ "incremental" \in Commands
    /\ pc = "idle" /\ HasRoom
    /\ \A x \in days : x <= today
    /\ Careful => InDayObjects(days)
    /\ \E unfetched \in SUBSET symbols :
        /\ failures + Cardinality(unfetched) <= MaxFailures
        /\ failures' = failures + Cardinality(unfetched)
        /\ IF Detected(days, symbols \ unfetched)
           THEN /\ Collecting(BackfillKey(Latest(0) + 1, Days), Symbols)
                /\ waiting' = [days |-> days, symbols |-> symbols]
                /\ UNCHANGED history
           ELSE /\ EnterIncremental(days, symbols)
                /\ slips' = slips
                      \cup {x \in {"unfetched"} : unfetched # {}}
                      \cup {x \in {"gap"} : \E s \in Symbols : OutOfSight(days, s)}
    /\ UNCHANGED <<today, feed, manifests, succeeded, staging, deaths>>

(* backfill of the year or of a part of it. *)
Backfill(days, symbols) ==
    /\ "backfill" \in Commands
    /\ pc = "idle" /\ HasRoom
    /\ Careful => \A d \in Datasets : ServedDays(d) \subseteq symbols \X days
    /\ BackfillKey(0, days) \notin succeeded
    /\ Collecting(BackfillKey(0, days), symbols)
    /\ UNCHANGED <<today, feed, manifests, succeeded, staging, bounds, history, waiting>>

Staged(key) == {f.row : f \in {g \in staging : g.key = key}}

(* collect_staging: a symbol already staged is skipped with --resume, the   *)
(* files of one that fails stay as they were.                              *)
Collect ==
    /\ pc = "collect"
    /\ \E resume \in ResumeFlags, unfetched \in SUBSET job.symbols :
        LET key == job.key
            skipped == IF resume THEN {r.symbol : r \in Staged(key)} ELSE {}
            fetched == job.symbols \ (skipped \cup unfetched)
            rows == {r \in Staged(key) : r.symbol \notin fetched}
                        \cup Bars(fetched, key.days)
        IN
        /\ unfetched \cap skipped = {}
        /\ failures + Cardinality(unfetched) <= MaxFailures
        /\ failures' = failures + Cardinality(unfetched)
        /\ staging' = {f \in staging : f.key # key} \cup {[key |-> key, row |-> r] : r \in rows}
        /\ slips' = slips \cup {x \in {"stale"} :
               {r \in rows : r.symbol \notin fetched \cup unfetched}
                   # Bars(skipped \cap job.symbols, key.days)}
        /\ job' = [job EXCEPT
               !.parts = IF key.command = "incremental" THEN DayParts(key.days, rows)
                         ELSE YearParts(Datasets, rows),
               !.replaced = IF key.command = "incremental" THEN {{x} : x \in key.days}
                            ELSE {Days},
               !.rest = Datasets,
               !.incident = unfetched # {},
               !.flawed = unfetched # {}]
    /\ pc' = "publish"
    /\ UNCHANGED <<today, feed, manifests, succeeded, deaths, told, waiting>>
-----------------------------------------------------------------------------
CompactKey(d, grain, period) ==
    [command |-> "compact", revision |-> 0, dataset |-> d, grain |-> grain,
     days |-> period]

PeriodsOf(grain) ==
    IF grain = WEEK THEN Weeks ELSE IF grain = MONTH THEN Months ELSE {Days}

(* A week that lies in two months is left as days. *)
CrossesMonth(grain, period) ==
    grain = WEEK /\ \A m \in Months : ~(period \subseteq m)

Smaller(d, grain, period) ==
    {o \in Served(d) : o.period \cap period # {} /\ o.grain < grain}

HasTarget(d, grain, period) ==
    \E o \in Served(d) : o.grain = grain /\ o.period = period

(* Two inputs hold the same bars. *)
Duplicated(inputs, period) ==
    \E o, q \in inputs : o # q /\ \E a \in o.rows, b \in q.rows :
        a.symbol = b.symbol /\ a.day = b.day /\ a.day \in period

(* compact, where it has something to do: every session of the period lies  *)
(* in a smaller partition.  Otherwise it skips, reports or raises, and       *)
(* changes no object.                                                      *)
Compact(d, grain, period) ==
    /\ "compact" \in Commands
    /\ pc = "idle" /\ HasRoom
    /\ ~CrossesMonth(grain, period)
    /\ ~HasTarget(d, grain, period)
    /\ period \subseteq UNION {o.period : o \in Smaller(d, grain, period)}
    /\ CompactKey(d, grain, period) \notin succeeded
    /\ ~Duplicated(Smaller(d, grain, period), period)
    /\ pc' = "publish"
    /\ job' = [NoJob EXCEPT
           !.key = CompactKey(d, grain, period),
           !.parts = Parts(d, grain, period,
                           UNION {o.rows : o \in Smaller(d, grain, period)}),
           !.replaced = {period},
           !.rest = {d}]
    /\ UNCHANGED <<today, feed, manifests, succeeded, staging, bounds, history, waiting>>

DeriveKey == [NoKey EXCEPT !.grain = YEAR]

(* derive: the derived datasets again, from the published native one. *)
Derive ==
    /\ "derive" \in Commands
    /\ pc = "idle" /\ HasRoom
    /\ Latest(0) # 0 /\ DeriveKey \notin succeeded
    /\ pc' = "publish"
    /\ job' = [NoJob EXCEPT
           !.key = DeriveKey,
           !.parts = YearParts(Derived, ServedRows(0)),
           !.replaced = {Days},
           !.rest = Derived]
    /\ UNCHANGED <<today, feed, manifests, succeeded, staging, bounds, history, waiting>>

MigrateKey == [NoKey EXCEPT !.command = "migrate", !.grain = YEAR]

(* The staging directory of a dataset. *)
MigrateFiles(d) == [MigrateKey EXCEPT !.dataset = d]

Legacy == {[symbol |-> s, day |-> x, version |-> 0] : s \in Symbols, x \in LegacyDays}

(* migrate: the legacy files of every dataset, of sessions that have ended.   *)
(* A file that cannot be read or mapped leaves the batches before the fault,  *)
(* and fails the run only.                                                  *)
Migrate ==
    /\ "migrate" \in Commands
    /\ pc = "idle" /\ HasRoom
    /\ \A x \in LegacyDays : x <= today
    /\ Careful => \A d \in Datasets : ServedDays(d) \subseteq Symbols \X LegacyDays
    /\ MigrateKey \notin succeeded
    /\ \E broken \in SUBSET (Datasets \X Symbols), upTo \in 0..DayCount :
        LET Read(d) == {r \in Legacy : <<d, r.symbol>> \in broken => r.day <= upTo}
                          \cup Staged(MigrateFiles(d))
        IN
        /\ failures + Cardinality(broken) <= MaxFailures
        /\ failures' = failures + Cardinality(broken)
        /\ staging' = staging \cup
               UNION {{[key |-> MigrateFiles(d), row |-> r] : r \in Read(d)} : d \in Datasets}
        /\ job' = [NoJob EXCEPT
               !.key = MigrateKey,
               !.parts = UNION {YearParts({d}, Read(d)) : d \in Datasets},
               !.replaced = {Days},
               !.rest = Datasets,
               !.flawed = broken # {}]
    /\ pc' = "publish"
    /\ UNCHANGED <<today, feed, manifests, succeeded, deaths, history, waiting>>
-----------------------------------------------------------------------------
(* The native dataset before those derived from it. *)
IsNextDataset(d) == d \in job.rest /\ \A e \in job.rest : d <= e

(* _next_revision: a correction names its revision. *)
NextRevision(d) == IF job.key.revision = 0 THEN Latest(d) + 1 ELSE job.key.revision

ObjectOf(p, r) == [revision |-> r, grain |-> p.grain, period |-> p.period,
                   shard |-> p.shard, rows |-> p.rows]

(* Other bytes stand at the object's key, from an attempt that failed. *)
KeyTaken(d, o) ==
    \E r \in Revisions : \E x \in manifests[d][r].objects :
        /\ x.revision = o.revision /\ x.grain = o.grain
        /\ x.period = o.period /\ x.shard = o.shard /\ x # o

(* An object that the replaced periods overlap and do not cover. *)
CutBy(o, replaced) ==
    o.period \cap UNION replaced # {} /\ ~(o.period \subseteq UNION replaced)

(* Mutant: the end of a partition is taken for one of its days.             *)
RetainedFromClosedRanges(d) ==
    {o \in Served(d) : \A p \in job.replaced :
        (o.period \cup {x + 1 : x \in o.period}) \cap p = {}}

Retained(d) ==
    {o \in Served(d) : \A p \in job.replaced : o.period \cap p = {}}

(* A derived dataset of migrate needs a native manifest to be traced to. *)
Untraceable(d) == job.key.command = "migrate" /\ d # 0 /\ Latest(0) = 0

(* The days of those objects, which go with the replaced periods. *)
Cut(d) == UNION {o.period : o \in {q \in Served(d) : CutBy(q, job.replaced)}}

(* compact and derive publish some of the datasets only. *)
OfAllDatasets == job.key.command \notin {"compact", "derive"}

(* The datasets come out of a command differently: one is published and     *)
(* another quarantined, or objects that have been compacted in one of them  *)
(* are cut.                                                                *)
Uneven(d, good) ==
    IF ~OfAllDatasets THEN good /\ Cut(d) # {}
    ELSE IF ~good THEN ~job.flawed /\ 0 \notin job.rest
    ELSE job.flawed \/ (0 \in job.rest /\ \E e \in Datasets : Cut(e) # Cut(0))

(* One publish_dataset call of the command.  The rows an earlier attempt    *)
(* staged under the same revision stay; a revision built on top of itself   *)
(* ends SUPERSEDED, as the predecessor of itself.                          *)
Publish ==
    /\ pc = "publish"
    /\ \E d \in Datasets :
        LET latest == Latest(d)
            r == NextRevision(d)
            new == {ObjectOf(p, r) : p \in {q \in job.parts : q.dataset = d}}
            written == {o \in new : ~KeyTaken(d, o)}
            snapshot == Retained(d) \cup written
            good == snapshot # {} /\ written = new /\ ~job.incident /\ ~Untraceable(d)
        IN
        /\ IsNextDataset(d)
        /\ r >= latest
        /\ manifests' = [manifests EXCEPT ![d] = [v \in Revisions |->
               IF v = r
               THEN [status |-> IF ~good THEN "QUARANTINED"
                                ELSE IF r = latest THEN "SUPERSEDED" ELSE "AVAILABLE",
                     objects |-> manifests[d][v].objects \cup snapshot]
               ELSE IF v = latest /\ good
               THEN [manifests[d][v] EXCEPT !.status = "SUPERSEDED"]
               ELSE manifests[d][v]]]
        /\ job' = [job EXCEPT !.rest = @ \ {d}, !.flawed = @ \/ ~good]
        /\ slips' = slips \cup {x \in {"leaked"} :
                                   good /\ ~(manifests[d][r].objects \subseteq snapshot)}
                         \cup {x \in {"inplace"} : r = latest}
                         \cup {x \in {"swept"} :
                                   good /\ \E o \in Served(d) : CutBy(o, job.replaced)}
                         \cup {x \in {"uneven"} : Uneven(d, good)}
                         \cup {x \in {"partial"} :
                                   good /\ job.key.command = "migrate"
                                        /\ ~(Legacy \subseteq UNION {o.rows : o \in new})}
    /\ UNCHANGED <<today, feed, succeeded, staging, bounds, told, pc, waiting>>

(* The command ends with the error of _next_revision: a derived dataset is  *)
(* ahead of the revision that the correction took from the native one.     *)
Refused ==
    /\ pc = "publish"
    /\ \E d \in Datasets : IsNextDataset(d) /\ NextRevision(d) < Latest(d)
    /\ slips' = slips \cup {"refused"}
    /\ End
    /\ UNCHANGED <<today, feed, manifests, succeeded, staging, bounds, told>>

(* Mutant: the command answers SUCCEEDED whatever became of its manifests. *)
FinishAnyway ==
    /\ pc = "publish" /\ job.rest = {}
    /\ succeeded' = succeeded \cup {job.key}
    /\ staging' = {f \in staging : f.key # job.key}
    /\ End
    /\ IF job.key.command = "incremental"
       THEN Told(job.key.days, job.symbols)
       ELSE UNCHANGED told
    /\ UNCHANGED <<today, feed, manifests, bounds, slips>>

(* finish_pipeline_run.  The files of a run that SUCCEEDED are not read     *)
(* again.  After its correction, incremental goes on with the call itself.  *)
Finish ==
    /\ pc = "publish" /\ job.rest = {}
    /\ IF job.flawed
       THEN End /\ UNCHANGED <<succeeded, staging, told>>
       ELSE /\ succeeded' = succeeded \cup {job.key}
            /\ staging' = {f \in staging : f.key # job.key}
            /\ IF waiting.days # {}
               THEN EnterIncremental(waiting.days, waiting.symbols)
               ELSE /\ End
                    /\ IF job.key.command = "incremental"
                       THEN Told(job.key.days, job.symbols)
                       ELSE UNCHANGED told
    /\ UNCHANGED <<today, feed, manifests, bounds, slips>>

(* The process dies between two of these steps. *)
Dies ==
    /\ pc # "idle" /\ deaths < MaxDeaths
    /\ deaths' = deaths + 1
    /\ slips' = slips \cup {x \in {"halfway"} :
           OfAllDatasets /\ ~job.flawed /\ job.rest # {} /\ 0 \notin job.rest}
    /\ End
    /\ UNCHANGED <<today, feed, manifests, succeeded, staging, failures, told>>

Next ==
    \/ NextDay
    \/ \E s \in Symbols : Split(s)
    \/ \E days \in SessionRanges, symbols \in Requests : Incremental(days, symbols)
    \/ \E days \in BackfillRanges, symbols \in Requests : Backfill(days, symbols)
    \/ Collect
    \/ \E d \in Datasets, grain \in WEEK..YEAR : \E period \in PeriodsOf(grain) :
            Compact(d, grain, period)
    \/ Derive
    \/ Migrate
    \/ Publish
    \/ Refused
    \/ Finish
    \/ Dies

Spec == Init /\ [][Next]_vars

-----------------------------------------------------------------------------
(* Every variable holds what its comment says, and a published object holds *)
(* rows of its own period and shard only.                                  *)
TypeOK ==
    /\ today \in 0..DayCount
    /\ feed \in [Symbols -> Versions]
    /\ \A d \in Datasets : \A r \in Revisions :
        /\ manifests[d][r].status \in {"ABSENT", "QUARANTINED", "AVAILABLE", "SUPERSEDED"}
        /\ manifests[d][r].objects \subseteq Objects
        /\ \A o \in manifests[d][r].objects :
            \A x \in o.rows : x.day \in o.period /\ ShardOf[x.symbol] = o.shard
    /\ succeeded \subseteq Keys
    /\ \A f \in staging : f.key \in Keys /\ f.row \in Rows
    /\ failures \in 0..MaxFailures /\ deaths \in 0..MaxDeaths
    /\ told \subseteq Symbols \X Days /\ slips \subseteq Slips
    /\ pc \in {"idle", "collect", "publish"}
    /\ job.key \in Keys /\ job.rest \subseteq Datasets

(* What readers of a dataset once got for a symbol and day they get from    *)
(* then on: compaction, derivation and retries only change where it is.      *)
StaysServed ==
    [][slips' \cap Losses = {} =>
            \A d \in Datasets : ServedDays(d) \subseteq ServedDays(d)']_vars

(* What an incremental that answered SUCCEEDED was for is served, natively  *)
(* and in every derived dataset.                                           *)
ToldIsServed ==
    slips \cap Losses = {} => \A d \in Datasets : told \subseteq ServedDays(d)

(* Between commands the served bars of a symbol have one adjustment, in      *)
(* every dataset and after any correction, unless one of the ways to miss a *)
(* re-adjustment occurred: a failed request of the detection, a              *)
(* re-adjustment during a command, a gap longer than the overlap, stale     *)
(* staging files, a reused revision, or datasets that a command left        *)
(* different, since the detection looks at the native one only.             *)
OneAdjustment ==
    (pc = "idle" /\ slips \subseteq {"swept", "partial"}) =>
        \A d \in Datasets : \A a \in ServedRows(d), b \in ServedRows(d) :
            a.symbol = b.symbol => a.version = b.version

(* Between commands a derived dataset serves the bars of the native one,     *)
(* through failed requests, re-adjustments, corrections, compactions of      *)
(* either and repeated commands, unless a revision was reused or a command   *)
(* published its datasets differently.                                     *)
DerivedIsNative ==
    (pc = "idle" /\ slips \cap ({"leaked", "inplace"} \cup Splinters) = {}) =>
        \A d \in Derived : ServedRows(d) = ServedRows(0)

(* What the readers of a dataset are given is a SnapshotSeries too, of        *)
(* sessions instead of times.                                               *)
Meet(p, q) == p \cap q # {}

AsObject(o) ==
    [revision |-> o.revision, content |-> o.rows,
     slot |-> [grain |-> o.grain, period |-> o.period, shard |-> o.shard]]

SeriesOf(d) == INSTANCE SnapshotSeries WITH
    Periods <- SUBSET Days, Overlaps <- Meet, Contents <- SUBSET Rows,
    served <- Latest(d), content <- {AsObject(o) : o \in Served(d)}

(* Every step of a command is the publication of one snapshot of one dataset, *)
(* or none to its readers, unless a revision was reused (publish_dataset).    *)
StaysSeries ==
    [][slips' \cap {"leaked", "inplace"} = {} =>
            \A d \in Datasets : [SeriesOf(d)!Next]_(SeriesOf(d)!svars)]_vars

(* What the pipeline says of a correction: it backfills the whole retained   *)
(* year and then goes on with the day, so the days served before it are      *)
(* served after it, in whatever objects they lie.                          *)
RetainedYearStays ==
    [][\A d \in Datasets : ServedDays(d) \subseteq ServedDays(d)']_vars
=============================================================================
