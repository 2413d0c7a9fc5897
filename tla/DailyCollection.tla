---------------------------- MODULE DailyCollection ----------------------------
(***************************************************************************)
(* The daily collection of per-symbol files (daily_pipeline.run_pipeline),  *)
(* beside the one-minute collector: a run goes through the adjusted and the *)
(* raw prices, tries every symbol up to MaxAttempts times, and keeps a      *)
(* checkpoint per symbol and price type.  An update of a symbol fetches the *)
(* sessions its files lack, compares the overlap, fetches the whole window  *)
(* again after a re-adjustment, and saves the interval files one by one.    *)
(*                                                                         *)
(* A day stands for its session, a bar of a file for the bars of that       *)
(* session, with the adjustment they were fetched under.                    *)
(***************************************************************************)
EXTENDS Naturals, FiniteSets

CONSTANTS
    SymbolCount,    \* symbols of the universe
    IntervalCount,  \* OUTPUT_INTERVALS, 3 in the code
    DayCount,       \* bound: sessions
    HistoryDays,    \* sessions of the rolling window
    RefreshDays,    \* ADJUSTED_REFRESH_SESSIONS, 10 in the code
    StaleDays,      \* STALE_SYMBOL_DAYS
    CacheDays,      \* INACTIVE_CACHE_TTL_DAYS
    MaxAttempts,    \* MAX_SYMBOL_ATTEMPTS, 3 in the code
    MinTickers,     \* MIN_EXPECTED_TICKERS
    MinuteTypes,    \* price types that the one-minute collector runs for
    MaxVersion,     \* bound: adjustments of a symbol
    MaxToggles,     \* bound: changes of an asset's status
    MaxFaults       \* bound: requests and saves that fail, dead processes

Symbols == 1..SymbolCount
Intervals == 1..IntervalCount
Days == 1..DayCount
Types == 1..2
ADJUSTED == 1  \* DATA_TYPES in their order
RAW == 2

Bars == [day : Days, version : 0..MaxVersion]
Fresh == [status |-> "none", target |-> 0, inactive |-> FALSE]
NoEntry == [last |-> 0, checked |-> 0]

ASSUME CollectionAssumption ==
    /\ {SymbolCount, IntervalCount, HistoryDays, RefreshDays, MaxAttempts} \subseteq Nat \ {0}
    /\ {DayCount, StaleDays, CacheDays, MinTickers, MaxVersion, MaxToggles,
        MaxFaults} \subseteq Nat
    /\ MinuteTypes \subseteq {1, 2}

VARIABLES
    today,        \* sessions completed so far
    traded,       \* the sessions in which Alpaca has bars of a symbol
    active,       \* the asset status of a symbol
    version,      \* the adjustment Alpaca answers with
    files,        \* by symbol, price type and interval
    minute,       \* the one-minute file, by symbol and price type
    cache,        \* inactive_symbols.json: entries, NoEntry where there is none
    checkpoints,  \* by symbol and price type
    lastRun,      \* last_run of the state file
    tickers,      \* the ticker file
    toggles, faults,
    dormant,      \* history: the sessions a symbol was inactive in
    raced,        \* history: symbols re-adjusted in the middle of a fetch
    (* local variables of the run *)
    pc, target, type, attempt, pending, failed, lost, symbols, confirmed,
    fetched, interval, outcome

world == <<today, traded, active, version, toggles, dormant>>
disk == <<files, minute, cache, checkpoints, lastRun, tickers>>
locals == <<target, type, attempt, pending, failed, lost, symbols, confirmed,
            fetched, interval, outcome>>
vars == <<world, disk, faults, raced, pc, locals>>

-----------------------------------------------------------------------------
MinOf(S) == CHOOSE x \in S : \A y \in S : x <= y
MaxOf(S) == CHOOSE x \in S : \A y \in S : x >= y

(* rolling_window: the sessions of the window that ends with session t. *)
InWindow(d, t) == d <= t /\ t < d + HistoryDays

Window(t) == {d \in Days : InWindow(d, t)}

(* trim_to_window. *)
Trim(bars, t) == {b \in bars : InWindow(b.day, t)}

DaysOf(bars) == {b.day : b \in bars}

LastDay(bars) == MaxOf(DaysOf(bars))

(* merge_frames: of two bars of one time the fetched one is kept. *)
Merge(existing, new, t) ==
    Trim({b \in existing : b.day \notin DaysOf(new)} \cup new, t)

(* What the files of the symbol hold of the run's window. *)
Existing(s) == [k \in Intervals |-> Trim(files[s][type][k], target)]

Stored(s) == {k \in Intervals : Existing(s)[k] # {}}

NoBars == {}

Init ==
    /\ today = 0
    /\ traded = [s \in Symbols |-> {}]
    /\ active = [s \in Symbols |-> TRUE]
    /\ version = [s \in Symbols |-> 0]
    /\ files = [s \in Symbols |-> [t \in Types |-> [k \in Intervals |-> {}]]]
    /\ minute = [s \in Symbols |-> [t \in Types |-> {}]]
    /\ cache = [s \in Symbols |-> NoEntry]
    /\ checkpoints = [s \in Symbols |-> [t \in Types |-> Fresh]]
    /\ lastRun = [status |-> "none", target |-> 0]
    /\ tickers = {}
    /\ toggles = 0 /\ faults = 0
    /\ dormant = [s \in Symbols |-> {}] /\ raced = {}
    /\ pc = "idle" /\ target = 0 /\ type = 1 /\ attempt = 0
    /\ pending = {} /\ failed = {} /\ lost = {} /\ symbols = {} /\ confirmed = {}
    /\ fetched = NoBars /\ interval = 0 /\ outcome = Fresh

-----------------------------------------------------------------------------
(* The world.  A session ends, in which the active symbols trade.  A run     *)
(* reads the sessions up to its target only, so that one ends in the middle *)
(* of a run makes no difference to it.                                     *)
NextDay ==
    /\ pc = "idle" /\ today < DayCount
    /\ today' = today + 1
    /\ traded' = [s \in Symbols |->
                      IF active[s] THEN traded[s] \cup {today'} ELSE traded[s]]
    /\ dormant' = [s \in Symbols |->
                       IF active[s] THEN dormant[s] ELSE dormant[s] \cup {today'}]
    /\ UNCHANGED <<active, version, toggles, disk, faults, raced, pc, locals>>

(* A symbol is delisted, or listed again. *)
ChangeStatus(s) ==
    /\ toggles < MaxToggles
    /\ toggles' = toggles + 1
    /\ active' = [active EXCEPT ![s] = ~@]
    /\ dormant' = [dormant EXCEPT ![s] = @ \cup {today}]
    /\ UNCHANGED <<today, traded, version, disk, faults, raced, pc, locals>>

(* A split or dividend re-adjusts the whole history of a symbol. *)
Split(s) ==
    /\ version[s] < MaxVersion
    /\ version' = [version EXCEPT ![s] = @ + 1]
    /\ UNCHANGED <<today, traded, active, toggles, dormant, disk, faults, raced, pc, locals>>

(* What Alpaca answers for the sessions from..t. *)
Answer(s, p, from, t) ==
    {[day |-> d, version |-> IF p = RAW THEN 0 ELSE version[s]] :
        d \in {x \in traded[s] : from <= x /\ x <= t}}

(* What a request for the sessions from..t returns, chunk by chunk: the      *)
(* symbol may be re-adjusted between two chunks that both have bars.        *)
Replies(s, p, from, t) ==
    LET bars == Answer(s, p, from, t)
        cuts == {d \in DaysOf(bars) : \E e \in DaysOf(bars) : e < d}
    IN  {[bars |-> bars, torn |-> FALSE]}
        \cup IF p = RAW \/ version[s] = MaxVersion THEN {}
             ELSE {[bars |-> {[b EXCEPT !.version = IF b.day < cut THEN @ ELSE @ + 1] :
                                  b \in bars},
                    torn |-> TRUE] : cut \in cuts}

Receive(s, reply) ==
    /\ fetched' = reply.bars
    /\ version' = [version EXCEPT ![s] = IF reply.torn THEN @ + 1 ELSE @]
    /\ raced' = IF reply.torn THEN raced \cup {s} ELSE raced

Fails == faults < MaxFaults /\ faults' = faults + 1
-----------------------------------------------------------------------------
(* load_pipeline_symbols: the ticker list is fetched, or taken from the file *)
(* of an earlier run; without either the run ends.                         *)
LoadSymbols ==
    \/ /\ tickers' = Symbols
       /\ UNCHANGED faults
    \/ /\ Fails
       /\ Cardinality(tickers) >= MinTickers
       /\ UNCHANGED tickers

(* run_pipeline up to its first symbol. *)
Begin ==
    /\ pc = "idle" /\ today > 0
    /\ LoadSymbols
    /\ symbols' = tickers' /\ pending' = tickers'
    /\ lastRun' = [status |-> "running", target |-> today]
    /\ pc' = "symbol" /\ target' = today /\ type' = ADJUSTED /\ attempt' = 1
    /\ failed' = {} /\ lost' = {} /\ confirmed' = {}
    /\ fetched' = NoBars /\ interval' = 0 /\ outcome' = Fresh
    /\ UNCHANGED <<world, files, minute, cache, checkpoints, raced>>

IsNextSymbol(s) == s \in pending /\ \A r \in pending : s <= r

Checkpoint(status, inactive) ==
    [status |-> status, target |-> target, inactive |-> inactive]

(* Mutant: a checkpoint of any session counts.                              *)
CheckpointCompleteEver(s) ==
    /\ checkpoints[s][type].status = "success"
    /\ \A k \in Intervals : files[s][type][k] # {}

(* _checkpoint_complete: this session's update succeeded and the files are  *)
(* there.                                                                  *)
CheckpointComplete(s) ==
    /\ checkpoints[s][type].status = "success"
    /\ checkpoints[s][type].target = target
    /\ \A k \in Intervals : files[s][type][k] # {}

SkipComplete(s) ==
    /\ pc = "symbol" /\ IsNextSymbol(s) /\ CheckpointComplete(s)
    /\ pending' = pending \ {s}
    /\ UNCHANGED <<world, disk, faults, raced, pc, target, type, attempt, failed, lost,
                   symbols, confirmed, fetched, interval, outcome>>

(* Mutant: an entry never grows too old.                                    *)
FreshInactiveForever(s, latest, t) ==
    cache[s] # NoEntry /\ latest <= cache[s].last

(* is_fresh_inactive. *)
FreshInactive(s, latest, t) ==
    /\ cache[s] # NoEntry
    /\ latest <= cache[s].last
    /\ cache[s].checked <= t /\ t <= cache[s].checked + CacheDays

MarkActive(s, known, after) ==
    after = known \cup {s} /\ cache' = [cache EXCEPT ![s] = NoEntry]

MarkInactive(s, latest, t, known, after) ==
    /\ after = known \ {s}
    /\ cache' = [cache EXCEPT ![s] = [last |-> latest, checked |-> t]]

(* should_skip_inactive_symbol, for a last bar of session latest: whether    *)
(* the symbol is skipped, what the cache becomes, and which symbols are     *)
(* then known to be active.  When the asset status cannot be read the       *)
(* symbol is not skipped.                                                  *)
Inactive(s, latest, t, known, skip, after) ==
    LET stale == latest + StaleDays <= t
        asked == stale /\ ~FreshInactive(s, latest, t) /\ s \notin known
    IN
    \/ /\ ~asked
       /\ skip = (stale /\ FreshInactive(s, latest, t)) /\ after = known
       /\ UNCHANGED <<cache, faults>>
    \/ /\ asked /\ active[s]
       /\ ~skip /\ MarkActive(s, known, after)
       /\ UNCHANGED faults
    \/ /\ asked /\ ~active[s]
       /\ skip /\ MarkInactive(s, latest, t, known, after)
       /\ UNCHANGED faults
    \/ /\ asked /\ Fails
       /\ ~skip /\ after = known
       /\ UNCHANGED cache

(* update_symbol_data up to its request.  The latest of the three files     *)
(* decides whether the symbol is stale.                                    *)
Look(s) ==
    /\ pc = "symbol" /\ IsNextSymbol(s) /\ ~CheckpointComplete(s)
    /\ IF Stored(s) = {}
       THEN pc' = "fetch" /\ UNCHANGED <<cache, faults, confirmed, outcome>>
       ELSE \E skip \in BOOLEAN, after \in SUBSET Symbols :
            /\ Inactive(s, MaxOf({LastDay(Existing(s)[k]) : k \in Stored(s)}), target,
                        confirmed, skip, after)
            /\ confirmed' = after
            /\ IF skip
               THEN pc' = "mark" /\ outcome' = Checkpoint("success", TRUE)
               ELSE pc' = "fetch" /\ UNCHANGED outcome
    /\ UNCHANGED <<world, files, minute, checkpoints, lastRun, tickers, raced,
                   target, type, attempt, pending, failed, lost, symbols, fetched,
                   interval>>

WindowStart == MinOf(Window(target))

(* Mutant: the sessions that the longest file lacks.                        *)
FetchStartByLatest(s) ==
    IF Stored(s) = {} THEN WindowStart
    ELSE LET from == MaxOf({LastDay(Existing(s)[k]) : k \in Stored(s)})
         IN  IF type = ADJUSTED /\ target - RefreshDays < from
             THEN MaxOf({target - RefreshDays + 1, WindowStart})
             ELSE from

(* _incremental_fetch_start, and for adjusted prices no later than the      *)
(* start of the refreshed sessions.                                        *)
FetchStart(s) ==
    IF Stored(s) # Intervals THEN WindowStart
    ELSE LET from == MinOf({LastDay(Existing(s)[k]) : k \in Intervals})
         IN  IF type = ADJUSTED /\ target < from + RefreshDays
             THEN MaxOf({(target + 1) - RefreshDays, WindowStart})
             ELSE from

(* earliest_changed_timestamp of the prices, in any interval. *)
Revised(s, bars) ==
    /\ type = ADJUSTED
    /\ \E k \in Intervals : \E a \in Existing(s)[k], b \in bars :
            a.day = b.day /\ a.version # b.version

GiveUp == pc' = "mark" /\ outcome' = Checkpoint("failed", FALSE)

(* Mutant: the overlap alone is replaced after a re-adjustment.             *)
FetchOnce(s) ==
    /\ pc = "fetch" /\ IsNextSymbol(s)
    /\ \/ \E reply \in Replies(s, type, FetchStart(s), target) :
            /\ Receive(s, reply)
            /\ IF reply.bars = {} /\ Stored(s) = {} THEN GiveUp /\ UNCHANGED interval
               ELSE pc' = "save" /\ interval' = 1 /\ UNCHANGED outcome
            /\ UNCHANGED faults
       \/ /\ Fails /\ GiveUp
          /\ UNCHANGED <<version, raced, fetched, interval>>
    /\ UNCHANGED <<today, traded, active, toggles, dormant, disk, target, type,
                   attempt, pending, failed, lost, symbols, confirmed>>

(* The first request of an update. *)
Fetch(s) ==
    /\ pc = "fetch" /\ IsNextSymbol(s)
    /\ \/ \E reply \in Replies(s, type, FetchStart(s), target) :
            /\ Receive(s, reply)
            /\ IF reply.bars = {} /\ Stored(s) = {} THEN GiveUp /\ UNCHANGED interval
               ELSE IF Revised(s, reply.bars) /\ FetchStart(s) > WindowStart
               THEN pc' = "refetch" /\ UNCHANGED <<interval, outcome>>
               ELSE pc' = "save" /\ interval' = 1 /\ UNCHANGED outcome
            /\ UNCHANGED faults
       \/ /\ Fails /\ GiveUp
          /\ UNCHANGED <<version, raced, fetched, interval>>
    /\ UNCHANGED <<today, traded, active, toggles, dormant, disk, target, type,
                   attempt, pending, failed, lost, symbols, confirmed>>

(* After a re-adjustment: the whole window. *)
Refetch(s) ==
    /\ pc = "refetch" /\ IsNextSymbol(s)
    /\ \/ \E reply \in Replies(s, type, WindowStart, target) :
            /\ Receive(s, reply)
            /\ IF reply.bars = {} THEN GiveUp /\ UNCHANGED interval
               ELSE pc' = "save" /\ interval' = 1 /\ UNCHANGED outcome
            /\ UNCHANGED faults
       \/ /\ Fails /\ GiveUp
          /\ UNCHANGED <<version, raced, fetched, interval>>
    /\ UNCHANGED <<today, traded, active, toggles, dormant, disk, target, type,
                   attempt, pending, failed, lost, symbols, confirmed>>

(* One interval file, replaced as a whole.  An exception ends the update    *)
(* with the files before it already saved.                                 *)
Save(s) ==
    /\ pc = "save" /\ IsNextSymbol(s)
    /\ LET combined == Merge(Existing(s)[interval], fetched, target)
       IN
       \/ /\ IF combined = {}
             THEN GiveUp /\ UNCHANGED <<files, interval>>
             ELSE /\ files' = [files EXCEPT ![s][type][interval] = combined]
                  /\ interval' = interval + 1
                  /\ IF interval = IntervalCount
                     THEN pc' = "mark" /\ outcome' = Checkpoint("success", FALSE)
                     ELSE UNCHANGED <<pc, outcome>>
          /\ UNCHANGED faults
       \/ /\ Fails /\ GiveUp
          /\ UNCHANGED <<files, interval>>
    /\ UNCHANGED <<world, minute, cache, checkpoints, lastRun, tickers, raced,
                   target, type, attempt, pending, failed, lost, symbols, confirmed,
                   fetched>>

(* mark_stage. *)
Mark(s) ==
    /\ pc = "mark" /\ IsNextSymbol(s)
    /\ checkpoints' = [checkpoints EXCEPT ![s][type] = outcome]
    /\ pending' = pending \ {s}
    /\ failed' = IF outcome.status = "failed" THEN failed \cup {s} ELSE failed
    /\ pc' = "symbol" /\ fetched' = NoBars /\ interval' = 0 /\ outcome' = Fresh
    /\ UNCHANGED <<world, files, minute, cache, lastRun, tickers, faults, raced, target,
                   type, attempt, lost, symbols, confirmed>>

(* The symbols that failed are tried again, then the next price type. *)
EndRound ==
    /\ pc = "symbol" /\ pending = {}
    /\ failed' = {}
    /\ IF failed # {} /\ attempt < MaxAttempts
       THEN /\ attempt' = attempt + 1 /\ pending' = failed
            /\ UNCHANGED <<type, lost, pc>>
       ELSE /\ lost' = lost \cup failed /\ attempt' = 1
            /\ IF type = RAW
               THEN pc' = "validate" /\ UNCHANGED <<type, pending>>
               ELSE type' = RAW /\ pending' = symbols /\ UNCHANGED pc
    /\ UNCHANGED <<world, disk, faults, raced, target, symbols, confirmed, fetched,
                   interval, outcome>>

(* run_validation finds no file missing; what it finds wrong inside a file    *)
(* is left out, the files here are well formed.                            *)
Validated == \A s \in symbols, p \in Types, k \in Intervals : files[s][p][k] # {}

(* run_pipeline after its symbols, with finish_run. *)
Finish ==
    /\ pc = "validate"
    /\ lastRun' = [status |-> IF lost = {} /\ Validated THEN "success" ELSE "failed",
                   target |-> target]
    /\ pc' = "idle" /\ symbols' = {} /\ lost' = {} /\ confirmed' = {}
    /\ target' = 0 /\ type' = ADJUSTED /\ attempt' = 0
    /\ UNCHANGED <<world, files, minute, cache, checkpoints, tickers, faults, raced,
                   pending, failed, fetched, interval, outcome>>

(* The process dies between two of these steps. *)
Dies ==
    /\ pc # "idle" /\ Fails
    /\ pc' = "idle" /\ target' = 0 /\ type' = ADJUSTED /\ attempt' = 0
    /\ pending' = {} /\ failed' = {} /\ lost' = {} /\ symbols' = {} /\ confirmed' = {}
    /\ fetched' = NoBars /\ interval' = 0 /\ outcome' = Fresh
    /\ UNCHANGED <<world, disk, raced>>

(* collect_sip_1min.process_symbol, which shares the inactive cache.  It    *)
(* fetches from its last bar on; one file, so it is saved at once or not.   *)
CollectMinutes(s, p) ==
    /\ p \in MinuteTypes /\ pc = "idle" /\ today > 0
    /\ LET existing == Trim(minute[s][p], today)
           from == IF existing = {} THEN MinOf(Window(today)) ELSE LastDay(existing) + 1
       IN  \E skip \in BOOLEAN, after \in SUBSET Symbols :
            /\ IF existing = {}
               THEN ~skip /\ UNCHANGED <<cache, faults>>
               ELSE Inactive(s, LastDay(existing), today, {}, skip, after)
            /\ minute' = IF skip \/ Merge(existing, Answer(s, p, from, today), today) = {}
                         THEN minute
                         ELSE [minute EXCEPT ![s][p] =
                                  Merge(existing, Answer(s, p, from, today), today)]
    /\ UNCHANGED <<world, files, checkpoints, lastRun, tickers, raced, pc, locals>>

Step ==
    \/ \E s \in Symbols :
        SkipComplete(s) \/ Look(s) \/ Fetch(s) \/ Refetch(s) \/ Save(s) \/ Mark(s)
    \/ EndRound
    \/ Finish

Next ==
    \/ NextDay
    \/ \E s \in Symbols : ChangeStatus(s) \/ Split(s)
    \/ Begin
    \/ Step
    \/ Dies
    \/ \E s \in Symbols, p \in Types : CollectMinutes(s, p)

Spec == Init /\ [][Next]_vars

(* A run goes on once begun, and a scheduler keeps beginning runs: the       *)
(* process is either in a run or between two of them.                      *)
FairSpec == Spec /\ WF_vars(Step \/ Begin)

-----------------------------------------------------------------------------
(* Every variable holds what its comment says. *)
TypeOK ==
    /\ today \in 0..DayCount
    /\ traded \in [Symbols -> SUBSET Days]
    /\ active \in [Symbols -> BOOLEAN] /\ version \in [Symbols -> 0..MaxVersion]
    /\ files \in [Symbols -> [Types -> [Intervals -> SUBSET Bars]]]
    /\ minute \in [Symbols -> [Types -> SUBSET Bars]]
    /\ cache \in [Symbols -> [last : 0..DayCount, checked : 0..DayCount]]
    /\ checkpoints \in [Symbols -> [Types ->
            [status : {"none", "success", "failed"}, target : 0..DayCount, inactive : BOOLEAN]]]
    /\ lastRun \in [status : {"none", "running", "success", "failed"}, target : 0..DayCount]
    /\ tickers \subseteq Symbols /\ symbols \subseteq tickers
    /\ pending \subseteq symbols /\ failed \subseteq symbols /\ lost \subseteq symbols
    /\ pc \in {"idle", "symbol", "fetch", "refetch", "save", "mark", "validate"}
    /\ attempt \in 0..MaxAttempts /\ target \in 0..today

(* The update of the last session that a run was for succeeded. *)
Updated(s, p) ==
    checkpoints[s][p].status = "success" /\ checkpoints[s][p].target = lastRun.target

Collected(s, p) == Updated(s, p) /\ ~checkpoints[s][p].inactive

Missing(s, p, k) ==
    {d \in traded[s] \cap Window(lastRun.target) : d \notin DaysOf(files[s][p][k])}

(* A checkpoint that lets later runs of the session skip a symbol is true:   *)
(* each of its three files holds every bar of the window, whatever crashed  *)
(* or failed between the saves of this and of earlier sessions.             *)
CheckpointIsComplete ==
    \A s \in Symbols, p \in Types : Collected(s, p) =>
        \A k \in Intervals : Missing(s, p, k) = {}

(* Under such a checkpoint the adjusted bars of the three files have one     *)
(* adjustment, also when a crash had left some of them re-adjusted, unless  *)
(* Alpaca changed it in the middle of a fetch.                              *)
OneAdjustment ==
    \A s \in Symbols \ raced : Collected(s, ADJUSTED) =>
        \A j, k \in Intervals :
            \A a \in files[s][ADJUSTED][j], b \in files[s][ADJUSTED][k] :
                a.version = b.version

(* The bars that a symbol skipped as inactive lacks are those before it was  *)
(* last seen inactive, or younger than a cache entry may get: a symbol     *)
(* that is listed again is not skipped for longer, whichever collector and  *)
(* price type wrote the entry.                                             *)
SkippedForCacheDays ==
    \A s \in Symbols, p \in Types : Updated(s, p) =>
        \A k \in Intervals : \A d \in Missing(s, p, k) :
            \/ d + CacheDays > lastRun.target
            \/ \E e \in dormant[s] : e >= d

(* A run that reports success has updated every symbol of its ticker list    *)
(* for its session, in both price types, whatever earlier attempts and runs   *)
(* left in the checkpoints (run_pipeline, finish_run).                       *)
SuccessIsComplete ==
    lastRun.status = "success" => \A s \in tickers, p \in Types : Updated(s, p)

(* However runs fail or die, once no session ends any more every symbol that *)
(* traded in the window is updated for the last one, in both price types.   *)
CatchesUp ==
    <>[](\A s \in Symbols, p \in Types :
            traded[s] \cap Window(today) # {} =>
                checkpoints[s][p].status = "success" /\ checkpoints[s][p].target = today)
=============================================================================
