------------------------------ MODULE SessionBars ------------------------------
(***************************************************************************)
(* The bars of one symbol, from Alpaca to derived bars.  One part is the     *)
(* incremental chain of the file collection: update_symbol_data merges what  *)
(* it fetched and reports the earliest change, the regular-session filter    *)
(* and the resampler rebuild their outputs from the session of that change   *)
(* on.  The other part is how the pipelines put bars together to longer ones *)
(* (derive_regular_bars, resample_bars, aggregate_regular_30m) and what      *)
(* quality_issues says of the result.                                       *)
(*                                                                         *)
(* Time is counted in slots of one source bar.  A session is a record of its *)
(* local date's first and last slot and its opening and closing slot; the    *)
(* slots from close on and before open are extended hours.  The price,       *)
(* volume and count columns of a bar are one value, and the columns of a     *)
(* longer bar are a function of the set of bars it is made of.              *)
(***************************************************************************)
EXTENDS Naturals, Sequences, FiniteSets, FiniteSetsExt

CONSTANTS
    Sessions,      \* the calendar: a sequence of sessions
    WindowDays,    \* sessions of the rolling window
    RefreshSlots,  \* how far the adjusted refresh reaches back
    Widths,        \* lengths of derived bars, in slots; 0 for the whole session
    FileWidth,     \* length of the bars in the resampled file
    MaxRevisions   \* bound: corrections of a bar and re-adjustments

Days == DOMAIN Sessions
Slots == UNION {Sessions[d].first .. Sessions[d].last : d \in Days}
EMPTY == 0      \* a bar of volume 0
TRADED == 1
Values == {EMPTY, TRADED}
Bars == [time : Slots, value : Values, version : 0..MaxRevisions]
NoChange == 0

ASSUME SessionsAssumption ==
    /\ Sessions \in Seq([first : Nat \ {0}, open : Nat, close : Nat, last : Nat])
    /\ \A d \in Days : /\ Sessions[d].first <= Sessions[d].open
                       /\ Sessions[d].open < Sessions[d].close
                       /\ Sessions[d].close <= Sessions[d].last + 1
                       /\ \A e \in Days : d < e => Sessions[d].last < Sessions[e].first
ASSUME BoundsAssumption ==
    /\ {WindowDays, FileWidth} \subseteq Nat \ {0}
    /\ {RefreshSlots, MaxRevisions} \subseteq Nat /\ Widths \subseteq Nat

VARIABLES
    market,     \* what Alpaca answers: bars
    source,     \* the collected file
    filtered,   \* the regular-session file
    resampled,  \* the resampled file
    now,        \* sessions completed
    changed,    \* changed_from_utc of the collection, NoChange when there is none
    pc, revisions, version

vars == <<market, source, filtered, resampled, now, changed, pc, revisions, version>>

-----------------------------------------------------------------------------
Times(bars) == {b.time : b \in bars}
DayOf == [t \in Slots |-> CHOOSE d \in Days : t \in Sessions[d].first .. Sessions[d].last]

(* XNYS: a bar belongs to the session when it starts in it. *)
IsRegular(t) == Sessions[DayOf[t]].open <= t /\ t < Sessions[DayOf[t]].close
Regular(bars) == {b \in bars : IsRegular(b.time)}

(* filter_regular_session keeps traded bars of the session. *)
Filtered(bars) == {b \in Regular(bars) : b.value # EMPTY}

WindowStart == IF now > WindowDays THEN Sessions[now - WindowDays + 1].first ELSE 1
WindowEnd == IF now = 0 THEN 1 ELSE Sessions[now].last + 1

(* trim_to_window, slice_timestamp_range: half-open. *)
InWindow(t) == WindowStart <= t /\ t < WindowEnd
Trim(bars) == {b \in bars : InWindow(b.time)}

(* merge_frames: a fetched bar replaces a stored one of its time. *)
Merge(existing, new) == Trim({b \in existing : b.time \notin Times(new)} \cup new)

-----------------------------------------------------------------------------
(* aggregate_regular_30m: bins are counted from the first observed bar. *)
FromFirst(bars, width) ==
    LET First(t) == Min({b.time : b \in {c \in Regular(bars) : DayOf[c.time] = DayOf[t]}})
        Start(t) == IF width = 0 THEN First(t) ELSE First(t) + ((t - First(t)) \div width) * width
    IN {[start |-> s, bars |-> {b \in Regular(bars) : Start(b.time) = s}] :
            s \in {Start(b.time) : b \in Regular(bars)}}

(* The bars that go into one longer bar: those of a session and a bin, which  *)
(* is counted from the opening.                                             *)
GroupsFromFirst(bars, width) == {r.bars : r \in FromFirst(bars, width)}
Bin(t, width) == IF width = 0 THEN 0 ELSE (t - Sessions[DayOf[t]].open) \div width
Groups(bars, width) ==
    {{b \in bars : DayOf[b.time] = DayOf[a.time] /\ Bin(b.time, width) = Bin(a.time, width)} :
        a \in bars}

(* derive_regular_bars: a derived bar starts when its first bar does. *)
Derived(bars, width) ==
    {[start |-> Min(Times(g)), bars |-> g] : g \in Groups(Regular(bars), width)}

(* resample_bars of the loader, and the resampler of the files: it starts    *)
(* where its bin does.                                                      *)
BinStart(t, width) ==
    LET open == Sessions[DayOf[t]].open
    IN IF width = 0 THEN open ELSE open + ((t - open) \div width) * width
Resampled(bars, width) ==
    {[start |-> s, bars |-> {b \in bars : BinStart(b.time, width) = s}] :
        s \in {BinStart(b.time, width) : b \in bars}}

(* resample_sip_bars. *)
FileBars(bars) == Resampled(bars, FileWidth)

SessionLength(d) == Sessions[d].close - Sessions[d].open
Least(a, b) == IF a < b THEN a ELSE b

(* quality_issues of the official pipeline: UNEXPECTED_MISSING_SOURCE_BARS. *)
ExpectedOfWidth(bar, width) ==
    IF width = 0 THEN SessionLength(DayOf[bar.start]) ELSE Least(width, SessionLength(DayOf[bar.start]))
Expected(bar, width) ==
    LET d == DayOf[bar.start]
    IN IF width = 0 THEN SessionLength(d) ELSE Least(width, Sessions[d].close - bar.start)
Warned(bar, width) == Cardinality(bar.bars) < Expected(bar, width)

(* ... and of its errors XNYS_SESSION_VIOLATION and INVALID_SOURCE_MINUTES. *)
Rejected(bar, width) ==
    LET d == DayOf[bar.start]
    IN \/ ~IsRegular(bar.start)
       \/ Cardinality(bar.bars) > (IF width = 0 THEN SessionLength(d) ELSE Least(width, SessionLength(d)))
       \/ bar.bars = {}

(* quality_issues of the file backfill: PARTIAL_SOURCE_BARS and              *)
(* SOURCE_BARS_EXCEED_SESSION_BIN.                                          *)
ExpectedFromFirst(bar, width) ==
    LET close == Sessions[DayOf[bar.start]].close
    IN (IF width = 0 THEN close ELSE Least(bar.start + width, close)) - bar.start

-----------------------------------------------------------------------------
Init ==
    /\ market = {} /\ source = {} /\ filtered = {} /\ resampled = {}
    /\ now = 0 /\ changed = NoChange
    /\ pc = "idle" /\ revisions = 0 /\ version = 0

(* A session ends: Alpaca has bars of some of its slots. *)
NextSession ==
    /\ pc = "idle" /\ now + 1 \in Days
    /\ now' = now + 1
    /\ \E times \in SUBSET (Sessions[now'].first .. Sessions[now'].last) :
          market' = market \cup {[time |-> t, value |-> TRADED, version |-> version] : t \in times}
    /\ UNCHANGED <<source, filtered, resampled, changed, pc, revisions, version>>

(* Alpaca corrects a bar, adds a late one, or re-adjusts the history. *)
Correct ==
    /\ pc = "idle" /\ revisions < MaxRevisions
    /\ revisions' = revisions + 1
    /\ \E t \in Slots, v \in Values :
          /\ t < WindowEnd /\ [time |-> t, value |-> v, version |-> version] \notin market
          /\ market' = {b \in market : b.time # t}
                           \cup {[time |-> t, value |-> v, version |-> version]}
    /\ UNCHANGED <<source, filtered, resampled, now, changed, pc, version>>

Readjust ==
    /\ pc = "idle" /\ revisions < MaxRevisions
    /\ revisions' = revisions + 1
    /\ version' = version + 1
    /\ market' = {[b EXCEPT !.version = version'] : b \in market}
    /\ UNCHANGED <<source, filtered, resampled, now, changed, pc>>

-----------------------------------------------------------------------------
(* earliest_changed_timestamp: of the bars in both, the first that differs. *)
ChangedTimes(existing, new) ==
    {b.time : b \in {a \in existing : a.time \in Times(new) /\ a \notin new}}

(* The last stored bar, or further back to refresh adjusted bars. *)
FetchStart ==
    LET existing == Trim(source)
        refresh == IF WindowEnd > RefreshSlots THEN WindowEnd - RefreshSlots ELSE 0
        next == Max(Times(existing)) + 1
    IN IF existing = {} THEN WindowStart ELSE Max({WindowStart, Least(next, refresh)})

(* update_symbol_data of adjusted bars. *)
Collect ==
    LET existing == Trim(source)
        overlap == {b \in Trim(market) : b.time >= FetchStart}
        revised == \E a \in existing, b \in overlap : a.time = b.time /\ a.version # b.version
        fetched == IF revised THEN Trim(market) ELSE overlap
        combined == Merge(existing, fetched)
        changes == ChangedTimes(existing, overlap) \cup (Times(fetched) \ Times(existing))
    IN /\ pc = "idle" /\ now > 0
       /\ IF combined = {}
          THEN /\ changed' = NoChange /\ UNCHANGED source
          ELSE /\ source' = combined
               /\ changed' = IF revised THEN Min(Times(combined))
                             ELSE IF changes = {} THEN NoChange ELSE Min(changes)
       /\ pc' = "filter"
       /\ UNCHANGED <<market, filtered, resampled, now, revisions, version>>

(* The session an output is rebuilt from: that of its last bar, or that of   *)
(* an earlier change.                                                       *)
RecomputeFromBar(outputs) ==
    IF changed = NoChange THEN Max(outputs) ELSE Least(Max(outputs), changed)
RecomputeStart(outputs) ==
    LET last == Sessions[DayOf[Max(outputs)]].open
    IN IF changed = NoChange THEN last ELSE Least(last, Sessions[DayOf[changed]].open)

(* process_file_incrementally. *)
Filter ==
    LET existing == Trim(filtered)
        from == IF existing = {} THEN 0 ELSE RecomputeStart(Times(existing))
        new == Filtered({b \in Trim(source) : b.time >= from})
    IN /\ pc = "filter"
       /\ filtered' = Trim({b \in existing : b.time < from} \cup new)
       /\ pc' = "resample"
       /\ UNCHANGED <<market, source, resampled, now, changed, revisions, version>>

(* process_resample_file_incrementally. *)
Resample ==
    LET existing == {r \in resampled : InWindow(r.start)}
        from == IF existing = {} THEN 0 ELSE RecomputeStart({r.start : r \in existing})
        new == FileBars({b \in Trim(filtered) : b.time >= from})
        kept == {r \in existing : r.start < from}
    IN /\ pc = "resample"
       /\ resampled' = {r \in kept \cup new : InWindow(r.start)}
       /\ pc' = "idle"
       /\ UNCHANGED <<market, source, filtered, now, changed, revisions, version>>

Next == NextSession \/ Correct \/ Readjust \/ Collect \/ Filter \/ Resample

Spec == Init /\ [][Next]_vars

-----------------------------------------------------------------------------
(* Bars, slots and phases are those of the calendar. *)
TypeOK ==
    /\ market \subseteq Bars /\ source \subseteq Bars /\ filtered \subseteq Bars
    /\ now \in 0..Len(Sessions) /\ changed \in Slots \cup {NoChange}
    /\ pc \in {"idle", "filter", "resample"}

(* What the incremental chain leaves is what a whole run over the window      *)
(* would give: no change of the collected file, late, corrected or           *)
(* re-adjusted, is missed by the filter or the resampler                     *)
(* (process_file_incrementally, process_resample_file_incrementally).        *)
Ran == pc = "idle" /\ Trim(source) = source
IncrementalIsFull ==
    Ran /\ source # {} =>
        /\ filtered = Filtered(source)
        /\ resampled = {r \in FileBars(Filtered(source)) : InWindow(r.start)}

(* The official pipeline and the market loader put the same bars together,   *)
(* each bar of the session into exactly one longer bar and no bar outside    *)
(* it, whatever bars are missing; they differ in the start they give it      *)
(* (derive_regular_bars, resample_bars).                                     *)
DerivedIsExact ==
    pc = "filter" => \A w \in Widths :
        LET official == Derived(source, w)
            loader == Resampled(Regular(source), w)
        IN /\ {r.bars : r \in official} = {r.bars : r \in loader}
           /\ UNION {r.bars : r \in official} = Regular(source)
           /\ \A r, s \in official : r # s => r.bars \cap s.bars = {} /\ r.start # s.start

(* quality_issues rejects no derived bar; it warns only of bars that lack a   *)
(* source bar, and a bar it does not warn of lacks none from its first bar    *)
(* on, and none at all unless it is the last of its session                  *)
(* (market_pipeline_lib/processing.py).                                     *)
BinSlots(r, w) ==
    {t \in Slots : DayOf[t] = DayOf[r.start] /\ IsRegular(t) /\ BinStart(t, w) = BinStart(r.start, w)}
IsLastBin(r, w) ==
    w # 0 /\ BinStart(r.start, w) + w >= Sessions[DayOf[r.start]].close
WarnedRightly(r, w) ==
    LET missing == BinSlots(r, w) \ Times(r.bars)
    IN /\ ~Rejected(r, w)
       /\ Warned(r, w) => missing # {}
       /\ ~Warned(r, w) => IF IsLastBin(r, w) THEN \A t \in missing : t < r.start
                           ELSE missing = {}

(* The file backfill counts its bins from the first bar of the session: a bar *)
(* never has more source bars than its quality_issues expects, and fewer just *)
(* when one is missing after that first bar (market_data_backfill/core.py).   *)
PartialFromFirst(r, w) ==
    LET slots == {t \in Slots : /\ DayOf[t] = DayOf[r.start] /\ IsRegular(t) /\ r.start <= t
                                /\ w # 0 => t < r.start + w}
    IN /\ Cardinality(r.bars) <= ExpectedFromFirst(r, w)
       /\ Cardinality(r.bars) < ExpectedFromFirst(r, w) <=> slots # Times(r.bars)

(* Both pipelines tell a derived bar that lacks source bars from a whole one. *)
MissingIsWarned ==
    pc = "filter" => \A w \in Widths :
        /\ \A r \in Derived(source, w) : WarnedRightly(r, w)
        /\ \A r \in FromFirst(source, w) : PartialFromFirst(r, w)
================================================================================
