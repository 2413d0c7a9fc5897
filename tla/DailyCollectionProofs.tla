------------------------- MODULE DailyCollectionProofs -------------------------
(***************************************************************************)
(* A checkpoint of the daily collection is true, for any number of symbols,  *)
(* intervals, sessions, retries and failures: the files it stands for are    *)
(* complete and of one adjustment, and a symbol that was skipped as inactive *)
(* was seen inactive as lately as a cache entry may be used.                 *)
(***************************************************************************)
EXTENDS DailyCollection, Integers, NaturalsInduction, WellFoundedInduction, TLAPS

-----------------------------------------------------------------------------
(* What the variables hold.                                                 *)
Entries == [last : 0..DayCount, checked : 0..DayCount]
Outcomes == [status : {"none", "success", "failed"}, target : 0..DayCount, inactive : BOOLEAN]

WorldTyped ==
    /\ today \in 0..DayCount
    /\ traded \in [Symbols -> SUBSET Days]
    /\ active \in [Symbols -> BOOLEAN] /\ version \in [Symbols -> 0..MaxVersion]
    /\ dormant \in [Symbols -> SUBSET (0..DayCount)]
    /\ raced \subseteq Symbols

DiskTyped ==
    /\ files \in [Symbols -> [Types -> [Intervals -> SUBSET Bars]]]
    /\ minute \in [Symbols -> [Types -> SUBSET Bars]]
    /\ cache \in [Symbols -> Entries]
    /\ checkpoints \in [Symbols -> [Types -> Outcomes]]
    /\ lastRun \in [status : {"none", "running", "success", "failed"}, target : 0..DayCount]
    /\ tickers \subseteq Symbols

RunTyped ==
    /\ symbols \subseteq tickers
    /\ pending \subseteq symbols /\ failed \subseteq symbols /\ lost \subseteq symbols
    /\ pc \in {"idle", "symbol", "fetch", "refetch", "save", "mark", "validate"}
    /\ attempt \in 0..MaxAttempts /\ target \in 0..today /\ type \in Types
    /\ fetched \subseteq Bars /\ outcome \in Outcomes
    /\ interval \in 0..(IntervalCount + 1)
    /\ pc = "validate" => pending = {} /\ failed = {}

Typed == WorldTyped /\ DiskTyped /\ RunTyped

-----------------------------------------------------------------------------
(* No session ends while a run goes on, and an entry of the cache is of a day *)
(* on which the symbol was inactive.                                        *)
Calendar ==
    /\ pc # "idle" => target = today /\ target \in Days /\ lastRun.target = target
    /\ lastRun.target <= today
    /\ \A s \in Symbols : traded[s] \subseteq 1..today
    /\ \A s \in Symbols : ~active[s] => today \in dormant[s]
    /\ \A s \in Symbols : cache[s] # NoEntry => cache[s].checked \in dormant[s]

(* A file has every bar of the window up to its last one, of one adjustment   *)
(* unless a fetch was torn.                                                 *)
FileSound(s, p, k) ==
    /\ DaysOf(files[s][p][k]) \subseteq traded[s] \cap (1..lastRun.target)
    /\ \A d \in traded[s], b \in files[s][p][k] :
          d <= b.day /\ InWindow(d, lastRun.target) => d \in DaysOf(files[s][p][k])
    /\ p = ADJUSTED /\ s \notin raced =>
          \A a, b \in files[s][p][k] : a.version = b.version

(* What a checkpoint c of the symbol stands for. *)
Justified(s, p, c) ==
    /\ c.target <= lastRun.target
    /\ c.status = "success" /\ ~c.inactive => \A k \in Intervals : files[s][p][k] # {}
    /\ c.status = "success" /\ ~c.inactive /\ c.target = lastRun.target =>
          /\ \A k \in Intervals : \A d \in traded[s] :
                InWindow(d, lastRun.target) => d \in DaysOf(files[s][p][k])
          /\ p = ADJUSTED /\ s \notin raced =>
                \E v \in 0..MaxVersion : \A k \in Intervals : \A b \in files[s][p][k] : b.version = v
    /\ c.status = "success" /\ c.inactive =>
          \E e \in dormant[s] : c.target <= e + CacheDays

(* The files before the interval at hand are saved; with the fetched bars the *)
(* others are complete and of one adjustment, too.                           *)
Saving(s) ==
    /\ interval \in Intervals
    /\ DaysOf(fetched) \subseteq traded[s] \cap (1..target)
    /\ \A k \in Intervals : k < interval => files[s][type][k] # {}
    /\ \A k \in Intervals, d \in traded[s] : InWindow(d, target) =>
          d \in DaysOf(files[s][type][k]) \/ (interval <= k /\ d \in DaysOf(fetched))
    /\ type = ADJUSTED /\ s \notin raced => \E v \in 0..MaxVersion :
          /\ \A b \in fetched : b.version = v
          /\ \A k \in Intervals : \A b \in files[s][type][k] :
                k < interval \/ (InWindow(b.day, target) /\ b.day \notin DaysOf(fetched)) =>
                    b.version = v

(* The symbol at hand has no checkpoint that the run would skip. *)
AtHand(s) ==
    /\ pc \in {"fetch", "refetch", "save", "mark"} =>
          ~(/\ checkpoints[s][type].status = "success" /\ ~checkpoints[s][type].inactive
            /\ checkpoints[s][type].target = target)
    /\ pc = "save" => Saving(s)
    /\ pc = "mark" => Justified(s, type, outcome)

DailyInv ==
    /\ Typed /\ Calendar
    /\ \A s \in Symbols, p \in Types, k \in Intervals : FileSound(s, p, k)
    /\ \A s \in Symbols, p \in Types : Justified(s, p, checkpoints[s][p])
    /\ \A s \in Symbols : IsNextSymbol(s) => AtHand(s)

-----------------------------------------------------------------------------
(* Least and greatest elements.                                             *)
LEMMA LeastExists ==
  ASSUME NEW T \in SUBSET Nat, T # {}
  PROVE  \E x \in T : \A y \in T : x <= y
<1>1. PICK x \in T : \A y \in T : <<y, x>> \notin OpToRel(<, Nat)
  BY NatLessThanWellFounded, WFMin
<1>2. \A y \in T : ~(y < x)
  BY <1>1 DEF OpToRel
<1> QED BY <1>2

LEMMA MinOfIs ==
  ASSUME NEW T \in SUBSET Nat, T # {}
  PROVE  MinOf(T) \in T /\ \A y \in T : MinOf(T) <= y
  BY LeastExists DEF MinOf

LEMMA MaxOfIs ==
  ASSUME NEW n \in Nat, NEW T \in SUBSET (1..n), T # {}
  PROVE  MaxOf(T) \in T /\ \A y \in T : y <= MaxOf(T)
<1> DEFINE U == {j \in Nat : n - j \in T}
<1>1. \A t \in T : n - t \in U
  <2> SUFFICES ASSUME NEW t \in T PROVE n - t \in Nat /\ n - (n - t) \in T
    OBVIOUS
  <2>1. n - t \in Nat /\ n - (n - t) = t
    OBVIOUS
  <2> QED BY <2>1
<1>2. U # {}
  BY <1>1
<1>3. PICK x \in U : \A y \in U : x <= y
  BY <1>2, LeastExists
<1>4. n - x \in T /\ x \in Nat
  OBVIOUS
<1>5. ASSUME NEW y \in T PROVE y <= n - x
  <2>1. x <= n - y
    BY <1>1, <1>3
  <2> QED BY <1>4, <2>1
<1>6. \E z \in T : \A y \in T : z >= y
  BY <1>4, <1>5
<1>7. MaxOf(T) \in T /\ \A y \in T : MaxOf(T) >= y
  <2> HIDE DEF U
  <2> QED BY <1>6 DEF MaxOf
<1> QED BY <1>7

LEMMA MaxOfTwo ==
  ASSUME NEW a \in Int, NEW b \in Int
  PROVE  MaxOf({a, b}) = IF a <= b THEN b ELSE a
<1>1. CASE a <= b
  <2>1. \A x : (x \in {a, b} /\ \A y \in {a, b} : x >= y) <=> x = b
    BY <1>1
  <2> QED BY <1>1, <2>1 DEF MaxOf
<1>2. CASE ~(a <= b)
  <2>1. \A x : (x \in {a, b} /\ \A y \in {a, b} : x >= y) <=> x = a
    BY <1>2
  <2> QED BY <1>2, <2>1 DEF MaxOf
<1> QED BY <1>1, <1>2

(* A last bar is one of them, on a session. *)
LEMMA LastDayIs ==
  ASSUME NEW bars \in SUBSET Bars, bars # {}
  PROVE  /\ LastDay(bars) \in Days /\ \E b \in bars : b.day = LastDay(bars)
         /\ \A b \in bars : b.day <= LastDay(bars)
<1>1. DayCount \in Nat
  BY CollectionAssumption
<1>2. DaysOf(bars) # {} /\ DaysOf(bars) \in SUBSET (1..DayCount)
  BY DEF DaysOf, Bars, Days
<1>3. LastDay(bars) \in DaysOf(bars) /\ \A y \in DaysOf(bars) : y <= LastDay(bars)
  BY <1>1, <1>2, MaxOfIs DEF LastDay
<1> QED BY <1>2, <1>3 DEF DaysOf, Days

(* The window begins with its first session. *)
LEMMA WindowStartIs ==
  ASSUME target \in Days
  PROVE  /\ WindowStart \in Days /\ WindowStart <= target /\ target < WindowStart + HistoryDays
         /\ \A d \in Days : InWindow(d, target) => WindowStart <= d
<1>1. DayCount \in Nat /\ HistoryDays \in Nat \ {0}
  BY CollectionAssumption
<1>2. target \in Window(target)
  BY <1>1 DEF Window, InWindow, Days
<1>3. Window(target) \in SUBSET Nat /\ Window(target) # {}
  BY <1>1, <1>2 DEF Window, Days
<1>4. WindowStart \in Window(target) /\ \A y \in Window(target) : WindowStart <= y
  BY <1>3, MinOfIs DEF WindowStart
<1> QED BY <1>1, <1>4 DEF Window, InWindow

-----------------------------------------------------------------------------
(* What the files of a symbol hold of the window. *)
LEMMA ExistingIs ==
  ASSUME Typed, NEW s \in Symbols, NEW k \in Intervals
  PROVE  /\ Existing(s)[k] = {b \in files[s][type][k] : InWindow(b.day, target)}
         /\ Existing(s)[k] \in SUBSET Bars /\ files[s][type][k] \in SUBSET Bars
<1>1. Existing(s)[k] = {b \in files[s][type][k] : InWindow(b.day, target)}
  BY DEF Existing, Trim
<1>2. files[s][type][k] \in SUBSET Bars
  BY DEF Typed, DiskTyped, RunTyped
<1> QED BY <1>1, <1>2

(* A request starts no later than the last bar of any file, or with the        *)
(* window.                                                                  *)
LEMMA FetchStartIs ==
  ASSUME Typed, target \in Days, NEW s \in Symbols
  PROVE  /\ FetchStart(s) \in Int /\ WindowStart <= FetchStart(s)
         /\ FetchStart(s) = WindowStart \/
               /\ Stored(s) = Intervals
               /\ \A k \in Intervals : /\ Existing(s)[k] # {}
                                       /\ FetchStart(s) <= LastDay(Existing(s)[k])
<1>0. /\ WindowStart \in Nat /\ target \in Nat /\ DayCount \in Nat
      /\ RefreshDays \in Nat \ {0} /\ IntervalCount \in Nat \ {0}
      /\ \A d \in Days : InWindow(d, target) => WindowStart <= d
  BY WindowStartIs, CollectionAssumption DEF Days
<1>1. CASE Stored(s) # Intervals
  BY <1>0, <1>1 DEF FetchStart
<1>2. CASE Stored(s) = Intervals
  <2>1. \A k \in Intervals : Existing(s)[k] # {}
    BY <1>2 DEF Stored
  <2>2. ASSUME NEW k \in Intervals
        PROVE  LastDay(Existing(s)[k]) \in Nat /\ WindowStart <= LastDay(Existing(s)[k])
    <3>1. PICK b \in Existing(s)[k] : b.day = LastDay(Existing(s)[k]) /\ b.day \in Days
      BY <2>1, ExistingIs, LastDayIs
    <3>2. InWindow(b.day, target)
      BY ExistingIs
    <3> QED BY <1>0, <3>1, <3>2 DEF Days
  <2> DEFINE T == {LastDay(Existing(s)[k]) : k \in Intervals}
             from == MinOf(T)
  <2>3. T \in SUBSET Nat /\ T # {}
    BY <1>0, <2>2 DEF Intervals
  <2>4. from \in T /\ \A y \in T : from <= y
    BY <2>3, MinOfIs
  <2>5. from \in Nat /\ WindowStart <= from
    BY <2>2, <2>4
  <2>6. \A k \in Intervals : from <= LastDay(Existing(s)[k])
    BY <2>4
  <2>7. FetchStart(s) = IF type = ADJUSTED /\ target < from + RefreshDays
                        THEN MaxOf({(target + 1) - RefreshDays, WindowStart}) ELSE from
    BY <1>2 DEF FetchStart
  <2> HIDE DEF from
  <2>8. FetchStart(s) \in Int /\ FetchStart(s) <= from /\ WindowStart <= FetchStart(s)
    <3>1. CASE type = ADJUSTED /\ target < from + RefreshDays
      <4>1. (target + 1) - RefreshDays \in Int /\ WindowStart \in Int
        BY <1>0
      <4>2. FetchStart(s) = IF (target + 1) - RefreshDays <= WindowStart THEN WindowStart
                            ELSE (target + 1) - RefreshDays
        BY <2>7, <3>1, <4>1, MaxOfTwo
      <4> QED BY <1>0, <2>5, <3>1, <4>2
    <3>2. CASE ~(type = ADJUSTED /\ target < from + RefreshDays)
      BY <2>5, <2>7, <3>2
    <3> QED BY <3>1, <3>2
  <2>9. \A k \in Intervals : FetchStart(s) <= LastDay(Existing(s)[k])
    BY <2>2, <2>5, <2>6, <2>8
  <2> QED BY <1>2, <2>1, <2>8, <2>9
<1> QED BY <1>1, <1>2

(* A reply has the bars of the sessions asked for, under one adjustment if it  *)
(* is not torn.                                                             *)
LEMMA ReplyIs ==
  ASSUME WorldTyped, NEW s \in Symbols, NEW p \in Types, NEW from \in Int, NEW t \in Nat,
         NEW reply \in Replies(s, p, from, t)
  PROVE  /\ reply.bars \subseteq Bars /\ reply.torn \in BOOLEAN
         /\ DaysOf(reply.bars) = {x \in traded[s] : from <= x /\ x <= t}
         /\ reply.torn => version[s] < MaxVersion
         /\ ~reply.torn => \E v \in 0..MaxVersion : \A b \in reply.bars : b.version = v
<1> DEFINE bars == Answer(s, p, from, t)
           v == IF p = RAW THEN 0 ELSE version[s]
           days == {x \in traded[s] : from <= x /\ x <= t}
<1>0. MaxVersion \in Nat /\ version[s] \in 0..MaxVersion /\ traded[s] \subseteq Days
  BY CollectionAssumption DEF WorldTyped
<1>1. v \in 0..MaxVersion /\ days \subseteq Days
  BY <1>0
<1>2. bars = {[day |-> d, version |-> v] : d \in days}
  BY DEF Answer
<1> HIDE DEF bars, v, days
<1>3. bars \subseteq Bars /\ DaysOf(bars) = days /\ \A b \in bars : b.version = v
  <2>1. \A b \in bars : b \in Bars /\ b.day \in days /\ b.version = v
    BY <1>1, <1>2 DEF Bars
  <2>2. \A d \in days : \E b \in bars : b.day = d
    <3> SUFFICES ASSUME NEW d \in days PROVE \E b \in bars : b.day = d
      OBVIOUS
    <3>1. [day |-> d, version |-> v] \in bars
      BY <1>2
    <3> QED BY <3>1
  <2>3. \A d : d \in DaysOf(bars) <=> d \in days
    BY <2>1, <2>2 DEF DaysOf
  <2> QED BY <2>1, <2>3
<1>4. CASE reply = [bars |-> bars, torn |-> FALSE]
  BY <1>1, <1>3, <1>4 DEF days
<1>5. CASE reply # [bars |-> bars, torn |-> FALSE]
  <2>1. /\ p # RAW /\ version[s] # MaxVersion
        /\ \E cut : reply = [bars |-> {[b EXCEPT !.version = IF b.day < cut THEN @ ELSE @ + 1] :
                                          b \in bars}, torn |-> TRUE]
    BY <1>5 DEF Replies, bars
  <2>2. PICK cut : reply = [bars |-> {[b EXCEPT !.version = IF b.day < cut THEN b.version
                                                            ELSE b.version + 1] : b \in bars},
                            torn |-> TRUE]
    BY <2>1
  <2>3. v < MaxVersion
    BY <1>0, <2>1 DEF v
  <2> DEFINE e(b) == [b EXCEPT !.version = IF b.day < cut THEN b.version ELSE b.version + 1]
  <2>4. \A b \in bars : e(b) \in Bars /\ e(b).day = b.day
    BY <1>0, <1>1, <1>3, <2>3 DEF Bars
  <2>5. reply.torn = TRUE /\ reply.bars = {e(b) : b \in bars}
    BY <2>2
  <2> HIDE DEF e
  <2>6. \A d : d \in DaysOf(reply.bars) <=> d \in DaysOf(bars)
    BY <2>4, <2>5 DEF DaysOf
  <2>7. reply.bars \subseteq Bars /\ DaysOf(reply.bars) = days
    BY <1>3, <2>4, <2>5, <2>6
  <2>8. version[s] < MaxVersion
    BY <1>0, <2>1
  <2> QED BY <2>5, <2>7, <2>8 DEF days
<1> QED BY <1>4, <1>5

-----------------------------------------------------------------------------
LEMMA InitDaily == Init => DailyInv
<1> SUFFICES ASSUME Init PROVE DailyInv
  OBVIOUS
<1>0. /\ DayCount \in Nat /\ MaxVersion \in Nat /\ MaxAttempts \in Nat /\ IntervalCount \in Nat
      /\ CacheDays \in Nat
  BY CollectionAssumption
<1>1. Fresh \in Outcomes /\ NoEntry \in Entries /\ Fresh.status = "none" /\ Fresh.target = 0
  BY <1>0 DEF Fresh, NoEntry, Outcomes, Entries
<1>2. WorldTyped
  BY <1>0 DEF Init, WorldTyped
<1>3. DiskTyped
  BY <1>0, <1>1 DEF Init, DiskTyped, Types, NoEntry
<1>4. RunTyped
  BY <1>0, <1>1 DEF Init, RunTyped, Types, NoBars
<1>5. Calendar
  BY DEF Init, Calendar
<1>6. \A s \in Symbols, p \in Types, k \in Intervals : files[s][p][k] = {}
  BY DEF Init
<1>7. \A s \in Symbols, p \in Types, k \in Intervals : FileSound(s, p, k)
  BY <1>6 DEF FileSound, DaysOf
<1>8. \A s \in Symbols, p \in Types : Justified(s, p, checkpoints[s][p])
  <2>1. \A s \in Symbols, p \in Types : checkpoints[s][p] = Fresh
    BY DEF Init
  <2> QED BY <1>1, <2>1 DEF Init, Justified
<1>9. \A s \in Symbols : AtHand(s)
  BY DEF Init, AtHand
<1> QED BY <1>2, <1>3, <1>4, <1>5, <1>7, <1>8, <1>9 DEF DailyInv, Typed

(* While the files of a symbol stay, what was said of them does. *)
LEMMA FileStays ==
  ASSUME NEW s \in Symbols, NEW p \in Types, NEW k \in Intervals, FileSound(s, p, k),
         UNCHANGED traded, files'[s][p][k] = files[s][p][k],
         lastRun'.target = lastRun.target, raced \subseteq raced'
  PROVE  FileSound(s, p, k)'
  BY DEF FileSound

LEMMA JustifiedStays ==
  ASSUME NEW s \in Symbols, NEW p \in Types, NEW c, Justified(s, p, c),
         UNCHANGED traded, files'[s][p] = files[s][p],
         lastRun'.target = lastRun.target, raced \subseteq raced', dormant[s] \subseteq dormant'[s]
  PROVE  Justified(s, p, c)'
  BY DEF Justified

LEMMA CheckpointStays ==
  ASSUME NEW s \in Symbols, NEW p \in Types, Justified(s, p, checkpoints[s][p]),
         checkpoints'[s][p] = checkpoints[s][p],
         UNCHANGED traded, files'[s][p] = files[s][p],
         lastRun'.target = lastRun.target, raced \subseteq raced', dormant[s] \subseteq dormant'[s]
  PROVE  Justified(s, p, checkpoints[s][p])'
  BY DEF Justified

LEMMA SavingStays ==
  ASSUME NEW s \in Symbols, Saving(s),
         UNCHANGED <<traded, files, interval, fetched, type, target>>, raced \subseteq raced'
  PROVE  Saving(s)'
  BY DEF Saving

(* What the world does in the middle of a run changes nothing the run needs. *)
LEMMA AtHandStays ==
  ASSUME NEW s \in Symbols, AtHand(s),
         UNCHANGED <<pc, type, target, interval, fetched, outcome, files, checkpoints, traded>>,
         lastRun'.target = lastRun.target, raced \subseteq raced', dormant[s] \subseteq dormant'[s]
  PROVE  AtHand(s)'
<1>1. Saving(s) => Saving(s)'
  BY SavingStays
<1>2. Justified(s, type, outcome) => Justified(s, type, outcome)'
  BY DEF Justified
<1> QED BY <1>1, <1>2 DEF AtHand

(* Steps that change no file and no checkpoint. *)
LEMMA StoredStays ==
  ASSUME DailyInv, UNCHANGED <<traded, files, checkpoints>>,
         lastRun'.target = lastRun.target, raced \subseteq raced',
         \A s \in Symbols : dormant[s] \subseteq dormant'[s]
  PROVE  /\ \A s \in Symbols, p \in Types, k \in Intervals : FileSound(s, p, k)'
         /\ \A s \in Symbols, p \in Types : Justified(s, p, checkpoints[s][p])'
<1>1. /\ \A s \in Symbols, p \in Types, k \in Intervals : FileSound(s, p, k)
      /\ \A s \in Symbols, p \in Types : Justified(s, p, checkpoints[s][p])
  BY DEF DailyInv
<1>2. \A s \in Symbols, p \in Types, k \in Intervals : FileSound(s, p, k)'
  BY <1>1, FileStays
<1>3. \A s \in Symbols, p \in Types : Justified(s, p, checkpoints[s][p])'
  BY <1>1, CheckpointStays
<1> QED BY <1>2, <1>3

-----------------------------------------------------------------------------
(* The world.  A session that ends is outside of every window so far. *)
LEMMA NextDayStep == ASSUME DailyInv, NextDay PROVE DailyInv'
<1>0. Typed /\ Calendar
  BY DEF DailyInv
<1>1. /\ pc = "idle" /\ today < DayCount /\ today' = today + 1
      /\ traded' = [s \in Symbols |-> IF active[s] THEN traded[s] \cup {today'} ELSE traded[s]]
      /\ dormant' = [s \in Symbols |-> IF active[s] THEN dormant[s]
                                       ELSE dormant[s] \cup {today'}]
      /\ UNCHANGED <<active, version, raced, pc, files, minute, cache, checkpoints, lastRun,
                     tickers, target, type, attempt, pending, failed, lost, symbols, fetched,
                     interval, outcome>>
  BY DEF NextDay, disk, locals
<1>2. today \in Nat /\ DayCount \in Nat /\ today' \in Days /\ today' \in 0..DayCount
      /\ lastRun.target \in Nat /\ lastRun.target <= today
  BY <1>0, <1>1, CollectionAssumption DEF Typed, WorldTyped, DiskTyped, Calendar, Days
<1>3. Typed'
  <2>1. WorldTyped'
    BY <1>0, <1>1, <1>2 DEF Typed, WorldTyped
  <2>2. DiskTyped'
    BY <1>0, <1>1 DEF Typed, DiskTyped
  <2>3. RunTyped'
    BY <1>0, <1>1, <1>2 DEF Typed, RunTyped
  <2> QED BY <2>1, <2>2, <2>3 DEF Typed
<1>4. Calendar'
  BY <1>0, <1>1, <1>2 DEF Calendar
<1>5. \A s \in Symbols : /\ traded[s] \subseteq traded'[s] /\ dormant[s] \subseteq dormant'[s]
                         /\ \A d \in traded'[s] : InWindow(d, lastRun.target) => d \in traded[s]
  BY <1>1, <1>2 DEF InWindow
<1>6. ASSUME NEW s \in Symbols, NEW p \in Types, NEW k \in Intervals PROVE FileSound(s, p, k)'
  <2>1. FileSound(s, p, k)
    BY DEF DailyInv
  <2> QED BY <1>1, <1>5, <2>1 DEF FileSound
<1>7. ASSUME NEW s \in Symbols, NEW p \in Types PROVE Justified(s, p, checkpoints[s][p])'
  <2>1. Justified(s, p, checkpoints[s][p])
    BY DEF DailyInv
  <2> QED BY <1>1, <1>5, <2>1 DEF Justified
<1>8. \A s \in Symbols : AtHand(s)'
  BY <1>1 DEF AtHand
<1> QED BY <1>3, <1>4, <1>6, <1>7, <1>8 DEF DailyInv

LEMMA ChangeStatusStep ==
  ASSUME DailyInv, NEW s \in Symbols, ChangeStatus(s) PROVE DailyInv'
<1>0. Typed /\ Calendar
  BY DEF DailyInv
<1>1. /\ active' = [active EXCEPT ![s] = ~@]
      /\ dormant' = [dormant EXCEPT ![s] = @ \cup {today}]
      /\ UNCHANGED <<today, traded, version, raced, pc, files, minute, cache, checkpoints,
                     lastRun, tickers, target, type, attempt, pending, failed, lost, symbols,
                     fetched, interval, outcome>>
  BY DEF ChangeStatus, disk, locals
<1>2. /\ active'[s] \in BOOLEAN /\ dormant'[s] = dormant[s] \cup {today}
      /\ \A r \in Symbols \ {s} : active'[r] = active[r] /\ dormant'[r] = dormant[r]
      /\ active' \in [Symbols -> BOOLEAN] /\ dormant' \in [Symbols -> SUBSET (0..DayCount)]
  BY <1>0, <1>1 DEF Typed, WorldTyped
<1>3. Typed'
  <2>1. WorldTyped'
    BY <1>0, <1>1, <1>2 DEF Typed, WorldTyped
  <2>2. DiskTyped' /\ RunTyped'
    BY <1>0, <1>1 DEF Typed, DiskTyped, RunTyped
  <2> QED BY <2>1, <2>2 DEF Typed
<1>4. Calendar'
  BY <1>0, <1>1, <1>2 DEF Calendar
<1>5. \A r \in Symbols : dormant[r] \subseteq dormant'[r]
  BY <1>2
<1>6. \A r \in Symbols : IsNextSymbol(r)' => AtHand(r)'
  BY <1>1, <1>5, AtHandStays DEF DailyInv, IsNextSymbol
<1> QED BY <1>1, <1>3, <1>4, <1>5, <1>6, StoredStays DEF DailyInv

LEMMA SplitStep ==
  ASSUME DailyInv, NEW s \in Symbols, Split(s) PROVE DailyInv'
<1>0. Typed /\ Calendar
  BY DEF DailyInv
<1>1. /\ version' = [version EXCEPT ![s] = @ + 1] /\ version[s] < MaxVersion
      /\ UNCHANGED <<today, traded, active, dormant, raced, pc, files, minute, cache,
                     checkpoints, lastRun, tickers, target, type, attempt, pending, failed,
                     lost, symbols, fetched, interval, outcome>>
  BY DEF Split, disk, locals
<1>2. version' \in [Symbols -> 0..MaxVersion]
  BY <1>0, <1>1, CollectionAssumption DEF Typed, WorldTyped
<1>3. Typed'
  <2>1. WorldTyped'
    BY <1>0, <1>1, <1>2 DEF Typed, WorldTyped
  <2>2. DiskTyped' /\ RunTyped'
    BY <1>0, <1>1 DEF Typed, DiskTyped, RunTyped
  <2> QED BY <2>1, <2>2 DEF Typed
<1>4. Calendar'
  BY <1>0, <1>1 DEF Calendar
<1>6. \A r \in Symbols : IsNextSymbol(r)' => AtHand(r)'
  BY <1>1, AtHandStays DEF DailyInv, IsNextSymbol
<1> QED BY <1>1, <1>3, <1>4, <1>6, StoredStays DEF DailyInv

(* A run begins: its window is that of the last run or a later one. *)
LEMMA BeginStep == ASSUME DailyInv, Begin PROVE DailyInv'
<1>0. Typed /\ Calendar
  BY DEF DailyInv
<1>1. /\ pc = "idle" /\ today > 0
      /\ tickers' = Symbols \/ tickers' = tickers
      /\ symbols' = tickers' /\ pending' = tickers'
      /\ lastRun' = [status |-> "running", target |-> today]
      /\ pc' = "symbol" /\ target' = today /\ type' = ADJUSTED /\ attempt' = 1
      /\ failed' = {} /\ lost' = {}
      /\ fetched' = NoBars /\ interval' = 0 /\ outcome' = Fresh
      /\ UNCHANGED <<today, traded, active, version, dormant, raced, files, minute, cache,
                     checkpoints>>
  BY DEF Begin, LoadSymbols, world
<1>2. /\ today \in Nat /\ DayCount \in Nat /\ MaxAttempts \in Nat \ {0} /\ IntervalCount \in Nat
      /\ today \in Days /\ HistoryDays \in Nat
      /\ lastRun.target \in Nat /\ lastRun.target <= today /\ lastRun'.target = today
  BY <1>0, <1>1, CollectionAssumption DEF Typed, WorldTyped, DiskTyped, Calendar, Days
<1>3. Typed'
  <2>1. WorldTyped'
    BY <1>0, <1>1 DEF Typed, WorldTyped
  <2>2. lastRun' \in [status : {"none", "running", "success", "failed"}, target : 0..DayCount]
    BY <1>0, <1>1 DEF Typed, WorldTyped
  <2>3. tickers' \subseteq Symbols
    BY <1>0, <1>1 DEF Typed, DiskTyped
  <2>4. DiskTyped'
    BY <1>0, <1>1, <2>2, <2>3 DEF Typed, DiskTyped
  <2>5. outcome' \in Outcomes
    BY <1>1, <1>2 DEF Fresh, Outcomes
  <2>6. RunTyped'
    BY <1>1, <1>2, <2>3, <2>5 DEF RunTyped, Types, ADJUSTED, NoBars
  <2> QED BY <2>1, <2>4, <2>6 DEF Typed
<1>4. Calendar'
  BY <1>0, <1>1, <1>2 DEF Calendar
<1>5. ASSUME NEW s \in Symbols
      PROVE  traded[s] \in SUBSET Days
  BY <1>0 DEF Typed, WorldTyped
<1>6. ASSUME NEW s \in Symbols, NEW p \in Types, NEW k \in Intervals PROVE FileSound(s, p, k)'
  <2>1. FileSound(s, p, k)
    BY DEF DailyInv
  <2>2. files[s][p][k] \in SUBSET Bars
    BY <1>0 DEF Typed, DiskTyped
  <2>3. DaysOf(files[s][p][k]) \subseteq traded[s] \cap (1..today)
    BY <1>2, <2>1 DEF FileSound
  <2>4. ASSUME NEW d \in traded[s], NEW b \in files[s][p][k], d <= b.day, InWindow(d, today)
        PROVE  d \in DaysOf(files[s][p][k])
    <3>1. b.day \in DaysOf(files[s][p][k]) /\ d \in Nat
      BY <1>2, <1>5 DEF DaysOf, Days
    <3>2. b.day \in Nat /\ b.day <= lastRun.target
      BY <2>1, <3>1 DEF FileSound
    <3>3. InWindow(d, lastRun.target)
      BY <1>2, <2>4, <3>1, <3>2 DEF InWindow
    <3> QED BY <2>1, <2>4, <3>3 DEF FileSound
  <2>5. p = ADJUSTED /\ s \notin raced => \A a, b \in files[s][p][k] : a.version = b.version
    BY <2>1 DEF FileSound
  <2> QED BY <1>1, <1>2, <2>3, <2>4, <2>5 DEF FileSound
<1>7. ASSUME NEW s \in Symbols, NEW p \in Types PROVE Justified(s, p, checkpoints[s][p])'
  <2>1. PICK c \in Outcomes : c = checkpoints[s][p] /\ c = checkpoints'[s][p]
    BY <1>0, <1>1 DEF Typed, DiskTyped
  <2>2. Justified(s, p, c)
    BY <2>1 DEF DailyInv
  <2>3. c.target \in Nat /\ c.target <= lastRun.target
    BY <1>2, <2>2 DEF Justified, Outcomes
  <2>4. c.target <= today /\ (c.target = today => lastRun.target = today)
    BY <1>2, <2>3
  <2> QED BY <1>1, <1>2, <2>1, <2>2, <2>4 DEF Justified
<1>8. \A s \in Symbols : AtHand(s)'
  BY <1>1 DEF AtHand
<1> QED BY <1>3, <1>4, <1>6, <1>7, <1>8 DEF DailyInv

-----------------------------------------------------------------------------
(* Steps of a run that touch neither its files nor its checkpoints, and leave  *)
(* no symbol at hand.                                                       *)
LEMMA PassStep ==
  ASSUME DailyInv, UNCHANGED <<world, files, minute, cache, checkpoints, tickers, raced>>,
         lastRun' \in [status : {"none", "running", "success", "failed"}, target : 0..DayCount],
         lastRun'.target = lastRun.target, RunTyped',
         pc' \in {"idle", "symbol", "validate"},
         pc' = "idle" \/ (pc # "idle" /\ target' = target)
  PROVE  DailyInv'
<1>0. Typed /\ Calendar
  BY DEF DailyInv
<1>1. WorldTyped'
  BY <1>0 DEF Typed, WorldTyped, world
<1>2. DiskTyped'
  BY <1>0 DEF Typed, DiskTyped
<1>3. Calendar'
  BY <1>0 DEF Calendar, world
<1>4. \A s \in Symbols : AtHand(s)'
  BY DEF AtHand
<1> QED BY <1>1, <1>2, <1>3, <1>4, StoredStays DEF DailyInv, Typed, world

LEMMA SkipCompleteStep ==
  ASSUME DailyInv, NEW s \in Symbols, SkipComplete(s) PROVE DailyInv'
<1>1. /\ pc = "symbol" /\ pc' = "symbol" /\ pending' = pending \ {s}
      /\ UNCHANGED <<world, disk, raced, target, type, attempt, failed, lost, symbols, fetched,
                     interval, outcome>>
  BY DEF SkipComplete
<1>2. RunTyped'
  BY <1>1 DEF DailyInv, Typed, RunTyped, world, disk
<1>3. lastRun' \in [status : {"none", "running", "success", "failed"}, target : 0..DayCount]
  BY <1>1 DEF DailyInv, Typed, DiskTyped, disk
<1> QED BY <1>1, <1>2, <1>3, PassStep DEF disk

LEMMA EndRoundStep == ASSUME DailyInv, EndRound PROVE DailyInv'
<1>1. /\ pc = "symbol" /\ pc' \in {"symbol", "validate"} /\ type' \in {type, RAW}
      /\ failed' = {} /\ lost' \in {lost, lost \cup failed} /\ pending' \in {pending, failed, symbols}
      /\ pc' = "validate" => pending' = {}
      /\ attempt' = 1 \/ (attempt < MaxAttempts /\ attempt' = attempt + 1)
      /\ UNCHANGED <<world, disk, raced, target, symbols, fetched, interval, outcome>>
  BY DEF EndRound
<1>2. MaxAttempts \in Nat \ {0}
  BY CollectionAssumption
<1>3. attempt \in 0..MaxAttempts
  BY DEF DailyInv, Typed, RunTyped
<1>4. attempt' \in 0..MaxAttempts
  BY <1>1, <1>2, <1>3
<1>5. RunTyped'
  BY <1>1, <1>4 DEF DailyInv, Typed, RunTyped, world, disk, Types, RAW
<1>6. lastRun' \in [status : {"none", "running", "success", "failed"}, target : 0..DayCount]
  BY <1>1 DEF DailyInv, Typed, DiskTyped, disk
<1> QED BY <1>1, <1>5, <1>6, PassStep DEF disk

LEMMA FinishStep == ASSUME DailyInv, Finish PROVE DailyInv'
<1>0. Typed /\ Calendar
  BY DEF DailyInv
<1>1. /\ pc = "validate" /\ pc' = "idle" /\ symbols' = {} /\ lost' = {}
      /\ target' = 0 /\ type' = ADJUSTED /\ attempt' = 0
      /\ lastRun' = [status |-> IF lost = {} /\ Validated THEN "success" ELSE "failed",
                     target |-> target]
      /\ UNCHANGED <<world, files, minute, cache, checkpoints, tickers, raced, pending, failed,
                     fetched, interval, outcome>>
  BY DEF Finish
<1>2. /\ RunTyped' /\ WorldTyped
      /\ lastRun'.target = lastRun.target
      /\ lastRun' \in [status : {"none", "running", "success", "failed"}, target : 0..DayCount]
  <2>1. target \in Days /\ lastRun.target = target /\ today \in Nat /\ MaxAttempts \in Nat
    BY <1>0, <1>1, CollectionAssumption DEF Calendar, Typed, WorldTyped
  <2>2. pending = {} /\ failed = {}
    BY <1>0, <1>1 DEF Typed, RunTyped
  <2>3. target \in 0..DayCount
    BY <2>1, CollectionAssumption DEF Days
  <2> QED BY <1>0, <1>1, <2>1, <2>2, <2>3 DEF Typed, RunTyped, world, Types, ADJUSTED
<1> QED BY <1>1, <1>2, PassStep

LEMMA DiesStep == ASSUME DailyInv, Dies PROVE DailyInv'
<1>1. /\ pc' = "idle" /\ target' = 0 /\ type' = ADJUSTED /\ attempt' = 0
      /\ pending' = {} /\ failed' = {} /\ lost' = {} /\ symbols' = {}
      /\ fetched' = NoBars /\ interval' = 0 /\ outcome' = Fresh
      /\ UNCHANGED <<world, disk, raced>>
  BY DEF Dies
<1>2. today \in Nat /\ MaxAttempts \in Nat /\ IntervalCount \in Nat /\ DayCount \in Nat
  BY CollectionAssumption DEF DailyInv, Typed, WorldTyped
<1>3. outcome' \in Outcomes
  BY <1>1, <1>2 DEF Fresh, Outcomes
<1>4. RunTyped'
  BY <1>1, <1>2, <1>3 DEF DailyInv, Typed, RunTyped, world, Types, ADJUSTED, NoBars
<1>5. lastRun' \in [status : {"none", "running", "success", "failed"}, target : 0..DayCount]
  BY <1>1 DEF DailyInv, Typed, DiskTyped, disk
<1> QED BY <1>1, <1>4, <1>5, PassStep DEF disk

-----------------------------------------------------------------------------
(* The cache of inactive symbols: an entry is written while a symbol is        *)
(* inactive, and one that skips a symbol is not too old.                      *)
LEMMA InactiveIs ==
  ASSUME Typed, Calendar, NEW s \in Symbols, NEW latest \in Days, NEW t \in Days, t = today,
         NEW known, NEW skip \in BOOLEAN, NEW after, Inactive(s, latest, t, known, skip, after)
  PROVE  /\ cache' \in [Symbols -> Entries]
         /\ \A r \in Symbols : cache'[r] # NoEntry => cache'[r].checked \in dormant[r]
         /\ skip => \E e \in dormant[s] : t <= e + CacheDays
<1>0. /\ DayCount \in Nat /\ CacheDays \in Nat /\ NoEntry \in Entries
      /\ cache \in [Symbols -> Entries]
      /\ [last |-> latest, checked |-> t] \in Entries
  BY CollectionAssumption DEF NoEntry, Entries, Typed, DiskTyped, Days
<1>1. CASE cache' = cache /\ (skip => FreshInactive(s, latest, t))
  <2>1. skip => cache[s].checked \in dormant[s] /\ t <= cache[s].checked + CacheDays
    BY <1>1 DEF FreshInactive, Calendar
  <2> QED BY <1>0, <1>1, <2>1 DEF Calendar
<1>2. CASE ~skip /\ MarkActive(s, known, after)
  <2>1. cache' = [cache EXCEPT ![s] = NoEntry]
    BY <1>2 DEF MarkActive
  <2> QED BY <1>0, <1>2, <2>1 DEF Calendar
<1>3. CASE ~active[s] /\ MarkInactive(s, latest, t, known, after)
  <2>1. cache' = [cache EXCEPT ![s] = [last |-> latest, checked |-> t]]
    BY <1>3 DEF MarkInactive
  <2>2. t \in dormant[s] /\ t <= t + CacheDays
    BY <1>0, <1>3 DEF Calendar, Days
  <2>3. /\ cache' \in [Symbols -> Entries] /\ cache'[s].checked = t
        /\ \A r \in Symbols \ {s} : cache'[r] = cache[r]
    BY <1>0, <2>1
  <2> QED BY <2>2, <2>3 DEF Calendar
<1>4. \/ cache' = cache /\ (skip => FreshInactive(s, latest, t))
      \/ ~skip /\ MarkActive(s, known, after)
      \/ ~active[s] /\ MarkInactive(s, latest, t, known, after)
  BY DEF Inactive
<1> QED BY <1>1, <1>2, <1>3, <1>4

LEMMA CollectMinutesStep ==
  ASSUME DailyInv, NEW s \in Symbols, NEW p \in Types, CollectMinutes(s, p) PROVE DailyInv'
<1>0. Typed /\ Calendar
  BY DEF DailyInv
<1>1. /\ pc = "idle" /\ today \in Days
      /\ UNCHANGED <<world, files, checkpoints, lastRun, tickers, raced, pc, locals>>
  BY <1>0, CollectionAssumption DEF CollectMinutes, Typed, WorldTyped, Days
<1> DEFINE existing == Trim(minute[s][p], today)
           from == IF existing = {} THEN MinOf(Window(today)) ELSE LastDay(existing) + 1
<1>2. PICK skip \in BOOLEAN, after \in SUBSET Symbols :
        /\ IF existing = {} THEN ~skip /\ UNCHANGED <<cache, faults>>
           ELSE Inactive(s, LastDay(existing), today, {}, skip, after)
        /\ minute' = IF skip \/ Merge(existing, Answer(s, p, from, today), today) = {}
                     THEN minute
                     ELSE [minute EXCEPT ![s][p] =
                              Merge(existing, Answer(s, p, from, today), today)]
  BY DEF CollectMinutes
<1> HIDE DEF from
<1>3. existing \in SUBSET Bars
  BY <1>0 DEF Trim, Typed, DiskTyped
<1> HIDE DEF existing
<1>4. /\ cache' \in [Symbols -> Entries]
      /\ \A r \in Symbols : cache'[r] # NoEntry => cache'[r].checked \in dormant[r]
  <2>1. CASE existing = {}
    BY <1>0, <1>2, <2>1 DEF Calendar, Typed, DiskTyped
  <2>2. CASE existing # {}
    <3>1. PICK latest \in Days, t \in Days : latest = LastDay(existing) /\ t = today
      BY <1>1, <1>3, <2>2, LastDayIs
    <3>2. Inactive(s, latest, t, {}, skip, after)
      BY <1>2, <2>2, <3>1
    <3> QED BY <1>0, <3>1, <3>2, InactiveIs
  <2> QED BY <2>1, <2>2
<1>5. Answer(s, p, from, today) \in SUBSET Bars
  <2>1. MaxVersion \in Nat /\ version[s] \in 0..MaxVersion /\ traded[s] \subseteq Days
    BY <1>0, CollectionAssumption DEF Typed, WorldTyped
  <2> QED BY <2>1 DEF Answer, Bars
<1>6. Merge(existing, Answer(s, p, from, today), today) \in SUBSET Bars
  BY <1>3, <1>5 DEF Merge, Trim
<1>7. minute' \in [Symbols -> [Types -> SUBSET Bars]]
  BY <1>0, <1>2, <1>6 DEF Typed, DiskTyped
<1>8. Typed'
  BY <1>0, <1>1, <1>4, <1>7 DEF Typed, WorldTyped, DiskTyped, RunTyped, world, locals
<1>9. Calendar'
  BY <1>0, <1>1, <1>4 DEF Calendar, world, locals
<1>10. \A r \in Symbols : AtHand(r)'
  BY <1>1 DEF AtHand
<1> QED BY <1>1, <1>8, <1>9, <1>10, StoredStays DEF DailyInv, world

-----------------------------------------------------------------------------
(* The symbol at hand.  It has no checkpoint of this session, and is skipped   *)
(* only if it was seen inactive lately.                                      *)
LEMMA OnlyOneNext ==
  ASSUME RunTyped, DiskTyped, NEW s \in Symbols, NEW r \in Symbols, IsNextSymbol(s), IsNextSymbol(r)
  PROVE  r = s
<1>1. SymbolCount \in Nat
  BY CollectionAssumption
<1> QED BY <1>1 DEF IsNextSymbol, Symbols

LEMMA LookStep == ASSUME DailyInv, NEW s \in Symbols, Look(s) PROVE DailyInv'
<1>0. Typed /\ Calendar
  BY DEF DailyInv
<1>1. /\ pc = "symbol" /\ IsNextSymbol(s) /\ ~CheckpointComplete(s)
      /\ UNCHANGED <<world, files, minute, checkpoints, lastRun, tickers, raced, target, type,
                     attempt, pending, failed, lost, symbols, fetched, interval>>
  BY DEF Look
<1>2. target \in Days /\ target = today /\ lastRun.target = target
  BY <1>0, <1>1 DEF Calendar
<1>3. /\ cache' \in [Symbols -> Entries]
      /\ \A r \in Symbols : cache'[r] # NoEntry => cache'[r].checked \in dormant[r]
      /\ \/ pc' = "fetch" /\ outcome' = outcome
         \/ /\ pc' = "mark" /\ outcome' = Checkpoint("success", TRUE)
            /\ \E e \in dormant[s] : target <= e + CacheDays
  <2>1. CASE Stored(s) = {}
    BY <1>0, <2>1 DEF Look, Typed, DiskTyped, Calendar
  <2>2. CASE Stored(s) # {}
    <3> DEFINE T == {LastDay(Existing(s)[k]) : k \in Stored(s)}
    <3>1. PICK skip \in BOOLEAN, after \in SUBSET Symbols :
            /\ Inactive(s, MaxOf(T), target, confirmed, skip, after)
            /\ IF skip THEN pc' = "mark" /\ outcome' = Checkpoint("success", TRUE)
               ELSE pc' = "fetch" /\ UNCHANGED outcome
      BY <2>2 DEF Look
    <3>2. \A k \in Stored(s) : LastDay(Existing(s)[k]) \in Days
      BY <1>0, ExistingIs, LastDayIs DEF Stored
    <3>3. T \in SUBSET (1..DayCount) /\ T # {} /\ DayCount \in Nat
      BY <2>2, <3>2, CollectionAssumption DEF Days
    <3>4. MaxOf(T) \in Days
      BY <3>3, MaxOfIs DEF Days
    <3>5. PICK latest \in Days, t \in Days : latest = MaxOf(T) /\ t = target
      BY <1>2, <3>4
    <3> HIDE DEF T
    <3>6. PICK known : known = confirmed
      OBVIOUS
    <3>7. Inactive(s, latest, t, known, skip, after)
      BY <3>1, <3>5, <3>6
    <3>8. /\ cache' \in [Symbols -> Entries]
          /\ \A r \in Symbols : cache'[r] # NoEntry => cache'[r].checked \in dormant[r]
          /\ skip => \E e \in dormant[s] : t <= e + CacheDays
      BY <1>0, <1>2, <3>5, <3>7, InactiveIs
    <3> QED BY <3>1, <3>5, <3>8
  <2> QED BY <2>1, <2>2
<1>4. Checkpoint("success", TRUE) \in Outcomes
  BY <1>2, CollectionAssumption DEF Checkpoint, Outcomes, Days
<1>5. Typed'
  <2>1. outcome' \in Outcomes /\ pc' \in {"fetch", "mark"}
    BY <1>0, <1>3, <1>4 DEF Typed, RunTyped
  <2> QED BY <1>0, <1>1, <1>3, <2>1 DEF Typed, WorldTyped, DiskTyped, RunTyped, world
<1>6. Calendar'
  BY <1>0, <1>1, <1>2, <1>3 DEF Calendar, world
<1>7. ~(/\ checkpoints[s][type].status = "success" /\ ~checkpoints[s][type].inactive
        /\ checkpoints[s][type].target = target)
  <2>1. type \in Types
    BY <1>0 DEF Typed, RunTyped
  <2>2. Justified(s, type, checkpoints[s][type])
    BY <2>1 DEF DailyInv
  <2> QED BY <1>1, <2>2 DEF CheckpointComplete, Justified
<1>8. pc' = "mark" => Justified(s, type, outcome)'
  <2> SUFFICES ASSUME pc' = "mark" PROVE Justified(s, type, outcome)'
    OBVIOUS
  <2>1. /\ outcome'.target = target /\ outcome'.inactive = TRUE
        /\ \E e \in dormant[s] : target <= e + CacheDays
    BY <1>3 DEF Checkpoint
  <2>2. target <= lastRun.target
    BY <1>2 DEF Days
  <2> QED BY <1>1, <2>1, <2>2 DEF Justified, world
<1>9. AtHand(s)'
  BY <1>1, <1>3, <1>7, <1>8 DEF AtHand
<1>10. \A r \in Symbols : IsNextSymbol(r)' => AtHand(r)'
  <2>1. \A r \in Symbols : IsNextSymbol(r)' => r = s
    BY <1>0, <1>1, OnlyOneNext DEF Typed, IsNextSymbol
  <2> QED BY <1>9, <2>1
<1> QED BY <1>1, <1>5, <1>6, <1>10, StoredStays DEF DailyInv, world

-----------------------------------------------------------------------------
(* With what a request returned, the files of the symbol lack nothing: a       *)
(* session before the first one asked for is in every file already.  And if   *)
(* no bar of the overlap was revised, all of it is of one adjustment.         *)
LEMMA SavingStarts ==
  ASSUME DailyInv, target \in Days, lastRun.target = target, NEW s \in Symbols, NEW bars,
         NEW from \in Int,
         from = WindowStart \/ (from = FetchStart(s) /\ (type = ADJUSTED => ~Revised(s, bars))),
         bars \subseteq Bars, DaysOf(bars) = {x \in traded[s] : from <= x /\ x <= target},
         s \notin raced' => \E v \in 0..MaxVersion : \A b \in bars : b.version = v,
         fetched' = bars, interval' = 1, raced \subseteq raced',
         UNCHANGED <<files, traded, type, target>>
  PROVE  Saving(s)'
<1>0. /\ Typed /\ type \in Types /\ target \in Nat /\ HistoryDays \in Nat
      /\ traded[s] \subseteq Days /\ Days \subseteq Nat
  BY CollectionAssumption DEF DailyInv, Typed, WorldTyped, RunTyped, Days
<1>1. \A d \in Days : InWindow(d, target) => WindowStart <= d /\ WindowStart \in Nat
  BY WindowStartIs DEF Days
<1>2. \A k \in Intervals : FileSound(s, type, k)
  BY <1>0 DEF DailyInv
(* A session before the request is no later than the last bar of each file. *)
<1>3. ASSUME NEW d \in Days, InWindow(d, target), d < from, NEW k \in Intervals
      PROVE  /\ from = FetchStart(s) /\ (type = ADJUSTED => ~Revised(s, bars))
             /\ \E b \in Existing(s)[k] : from <= b.day /\ d <= b.day
  <2>1. from # WindowStart
    BY <1>0, <1>1, <1>3
  <2>2. from = FetchStart(s) /\ (type = ADJUSTED => ~Revised(s, bars))
    BY <2>1
  <2>3. Existing(s)[k] # {} /\ from <= LastDay(Existing(s)[k])
    BY <1>0, <2>1, <2>2, FetchStartIs
  <2>4. PICK b \in Existing(s)[k] : b.day = LastDay(Existing(s)[k]) /\ b.day \in Days
    BY <1>0, <2>3, ExistingIs, LastDayIs
  <2>5. b.day \in Nat /\ d \in Nat
    BY <1>0, <2>4
  <2>6. from <= b.day
    BY <2>3, <2>4
  <2>7. d <= b.day
    BY <1>3, <2>5, <2>6
  <2> QED BY <2>2, <2>6, <2>7
<1>4. \A k \in Intervals : \A b \in Existing(s)[k] :
         b \in files[s][type][k] /\ InWindow(b.day, target) /\ b.day \in traded[s]
  BY <1>0, <1>2, ExistingIs DEF FileSound, DaysOf
<1>5. ASSUME NEW k \in Intervals, NEW d \in traded[s], InWindow(d, target)
      PROVE  d \in DaysOf(files[s][type][k]) \/ d \in DaysOf(bars)
  <2>1. CASE from <= d
    BY <1>5, <2>1 DEF InWindow
  <2>2. CASE ~(from <= d)
    <3>1. d \in Days /\ d \in Nat
      BY <1>0
    <3>2. d < from
      BY <2>2, <3>1
    <3>3. PICK b \in Existing(s)[k] : d <= b.day
      BY <1>3, <1>5, <3>1, <3>2
    <3> QED BY <1>0, <1>2, <1>4, <1>5, <3>3 DEF FileSound
  <2> QED BY <2>1, <2>2
<1>6. ASSUME type = ADJUSTED, s \notin raced'
      PROVE  \E v \in 0..MaxVersion :
                /\ \A b \in bars : b.version = v
                /\ \A k \in Intervals : \A b \in files[s][type][k] :
                      InWindow(b.day, target) /\ b.day \notin DaysOf(bars) => b.version = v
  <2>1. PICK v \in 0..MaxVersion : \A b \in bars : b.version = v
    BY <1>6
  <2>2. ASSUME NEW k \in Intervals, NEW b \in files[s][type][k],
               InWindow(b.day, target), b.day \notin DaysOf(bars)
        PROVE  b.version = v
    <3>1. b.day \in traded[s] /\ b.day \in Days /\ b.day \in Nat
      BY <1>0, <1>2 DEF FileSound, DaysOf
    <3>2. b.day < from
      <4>1. b.day <= target
        BY <2>2 DEF InWindow
      <4>2. ~(from <= b.day)
        BY <2>2, <3>1, <4>1
      <4> QED BY <3>1, <4>2
    <3>3. PICK a \in Existing(s)[k] : ~Revised(s, bars) /\ from <= a.day
      BY <1>3, <1>6, <2>2, <3>1, <3>2
    <3>4. a.day \in DaysOf(bars)
      BY <1>4, <3>3 DEF InWindow
    <3>5. PICK c \in bars : c.day = a.day
      BY <3>4 DEF DaysOf
    <3>6. a.version = c.version
      BY <1>6, <3>3, <3>5 DEF Revised
    <3>7. a.version = b.version
      BY <1>2, <1>4, <1>6, <2>2 DEF FileSound
    <3> QED BY <2>1, <3>5, <3>6, <3>7
  <2> QED BY <2>1, <2>2
<1>7. 1 \in Intervals /\ \A k \in Intervals : 1 <= k /\ ~(k < 1)
  BY CollectionAssumption DEF Intervals
<1>8. DaysOf(bars) \subseteq traded[s] \cap (1..target)
  BY <1>0 DEF Days
<1> QED BY <1>5, <1>6, <1>7, <1>8 DEF Saving

(* The steps of an update between two files. *)
LEMMA UpdateStep ==
  ASSUME DailyInv, NEW s \in Symbols, IsNextSymbol(s), pc # "idle",
         UNCHANGED <<today, traded, active, dormant, files, minute, cache, checkpoints, lastRun,
                     tickers, target, type, attempt, pending, failed, lost, symbols>>,
         version' \in [Symbols -> 0..MaxVersion], raced \subseteq raced', raced' \subseteq Symbols,
         fetched' \subseteq Bars, interval' \in 0..(IntervalCount + 1), outcome' \in Outcomes,
         pc' \in {"refetch", "save", "mark"}, AtHand(s)'
  PROVE  DailyInv'
<1>0. Typed /\ Calendar
  BY DEF DailyInv
<1>1. Typed'
  BY <1>0 DEF Typed, WorldTyped, DiskTyped, RunTyped
<1>2. Calendar'
  BY <1>0 DEF Calendar
<1>3. \A r \in Symbols : IsNextSymbol(r)' => AtHand(r)'
  <2>1. \A r \in Symbols : IsNextSymbol(r)' => r = s
    BY <1>0, OnlyOneNext DEF Typed, IsNextSymbol
  <2> QED BY <2>1
<1> QED BY <1>1, <1>2, <1>3, StoredStays DEF DailyInv

LEMMA GiveUpIs ==
  ASSUME DailyInv, target \in Days, lastRun.target = target, GiveUp,
         UNCHANGED <<target, lastRun>>, NEW s \in Symbols
  PROVE  outcome' \in Outcomes /\ pc' = "mark" /\ Justified(s, type, outcome)'
<1>1. outcome' = [status |-> "failed", target |-> target, inactive |-> FALSE] /\ pc' = "mark"
  BY DEF GiveUp, Checkpoint
<1>2. outcome' \in Outcomes
  BY <1>1, CollectionAssumption DEF Outcomes, Days
<1>3. outcome'.target <= lastRun'.target
  BY <1>1 DEF Days
<1> QED BY <1>1, <1>2, <1>3 DEF Justified

(* A request of an update, from the day it starts with. *)
LEMMA RequestStep ==
  ASSUME DailyInv, NEW s \in Symbols, IsNextSymbol(s), pc \in {"fetch", "refetch"},
         NEW from \in Int, NEW reply \in Replies(s, type, from, target),
         Receive(s, reply),
         UNCHANGED <<today, traded, active, dormant, disk, target, type, attempt, pending, failed,
                     lost, symbols>>,
         \/ GiveUp /\ UNCHANGED interval
         \/ pc' = "refetch" /\ UNCHANGED <<interval, outcome>>
         \/ /\ pc' = "save" /\ interval' = 1 /\ UNCHANGED outcome
            /\ \/ from = WindowStart
               \/ from = FetchStart(s) /\ (type = ADJUSTED => ~Revised(s, reply.bars))
  PROVE  DailyInv'
<1>0. Typed /\ Calendar /\ AtHand(s)
  BY DEF DailyInv
<1>1. /\ target \in Days /\ lastRun.target = target /\ target \in Nat /\ type \in Types
      /\ MaxVersion \in Nat
  BY <1>0, CollectionAssumption DEF Calendar, Days, Typed, RunTyped
<1>2. /\ reply.bars \subseteq Bars /\ reply.torn \in BOOLEAN
      /\ DaysOf(reply.bars) = {x \in traded[s] : from <= x /\ x <= target}
      /\ reply.torn => version[s] < MaxVersion
      /\ ~reply.torn => \E v \in 0..MaxVersion : \A b \in reply.bars : b.version = v
  BY <1>0, <1>1, ReplyIs DEF Typed
<1>3. /\ fetched' = reply.bars
      /\ version' = [version EXCEPT ![s] = IF reply.torn THEN @ + 1 ELSE @]
      /\ raced' = IF reply.torn THEN raced \cup {s} ELSE raced
  BY DEF Receive
<1>4. version' \in [Symbols -> 0..MaxVersion] /\ raced \subseteq raced' /\ raced' \subseteq Symbols
  BY <1>0, <1>1, <1>2, <1>3 DEF Typed, WorldTyped
<1>5. /\ UNCHANGED <<files, minute, cache, checkpoints, lastRun, tickers>>
      /\ 1 \in 0..(IntervalCount + 1) /\ interval \in 0..(IntervalCount + 1)
      /\ outcome \in Outcomes
  BY <1>0, CollectionAssumption DEF disk, Typed, RunTyped
<1>6. ~(/\ checkpoints[s][type].status = "success" /\ ~checkpoints[s][type].inactive
        /\ checkpoints[s][type].target = target)
  BY <1>0 DEF AtHand
<1>7. CASE GiveUp /\ UNCHANGED interval
  <2>1. outcome' \in Outcomes /\ pc' = "mark" /\ Justified(s, type, outcome)'
    BY <1>1, <1>5, <1>7, GiveUpIs
  <2>2. AtHand(s)'
    BY <1>5, <1>6, <2>1 DEF AtHand
  <2> QED BY <1>2, <1>3, <1>4, <1>5, <1>7, <2>1, <2>2, UpdateStep
<1>8. CASE pc' = "refetch" /\ UNCHANGED <<interval, outcome>>
  <2>1. AtHand(s)'
    BY <1>5, <1>6, <1>8 DEF AtHand
  <2> QED BY <1>2, <1>3, <1>4, <1>5, <1>8, <2>1, UpdateStep
<1>9. CASE /\ pc' = "save" /\ interval' = 1 /\ UNCHANGED outcome
           /\ \/ from = WindowStart
              \/ from = FetchStart(s) /\ (type = ADJUSTED => ~Revised(s, reply.bars))
  <2>1. PICK bars : bars = reply.bars
    OBVIOUS
  <2>2. from = WindowStart \/ (from = FetchStart(s) /\ (type = ADJUSTED => ~Revised(s, bars)))
    BY <1>9, <2>1
  <2>3. s \notin raced' => \E v \in 0..MaxVersion : \A b \in bars : b.version = v
    BY <1>2, <1>3, <2>1
  <2>4. Saving(s)'
    BY <1>1, <1>2, <1>3, <1>4, <1>5, <1>9, <2>1, <2>2, <2>3, SavingStarts
  <2>5. AtHand(s)'
    BY <1>5, <1>6, <1>9, <2>4 DEF AtHand
  <2> QED BY <1>2, <1>3, <1>4, <1>5, <1>9, <2>5, UpdateStep
<1> QED BY <1>7, <1>8, <1>9

(* A request that fails. *)
LEMMA FailStep ==
  ASSUME DailyInv, NEW s \in Symbols, IsNextSymbol(s), pc \in {"fetch", "refetch", "save"}, GiveUp,
         UNCHANGED <<today, traded, active, dormant, version, raced, disk, target, type, attempt,
                     pending, failed, lost, symbols, fetched, interval>>
  PROVE  DailyInv'
<1>0. Typed /\ Calendar /\ AtHand(s)
  BY DEF DailyInv
<1>1. target \in Days /\ lastRun.target = target
  BY <1>0 DEF Calendar
<1>2. outcome' \in Outcomes /\ pc' = "mark" /\ Justified(s, type, outcome)'
  BY <1>1, GiveUpIs DEF disk
<1>3. AtHand(s)'
  BY <1>0, <1>2 DEF AtHand, disk
<1>4. /\ version' \in [Symbols -> 0..MaxVersion] /\ raced' \subseteq Symbols
      /\ fetched' \subseteq Bars /\ interval' \in 0..(IntervalCount + 1)
  BY <1>0 DEF Typed, WorldTyped, RunTyped
<1> QED BY <1>2, <1>3, <1>4, UpdateStep DEF disk

LEMMA FetchStep == ASSUME DailyInv, NEW s \in Symbols, Fetch(s) PROVE DailyInv'
<1>0. Typed /\ Calendar
  BY DEF DailyInv
<1>1. /\ pc = "fetch" /\ IsNextSymbol(s)
      /\ UNCHANGED <<today, traded, active, toggles, dormant, disk, target, type, attempt,
                     pending, failed, lost, symbols, confirmed>>
  BY DEF Fetch
<1>2. /\ target \in Days /\ WindowStart \in Int /\ FetchStart(s) \in Int
      /\ WindowStart <= FetchStart(s)
  BY <1>0, <1>1, FetchStartIs, WindowStartIs DEF Calendar, Days
<1>3. CASE Fails /\ GiveUp /\ UNCHANGED <<version, raced, fetched, interval>>
  BY <1>1, <1>3, FailStep
<1>4. CASE ~(Fails /\ GiveUp /\ UNCHANGED <<version, raced, fetched, interval>>)
  <2>1. PICK from \in Int : from = FetchStart(s)
    BY <1>2
  <2>2. PICK reply \in Replies(s, type, from, target) :
          /\ Receive(s, reply)
          /\ IF reply.bars = {} /\ Stored(s) = {} THEN GiveUp /\ UNCHANGED interval
             ELSE IF Revised(s, reply.bars) /\ from > WindowStart
             THEN pc' = "refetch" /\ UNCHANGED <<interval, outcome>>
             ELSE pc' = "save" /\ interval' = 1 /\ UNCHANGED outcome
    BY <1>4, <2>1 DEF Fetch
  <2>3. from = WindowStart \/ from > WindowStart
    BY <1>2, <2>1
  <2> QED BY <1>1, <2>1, <2>2, <2>3, RequestStep
<1> QED BY <1>3, <1>4

LEMMA RefetchStep == ASSUME DailyInv, NEW s \in Symbols, Refetch(s) PROVE DailyInv'
<1>0. Typed /\ Calendar
  BY DEF DailyInv
<1>1. /\ pc = "refetch" /\ IsNextSymbol(s)
      /\ UNCHANGED <<today, traded, active, toggles, dormant, disk, target, type, attempt,
                     pending, failed, lost, symbols, confirmed>>
  BY DEF Refetch
<1>2. WindowStart \in Int
  BY <1>0, <1>1, WindowStartIs DEF Calendar, Days
<1>3. CASE Fails /\ GiveUp /\ UNCHANGED <<version, raced, fetched, interval>>
  BY <1>1, <1>3, FailStep
<1>4. CASE ~(Fails /\ GiveUp /\ UNCHANGED <<version, raced, fetched, interval>>)
  <2>1. PICK from \in Int : from = WindowStart
    BY <1>2
  <2>2. PICK reply \in Replies(s, type, from, target) :
          /\ Receive(s, reply)
          /\ IF reply.bars = {} THEN GiveUp /\ UNCHANGED interval
             ELSE pc' = "save" /\ interval' = 1 /\ UNCHANGED outcome
    BY <1>4, <2>1 DEF Refetch
  <2> QED BY <1>1, <2>1, <2>2, RequestStep
<1> QED BY <1>3, <1>4

-----------------------------------------------------------------------------
(* A file is replaced by one that lacks nothing of the window. *)
LEMMA CombinedIs ==
  ASSUME DailyInv, NEW s \in Symbols, Saving(s), target \in Days, lastRun.target = target,
         NEW combined, combined = Merge(Existing(s)[interval], fetched, target)
  PROVE  /\ combined \subseteq Bars
         /\ DaysOf(combined) \subseteq traded[s] \cap (1..target)
         /\ \A d \in traded[s] : InWindow(d, target) => d \in DaysOf(combined)
         /\ \A b \in combined :
               \/ b \in fetched
               \/ b \in files[s][type][interval] /\ InWindow(b.day, target)
                     /\ b.day \notin DaysOf(fetched)
<1>0. Typed /\ type \in Types /\ interval \in Intervals /\ fetched \subseteq Bars
  BY DEF DailyInv, Typed, RunTyped, Saving
<1>1. combined = {b \in Existing(s)[interval] \cup fetched :
                     /\ b \in fetched \/ b.day \notin DaysOf(fetched)
                     /\ InWindow(b.day, target)}
  <2>1. \A b \in Existing(s)[interval] : InWindow(b.day, target)
    BY <1>0, ExistingIs
  <2> QED BY <2>1 DEF Merge, Trim
<1>2. \A b \in Existing(s)[interval] :
         b \in files[s][type][interval] /\ InWindow(b.day, target) /\ b \in Bars
  BY <1>0, ExistingIs
<1>3. FileSound(s, type, interval)
  BY <1>0 DEF DailyInv
<1>4. \A b \in combined :
         /\ b \in Bars
         /\ \/ b \in fetched
            \/ b \in files[s][type][interval] /\ InWindow(b.day, target)
                  /\ b.day \notin DaysOf(fetched)
  BY <1>0, <1>1, <1>2
<1>5. DaysOf(combined) \subseteq traded[s] \cap (1..target)
  <2> SUFFICES ASSUME NEW b \in combined PROVE b.day \in traded[s] \cap (1..target)
    BY DEF DaysOf
  <2>1. CASE b \in fetched
    BY <2>1 DEF Saving, DaysOf
  <2>2. CASE b \in files[s][type][interval]
    BY <1>3, <2>2 DEF FileSound, DaysOf
  <2> QED BY <1>4, <2>1, <2>2
<1>6. ASSUME NEW d \in traded[s], InWindow(d, target) PROVE d \in DaysOf(combined)
  <2>1. CASE d \in DaysOf(fetched)
    <3>1. PICK b \in fetched : b.day = d
      BY <2>1 DEF DaysOf
    <3>2. b \in combined
      BY <1>1, <1>6, <3>1
    <3> QED BY <3>1, <3>2 DEF DaysOf
  <2>2. CASE d \notin DaysOf(fetched)
    <3>1. d \in DaysOf(files[s][type][interval])
      BY <1>0, <1>6, <2>2 DEF Saving
    <3>2. PICK b \in files[s][type][interval] : b.day = d
      BY <3>1 DEF DaysOf
    <3>3. b \in Existing(s)[interval]
      BY <1>0, <1>6, <3>2, ExistingIs
    <3>4. b \in combined
      BY <1>1, <1>6, <2>2, <3>2, <3>3
    <3> QED BY <3>2, <3>4 DEF DaysOf
  <2> QED BY <2>1, <2>2
<1> QED BY <1>4, <1>5, <1>6

(* One file is saved. *)
LEMMA SavedStep ==
  ASSUME DailyInv, NEW s \in Symbols, IsNextSymbol(s), pc = "save",
         NEW combined, combined = Merge(Existing(s)[interval], fetched, target), combined # {},
         files' = [files EXCEPT ![s][type][interval] = combined],
         interval' = interval + 1,
         IF interval = IntervalCount
         THEN pc' = "mark" /\ outcome' = Checkpoint("success", FALSE)
         ELSE UNCHANGED <<pc, outcome>>,
         UNCHANGED <<today, traded, active, version, dormant, minute, cache, checkpoints, lastRun,
                     tickers, raced, target, type, attempt, pending, failed, lost, symbols,
                     fetched>>
  PROVE  DailyInv'
<1>0. Typed /\ Calendar /\ AtHand(s) /\ Saving(s)
  BY DEF DailyInv, AtHand
<1>1. /\ target \in Days /\ lastRun.target = target /\ target \in Nat /\ type \in Types
      /\ interval \in Intervals /\ IntervalCount \in Nat /\ interval \in Nat
      /\ interval + 1 \in 0..(IntervalCount + 1)
      /\ \A k \in Intervals : k \in Nat /\ k <= IntervalCount
  BY <1>0, CollectionAssumption DEF Calendar, Days, Typed, RunTyped, Saving, Intervals
<1>2. /\ combined \subseteq Bars
      /\ DaysOf(combined) \subseteq traded[s] \cap (1..target)
      /\ \A d \in traded[s] : InWindow(d, target) => d \in DaysOf(combined)
      /\ \A b \in combined :
            \/ b \in fetched
            \/ b \in files[s][type][interval] /\ InWindow(b.day, target)
                  /\ b.day \notin DaysOf(fetched)
  BY <1>0, <1>1, CombinedIs
<1>3. files' \in [Symbols -> [Types -> [Intervals -> SUBSET Bars]]]
  BY <1>0, <1>1, <1>2 DEF Typed, DiskTyped
<1>4. /\ files'[s][type][interval] = combined
      /\ \A k \in Intervals \ {interval} : files'[s][type][k] = files[s][type][k]
      /\ \A p \in Types \ {type} : files'[s][p] = files[s][p]
      /\ \A r \in Symbols \ {s} : files'[r] = files[r]
  BY <1>0, <1>1 DEF Typed, DiskTyped
<1>5. /\ pc' \in {"save", "mark"} /\ outcome' \in Outcomes
      /\ pc' = "mark" => interval = IntervalCount /\ outcome' = Checkpoint("success", FALSE)
      /\ pc' = "save" => interval + 1 \in Intervals
  <2>1. outcome \in Outcomes /\ Checkpoint("success", FALSE) \in Outcomes
    BY <1>0, <1>1, CollectionAssumption DEF Typed, RunTyped, Checkpoint, Outcomes, Days
  <2>2. CASE interval = IntervalCount
    BY <2>1, <2>2
  <2>3. CASE interval # IntervalCount
    <3>1. interval + 1 \in Intervals
      BY <1>1, <2>3 DEF Intervals
    <3> QED BY <2>1, <2>3, <3>1
  <2> QED BY <2>2, <2>3
<1>6. Typed'
  <2>1. WorldTyped'
    BY <1>0 DEF Typed, WorldTyped
  <2>2. DiskTyped'
    BY <1>0, <1>3 DEF Typed, DiskTyped
  <2>3. RunTyped'
    BY <1>0, <1>1, <1>5 DEF Typed, RunTyped
  <2> QED BY <2>1, <2>2, <2>3 DEF Typed
<1>7. Calendar'
  BY <1>0, <1>5 DEF Calendar
(* What Saving says, of the files as they are now. *)
<1>8. \A k \in Intervals : k < interval + 1 => files'[s][type][k] # {}
  <2>1. \A k \in Intervals : k < interval + 1 => k < interval \/ k = interval
    BY <1>1
  <2> QED BY <1>0, <1>4, <2>1 DEF Saving
<1>9. \A k \in Intervals, d \in traded[s] : InWindow(d, target) =>
         d \in DaysOf(files'[s][type][k]) \/ (interval + 1 <= k /\ d \in DaysOf(fetched))
  <2> SUFFICES ASSUME NEW k \in Intervals, NEW d \in traded[s], InWindow(d, target)
               PROVE  d \in DaysOf(files'[s][type][k])
                        \/ (interval + 1 <= k /\ d \in DaysOf(fetched))
    OBVIOUS
  <2>1. CASE k = interval
    BY <1>2, <1>4, <2>1
  <2>2. CASE k # interval
    <3>1. interval <= k => interval + 1 <= k
      BY <1>1, <2>2
    <3> QED BY <1>0, <1>4, <2>2, <3>1 DEF Saving
  <2> QED BY <2>1, <2>2
<1>10. type = ADJUSTED /\ s \notin raced => \E v \in 0..MaxVersion :
          /\ \A b \in fetched : b.version = v
          /\ \A b \in combined : b.version = v
          /\ \A k \in Intervals : \A b \in files'[s][type][k] :
                k < interval + 1 \/ (InWindow(b.day, target) /\ b.day \notin DaysOf(fetched)) =>
                    b.version = v
  <2> SUFFICES ASSUME type = ADJUSTED, s \notin raced
               PROVE  \E v \in 0..MaxVersion :
                        /\ \A b \in fetched : b.version = v
                        /\ \A b \in combined : b.version = v
                        /\ \A k \in Intervals : \A b \in files'[s][type][k] :
                              k < interval + 1
                                \/ (InWindow(b.day, target) /\ b.day \notin DaysOf(fetched)) =>
                                  b.version = v
    OBVIOUS
  <2>1. PICK v \in 0..MaxVersion :
          /\ \A b \in fetched : b.version = v
          /\ \A k \in Intervals : \A b \in files[s][type][k] :
                k < interval \/ (InWindow(b.day, target) /\ b.day \notin DaysOf(fetched)) =>
                    b.version = v
    BY <1>0 DEF Saving
  <2>2. \A b \in combined : b.version = v
    BY <1>1, <1>2, <2>1
  <2>3. \A k \in Intervals : k < interval + 1 => k < interval \/ k = interval
    BY <1>1
  <2>4. ASSUME NEW k \in Intervals, NEW b \in files'[s][type][k],
               k < interval + 1 \/ (InWindow(b.day, target) /\ b.day \notin DaysOf(fetched))
        PROVE  b.version = v
    <3>1. CASE k = interval
      BY <1>4, <2>2, <2>4, <3>1
    <3>2. CASE k # interval
      BY <1>4, <2>1, <2>3, <2>4, <3>2
    <3> QED BY <3>1, <3>2
  <2> QED BY <2>1, <2>2, <2>4
<1>11. ASSUME NEW r \in Symbols, NEW p \in Types, NEW k \in Intervals PROVE FileSound(r, p, k)'
  <2>1. FileSound(r, p, k)
    BY DEF DailyInv
  <2>2. CASE r = s /\ p = type /\ k = interval
    <3>1. files'[r][p][k] = combined
      BY <1>4, <2>2
    <3>2. DaysOf(combined) \subseteq traded[r] \cap (1..lastRun.target)
      BY <1>1, <1>2, <2>2
    <3>3. \A d \in traded[r] : InWindow(d, lastRun.target) => d \in DaysOf(combined)
      BY <1>1, <1>2, <2>2
    <3>4. p = ADJUSTED /\ r \notin raced => \A a, b \in combined : a.version = b.version
      BY <1>10, <2>2
    <3> QED BY <3>1, <3>2, <3>3, <3>4 DEF FileSound
  <2>3. CASE ~(r = s /\ p = type /\ k = interval)
    <3>1. files'[r][p][k] = files[r][p][k]
      BY <1>4, <2>3
    <3> QED BY <2>1, <3>1, FileStays
  <2> QED BY <2>2, <2>3
<1>12. ASSUME NEW r \in Symbols, NEW p \in Types PROVE Justified(r, p, checkpoints[r][p])'
  <2>1. Justified(r, p, checkpoints[r][p])
    BY DEF DailyInv
  <2>2. CASE r = s /\ p = type
    <3>1. PICK c : c = checkpoints[r][p] /\ c = checkpoints'[r][p]
      OBVIOUS
    <3>2. Justified(r, p, c)
      BY <2>1, <3>1
    <3>3. ~(c.status = "success" /\ ~c.inactive /\ c.target = lastRun.target)
      BY <1>0, <1>1, <2>2, <3>1 DEF AtHand
    <3>4. \A k \in Intervals : files[r][p][k] # {} => files'[r][p][k] # {}
      BY <1>4, <2>2
    <3>5. Justified(r, p, c)'
      BY <3>2, <3>3, <3>4 DEF Justified
    <3> QED BY <3>1, <3>5 DEF Justified
  <2>3. CASE ~(r = s /\ p = type)
    <3>1. files'[r][p] = files[r][p]
      BY <1>4, <2>3
    <3> QED BY <2>1, <3>1, CheckpointStays
  <2> QED BY <2>2, <2>3
<1>13. ASSUME pc' = "save" PROVE AtHand(s)'
  <2>1. Saving(s)'
    BY <1>0, <1>5, <1>8, <1>9, <1>10, <1>13 DEF Saving
  <2> QED BY <1>0, <1>13, <2>1 DEF AtHand
<1>14. ASSUME pc' = "mark" PROVE AtHand(s)'
  <2>1. /\ outcome' = Checkpoint("success", FALSE)
        /\ \A k \in Intervals : k < interval + 1 /\ ~(interval + 1 <= k)
    BY <1>1, <1>5, <1>14
  <2>2. outcome'.target = target /\ target <= lastRun.target
    BY <1>1, <2>1 DEF Checkpoint
  <2>3. outcome'.inactive = FALSE
    BY <2>1 DEF Checkpoint
  <2>4. \A k \in Intervals : files'[s][type][k] # {}
    BY <1>8, <2>1
  <2>5. \A k \in Intervals : \A d \in traded[s] :
           InWindow(d, lastRun.target) => d \in DaysOf(files'[s][type][k])
    BY <1>1, <1>9, <2>1
  <2>6. type = ADJUSTED /\ s \notin raced =>
           \E v \in 0..MaxVersion : \A k \in Intervals : \A b \in files'[s][type][k] :
              b.version = v
    BY <1>10, <2>1
  <2>7. Justified(s, type, outcome)'
    BY <2>2, <2>3, <2>4, <2>5, <2>6 DEF Justified
  <2> QED BY <1>0, <1>14, <2>7 DEF AtHand
<1>15. \A r \in Symbols : IsNextSymbol(r)' => AtHand(r)'
  <2>1. \A r \in Symbols : IsNextSymbol(r)' => r = s
    BY <1>0, OnlyOneNext DEF Typed, IsNextSymbol
  <2>2. AtHand(s)'
    BY <1>5, <1>13, <1>14
  <2> QED BY <2>1, <2>2
<1> QED BY <1>6, <1>7, <1>11, <1>12, <1>15 DEF DailyInv

LEMMA SaveStep == ASSUME DailyInv, NEW s \in Symbols, Save(s) PROVE DailyInv'
<1>1. /\ pc = "save" /\ IsNextSymbol(s)
      /\ UNCHANGED <<world, minute, cache, checkpoints, lastRun, tickers, raced, target, type,
                     attempt, pending, failed, lost, symbols, fetched>>
  BY DEF Save
<1>2. CASE GiveUp /\ UNCHANGED <<files, interval>>
  BY <1>1, <1>2, FailStep DEF world, disk
<1>3. CASE ~(GiveUp /\ UNCHANGED <<files, interval>>)
  <2>1. PICK combined : combined = Merge(Existing(s)[interval], fetched, target)
    OBVIOUS
  <2>2. /\ combined # {}
        /\ files' = [files EXCEPT ![s][type][interval] = combined]
        /\ interval' = interval + 1
        /\ IF interval = IntervalCount
           THEN pc' = "mark" /\ outcome' = Checkpoint("success", FALSE)
           ELSE UNCHANGED <<pc, outcome>>
    BY <1>3, <2>1 DEF Save
  <2> QED BY <1>1, <2>1, <2>2, SavedStep DEF world
<1> QED BY <1>2, <1>3

-----------------------------------------------------------------------------
(* The checkpoint is written. *)
LEMMA MarkStep == ASSUME DailyInv, NEW s \in Symbols, Mark(s) PROVE DailyInv'
<1>0. Typed /\ Calendar /\ AtHand(s)
  BY DEF DailyInv, Mark
<1>1. /\ pc = "mark" /\ IsNextSymbol(s)
      /\ checkpoints' = [checkpoints EXCEPT ![s][type] = outcome]
      /\ pending' = pending \ {s} /\ failed' \in {failed, failed \cup {s}}
      /\ pc' = "symbol" /\ fetched' = NoBars /\ interval' = 0 /\ outcome' = Fresh
      /\ UNCHANGED <<today, traded, active, version, dormant, files, minute, cache, lastRun,
                     tickers, raced, target, type, attempt, lost, symbols>>
  BY DEF Mark, world
<1>2. /\ type \in Types /\ outcome \in Outcomes /\ s \in symbols
      /\ Justified(s, type, outcome)
  BY <1>0, <1>1 DEF Typed, RunTyped, AtHand, IsNextSymbol
<1>3. /\ checkpoints' \in [Symbols -> [Types -> Outcomes]] /\ checkpoints'[s][type] = outcome
      /\ \A r \in Symbols, p \in Types :
            ~(r = s /\ p = type) => checkpoints'[r][p] = checkpoints[r][p]
  BY <1>0, <1>1, <1>2 DEF Typed, DiskTyped
<1>4. Typed'
  <2>1. WorldTyped'
    BY <1>0, <1>1 DEF Typed, WorldTyped
  <2>2. DiskTyped'
    BY <1>0, <1>1, <1>3 DEF Typed, DiskTyped
  <2>3. Fresh \in Outcomes /\ 0 \in 0..(IntervalCount + 1)
    BY CollectionAssumption DEF Fresh, Outcomes
  <2>4. RunTyped'
    BY <1>0, <1>1, <1>2, <2>3 DEF Typed, RunTyped, NoBars
  <2> QED BY <2>1, <2>2, <2>4 DEF Typed
<1>5. Calendar'
  BY <1>0, <1>1 DEF Calendar
<1>6. \A r \in Symbols, p \in Types, k \in Intervals : FileSound(r, p, k)'
  BY <1>1, FileStays DEF DailyInv
<1>7. ASSUME NEW r \in Symbols, NEW p \in Types PROVE Justified(r, p, checkpoints[r][p])'
  <2>1. CASE r = s /\ p = type
    <3>1. PICK c : c = outcome /\ c = checkpoints'[r][p]
      BY <1>3, <2>1
    <3>2. Justified(r, p, c)'
      BY <1>1, <1>2, <2>1, <3>1, JustifiedStays
    <3> QED BY <3>1, <3>2 DEF Justified
  <2>2. CASE ~(r = s /\ p = type)
    BY <1>1, <1>3, <2>2, CheckpointStays DEF DailyInv
  <2> QED BY <2>1, <2>2
<1>8. \A r \in Symbols : AtHand(r)'
  BY <1>1 DEF AtHand
<1> QED BY <1>4, <1>5, <1>6, <1>7, <1>8 DEF DailyInv

-----------------------------------------------------------------------------
LEMMA StepDaily == DailyInv /\ [Next]_vars => DailyInv'
<1> SUFFICES ASSUME DailyInv, [Next]_vars PROVE DailyInv'
  OBVIOUS
<1>1. CASE NextDay
  BY <1>1, NextDayStep
<1>2. CASE \E s \in Symbols : ChangeStatus(s) \/ Split(s)
  BY <1>2, ChangeStatusStep, SplitStep
<1>3. CASE Begin
  BY <1>3, BeginStep
<1>4. CASE Step
  BY <1>4, SkipCompleteStep, LookStep, FetchStep, RefetchStep, SaveStep, MarkStep, EndRoundStep,
     FinishStep DEF Step
<1>5. CASE Dies
  BY <1>5, DiesStep
<1>6. CASE \E s \in Symbols, p \in Types : CollectMinutes(s, p)
  BY <1>6, CollectMinutesStep
<1>7. CASE UNCHANGED vars
  <2>1. /\ UNCHANGED <<today, traded, active, version, dormant, raced, pc, files, minute, cache,
                       checkpoints, lastRun, tickers, target, type, attempt, pending, failed,
                       lost, symbols, fetched, interval, outcome>>
    BY <1>7 DEF vars, world, disk, locals
  <2>2. Typed'
    BY <2>1 DEF DailyInv, Typed, WorldTyped, DiskTyped, RunTyped
  <2>3. Calendar'
    BY <2>1 DEF DailyInv, Calendar
  <2>4. \A r \in Symbols : IsNextSymbol(r)' => AtHand(r)'
    BY <2>1, AtHandStays DEF DailyInv, IsNextSymbol
  <2> QED BY <2>1, <2>2, <2>3, <2>4, StoredStays DEF DailyInv
<1> QED BY <1>1, <1>2, <1>3, <1>4, <1>5, <1>6, <1>7 DEF Next

LEMMA AlwaysDaily == Spec => []DailyInv
  BY InitDaily, StepDaily, PTL DEF Spec

(* Every variable keeps its type, under any order of the steps of the         *)
(* collectors and of the world.                                             *)
THEOREM AlwaysTyped == Spec => []TypeOK
<1>1. DailyInv => TypeOK
  BY DEF DailyInv, Typed, WorldTyped, DiskTyped, RunTyped, TypeOK, Entries, Outcomes
<1> QED BY <1>1, AlwaysDaily, PTL

(* A checkpoint that lets later runs of the session skip a symbol is true: its *)
(* files hold every bar of the window, whatever failed or died between saves. *)
THEOREM AlwaysCheckpointIsComplete == Spec => []CheckpointIsComplete
<1>1. DailyInv => CheckpointIsComplete
  <2> SUFFICES ASSUME DailyInv, NEW s \in Symbols, NEW p \in Types, Collected(s, p),
                      NEW k \in Intervals
               PROVE  Missing(s, p, k) = {}
    BY DEF CheckpointIsComplete
  <2>1. Justified(s, p, checkpoints[s][p])
    BY DEF DailyInv
  <2>2. \A d \in traded[s] :
           InWindow(d, lastRun.target) => d \in DaysOf(files[s][p][k])
    BY <2>1 DEF Collected, Updated, Justified
  <2> QED BY <2>2 DEF Missing, Window
<1> QED BY <1>1, AlwaysDaily, PTL

(* The adjusted files of a symbol with such a checkpoint have one adjustment,  *)
(* also after a crash that left some of them re-adjusted, unless Alpaca       *)
(* changed it in the middle of a fetch.                                      *)
THEOREM AlwaysOneAdjustment == Spec => []OneAdjustment
<1>1. DailyInv => OneAdjustment
  <2> SUFFICES ASSUME DailyInv, NEW s \in Symbols \ raced, Collected(s, ADJUSTED),
                      NEW j \in Intervals, NEW k \in Intervals,
                      NEW a \in files[s][ADJUSTED][j], NEW b \in files[s][ADJUSTED][k]
               PROVE  a.version = b.version
    BY DEF OneAdjustment
  <2>1. Justified(s, ADJUSTED, checkpoints[s][ADJUSTED])
    BY DEF DailyInv, Types, ADJUSTED
  <2>2. PICK v \in 0..MaxVersion : \A i \in Intervals : \A c \in files[s][ADJUSTED][i] : c.version = v
    BY <2>1 DEF Collected, Updated, Justified
  <2> QED BY <2>2
<1> QED BY <1>1, AlwaysDaily, PTL

(* What a symbol skipped as inactive lacks is from before it was last seen    *)
(* inactive, or younger than an entry of the cache may get, whichever        *)
(* collector and price type wrote the entry.                                 *)
THEOREM AlwaysSkippedForCacheDays == Spec => []SkippedForCacheDays
<1>1. DailyInv => SkippedForCacheDays
  <2> SUFFICES ASSUME DailyInv, NEW s \in Symbols, NEW p \in Types, Updated(s, p),
                      NEW k \in Intervals, NEW d \in Missing(s, p, k)
               PROVE  \/ d + CacheDays > lastRun.target
                      \/ \E e \in dormant[s] : e >= d
    BY DEF SkippedForCacheDays
  <2>0. /\ d \in traded[s] /\ InWindow(d, lastRun.target) /\ d \notin DaysOf(files[s][p][k])
    BY DEF Missing, Window
  <2>1. Justified(s, p, checkpoints[s][p])
    BY DEF DailyInv
  <2>2. checkpoints[s][p].inactive
    <3>1. CASE ~checkpoints[s][p].inactive
      BY <2>0, <2>1, <3>1 DEF Updated, Justified
    <3> QED BY <3>1
  <2>3. PICK e \in dormant[s] : lastRun.target <= e + CacheDays
    BY <2>1, <2>2 DEF Updated, Justified
  <2>4. d \in Nat /\ e \in Nat /\ CacheDays \in Nat /\ lastRun.target \in Nat
    BY <2>0, CollectionAssumption DEF DailyInv, Typed, WorldTyped, DiskTyped, Days
  <2>5. e >= d \/ e < d
    BY <2>4
  <2> QED BY <2>3, <2>4, <2>5
<1> QED BY <1>1, AlwaysDaily, PTL

-----------------------------------------------------------------------------
(* What a run knows of its symbols.  The checkpoint of the run's session is   *)
(* good for every symbol that is not still to be tried, not to be tried again *)
(* and not given up; the session's adjusted checkpoints keep while the raw    *)
(* prices are collected.                                                     *)
Done(s, p) == checkpoints[s][p].status = "success" /\ checkpoints[s][p].target = target

RunInv ==
    /\ lastRun.status = "success" =>
          pc = "idle" /\ \A s \in tickers, p \in Types : Updated(s, p)
    /\ pc # "idle" => symbols = tickers
    /\ pc # "idle" /\ type = RAW => \A s \in symbols \ lost : Done(s, ADJUSTED)
    /\ pc \notin {"idle", "validate"} =>
          \A s \in symbols \ (pending \cup failed) : Done(s, type)
    /\ pc = "validate" => type = RAW /\ \A s \in symbols \ lost : Done(s, RAW)
    /\ pc = "mark" => outcome.target = target /\ outcome.status \in {"success", "failed"}

(* A step inside the update of a symbol.  *)
LEMMA InsideUpdate ==
  ASSUME RunInv, pc \in {"symbol", "fetch", "refetch", "save"},
         pc' \in {"symbol", "fetch", "refetch", "save", "mark"},
         UNCHANGED <<checkpoints, lastRun, tickers, symbols, failed, lost, target, type>>,
         pending \subseteq pending' \/ \A s \in pending \ pending' : Done(s, type),
         pc' = "mark" => outcome'.target = target /\ outcome'.status \in {"success", "failed"}
  PROVE  RunInv'
  BY DEF RunInv, Done

LEMMA StepInside ==
  ASSUME RunInv, NEW s \in Symbols, SkipComplete(s) \/ Look(s) \/ Fetch(s) \/ Refetch(s) \/ Save(s)
  PROVE  RunInv'
<1>1. CASE SkipComplete(s)
  <2>1. /\ pc = "symbol" /\ pending' = pending \ {s} /\ Done(s, type)
        /\ UNCHANGED <<checkpoints, lastRun, tickers, pc, symbols, failed, lost, target, type>>
    BY <1>1 DEF SkipComplete, disk, CheckpointComplete, Done
  <2> QED BY <2>1, InsideUpdate
<1>2. CASE Look(s)
  <2>1. /\ pc = "symbol" /\ pc' \in {"fetch", "mark"}
        /\ pc' = "mark" => outcome' = Checkpoint("success", TRUE)
        /\ UNCHANGED <<checkpoints, lastRun, tickers, pending, symbols, failed, lost, target, type>>
    BY <1>2 DEF Look
  <2> QED BY <2>1, InsideUpdate DEF Checkpoint
<1>3. CASE Fetch(s)
  <2>1. /\ pc = "fetch" /\ pc' \in {"refetch", "save", "mark"}
        /\ pc' = "mark" => outcome' = Checkpoint("failed", FALSE)
        /\ UNCHANGED <<checkpoints, lastRun, tickers, pending, symbols, failed, lost, target, type>>
    BY <1>3 DEF Fetch, GiveUp, disk
  <2> QED BY <2>1, InsideUpdate DEF Checkpoint
<1>4. CASE Refetch(s)
  <2>1. /\ pc = "refetch" /\ pc' \in {"save", "mark"}
        /\ pc' = "mark" => outcome' = Checkpoint("failed", FALSE)
        /\ UNCHANGED <<checkpoints, lastRun, tickers, pending, symbols, failed, lost, target, type>>
    BY <1>4 DEF Refetch, GiveUp, disk
  <2> QED BY <2>1, InsideUpdate DEF Checkpoint
<1>5. CASE Save(s)
  <2>1. /\ pc = "save" /\ pc' \in {"save", "mark"}
        /\ pc' = "mark" => outcome' \in {Checkpoint("success", FALSE), Checkpoint("failed", FALSE)}
        /\ UNCHANGED <<checkpoints, lastRun, tickers, pending, symbols, failed, lost, target, type>>
    BY <1>5 DEF Save, GiveUp
  <2> QED BY <2>1, InsideUpdate DEF Checkpoint
<1> QED BY <1>1, <1>2, <1>3, <1>4, <1>5

(* A symbol leaves the pending ones with the checkpoint of its outcome. *)
LEMMA StepMarked ==
  ASSUME RunInv, DailyInv, NEW s \in Symbols, Mark(s)
  PROVE  RunInv'
<1>1. /\ pc = "mark" /\ s \in pending
      /\ checkpoints' = [checkpoints EXCEPT ![s][type] = outcome]
      /\ pending' = pending \ {s}
      /\ failed' = IF outcome.status = "failed" THEN failed \cup {s} ELSE failed
      /\ pc' = "symbol"
      /\ UNCHANGED <<lastRun, tickers, symbols, lost, target, type>>
  BY DEF Mark, IsNextSymbol
<1>2. /\ outcome.target = target /\ outcome.status \in {"success", "failed"}
      /\ lastRun.status # "success" /\ symbols = tickers
  BY <1>1 DEF RunInv
<1>3. type \in Types /\ symbols \subseteq Symbols
      /\ checkpoints \in [Symbols -> [Types -> Outcomes]]
  BY DEF DailyInv, Typed, DiskTyped, RunTyped
<1>4. /\ checkpoints'[s][type] = outcome
      /\ \A r \in Symbols, p \in Types : <<r, p>> # <<s, type>> => checkpoints'[r][p] = checkpoints[r][p]
  BY <1>1, <1>3
<1>5. ASSUME NEW r \in symbols \ (pending' \cup failed') PROVE Done(r, type)'
  <2>1. CASE r = s
    BY <1>1, <1>2, <1>4, <2>1 DEF Done
  <2>2. CASE r # s
    <3>1. Done(r, type)
      BY <1>1, <2>2 DEF RunInv
    <3> QED BY <1>1, <1>3, <1>4, <2>2, <3>1 DEF Done
  <2> QED BY <2>1, <2>2
<1>6. ASSUME type = RAW, NEW r \in symbols \ lost PROVE Done(r, ADJUSTED)'
  <2>1. Done(r, ADJUSTED)
    BY <1>1, <1>6 DEF RunInv
  <2>2. checkpoints'[r][ADJUSTED] = checkpoints[r][ADJUSTED]
    BY <1>3, <1>4, <1>6 DEF RAW, ADJUSTED, Types
  <2> QED BY <1>1, <2>1, <2>2 DEF Done
<1> QED BY <1>1, <1>2, <1>5, <1>6 DEF RunInv

LEMMA StepRound == ASSUME RunInv, DailyInv, EndRound PROVE RunInv'
<1>1. /\ pc = "symbol" /\ pending = {} /\ failed' = {}
      /\ UNCHANGED <<checkpoints, lastRun, tickers, symbols, target, outcome>>
  BY DEF EndRound, disk
<1>2. \A s \in symbols \ failed : Done(s, type)
  BY <1>1 DEF RunInv
<1>3. \A s, p : Done(s, p) => Done(s, p)'
  BY <1>1 DEF Done
<1>4. lastRun.status # "success" /\ symbols = tickers
  BY <1>1 DEF RunInv
<1>5. CASE failed # {} /\ attempt < MaxAttempts
  <2>1. pending' = failed /\ UNCHANGED <<type, lost, pc>>
    BY <1>5 DEF EndRound
  <2> QED BY <1>1, <1>2, <1>3, <1>4, <2>1 DEF RunInv
<1>6. CASE ~(failed # {} /\ attempt < MaxAttempts) /\ type = RAW
  <2>1. lost' = lost \cup failed /\ pc' = "validate" /\ UNCHANGED <<type, pending>>
    BY <1>6 DEF EndRound
  <2> QED BY <1>1, <1>2, <1>3, <1>4, <1>6, <2>1 DEF RunInv
<1>7. CASE ~(failed # {} /\ attempt < MaxAttempts) /\ type # RAW
  <2>1. lost' = lost \cup failed /\ type' = RAW /\ pending' = symbols /\ UNCHANGED pc
    BY <1>7 DEF EndRound
  <2>2. type = ADJUSTED
    BY <1>7 DEF DailyInv, Typed, RunTyped, Types, ADJUSTED, RAW
  <2> QED BY <1>1, <1>2, <1>3, <1>4, <2>1, <2>2 DEF RunInv
<1> QED BY <1>5, <1>6, <1>7

(* A run reports success when it has lost no symbol. *)
LEMMA StepReported == ASSUME RunInv, DailyInv, Finish PROVE RunInv'
<1>1. pc = "validate" /\ pc' = "idle" /\ UNCHANGED <<checkpoints, tickers>>
  BY DEF Finish
<1>2. /\ symbols = tickers /\ type = RAW
      /\ \A s \in symbols \ lost : Done(s, ADJUSTED) /\ Done(s, RAW)
  BY <1>1 DEF RunInv
<1>3. lastRun'.target = target
  BY DEF Finish
<1>4. ASSUME lost = {}, NEW s \in tickers, NEW p \in Types PROVE Updated(s, p)'
  <2>1. Done(s, p)
    BY <1>2, <1>4 DEF Types, ADJUSTED, RAW
  <2> QED BY <1>1, <1>3, <2>1 DEF Done, Updated
<1>5. lastRun'.status = "success" => lost = {}
  BY DEF Finish
<1> QED BY <1>1, <1>4, <1>5 DEF RunInv

LEMMA StepRun == RunInv /\ DailyInv /\ [Next]_vars => RunInv'
<1> SUFFICES ASSUME RunInv, DailyInv, [Next]_vars PROVE RunInv'
  OBVIOUS
<1>1. CASE NextDay \/ (\E s \in Symbols : ChangeStatus(s) \/ Split(s)) \/ UNCHANGED vars
           \/ \E s \in Symbols, p \in Types : CollectMinutes(s, p)
  <2>1. UNCHANGED <<checkpoints, lastRun, tickers, pc, target, type, pending, failed, lost,
                    symbols, outcome>>
    BY <1>1 DEF NextDay, ChangeStatus, Split, CollectMinutes, vars, disk, locals
  <2> QED BY <2>1 DEF RunInv, Done, Updated
<1>2. CASE Begin
  <2>1. /\ symbols' = tickers' /\ pending' = tickers' /\ pc' = "symbol" /\ type' = ADJUSTED
        /\ lastRun' = [status |-> "running", target |-> today]
    BY <1>2 DEF Begin
  <2> QED BY <2>1 DEF RunInv, ADJUSTED, RAW
<1>3. CASE Step
  BY <1>3, StepInside, StepMarked, StepRound, StepReported DEF Step
<1>4. CASE Dies
  <2>1. pc # "idle" /\ pc' = "idle" /\ UNCHANGED lastRun
    BY <1>4 DEF Dies, disk
  <2> QED BY <2>1 DEF RunInv
<1> QED BY <1>1, <1>2, <1>3, <1>4 DEF Next

(* A run that reports success has updated every symbol of its ticker list for *)
(* its session in both price types, whatever attempts, failures and earlier   *)
(* runs left in the checkpoints; nothing between two runs takes it back.      *)
THEOREM AlwaysSuccessIsComplete == Spec => []SuccessIsComplete
<1>1. Init => RunInv
  BY DEF Init, RunInv
<1>2. RunInv => SuccessIsComplete
  BY DEF RunInv, SuccessIsComplete
<1> QED BY <1>1, <1>2, StepRun, AlwaysDaily, PTL DEF Spec
================================================================================
