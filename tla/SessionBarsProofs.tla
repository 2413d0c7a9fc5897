---------------------------- MODULE SessionBarsProofs ----------------------------
(***************************************************************************)
(* For any calendar, widths and bars: the incremental filter and resampler   *)
(* end as a whole run would (AlwaysFull, along ChainInv), the two pipelines   *)
(* put the same bars together to longer ones (AlwaysExact), and the quality  *)
(* checks tell which of these lack source bars (AlwaysWarned).               *)
(***************************************************************************)
EXTENDS SessionBars, TLAPS, WellFoundedInduction, FiniteSetTheorems

(* The sessions follow each other, each with its opening and close inside it. *)
LEMMA DaysAreOrdered ==
    /\ Days \subseteq Nat
    /\ \A d \in Days :
          /\ Sessions[d].first \in Nat \ {0} /\ Sessions[d].open \in Nat
          /\ Sessions[d].close \in Nat /\ Sessions[d].last \in Nat
          /\ Sessions[d].first <= Sessions[d].open
          /\ Sessions[d].close <= Sessions[d].last + 1
    /\ \A d, e \in Days : d < e => Sessions[d].last < Sessions[e].first
<1>1. Sessions \in Seq([first : Nat \ {0}, open : Nat, close : Nat, last : Nat])
  BY SessionsAssumption
<1>2. Days = 1..Len(Sessions) /\ Len(Sessions) \in Nat
  BY <1>1 DEF Days
<1>3. \A d \in Days : Sessions[d] \in [first : Nat \ {0}, open : Nat, close : Nat, last : Nat]
  <2> DEFINE R == [first : Nat \ {0}, open : Nat, close : Nat, last : Nat]
  <2>1. Sessions \in Seq(R)
    BY <1>1
  <2> HIDE DEF R
  <2>2. \A d \in 1..Len(Sessions) : Sessions[d] \in R
    BY <2>1
  <2> QED BY <1>2, <2>2 DEF R
<1> QED
  BY <1>2, <1>3, SessionsAssumption

(* Every slot belongs to a session. *)
LEMMA SlotsHaveDays ==
  ASSUME NEW t \in Slots
  PROVE  /\ t \in Nat /\ DayOf[t] \in Days
         /\ Sessions[DayOf[t]].first <= t /\ t <= Sessions[DayOf[t]].last
<1>1. PICK f \in Days : t \in Sessions[f].first .. Sessions[f].last
  BY DEF Slots
<1>2. DayOf[t] = CHOOSE e \in Days : t \in Sessions[e].first .. Sessions[e].last
  BY DEF DayOf
<1>3. DayOf[t] \in Days /\ t \in Sessions[DayOf[t]].first .. Sessions[DayOf[t]].last
  BY <1>1, <1>2
<1>4. PICK d \in Days : d = DayOf[t]
  BY <1>3
<1>5. Sessions[d].first \in Nat /\ Sessions[d].last \in Nat
  BY DaysAreOrdered
<1>6. t \in Sessions[d].first .. Sessions[d].last
  BY <1>3, <1>4
<1>7. t \in Nat /\ Sessions[d].first <= t /\ t <= Sessions[d].last
  BY <1>5, <1>6
<1> QED
  BY <1>4, <1>7

(* Whole bins of a slot do not reach past it.                                *)
LEMMA DivFloor ==
  ASSUME NEW n \in Nat, NEW w \in Nat \ {0}
  PROVE  n \div w \in Nat /\ (n \div w) * w \in Nat /\ (n \div w) * w <= n
  BY Z3

(* Bins of one width start at the same slot only if they are one bin.        *)
LEMMA SameMultiple ==
  ASSUME NEW p \in Nat, NEW q \in Nat, NEW w \in Nat \ {0}, p * w = q * w
  PROVE  p = q
  BY Z3

(* Opening and close lie within their session, and sessions do not overlap.  *)
LEMMA RegularSlots ==
  ASSUME NEW t \in Slots, IsRegular(t)
  PROVE  /\ t \in Nat /\ DayOf[t] \in Days
         /\ Sessions[DayOf[t]].open \in Nat /\ Sessions[DayOf[t]].open <= t
         /\ t <= Sessions[DayOf[t]].last
         /\ t - Sessions[DayOf[t]].open \in Nat
<1>1. t \in Nat /\ DayOf[t] \in Days /\ t <= Sessions[DayOf[t]].last
  BY SlotsHaveDays
<1>2. Sessions[DayOf[t]].open \in Nat /\ Sessions[DayOf[t]].open <= t
  BY <1>1, DaysAreOrdered DEF IsRegular
<1> QED BY <1>1, <1>2

(* The bin of a slot, counted from the opening, starts at the slot or before *)
(* it and is a number of widths away.                                        *)
LEMMA BinStarts ==
  ASSUME NEW t \in Slots, IsRegular(t), NEW w \in Nat
  PROVE  /\ Bin(t, w) \in Nat /\ Bin(t, w) * w \in Nat
         /\ BinStart(t, w) = Sessions[DayOf[t]].open + Bin(t, w) * w
         /\ BinStart(t, w) \in Nat
         /\ Sessions[DayOf[t]].open <= BinStart(t, w) /\ BinStart(t, w) <= t
<1> DEFINE o == Sessions[DayOf[t]].open
<1>1. t \in Nat /\ o \in Nat /\ o <= t /\ t - o \in Nat
  BY RegularSlots
<1>2. CASE w = 0
  BY <1>1, <1>2 DEF Bin, BinStart
<1>3. CASE w # 0
  <2> DEFINE q == (t - o) \div w
  <2>1. q \in Nat /\ q * w \in Nat /\ q * w <= t - o
    BY <1>1, <1>3, DivFloor
  <2>2. Bin(t, w) = q /\ BinStart(t, w) = o + q * w
    BY <1>3 DEF Bin, BinStart
  <2> HIDE DEF q, o
  <2>3. o + q * w \in Nat /\ o <= o + q * w /\ o + q * w <= t
    BY <1>1, <2>1
  <2> QED BY <2>1, <2>2, <2>3 DEF o
<1> QED BY <1>2, <1>3

(* Two slots are put into one longer bar by the start of their bins just when *)
(* they are by their session and bin.                                       *)
LEMMA SameBin ==
  ASSUME NEW t \in Slots, IsRegular(t), NEW u \in Slots, IsRegular(u), NEW w \in Nat
  PROVE  BinStart(t, w) = BinStart(u, w) <=> DayOf[t] = DayOf[u] /\ Bin(t, w) = Bin(u, w)
<1>1. DayOf[t] = DayOf[u] /\ Bin(t, w) = Bin(u, w) => BinStart(t, w) = BinStart(u, w)
  BY BinStarts
<1>2. ASSUME NEW x \in Slots, IsRegular(x), NEW y \in Slots, IsRegular(y),
             DayOf[x] < DayOf[y]
      PROVE  BinStart(x, w) # BinStart(y, w)
  <2>1. BinStart(x, w) \in Nat /\ BinStart(x, w) <= x
    BY <1>2, BinStarts
  <2>2. BinStart(y, w) \in Nat /\ Sessions[DayOf[y]].open <= BinStart(y, w)
    BY <1>2, BinStarts
  <2>3. /\ x \in Nat /\ x <= Sessions[DayOf[x]].last
        /\ DayOf[x] \in Days /\ DayOf[y] \in Days
    BY <1>2, RegularSlots
  <2>4. /\ Sessions[DayOf[x]].last < Sessions[DayOf[y]].first
        /\ Sessions[DayOf[y]].first <= Sessions[DayOf[y]].open
        /\ Sessions[DayOf[x]].last \in Nat /\ Sessions[DayOf[y]].first \in Nat
        /\ Sessions[DayOf[y]].open \in Nat
    BY <1>2, <2>3, DaysAreOrdered
  <2> QED BY <2>1, <2>2, <2>3, <2>4
<1>3. ASSUME BinStart(t, w) = BinStart(u, w) PROVE DayOf[t] = DayOf[u]
  <2>1. DayOf[t] \in Nat /\ DayOf[u] \in Nat
    BY RegularSlots, DaysAreOrdered
  <2>2. ~(DayOf[t] < DayOf[u]) /\ ~(DayOf[u] < DayOf[t])
    BY <1>2, <1>3
  <2> QED BY <2>1, <2>2
<1>4. ASSUME BinStart(t, w) = BinStart(u, w) PROVE Bin(t, w) = Bin(u, w)
  <2>1. CASE w = 0
    BY <2>1 DEF Bin
  <2>2. CASE w # 0
    <3>1. Bin(t, w) * w = Bin(u, w) * w
      <4>1. Sessions[DayOf[t]].open = Sessions[DayOf[u]].open
        BY <1>4, <1>3
      <4>2. /\ BinStart(t, w) = Sessions[DayOf[t]].open + Bin(t, w) * w
            /\ BinStart(u, w) = Sessions[DayOf[u]].open + Bin(u, w) * w
            /\ Bin(t, w) * w \in Nat /\ Bin(u, w) * w \in Nat
        BY BinStarts
      <4>3. Sessions[DayOf[t]].open \in Nat
        BY RegularSlots
      <4>4. ASSUME NEW o \in Nat, NEW p \in Nat, NEW q \in Nat, o + p = o + q PROVE p = q
        BY <4>4
      <4>5. Sessions[DayOf[t]].open + Bin(t, w) * w = Sessions[DayOf[t]].open + Bin(u, w) * w
        BY <1>4, <4>1, <4>2, Zenon
      <4> QED BY <4>2, <4>3, <4>4, <4>5, Zenon
    <3> QED BY <2>2, <3>1, BinStarts, SameMultiple
  <2> QED BY <2>1, <2>2
<1> QED BY <1>1, <1>3, <1>4

(* The first of some slots is one of them.                                   *)
LEMMA LeastIsMember ==
  ASSUME NEW T, T \subseteq Nat, T # {}
  PROVE  Min(T) \in T /\ \A y \in T : Min(T) <= y
<1>1. PICK x \in T : \A y \in T : <<y, x>> \notin OpToRel(<, Nat)
  BY NatLessThanWellFounded, WFMin, Zenon
<1>2. \A y, z \in Nat : y < z => <<y, z>> \in OpToRel(<, Nat)
  BY DEF OpToRel
<1>3. \A y \in T : ~(y < x)
  BY <1>1, <1>2, Zenon
<1>4. \A y \in T : x <= y
  BY <1>3
<1> QED BY <1>4 DEF Min

-----------------------------------------------------------------------------
(* Every bar of a session is in exactly one longer bar, and derive_regular_bars *)
(* and resample_bars agree about which bars are in it.                      *)
LEMMA PutTogether ==
  ASSUME NEW S, S \subseteq Bars, NEW w \in Nat
  PROVE  LET official == Derived(S, w)
             loader == Resampled(Regular(S), w)
         IN /\ {r.bars : r \in official} = {r.bars : r \in loader}
            /\ UNION {r.bars : r \in official} = Regular(S)
            /\ \A r, s \in official : r # s => r.bars \cap s.bars = {} /\ r.start # s.start
<1> DEFINE R == Regular(S)
           Group(a) == {b \in R : DayOf[b.time] = DayOf[a.time] /\ Bin(b.time, w) = Bin(a.time, w)}
           InBin(s) == {b \in R : BinStart(b.time, w) = s}
           official == Derived(S, w)
           loader == Resampled(R, w)
<1>1. \A a \in R : a.time \in Slots /\ IsRegular(a.time)
  BY DEF Regular, Bars
<1>2. \A a \in R : Group(a) = InBin(BinStart(a.time, w))
  <2> SUFFICES ASSUME NEW a \in R, NEW b \in R
               PROVE  b \in Group(a) <=> b \in InBin(BinStart(a.time, w))
    OBVIOUS
  <2>1. BinStart(b.time, w) = BinStart(a.time, w)
           <=> DayOf[b.time] = DayOf[a.time] /\ Bin(b.time, w) = Bin(a.time, w)
    BY <1>1, SameBin
  <2> QED BY <2>1
<1>3. Groups(R, w) = {Group(a) : a \in R}
  BY DEF Groups
<1>4. official = {[start |-> Min(Times(g)), bars |-> g] : g \in {Group(a) : a \in R}}
  BY <1>3 DEF Derived
<1>5. loader = {[start |-> s, bars |-> InBin(s)] : s \in {BinStart(b.time, w) : b \in R}}
  BY DEF Resampled
<1> HIDE DEF R, official, loader
<1>6. ASSUME NEW a \in R PROVE \E r \in official : r.bars = Group(a)
  <2> HIDE DEF Group
  <2>1. [start |-> Min(Times(Group(a))), bars |-> Group(a)] \in official
    BY <1>4
  <2> QED BY <2>1
<1>7. ASSUME NEW r \in official PROVE \E a \in R : r.bars = Group(a)
  <2> HIDE DEF Group
  <2>1. PICK g \in {Group(a) : a \in R} : r = [start |-> Min(Times(g)), bars |-> g]
    BY <1>4
  <2>2. PICK a \in R : g = Group(a)
    BY <2>1
  <2> QED BY <2>1, <2>2
<1>8. {r.bars : r \in official} = {r.bars : r \in loader}
  <2> HIDE DEF Group, InBin
  <2>1. ASSUME NEW r \in official PROVE \E l \in loader : l.bars = r.bars
    <3>1. PICK a \in R : r.bars = Group(a)
      BY <1>7
    <3> DEFINE s == BinStart(a.time, w)
    <3>2. [start |-> s, bars |-> InBin(s)] \in loader
      BY <1>5
    <3> QED BY <1>2, <3>1, <3>2
  <2>2. ASSUME NEW l \in loader PROVE \E r \in official : r.bars = l.bars
    <3>1. PICK s \in {BinStart(b.time, w) : b \in R} : l = [start |-> s, bars |-> InBin(s)]
      BY <1>5
    <3>2. PICK a \in R : s = BinStart(a.time, w)
      BY <3>1
    <3>3. l.bars = Group(a)
      BY <1>2, <3>1, <3>2
    <3> QED BY <1>6, <3>3
  <2> QED BY <2>1, <2>2
<1>9. UNION {r.bars : r \in official} = R
  <2>1. \A a \in R : a \in Group(a) /\ Group(a) \subseteq R
    OBVIOUS
  <2> HIDE DEF Group
  <2> QED BY <1>6, <1>7, <2>1
<1>10. ASSUME NEW a \in R, NEW b \in R, NEW c \in Group(a), c \in Group(b)
       PROVE  Group(a) = Group(b)
  BY <1>10
<1>11. ASSUME NEW a \in R
       PROVE  \E c \in Group(a) : c.time = Min(Times(Group(a)))
  <2>1. Times(Group(a)) \subseteq Nat /\ Times(Group(a)) # {}
    BY <1>1, SlotsHaveDays DEF Times
  <2>2. Min(Times(Group(a))) \in Times(Group(a))
    BY <2>1, LeastIsMember
  <2> QED BY <2>2 DEF Times
<1>12. ASSUME NEW r \in official, NEW s \in official, r # s
       PROVE  r.bars \cap s.bars = {} /\ r.start # s.start
  <2>1. PICK a \in R : r = [start |-> Min(Times(Group(a))), bars |-> Group(a)]
    BY <1>4
  <2>2. PICK b \in R : s = [start |-> Min(Times(Group(b))), bars |-> Group(b)]
    BY <1>4
  <2>3. Group(a) # Group(b)
    BY <1>12, <2>1, <2>2
  <2>4. Group(a) \cap Group(b) = {}
    BY <1>10, <2>3
  <2>5. Min(Times(Group(a))) # Min(Times(Group(b)))
    <3> SUFFICES ASSUME Min(Times(Group(a))) = Min(Times(Group(b))) PROVE FALSE
      OBVIOUS
    <3>1. PICK c \in Group(a) : c.time = Min(Times(Group(a)))
      BY <1>11
    <3>2. PICK d \in Group(b) : d.time = Min(Times(Group(b)))
      BY <1>11
    <3>3. c.time = d.time
      BY <3>1, <3>2
    <3>4. d \in Group(a)
      BY <3>3
    <3> QED BY <2>4, <3>4
  <2> QED BY <2>1, <2>2, <2>4, <2>5
<1> QED BY <1>8, <1>9, <1>12 DEF R, official, loader

-----------------------------------------------------------------------------
(* Bars have the times of slots and a known version.                         *)
BarsInv ==
    /\ market \subseteq Bars /\ source \subseteq Bars
    /\ version \in Nat /\ revisions \in Nat /\ version <= revisions /\ revisions <= MaxRevisions

(* Nothing has been collected at first.                                      *)
LEMMA InitBars == Init => BarsInv
  BY BoundsAssumption DEF Init, BarsInv

(* What Alpaca answers and what is collected lies in the calendar.           *)
LEMMA StepBars == BarsInv /\ [Next]_vars => BarsInv'
<1> SUFFICES ASSUME BarsInv, [Next]_vars PROVE BarsInv'
  OBVIOUS
<1> USE DEF BarsInv
<1>0. MaxRevisions \in Nat /\ version \in 0..MaxRevisions
  BY BoundsAssumption
<1>1. CASE NextSession
  <2>1. PICK times \in SUBSET (Sessions[now'].first .. Sessions[now'].last) :
          market' = market \cup {[time |-> t, value |-> TRADED, version |-> version] : t \in times}
    BY <1>1 DEF NextSession
  <2>2. now' \in Days
    BY <1>1 DEF NextSession
  <2>3. times \subseteq Slots
    BY <2>1, <2>2 DEF Slots
  <2>4. market' \subseteq Bars
    BY <1>0, <2>1, <2>3 DEF Bars, Values
  <2> QED BY <1>1, <2>4 DEF NextSession
<1>2. CASE Correct
  <2>1. PICK t \in Slots, v \in Values :
          market' = {b \in market : b.time # t} \cup {[time |-> t, value |-> v, version |-> version]}
    BY <1>2 DEF Correct
  <2>2. market' \subseteq Bars
    BY <1>0, <2>1 DEF Bars
  <2> QED BY <1>0, <1>2, <2>2 DEF Correct
<1>3. CASE Readjust
  <2>1. version' = version + 1 /\ revisions' = revisions + 1 /\ revisions < MaxRevisions
        /\ market' = {[b EXCEPT !.version = version'] : b \in market}
        /\ UNCHANGED source
    BY <1>3 DEF Readjust
  <2>2. version' \in 0..MaxRevisions
    BY <1>0, <2>1
  <2>3. \A b \in Bars : [b EXCEPT !.version = version'] \in Bars
    BY <2>2 DEF Bars
  <2> QED BY <1>0, <2>1, <2>3
<1>4. CASE Collect
  <2>1. UNCHANGED <<market, version, revisions>>
    BY <1>4 DEF Collect
  <2>2. source' \subseteq source \cup market
    BY <1>4 DEF Collect, Merge, Trim
  <2> QED BY <2>1, <2>2
<1>5. CASE Filter \/ Resample
  BY <1>5 DEF Filter, Resample
<1>6. CASE UNCHANGED vars
  BY <1>6 DEF vars
<1> QED
  BY <1>1, <1>2, <1>3, <1>4, <1>5, <1>6 DEF Next

(* Whatever bars the collected file holds, the official pipeline and the market *)
(* loader put the same bars together (derive_regular_bars, resample_bars).   *)
THEOREM AlwaysExact == Spec => []DerivedIsExact
<1>1. BarsInv => DerivedIsExact
  BY PutTogether, BoundsAssumption DEF BarsInv, DerivedIsExact
<1> QED
  BY <1>1, InitBars, StepBars, PTL DEF Spec

-----------------------------------------------------------------------------
(* The incremental chain.  A window is made of whole sessions: a longer bar   *)
(* starts in it just when its bars do.                                       *)
LEMMA SessionIs ==
  ASSUME NEW d \in Days
  PROVE  /\ d \in Nat
         /\ Sessions[d].first \in Nat \ {0} /\ Sessions[d].open \in Nat
         /\ Sessions[d].close \in Nat /\ Sessions[d].last \in Nat
         /\ Sessions[d].first <= Sessions[d].open /\ Sessions[d].open < Sessions[d].close
         /\ Sessions[d].close <= Sessions[d].last + 1
         /\ Sessions[d].open <= Sessions[d].last /\ Sessions[d].first <= Sessions[d].last
<1>1. /\ d \in Nat
      /\ Sessions[d].first \in Nat \ {0} /\ Sessions[d].open \in Nat
      /\ Sessions[d].close \in Nat /\ Sessions[d].last \in Nat
      /\ Sessions[d].first <= Sessions[d].open /\ Sessions[d].close <= Sessions[d].last + 1
  BY DaysAreOrdered
<1>2. Sessions[d].open < Sessions[d].close
  BY SessionsAssumption
<1> QED BY <1>1, <1>2

LEMMA SessionsFollow ==
  ASSUME NEW d \in Days, NEW e \in Days, d < e
  PROVE  /\ Sessions[d].last < Sessions[e].first /\ Sessions[d].first < Sessions[e].first
         /\ Sessions[d].open < Sessions[e].open /\ Sessions[d].last < Sessions[e].last
<1>1. Sessions[d].last < Sessions[e].first
  BY DaysAreOrdered
<1> QED BY <1>1, SessionIs

LEMMA WindowIs ==
  ASSUME now \in 0..Len(Sessions)
  PROVE  /\ WindowStart \in Nat /\ WindowEnd \in Nat
         /\ WindowStart = 1 \/ \E d \in Days : WindowStart = Sessions[d].first
         /\ now = 0 => WindowEnd = 1
         /\ now # 0 => now \in Days /\ WindowEnd = Sessions[now].last + 1
<1>1. Days = 1..Len(Sessions) /\ Len(Sessions) \in Nat /\ WindowDays \in Nat \ {0}
  BY SessionsAssumption, BoundsAssumption DEF Days
<1>2. CASE now > WindowDays
  <2>1. now - WindowDays + 1 \in Days
    BY <1>1, <1>2
  <2> QED BY <1>1, <1>2, <2>1, DaysAreOrdered DEF WindowStart, WindowEnd
<1>3. CASE ~(now > WindowDays)
  BY <1>1, <1>3, DaysAreOrdered DEF WindowStart, WindowEnd
<1> QED BY <1>2, <1>3

LEMMA BinOfWindow ==
  ASSUME now \in 0..Len(Sessions), NEW t \in Slots, IsRegular(t), NEW w \in Nat
  PROVE  InWindow(BinStart(t, w)) <=> InWindow(t)
<1> DEFINE d == DayOf[t]
           s == BinStart(t, w)
<1>1. d \in Days /\ t \in Nat /\ t <= Sessions[d].last
  BY SlotsHaveDays
<1>2. s \in Nat /\ Sessions[d].open <= s /\ s <= t
  BY BinStarts
<1> HIDE DEF d, s
<1>3. /\ Sessions[d].first \in Nat \ {0} /\ Sessions[d].open \in Nat /\ Sessions[d].last \in Nat
      /\ Sessions[d].first <= Sessions[d].open /\ d \in Nat
  BY <1>1, DaysAreOrdered
<1>4. WindowStart <= s <=> WindowStart <= t
  <2>1. CASE WindowStart = 1
    BY <1>1, <1>2, <1>3, <2>1
  <2>2. CASE WindowStart # 1
    <3>1. PICK e \in Days : WindowStart = Sessions[e].first
      BY <2>2, WindowIs
    <3>2. Sessions[e].first \in Nat /\ e \in Nat
      BY SessionIs
    <3>3. d < e => Sessions[d].last < Sessions[e].first
      BY <1>1, SessionsFollow
    <3>4. e < d => Sessions[e].first < Sessions[d].first
      BY <1>1, SessionsFollow
    <3>5. CASE d < e
      BY <1>1, <1>2, <1>3, <3>1, <3>2, <3>3, <3>5
    <3>6. CASE ~(d < e)
      <4>1. Sessions[e].first <= Sessions[d].first
        <5>1. d = e \/ e < d
          BY <1>3, <3>2, <3>6
        <5> QED BY <1>3, <3>2, <3>4, <5>1
      <4> QED BY <1>1, <1>2, <1>3, <3>1, <3>2, <4>1
    <3> QED BY <3>5, <3>6
  <2> QED BY <2>1, <2>2
<1>5. s < WindowEnd <=> t < WindowEnd
  <2>1. CASE now = 0
    BY <1>1, <1>2, <1>3, <2>1, WindowIs
  <2>2. CASE now # 0
    <3>1. now \in Days /\ WindowEnd = Sessions[now].last + 1
      BY <2>2, WindowIs
    <3>2. now \in Nat /\ Sessions[now].last \in Nat
      BY <3>1, DaysAreOrdered
    <3>3. now < d => Sessions[now].last < Sessions[d].first
      BY <1>1, <3>1, DaysAreOrdered
    <3>4. d < now => Sessions[d].last < Sessions[now].last
      BY <1>1, <3>1, SessionsFollow
    <3> QED BY <1>1, <1>2, <1>3, <3>1, <3>2, <3>3, <3>4
  <2> QED BY <2>1, <2>2
<1> QED BY <1>4, <1>5 DEF InWindow, s

(* The window only moves on. *)
LEMMA WindowMoves ==
  ASSUME now \in 0..Len(Sessions), now' \in Days, now' = now + 1
  PROVE  /\ WindowStart <= WindowStart' /\ WindowEnd <= Sessions[now'].first
         /\ WindowEnd' = Sessions[now'].last + 1
         /\ \A t \in Nat : t < WindowEnd /\ InWindow(t)' => InWindow(t)
<1>1. Days = 1..Len(Sessions) /\ Len(Sessions) \in Nat /\ WindowDays \in Nat \ {0}
  BY SessionsAssumption, BoundsAssumption DEF Days
<1>2. PICK d \in Days : d = now'
  OBVIOUS
<1>3. /\ Sessions[d].first \in Nat \ {0} /\ Sessions[d].last \in Nat
      /\ WindowEnd' = Sessions[d].last + 1
  BY <1>1, <1>2, DaysAreOrdered DEF WindowEnd
<1>4. WindowEnd <= Sessions[d].first
  <2>1. CASE now = 0
    BY <1>3, <2>1, WindowIs
  <2>2. CASE now # 0
    <3>1. now \in Days /\ WindowEnd = Sessions[now].last + 1
      BY <2>2, WindowIs
    <3>2. now < d
      BY <1>1, <1>2, <3>1
    <3>3. Sessions[now].last \in Nat /\ Sessions[now].last < Sessions[d].first
      BY <3>1, <3>2, SessionIs, SessionsFollow
    <3> QED BY <1>3, <3>1, <3>3
  <2> QED BY <2>1, <2>2
<1>5. WindowStart \in Nat /\ WindowStart' \in Nat /\ WindowStart <= WindowStart'
  <2>1. CASE now > WindowDays
    <3>1. PICK e \in Days, f \in Days : e = now - WindowDays + 1 /\ f = d - WindowDays + 1
      BY <1>1, <1>2, <2>1
    <3>2. WindowStart = Sessions[e].first /\ WindowStart' = Sessions[f].first /\ e < f
      BY <1>1, <1>2, <2>1, <3>1 DEF WindowStart
    <3>3. Sessions[e].first < Sessions[f].first
      BY <3>2, SessionsFollow
    <3> QED BY <3>2, <3>3, SessionIs
  <2>2. CASE ~(now > WindowDays)
    <3>1. WindowStart = 1
      BY <2>2 DEF WindowStart
    <3>2. CASE d > WindowDays
      <4>1. PICK f \in Days : f = d - WindowDays + 1
        BY <1>1, <3>2
      <4>2. WindowStart' = Sessions[f].first
        BY <1>2, <3>2, <4>1 DEF WindowStart
      <4> QED BY <3>1, <4>2, DaysAreOrdered
    <3>3. CASE ~(d > WindowDays)
      BY <1>2, <3>1, <3>3 DEF WindowStart
    <3> QED BY <3>2, <3>3
  <2> QED BY <2>1, <2>2
<1>6. WindowEnd \in Nat
  BY WindowIs
<1>7. ASSUME NEW t \in Nat, t < WindowEnd, InWindow(t)' PROVE InWindow(t)
  BY <1>5, <1>6, <1>7 DEF InWindow
<1> QED BY <1>2, <1>3, <1>4, <1>5, <1>7

(* A regular slot, or the bin it is in, is before the opening of a session    *)
(* just when it is of an earlier session.                                    *)
LEMMA BeforeOpening ==
  ASSUME NEW t \in Slots, IsRegular(t), NEW w \in Nat, NEW d \in Days
  PROVE  /\ t < Sessions[d].open => t < Sessions[d].first
         /\ BinStart(t, w) < Sessions[d].open <=> t < Sessions[d].open
<1> DEFINE e == DayOf[t]
           s == BinStart(t, w)
<1>1. e \in Days /\ t \in Nat /\ t <= Sessions[e].last /\ Sessions[e].open <= t
  BY SlotsHaveDays, RegularSlots
<1>2. s \in Nat /\ Sessions[e].open <= s /\ s <= t
  BY BinStarts
<1> HIDE DEF e, s
<1>3. /\ e \in Nat /\ d \in Nat /\ Sessions[e].open \in Nat /\ Sessions[d].open \in Nat
      /\ Sessions[e].last \in Nat /\ Sessions[d].first \in Nat
      /\ Sessions[d].first <= Sessions[d].open
  BY <1>1, DaysAreOrdered
<1>4. e < d => Sessions[e].last < Sessions[d].first
  BY <1>1, DaysAreOrdered
<1>5. d < e => Sessions[d].open < Sessions[e].open
  BY <1>1, SessionsFollow
<1>6. e < d \/ d <= e
  BY <1>3
<1>7. CASE e < d
  BY <1>1, <1>2, <1>3, <1>4, <1>7 DEF s
<1>8. CASE d <= e
  <2>1. Sessions[d].open <= Sessions[e].open
    <3>1. d = e \/ d < e
      BY <1>3, <1>8
    <3> QED BY <1>3, <1>5, <3>1
  <2> QED BY <1>1, <1>2, <1>3, <2>1 DEF s
<1> QED BY <1>6, <1>7, <1>8

(* A longer bar starts in the calendar. *)
LEMMA BinIsSlot ==
  ASSUME NEW t \in Slots, IsRegular(t), NEW w \in Nat
  PROVE  BinStart(t, w) \in Slots
<1> DEFINE d == DayOf[t]
           s == BinStart(t, w)
<1>1. d \in Days /\ t \in Nat /\ t <= Sessions[d].last
  BY SlotsHaveDays
<1>2. s \in Nat /\ Sessions[d].open <= s /\ s <= t
  BY BinStarts
<1> HIDE DEF d, s
<1>3. s \in Sessions[d].first .. Sessions[d].last
  BY <1>1, <1>2, DaysAreOrdered
<1> QED BY <1>1, <1>3 DEF Slots, s

-----------------------------------------------------------------------------
(* The bars of the resampled file, by the start they have. *)
LEMMA FileBarsAt ==
  ASSUME NEW S, NEW r
  PROVE  /\ r \in FileBars(S) =>
              /\ r = [start |-> r.start,
                      bars |-> {b \in S : BinStart(b.time, FileWidth) = r.start}]
              /\ \E b \in S : BinStart(b.time, FileWidth) = r.start
         /\ \A b \in S : r = [start |-> BinStart(b.time, FileWidth),
                              bars |-> {c \in S : BinStart(c.time, FileWidth)
                                                     = BinStart(b.time, FileWidth)}] =>
                            r \in FileBars(S)
<1> DEFINE At(s) == {b \in S : BinStart(b.time, FileWidth) = s}
<1>1. FileBars(S) = {[start |-> s, bars |-> At(s)] : s \in {BinStart(b.time, FileWidth) : b \in S}}
  BY DEF FileBars, Resampled
<1>2. ASSUME r \in FileBars(S)
      PROVE  r = [start |-> r.start, bars |-> At(r.start)]
             /\ \E b \in S : BinStart(b.time, FileWidth) = r.start
  <2>1. PICK s \in {BinStart(b.time, FileWidth) : b \in S} : r = [start |-> s, bars |-> At(s)]
    BY <1>1, <1>2
  <2>2. r.start = s
    BY <2>1
  <2> QED BY <2>1, <2>2
<1>3. ASSUME NEW b \in S,
             r = [start |-> BinStart(b.time, FileWidth), bars |-> At(BinStart(b.time, FileWidth))]
      PROVE  r \in FileBars(S)
  BY <1>1, <1>3
<1> QED BY <1>2, <1>3

(* Two files with the same bars in a bin have the same longer bar there. *)
LEMMA SameFileBar ==
  ASSUME NEW S, NEW T, NEW r,
         \A b : BinStart(b.time, FileWidth) = r.start => (b \in S <=> b \in T)
  PROVE  r \in FileBars(S) <=> r \in FileBars(T)
<1>1. {b \in S : BinStart(b.time, FileWidth) = r.start}
        = {b \in T : BinStart(b.time, FileWidth) = r.start}
  OBVIOUS
<1>2. ASSUME NEW U, NEW V, r \in FileBars(U),
             {b \in U : BinStart(b.time, FileWidth) = r.start}
               = {b \in V : BinStart(b.time, FileWidth) = r.start}
      PROVE  r \in FileBars(V)
  <2>1. PICK b \in U : BinStart(b.time, FileWidth) = r.start
    BY <1>2, FileBarsAt
  <2>2. b \in V
    BY <1>2, <2>1
  <2>3. r = [start |-> r.start, bars |-> {c \in V : BinStart(c.time, FileWidth) = r.start}]
    BY <1>2, FileBarsAt
  <2> QED BY <2>1, <2>2, <2>3, FileBarsAt
<1> QED BY <1>1, <1>2

(* The greatest of some slots. *)
LEMMA GreatestSlot ==
  ASSUME NEW n \in Nat, NEW T, T \subseteq Slots, T # {}, \A t \in T : t < n
  PROVE  Max(T) \in Slots
<1> DEFINE U == {n - t : t \in T}
<1>1. T \subseteq Nat
  BY SlotsHaveDays
<1>2. U \subseteq Nat /\ U # {}
  <2>1. \A t \in T : n - t \in Nat
    BY <1>1
  <2> QED BY <2>1
<1>3. PICK u \in U : \A y \in U : <<y, u>> \notin OpToRel(<, Nat)
  BY <1>2, NatLessThanWellFounded, WFMin, Zenon
<1>4. \A y, z \in Nat : y < z => <<y, z>> \in OpToRel(<, Nat)
  BY DEF OpToRel
<1>5. \A y \in U : ~(y < u)
  BY <1>2, <1>3, <1>4, Zenon
<1>6. PICK x \in T : u = n - x
  BY <1>3
<1>7. ASSUME NEW y \in T PROVE x >= y
  <2>1. n - y \in U /\ n - y \in Nat /\ n - x \in Nat /\ x \in Nat /\ y \in Nat
    BY <1>1
  <2>2. ~(n - y < n - x)
    BY <1>5, <1>6, <2>1
  <2> QED BY <2>1, <2>2
<1>8. Max(T) \in T
  BY <1>7 DEF Max
<1> QED BY <1>8

-----------------------------------------------------------------------------
(* What the chain relies on.  There is one bar of a slot, of sessions past.    *)
OnePerTime ==
    /\ \A a, b \in market : a.time = b.time => a = b
    /\ \A a, b \in source : a.time = b.time => a = b
Past == \A b \in market \cup source : b.time < WindowEnd

ChainTyped ==
    /\ now \in 0..Len(Sessions) /\ changed \in Slots \cup {NoChange}
    /\ pc \in {"idle", "filter", "resample"}
    /\ filtered \subseteq Filtered(Bars)
    /\ \A r \in resampled : r.start \in Slots

(* The slots, and the longer bars, before everything that changed. *)
Kept(t) == changed = NoChange \/ t < changed
Early(s) == changed = NoChange \/ s < Sessions[DayOf[changed]].open

(* Between two runs the outputs are those of the collected file.  After the    *)
(* collection they are where nothing changed; then the filtered file is again, *)
(* and the resampled one before the session of the earliest change.          *)
OutputsAreFull ==
    /\ filtered \subseteq source /\ Trim(filtered) = Filtered(Trim(source))
    /\ resampled = FileBars(filtered)

FilteredIsKept ==
    /\ resampled = FileBars(filtered)
    /\ \A b \in Trim(filtered) \cup Filtered(Trim(source)) : Kept(b.time) =>
          b \in Trim(filtered) /\ b \in Filtered(Trim(source))

ResampledIsKept ==
    /\ filtered = Filtered(Trim(source))
    /\ \A r \in resampled \cup FileBars(filtered) : Early(r.start) =>
          (r \in resampled /\ InWindow(r.start) <=> r \in FileBars(filtered))

ChainInv ==
    /\ BarsInv /\ OnePerTime /\ Past /\ ChainTyped
    /\ pc = "idle" => OutputsAreFull
    /\ pc = "filter" => FilteredIsKept
    /\ pc = "resample" => ResampledIsKept

LEMMA InitChain == Init => ChainInv
<1> SUFFICES ASSUME Init PROVE ChainInv
  OBVIOUS
<1>1. BarsInv
  BY InitBars
<1>2. 0 \in 0..Len(Sessions)
  BY SessionsAssumption
<1>3. FileBars({}) = {}
  BY DEF FileBars, Resampled
<1>4. OutputsAreFull
  BY <1>3 DEF Init, OutputsAreFull, Trim, Filtered, Regular
<1>5. OnePerTime /\ Past /\ ChainTyped
  BY <1>2 DEF Init, OnePerTime, Past, ChainTyped
<1> QED BY <1>1, <1>4, <1>5 DEF Init, ChainInv

(* A session ends, or Alpaca revises a bar, while no run goes on. *)
LEMMA NextSessionChain == ASSUME ChainInv, NextSession PROVE ChainInv'
<1>1. /\ pc = "idle" /\ now + 1 \in Days /\ now' = now + 1
      /\ UNCHANGED <<source, filtered, resampled, changed, pc, revisions, version>>
  BY DEF NextSession
<1>2. /\ now \in 0..Len(Sessions) /\ filtered \subseteq Bars /\ source \subseteq Bars
      /\ market \subseteq Bars
  BY DEF ChainInv, ChainTyped, BarsInv, Filtered, Regular
<1>3. PICK d \in Days : d = now'
  BY <1>1
<1>4. /\ WindowEnd <= Sessions[d].first /\ WindowEnd' = Sessions[d].last + 1
      /\ \A t \in Nat : t < WindowEnd /\ InWindow(t)' => InWindow(t)
      /\ WindowEnd \in Nat
  BY <1>1, <1>2, <1>3, WindowMoves, WindowIs
<1>5. BarsInv'
  BY StepBars DEF ChainInv, Next
<1>6. PICK times \in SUBSET (Sessions[d].first .. Sessions[d].last) :
        market' = market \cup {[time |-> t, value |-> TRADED, version |-> version] : t \in times}
  BY <1>3 DEF NextSession
<1>7. \A t \in times : t \in Nat /\ WindowEnd <= t /\ t < WindowEnd'
  BY <1>4, SessionIs
<1>8. \A b \in Bars : b.time \in Nat
  BY SlotsHaveDays DEF Bars
<1>9. OnePerTime'
  <2>1. ASSUME NEW a \in market', NEW b \in market', a.time = b.time PROVE a = b
    <3>1. \A c \in market : c.time < WindowEnd /\ c.time \in Nat
      BY <1>2, <1>8 DEF ChainInv, Past
    <3>2. \A c \in market' : c \in market \/
             (c = [time |-> c.time, value |-> TRADED, version |-> version]
                /\ c.time \in Nat /\ WindowEnd <= c.time)
      BY <1>6, <1>7
    <3>3. CASE a \in market /\ b \in market
      BY <2>1, <3>3 DEF ChainInv, OnePerTime
    <3>4. CASE ~(a \in market /\ b \in market)
      <4>1. a \notin market /\ b \notin market
        BY <1>4, <2>1, <3>1, <3>2, <3>4
      <4> QED BY <2>1, <3>2, <4>1
    <3> QED BY <3>3, <3>4
  <2> QED BY <1>1, <2>1 DEF ChainInv, OnePerTime
<1>10. Past'
  <2>1. \A b \in market \cup source : b.time < WindowEnd /\ b.time \in Nat
    BY <1>2, <1>8 DEF ChainInv, Past
  <2>2. WindowEnd < WindowEnd'
    BY <1>4, SessionIs
  <2>3. \A b \in market' : b \in market \/ b.time < WindowEnd'
    BY <1>6, <1>7
  <2> QED BY <1>1, <1>4, <2>1, <2>2, <2>3, SessionIs DEF Past
<1>11. ChainTyped'
  <2>1. now' \in 0..Len(Sessions)
    <3>1. Days = 1..Len(Sessions) /\ Len(Sessions) \in Nat
      BY SessionsAssumption DEF Days
    <3> QED BY <1>1, <3>1
  <2> QED BY <1>1, <2>1 DEF ChainInv, ChainTyped
<1>12. OutputsAreFull'
  <2>1. OutputsAreFull
    BY <1>1 DEF ChainInv
  <2>2. \A b \in filtered : b \in source /\ b.time \in Nat /\ b.time < WindowEnd
    BY <1>2, <1>8, <2>1 DEF OutputsAreFull, ChainInv, Past
  <2>3. \A b \in source : b.time \in Nat /\ b.time < WindowEnd
    BY <1>2, <1>8 DEF ChainInv, Past
  <2>4. \A b \in source : InWindow(b.time)' => InWindow(b.time)
    BY <1>4, <2>3
  <2>5. \A b : b \in Trim(filtered) <=> b \in Filtered(Trim(source))
    BY <2>1 DEF OutputsAreFull
  <2>6. ASSUME NEW b PROVE b \in Trim(filtered)' <=> b \in Filtered(Trim(source))'
    <3>1. b \in Trim(filtered)' <=> b \in filtered /\ InWindow(b.time)'
      BY <1>1 DEF Trim
    <3>2. b \in Filtered(Trim(source))' <=>
            b \in source /\ InWindow(b.time)' /\ IsRegular(b.time) /\ b.value # EMPTY
      BY <1>1 DEF Trim, Filtered, Regular
    <3>3. b \in Trim(filtered) <=> b \in filtered /\ InWindow(b.time)
      BY DEF Trim
    <3>4. b \in Filtered(Trim(source)) <=>
            b \in source /\ InWindow(b.time) /\ IsRegular(b.time) /\ b.value # EMPTY
      BY DEF Trim, Filtered, Regular
    <3> QED BY <2>2, <2>4, <2>5, <3>1, <3>2, <3>3, <3>4
  <2>7. (Trim(filtered) = Filtered(Trim(source)))'
    BY <2>6
  <2>8. (resampled = FileBars(filtered))'
    BY <1>1, <2>1 DEF OutputsAreFull, FileBars, Resampled, BinStart
  <2> QED BY <1>1, <2>1, <2>7, <2>8 DEF OutputsAreFull
<1> QED BY <1>1, <1>5, <1>9, <1>10, <1>11, <1>12 DEF ChainInv

LEMMA RevisedChain ==
  ASSUME ChainInv, Correct \/ Readjust, OnePerTime', \A b \in market' : b.time < WindowEnd
  PROVE  ChainInv'
<1>1. /\ pc = "idle" /\ UNCHANGED <<source, filtered, resampled, now, changed, pc>>
  BY DEF Correct, Readjust
<1>2. BarsInv'
  BY StepBars DEF ChainInv, Next
<1>3. Past'
  BY <1>1 DEF ChainInv, Past, WindowEnd
<1>4. ChainTyped' /\ OutputsAreFull'
  BY <1>1 DEF ChainInv, ChainTyped, OutputsAreFull, Trim, Filtered, Regular, IsRegular, InWindow,
              WindowStart, WindowEnd, FileBars, Resampled, BinStart
<1> QED BY <1>1, <1>2, <1>3, <1>4 DEF ChainInv

LEMMA CorrectChain == ASSUME ChainInv, Correct PROVE ChainInv'
<1>1. PICK t \in Slots, v \in Values :
        /\ t < WindowEnd
        /\ market' = {b \in market : b.time # t}
                        \cup {[time |-> t, value |-> v, version |-> version]}
  BY DEF Correct
<1>2. OnePerTime'
  <2>1. UNCHANGED source
    BY DEF Correct
  <2> QED BY <1>1, <2>1 DEF ChainInv, OnePerTime
<1>3. \A b \in market' : b.time < WindowEnd
  BY <1>1 DEF ChainInv, Past
<1> QED BY <1>2, <1>3, RevisedChain

LEMMA ReadjustChain == ASSUME ChainInv, Readjust PROVE ChainInv'
<1>1. market' = {[b EXCEPT !.version = version'] : b \in market} /\ market \subseteq Bars
  BY DEF Readjust, ChainInv, BarsInv
<1>2. \A b \in market' : \E a \in market :
         b = [a EXCEPT !.version = version'] /\ b.time = a.time
  <2>1. \A a \in Bars : [a EXCEPT !.version = version'].time = a.time
    BY DEF Bars
  <2> QED BY <1>1, <2>1
<1>3. OnePerTime'
  <2>1. ASSUME NEW b \in market', NEW c \in market', b.time = c.time PROVE b = c
    <3>1. PICK a \in market : b = [a EXCEPT !.version = version'] /\ b.time = a.time
      BY <1>2
    <3>2. PICK e \in market : c = [e EXCEPT !.version = version'] /\ c.time = e.time
      BY <1>2
    <3>3. a = e
      BY <2>1, <3>1, <3>2 DEF ChainInv, OnePerTime
    <3> QED BY <3>1, <3>2, <3>3
  <2>2. UNCHANGED source
    BY DEF Readjust
  <2> QED BY <2>1, <2>2 DEF ChainInv, OnePerTime
<1>4. \A b \in market' : b.time < WindowEnd
  BY <1>2 DEF ChainInv, Past
<1> QED BY <1>3, <1>4, RevisedChain

-----------------------------------------------------------------------------
(* The collection.  Whether it fetched the missing bars or the whole window,   *)
(* before the change it reports the file is what it was.                      *)
LEMMA CollectIs ==
  ASSUME Collect
  PROVE  /\ pc = "idle" /\ pc' = "filter"
         /\ UNCHANGED <<market, filtered, resampled, now, revisions, version>>
         /\ \E fetched : LET combined == Merge(Trim(source), fetched)
                             changes == ChangedTimes(Trim(source), fetched)
                                          \cup (Times(fetched) \ Times(Trim(source)))
                         IN /\ fetched \subseteq Trim(market)
                            /\ IF combined = {} THEN changed' = NoChange /\ UNCHANGED source
                               ELSE /\ source' = combined
                                    /\ changed' \in {Min(Times(combined)),
                                          IF changes = {} THEN NoChange ELSE Min(changes)}
<1>1. /\ pc = "idle" /\ pc' = "filter"
      /\ UNCHANGED <<market, filtered, resampled, now, revisions, version>>
  BY DEF Collect
<1> DEFINE overlap == {b \in Trim(market) : b.time >= FetchStart}
           revised == \E a \in Trim(source), b \in overlap : a.time = b.time /\ a.version # b.version
<1>2. CASE revised
  <2>1. PICK fetched : fetched = Trim(market)
    OBVIOUS
  <2>2. IF Merge(Trim(source), fetched) = {} THEN changed' = NoChange /\ UNCHANGED source
        ELSE /\ source' = Merge(Trim(source), fetched)
             /\ changed' = Min(Times(Merge(Trim(source), fetched)))
    BY <1>2, <2>1 DEF Collect
  <2> QED BY <1>1, <2>1, <2>2
<1>3. CASE ~revised
  <2>1. PICK fetched : fetched = overlap
    OBVIOUS
  <2> DEFINE changes == ChangedTimes(Trim(source), fetched)
                          \cup (Times(fetched) \ Times(Trim(source)))
  <2>2. IF Merge(Trim(source), fetched) = {} THEN changed' = NoChange /\ UNCHANGED source
        ELSE /\ source' = Merge(Trim(source), fetched)
             /\ changed' = IF changes = {} THEN NoChange ELSE Min(changes)
    BY <1>3, <2>1 DEF Collect
  <2>3. fetched \subseteq Trim(market)
    BY <2>1
  <2> QED BY <1>1, <2>2, <2>3
<1> QED BY <1>2, <1>3

LEMMA CollectChain == ASSUME ChainInv, Collect PROVE ChainInv'
<1>1. /\ pc = "idle" /\ pc' = "filter"
      /\ UNCHANGED <<market, filtered, resampled, now, revisions, version>>
  BY CollectIs
<1>2. PICK fetched, old, combined, changes :
        /\ old = Trim(source)
        /\ combined = Merge(old, fetched)
        /\ changes = ChangedTimes(old, fetched) \cup (Times(fetched) \ Times(old))
        /\ fetched \subseteq Trim(market)
        /\ IF combined = {} THEN changed' = NoChange /\ UNCHANGED source
           ELSE /\ source' = combined
                /\ changed' \in {Min(Times(combined)),
                                 IF changes = {} THEN NoChange ELSE Min(changes)}
  BY CollectIs
<1>3. /\ market \subseteq Bars /\ source \subseteq Bars /\ OnePerTime /\ Past /\ ChainTyped
      /\ OutputsAreFull
  BY <1>1 DEF ChainInv, BarsInv
<1>4. /\ old \subseteq Bars /\ fetched \subseteq Bars
      /\ \A b \in old \cup fetched : InWindow(b.time)
      /\ \A a, b \in fetched : a.time = b.time => a = b
      /\ \A a, b \in old : a.time = b.time => a = b
  BY <1>2, <1>3 DEF Trim, OnePerTime
<1>5. \A b : b \in combined <=> (b \in old /\ b.time \notin Times(fetched)) \/ b \in fetched
  BY <1>2, <1>4 DEF Merge, Trim
<1>6. \A b \in Bars : b.time \in Slots /\ b.time \in Nat /\ b.time # NoChange
  <2>1. \A t \in Slots : t \in Nat /\ t # 0
    BY SlotsHaveDays, SessionIs
  <2> QED BY <2>1 DEF Bars, NoChange
<1>7. combined \subseteq Bars
  BY <1>4, <1>5
(* The collected file within the window. *)
<1>8. Trim(source)' = combined /\ Past' /\ BarsInv'
  <2>1. \A b : InWindow(b.time)' <=> InWindow(b.time)
    BY <1>1 DEF InWindow, WindowStart, WindowEnd
  <2>2. CASE combined = {}
    <3>1. source' = source
      BY <1>2, <2>2
    <3>2. \A b \in old : b \in combined \/ \E c \in fetched : c \in combined
      BY <1>5 DEF Times
    <3>3. old = {}
      BY <2>2, <3>2
    <3> QED BY <1>1, <1>2, <1>3, <2>1, <2>2, <3>1, <3>3, StepBars DEF Trim, Past, WindowEnd, ChainInv, Next
  <2>3. CASE combined # {}
    <3>1. source' = combined
      BY <1>2, <2>3
    <3>2. \A b \in combined : InWindow(b.time)
      BY <1>4, <1>5
    <3>3. Trim(source)' = combined
      BY <2>1, <3>1, <3>2 DEF Trim
    <3>4. Past'
      BY <1>1, <1>3, <3>1, <3>2 DEF Past, InWindow, WindowEnd
    <3> QED BY <3>3, <3>4, StepBars DEF ChainInv, Next
  <2> QED BY <2>2, <2>3
<1>9. ASSUME NEW b, b.time \notin changes PROVE b \in old <=> b \in combined
  <2>1. CASE b \in old
    <3>1. b.time \in Times(fetched) => b \in fetched
      BY <1>2, <1>9, <2>1 DEF ChangedTimes
    <3> QED BY <1>5, <2>1, <3>1
  <2>2. CASE b \in fetched
    <3>1. b.time \in Times(fetched)
      BY <2>2 DEF Times
    <3>2. b.time \in Times(old)
      BY <1>2, <1>9, <3>1
    <3>3. PICK a \in old : a.time = b.time
      BY <3>2 DEF Times
    <3>4. a \in fetched
      BY <1>2, <1>9, <3>1, <3>3 DEF ChangedTimes
    <3>5. a = b
      BY <1>4, <2>2, <3>3, <3>4
    <3> QED BY <1>5, <2>2, <3>3, <3>5
  <2> QED BY <1>5, <2>1, <2>2
<1>10. /\ changed' \in Slots \cup {NoChange}
       /\ \A b \in old \cup combined : Kept(b.time)' => b \in old /\ b \in combined
  <2>1. CASE combined = {}
    <3>1. old = {}
      <4>1. \A b \in old : b \in combined \/ \E c \in fetched : c \in combined
        BY <1>5 DEF Times
      <4> QED BY <2>1, <4>1
    <3> QED BY <1>2, <2>1, <3>1
  <2>2. CASE combined # {} /\ changed' = Min(Times(combined))
    <3>1. Times(combined) \subseteq Nat /\ Times(combined) # {} /\ Times(combined) \subseteq Slots
      BY <1>6, <1>7, <2>2 DEF Times
    <3>2. changed' \in Times(combined) /\ \A t \in Times(combined) : changed' <= t
      BY <2>2, <3>1, LeastIsMember
    <3>3. changed' # NoChange /\ changed' \in Slots /\ changed' \in Nat
      BY <1>6, <1>7, <3>1, <3>2 DEF Times
    <3>4. \A b \in old \cup combined : b.time \in Times(combined)
      <4>1. \A b \in combined : b.time \in Times(combined)
        BY DEF Times
      <4>2. \A b \in old : b \in combined \/ \E c \in fetched : c \in combined /\ c.time = b.time
        BY <1>5 DEF Times
      <4> QED BY <4>1, <4>2
    <3>5. \A b \in old \cup combined : ~Kept(b.time)'
      BY <3>1, <3>2, <3>3, <3>4 DEF Kept
    <3> QED BY <3>3, <3>5
  <2>3. CASE changed' = NoChange /\ changes = {}
    BY <1>9, <2>3
  <2>4. CASE changed' = Min(changes) /\ changes # {}
    <3>1. changes \subseteq Slots /\ changes \subseteq Nat
      <4>1. \A b \in old \cup fetched : b.time \in Slots /\ b.time \in Nat
        BY <1>4, <1>6
      <4> QED BY <1>2, <4>1 DEF ChangedTimes, Times
    <3>2. changed' \in changes /\ \A t \in changes : changed' <= t
      BY <2>4, <3>1, LeastIsMember
    <3>3. changed' # NoChange
      BY <3>1, <3>2, SlotsHaveDays, SessionIs DEF NoChange
    <3>4. ASSUME NEW b \in old \cup combined, Kept(b.time)' PROVE b.time \notin changes
      <4>1. b.time < changed' /\ b.time \in Nat /\ changed' \in Nat
        BY <1>4, <1>6, <1>7, <3>1, <3>2, <3>3, <3>4 DEF Kept
      <4> QED BY <3>2, <4>1
    <3> QED BY <1>9, <3>1, <3>2, <3>4
  <2> QED BY <1>2, <2>1, <2>2, <2>3, <2>4
<1>11. FilteredIsKept'
  <2>1. (resampled = FileBars(filtered))'
    BY <1>1, <1>3 DEF OutputsAreFull, FileBars, Resampled, BinStart
  <2>2. Trim(filtered)' = Filtered(old)
    BY <1>1, <1>2, <1>3 DEF OutputsAreFull, Trim, InWindow, WindowStart, WindowEnd
  <2>3. Filtered(Trim(source))' = Filtered(combined)
    BY <1>8 DEF Filtered, Regular
  <2>4. ASSUME NEW b \in Filtered(old) \cup Filtered(combined), Kept(b.time)'
        PROVE  b \in Filtered(old) /\ b \in Filtered(combined)
    BY <1>10, <2>4 DEF Filtered, Regular
  <2> QED BY <2>1, <2>2, <2>3, <2>4 DEF FilteredIsKept
<1>12. ChainTyped'
  BY <1>1, <1>3, <1>10 DEF ChainTyped
<1>13. OnePerTime'
  <2>1. \A a, b \in combined : a.time = b.time => a = b
    BY <1>4, <1>5 DEF Times
  <2> QED BY <1>1, <1>2, <1>3, <2>1 DEF OnePerTime
<1> QED BY <1>1, <1>8, <1>11, <1>12, <1>13 DEF ChainInv

-----------------------------------------------------------------------------
(* An output is rebuilt from the opening of a session, no later than that of   *)
(* the earliest change.                                                      *)
LEMMA RecomputeIs ==
  ASSUME ChainTyped, NEW n \in Nat, NEW T, T \subseteq Slots, T # {}, \A t \in T : t < n
  PROVE  /\ \E d \in Days : RecomputeStart(T) = Sessions[d].open
         /\ RecomputeStart(T) \in Nat
         /\ changed # NoChange => /\ DayOf[changed] \in Days
                                  /\ RecomputeStart(T) <= Sessions[DayOf[changed]].open
                                  /\ Sessions[DayOf[changed]].first <= changed
<1>1. PICK d \in Days : d = DayOf[Max(T)]
  BY GreatestSlot, SlotsHaveDays
<1>2. CASE changed = NoChange
  BY <1>1, <1>2, SessionIs DEF RecomputeStart
<1>3. CASE changed # NoChange
  <2>1. changed \in Slots
    BY <1>3 DEF ChainTyped
  <2>2. PICK e \in Days : e = DayOf[changed] /\ Sessions[e].first <= changed
    BY <2>1, SlotsHaveDays
  <2>3. RecomputeStart(T) = IF Sessions[d].open < Sessions[e].open THEN Sessions[d].open
                            ELSE Sessions[e].open
    BY <1>1, <1>3, <2>2 DEF RecomputeStart, Least
  <2>4. Sessions[d].open \in Nat /\ Sessions[e].open \in Nat
    BY SessionIs
  <2> QED BY <1>3, <2>2, <2>3, <2>4
<1> QED BY <1>2, <1>3

(* A regular slot before the session of the earliest change is before it. *)
LEMMA EarlyIsKept ==
  ASSUME ChainTyped, NEW t \in Slots, IsRegular(t), NEW w \in Nat
  PROVE  /\ Early(t) => Kept(t)
         /\ Early(BinStart(t, w)) => Early(t)
<1>1. CASE changed = NoChange
  BY <1>1 DEF Early, Kept
<1>2. CASE changed # NoChange
  <2>1. changed \in Slots
    BY <1>2 DEF ChainTyped
  <2>2. PICK e \in Days : e = DayOf[changed] /\ Sessions[e].first <= changed /\ changed \in Nat
    BY <2>1, SlotsHaveDays
  <2>3. /\ t < Sessions[e].open => t < Sessions[e].first
        /\ BinStart(t, w) < Sessions[e].open <=> t < Sessions[e].open
    BY BeforeOpening
  <2>4. t \in Nat /\ Sessions[e].first \in Nat
    BY SlotsHaveDays, SessionIs
  <2>5. t < Sessions[e].open => t < changed
    BY <2>2, <2>3, <2>4
  <2> QED BY <1>2, <2>2, <2>3, <2>5 DEF Early, Kept
<1> QED BY <1>1, <1>2

LEMMA FilterChain == ASSUME ChainInv, Filter PROVE ChainInv'
<1> DEFINE existing == Trim(filtered)
           from == IF existing = {} THEN 0 ELSE RecomputeStart(Times(existing))
           full == Filtered(Trim(source))
<1>1. /\ pc = "filter" /\ pc' = "resample"
      /\ filtered' = Trim({b \in existing : b.time < from}
                            \cup Filtered({b \in Trim(source) : b.time >= from}))
      /\ UNCHANGED <<market, source, resampled, now, changed, revisions, version>>
  BY DEF Filter
<1>2. /\ ChainTyped /\ OnePerTime /\ Past /\ FilteredIsKept
      /\ source \subseteq Bars
  BY <1>1 DEF ChainInv, BarsInv
<1>3. \A b \in existing \cup full :
         /\ b.time \in Slots /\ b.time \in Nat /\ IsRegular(b.time)
         /\ InWindow(b.time) /\ b \in Filtered(Bars)
  <2>1. \A b \in Filtered(Bars) : b.time \in Slots /\ b.time \in Nat /\ IsRegular(b.time)
    BY SlotsHaveDays DEF Filtered, Regular, Bars
  <2>2. \A b \in existing \cup full : b \in Filtered(Bars) /\ InWindow(b.time)
    BY <1>2 DEF ChainTyped, Trim, Filtered, Regular
  <2> QED BY <2>1, <2>2
<1>4. from \in Nat /\ (from # 0 /\ changed # NoChange => from <= Sessions[DayOf[changed]].open)
  <2>1. CASE existing = {}
    BY <2>1
  <2>2. CASE existing # {}
    <3>1. WindowEnd \in Nat
      BY <1>2, WindowIs DEF ChainTyped
    <3>2. Times(existing) \subseteq Slots /\ Times(existing) # {}
          /\ \A t \in Times(existing) : t < WindowEnd
      BY <1>3, <2>2 DEF Times, InWindow
    <3>3. RecomputeStart(Times(existing)) \in Nat
          /\ (changed # NoChange =>
                RecomputeStart(Times(existing)) <= Sessions[DayOf[changed]].open)
      BY <1>2, <3>1, <3>2, RecomputeIs
    <3> QED BY <2>2, <3>3
  <2> QED BY <2>1, <2>2
<1> HIDE DEF existing, from, full
<1>5. \A b \in existing \cup full : b.time < from => (b \in existing <=> b \in full)
  <2> SUFFICES ASSUME NEW b \in existing \cup full, b.time < from
               PROVE  b \in existing /\ b \in full
    OBVIOUS
  <2>1. Early(b.time)
    <3>1. CASE changed = NoChange
      BY <3>1 DEF Early
    <3>2. CASE changed # NoChange
      <4>1. changed \in Slots
        BY <1>2, <3>2 DEF ChainTyped
      <4>2. Sessions[DayOf[changed]].open \in Nat
        BY <4>1, SlotsHaveDays, SessionIs
      <4> QED BY <1>3, <1>4, <3>2, <4>2 DEF Early
    <3> QED BY <3>1, <3>2
  <2>2. Kept(b.time)
    BY <1>2, <1>3, <2>1, BoundsAssumption, EarlyIsKept
  <2> QED BY <1>2, <2>2 DEF FilteredIsKept, existing, full
<1>6. filtered' = full
  <2>1. ASSUME NEW b
        PROVE  b \in filtered' <=>
                 ((b \in existing /\ b.time < from) \/ (b \in full /\ b.time >= from))
    <3>1. b \in Filtered({c \in Trim(source) : c.time >= from}) <=> b \in full /\ b.time >= from
      BY DEF Filtered, Regular, full
    <3>2. (b \in existing /\ b.time < from) \/ (b \in full /\ b.time >= from) => InWindow(b.time)
      BY <1>3
    <3> QED BY <1>1, <3>1, <3>2 DEF Trim
  <2>2. ASSUME NEW b \in existing \cup full PROVE b.time < from \/ b.time >= from
    BY <1>3, <1>4
  <2>3. \A b \in existing \cup full : b.time >= from => ~(b.time < from)
    BY <1>3, <1>4
  <2> QED BY <1>5, <2>1, <2>2, <2>3
<1>7. \A t : /\ InWindow(t)' <=> InWindow(t)
             /\ Early(t)' <=> Early(t)
  BY <1>1 DEF InWindow, WindowStart, WindowEnd, Early
<1>8. ASSUME NEW r \in resampled \cup FileBars(full), Early(r.start)
      PROVE  r \in resampled /\ InWindow(r.start) <=> r \in FileBars(full)
  <2>1. \A b \in filtered : b.time \in Slots /\ IsRegular(b.time)
    BY <1>2 DEF ChainTyped, Filtered, Regular, Bars
  <2>2. \A b \in filtered \cup full : InWindow(BinStart(b.time, FileWidth)) <=> InWindow(b.time)
    BY <1>2, <1>3, <2>1, BinOfWindow, BoundsAssumption DEF ChainTyped
  <2>3. \A b \in filtered \cup full : Early(BinStart(b.time, FileWidth)) => Kept(b.time)
    BY <1>2, <1>3, <2>1, EarlyIsKept, BoundsAssumption
  <2>4. CASE InWindow(r.start)
    <3>1. ASSUME NEW b, BinStart(b.time, FileWidth) = r.start
          PROVE  b \in filtered <=> b \in full
      <4>1. b \in filtered => b \in existing
        BY <2>2, <2>4, <3>1 DEF Trim, existing
      <4>2. b \in existing => b \in filtered
        BY DEF Trim, existing
      <4>3. b \in existing \cup full => Kept(b.time)
        BY <1>8, <2>3, <3>1, <4>2
      <4> QED BY <1>2, <4>1, <4>2, <4>3 DEF FilteredIsKept, existing, full
    <3>2. r \in FileBars(filtered) <=> r \in FileBars(full)
      BY <3>1, SameFileBar
    <3> QED BY <1>2, <2>4, <3>2 DEF FilteredIsKept
  <2>5. CASE ~InWindow(r.start)
    <3>1. ASSUME r \in FileBars(full) PROVE FALSE
      <4>1. PICK b \in full : BinStart(b.time, FileWidth) = r.start
        BY <3>1, FileBarsAt
      <4> QED BY <1>3, <2>2, <2>5, <4>1
    <3> QED BY <2>5, <3>1
  <2> QED BY <2>4, <2>5
<1>9. ResampledIsKept'
  <2>1. Filtered(Trim(source))' = full
    BY <1>1, <1>7 DEF Filtered, Regular, Trim, full
  <2>2. FileBars(filtered)' = FileBars(full)
    BY <1>6 DEF FileBars, Resampled, BinStart
  <2> QED BY <1>1, <1>6, <1>7, <1>8, <2>1, <2>2 DEF ResampledIsKept
<1>10. ChainTyped'
  BY <1>1, <1>2, <1>3, <1>6 DEF ChainTyped
<1>11. BarsInv' /\ OnePerTime' /\ Past'
  BY <1>1, <1>2 DEF ChainInv, BarsInv, OnePerTime, Past, WindowEnd
<1> QED BY <1>1, <1>9, <1>10, <1>11 DEF ChainInv

LEMMA ResampleChain == ASSUME ChainInv, Resample PROVE ChainInv'
<1> DEFINE existing == {r \in resampled : InWindow(r.start)}
           from == IF existing = {} THEN 0 ELSE RecomputeStart({r.start : r \in existing})
           new == FileBars({b \in Trim(filtered) : b.time >= from})
<1>1. /\ pc = "resample" /\ pc' = "idle"
      /\ resampled' = {r \in {r \in existing : r.start < from} \cup new : InWindow(r.start)}
      /\ UNCHANGED <<market, source, filtered, now, changed, revisions, version>>
  BY DEF Resample
<1>2. /\ ChainTyped /\ OnePerTime /\ Past /\ ResampledIsKept
      /\ FileWidth \in Nat
  BY <1>1, BoundsAssumption DEF ChainInv
<1>3. \A b \in filtered :
         /\ b.time \in Slots /\ b.time \in Nat /\ IsRegular(b.time)
         /\ InWindow(b.time) /\ b \in source
  <2>1. \A b \in filtered : b.time \in Slots /\ IsRegular(b.time)
    BY <1>2 DEF ChainTyped, Filtered, Regular, Bars
  <2> QED BY <1>2, <2>1, SlotsHaveDays DEF ResampledIsKept, Filtered, Regular, Trim
<1>4. Trim(filtered) = filtered
  BY <1>3 DEF Trim
<1>5. /\ from \in Nat /\ (from = 0 \/ \E d \in Days : from = Sessions[d].open)
      /\ from # 0 /\ changed # NoChange => from <= Sessions[DayOf[changed]].open
  <2>1. CASE existing = {}
    BY <2>1
  <2>2. CASE existing # {}
    <3> DEFINE T == {r.start : r \in existing}
    <3>1. WindowEnd \in Nat
      BY <1>2, WindowIs DEF ChainTyped
    <3>2. T \subseteq Slots /\ T # {} /\ \A t \in T : t < WindowEnd
      BY <1>2, <2>2 DEF ChainTyped, InWindow
    <3>3. from = RecomputeStart(T)
      BY <2>2
    <3> HIDE DEF T, from
    <3> QED BY <1>2, <3>1, <3>2, <3>3, RecomputeIs
  <2> QED BY <2>1, <2>2
<1> HIDE DEF from
<1>6. \A b \in filtered :
         /\ BinStart(b.time, FileWidth) \in Slots /\ BinStart(b.time, FileWidth) \in Nat
         /\ InWindow(BinStart(b.time, FileWidth))
         /\ BinStart(b.time, FileWidth) >= from <=> b.time >= from
  <2> SUFFICES ASSUME NEW b \in filtered
               PROVE  /\ BinStart(b.time, FileWidth) \in Slots
                      /\ BinStart(b.time, FileWidth) \in Nat
                      /\ InWindow(BinStart(b.time, FileWidth))
                      /\ BinStart(b.time, FileWidth) >= from <=> b.time >= from
    OBVIOUS
  <2>1. PICK t \in Slots : t = b.time /\ IsRegular(t) /\ InWindow(t) /\ t \in Nat
    BY <1>3
  <2>2. /\ BinStart(t, FileWidth) \in Slots /\ BinStart(t, FileWidth) \in Nat
        /\ InWindow(BinStart(t, FileWidth))
    BY <1>2, <2>1, BinStarts, BinIsSlot, BinOfWindow DEF ChainTyped
  <2>3. BinStart(t, FileWidth) < from <=> t < from
    <3>1. CASE from = 0
      BY <2>1, <2>2, <3>1
    <3>2. CASE from # 0
      <4>1. PICK d \in Days : from = Sessions[d].open
        BY <1>5, <3>2
      <4> QED BY <1>2, <2>1, <4>1, BeforeOpening
    <3> QED BY <3>1, <3>2
  <2>4. BinStart(t, FileWidth) >= from <=> t >= from
    BY <1>5, <2>1, <2>2, <2>3
  <2> QED BY <2>1, <2>2, <2>4
<1>7. \A r \in FileBars(filtered) : r.start \in Slots /\ r.start \in Nat /\ InWindow(r.start)
  BY <1>6, FileBarsAt
<1>8. ASSUME NEW r PROVE r \in new <=> r \in FileBars(filtered) /\ r.start >= from
  <2> DEFINE late == {b \in filtered : b.time >= from}
  <2>1. new = FileBars(late)
    BY <1>4
  <2> HIDE DEF new
  <2>2. ASSUME r \in FileBars(late) PROVE r.start >= from
    <3>1. PICK b \in late : BinStart(b.time, FileWidth) = r.start
      BY <2>2, FileBarsAt
    <3> QED BY <1>6, <3>1
  <2>3. ASSUME r.start >= from PROVE r \in FileBars(late) <=> r \in FileBars(filtered)
    <3>1. ASSUME NEW b, BinStart(b.time, FileWidth) = r.start
          PROVE  b \in late <=> b \in filtered
      BY <1>6, <2>3, <3>1
    <3> HIDE DEF late
    <3> QED BY <3>1, SameFileBar
  <2> QED BY <2>1, <2>2, <2>3
<1>9. ASSUME NEW r \in resampled \cup FileBars(filtered), r.start < from
      PROVE  r \in resampled /\ InWindow(r.start) <=> r \in FileBars(filtered)
  <2>1. r.start \in Nat
    BY <1>2, <1>7, SlotsHaveDays DEF ChainTyped
  <2>2. Early(r.start)
    <3>1. CASE changed = NoChange
      BY <3>1 DEF Early
    <3>2. CASE changed # NoChange
      <4>1. changed \in Slots
        BY <1>2, <3>2 DEF ChainTyped
      <4>2. Sessions[DayOf[changed]].open \in Nat
        BY <4>1, SlotsHaveDays, SessionIs
      <4> QED BY <1>5, <1>9, <2>1, <3>2, <4>2 DEF Early
    <3> QED BY <3>1, <3>2
  <2> QED BY <1>2, <2>2 DEF ResampledIsKept
<1>10. resampled' = FileBars(filtered)
  <2> HIDE DEF new
  <2>1. ASSUME NEW r \in FileBars(filtered) PROVE r \in resampled'
    <3>1. r.start < from \/ r.start >= from
      BY <1>5, <1>7
    <3> QED BY <1>1, <1>7, <1>8, <1>9, <3>1
  <2>2. ASSUME NEW r \in resampled' PROVE r \in FileBars(filtered)
    BY <1>1, <1>8, <1>9, <2>2
  <2> QED BY <2>1, <2>2
<1>11. OutputsAreFull'
  <2>1. (filtered \subseteq source)'
    BY <1>1, <1>3
  <2>2. Trim(filtered)' = Trim(filtered) /\ Filtered(Trim(source))' = Filtered(Trim(source))
    BY <1>1 DEF Trim, Filtered, Regular, IsRegular, InWindow, WindowStart, WindowEnd
  <2>3. FileBars(filtered)' = FileBars(filtered)
    BY <1>1 DEF FileBars, Resampled, BinStart
  <2> QED BY <1>2, <1>4, <1>10, <2>1, <2>2, <2>3 DEF OutputsAreFull, ResampledIsKept
<1>12. ChainTyped'
  BY <1>1, <1>2, <1>7, <1>10 DEF ChainTyped
<1>13. BarsInv' /\ OnePerTime' /\ Past'
  BY <1>1, <1>2 DEF ChainInv, BarsInv, OnePerTime, Past, WindowEnd
<1> QED BY <1>1, <1>11, <1>12, <1>13 DEF ChainInv

LEMMA StepChain == ChainInv /\ [Next]_vars => ChainInv'
<1>1. ASSUME ChainInv, UNCHANGED vars PROVE ChainInv'
  <2>1. UNCHANGED <<market, source, filtered, resampled, now, changed, pc, revisions, version>>
    BY <1>1 DEF vars
  <2>2. /\ Trim(filtered)' = Trim(filtered)
        /\ Filtered(Trim(source))' = Filtered(Trim(source))
        /\ FileBars(filtered)' = FileBars(filtered)
    BY <2>1 DEF Trim, Filtered, Regular, IsRegular, InWindow, WindowStart, WindowEnd, FileBars,
                Resampled, BinStart
  <2>3. \A t : /\ InWindow(t)' <=> InWindow(t)
               /\ Kept(t)' <=> Kept(t)
               /\ Early(t)' <=> Early(t)
    BY <2>1 DEF InWindow, WindowStart, WindowEnd, Kept, Early
  <2>4. BarsInv' /\ OnePerTime' /\ Past' /\ ChainTyped'
    BY <1>1, <2>1 DEF ChainInv, BarsInv, OnePerTime, Past, ChainTyped, WindowEnd
  <2>5. OutputsAreFull => OutputsAreFull'
    BY <2>1, <2>2 DEF OutputsAreFull
  <2>6. FilteredIsKept => FilteredIsKept'
    BY <2>1, <2>2, <2>3 DEF FilteredIsKept
  <2>7. ResampledIsKept => ResampledIsKept'
    BY <2>1, <2>2, <2>3 DEF ResampledIsKept
  <2> QED BY <1>1, <2>1, <2>4, <2>5, <2>6, <2>7 DEF ChainInv
<1> QED BY <1>1, NextSessionChain, CorrectChain, ReadjustChain, CollectChain, FilterChain,
           ResampleChain DEF Next

(* The variables hold bars, slots and phases of the calendar. *)
THEOREM AlwaysTyped == Spec => []TypeOK
<1>1. ChainInv => TypeOK
  BY DEF ChainInv, BarsInv, ChainTyped, TypeOK, Filtered, Regular
<1> QED BY <1>1, InitChain, StepChain, PTL DEF Spec

(* The incremental filter and resampler leave what a whole run over the window *)
(* would, for any calendar, window and refresh, and any late, corrected or    *)
(* re-adjusted bars (process_file_incrementally,                              *)
(* process_resample_file_incrementally).                                      *)
THEOREM AlwaysFull == Spec => []IncrementalIsFull
<1>1. ChainInv => IncrementalIsFull
  <2> SUFFICES ASSUME ChainInv, pc = "idle", Trim(source) = source
               PROVE  /\ filtered = Filtered(source)
                      /\ resampled = {r \in FileBars(Filtered(source)) : InWindow(r.start)}
    BY DEF IncrementalIsFull, Ran
  <2>1. OutputsAreFull /\ ChainTyped
    BY DEF ChainInv
  <2>2. \A b \in filtered : InWindow(b.time)
    <3>1. \A b \in source : InWindow(b.time)
      BY DEF Trim
    <3> QED BY <2>1, <3>1 DEF OutputsAreFull
  <2>3. filtered = Filtered(source)
    BY <2>1, <2>2 DEF OutputsAreFull, Trim
  <2>4. \A b \in filtered : InWindow(BinStart(b.time, FileWidth))
    BY <2>1, <2>2, BinOfWindow, BoundsAssumption DEF ChainTyped, Filtered, Regular, Bars
  <2>5. \A r \in FileBars(filtered) : InWindow(r.start)
    BY <2>4, FileBarsAt
  <2> QED BY <2>1, <2>3, <2>5 DEF OutputsAreFull
<1> QED BY <1>1, InitChain, StepChain, PTL DEF Spec

-----------------------------------------------------------------------------
(* Which longer bars lack source bars.  The slots of a session between its    *)
(* opening and its close are those of its regular bars.                      *)
LEMMA RegularIs ==
  ASSUME NEW d \in Days, NEW t \in Nat
  PROVE  Sessions[d].open <= t /\ t < Sessions[d].close
           <=> t \in Slots /\ DayOf[t] = d /\ IsRegular(t)
<1>1. ASSUME t \in Slots, DayOf[t] = d, IsRegular(t)
      PROVE  Sessions[d].open <= t /\ t < Sessions[d].close
  BY <1>1 DEF IsRegular
<1>2. ASSUME Sessions[d].open <= t, t < Sessions[d].close
      PROVE  t \in Slots /\ DayOf[t] = d /\ IsRegular(t)
  <2>1. t \in Sessions[d].first .. Sessions[d].last
    BY <1>2, SessionIs
  <2>2. t \in Slots
    BY <2>1 DEF Slots
  <2>3. PICK e \in Days : e = DayOf[t] /\ Sessions[e].first <= t /\ t <= Sessions[e].last
    BY <2>2, SlotsHaveDays
  <2>4. ~(e < d) /\ ~(d < e)
    BY <2>1, <2>3, SessionsFollow, SessionIs
  <2>5. e = d
    BY <2>4, SessionIs
  <2> QED BY <1>2, <2>2, <2>3, <2>5 DEF IsRegular
<1> QED BY <1>1, <1>2

(* A bin reaches up to the next one, and every slot in between is in it. *)
LEMMA DivCeiling ==
  ASSUME NEW n \in Nat, NEW w \in Nat \ {0}
  PROVE  n < (n \div w) * w + w
  BY Z3

LEMMA DivUnique ==
  ASSUME NEW n \in Nat, NEW q \in Nat, NEW w \in Nat \ {0}, q * w <= n, n < q * w + w
  PROVE  n \div w = q
<1>1. PICK p \in Nat : p = n \div w /\ p * w <= n /\ n < p * w + w
  BY DivFloor, DivCeiling
<1>2. ASSUME NEW x \in Nat, NEW y \in Nat, x < y PROVE x * w + w <= y * w
  <2>1. (x + 1) * w <= y * w
    BY <1>2, Z3
  <2>2. (x + 1) * w = x * w + w
    BY Z3
  <2> QED BY <2>1, <2>2
<1>3. q * w \in Nat /\ p * w \in Nat
  BY Z3
<1>4. ~(p < q) /\ ~(q < p)
  BY <1>1, <1>2, <1>3
<1> QED BY <1>1, <1>4

(* The end of the bin of a slot: that of its session, if it comes first. *)
BinEnd(s, d, w) ==
    IF w = 0 THEN Sessions[d].close ELSE Least(s + w, Sessions[d].close)

LEMMA BinIs ==
  ASSUME NEW t \in Slots, IsRegular(t), NEW w \in Nat, NEW u
  PROVE  u \in Slots /\ DayOf[u] = DayOf[t] /\ IsRegular(u) /\ BinStart(u, w) = BinStart(t, w)
           <=> u \in BinStart(t, w) .. (BinEnd(BinStart(t, w), DayOf[t], w) - 1)
<1> DEFINE s == BinStart(t, w)
<1>1. PICK d \in Days : d = DayOf[t]
  BY SlotsHaveDays
<1>2. PICK o \in Nat : o = Sessions[d].open
  BY SessionIs
<1>3. PICK q \in Nat : q = Bin(t, w) /\ q * w \in Nat /\ s = o + q * w /\ s \in Nat
  BY <1>1, <1>2, BinStarts
<1>4. PICK close \in Nat : close = Sessions[d].close /\ o < close
  BY <1>2, SessionIs
<1> DEFINE hi == IF w = 0 THEN close ELSE Least(s + w, close)
<1>5. BinEnd(s, DayOf[t], w) = hi
  BY <1>1, <1>4 DEF BinEnd
<1>6. ASSUME NEW x \in Slots, IsRegular(x), DayOf[x] = d
      PROVE  /\ x \in Nat /\ o <= x /\ x < close
             /\ BinStart(x, w) = s <=> s <= x /\ x < hi
  <2>1. /\ x \in Nat /\ o <= x /\ x < close
    BY <1>2, <1>4, <1>6, SlotsHaveDays, RegularIs
  <2>2. CASE w = 0
    BY <1>2, <1>3, <1>6, <2>1, <2>2 DEF BinStart, Bin
  <2>3. CASE w # 0
    <3> DEFINE p == (x - o) \div w
    <3>1. BinStart(x, w) = o + p * w
      BY <1>2, <1>6, <2>3 DEF BinStart
    <3>2. x - o \in Nat
      BY <2>1
    <3>3. p \in Nat /\ p * w \in Nat /\ p * w <= x - o /\ x - o < p * w + w
      BY <2>3, <3>2, DivFloor, DivCeiling
    <3>4. x < hi <=> x < s + w
      BY <1>3, <2>1, <2>3 DEF Least
    <3>5. ASSUME s <= x, x < s + w PROVE p = q
      <4>1. q * w <= x - o /\ x - o < q * w + w
        BY <1>3, <2>1, <3>5
      <4> QED BY <2>3, <3>2, <4>1, DivUnique
    <3>6. ASSUME o + p * w = s PROVE s <= x /\ x < s + w
      <4> HIDE DEF p, s
      <4> QED BY <1>3, <2>1, <3>3, <3>6
    <3>7. x < hi /\ s <= x => BinStart(x, w) = s
      BY <1>3, <3>1, <3>4, <3>5
    <3>8. BinStart(x, w) = s => s <= x /\ x < hi
      BY <3>1, <3>4, <3>6
    <3> QED BY <2>1, <3>7, <3>8
  <2> QED BY <2>2, <2>3
<1>7. hi \in Nat /\ hi <= close
  <2> HIDE DEF s
  <2>1. s + w \in Nat
    BY <1>3
  <2> QED BY <1>4, <2>1 DEF Least
<1>8. ASSUME NEW x \in s .. (hi - 1)
      PROVE  x \in Slots /\ DayOf[x] = d /\ IsRegular(x) /\ s <= x /\ x < hi
  <2>1. x \in Nat /\ s <= x /\ x < hi
    BY <1>3, <1>7
  <2>2. o <= x /\ x < close
    BY <1>3, <1>7, <2>1
  <2> QED BY <1>2, <1>4, <2>1, <2>2, RegularIs
<1>9. ASSUME NEW x \in Nat, s <= x, x < hi PROVE x \in s .. (hi - 1)
  BY <1>3, <1>7, <1>9
<1> HIDE DEF hi, s
<1>10. ASSUME u \in s .. (hi - 1)
       PROVE  u \in Slots /\ DayOf[u] = d /\ IsRegular(u) /\ BinStart(u, w) = s
  BY <1>6, <1>8, <1>10
<1>11. ASSUME u \in Slots, DayOf[u] = d, IsRegular(u), BinStart(u, w) = s
       PROVE  u \in s .. (hi - 1)
  BY <1>6, <1>9, <1>11
<1> QED BY <1>1, <1>5, <1>10, <1>11 DEF s

(* Bars of different slots of a stretch are no more than its slots, and as     *)
(* many only if every slot has one.                                          *)
LEMMA BarsOfStretch ==
  ASSUME NEW B, \A a, b \in B : a.time = b.time => a = b,
         NEW lo \in Nat, NEW hi \in Nat, lo <= hi, Times(B) \subseteq lo .. (hi - 1)
  PROVE  /\ Cardinality(B) \in Nat /\ Cardinality(B) <= hi - lo
         /\ Cardinality(B) < hi - lo <=> Times(B) # lo .. (hi - 1)
<1> DEFINE T == Times(B)
           f == [b \in B |-> b.time]
<1>1. IsFiniteSet(lo .. (hi - 1)) /\ Cardinality(lo .. (hi - 1)) = hi - lo
  <2>1. lo \in Int /\ hi - 1 \in Int
    OBVIOUS
  <2>2. IsFiniteSet(lo .. (hi - 1))
        /\ Cardinality(lo .. (hi - 1)) = IF lo > hi - 1 THEN 0 ELSE hi - 1 - lo + 1
    BY <2>1, FS_Interval
  <2> QED BY <2>2
<1>2. IsFiniteSet(T) /\ Cardinality(T) <= Cardinality(lo .. (hi - 1))
      /\ (Cardinality(T) = Cardinality(lo .. (hi - 1)) => T = lo .. (hi - 1))
  BY <1>1, FS_Subset
<1>3. f \in Injection(B, T) /\ f \in Surjection(B, T)
  <2>1. T = {b.time : b \in B} /\ f \in [B -> T]
    BY DEF Times
  <2>2. \A a, b \in B : f[a] = f[b] => a = b
    OBVIOUS
  <2>3. \A t \in T : \E b \in B : f[b] = t
    BY <2>1
  <2> HIDE DEF T, f
  <2> QED BY <2>1, <2>2, <2>3 DEF Injection, IsInjective, Surjection
<1>4. IsFiniteSet(B) /\ Cardinality(B) = Cardinality(T)
  BY <1>2, <1>3, FS_Injection
<1>5. Cardinality(B) \in Nat
  BY <1>4, FS_CardinalityType
<1> HIDE DEF T
<1>6. T = lo .. (hi - 1) => Cardinality(T) = hi - lo
  BY <1>1
<1> QED BY <1>1, <1>2, <1>4, <1>5, <1>6 DEF T

(* The regular bars of a file: a slot, its session and its bin. *)
LEMMA RegularBar ==
  ASSUME NEW S, S \subseteq Bars, NEW b \in Regular(S)
  PROVE  b \in S /\ b.time \in Slots /\ b.time \in Nat /\ IsRegular(b.time)
BY SlotsHaveDays DEF Regular, Bars

(* A derived bar: its bars are those of a bin, from its start on. *)
LEMMA DerivedIs ==
  ASSUME NEW S, S \subseteq Bars, NEW w \in Nat, NEW r \in Derived(S, w)
  PROVE  /\ r.bars \subseteq S /\ r.bars # {}
         /\ r.start \in Slots /\ r.start \in Nat /\ IsRegular(r.start)
         /\ r.start \in Times(r.bars)
         /\ Times(r.bars) \subseteq BinSlots(r, w)
         /\ \A t \in Times(r.bars) : r.start <= t
<1> DEFINE R == Regular(S)
<1>1. PICK g \in Groups(R, w) : r = [start |-> Min(Times(g)), bars |-> g]
  BY DEF Derived
<1>2. PICK a \in R : g = {b \in R : DayOf[b.time] = DayOf[a.time] /\ Bin(b.time, w) = Bin(a.time, w)}
  BY <1>1 DEF Groups
<1>3. r.start = Min(Times(g)) /\ r.bars = g
  BY <1>1
<1>4. a \in g /\ g \subseteq R
  BY <1>2
<1>5. \A b \in g : /\ b \in S /\ b.time \in Slots /\ b.time \in Nat /\ IsRegular(b.time)
                   /\ DayOf[b.time] = DayOf[a.time] /\ Bin(b.time, w) = Bin(a.time, w)
  BY <1>2, <1>4, RegularBar
<1>6. Times(g) \subseteq Nat /\ Times(g) # {}
  BY <1>4, <1>5 DEF Times
<1>7. Min(Times(g)) \in Times(g) /\ \A y \in Times(g) : Min(Times(g)) <= y
  BY <1>6, LeastIsMember
<1>8. PICK c \in g : c.time = r.start
  BY <1>3, <1>7 DEF Times
<1>9. \A b \in g : BinStart(b.time, w) = BinStart(c.time, w)
  BY <1>5, SameBin
<1>10. Times(g) \subseteq BinSlots(r, w)
  BY <1>5, <1>8, <1>9 DEF Times, BinSlots
<1> QED BY <1>3, <1>4, <1>5, <1>7, <1>8, <1>10

(* quality_issues of the official pipeline. *)
LEMMA DerivedIsWarned ==
  ASSUME NEW S, S \subseteq Bars, \A a, b \in S : a.time = b.time => a = b,
         NEW w \in Nat, NEW r \in Derived(S, w)
  PROVE  WarnedRightly(r, w)
<1>1. PICK t \in Nat, d \in Days : t = r.start /\ d = DayOf[t] /\ t \in Slots /\ IsRegular(t)
  BY DerivedIs, SlotsHaveDays
<1>2. PICK o \in Nat, close \in Nat :
         o = Sessions[d].open /\ close = Sessions[d].close /\ o <= t /\ t < close
  BY <1>1, SessionIs, RegularIs
<1>3. PICK s \in Nat : s = BinStart(t, w) /\ o <= s /\ s <= t /\ (w = 0 => s = o)
  BY <1>1, <1>2, BinStarts DEF BinStart
<1>4. PICK hi \in Nat : hi = BinEnd(s, d, w) /\ hi = IF w = 0 THEN close ELSE Least(s + w, close)
  BY <1>2, <1>3 DEF BinEnd, Least
<1>5. t < hi
  <2>1. t \in s .. (hi - 1)
    BY <1>1, <1>3, <1>4, BinIs
  <2> QED BY <1>3, <1>4, <2>1
<1>6. BinSlots(r, w) = s .. (hi - 1)
  <2> DEFINE InBin(u) == u \in Slots /\ DayOf[u] = DayOf[t] /\ IsRegular(u)
                            /\ BinStart(u, w) = BinStart(t, w)
  <2>1. BinSlots(r, w) = {u \in Slots : InBin(u)}
    BY <1>1 DEF BinSlots
  <2>2. ASSUME NEW u PROVE InBin(u) <=> u \in s .. (hi - 1)
    <3>1. InBin(u) <=> u \in BinStart(t, w) .. (BinEnd(BinStart(t, w), DayOf[t], w) - 1)
      BY <1>1, BinIs
    <3> QED BY <1>1, <1>3, <1>4, <3>1
  <2> HIDE DEF InBin
  <2>3. \A u : InBin(u) => u \in Slots
    BY DEF InBin
  <2> QED BY <2>1, <2>2, <2>3
<1>7. PICK T : T = Times(r.bars)
  OBVIOUS
<1>8. /\ t \in T /\ T \subseteq s .. (hi - 1) /\ T \subseteq t .. (hi - 1)
  <2>1. T \subseteq s .. (hi - 1) /\ \A u \in T : t <= u
    BY <1>1, <1>6, <1>7, DerivedIs
  <2>2. T \subseteq t .. (hi - 1)
    BY <1>3, <2>1
  <2> QED BY <1>1, <1>7, <2>1, <2>2, DerivedIs
<1>9. \A a, b \in r.bars : a.time = b.time => a = b
  BY DerivedIs
<1>10. PICK n \in Nat : /\ n = Cardinality(r.bars)
                        /\ n <= hi - s /\ (n < hi - s <=> T # s .. (hi - 1))
                        /\ n <= hi - t /\ (n < hi - t <=> T # t .. (hi - 1))
  <2>1. /\ Cardinality(r.bars) \in Nat /\ Cardinality(r.bars) <= hi - s
        /\ Cardinality(r.bars) < hi - s <=> T # s .. (hi - 1)
    BY <1>3, <1>5, <1>7, <1>8, <1>9, BarsOfStretch
  <2>2. /\ Cardinality(r.bars) <= hi - t
        /\ Cardinality(r.bars) < hi - t <=> T # t .. (hi - 1)
    BY <1>5, <1>7, <1>8, <1>9, BarsOfStretch
  <2> QED BY <2>1, <2>2
<1>11. SessionLength(DayOf[r.start]) = close - o
  BY <1>1, <1>2 DEF SessionLength
<1>12. Warned(r, w) <=> n < IF w = 0 THEN close - o ELSE Least(w, close - t)
  BY <1>1, <1>2, <1>10, <1>11 DEF Warned, Expected
<1>13. IsLastBin(r, w) <=> w # 0 /\ s + w >= close
  BY <1>1, <1>2, <1>3 DEF IsLastBin
<1> DEFINE missing == BinSlots(r, w) \ Times(r.bars)
<1>14. PICK expected, most : /\ expected = IF w = 0 THEN close - o ELSE Least(w, close - t)
                             /\ most = IF w = 0 THEN close - o ELSE Least(w, close - o)
  OBVIOUS
<1>15. /\ expected \in Nat /\ most \in Nat /\ n <= most
       /\ n < expected => n < hi - s
       /\ n >= expected => IF w # 0 /\ s + w >= close THEN n >= hi - t ELSE n >= hi - s
  <2>1. /\ o <= s /\ s <= t /\ t < hi /\ t < close /\ (w = 0 => s = o)
        /\ hi = IF w = 0 THEN close ELSE Least(s + w, close)
        /\ n <= hi - s /\ n <= hi - t
    BY <1>2, <1>3, <1>4, <1>5, <1>10
  <2>2. CASE w = 0
    BY <1>14, <2>1, <2>2
  <2>3. CASE w # 0 /\ s + w < close
    <3>1. hi = s + w /\ n <= w /\ w < close - o
      BY <2>1, <2>3 DEF Least
    <3>2. most = w
      BY <1>14, <2>1, <2>3, <3>1 DEF Least
    <3>3. CASE w < close - t
      BY <1>14, <2>1, <2>3, <3>1, <3>2, <3>3 DEF Least
    <3>4. CASE ~(w < close - t)
      BY <1>14, <2>1, <2>3, <3>1, <3>2, <3>4 DEF Least
    <3> QED BY <3>3, <3>4
  <2>4. CASE w # 0 /\ s + w >= close
    <3>1. hi = close /\ n <= w /\ n <= close - o /\ ~(w < close - t)
      BY <2>1, <2>4 DEF Least
    <3>2. expected = close - t
      BY <1>14, <2>1, <2>4, <3>1 DEF Least
    <3>3. most \in Nat /\ n <= most
      BY <1>14, <2>1, <2>4, <3>1 DEF Least
    <3> QED BY <2>1, <2>4, <3>1, <3>2, <3>3
  <2> QED BY <2>2, <2>3, <2>4
<1>16. ~Rejected(r, w)
  <2>1. Rejected(r, w) => ~IsRegular(r.start) \/ r.bars = {} \/ n > most
    BY <1>1, <1>10, <1>11, <1>14 DEF Rejected
  <2>2. ~(n > most)
    BY <1>15
  <2>3. IsRegular(r.start) /\ r.bars # {}
    BY DerivedIs
  <2> QED BY <2>1, <2>2, <2>3
<1>17. Warned(r, w) <=> n < expected
  BY <1>12, <1>14
<1>18. missing = (s .. (hi - 1)) \ T
  BY <1>6, <1>7
<1>19. ASSUME Warned(r, w) PROVE missing # {}
  BY <1>8, <1>10, <1>15, <1>17, <1>18, <1>19
<1>20. ASSUME ~Warned(r, w), IsLastBin(r, w) PROVE \A u \in missing : u < r.start
  <2>1. T = t .. (hi - 1)
    BY <1>10, <1>13, <1>15, <1>17, <1>20
  <2> QED BY <1>1, <1>3, <1>18, <2>1
<1>21. ASSUME ~Warned(r, w), ~IsLastBin(r, w) PROVE missing = {}
  BY <1>10, <1>13, <1>15, <1>17, <1>18, <1>21
<1> HIDE DEF missing
<1> QED BY <1>16, <1>19, <1>20, <1>21 DEF WarnedRightly, missing

-----------------------------------------------------------------------------
(* A longer bar of the file backfill: a session's first bar is the start of   *)
(* its bins, and its bars are in one stretch of the session.                 *)
LEMMA FromFirstIs ==
  ASSUME NEW S, S \subseteq Bars, NEW w \in Nat, NEW r \in FromFirst(S, w)
  PROVE  /\ r.bars \subseteq S
         /\ r.start \in Slots /\ r.start \in Nat /\ IsRegular(r.start)
         /\ \A b \in r.bars :
              /\ b.time \in Slots /\ b.time \in Nat /\ IsRegular(b.time)
              /\ DayOf[b.time] = DayOf[r.start] /\ r.start <= b.time
              /\ w # 0 => b.time < r.start + w
<1> DEFINE First(t) == Min({b.time : b \in {c \in Regular(S) : DayOf[c.time] = DayOf[t]}})
           Start(t) == IF w = 0 THEN First(t) ELSE First(t) + ((t - First(t)) \div w) * w
<1>1. FromFirst(S, w) = {[start |-> s, bars |-> {b \in Regular(S) : Start(b.time) = s}] :
                            s \in {Start(b.time) : b \in Regular(S)}}
  BY DEF FromFirst
<1>2. PICK s \in {Start(b.time) : b \in Regular(S)} :
         r = [start |-> s, bars |-> {b \in Regular(S) : Start(b.time) = s}]
  BY <1>1
<1>3. r.start = s /\ r.bars = {b \in Regular(S) : Start(b.time) = s}
  BY <1>2
<1>4. ASSUME NEW b \in Regular(S)
      PROVE  /\ b \in S /\ b.time \in Slots /\ b.time \in Nat /\ IsRegular(b.time)
             /\ Start(b.time) \in Slots /\ Start(b.time) \in Nat /\ IsRegular(Start(b.time))
             /\ DayOf[Start(b.time)] = DayOf[b.time] /\ Start(b.time) <= b.time
             /\ w # 0 => b.time < Start(b.time) + w
  <2> DEFINE T == {c.time : c \in {c \in Regular(S) : DayOf[c.time] = DayOf[b.time]}}
  <2>1. b \in S /\ b.time \in Slots /\ b.time \in Nat /\ IsRegular(b.time)
    BY <1>4, RegularBar
  <2>2. \A t \in T : t \in Slots /\ t \in Nat /\ IsRegular(t) /\ DayOf[t] = DayOf[b.time]
    BY RegularBar
  <2>3. b.time \in T
    BY <1>4
  <2>4. PICK f : f = First(b.time)
    OBVIOUS
  <2>5. f = Min(T)
    BY <2>4
  <2> HIDE DEF T
  <2>6. f \in T /\ f <= b.time
    BY <2>2, <2>3, <2>5, LeastIsMember
  <2>7. PICK d \in Days : d = DayOf[b.time]
    BY <2>1, SlotsHaveDays
  <2>8. /\ f \in Nat /\ Sessions[d].open <= f /\ Sessions[d].open \in Nat
        /\ b.time < Sessions[d].close /\ Sessions[d].close \in Nat
    BY <2>1, <2>2, <2>6, <2>7, RegularIs, SessionIs
  <2>9. PICK u : u = Start(b.time)
    OBVIOUS
  <2>10. u \in Nat /\ f <= u /\ u <= b.time /\ (w # 0 => b.time < u + w)
    <3>1. u = IF w = 0 THEN f ELSE f + ((b.time - f) \div w) * w
      BY <2>4, <2>9
    <3>2. PICK n \in Nat : n = b.time - f
      BY <2>1, <2>6, <2>8
    <3>3. CASE w = 0
      BY <2>6, <2>8, <3>1, <3>3
    <3>4. CASE w # 0
      <4>1. PICK m \in Nat : m = (n \div w) * w /\ m <= n /\ n < m + w
        BY <3>4, DivFloor, DivCeiling
      <4>2. u = f + m
        BY <3>1, <3>2, <3>4, <4>1
      <4> QED BY <2>1, <2>6, <2>8, <3>2, <4>1, <4>2
    <3> QED BY <3>3, <3>4
  <2>11. u \in Slots /\ DayOf[u] = d /\ IsRegular(u)
    <3>1. Sessions[d].open <= u /\ u < Sessions[d].close
      BY <2>1, <2>8, <2>10
    <3> QED BY <2>10, <3>1, RegularIs
  <2> HIDE DEF Start
  <2> QED BY <2>1, <2>7, <2>9, <2>10, <2>11
<1> HIDE DEF Start
<1>5. PICK a \in Regular(S) : s = Start(a.time)
  OBVIOUS
<1>6. r.start \in Slots /\ r.start \in Nat /\ IsRegular(r.start)
  BY <1>3, <1>4, <1>5
<1>7. ASSUME NEW b \in r.bars
      PROVE  /\ b \in S /\ b.time \in Slots /\ b.time \in Nat /\ IsRegular(b.time)
             /\ DayOf[b.time] = DayOf[r.start] /\ r.start <= b.time
             /\ w # 0 => b.time < r.start + w
  BY <1>3, <1>4
<1> QED BY <1>6, <1>7

(* quality_issues of the file backfill. *)
LEMMA FromFirstIsWarned ==
  ASSUME NEW S, S \subseteq Bars, \A a, b \in S : a.time = b.time => a = b,
         NEW w \in Nat, NEW r \in FromFirst(S, w)
  PROVE  PartialFromFirst(r, w)
<1>1. PICK s \in Nat, d \in Days : s = r.start /\ d = DayOf[s] /\ s \in Slots /\ IsRegular(s)
  BY FromFirstIs, SlotsHaveDays
<1>2. PICK o \in Nat, close \in Nat :
         o = Sessions[d].open /\ close = Sessions[d].close /\ o <= s /\ s < close
  BY <1>1, SessionIs, RegularIs
<1>3. PICK hi \in Nat : hi = (IF w = 0 THEN close ELSE Least(s + w, close)) /\ s < hi /\ hi <= close
  BY <1>2 DEF Least
<1>4. \A t \in Nat : t < hi <=> t < close /\ (w # 0 => t < s + w)
  BY <1>2, <1>3 DEF Least
<1> DEFINE slots == {t \in Slots : /\ DayOf[t] = DayOf[r.start] /\ IsRegular(t) /\ r.start <= t
                                   /\ w # 0 => t < r.start + w}
<1>5. ASSUME NEW t \in Nat
      PROVE  t \in slots <=> s <= t /\ t < hi
  <2>1. o <= t /\ t < close <=> t \in Slots /\ DayOf[t] = d /\ IsRegular(t)
    BY <1>2, RegularIs
  <2>2. t \in slots <=> o <= t /\ t < close /\ s <= t /\ (w # 0 => t < s + w)
    BY <1>1, <2>1
  <2> QED BY <1>2, <1>4, <2>2
<1>6. slots = s .. (hi - 1)
  <2>1. \A t \in slots : t \in Nat
    BY SlotsHaveDays
  <2>2. \A t : t \in s .. (hi - 1) <=> t \in Nat /\ s <= t /\ t < hi
    BY <1>3
  <2> HIDE DEF slots
  <2> QED BY <1>5, <2>1, <2>2
<1>7. Times(r.bars) \subseteq s .. (hi - 1)
  <2>1. ASSUME NEW b \in r.bars PROVE b.time \in slots
    <3>1. /\ b.time \in Slots /\ b.time \in Nat /\ IsRegular(b.time)
          /\ DayOf[b.time] = DayOf[r.start] /\ r.start <= b.time
          /\ w # 0 => b.time < r.start + w
      BY FromFirstIs
    <3> QED BY <3>1
  <2> QED BY <1>6, <2>1 DEF Times
<1>8. \A a, b \in r.bars : a.time = b.time => a = b
  BY FromFirstIs
<1>9. /\ Cardinality(r.bars) <= hi - s
      /\ Cardinality(r.bars) < hi - s <=> Times(r.bars) # s .. (hi - 1)
  <2>1. s <= hi
    BY <1>3
  <2>2. PICK B : B = r.bars
    OBVIOUS
  <2>3. Times(B) \subseteq s .. (hi - 1) /\ \A a, b \in B : a.time = b.time => a = b
    BY <1>7, <1>8, <2>2, Zenon
  <2>4. /\ Cardinality(B) <= hi - s
        /\ Cardinality(B) < hi - s <=> Times(B) # s .. (hi - 1)
    BY <2>1, <2>3, BarsOfStretch
  <2> QED BY <2>2, <2>4
<1>10. ExpectedFromFirst(r, w) = hi - s
  BY <1>1, <1>2, <1>3 DEF ExpectedFromFirst
<1>11. PartialFromFirst(r, w) <=>
          /\ Cardinality(r.bars) <= ExpectedFromFirst(r, w)
          /\ Cardinality(r.bars) < ExpectedFromFirst(r, w) <=> slots # Times(r.bars)
  BY DEF PartialFromFirst
<1> HIDE DEF slots
<1> QED BY <1>6, <1>9, <1>10, <1>11

(* Of every calendar, width and pattern of missing bars: quality_issues of the *)
(* official pipeline warns only of derived bars that lack a source bar, and   *)
(* of all of them but the last of a session that lacks only early ones;      *)
(* that of the file backfill of just those that lack one after their first    *)
(* (market_pipeline_lib/processing.py, market_data_backfill/core.py).         *)
THEOREM AlwaysWarned == Spec => []MissingIsWarned
<1>1. ChainInv => MissingIsWarned
  <2> SUFFICES ASSUME ChainInv, NEW w \in Widths
               PROVE  /\ \A r \in Derived(source, w) : WarnedRightly(r, w)
                      /\ \A r \in FromFirst(source, w) : PartialFromFirst(r, w)
    BY DEF MissingIsWarned
  <2>1. w \in Nat
    BY BoundsAssumption
  <2>2. source \subseteq Bars /\ \A a, b \in source : a.time = b.time => a = b
    BY DEF ChainInv, BarsInv, OnePerTime
  <2>3. PICK S : S = source
    OBVIOUS
  <2>4. \A r \in Derived(S, w) : WarnedRightly(r, w)
    BY <2>1, <2>2, <2>3, DerivedIsWarned
  <2>5. \A r \in FromFirst(S, w) : PartialFromFirst(r, w)
    BY <2>1, <2>2, <2>3, FromFirstIsWarned
  <2> QED BY <2>3, <2>4, <2>5
<1> QED BY <1>1, InitChain, StepChain, PTL DEF Spec
================================================================================
