-------------------------- MODULE MC_DatasetPublish -------------------------
(* Instances of DatasetPublish for TLC: two days and the partition of both. *)
EXTENDS DatasetPublish

Day1 == [start |-> 1, end |-> 2]
Day2 == [start |-> 2, end |-> 3]
Both == [start |-> 1, end |-> 3]

TwoDays == {Day1, Day2, Both}

(* One DAY at a time, or the whole. *)
DayOrBoth == {{Day1}, {Day2}, {Both}}

(* Two DAYs in one incremental call, or one partition of both. *)
DaysOrBoth == {{Day1, Day2}, {Both}}

AnyBatch == DayOrBoth \cup DaysOrBoth
=============================================================================
