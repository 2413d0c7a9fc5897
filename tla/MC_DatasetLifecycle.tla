-------------------------- MODULE MC_DatasetLifecycle --------------------------
(* Instances of DatasetLifecycle for TLC: a year of one whole week, and, in  *)
(* the longer calendar, a second week that lies in two months.              *)
EXTENDS DatasetLifecycle

ShortWeeks == {{1}, {2, 3}}
ShortMonths == {{1, 2}, {3}}
OwnMonths == {{1}, {2, 3}}
LongWeeks == {{1, 2}, {3, 4}}
LongMonths == {{1, 2, 3}, {4}}

EachDay == {{d} : d \in Days}
DaysAndRuns == EachDay \cup {{1, 2}, Days}
Year == {Days}
None == {}

OneShard == <<1, 1>>
TwoShards == <<1, 2>>
Everything == {Symbols}
FirstDay == {1}
TwoDays == {{1, 2}}
================================================================================
