-------------------------- MODULE MC_MarketLoader ---------------------------
(* Instances of MarketLoader for TLC: a sample run, a full run, and a full  *)
(* run of an earlier processing version.                                   *)
EXTENDS MarketLoader

CONSTANTS sample, old, full, x, y

SampleData == [s \in Shards |-> x]
FullData == [s \in Shards |-> y]

Steady == [r \in Runs |-> IF r = sample THEN {SampleData} ELSE {FullData}]

(* Alpaca adjusted its bars between two collections of one run. *)
Readjusted == [r \in Runs |-> {SampleData, FullData}]

OneVersion == [r \in Runs |-> 1]

(* The old run was begun before an upgrade, the others after it. *)
Upgraded == [r \in Runs |-> IF r = old THEN 1 ELSE 2]

(* The series of the 30m manifests and of the first derived ones, as TLC     *)
(* takes them: SeriesOf(1) and SeriesOf(2).                                 *)
First == INSTANCE SnapshotSeries WITH
    Periods <- {Year}, Overlaps <- SamePeriod, Contents <- Pieces,
    served <- Served(1), content <- ServedObjects(1)
Second == INSTANCE SnapshotSeries WITH
    Periods <- {Year}, Overlaps <- SamePeriod, Contents <- Pieces,
    served <- Served(2), content <- ServedObjects(2)

FirstIsSeries == First!Spec
SecondIsSeries == Second!Spec
=============================================================================
