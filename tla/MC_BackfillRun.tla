---------------------------- MODULE MC_BackfillRun ----------------------------
(* Instances of BackfillRun for TLC: two symbols, two years.  Chunk 1 lies   *)
(* in year 1 and chunk 2 in both years, unless every chunk lies in one year. *)
EXTENDS BackfillRun

Straddling == <<{1}, {1, 2}>>
OnePerYear == <<{1}, {1}, {2}>>
OneYear == <<{1}>>

(* A chunk that ends where the next year begins marks that year too. *)
MarkNextYear == <<{1}, {1, 2}, {2}>>

SameShard == <<1, 1>>
TwoShards == <<1, 2>>

AllBars == {f \in Fragments : f.year \in CoversOf[f.chunk]}

Everything == {Symbols}
SampleThenAll == {{1}, Symbols}
=============================================================================
