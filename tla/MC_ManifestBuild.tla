--------------------------- MODULE MC_ManifestBuild ---------------------------
(* Instances of ManifestBuild for TLC: three sources in two shards, the      *)
(* first shard with two of them.                                            *)
EXTENDS ManifestBuild, TLC

CONSTANTS AAPL, MSFT, SPY

ThreeSources == {AAPL, MSFT, SPY}
TwoShards == (AAPL :> 1) @@ (MSFT :> 1) @@ (SPY :> 2)
AllMapped == ThreeSources
OneUnmapped == {AAPL, SPY}
=============================================================================
