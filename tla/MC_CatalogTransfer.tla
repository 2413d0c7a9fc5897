-------------------------- MODULE MC_CatalogTransfer --------------------------
(* An instance of CatalogTransfer for TLC: a dataset of two partitions, one  *)
(* of which may come out with other bytes, and a dataset of one partition.   *)
EXTENDS CatalogTransfer

ThreeAndOne == {<<1, 1, 1>>, <<1, 1, 2>>, <<1, 2, 1>>, <<2, 1, 1>>}
================================================================================
