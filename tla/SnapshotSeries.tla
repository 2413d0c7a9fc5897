--------------------------- MODULE SnapshotSeries ---------------------------
(***************************************************************************)
(* What a dataset promises its readers: a series of numbered snapshots.  A  *)
(* new snapshot replaces exactly the periods it was published for, by       *)
(* objects written for that snapshot, and keeps every other object of the   *)
(* one before.  Readers always see a whole snapshot and never go back.      *)
(***************************************************************************)
EXTENDS Naturals

CONSTANTS
    Periods,        \* what a snapshot may be published for
    Overlaps(_, _), \* whether two of them have times in common
    Shards, Contents, MaxRevision

VARIABLES
    served,     \* the number of the snapshot readers are given, 0 before the first
    content     \* its objects

svars == <<served, content>>

Kept(periods) ==
    {o \in content : \A p \in periods : ~Overlaps(o.slot.period, p)}

Init == served = 0 /\ content = {}

Publish(periods) ==
    /\ served' \in (served + 1)..MaxRevision
    /\ content' # {}
    /\ Kept(periods) \subseteq content'
    /\ \A o \in content' \ Kept(periods) :
          /\ o.revision = served'
          /\ o.slot.period \in periods
          /\ o.slot.shard \in Shards /\ o.content \in Contents

Next == \E periods \in SUBSET Periods : Publish(periods)

Spec == Init /\ [][Next]_svars
=============================================================================
