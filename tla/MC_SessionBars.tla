----------------------------- MODULE MC_SessionBars -----------------------------
(* A calendar for TLC: a session, one with a slot before its opening, and a  *)
(* short one with a slot after its close.                                   *)
EXTENDS SessionBars

Calendar == << [first |-> 1, open |-> 1, close |-> 4, last |-> 3],
               [first |-> 4, open |-> 5, close |-> 8, last |-> 7],
               [first |-> 8, open |-> 8, close |-> 9, last |-> 9] >>
================================================================================
