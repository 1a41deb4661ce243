------------------------------ MODULE MCListen ------------------------------
(* Listens on small instances; see the .cfg files.                         *)
EXTENDS Listen

CONSTANTS k1, k2, q1, q2

(* q1 is a filter, q2 takes every document.                                *)
MCMatches == (q1 :> {"in"}) @@ (q2 :> {"in", "out"})
OneQueryMatches == q1 :> {"in"}

AllIn == [k \in Keys |-> "in"]
AllOut == [k \in Keys |-> "out"]
=============================================================================
