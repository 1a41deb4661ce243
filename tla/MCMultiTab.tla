----------------------------- MODULE MCMultiTab -----------------------------
(* Two tabs; see the .cfg files.                                           *)
EXTENDS MultiTab

CONSTANTS tabA, tabB
=============================================================================
