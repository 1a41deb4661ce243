------------------------------- MODULE MCRepo -------------------------------
(* Locations below the top of a small tree; see the .cfg files.            *)
EXTENDS Repo

CONSTANTS x, y, t1, t2

OneLocation == {{x}}
ParentAndChild == {{x}, {x, y}}
=============================================================================
