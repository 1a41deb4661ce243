----------------------------- MODULE Filtering ------------------------------
(***************************************************************************)
(* What the filter() of an array, or a loop that skips or deletes some of  *)
(* its elements, leaves of it.  It is SelectSeq of the standard modules    *)
(* with a set for the test: a definition that the provers can expand.      *)
(***************************************************************************)
EXTENDS Sequences, SequencesExt

(* The elements of seq that are in wanted, in their order.                 *)
Filter(seq, wanted) ==
  FoldLeft(LAMBDA kept, e : IF e \in wanted THEN Append(kept, e) ELSE kept,
           << >>, seq)

=============================================================================
