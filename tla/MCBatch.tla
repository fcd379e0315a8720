------------------------------- MODULE MCBatch -------------------------------
(***************************************************************************)
(* Batch for reports that share imports in either order, and for one whose *)
(* list is longer than what is looked at.                                  *)
(***************************************************************************)
EXTENDS Batch

CONSTANTS i1, i2, i3

MCReports == {<<>>, <<i1, i2>>, <<i2, i1>>, <<i3, i1, i2>>}

==============================================================================
