----------------------------- MODULE MCCellArea ------------------------------
(***************************************************************************)
(* A small instance of CellArea for TLC.                                   *)
(***************************************************************************)
EXTENDS CellArea, TLC

CONSTANTS c1, c2, a1, w1, w2

\* All cells of one area.
OneArea == [c \in Cells |-> a1]

\* A file that holds both cells.
OneFile == {(c1 :> 0) @@ (c2 :> 1)}
=============================================================================
