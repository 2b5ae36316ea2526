-------------------------- MODULE MCStationUpdater ---------------------------
(***************************************************************************)
(* Small instances of StationUpdater for TLC.                              *)
(***************************************************************************)
EXTENDS StationUpdater, TLC

CONSTANTS o1, o2, o3, o4, o5, s1, s2, a1, w1, w2

\* Positions 0 and 1 are within reach of each other (MaxDist = 1), 5 is not.
MCPositions == {0, 1, 5}

\* One station that can move twice.
FourOfOne == [o \in {o1, o2, o3, o4} |-> s1]
TwoMoves == (o1 :> 0) @@ (o2 :> 5) @@ (o3 :> 0) @@ (o4 :> 5)

\* The same and another station of the same cell area.
FourAndOne == (o1 :> s1) @@ (o2 :> s1) @@ (o3 :> s1) @@ (o4 :> s1) @@ (o5 :> s2)
MovesAndOther == (o1 :> 0) @@ (o2 :> 5) @@ (o3 :> 1) @@ (o4 :> 5) @@ (o5 :> 1)

OneArea == [s \in Stations |-> {a1}]

Symmetry == Permutations(Workers)
=============================================================================
