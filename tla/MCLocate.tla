------------------------------ MODULE MCLocate -------------------------------
(***************************************************************************)
(* Small instances of Locate for TLC.                                      *)
(***************************************************************************)
EXTENDS Locate, TLC

CONSTANTS r1, r2, r3, c1, w1, w2, w3, notfound, nothing

\* A query that is not cached, and two that share one of their networks.
MixedOrPure == {{c1, w1}, {w1, w2}, {w2, w3}}

\* Two places of one latitude, and one of another.
OneLatitude == {[lat |-> 0, lon |-> 1], [lat |-> 0, lon |-> 3]}
TwoLatitudes == {[lat |-> 0, lon |-> 1], [lat |-> 1, lon |-> 3]}

Symmetry == Permutations(Requests)
=============================================================================
