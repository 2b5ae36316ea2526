--------------------------- MODULE MCContributions ---------------------------
(***************************************************************************)
(* Small instances of Contributions for TLC.                               *)
(***************************************************************************)
EXTENDS Contributions, TLC

CONSTANTS t1, t2, nick, none, s1, g1, w1, w2

\* Two tasks of one user, who reports one station from one place.
OneNick == [t \in Tasks |-> nick]
OneStation == [t \in Tasks |-> {s1}]
OnePlace == [t \in Tasks |-> {g1}]

Symmetry == Permutations(Tasks) \cup Permutations(ScoreWorkers)
=============================================================================
