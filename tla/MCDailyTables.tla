----------------------------- MODULE MCDailyTables ----------------------------
(* DailyTables on a small instance. *)
EXTENDS DailyTables, TLC

CONSTANTS g1, w1, w2

Symmetry == Permutations({w1, w2})
=============================================================================
