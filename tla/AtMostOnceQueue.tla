--------------------------- MODULE AtMostOnceQueue ---------------------------
(***************************************************************************)
(* What a work queue of ichnaea promises to its producers and consumers.   *)
(*                                                                         *)
(* An item is handed over at most once.  It may be lost instead, because   *)
(* the Redis key expired or because the task that held it failed, but it   *)
(* is never handed over twice, never both handed over and lost, and never  *)
(* invented.  DataQueue (the Redis list) and StationUpdater (the list and  *)
(* the tasks that drain it) are shown to implement this specification.     *)
(***************************************************************************)
CONSTANT Items      \* the items producers may put, each put at most once

VARIABLES
    pending,        \* put, neither delivered nor lost yet
    delivered,      \* handed over to a consumer
    lost            \* gone without having been handed over

vars == <<pending, delivered, lost>>

Init == pending = {} /\ delivered = {} /\ lost = {}

Fresh == Items \ (pending \cup delivered \cup lost)

Put(S) ==
    /\ S \subseteq Fresh
    /\ pending' = pending \cup S
    /\ UNCHANGED <<delivered, lost>>

Take(S) ==
    /\ S \subseteq pending
    /\ pending' = pending \ S
    /\ delivered' = delivered \cup S
    /\ UNCHANGED lost

Lose(S) ==
    /\ S \subseteq pending
    /\ pending' = pending \ S
    /\ lost' = lost \cup S
    /\ UNCHANGED delivered

Next == \E S \in SUBSET Items : Put(S) \/ Take(S) \/ Lose(S)

Spec == Init /\ [][Next]_vars
=============================================================================
