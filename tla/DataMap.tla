------------------------------- MODULE DataMap -------------------------------
(***************************************************************************)
(* update_datamap of data/tasks.py for one shard, running DataMapUpdater   *)
(* of data/datamap.py: every grid in the queue gets a row, with the date   *)
(* of its last observation.                                                *)
(*                                                                         *)
(* Day 0 stands for a row that is not there.                               *)
(***************************************************************************)
EXTENDS Integers, FiniteSets

CONSTANTS
    Grids,
    Workers

VARIABLES
    today,
    grids,          \* the update_datamap queue
    map,            \* the dates of each grid's row
    mapped,         \* grids of committed batches, with the date of the task
    overtaken,      \* grids on which tasks of two dates overlapped
    gpc, gbatch, gday, gsnap    \* the task each worker runs

taskVars == <<gpc, gbatch, gday, gsnap>>
vars == <<today, grids, map, mapped, overtaken, taskVars>>

NoRow == [created |-> 0, modified |-> 0]
NoSnap == [g \in Grids |-> NoRow]

Init ==
    /\ map = NoSnap
    /\ mapped = {}
    /\ overtaken = {}
    /\ gpc = [w \in Workers |-> "idle"]
    /\ gbatch = [w \in Workers |-> {}]
    /\ gday = [w \in Workers |-> 1]
    /\ gsnap = [w \in Workers |-> NoSnap]

\* A task starts: it notes the date and takes a batch off the queue, here all
\* of it.  A push between the two counts for the earlier date.
Dequeue(w) ==
    /\ gpc[w] = "idle"
    /\ grids # {}
    /\ gday' = [gday EXCEPT ![w] = today]
    /\ gbatch' = [gbatch EXCEPT ![w] = grids]
    /\ grids' = {}
    /\ gpc' = [gpc EXCEPT ![w] = "dequeued"]
    /\ UNCHANGED <<today, map, mapped, overtaken, gsnap>>

\* The rows of all grids of the batch, read at one point of time.
Query(w) ==
    /\ gpc[w] = "dequeued"
    /\ gsnap' = [gsnap EXCEPT ![w] =
                   [g \in Grids |-> IF g \in gbatch[w] THEN map[g] ELSE NoRow]]
    /\ gpc' = [gpc EXCEPT ![w] = "queried"]
    /\ UNCHANGED <<today, grids, map, mapped, overtaken, gbatch, gday>>

\* Mutant: the date of creation is set again with every update.
WrittenAnew(w, g) == [created |-> gday[w], modified |-> gday[w]]

\* New grids are inserted, unless they have come to be; rows of today are
\* skipped, and outdated ones are updated.
Written(w, g) ==
    CASE gsnap[w][g] = NoRow ->
           IF map[g] = NoRow THEN [created |-> gday[w], modified |-> gday[w]] ELSE map[g]
      [] gsnap[w][g].modified = gday[w] -> map[g]
      [] OTHER -> [map[g] EXCEPT !.modified = gday[w]]

EndTask(w) ==
    /\ gpc' = [gpc EXCEPT ![w] = "idle"]
    /\ gbatch' = [gbatch EXCEPT ![w] = {}]
    /\ gday' = [gday EXCEPT ![w] = 1]
    /\ gsnap' = [gsnap EXCEPT ![w] = NoSnap]

\* A task of another date has written the row since it was read, or one of a
\* later date wrote it before.
Overtaken(w, g) ==
    \/ map[g].modified \notin {gsnap[w][g].modified, gday[w]}
    \/ map[g].modified > gday[w]

Commit(w) ==
    /\ gpc[w] = "queried"
    /\ map' = [g \in Grids |-> IF g \in gbatch[w] THEN Written(w, g) ELSE map[g]]
    /\ mapped' = mapped \cup {[grid |-> g, date |-> gday[w]] : g \in gbatch[w]}
    /\ overtaken' = overtaken \cup {g \in gbatch[w] : Overtaken(w, g)}
    /\ EndTask(w)
    /\ UNCHANGED <<today, grids>>

\* The worker dies or the task raises; a task sent again takes a new batch.
Fail(w) ==
    /\ gpc[w] # "idle"
    /\ EndTask(w)
    /\ UNCHANGED <<today, grids, map, mapped, overtaken>>

Next == \E w \in Workers : Dequeue(w) \/ Query(w) \/ Commit(w) \/ Fail(w)
=============================================================================
