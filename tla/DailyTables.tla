---------------------------- MODULE DailyTables ------------------------------
(***************************************************************************)
(* The tables whose rows carry a date, stat and datamap, and the tasks     *)
(* that fill them while days pass.                                          *)
(***************************************************************************)
EXTENDS Integers, FiniteSets, FiniteSetsExt

CONSTANTS
    Grids,
    Workers,
    KeyDays,
    MaxFound,
    MaxRecounted,
    MaxLost,
    MaxDay          \* bound: the last day

ASSUME GridsAssumption == IsFiniteSet(Grids)
ASSUME WorkersAssumption == IsFiniteSet(Workers)
ASSUME BoundsAssumption ==
    /\ KeyDays \in Nat /\ KeyDays >= 2     \* StatCounter.incr asks for two days
    /\ MaxFound \in Nat /\ MaxRecounted \in Nat /\ MaxLost \in Nat
    /\ MaxDay \in Nat \ {0}

VARIABLES
    table,          \* the table this behaviour follows
    today,
    grids, map, mapped, overtaken, gpc, gbatch, gday, gsnap,
    counter, touched, stat, pc, day, row, before, value,
    base, found, expired, recounted, lost, contended

Days == 1..MaxDay

DM == INSTANCE DataMap
SC == INSTANCE StatCounter

mapVars == <<grids, map, mapped, overtaken, gpc, gbatch, gday, gsnap>>
statVars == <<counter, touched, stat, pc, day, row, before, value,
              base, found, expired, recounted, lost, contended>>
vars == <<table, today, mapVars, statVars>>

Init ==
    /\ table \in {"datamap", "stat"}
    /\ today = 1
    /\ grids = {}
    /\ DM!Init
    /\ SC!Init

NextDay ==
    /\ today < MaxDay
    /\ today' = today + 1
    /\ UNCHANGED <<table, mapVars, statVars>>

\* insert_reports pushes a grid.
QueueGrid(g) ==
    /\ table = "datamap"
    /\ g \notin grids
    /\ grids' = grids \cup {g}
    /\ UNCHANGED <<table, today, map, mapped, overtaken, gpc, gbatch, gday, gsnap, statVars>>

Next ==
    \/ NextDay
    \/ \E g \in Grids : QueueGrid(g)
    \/ table = "datamap" /\ DM!Next /\ UNCHANGED <<table, statVars>>
    \/ table = "stat" /\ SC!Next /\ UNCHANGED <<table, mapVars>>

Spec == Init /\ [][Next]_vars

-----------------------------------------------------------------------------
Dates == [created : 0..MaxDay, modified : 0..MaxDay]
Rows == Nat \cup {SC!NoRow}

TypeOK ==
    /\ table \in {"datamap", "stat"} /\ today \in Days
    /\ grids \subseteq Grids
    /\ map \in [Grids -> Dates]
    /\ mapped \subseteq [grid : Grids, date : Days] /\ overtaken \subseteq Grids
    /\ gpc \in [Workers -> {"idle", "dequeued", "queried"}]
    /\ gbatch \in [Workers -> SUBSET Grids]
    /\ gday \in [Workers -> Days]
    /\ gsnap \in [Workers -> [Grids -> Dates]]
    /\ counter \in [Days -> Int] /\ touched \in [Days -> 0..MaxDay]
    /\ stat \in [Days -> Rows]
    /\ pc \in [Workers -> {"idle", "queried", "read", "committed"}]
    /\ day \in [Workers -> 0..MaxDay]
    /\ row \in [Workers -> Rows] /\ before \in [Workers -> Nat]
    /\ value \in [Workers -> Int]
    /\ base \in [Days -> Nat] /\ found \in [Days -> Nat]
    /\ expired \in [Days -> Int] /\ recounted \in [Days -> Int]
    /\ lost \in [Days -> Int] /\ contended \subseteq Days

\* The dates of a grid are those of the first and the last task that had it in
\* its batch, also for tasks that overlap, run past midnight or start again,
\* unless tasks of two dates overlap.
GridDatesAreExact ==
    \A g \in Grids \ overtaken :
        LET dates == {m.date : m \in {n \in mapped : n.grid = g}} IN
        map[g] = IF dates = {} THEN DM!NoRow
                 ELSE [created |-> Min(dates), modified |-> Max(dates)]

\* What tasks have added to the row of a day and are to take off the counter.
Pending(d) ==
    SumFunction([w \in Workers |->
                   IF pc[w] = "committed" /\ day[w] = d THEN value[w] ELSE 0])

\* Row and counter of a day together hold what was counted on it, less what
\* expired with the counter, however many tasks overlap, fail and are sent
\* again.  Two tasks that both move the same counter make up for it by taking
\* it below zero.  There are two deviations: what a failure between commit and
\* pipeline leaves on the counter is there twice, and what another task has
\* changed in a row after it was read is overwritten.
EachEventCountedOnce ==
    \A d \in Days :
        SC!Added(d) + counter[d] - Pending(d) + expired[d] + lost[d] = found[d] + recounted[d]

\* Rows are running totals: they do not decrease from day to day, though days
\* may be missing, late, counted again, or be overwritten by overlapping
\* tasks.  Days are left out on which a task read a counter that another task
\* had read and not decreased yet, or lost it to its time to live, or wrote
\* its row after a task for a later day had read the table.
TotalsGrow ==
    \A d, e \in Days :
        /\ d < e
        /\ (d .. e) \cap contended = {}
        /\ stat[d] # SC!NoRow /\ stat[e] # SC!NoRow
        => stat[d] <= stat[e]
=============================================================================
