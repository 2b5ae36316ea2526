------------------------------ MODULE CellArea -------------------------------
(***************************************************************************)
(* The area table, an aggregate of a cell table: update_cellarea and       *)
(* update_cellarea_ocid of data/tasks.py, running CellAreaUpdater of       *)
(* data/area.py, together with what changes the cells: station updates,    *)
(* which queue the areas after their commit, and imports of a cell file    *)
(* (ImportBase of data/ocid.py), which queue them before.                  *)
(*                                                                         *)
(* An area task may start at any time, since the scheduler sends one every *)
(* few seconds; its own follow-up is one more such start.  It takes a      *)
(* batch of areas off the queue for good, reads cells and areas in one     *)
(* snapshot, and writes when it commits.                                   *)
(*                                                                         *)
(* The area ids stand in the queue as often as they were pushed.  A cell   *)
(* without a row and one without a position are the same to an area.       *)
(***************************************************************************)
EXTENDS Integers, FiniteSets, FiniteSetsExt

CONSTANTS
    Cells,
    Areas,
    AreaOf,         \* the area of a cell
    Positions,
    Files,          \* the files that may be imported: a position per cell
    Workers,        \* worker processes for area tasks
    BatchSize,      \* the batch argument of the task
    MaxCopies       \* bound: how often an area stands in the queue

ASSUME CellsAssumption ==
    /\ IsFiniteSet(Cells)
    /\ IsFiniteSet(Areas)
    /\ AreaOf \in [Cells -> Areas]
    /\ Positions \subseteq Nat
    /\ \A rows \in Files : rows \in [DOMAIN rows -> Positions] /\ DOMAIN rows \subseteq Cells
ASSUME BoundsAssumption ==
    /\ BatchSize \in Nat \ {0}
    /\ MaxCopies \in Nat \ {0}

VARIABLES
    cells,          \* the position of each cell, or NoPosition
    areas,          \* the area table
    queue,          \* how often each area stands in the queue
    notices,        \* cells with a committed change whose pipeline is pending
    importing,      \* the rows of an import that is not committed
    pc, batch, plan,\* the task each worker runs, its areas, what it has read
    missed          \* areas whose last change may have been missed

workerVars == <<pc, batch, plan>>
vars == <<cells, areas, queue, notices, importing, workerVars, missed>>

NoPosition == -1
NoArea == [num |-> 0, extent |-> {}]
NoPlan == [a \in {} |-> NoArea]
NoImport == [c \in {} |-> 0]

Init ==
    /\ cells = [c \in Cells |-> NoPosition]
    /\ areas = [a \in Areas |-> NoArea]
    /\ queue = [a \in Areas |-> 0]
    /\ notices = {}
    /\ importing = NoImport
    /\ pc = [w \in Workers |-> "idle"]
    /\ batch = [w \in Workers |-> {}]
    /\ plan = [w \in Workers |-> NoPlan]
    /\ missed = {}

Holders(a) == {w \in Workers : a \in batch[w]}

-----------------------------------------------------------------------------
(* What an area should be.  Definitions headed "Mutant:" are faulty        *)
(* variants of the definition that follows, for mutation runs.             *)

Located(a) == {c \in Cells : AreaOf[c] = a /\ cells[c] # NoPosition}

\* Mutant: cells without a position count.
AggregateOfAll(a) ==
    LET places == {cells[c] : c \in {d \in Cells : AreaOf[d] = a}} IN
    IF places = {NoPosition} THEN NoArea
    ELSE [num |-> Cardinality({d \in Cells : AreaOf[d] = a}),
          extent |-> {Min(places), Max(places)}]

\* The columns of an area: the number of cells, and their extent, for all
\* columns that derive from the positions.
Aggregate(a) ==
    LET places == {cells[c] : c \in Located(a)} IN
    IF places = {} THEN NoArea
    ELSE [num |-> Cardinality(Located(a)),
          extent |-> {Min(places), Max(places)}]

-----------------------------------------------------------------------------
(* Changes of the cell table.                                              *)

\* Mutant: an area that a task holds is not queued again.
QueuedUnlessHeld(A) ==
    [a \in Areas |-> IF a \in A /\ Holders(a) = {} /\ queue[a] < MaxCopies
                     THEN queue[a] + 1 ELSE queue[a]]

\* A full queue takes no further copies; one more would change nothing.
Queued(A) ==
    [a \in Areas |-> IF a \in A /\ queue[a] < MaxCopies
                     THEN queue[a] + 1 ELSE queue[a]]

\* An update task commits a new position of a cell, or none for a cell that
\* moves; the area of the cell waits in the pipeline of the task.
StoreCell(c, p) ==
    /\ cells[c] # p
    /\ cells' = [cells EXCEPT ![c] = p]
    /\ notices' = notices \cup {c}
    /\ UNCHANGED <<areas, queue, importing, workerVars, missed>>

ExecutePipe(c) ==
    /\ c \in notices
    /\ queue' = Queued({AreaOf[c]})
    /\ notices' = notices \ {c}
    /\ UNCHANGED <<cells, areas, importing, workerVars, missed>>

\* The update task fails between its commit and its pipeline.
LosePipe(c) ==
    /\ c \in notices
    /\ notices' = notices \ {c}
    /\ missed' = missed \cup {AreaOf[c]}
    /\ UNCHANGED <<cells, areas, queue, importing, workerVars>>

\* The queue reaches its time to live, and all areas in it are dropped.
Expire ==
    /\ \E a \in Areas : queue[a] > 0
    /\ queue' = [a \in Areas |-> 0]
    /\ missed' = missed \cup {a \in Areas : queue[a] > 0}
    /\ UNCHANGED <<cells, areas, notices, importing, workerVars>>

\* An import has executed its statements and queues its areas at once, before
\* the session around it commits.
ImportStations(rows) ==
    /\ importing = NoImport
    /\ DOMAIN rows # {}
    /\ importing' = rows
    /\ queue' = Queued({AreaOf[c] : c \in DOMAIN rows})
    /\ UNCHANGED <<cells, areas, notices, workerVars, missed>>

\* Areas of the import that were read before this commit are missed.
CommitImport ==
    LET touched == {AreaOf[c] : c \in DOMAIN importing}
        toBeRead(a) == queue[a] > 0 \/ \E w \in Holders(a) : pc[w] = "dequeued"
    IN
    /\ importing # NoImport
    /\ cells' = [c \in Cells |-> IF c \in DOMAIN importing THEN importing[c] ELSE cells[c]]
    /\ missed' = missed \cup {a \in touched : ~toBeRead(a)}
    /\ importing' = NoImport
    /\ UNCHANGED <<areas, queue, notices, workerVars>>

\* The import is rolled back; its areas stay in the queue.
FailImport ==
    /\ importing # NoImport
    /\ importing' = NoImport
    /\ UNCHANGED <<cells, areas, queue, notices, workerVars, missed>>

-----------------------------------------------------------------------------
(* The area task.                                                          *)

QueueLength(q) == MapThenSumSet(LAMBDA a : q[a], Areas)

Share == IF QueueLength(queue) < BatchSize THEN QueueLength(queue) ELSE BatchSize

\* A task takes its batch; the same area twice in a batch is updated once.
Dequeue(w, taken) ==
    /\ pc[w] = "idle"
    /\ QueueLength(queue) > 0
    /\ \A a \in Areas : taken[a] <= queue[a]
    /\ QueueLength(taken) = Share
    /\ queue' = [a \in Areas |-> queue[a] - taken[a]]
    /\ batch' = [batch EXCEPT ![w] = {a \in Areas : taken[a] > 0}]
    /\ missed' = missed \cup {a \in Areas : taken[a] > 0 /\ Holders(a) # {}}
    /\ pc' = [pc EXCEPT ![w] = "dequeued"]
    /\ UNCHANGED <<cells, areas, notices, importing, plan>>

\* The cells and the rows of all areas of the batch, read at one point of
\* time; what is computed from them is computed here.
Query(w) ==
    /\ pc[w] = "dequeued"
    /\ plan' = [plan EXCEPT ![w] = [a \in batch[w] |-> [old |-> areas[a], new |-> Aggregate(a)]]]
    /\ missed' = missed \ {a \in batch[w] : Holders(a) = {w}}
    /\ pc' = [pc EXCEPT ![w] = "queried"]
    /\ UNCHANGED <<cells, areas, queue, notices, importing, batch>>

\* Mutant: an area without cells is left as it is.
WrittenNoDelete(a, step) ==
    CASE step.new = NoArea -> areas[a]
      [] step.old = NoArea -> IF areas[a] = NoArea THEN step.new ELSE areas[a]
      [] OTHER ->
           [num |-> IF step.new.num = step.old.num THEN areas[a].num ELSE step.new.num,
            extent |-> IF step.new.extent = step.old.extent
                       THEN areas[a].extent ELSE step.new.extent]

\* What a commit makes of an area: no cells, no row; an insert that does
\* nothing to a row there already; or an update of the columns that differ
\* from the row as it was read.
Written(a, step) ==
    CASE step.new = NoArea -> NoArea
      [] step.old = NoArea -> IF areas[a] = NoArea THEN step.new ELSE areas[a]
      [] OTHER ->
           [num |-> IF step.new.num = step.old.num THEN areas[a].num ELSE step.new.num,
            extent |-> IF step.new.extent = step.old.extent
                       THEN areas[a].extent ELSE step.new.extent]

\* An update of a row that another task has deleted in the meantime: the
\* session finds no row to update and raises.
Vanished(w) ==
    \E a \in batch[w] : plan[w][a].old # NoArea /\ plan[w][a].new # NoArea /\ areas[a] = NoArea

EndTask(w) ==
    /\ pc' = [pc EXCEPT ![w] = "idle"]
    /\ batch' = [batch EXCEPT ![w] = {}]
    /\ plan' = [plan EXCEPT ![w] = NoPlan]

Commit(w) ==
    /\ pc[w] = "queried"
    /\ ~Vanished(w)
    /\ areas' = [a \in Areas |->
                   IF a \in batch[w] THEN Written(a, plan[w][a]) ELSE areas[a]]
    /\ EndTask(w)
    /\ UNCHANGED <<cells, queue, notices, importing, missed>>

\* The worker dies or the task raises; a task sent again takes a new batch.
Fail(w) ==
    /\ pc[w] # "idle"
    /\ missed' = missed \cup batch[w]
    /\ EndTask(w)
    /\ UNCHANGED <<cells, areas, queue, notices, importing>>

-----------------------------------------------------------------------------
Takes == [Areas -> 0..MaxCopies]

Next ==
    \/ \E c \in Cells :
         \/ \E p \in Positions \cup {NoPosition} : StoreCell(c, p)
         \/ ExecutePipe(c) \/ LosePipe(c)
    \/ Expire
    \/ \E rows \in Files : ImportStations(rows)
    \/ CommitImport \/ FailImport
    \/ \E w \in Workers :
         \/ \E taken \in Takes : Dequeue(w, taken)
         \/ Query(w) \/ Commit(w) \/ Fail(w)

Spec == Init /\ [][Next]_vars

\* A pipeline is executed or lost, the scheduler's tasks reach an idle worker
\* now and then, and a task that runs goes on or fails.  Nothing says that the
\* queue ever reaches its time to live, a day, while a task is sent every few
\* seconds.
Fairness ==
    /\ \A c \in Cells : WF_vars(ExecutePipe(c) \/ LosePipe(c))
    /\ \A w \in Workers :
         /\ SF_vars(\E taken \in Takes : Dequeue(w, taken))
         /\ WF_vars(Query(w) \/ Commit(w) \/ Fail(w))

FairSpec == Spec /\ Fairness

-----------------------------------------------------------------------------
Row == [num : 0..Cardinality(Cells), extent : SUBSET Positions]

TypeOK ==
    /\ cells \in [Cells -> Positions \cup {NoPosition}]
    /\ areas \in [Areas -> Row]
    /\ queue \in [Areas -> 0..MaxCopies]
    /\ notices \subseteq Cells
    /\ importing \in Files \cup {NoImport}
    /\ pc \in [Workers -> {"idle", "dequeued", "queried"}]
    /\ batch \in [Workers -> SUBSET Areas]
    /\ \A w \in Workers :
         plan[w] \in [IF pc[w] = "queried" THEN batch[w] ELSE {} -> [old : Row, new : Row]]
    /\ missed \subseteq Areas

\* Areas that some task is going to update, or is updating.
Underway(a) ==
    \/ queue[a] > 0
    \/ Holders(a) # {}
    \/ \E c \in notices : AreaOf[c] = a

\* An area that nothing is going to update is the aggregate of its cells,
\* unless one of five things has happened to it: a notice was lost, the queue
\* reached its time to live with the area in it, a task failed with it, two
\* tasks had it at the same time, or an import committed after it had been
\* read.  No order of updates, imports and tasks without these leaves it wrong.
SettledIsAggregate ==
    \A a \in Areas : ~Underway(a) /\ a \notin missed => areas[a] = Aggregate(a)

\* Once the cells change no more, every area comes to be the aggregate of its
\* cells, or a change was missed in one of the five ways.
AreasConverge ==
    <>[][UNCHANGED cells]_vars =>
        \A a \in Areas : []<>(areas[a] = Aggregate(a) \/ a \in missed)
=============================================================================
