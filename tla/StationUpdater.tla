--------------------------- MODULE StationUpdater ----------------------------
(***************************************************************************)
(* The tasks that drain one update queue, of one cell radio or of one wifi *)
(* shard, into its station table: update_cell and update_wifi of           *)
(* data/tasks.py, running StationUpdater of data/station.py.               *)
(*                                                                         *)
(* Several such tasks may be under way for one queue: the scheduler sends  *)
(* one every few seconds whether or not the last one has ended, and a task *)
(* sends its own follow-up.  A task takes a batch off the queue for good,  *)
(* reads the rows it needs in one snapshot, computes new rows from it,     *)
(* sends the follow-up, commits, and only then executes the Redis pipeline *)
(* that holds its counters and area updates.  It may fail at any point.    *)
(*                                                                         *)
(* The queue is a set: DataQueue shows that the list hands out each item   *)
(* at most once, and which items a batch holds is left open.               *)
(***************************************************************************)
EXTENDS StationRecord, FiniteSets

CONSTANTS
    Obs,            \* the observations ever queued for this table
    Stations,
    StationOf,      \* the station an observation is of
    Positions,
    PosOf,          \* where it was made
    Areas,
    AreaOf,         \* the cell areas a station belongs to, {} for a wifi
    Workers,        \* the Celery worker processes
    BatchSize,      \* the batch argument of the task
    MaxTasks,       \* bound: task messages waiting in the broker
    MaxDay          \* bound: the last day

ASSUME ObsAssumption ==
    /\ IsFiniteSet(Obs)
    /\ StationOf \in [Obs -> Stations]
    /\ Positions \subseteq Int
    /\ PosOf \in [Obs -> Positions]
ASSUME StationsAssumption ==
    /\ IsFiniteSet(Stations)
    /\ AreaOf \in [Stations -> SUBSET Areas]
ASSUME BoundsAssumption ==
    /\ BatchSize \in Nat \ {0}
    /\ MaxTasks \in Nat \ {0}
    /\ MaxDay \in Nat \ {0}

VARIABLES
    queue,          \* observations in the Redis list
    consumed,       \* observations of committed batches
    lost,           \* observations expired with the key or of failed batches
    table,          \* the station table
    today,          \* the date
    tasks,          \* task messages waiting in the broker
    pc, batch, day, snap, pipe,     \* the task each worker runs
    areaUpdates,    \* areas ever put into the update_cellarea queue
    newStations,    \* the StatCounter of unique stations
    pipeLost        \* has a committed task failed to execute its pipeline?

queueVars == <<queue, consumed, lost>>
workerVars == <<pc, batch, day, snap, pipe>>
redisVars == <<areaUpdates, newStations, pipeLost>>
vars == <<queueVars, table, today, tasks, workerVars, redisVars>>

NoPipe == [new |-> 0, areas |-> {}]

NoSnap == [s \in Stations |-> NoRow]

Init ==
    /\ queue = {} /\ consumed = {} /\ lost = {}
    /\ table = NoSnap
    /\ today = 1
    /\ tasks = 0
    /\ pc = [w \in Workers |-> "idle"]
    /\ batch = [w \in Workers |-> {}]
    /\ day = [w \in Workers |-> 1]
    /\ snap = [w \in Workers |-> NoSnap]
    /\ pipe = [w \in Workers |-> NoPipe]
    /\ areaUpdates = {}
    /\ newStations = 0
    /\ pipeLost = FALSE

-----------------------------------------------------------------------------
(* What a task computes from its batch.  Definitions headed "Mutant:" are  *)
(* faulty variants for mutation runs.                                      *)

ObsOf(s, O) == {o \in O : StationOf[o] = s}

Keys(O) == {StationOf[o] : o \in O}

PositionsOf(O) == {PosOf[o] : o \in O}

\* Mutant: the blocklist is not consulted.
UpdatesAll(w) == Keys(batch[w])

\* The stations of the batch whose observations are not dropped.
Updates(w) == {s \in Keys(batch[w]) : ~Blocked(snap[w][s], day[w])}

NewRow(w, s) ==
    LET O == ObsOf(s, batch[w]) IN
    StationValues(snap[w][s], PositionsOf(O), Cardinality(O), day[w])

\* INSERT ... ON DUPLICATE KEY with a no-op for stations the snapshot lacks,
\* UPDATE of every column for the others.
Written(w, s) ==
    IF snap[w][s] = NoRow /\ table[s] # NoRow THEN table[s] ELSE NewRow(w, s)

-----------------------------------------------------------------------------
(* The environment of the tasks.                                           *)

\* Reports were processed: observations enter the queue.
Submit(S) ==
    /\ S # {}
    /\ S \cap (queue \cup consumed \cup lost \cup UNION {batch[w] : w \in Workers}) = {}
    /\ queue' = queue \cup S
    /\ UNCHANGED <<consumed, lost, table, today, tasks, workerVars, redisVars>>

\* The key of the queue reaches its time to live.
Expire ==
    /\ queue # {}
    /\ queue' = {}
    /\ lost' = lost \cup queue
    /\ UNCHANGED <<consumed, table, today, tasks, workerVars, redisVars>>

NextDay ==
    /\ today < MaxDay
    /\ today' = today + 1
    /\ UNCHANGED <<queueVars, table, tasks, workerVars, redisVars>>

\* The scheduler sends a task; a task not started in time is discarded.
Beat ==
    /\ tasks < MaxTasks
    /\ tasks' = tasks + 1
    /\ UNCHANGED <<queueVars, table, today, workerVars, redisVars>>

TaskExpires ==
    /\ tasks > 0
    /\ tasks' = tasks - 1
    /\ UNCHANGED <<queueVars, table, today, workerVars, redisVars>>

-----------------------------------------------------------------------------
(* The steps of a task.                                                    *)

Sent == IF tasks < MaxTasks THEN tasks + 1 ELSE tasks

\* Mutant: a task waits for a full batch.
ShareFull == BatchSize

\* How much of the queue a batch takes.
Share == IF Cardinality(queue) < BatchSize THEN Cardinality(queue) ELSE BatchSize

\* Mutant: the batch is read but not trimmed off the list.
RestUntrimmed(S) == queue

Rest(S) == queue \ S

\* A task starts: it notes the date and takes its batch.  Without one it is
\* done at once.
Dequeue(w, S) ==
    /\ pc[w] = "idle"
    /\ tasks > 0
    /\ tasks' = tasks - 1
    /\ S \subseteq queue
    /\ Cardinality(S) = Share
    /\ queue' = Rest(S)
    /\ IF S = {}
         THEN UNCHANGED workerVars
         ELSE /\ batch' = [batch EXCEPT ![w] = S]
              /\ day' = [day EXCEPT ![w] = today]
              /\ pc' = [pc EXCEPT ![w] = "dequeued"]
              /\ UNCHANGED <<snap, pipe>>
    /\ UNCHANGED <<consumed, lost, table, today, redisVars>>

\* The rows of all stations of the batch, read at one point of time.
Query(w) ==
    /\ pc[w] = "dequeued"
    /\ snap' = [snap EXCEPT ![w] = [s \in Stations |->
                    IF s \in Keys(batch[w]) THEN table[s] ELSE NoRow]]
    /\ pc' = [pc EXCEPT ![w] = "queried"]
    /\ UNCHANGED <<queueVars, table, today, tasks, batch, day, pipe, redisVars>>

\* Mutant: only stations that keep a position have their area updated.
PipedPositions(w) ==
    [new |-> Cardinality({s \in Updates(w) : snap[w][s] = NoRow}),
     areas |-> UNION {AreaOf[s] : s \in {t \in Updates(w) : NewRow(w, t).box # {}}}]

\* Mutant: moving stations are not counted as new.
PipedAgreeing(w) ==
    [new |-> Cardinality({s \in Updates(w) : snap[w][s] = NoRow /\ NewRow(w, s).box # {}}),
     areas |-> UNION {AreaOf[s] : s \in Updates(w)}]

\* What the task leaves for the pipeline: the stations it took for new, and
\* the areas of all stations it updated.
Piped(w) ==
    [new |-> Cardinality({s \in Updates(w) : snap[w][s] = NoRow}),
     areas |-> UNION {AreaOf[s] : s \in Updates(w)}]

\* Mutant: the area updates are pushed at once instead of with the pipeline.
FollowUpPushes(w) ==
    /\ pc[w] = "queried"
    /\ tasks' = IF queue # {} /\ Cardinality(queue) >= BatchSize THEN Sent ELSE tasks
    /\ pc' = [pc EXCEPT ![w] = "written"]
    /\ areaUpdates' = areaUpdates \cup Piped(w).areas
    /\ UNCHANGED <<queueVars, table, today, batch, day, snap, pipe, newStations, pipeLost>>

\* The statements are executed but not committed; if the queue still holds a
\* batch, the follow-up task goes to the broker right now.
FollowUp(w) ==
    /\ pc[w] = "queried"
    /\ tasks' = IF queue # {} /\ Cardinality(queue) >= BatchSize THEN Sent ELSE tasks
    /\ pc' = [pc EXCEPT ![w] = "written"]
    /\ UNCHANGED <<queueVars, table, today, batch, day, snap, pipe, redisVars>>

\* The transaction ends: all statements take effect at once.
Commit(w) ==
    /\ pc[w] = "written"
    /\ table' = [s \in Stations |->
                    IF s \in Updates(w) THEN Written(w, s) ELSE table[s]]
    /\ consumed' = consumed \cup batch[w]
    /\ batch' = [batch EXCEPT ![w] = {}]
    /\ snap' = [snap EXCEPT ![w] = NoSnap]
    /\ pipe' = [pipe EXCEPT ![w] = Piped(w)]
    /\ pc' = [pc EXCEPT ![w] = "committed"]
    /\ UNCHANGED <<queue, lost, today, tasks, day, redisVars>>

\* The session, the pipeline and the arguments of a task end with it.
EndTask(w) ==
    /\ pc' = [pc EXCEPT ![w] = "idle"]
    /\ batch' = [batch EXCEPT ![w] = {}]
    /\ day' = [day EXCEPT ![w] = 1]
    /\ snap' = [snap EXCEPT ![w] = NoSnap]
    /\ pipe' = [pipe EXCEPT ![w] = NoPipe]

\* The pipeline is executed in one transaction.
ExecutePipe(w) ==
    /\ pc[w] = "committed"
    /\ areaUpdates' = areaUpdates \cup pipe[w].areas
    /\ newStations' = newStations + pipe[w].new
    /\ EndTask(w)
    /\ UNCHANGED <<queueVars, table, today, tasks, pipeLost>>

\* The worker dies or the task raises; a task that raised is sent once more,
\* with the same arguments and without its batch.  The transaction, if still
\* open, is rolled back.
Fail(w) ==
    /\ pc[w] # "idle"
    /\ tasks' \in {tasks, Sent}
    /\ lost' = lost \cup batch[w]
    /\ pipeLost' = (pipeLost \/ pc[w] = "committed")
    /\ EndTask(w)
    /\ UNCHANGED <<queue, consumed, table, today, areaUpdates, newStations>>

Step(w) == Query(w) \/ FollowUp(w) \/ Commit(w) \/ ExecutePipe(w)

Next ==
    \/ \E S \in SUBSET Obs : Submit(S)
    \/ Expire \/ NextDay \/ Beat \/ TaskExpires
    \/ \E w \in Workers :
         \/ \E S \in SUBSET queue : Dequeue(w, S)
         \/ Step(w)
         \/ Fail(w)

Spec == Init /\ [][Next]_vars

\* Messages are delivered to an idle worker before they expire, at least every
\* now and then; a task that runs takes its next step.
Fairness ==
    /\ WF_vars(Beat)
    /\ \A w \in Workers :
         /\ SF_vars(\E S \in SUBSET queue : Dequeue(w, S))
         /\ WF_vars(Step(w))

FairSpec == Spec /\ Fairness

-----------------------------------------------------------------------------
TypeOK ==
    /\ queue \subseteq Obs /\ consumed \subseteq Obs /\ lost \subseteq Obs
    /\ table \in [Stations -> Row(Positions)]
    /\ today \in 1..MaxDay
    /\ tasks \in 0..MaxTasks
    /\ pc \in [Workers -> {"idle", "dequeued", "queried", "written", "committed"}]
    /\ batch \in [Workers -> SUBSET Obs]
    /\ day \in [Workers -> 1..MaxDay]
    /\ snap \in [Workers -> [Stations -> Row(Positions)]]
    /\ pipe \in [Workers -> [new : Nat, areas : SUBSET Areas]]
    /\ areaUpdates \subseteq Areas
    /\ newStations \in Nat
    /\ pipeLost \in BOOLEAN

\* A blocked station has no position, whatever tasks overlap and however old
\* the snapshots they write from: no stale write can bring the position of a
\* station back while it is blocked.
BlockedHasNoPosition ==
    \A s \in Stations : Blocked(table[s], today) => table[s].box = {}

\* A position is never backed by more samples than observations of that
\* station were consumed: an observation counts at most once, across
\* overlapping tasks, failures and repeated tasks.
SamplesAreObserved ==
    \A s \in Stations : table[s].samples <= Cardinality(ObsOf(s, consumed))

\* The corners of a station's box were really observed, of that station and
\* in a committed batch, and are within the reach of one station.
BoxIsObserved ==
    \A s \in Stations :
        /\ table[s].box \subseteq PositionsOf(ObsOf(s, consumed))
        /\ ~TooFar(table[s].box)

\* The block count stops at the threshold (the column is one byte wide), and
\* the block dates are set exactly with it, in order and not in the future.
BlockHistory ==
    \A s \in Stations :
        LET row == table[s] IN
        /\ row.count <= PermThreshold
        /\ row.count = 0 => row.first = 0 /\ row.last = 0
        /\ row.count > 0 => 1 <= row.first /\ row.first <= row.last /\ row.last <= today

\* Every station in the table has the update of its areas behind or ahead of
\* it, unless a pipeline was lost.
AreasAreUpdated ==
    ~pipeLost =>
        \A s \in Stations : table[s] # NoRow =>
            AreaOf[s] \subseteq areaUpdates \cup UNION {pipe[w].areas : w \in Workers}

\* An area is never queued for an update on behalf of a row that is not there
\* yet: the area task that takes it finds the station.
RowsBeforeAreas ==
    areaUpdates \subseteq UNION {AreaOf[s] : s \in {t \in Stations : table[t] # NoRow}}

-----------------------------------------------------------------------------
(* With one task at a time.                                                *)

\* TEMPORARY_BLOCKLIST_DURATION (constants.py:22-26) and
\* PERMANENT_BLOCKLIST_THRESHOLD (constants.py:28-34): while a station is
\* blocked, all its observations are dropped and its row stays as it is.
BlockedRowIsFrozen ==
    [][\A s \in Stations : Blocked(table[s], today) => table'[s] = table[s]]_vars

\* The counter of unique stations (data/station.py:279-281) is exact once no
\* pipeline is pending, if none was lost.
NewStationsAreCounted ==
    (\A w \in Workers : pc[w] # "committed") /\ ~pipeLost =>
        newStations = Cardinality({s \in Stations : table[s] # NoRow})

\* Every observation in the queue is consumed or lost in the end.
QueueDrains ==
    \A o \in Obs : (o \in queue) ~> (o \in consumed \cup lost)

-----------------------------------------------------------------------------
\* Queue and tasks together as an at-most-once queue: what a batch holds is
\* still pending, and is delivered by the commit.
Abstract == INSTANCE AtMostOnceQueue
              WITH Items <- Obs,
                   pending <- queue \cup UNION {batch[w] : w \in Workers},
                   delivered <- consumed

ImplementsAtMostOnce == Abstract!Spec
=============================================================================
