----------------------------- MODULE StatCounter -----------------------------
(***************************************************************************)
(* update_statcounter of data/tasks.py, running StatCounterUpdater of      *)
(* data/stats.py, for one statistic: a Redis counter per day, which the    *)
(* update tasks of other tables increase, is moved to the stat table,      *)
(* whose rows are running totals.                                          *)
(*                                                                         *)
(* A task is sent every hour for the day before, whether or not the last   *)
(* one is still running, and one that failed is sent again.  It reads the  *)
(* table and the counter, writes the row when it commits, and then takes   *)
(* the same amount off the counter, so that later additions to that day    *)
(* are picked up by the next task.                                         *)
(***************************************************************************)
EXTENDS Integers, Functions

CONSTANTS
    Days,           \* 1 up to the last day
    Workers,        \* worker processes for statistics tasks
    KeyDays,        \* the time to live of a counter, in days
    MaxFound,       \* bound: how much is counted
    MaxRecounted,   \* bound: how much of a day is counted again
    MaxLost         \* bound: how much of a day is overwritten

VARIABLES
    today,
    counter,        \* the Redis counter of each day, 0 if there is none
    touched,        \* when it was last changed
    stat,           \* the row of each day, or NoRow
    pc,             \* the task each worker runs,
    day,            \*   its day,
    row, before,    \*   the row of that day and the total before, as read,
    value,          \*   and the counter as read
    base,           \* the total that the row of each day was started from
    found,          \* how much was counted on each day
    expired,        \* how much of it went with the counter's key
    recounted,      \* how much was added to the row and not taken off the counter
    lost,           \* how much was in the row and has been overwritten
    contended       \* days whose tasks got into each other's way

taskVars == <<pc, day, row, before, value>>
history == <<base, found, expired, recounted, lost, contended>>
vars == <<today, counter, touched, stat, taskVars, history>>

NoRow == -1

Init ==
    /\ counter = [d \in Days |-> 0]
    /\ touched = [d \in Days |-> 0]
    /\ stat = [d \in Days |-> NoRow]
    /\ pc = [w \in Workers |-> "idle"]
    /\ day = [w \in Workers |-> 0]
    /\ row = [w \in Workers |-> NoRow]
    /\ before = [w \in Workers |-> 0]
    /\ value = [w \in Workers |-> 0]
    /\ base = [d \in Days |-> 0]
    /\ found = [d \in Days |-> 0]
    /\ expired = [d \in Days |-> 0]
    /\ recounted = [d \in Days |-> 0]
    /\ lost = [d \in Days |-> 0]
    /\ contended = {}

\* Mutant: the row of the day before, whether or not there is one.
BeforeYesterday(table, d) == IF d = 1 THEN 0 ELSE table[d - 1]

\* The total before a day: the latest earlier row of a table, if there is one.
Before(table, d) ==
    LET earlier == {e \in Days : e < d /\ table[e] # NoRow} IN
    IF earlier = {} THEN 0
    ELSE table[CHOOSE e \in earlier : \A f \in earlier : f <= e]

\* A task has read the counter of a day and has not taken its part off.
Holds(w, d) == pc[w] \in {"read", "committed"} /\ day[w] = d

-----------------------------------------------------------------------------
\* The pipeline of an update task adds to the counter of the day the task
\* started on, which may be over by now.
Count(d) ==
    /\ d \in {today, today - 1} \cap Days
    /\ SumFunction(found) < MaxFound
    /\ found' = [found EXCEPT ![d] = @ + 1]
    /\ counter' = [counter EXCEPT ![d] = @ + 1]
    /\ touched' = [touched EXCEPT ![d] = today]
    /\ UNCHANGED <<today, stat, taskVars, base, expired, recounted, lost, contended>>

\* The key of a counter reaches its time to live, maybe under a task.
Expire(d) ==
    /\ counter[d] # 0
    /\ today >= touched[d] + KeyDays
    /\ counter' = [counter EXCEPT ![d] = 0]
    /\ expired' = [expired EXCEPT ![d] = @ + counter[d]]
    /\ contended' = contended \cup {e \in {d} : \E w \in Workers : Holds(w, e)}
    /\ UNCHANGED <<today, touched, stat, taskVars, base, found, recounted, lost>>

-----------------------------------------------------------------------------
\* A task starts: it notes the day before, and reads the total before it and
\* its row, at one point of time.
Query(w) ==
    /\ pc[w] = "idle"
    /\ today - 1 \in Days
    /\ day' = [day EXCEPT ![w] = today - 1]
    /\ row' = [row EXCEPT ![w] = stat[today - 1]]
    /\ before' = [before EXCEPT ![w] = Before(stat, today - 1)]
    /\ pc' = [pc EXCEPT ![w] = "queried"]
    /\ UNCHANGED <<today, counter, touched, stat, value, history>>

\* The counter is read after that, maybe one that another task has read too.
Get(w) ==
    /\ pc[w] = "queried"
    /\ value' = [value EXCEPT ![w] = counter[day[w]]]
    /\ contended' = contended \cup {d \in {day[w]} : \E v \in Workers : Holds(v, d)}
    /\ pc' = [pc EXCEPT ![w] = "read"]
    /\ UNCHANGED <<today, counter, touched, stat, day, row, before,
                   base, found, expired, recounted, lost>>

\* Mutant: the row of a day starts from zero.
WrittenFromZero(w) ==
    IF row[w] # NoRow
      THEN IF value[w] = 0 THEN stat[day[w]] ELSE row[w] + value[w]
      ELSE IF stat[day[w]] # NoRow THEN stat[day[w]] + value[w]
                                   ELSE value[w]

\* Mutant: an insert that finds a row replaces it.
WrittenOver(w) ==
    IF row[w] # NoRow
      THEN IF value[w] = 0 THEN stat[day[w]] ELSE row[w] + value[w]
      ELSE before[w] + value[w]

\* A row that was read is set to its value as read plus the counter, and left
\* alone if that is no change; another one is inserted with the total before,
\* or added to if it has come to be.
Written(w) ==
    IF row[w] # NoRow
      THEN IF value[w] = 0 THEN stat[day[w]] ELSE row[w] + value[w]
      ELSE IF stat[day[w]] # NoRow THEN stat[day[w]] + value[w]
                                   ELSE before[w] + value[w]

\* What the row has changed by since it was read is overwritten.
Overwritten(w) == IF row[w] # NoRow /\ value[w] # 0 THEN stat[day[w]] - row[w] ELSE 0

\* A row of this day comes after a later one, or after a task for a later day
\* has read the table without it.
Late(w) ==
    \/ \E d \in Days : d > day[w] /\ stat[d] # NoRow
    \/ \E v \in Workers : pc[v] # "idle" /\ day[v] > day[w]

\* The column is unsigned: in strict mode MySQL refuses a total below zero,
\* and the task raises.
Commit(w) ==
    /\ pc[w] = "read"
    /\ Written(w) >= 0
    /\ stat' = [stat EXCEPT ![day[w]] = Written(w)]
    /\ base' = [base EXCEPT ![day[w]] = IF stat[day[w]] = NoRow THEN before[w] ELSE @]
    /\ lost' = [lost EXCEPT ![day[w]] = @ + Overwritten(w)]
    /\ lost'[day[w]] \in -MaxLost .. MaxLost
    /\ contended' = contended \cup {d \in {day[w]} : Late(w)}
    /\ pc' = [pc EXCEPT ![w] = "committed"]
    /\ UNCHANGED <<today, counter, touched, day, row, before, value,
                   found, expired, recounted>>

EndTask(w) ==
    /\ pc' = [pc EXCEPT ![w] = "idle"]
    /\ day' = [day EXCEPT ![w] = 0]
    /\ row' = [row EXCEPT ![w] = NoRow]
    /\ before' = [before EXCEPT ![w] = 0]
    /\ value' = [value EXCEPT ![w] = 0]

\* The counter is decreased by what was read of it, with a new time to live;
\* what another task has taken off, or an absent key, takes it below zero.
ExecutePipe(w) ==
    /\ pc[w] = "committed"
    /\ counter' = [counter EXCEPT ![day[w]] = @ - value[w]]
    /\ touched' = [touched EXCEPT ![day[w]] = today]
    /\ EndTask(w)
    /\ UNCHANGED <<today, stat, history>>

\* The task raises or its worker dies.
Fail(w) ==
    /\ pc[w] # "idle"
    /\ recounted' = [d \in Days |-> IF pc[w] = "committed" /\ d = day[w]
                                    THEN recounted[d] + value[w] ELSE recounted[d]]
    /\ recounted'[day[w]] \in -MaxRecounted .. MaxRecounted
    /\ EndTask(w)
    /\ UNCHANGED <<today, counter, touched, stat, base, found, expired, lost, contended>>

Next ==
    \/ \E d \in Days : Count(d) \/ Expire(d)
    \/ \E w \in Workers : Query(w) \/ Get(w) \/ Commit(w) \/ ExecutePipe(w) \/ Fail(w)

\* What the row of a day adds to the total it was started from.
Added(d) == IF stat[d] = NoRow THEN 0 ELSE stat[d] - base[d]
=============================================================================
