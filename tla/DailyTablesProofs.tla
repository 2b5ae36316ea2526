------------------------- MODULE DailyTablesProofs ---------------------------
(***************************************************************************)
(* The moves of update_statcounter conserve what was counted, for any      *)
(* number of overlapping tasks, days and events, and totals grow.          *)
(*                                                                         *)
(* The sum of all that committed tasks are to take off a counter is a sum  *)
(* over all workers; a step changes it by the share of one (PendingChange).*)
(*                                                                         *)
(* Totals grow because a row is never below the total it was started from  *)
(* (RowsAboveBase), and that one never below an earlier row                *)
(* (EarlierBelowBase).  Both also have to be said of the rows and totals   *)
(* that tasks have read and may still write, and both rest on the counter  *)
(* being large enough for the task that has read it (CountersCover).       *)
(*                                                                         *)
(* The dates of a grid are exact because the task that writes a row finds  *)
(* it as it was read, or with the task's own date; an insert that finds a  *)
(* row leaves it, and finds the same date in it (WrittenExact).            *)
(***************************************************************************)
EXTENDS DailyTables, SetFacts

NoRow == SC!NoRow

\* The states of a task.
Steps == {"idle", "queried", "read", "committed"}

Types ==
    /\ table \in {"datamap", "stat"} /\ today \in Days
    /\ counter \in [Days -> Int] /\ touched \in [Days -> 0..MaxDay]
    /\ stat \in [Days -> Rows]
    /\ pc \in [Workers -> Steps] /\ day \in [Workers -> 0..MaxDay]
    /\ row \in [Workers -> Rows] /\ before \in [Workers -> Nat]
    /\ value \in [Workers -> Int]
    /\ base \in [Days -> Nat] /\ found \in [Days -> Nat]
    /\ expired \in [Days -> Int] /\ recounted \in [Days -> Int] /\ lost \in [Days -> Int]
    /\ contended \subseteq Days
    /\ \A w \in Workers : pc[w] # "idle" => day[w] \in Days

\* Rows are not deleted.
RowsStay ==
    \A w \in Workers : pc[w] # "idle" /\ row[w] # NoRow => stat[day[w]] # NoRow

\* The counter of a day that is not contended covers the one task that has
\* read it.
CountersCover ==
    \A d \in Days \ contended :
        /\ counter[d] >= 0
        /\ \A w \in Workers : SC!Holds(w, d) => 0 <= value[w] /\ value[w] <= counter[d]
        /\ \A v, w \in Workers : SC!Holds(v, d) /\ SC!Holds(w, d) => v = w

\* A row does not fall below the total it was started from.
RowsAboveBase ==
    \A d \in Days \ contended :
        /\ stat[d] # NoRow => base[d] <= stat[d]
        /\ \A w \in Workers : pc[w] # "idle" /\ day[w] = d /\ row[w] # NoRow => base[d] <= row[w]

\* A day comes before another, and no day from the one to the other is contended.
Settled(d, e) == d < e /\ (d .. e) \cap contended = {}

\* The total that a row was started from, or is going to be, is not below an
\* earlier row.
EarlierBelowBase ==
    \A d, e \in Days :
        Settled(d, e) /\ stat[d] # NoRow =>
            /\ stat[e] # NoRow => stat[d] <= base[e]
            /\ \A w \in Workers : pc[w] # "idle" /\ day[w] = e => stat[d] <= before[w]

IInv ==
    /\ Types /\ RowsStay /\ CountersCover
    /\ RowsAboveBase /\ EarlierBelowBase
    /\ EachEventCountedOnce

-----------------------------------------------------------------------------
(* The total before a day.                                                 *)

\* The days before the present one.
LEMMA Calendar ==
    /\ Days \subseteq Nat
    /\ \A d \in Days : 1 <= d
  BY DEF Days

\* A set of days that is not empty has a latest day.
LEMMA LatestDay ==
    ASSUME NEW S \in SUBSET Days, S # {}
    PROVE  \E e \in S : \A f \in S : f <= e
<1> DEFINE T == {MaxDay - e : e \in S}
<1>1. MaxDay \in Nat /\ S \subseteq 1..MaxDay
  BY BoundsAssumption DEF Days
<1>2. T \subseteq Nat /\ T # {}
  <2>1. \A e \in S : MaxDay - e \in Nat
    BY <1>1
  <2> QED
    BY <2>1
<1> HIDE DEF T
<1>3. PICK x \in T : \A y \in T : x <= y
  BY <1>2, SmallestNumber
<1> USE DEF T
<1>4. PICK e \in S : x = MaxDay - e
  OBVIOUS
<1>5. ASSUME NEW f \in S PROVE f <= e
  <2>1. MaxDay - e <= MaxDay - f
    BY <1>3, <1>4
  <2> QED
    BY <1>1, <2>1
<1> QED
  BY <1>5

\* Totals grow where a row is not below its start, and its start not below an
\* earlier row.
LEMMA GrowingTotals ==
    ASSUME Types, RowsAboveBase, EarlierBelowBase
    PROVE  \A d, e \in Days :
             Settled(d, e) /\ stat[d] # NoRow /\ stat[e] # NoRow => stat[d] <= stat[e]
<1> SUFFICES ASSUME NEW d \in Days, NEW e \in Days,
                    Settled(d, e), stat[d] # NoRow, stat[e] # NoRow
             PROVE  stat[d] <= stat[e]
  OBVIOUS
<1>1. d \in Nat /\ e \in Nat /\ d < e /\ e \notin contended
  <2>1. d \in Nat /\ e \in Nat /\ d < e
    BY Calendar DEF Settled
  <2>2. e \in d .. e
    BY <2>1
  <2> QED
    BY <2>1, <2>2 DEF Settled
<1>2. stat[d] <= base[e] /\ base[e] <= stat[e]
  BY <1>1 DEF EarlierBelowBase, RowsAboveBase
<1>3. stat[d] \in Nat /\ stat[e] \in Nat /\ base[e] \in Nat
  BY DEF Types, Rows, NoRow
<1> QED
  BY <1>2, <1>3

\* The total before a day is a number, and not below an earlier row.
LEMMA BeforeFacts ==
    ASSUME Types, NEW d \in Days
    PROVE  /\ SC!Before(stat, d) \in Nat
           /\ RowsAboveBase /\ EarlierBelowBase =>
                \A e \in Days : Settled(e, d) /\ stat[e] # NoRow => stat[e] <= SC!Before(stat, d)
<1> DEFINE E == {e \in Days : e < d /\ stat[e] # NoRow}
           last == CHOOSE e \in E : \A f \in E : f <= e
<1>1. Days \subseteq Nat
  BY DEF Days
<1>2. CASE E = {}
  BY <1>2 DEF SC!Before, NoRow, Settled
<1>3. CASE E # {}
  <2>1. last \in E /\ \A f \in E : f <= last
    BY <1>3, LatestDay
  <2>2. SC!Before(stat, d) = stat[last]
    BY <1>3 DEF SC!Before, NoRow
  <2> HIDE DEF last
  <2>3. stat[last] \in Nat
    BY <2>1 DEF Types, Rows, NoRow
  <2>4. ASSUME RowsAboveBase, EarlierBelowBase,
               NEW e \in Days, Settled(e, d), stat[e] # NoRow
        PROVE  stat[e] <= stat[last]
    <3>1. e < d /\ e \in Nat /\ d \in Nat /\ last \in Nat /\ last < d
      BY <1>1, <2>1, <2>4 DEF Settled
    <3>2. e <= last
      BY <2>1, <2>4, <3>1
    <3>3. CASE e = last
      BY <2>3, <3>3
    <3>4. CASE e < last
      <4>1. e .. last \subseteq e .. d
        BY <3>1
      <4>2. Settled(e, last)
        BY <2>4, <3>4, <4>1 DEF Settled
      <4> QED
        BY <2>1, <2>4, <4>2, GrowingTotals
    <3> QED
      BY <3>1, <3>2, <3>3, <3>4
  <2> QED
    BY <2>2, <2>3, <2>4
<1> QED
  BY <1>2, <1>3

-----------------------------------------------------------------------------
(* What is to be taken off the counters.                                   *)

\* The share of each worker.
Part(d) == [w \in Workers |-> IF pc[w] = "committed" /\ day[w] = d THEN value[w] ELSE 0]

\* All terms of the equation are integers.
LEMMA TermTypes ==
    ASSUME Types, NEW d \in Days
    PROVE  /\ Part(d) \in [Workers -> Int] /\ Pending(d) \in Int
           /\ SC!Added(d) \in Int /\ counter[d] \in Int /\ expired[d] \in Int
           /\ lost[d] \in Int /\ found[d] \in Int /\ recounted[d] \in Int
<1>1. Part(d) \in [Workers -> Int]
  BY DEF Part, Types
<1>2. Pending(d) = SumFunction(Part(d))
  BY DEF Pending, Part
<1>3. Pending(d) \in Int
  BY <1>1, <1>2, SumFunctionFacts, WorkersAssumption
<1>4. SC!Added(d) \in Int
  BY DEF SC!Added, Types, Rows, NoRow
<1>5. /\ counter[d] \in Int /\ expired[d] \in Int
      /\ lost[d] \in Int /\ found[d] \in Int /\ recounted[d] \in Int
  BY DEF Types
<1> QED
  BY <1>1, <1>3, <1>4, <1>5

\* A step of one task changes the sum by what it changes of its own share.
LEMMA PendingChange ==
    ASSUME Types, Types', NEW w \in Workers, NEW d \in Days,
           \A v \in Workers \ {w} : /\ pc'[v] = pc[v] /\ day'[v] = day[v]
                                    /\ value'[v] = value[v]
    PROVE  Pending(d)' = Pending(d)
             + (IF pc'[w] = "committed" /\ day'[w] = d THEN value'[w] ELSE 0)
             - (IF pc[w] = "committed" /\ day[w] = d THEN value[w] ELSE 0)
<1> DEFINE F == Part(d)
           G == [v \in Workers |-> IF pc'[v] = "committed" /\ day'[v] = d THEN value'[v] ELSE 0]
<1>1. F \in [Workers -> Int]
  BY DEF Part, Types
<1>2. G \in [Workers -> Int]
  BY DEF Types
<1>3. Pending(d) = SumFunction(F) /\ Pending(d)' = SumFunction(G)
  BY DEF Pending, Part
<1>4. \A v \in Workers \ {w} : F[v] = G[v]
  BY DEF Part
<1>5. /\ F[w] = IF pc[w] = "committed" /\ day[w] = d THEN value[w] ELSE 0
      /\ G[w] = IF pc'[w] = "committed" /\ day'[w] = d THEN value'[w] ELSE 0
  BY DEF Part
<1> HIDE DEF F, G
<1>6. SumFunction(G) = SumFunction(F) + G[w] - F[w]
  BY <1>1, <1>2, <1>4, SumFunctionFacts, WorkersAssumption
<1> QED
  BY <1>3, <1>5, <1>6

\* The equation for one day, from how much its terms change.
LEMMA EquationKept ==
    ASSUME Types, EachEventCountedOnce, NEW d \in Days, NEW n \in Int,
           SC!Added(d)' + lost'[d] + counter'[d] + expired'[d]
             = SC!Added(d) + lost[d] + counter[d] + expired[d] + n,
           Pending(d)' + found'[d] + recounted'[d] = Pending(d) + found[d] + recounted[d] + n,
           Types'
    PROVE  SC!Added(d)' + counter'[d] - Pending(d)' + expired'[d] + lost'[d]
             = found'[d] + recounted'[d]
<1> DEFINE A == SC!Added(d)  P == Pending(d)
<1>1. /\ A \in Int /\ P \in Int /\ counter[d] \in Int /\ expired[d] \in Int
      /\ lost[d] \in Int /\ found[d] \in Int /\ recounted[d] \in Int
  BY TermTypes
<1>2. /\ counter'[d] \in Int /\ expired'[d] \in Int
      /\ lost'[d] \in Int /\ found'[d] \in Int /\ recounted'[d] \in Int
  BY DEF Types
<1>3. A' \in Int
  BY DEF SC!Added, Types, Rows, NoRow
<1>4. P' \in Int
  <2> DEFINE G == [v \in Workers |-> IF pc'[v] = "committed" /\ day'[v] = d THEN value'[v] ELSE 0]
  <2>1. G \in [Workers -> Int]
    BY DEF Types
  <2>2. P' = SumFunction(G)
    BY DEF Pending
  <2> HIDE DEF G
  <2> QED
    BY <2>1, <2>2, SumFunctionFacts, WorkersAssumption
<1>5. A + counter[d] - P + expired[d] + lost[d] = found[d] + recounted[d]
  BY DEF EachEventCountedOnce
<1> HIDE DEF A, P
<1> QED
  BY <1>1, <1>2, <1>3, <1>4, <1>5 DEF A, P

-----------------------------------------------------------------------------
(* One lemma per kind of step.                                             *)

\* Nothing counted, no row.
LEMMA InitIInv == Init => IInv
<1> SUFFICES ASSUME Init PROVE IInv
  OBVIOUS
<1> DEFINE Zero == [d \in Days |-> 0]
<1>1. /\ table \in {"datamap", "stat"} /\ today = 1
      /\ counter = Zero /\ touched = Zero /\ stat = [d \in Days |-> NoRow]
      /\ pc = [w \in Workers |-> "idle"] /\ day = [w \in Workers |-> 0]
      /\ row = [w \in Workers |-> NoRow] /\ before = [w \in Workers |-> 0]
      /\ value = [w \in Workers |-> 0]
      /\ base = Zero /\ found = Zero /\ expired = Zero /\ recounted = Zero /\ lost = Zero
      /\ contended = {}
  BY DEF Init, SC!Init, NoRow
<1>2. 1 \in Days /\ NoRow \in Rows /\ 0 \in 0..MaxDay
  BY BoundsAssumption DEF Days, Rows, NoRow
<1>3. Types
  BY <1>1, <1>2 DEF Types, Steps
<1>4. RowsStay /\ CountersCover /\ RowsAboveBase /\ EarlierBelowBase
  BY <1>1 DEF RowsStay, CountersCover, RowsAboveBase, EarlierBelowBase, SC!Holds, NoRow
<1>5. EachEventCountedOnce
  <2> SUFFICES ASSUME NEW d \in Days
               PROVE  SC!Added(d) + counter[d] - Pending(d) + expired[d] + lost[d]
                        = found[d] + recounted[d]
    BY DEF EachEventCountedOnce
  <2>1. SC!Added(d) = 0
    BY <1>1 DEF SC!Added, NoRow
  <2>2. Pending(d) = 0
    <3> DEFINE F == [w \in Workers |-> 0]
    <3>1. Pending(d) = SumFunction(F)
      <4>1. [w \in Workers |-> IF pc[w] = "committed" /\ day[w] = d THEN value[w] ELSE 0] = F
        BY <1>1
      <4> QED
        BY <4>1 DEF Pending
    <3>2. F \in [Workers -> Int]
      OBVIOUS
    <3>3. PICK g \in [SUBSET Workers -> Int] : IsSum(g, F, Workers) /\ SumFunction(F) = g[Workers]
      BY <3>2, SumFunctionIsSum, WorkersAssumption
    <3>4. \A w \in Workers : F[w] \in Nat /\ 0 <= F[w] /\ F[w] <= 0
      OBVIOUS
    <3> HIDE DEF F
    <3>5. Cardinality(Workers) \in Nat
      BY WorkersAssumption, FS_CardinalityType
    <3>6. 0 * Cardinality(Workers) <= g[Workers] /\ g[Workers] <= 0 * Cardinality(Workers)
      BY <3>3, <3>4, SumBounds, WorkersAssumption
    <3>7. g[Workers] = 0
      BY <3>3, <3>5, <3>6
    <3> QED
      BY <3>1, <3>3, <3>7
  <2> QED
    BY <1>1, <2>1, <2>2
<1> QED
  BY <1>3, <1>4, <1>5 DEF IInv

\* Steps that write no row, and start no task, keep what concerns rows.
LEMMA TableKept ==
    ASSUME IInv, UNCHANGED <<stat, base>>, contended \subseteq contended',
           \A v \in Workers : pc'[v] # "idle" =>
               /\ pc[v] # "idle" /\ day'[v] = day[v]
               /\ row'[v] = row[v] /\ before'[v] = before[v]
    PROVE  /\ RowsStay' /\ RowsAboveBase' /\ EarlierBelowBase'
           /\ \A d \in Days : SC!Added(d)' = SC!Added(d)
<1>1. RowsStay'
  BY DEF IInv, RowsStay
<1>2. RowsAboveBase'
  BY DEF IInv, RowsAboveBase
<1>3. ASSUME NEW d \in Days, NEW e \in Days, Settled(d, e)' PROVE Settled(d, e)
  BY <1>3 DEF Settled
<1>4. EarlierBelowBase'
  BY <1>3 DEF IInv, EarlierBelowBase
<1>5. \A d \in Days : SC!Added(d)' = SC!Added(d)
  BY DEF SC!Added
<1> QED
  BY <1>1, <1>2, <1>4, <1>5

\* Days pass, whether or not a task is on its way.
LEMMA NextDayIInv ==
    ASSUME IInv, NextDay
    PROVE  IInv'
<1>1. /\ table' = table /\ today' \in Days
      /\ UNCHANGED <<counter, touched, stat, pc, day, row, before, value>>
      /\ UNCHANGED <<base, found, expired, recounted, lost, contended>>
  BY BoundsAssumption DEF NextDay, IInv, Types, Days, statVars
<1>2. Types'
  BY <1>1 DEF IInv, Types
<1>3. RowsStay' /\ RowsAboveBase' /\ EarlierBelowBase' /\ \A d \in Days : SC!Added(d)' = SC!Added(d)
  BY <1>1, TableKept
<1>4. CountersCover'
  BY <1>1 DEF IInv, CountersCover, SC!Holds
<1>5. EachEventCountedOnce'
  BY <1>1, <1>3 DEF IInv, EachEventCountedOnce, Pending
<1> QED
  BY <1>2, <1>3, <1>4, <1>5 DEF IInv

\* An event is counted.
LEMMA CountIInv ==
    ASSUME IInv, NEW d \in Days, SC!Count(d), UNCHANGED table
    PROVE  IInv'
<1>1. /\ found' = [found EXCEPT ![d] = @ + 1]
      /\ counter' = [counter EXCEPT ![d] = @ + 1]
      /\ touched' = [touched EXCEPT ![d] = today]
      /\ UNCHANGED <<table, today, stat, pc, day, row, before, value>>
      /\ UNCHANGED <<base, expired, recounted, lost, contended>>
  BY DEF SC!Count, SC!taskVars
<1>2. Types /\ today \in 0..MaxDay
  <2>1. Types
    BY DEF IInv
  <2>2. today \in Days
    BY <2>1 DEF Types
  <2> QED
    BY BoundsAssumption, <2>1, <2>2 DEF Days
<1>3. \A e \in Days : /\ counter'[e] = IF e = d THEN counter[e] + 1 ELSE counter[e]
                      /\ found'[e] = IF e = d THEN found[e] + 1 ELSE found[e]
  BY <1>1, <1>2 DEF Types
<1>4. Types'
  BY <1>1, <1>2 DEF Types
<1>5. RowsStay' /\ RowsAboveBase' /\ EarlierBelowBase' /\ \A e \in Days : SC!Added(e)' = SC!Added(e)
  BY <1>1, TableKept
<1>6. CountersCover'
  <2> SUFFICES ASSUME NEW e \in Days \ contended
               PROVE  /\ counter'[e] >= 0
                      /\ \A w \in Workers : SC!Holds(w, e) => 0 <= value[w] /\ value[w] <= counter'[e]
                      /\ \A v, w \in Workers : SC!Holds(v, e) /\ SC!Holds(w, e) => v = w
    BY <1>1 DEF CountersCover, SC!Holds
  <2>1. counter'[e] >= counter[e] /\ counter[e] \in Int /\ counter'[e] \in Int
    BY <1>2, <1>3 DEF Types
  <2>2. \A w \in Workers : value[w] \in Int
    BY <1>2 DEF Types
  <2> QED
    BY <2>1, <2>2 DEF IInv, CountersCover
<1>7. EachEventCountedOnce'
  <2> SUFFICES ASSUME NEW e \in Days
               PROVE  SC!Added(e)' + counter'[e] - Pending(e)' + expired'[e] + lost'[e]
                        = found'[e] + recounted'[e]
    BY DEF EachEventCountedOnce
  <2> DEFINE n == IF e = d THEN 1 ELSE 0
  <2>1. SC!Added(e)' = SC!Added(e) /\ Pending(e)' = Pending(e)
    BY <1>1, <1>5 DEF Pending
  <2>2. counter'[e] = counter[e] + n /\ found'[e] = found[e] + n
    BY <1>2, <1>3, TermTypes
  <2>3. n \in Int
    OBVIOUS
  <2> HIDE DEF n
  <2>4. /\ SC!Added(e)' + lost'[e] + counter'[e] + expired'[e]
             = SC!Added(e) + lost[e] + counter[e] + expired[e] + n
        /\ Pending(e)' + found'[e] + recounted'[e] = Pending(e) + found[e] + recounted[e] + n
    BY <1>1, <1>2, <2>1, <2>2, <2>3, TermTypes
  <2> QED
    BY <1>2, <1>4, <2>3, <2>4, EquationKept DEF IInv
<1> QED
  BY <1>4, <1>5, <1>6, <1>7 DEF IInv

\* A counter goes with its key when it has not been touched for long.
LEMMA ExpireIInv ==
    ASSUME IInv, NEW d \in Days, SC!Expire(d), UNCHANGED table
    PROVE  IInv'
<1>1. /\ counter' = [counter EXCEPT ![d] = 0]
      /\ expired' = [expired EXCEPT ![d] = @ + counter[d]]
      /\ contended' = contended \cup {e \in {d} : \E w \in Workers : SC!Holds(w, e)}
      /\ UNCHANGED <<table, today, touched, stat, pc, day, row, before, value>>
      /\ UNCHANGED <<base, found, recounted, lost>>
  BY DEF SC!Expire, SC!taskVars
<1>2. Types
  BY DEF IInv
<1>3. \A e \in Days : /\ counter'[e] = IF e = d THEN 0 ELSE counter[e]
                      /\ expired'[e] = IF e = d THEN expired[e] + counter[e] ELSE expired[e]
  BY <1>1, <1>2 DEF Types
<1>4. Types'
  BY <1>1, <1>2 DEF Types
<1>5. RowsStay' /\ RowsAboveBase' /\ EarlierBelowBase' /\ \A e \in Days : SC!Added(e)' = SC!Added(e)
  BY <1>1, TableKept
<1>6. CountersCover'
  <2> SUFFICES ASSUME NEW e \in Days \ contended'
               PROVE  /\ counter'[e] >= 0
                      /\ \A w \in Workers : SC!Holds(w, e) => 0 <= value[w] /\ value[w] <= counter'[e]
                      /\ \A v, w \in Workers : SC!Holds(v, e) /\ SC!Holds(w, e) => v = w
    BY <1>1 DEF CountersCover, SC!Holds
  <2>1. e \in Days \ contended /\ (e = d => \A w \in Workers : ~SC!Holds(w, e))
    BY <1>1
  <2> QED
    BY <1>3, <2>1 DEF IInv, CountersCover
<1>7. EachEventCountedOnce'
  <2> SUFFICES ASSUME NEW e \in Days
               PROVE  SC!Added(e)' + counter'[e] - Pending(e)' + expired'[e] + lost'[e]
                        = found'[e] + recounted'[e]
    BY DEF EachEventCountedOnce
  <2>1. SC!Added(e)' = SC!Added(e) /\ Pending(e)' = Pending(e)
    BY <1>1, <1>5 DEF Pending
  <2>2. counter'[e] + expired'[e] = counter[e] + expired[e]
    BY <1>2, <1>3, TermTypes
  <2>3. counter'[e] \in Int /\ expired'[e] \in Int
    BY <1>4 DEF Types
  <2>4. /\ SC!Added(e)' + lost'[e] + counter'[e] + expired'[e]
             = SC!Added(e) + lost[e] + counter[e] + expired[e] + 0
        /\ Pending(e)' + found'[e] + recounted'[e] = Pending(e) + found[e] + recounted[e] + 0
    BY <1>1, <1>2, <2>1, <2>2, <2>3, TermTypes
  <2> QED
    BY <1>2, <1>4, <2>4, EquationKept DEF IInv
<1> QED
  BY <1>4, <1>5, <1>6, <1>7 DEF IInv

\* A task of the day before reads the table.
LEMMA QueryIInv ==
    ASSUME IInv, NEW w \in Workers, SC!Query(w), UNCHANGED table
    PROVE  IInv'
<1> DEFINE d == today - 1
<1>1. /\ d \in Days /\ pc[w] = "idle"
      /\ day' = [day EXCEPT ![w] = d]
      /\ row' = [row EXCEPT ![w] = stat[d]]
      /\ before' = [before EXCEPT ![w] = SC!Before(stat, d)]
      /\ pc' = [pc EXCEPT ![w] = "queried"]
      /\ UNCHANGED <<table, today, counter, touched, stat, value>>
      /\ UNCHANGED <<base, found, expired, recounted, lost, contended>>
  BY DEF SC!Query, SC!history
<1> HIDE DEF d
<1>2. Types /\ RowsStay /\ CountersCover /\ RowsAboveBase /\ EarlierBelowBase /\ EachEventCountedOnce
  BY DEF IInv
<1>3. /\ SC!Before(stat, d) \in Nat
      /\ \A e \in Days : Settled(e, d) /\ stat[e] # NoRow => stat[e] <= SC!Before(stat, d)
  BY <1>1, <1>2, BeforeFacts
<1>4. \A v \in Workers : /\ pc'[v] = IF v = w THEN "queried" ELSE pc[v]
                         /\ day'[v] = IF v = w THEN d ELSE day[v]
                         /\ row'[v] = IF v = w THEN stat[d] ELSE row[v]
                         /\ before'[v] = IF v = w THEN SC!Before(stat, d) ELSE before[v]
  BY <1>1, <1>2 DEF Types
<1>5. Types'
  <2>1. d \in 0..MaxDay /\ stat[d] \in Rows
    BY <1>1, <1>2, BoundsAssumption DEF Types, Days
  <2>2. /\ pc' \in [Workers -> Steps] /\ day' \in [Workers -> 0..MaxDay]
        /\ row' \in [Workers -> Rows] /\ before' \in [Workers -> Nat]
    BY <1>1, <1>2, <1>3, <2>1 DEF Types, Steps
  <2>3. \A v \in Workers : pc'[v] # "idle" => day'[v] \in Days
    BY <1>1, <1>2, <1>4 DEF Types
  <2> QED
    BY <1>1, <1>2, <2>2, <2>3 DEF Types
<1>6. RowsStay'
  BY <1>1, <1>2, <1>4 DEF RowsStay
<1>7. CountersCover'
  <2>1. \A v \in Workers, e \in Days : SC!Holds(v, e)' => SC!Holds(v, e)
    BY <1>4 DEF SC!Holds
  <2> QED
    BY <1>1, <1>2, <2>1 DEF CountersCover
<1>8. RowsAboveBase'
  BY <1>1, <1>2, <1>4 DEF RowsAboveBase
<1>9. EarlierBelowBase'
  <2>1. \A a, b : Settled(a, b)' <=> Settled(a, b)
    BY <1>1 DEF Settled
  <2> QED
    BY <1>1, <1>2, <1>3, <1>4, <2>1 DEF EarlierBelowBase
<1>10. EachEventCountedOnce'
  <2>1. \A e \in Days : SC!Added(e)' = SC!Added(e)
    BY <1>1 DEF SC!Added
  <2>2. ASSUME NEW e \in Days PROVE Pending(e)' = Pending(e)
    <3>1. Pending(e)' = Pending(e) + 0 - 0
      BY <1>1, <1>2, <1>4, <1>5, PendingChange
    <3> QED
      BY <1>2, <3>1, TermTypes
  <2> QED
    BY <1>1, <1>2, <2>1, <2>2 DEF EachEventCountedOnce
<1> QED
  BY <1>5, <1>6, <1>7, <1>8, <1>9, <1>10 DEF IInv

\* A task reads the counter, which another one may have read before.
LEMMA GetIInv ==
    ASSUME IInv, NEW w \in Workers, SC!Get(w), UNCHANGED table
    PROVE  IInv'
<1> DEFINE d == day[w]
<1>1. /\ pc[w] = "queried"
      /\ value' = [value EXCEPT ![w] = counter[d]]
      /\ contended' = contended \cup {e \in {d} : \E v \in Workers : SC!Holds(v, e)}
      /\ pc' = [pc EXCEPT ![w] = "read"]
      /\ UNCHANGED <<table, today, counter, touched, stat, day, row, before>>
      /\ UNCHANGED <<base, found, expired, recounted, lost>>
  BY DEF SC!Get
<1>2. Types /\ CountersCover /\ EachEventCountedOnce
  BY DEF IInv
<1>3. d \in Days
  BY <1>1, <1>2 DEF Types
<1> HIDE DEF d
<1>4. \A v \in Workers : /\ pc'[v] = IF v = w THEN "read" ELSE pc[v]
                         /\ value'[v] = IF v = w THEN counter[d] ELSE value[v]
  BY <1>1, <1>2 DEF Types
<1>5. Types'
  <2>1. counter[d] \in Int
    BY <1>2, <1>3 DEF Types
  <2>2. pc' \in [Workers -> Steps] /\ value' \in [Workers -> Int] /\ contended' \subseteq Days
    BY <1>1, <1>2, <1>3, <2>1 DEF Types, Steps
  <2>3. \A v \in Workers : pc'[v] # "idle" => day'[v] \in Days
    BY <1>1, <1>2, <1>4 DEF Types
  <2> QED
    BY <1>1, <1>2, <2>2, <2>3 DEF Types
<1>6. RowsStay' /\ RowsAboveBase' /\ EarlierBelowBase' /\ \A e \in Days : SC!Added(e)' = SC!Added(e)
  <2>1. \A v \in Workers : pc'[v] # "idle" => pc[v] # "idle"
    BY <1>1, <1>4
  <2> QED
    BY <1>1, <2>1, TableKept
<1>7. CountersCover'
  <2> SUFFICES ASSUME NEW e \in Days \ contended'
               PROVE  /\ counter'[e] >= 0
                      /\ \A v \in Workers : SC!Holds(v, e)' => 0 <= value'[v] /\ value'[v] <= counter'[e]
                      /\ \A u, v \in Workers : SC!Holds(u, e)' /\ SC!Holds(v, e)' => u = v
    BY DEF CountersCover
  <2>1. e \in Days \ contended /\ (e = d => \A v \in Workers : ~SC!Holds(v, e))
    BY <1>1
  <2>2. \A v \in Workers : SC!Holds(v, e)' <=> (IF v = w THEN e = d ELSE SC!Holds(v, e))
    BY <1>1, <1>4 DEF SC!Holds, d
  <2>3. counter'[e] >= 0 /\ counter[e] \in Int
    BY <1>1, <1>2, <2>1 DEF CountersCover, Types
  <2>4. \A v \in Workers : SC!Holds(v, e) => 0 <= value[v] /\ value[v] <= counter[e]
    BY <1>2, <2>1 DEF CountersCover
  <2>5. \A u, v \in Workers : SC!Holds(u, e) /\ SC!Holds(v, e) => u = v
    BY <1>2, <2>1 DEF CountersCover
  <2>6. ASSUME NEW v \in Workers, SC!Holds(v, e)'
        PROVE  0 <= value'[v] /\ value'[v] <= counter'[e]
    <3>1. CASE v = w
      BY <1>1, <1>4, <2>2, <2>3, <2>6, <3>1
    <3>2. CASE v # w
      BY <1>1, <1>4, <2>2, <2>4, <2>6, <3>2
    <3> QED
      BY <3>1, <3>2
  <2>7. \A u, v \in Workers : SC!Holds(u, e)' /\ SC!Holds(v, e)' => u = v
    BY <2>1, <2>2, <2>5
  <2> QED
    BY <2>3, <2>6, <2>7
<1>8. EachEventCountedOnce'
  <2>1. ASSUME NEW e \in Days PROVE Pending(e)' = Pending(e)
    <3>1. Pending(e)' = Pending(e) + 0 - 0
      BY <1>1, <1>2, <1>4, <1>5, PendingChange
    <3> QED
      BY <1>2, <3>1, TermTypes
  <2> QED
    BY <1>1, <1>2, <1>6, <2>1 DEF EachEventCountedOnce
<1> QED
  BY <1>5, <1>6, <1>7, <1>8 DEF IInv

\* What a commit adds to a row, or overwrites in it, is what its task read of
\* the counter.
LEMMA CommittedAmount ==
    ASSUME IInv, NEW w \in Workers, SC!Commit(w), NEW d \in Days, d = day[w]
    PROVE  /\ SC!Written(w) \in Nat
           /\ SC!Added(d)' + lost'[d] = SC!Added(d) + lost[d] + value[w]
<1> DEFINE n == value[w]
           W == SC!Written(w)
           O == SC!Overwritten(w)
           first == stat[d] = NoRow
<1>1. /\ pc[w] = "read" /\ W >= 0
      /\ stat' = [stat EXCEPT ![d] = W]
      /\ base' = [base EXCEPT ![d] = IF first THEN before[w] ELSE @]
      /\ lost' = [lost EXCEPT ![d] = @ + O]
  BY DEF SC!Commit, NoRow
<1>2. Types
  BY DEF IInv
<1>3. /\ stat[d] \in Rows /\ row[w] \in Rows /\ before[w] \in Nat /\ n \in Int
      /\ base[d] \in Nat /\ lost[d] \in Int
  BY <1>2 DEF Types
<1>4. /\ stat'[d] = W /\ lost'[d] = lost[d] + O
      /\ base'[d] = IF first THEN before[w] ELSE base[d]
  BY <1>1, <1>2 DEF Types
<1>5. /\ W = IF row[w] # NoRow THEN IF n = 0 THEN stat[d] ELSE row[w] + n
             ELSE IF first THEN before[w] + n ELSE stat[d] + n
      /\ O = IF row[w] # NoRow /\ n # 0 THEN stat[d] - row[w] ELSE 0
  BY DEF SC!Written, SC!Overwritten, NoRow
<1>6. row[w] # NoRow => ~first
  BY <1>1 DEF IInv, RowsStay
<1>7. /\ SC!Added(d)' = IF stat'[d] = NoRow THEN 0 ELSE stat'[d] - base'[d]
      /\ SC!Added(d) = IF first THEN 0 ELSE stat[d] - base[d]
  BY DEF SC!Added, NoRow
<1>8. NoRow = -1 /\ Rows = Nat \cup {-1}
  BY DEF NoRow, SC!NoRow, Rows
<1> HIDE DEF W, O, n, first
<1>9. W \in Nat
  BY <1>1, <1>3, <1>5, <1>6, <1>8
<1>10. SC!Added(d)' = W - base'[d]
  BY <1>4, <1>7, <1>8, <1>9
<1>11. SC!Added(d)' + lost'[d] = SC!Added(d) + lost[d] + n
  <2>1. CASE first
    BY <1>3, <1>4, <1>5, <1>6, <1>7, <1>9, <1>10, <2>1
  <2>2. CASE ~first
    BY <1>3, <1>4, <1>5, <1>7, <1>8, <1>9, <1>10, <2>2 DEF first
  <2> QED
    BY <2>1, <2>2
<1> QED
  BY <1>9, <1>11 DEF W, n

\* A commit on a day that is not contended leaves a row that is not below the
\* one that was read, nor below its start.
LEMMA CommittedAbove ==
    ASSUME IInv, NEW w \in Workers, SC!Commit(w), day[w] \notin contended
    PROVE  base'[day[w]] <= SC!Written(w)
<1> DEFINE d == day[w]
           n == value[w]
           W == SC!Written(w)
           first == stat[d] = NoRow
<1>1. /\ pc[w] = "read"
      /\ base' = [base EXCEPT ![d] = IF first THEN before[w] ELSE @]
  BY DEF SC!Commit, NoRow
<1>2. Types /\ d \in Days
  BY <1>1 DEF IInv, Types
<1>3. /\ stat[d] \in Rows /\ row[w] \in Rows /\ before[w] \in Nat /\ n \in Int /\ base[d] \in Nat
  BY <1>2 DEF Types
<1>4. base'[d] = IF first THEN before[w] ELSE base[d]
  BY <1>1, <1>2 DEF Types
<1>5. W = IF row[w] # NoRow THEN IF n = 0 THEN stat[d] ELSE row[w] + n
          ELSE IF first THEN before[w] + n ELSE stat[d] + n
  BY DEF SC!Written, NoRow
<1>6. row[w] # NoRow => ~first
  BY <1>1 DEF IInv, RowsStay
<1>7. 0 <= n
  BY <1>1, <1>2 DEF IInv, CountersCover, SC!Holds
<1>8. /\ ~first => base[d] <= stat[d]
      /\ row[w] # NoRow => base[d] <= row[w]
  BY <1>1, <1>2 DEF IInv, RowsAboveBase
<1>9. NoRow = -1 /\ Rows = Nat \cup {-1}
  BY DEF NoRow, SC!NoRow, Rows
<1> HIDE DEF W, d, n
<1> QED
  <2>1. base'[d] <= W
    BY <1>3, <1>4, <1>5, <1>6, <1>7, <1>8, <1>9
  <2> QED
    BY <2>1 DEF W, d

\* A task writes its row.
LEMMA CommitIInv ==
    ASSUME IInv, NEW w \in Workers, SC!Commit(w), UNCHANGED table
    PROVE  IInv'
<1>0. PICK d \in Days : d = day[w]
  BY DEF SC!Commit, IInv, Types
<1> DEFINE W == SC!Written(w)
<1>1. /\ pc[w] = "read"
      /\ stat' = [stat EXCEPT ![d] = W]
      /\ base' = [base EXCEPT ![d] = IF stat[d] = NoRow THEN before[w] ELSE @]
      /\ lost' = [lost EXCEPT ![d] = @ + SC!Overwritten(w)]
      /\ contended' = contended \cup {e \in {d} : SC!Late(w)}
      /\ pc' = [pc EXCEPT ![w] = "committed"]
      /\ UNCHANGED <<table, today, counter, touched, day, row, before, value>>
      /\ UNCHANGED <<found, expired, recounted>>
  BY <1>0 DEF SC!Commit, NoRow
<1>2. Types /\ RowsStay /\ CountersCover /\ RowsAboveBase /\ EarlierBelowBase /\ EachEventCountedOnce
  BY DEF IInv
<1>4. /\ W \in Nat
      /\ SC!Added(d)' + lost'[d] = SC!Added(d) + lost[d] + value[w]
  BY <1>0, CommittedAmount
<1>5. d \notin contended => base'[d] <= W
  BY <1>0, CommittedAbove
<1>6. /\ d \notin contended' => /\ \A e \in Days : e > d => stat[e] = NoRow
                                /\ \A v \in Workers : pc[v] # "idle" => ~ (day[v] > d)
      /\ contended \subseteq contended'
  BY <1>0, <1>1 DEF SC!Late, NoRow
<1>7. stat[d] \in Rows /\ row[w] \in Rows /\ before[w] \in Nat /\ value[w] \in Int
  BY <1>2 DEF Types
<1>8. SC!Overwritten(w) \in Int
  BY <1>0, <1>7 DEF SC!Overwritten, Rows, NoRow, SC!NoRow
<1>9. row[w] # NoRow => stat[d] # NoRow
  BY <1>0, <1>1, <1>2 DEF RowsStay
<1> HIDE DEF W
<1>10. /\ \A v \in Workers : pc'[v] = IF v = w THEN "committed" ELSE pc[v]
       /\ \A e \in Days : /\ stat'[e] = IF e = d THEN W ELSE stat[e]
                          /\ base'[e] = IF e = d /\ stat[d] = NoRow THEN before[w] ELSE base[e]
                          /\ e # d => lost'[e] = lost[e]
  BY <1>1, <1>2 DEF Types
<1>11. NoRow \notin Nat
  BY DEF NoRow, SC!NoRow
<1>12. Types'
  <2>1. /\ stat' \in [Days -> Rows] /\ base' \in [Days -> Nat] /\ lost' \in [Days -> Int]
        /\ contended' \subseteq Days /\ pc' \in [Workers -> Steps]
    BY <1>1, <1>2, <1>4, <1>7, <1>8 DEF Types, Rows, Steps
  <2>2. \A v \in Workers : pc'[v] # "idle" => day'[v] \in Days
    BY <1>1, <1>2, <1>10 DEF Types
  <2> QED
    BY <1>1, <1>2, <2>1, <2>2 DEF Types
<1>13. RowsStay'
  <2> SUFFICES ASSUME NEW v \in Workers, pc'[v] # "idle", row'[v] # NoRow
               PROVE  stat'[day'[v]] # NoRow
    BY DEF RowsStay
  <2>1. pc[v] # "idle" /\ stat[day[v]] # NoRow /\ day[v] \in Days
    BY <1>1, <1>2, <1>10 DEF RowsStay, Types
  <2> QED
    BY <1>1, <1>4, <1>10, <1>11, <2>1
<1>14. CountersCover'
  <2>1. \A v \in Workers, e \in Days : SC!Holds(v, e)' <=> SC!Holds(v, e)
    BY <1>1, <1>10 DEF SC!Holds
  <2> QED
    BY <1>1, <1>2, <1>6, <2>1 DEF CountersCover
<1>15. RowsAboveBase'
  <2> SUFFICES ASSUME NEW e \in Days \ contended'
               PROVE  /\ stat'[e] # NoRow => base'[e] <= stat'[e]
                      /\ \A v \in Workers : pc'[v] # "idle" /\ day[v] = e /\ row[v] # NoRow => base'[e] <= row[v]
    BY <1>1 DEF RowsAboveBase
  <2>1. e \in Days \ contended
    BY <1>6
  <2>2. stat'[e] # NoRow => base'[e] <= stat'[e]
    BY <1>2, <1>5, <1>10, <2>1 DEF RowsAboveBase
  <2>3. ASSUME NEW v \in Workers, pc'[v] # "idle", day[v] = e, row[v] # NoRow
        PROVE  base'[e] <= row[v]
    <3>1. pc[v] # "idle"
      BY <1>1, <1>10, <2>3
    <3>2. stat[e] # NoRow
      BY <1>2, <2>3, <3>1 DEF RowsStay
    <3> QED
      BY <1>2, <1>10, <2>1, <2>3, <3>1, <3>2 DEF RowsAboveBase
  <2> QED
    BY <2>2, <2>3
<1>16. EarlierBelowBase'
  <2> SUFFICES ASSUME NEW a \in Days, NEW b \in Days, Settled(a, b)', stat'[a] # NoRow
               PROVE  /\ stat'[b] # NoRow => stat'[a] <= base'[b]
                      /\ \A v \in Workers : pc'[v] # "idle" /\ day[v] = b => stat'[a] <= before[v]
    BY <1>1 DEF EarlierBelowBase
  <2>1. Settled(a, b) /\ a \notin contended' /\ a < b /\ a # b
    <3>1. a \in Nat /\ b \in Nat /\ a < b /\ (a .. b) \cap contended' = {}
      BY Calendar DEF Settled
    <3>2. a \in a .. b
      BY <3>1
    <3> QED
      BY <1>6, <3>1, <3>2 DEF Settled
  <2>2. \A v \in Workers : pc'[v] # "idle" => pc[v] # "idle"
    BY <1>1, <1>10
  <2>3. CASE a = d
    <3>1. b > d /\ b # d
      BY <2>1, <2>3, Calendar
    <3>2. stat'[b] = NoRow
      BY <1>6, <1>10, <2>1, <2>3, <3>1
    <3> QED
      BY <1>6, <2>1, <2>2, <2>3, <3>1, <3>2
  <2>4. CASE a # d
    <3>1. stat'[a] = stat[a] /\ stat[a] # NoRow
      BY <1>10, <2>4
    <3>2. \A v \in Workers : pc[v] # "idle" /\ day[v] = b => stat[a] <= before[v]
      BY <1>2, <2>1, <3>1 DEF EarlierBelowBase
    <3>3. stat[b] # NoRow => stat[a] <= base[b]
      BY <1>2, <2>1, <3>1 DEF EarlierBelowBase
    <3>4. b = d => stat[a] <= before[w]
      BY <1>0, <1>1, <3>2
    <3> QED
      BY <1>10, <2>2, <3>1, <3>2, <3>3, <3>4
  <2> QED
    BY <2>3, <2>4
<1>17. EachEventCountedOnce'
  <2> SUFFICES ASSUME NEW e \in Days
               PROVE  SC!Added(e)' + counter'[e] - Pending(e)' + expired'[e] + lost'[e]
                        = found'[e] + recounted'[e]
    BY DEF EachEventCountedOnce
  <2> DEFINE n == IF e = d THEN value[w] ELSE 0
  <2>1. SC!Added(e)' + lost'[e] = SC!Added(e) + lost[e] + n
    <3>1. CASE e = d
      BY <1>4, <3>1
    <3>2. CASE e # d
      <4>1. SC!Added(e)' = SC!Added(e) /\ lost'[e] = lost[e]
        BY <1>10, <3>2 DEF SC!Added
      <4> QED
        BY <1>2, <3>2, <4>1, TermTypes
    <3> QED
      BY <3>1, <3>2
  <2>2. Pending(e)' = Pending(e) + n
    <3>1. Pending(e)' = Pending(e)
             + (IF pc'[w] = "committed" /\ day'[w] = e THEN value'[w] ELSE 0)
             - (IF pc[w] = "committed" /\ day[w] = e THEN value[w] ELSE 0)
      BY <1>1, <1>2, <1>10, <1>12, PendingChange
    <3>2. /\ (IF pc'[w] = "committed" /\ day'[w] = e THEN value'[w] ELSE 0) = n
          /\ (IF pc[w] = "committed" /\ day[w] = e THEN value[w] ELSE 0) = 0
      BY <1>0, <1>1, <1>10
    <3> QED
      BY <1>2, <1>7, <3>1, <3>2, TermTypes
  <2>3. n \in Int /\ lost'[e] \in Int /\ SC!Added(e)' \in Int
    <3>1. lost'[e] \in Int /\ stat'[e] \in Rows /\ base'[e] \in Nat
      BY <1>12 DEF Types
    <3> QED
      BY <1>7, <3>1 DEF SC!Added, Rows, SC!NoRow
  <2> HIDE DEF n
  <2>4. /\ SC!Added(e)' + lost'[e] + counter'[e] + expired'[e]
             = SC!Added(e) + lost[e] + counter[e] + expired[e] + n
        /\ Pending(e)' + found'[e] + recounted'[e] = Pending(e) + found[e] + recounted[e] + n
    BY <1>1, <1>2, <2>1, <2>2, <2>3, TermTypes
  <2> QED
    BY <1>2, <1>12, <2>3, <2>4, EquationKept
<1> QED
  BY <1>12, <1>13, <1>14, <1>15, <1>16, <1>17 DEF IInv

\* A task that ends has no part in anything any more.
LEMMA TaskEnds ==
    ASSUME Types, NEW w \in Workers, SC!EndTask(w)
    PROVE  /\ pc' \in [Workers -> Steps] /\ day' \in [Workers -> 0..MaxDay]
           /\ row' \in [Workers -> Rows] /\ before' \in [Workers -> Nat]
           /\ value' \in [Workers -> Int]
           /\ pc'[w] = "idle"
           /\ \A v \in Workers \ {w} :
                /\ pc'[v] = pc[v] /\ day'[v] = day[v] /\ row'[v] = row[v]
                /\ before'[v] = before[v] /\ value'[v] = value[v]
           /\ \A v \in Workers : pc'[v] # "idle" => v # w
<1>1. 0 \in 0..MaxDay /\ NoRow \in Rows /\ "idle" \in Steps
  BY BoundsAssumption DEF Rows, NoRow, Steps
<1>2. /\ pc' = [pc EXCEPT ![w] = "idle"] /\ day' = [day EXCEPT ![w] = 0]
      /\ row' = [row EXCEPT ![w] = NoRow] /\ before' = [before EXCEPT ![w] = 0]
      /\ value' = [value EXCEPT ![w] = 0]
  BY DEF SC!EndTask, NoRow
<1>3. /\ pc' \in [Workers -> Steps] /\ day' \in [Workers -> 0..MaxDay]
      /\ row' \in [Workers -> Rows] /\ before' \in [Workers -> Nat]
      /\ value' \in [Workers -> Int]
  BY <1>1, <1>2 DEF Types
<1>4. pc'[w] = "idle"
  BY <1>2 DEF Types
<1>5. \A v \in Workers \ {w} :
        /\ pc'[v] = pc[v] /\ day'[v] = day[v] /\ row'[v] = row[v]
        /\ before'[v] = before[v] /\ value'[v] = value[v]
  BY <1>2 DEF Types
<1> QED
  BY <1>3, <1>4, <1>5

\* A task takes what it has read off the counter.
LEMMA ExecutePipeIInv ==
    ASSUME IInv, NEW w \in Workers, SC!ExecutePipe(w), UNCHANGED table
    PROVE  IInv'
<1>0. PICK d \in Days : d = day[w]
  BY DEF SC!ExecutePipe, IInv, Types
<1>1. /\ pc[w] = "committed" /\ SC!EndTask(w)
      /\ counter' = [counter EXCEPT ![d] = @ - value[w]]
      /\ touched' = [touched EXCEPT ![d] = today]
      /\ UNCHANGED <<table, today, stat>>
      /\ UNCHANGED <<base, found, expired, recounted, lost, contended>>
  BY <1>0 DEF SC!ExecutePipe, SC!history
<1>2. Types /\ CountersCover /\ EachEventCountedOnce
  BY DEF IInv
<1>3. /\ pc' \in [Workers -> Steps] /\ day' \in [Workers -> 0..MaxDay]
      /\ row' \in [Workers -> Rows] /\ before' \in [Workers -> Nat]
      /\ value' \in [Workers -> Int]
      /\ pc'[w] = "idle"
      /\ \A v \in Workers \ {w} :
           /\ pc'[v] = pc[v] /\ day'[v] = day[v] /\ row'[v] = row[v]
           /\ before'[v] = before[v] /\ value'[v] = value[v]
      /\ \A v \in Workers : pc'[v] # "idle" => v # w
  BY <1>1, <1>2, TaskEnds
<1>4. /\ \A e \in Days : counter'[e] = IF e = d THEN counter[e] - value[w] ELSE counter[e]
      /\ value[w] \in Int /\ \A e \in Days : counter[e] \in Int
  BY <1>1, <1>2 DEF Types
<1>5. Types'
  <2>1. counter' \in [Days -> Int]
    BY <1>1, <1>2, <1>4 DEF Types
  <2>2. touched' \in [Days -> 0..MaxDay]
    <3>1. today \in Days /\ touched \in [Days -> 0..MaxDay]
      BY <1>2 DEF Types
    <3>2. today \in 0..MaxDay
      BY <3>1, BoundsAssumption DEF Days
    <3> QED
      BY <1>1, <3>1, <3>2
  <2>3. \A v \in Workers : pc'[v] # "idle" => day'[v] \in Days
    BY <1>2, <1>3 DEF Types
  <2> QED
    BY <1>1, <1>2, <1>3, <2>1, <2>2, <2>3 DEF Types
<1>6. RowsStay' /\ RowsAboveBase' /\ EarlierBelowBase' /\ \A e \in Days : SC!Added(e)' = SC!Added(e)
  BY <1>1, <1>3, TableKept
<1>7. CountersCover'
  <2> SUFFICES ASSUME NEW e \in Days \ contended
               PROVE  /\ counter'[e] >= 0
                      /\ \A v \in Workers : SC!Holds(v, e)' => 0 <= value'[v] /\ value'[v] <= counter'[e]
                      /\ \A u, v \in Workers : SC!Holds(u, e)' /\ SC!Holds(v, e)' => u = v
    BY <1>1 DEF CountersCover
  <2>1. \A v \in Workers : SC!Holds(v, e)' => v # w /\ SC!Holds(v, e) /\ value'[v] = value[v]
    BY <1>3 DEF SC!Holds
  <2>2. SC!Holds(w, d)
    BY <1>0, <1>1 DEF SC!Holds
  <2>3. /\ counter[e] >= 0
        /\ \A v \in Workers : SC!Holds(v, e) => 0 <= value[v] /\ value[v] <= counter[e]
        /\ \A u, v \in Workers : SC!Holds(u, e) /\ SC!Holds(v, e) => u = v
    BY <1>2 DEF CountersCover
  <2>4. CASE e = d
    <3>1. \A v \in Workers : ~ (SC!Holds(v, e)')
      BY <2>1, <2>2, <2>3, <2>4
    <3>2. counter'[e] >= 0
      BY <1>4, <2>2, <2>3, <2>4
    <3> QED
      BY <3>1, <3>2
  <2>5. CASE e # d
    BY <1>4, <2>1, <2>3, <2>5
  <2> QED
    BY <2>4, <2>5
<1>8. EachEventCountedOnce'
  <2> SUFFICES ASSUME NEW e \in Days
               PROVE  SC!Added(e)' + counter'[e] - Pending(e)' + expired'[e] + lost'[e]
                        = found'[e] + recounted'[e]
    BY DEF EachEventCountedOnce
  <2> DEFINE n == IF e = d THEN -value[w] ELSE 0
  <2>1. SC!Added(e)' = SC!Added(e) /\ counter'[e] = counter[e] + n
    BY <1>4, <1>6
  <2>2. Pending(e)' = Pending(e) + n
    <3>1. Pending(e)' = Pending(e)
             + (IF pc'[w] = "committed" /\ day'[w] = e THEN value'[w] ELSE 0)
             - (IF pc[w] = "committed" /\ day[w] = e THEN value[w] ELSE 0)
      BY <1>2, <1>3, <1>5, PendingChange
    <3>2. /\ (IF pc'[w] = "committed" /\ day'[w] = e THEN value'[w] ELSE 0) = 0
          /\ (IF pc[w] = "committed" /\ day[w] = e THEN value[w] ELSE 0) = -n
      BY <1>0, <1>1, <1>3, <1>4
    <3>3. n \in Int
      BY <1>4
    <3> HIDE DEF n
    <3> QED
      BY <1>2, <3>1, <3>2, <3>3, TermTypes
  <2>3. n \in Int
    BY <1>4
  <2> HIDE DEF n
  <2>4. /\ SC!Added(e)' + lost'[e] + counter'[e] + expired'[e]
             = SC!Added(e) + lost[e] + counter[e] + expired[e] + n
        /\ Pending(e)' + found'[e] + recounted'[e] = Pending(e) + found[e] + recounted[e] + n
    BY <1>1, <1>2, <2>1, <2>2, <2>3, TermTypes
  <2> QED
    BY <1>2, <1>5, <2>3, <2>4, EquationKept
<1> QED
  BY <1>5, <1>6, <1>7, <1>8 DEF IInv

\* A task fails; after its commit, the counter keeps what is in the row.
LEMMA FailIInv ==
    ASSUME IInv, NEW w \in Workers, SC!Fail(w), UNCHANGED table
    PROVE  IInv'
<1>0. PICK d \in Days : d = day[w]
  BY DEF SC!Fail, IInv, Types
<1>1. /\ pc[w] # "idle" /\ SC!EndTask(w)
      /\ recounted' = [e \in Days |-> IF pc[w] = "committed" /\ e = d
                                      THEN recounted[e] + value[w] ELSE recounted[e]]
      /\ UNCHANGED <<table, today, counter, touched, stat>>
      /\ UNCHANGED <<base, found, expired, lost, contended>>
  BY <1>0 DEF SC!Fail
<1>2. Types /\ CountersCover /\ EachEventCountedOnce
  BY DEF IInv
<1>3. /\ pc' \in [Workers -> Steps] /\ day' \in [Workers -> 0..MaxDay]
      /\ row' \in [Workers -> Rows] /\ before' \in [Workers -> Nat]
      /\ value' \in [Workers -> Int]
      /\ pc'[w] = "idle"
      /\ \A v \in Workers \ {w} :
           /\ pc'[v] = pc[v] /\ day'[v] = day[v] /\ row'[v] = row[v]
           /\ before'[v] = before[v] /\ value'[v] = value[v]
      /\ \A v \in Workers : pc'[v] # "idle" => v # w
  BY <1>1, <1>2, TaskEnds
<1>4. /\ value[w] \in Int /\ \A e \in Days : recounted[e] \in Int
  BY <1>2 DEF Types
<1>5. Types'
  <2>1. recounted' \in [Days -> Int]
    BY <1>1, <1>4
  <2>2. \A v \in Workers : pc'[v] # "idle" => day'[v] \in Days
    BY <1>2, <1>3 DEF Types
  <2> QED
    BY <1>1, <1>2, <1>3, <2>1, <2>2 DEF Types
<1>6. RowsStay' /\ RowsAboveBase' /\ EarlierBelowBase' /\ \A e \in Days : SC!Added(e)' = SC!Added(e)
  BY <1>1, <1>3, TableKept
<1>7. CountersCover'
  <2>1. \A v \in Workers, e \in Days : SC!Holds(v, e)' => SC!Holds(v, e) /\ value'[v] = value[v]
    BY <1>3 DEF SC!Holds
  <2> QED
    BY <1>1, <1>2, <2>1 DEF CountersCover
<1>8. EachEventCountedOnce'
  <2> SUFFICES ASSUME NEW e \in Days
               PROVE  SC!Added(e)' + counter'[e] - Pending(e)' + expired'[e] + lost'[e]
                        = found'[e] + recounted'[e]
    BY DEF EachEventCountedOnce
  <2> DEFINE n == IF pc[w] = "committed" /\ e = d THEN value[w] ELSE 0
  <2>1. recounted'[e] = recounted[e] + n /\ n \in Int
    BY <1>1, <1>4
  <2>2. Pending(e)' = Pending(e) - n
    <3>1. Pending(e)' = Pending(e)
             + (IF pc'[w] = "committed" /\ day'[w] = e THEN value'[w] ELSE 0)
             - (IF pc[w] = "committed" /\ day[w] = e THEN value[w] ELSE 0)
      BY <1>2, <1>3, <1>5, PendingChange
    <3>2. /\ (IF pc'[w] = "committed" /\ day'[w] = e THEN value'[w] ELSE 0) = 0
          /\ (IF pc[w] = "committed" /\ day[w] = e THEN value[w] ELSE 0) = n
      BY <1>0, <1>3
    <3> HIDE DEF n
    <3> QED
      BY <1>2, <2>1, <3>1, <3>2, TermTypes
  <2> HIDE DEF n
  <2>3. /\ SC!Added(e)' + lost'[e] + counter'[e] + expired'[e]
             = SC!Added(e) + lost[e] + counter[e] + expired[e] + 0
        /\ Pending(e)' + found'[e] + recounted'[e] = Pending(e) + found[e] + recounted[e] + 0
    BY <1>1, <1>2, <1>6, <2>1, <2>2, TermTypes
  <2> QED
    BY <1>2, <1>5, <2>3, EquationKept
<1> QED
  BY <1>5, <1>6, <1>7, <1>8 DEF IInv

\* Steps of the other table leave the counters and totals alone.
LEMMA OtherIInv ==
    ASSUME IInv, UNCHANGED <<table, today, statVars>>
    PROVE  IInv'
<1>1. /\ UNCHANGED <<table, today, counter, touched, stat, pc, day, row, before, value>>
      /\ UNCHANGED <<base, found, expired, recounted, lost, contended>>
  BY DEF statVars
<1>2. Types'
  BY <1>1 DEF IInv, Types
<1>3. RowsStay' /\ RowsAboveBase' /\ EarlierBelowBase' /\ \A d \in Days : SC!Added(d)' = SC!Added(d)
  BY <1>1, TableKept
<1>4. CountersCover'
  BY <1>1 DEF IInv, CountersCover, SC!Holds
<1>5. EachEventCountedOnce'
  BY <1>1, <1>3 DEF IInv, EachEventCountedOnce, Pending
<1> QED
  BY <1>2, <1>3, <1>4, <1>5 DEF IInv

\* No step breaks the invariant.
LEMMA StepIInv == IInv /\ [Next]_vars => IInv'
<1> SUFFICES ASSUME IInv, [Next]_vars PROVE IInv'
  OBVIOUS
<1>1. ASSUME NEW d \in Days, SC!Count(d) \/ SC!Expire(d), UNCHANGED table PROVE IInv'
  BY <1>1, CountIInv, ExpireIInv
<1>2. ASSUME NEW w \in Workers, UNCHANGED table,
             SC!Query(w) \/ SC!Get(w) \/ SC!Commit(w) \/ SC!ExecutePipe(w) \/ SC!Fail(w)
      PROVE  IInv'
  BY <1>2, QueryIInv, GetIInv, CommitIInv, ExecutePipeIInv, FailIInv
<1>3. ASSUME SC!Next, UNCHANGED table PROVE IInv'
  BY <1>1, <1>2, <1>3 DEF SC!Next
<1>4. ASSUME DM!Next, UNCHANGED <<table, statVars>> PROVE IInv'
  <2>1. today' = today
    BY <1>4 DEF DM!Next, DM!Dequeue, DM!Query, DM!Commit, DM!Fail
  <2> QED
    BY <1>4, <2>1, OtherIInv
<1>5. ASSUME NEW g \in Grids, QueueGrid(g) PROVE IInv'
  BY <1>5, OtherIInv DEF QueueGrid
<1>6. CASE UNCHANGED vars
  BY <1>6, OtherIInv DEF vars
<1> QED
  BY <1>3, <1>4, <1>5, <1>6, NextDayIInv DEF Next

\* Overlapping statistics tasks (data/stats.py:28-57), their failures and
\* repeats keep rows, counters and what tasks have read consistent.
THEOREM CountersConsistent == Spec => []IInv
<1> QED
  BY InitIInv, StepIInv, PTL DEF Spec

\* Row and counter of a day hold together what was counted on it: commit and
\* pipeline of StatCounterUpdater (data/stats.py) move what they read, also
\* when several tasks move the same counter.
THEOREM EventsConserved == Spec => []EachEventCountedOnce
<1> QED
  BY CountersConsistent, PTL DEF IInv

\* The rows of StatCounterUpdater are running totals that do not fall from day
\* to day, though tasks are late, repeated or overlap, up to days that their
\* tasks have contended for.
THEOREM TotalsMonotonic == Spec => []TotalsGrow
<1>1. IInv => TotalsGrow
  BY GrowingTotals DEF IInv, TotalsGrow, Settled, NoRow
<1> QED
  BY <1>1, CountersConsistent, PTL

-----------------------------------------------------------------------------
(* The dates of grids.                                                     *)

NoGridRow == DM!NoRow

MapTypes ==
    /\ grids \subseteq Grids
    /\ map \in [Grids -> Dates]
    /\ mapped \subseteq [grid : Grids, date : Days] /\ overtaken \subseteq Grids
    /\ gpc \in [Workers -> {"idle", "dequeued", "queried"}]
    /\ gbatch \in [Workers -> SUBSET Grids]
    /\ gday \in [Workers -> Days]
    /\ gsnap \in [Workers -> [Grids -> Dates]]

\* A row that is there has a date, also as a task has read it.
RowsDated ==
    \A g \in Grids :
        /\ map[g] = NoGridRow \/ map[g].modified # 0
        /\ \A w \in Workers : gsnap[w][g] = NoGridRow \/ gsnap[w][g].modified # 0

\* A task of this date has had the grid in a batch that it committed.
Mapped(g, d) == [grid |-> g, date |-> d] \in mapped

\* The row of a grid holds the first and the last of those dates.
Exact(g) ==
    IF map[g] = NoGridRow THEN \A d \in Days : ~Mapped(g, d)
    ELSE /\ Mapped(g, map[g].created) /\ Mapped(g, map[g].modified)
         /\ \A d \in Days : Mapped(g, d) => map[g].created <= d /\ d <= map[g].modified

MapInv == MapTypes /\ RowsDated /\ \A g \in Grids : g \notin overtaken => Exact(g)

\* No row, no task.
LEMMA InitMapInv == Init => MapInv
<1> SUFFICES ASSUME Init PROVE MapInv
  OBVIOUS
<1>1. 1 \in Days /\ 0 \in 0..MaxDay
  BY BoundsAssumption DEF Days
<1>2. NoGridRow \in Dates
  BY <1>1 DEF NoGridRow, DM!NoRow, Dates
<1>3. /\ grids = {} /\ map = [g \in Grids |-> NoGridRow] /\ mapped = {} /\ overtaken = {}
      /\ gpc = [w \in Workers |-> "idle"] /\ gbatch = [w \in Workers |-> {}]
      /\ gday = [w \in Workers |-> 1]
      /\ gsnap = [w \in Workers |-> [g \in Grids |-> NoGridRow]]
  BY DEF Init, DM!Init, DM!NoSnap, NoGridRow
<1>4. MapTypes
  BY <1>1, <1>2, <1>3 DEF MapTypes
<1>5. RowsDated /\ \A g \in Grids : Exact(g)
  BY <1>3 DEF RowsDated, Exact, Mapped
<1> QED
  BY <1>4, <1>5 DEF MapInv

\* The rows and what was mapped stay: so do exact dates.
LEMMA DatesKept ==
    ASSUME MapInv, UNCHANGED <<map, mapped, overtaken>>
    PROVE  \A g \in Grids : g \notin overtaken' => Exact(g)'
  BY DEF MapInv, Exact, Mapped

\* A task starts with the grids of the queue and the date of today.
LEMMA MapDequeueInv ==
    ASSUME MapInv, today \in Days, NEW w \in Workers, DM!Dequeue(w)
    PROVE  MapInv'
<1> USE DEF DM!Dequeue
<1>1. MapTypes'
  BY DEF MapInv, MapTypes
<1>2. RowsDated'
  BY DEF MapInv, RowsDated
<1> QED
  BY <1>1, <1>2, DatesKept DEF MapInv

\* A task reads the rows of its batch.
LEMMA MapQueryInv ==
    ASSUME MapInv, NEW w \in Workers, DM!Query(w)
    PROVE  MapInv'
<1> USE DEF DM!Query
<1> DEFINE read == [g \in Grids |-> IF g \in gbatch[w] THEN map[g] ELSE NoGridRow]
<1>1. NoGridRow \in Dates
  BY BoundsAssumption DEF NoGridRow, DM!NoRow, Dates
<1>2. read \in [Grids -> Dates]
  BY <1>1 DEF MapInv, MapTypes
<1>3. gsnap' = [gsnap EXCEPT ![w] = read]
  BY DEF NoGridRow
<1>4. \A g \in Grids : read[g] = NoGridRow \/ read[g].modified # 0
  BY DEF MapInv, RowsDated
<1> HIDE DEF read
<1>5. MapTypes'
  BY <1>2, <1>3 DEF MapInv, MapTypes
<1>6. \A v \in Workers : gsnap'[v] = IF v = w THEN read ELSE gsnap[v]
  BY <1>3 DEF MapInv, MapTypes
<1>7. RowsDated'
  BY <1>4, <1>6 DEF MapInv, RowsDated
<1> QED
  BY <1>5, <1>7, DatesKept DEF MapInv

\* How a task ends, by its commit or its failure.
LEMMA MapEnd ==
    ASSUME MapInv, NEW w \in Workers, DM!EndTask(w)
    PROVE  /\ gpc' \in [Workers -> {"idle", "dequeued", "queried"}]
           /\ gbatch' \in [Workers -> SUBSET Grids]
           /\ gday' \in [Workers -> Days]
           /\ gsnap' \in [Workers -> [Grids -> Dates]]
           /\ \A v \in Workers, g \in Grids :
                gsnap'[v][g] = NoGridRow \/ gsnap'[v][g].modified # 0
<1> DEFINE none == [g \in Grids |-> NoGridRow]
<1>1. NoGridRow \in Dates /\ 1 \in Days
  BY BoundsAssumption DEF NoGridRow, DM!NoRow, Dates, Days
<1>2. none \in [Grids -> Dates] /\ \A g \in Grids : none[g] = NoGridRow
  BY <1>1
<1>3. /\ gpc' = [gpc EXCEPT ![w] = "idle"] /\ gbatch' = [gbatch EXCEPT ![w] = {}]
      /\ gday' = [gday EXCEPT ![w] = 1] /\ gsnap' = [gsnap EXCEPT ![w] = none]
  BY DEF DM!EndTask, DM!NoSnap, NoGridRow
<1> HIDE DEF none
<1>4. \A v \in Workers : gsnap'[v] = IF v = w THEN none ELSE gsnap[v]
  BY <1>3 DEF MapInv, MapTypes
<1> QED
  BY <1>1, <1>2, <1>3, <1>4 DEF MapInv, MapTypes, RowsDated

\* What a task writes for a grid is a row with a date.
LEMMA WrittenDates ==
    ASSUME MapInv, NEW w \in Workers, NEW g \in Grids
    PROVE  /\ DM!Written(w, g) \in Dates
           /\ DM!Written(w, g) = NoGridRow \/ DM!Written(w, g).modified # 0
<1>1. /\ map[g] \in Dates /\ gday[w] \in Days
      /\ map[g] = NoGridRow \/ map[g].modified # 0
  BY DEF MapInv, MapTypes, RowsDated
<1>2. gday[w] # 0 /\ gday[w] \in 0..MaxDay
  BY <1>1, BoundsAssumption DEF Days
<1>3. /\ [created |-> gday[w], modified |-> gday[w]] \in Dates
      /\ [map[g] EXCEPT !.modified = gday[w]] \in Dates
      /\ [map[g] EXCEPT !.modified = gday[w]].modified = gday[w]
  BY <1>1, <1>2 DEF Dates
<1> QED
  BY <1>1, <1>2, <1>3 DEF DM!Written, NoGridRow

\* A task that was not overtaken adds its date to the exact ones: the row is
\* as it was read, or it has that date.
LEMMA WrittenExact ==
    ASSUME MapInv, NEW w \in Workers, NEW g \in Grids, Exact(g), ~DM!Overtaken(w, g),
           map'[g] = DM!Written(w, g),
           \A d \in Days : Mapped(g, d)' <=> Mapped(g, d) \/ d = gday[w]
    PROVE  Exact(g)'
<1> DEFINE date == gday[w]
           old == map[g]
           read == gsnap[w][g]
<1>1. /\ old \in Dates /\ read \in Dates /\ date \in Days /\ Days \subseteq Nat \ {0}
      /\ read = NoGridRow \/ read.modified # 0
      /\ old = NoGridRow \/ old.modified # 0
  BY DEF MapInv, MapTypes, RowsDated, Days
<1>2. old.modified \in {read.modified, date} /\ ~ (old.modified > date)
  BY DEF DM!Overtaken
<1>3. /\ NoGridRow.modified = 0
      /\ old.created \in 0..MaxDay /\ old.modified \in 0..MaxDay /\ read.modified \in 0..MaxDay
  BY <1>1 DEF NoGridRow, DM!NoRow, Dates
<1>4. old # NoGridRow =>
         /\ Mapped(g, old.created) /\ Mapped(g, old.modified)
         /\ old.created \in Days /\ old.modified \in Days
         /\ \A d \in Days : Mapped(g, d) => old.created <= d /\ d <= old.modified
  BY DEF Exact, Mapped, MapInv, MapTypes
<1>5. old = NoGridRow => \A d \in Days : ~Mapped(g, d)
  BY DEF Exact
<1>6. /\ read = NoGridRow =>
           map'[g] = IF old = NoGridRow THEN [created |-> date, modified |-> date] ELSE old
      /\ read # NoGridRow =>
           map'[g] = IF read.modified = date THEN old ELSE [old EXCEPT !.modified = date]
  <2>1. CASE read = NoGridRow
    <3>1. read.modified # date
      BY <1>1, <1>3, <2>1
    <3> QED
      BY <2>1, <3>1 DEF DM!Written, NoGridRow
  <2>2. CASE read # NoGridRow /\ read.modified = date
    BY <2>2 DEF DM!Written, NoGridRow
  <2>3. CASE read # NoGridRow /\ read.modified # date
    BY <2>3 DEF DM!Written, NoGridRow
  <2> QED
    BY <2>1, <2>2, <2>3
<1>7. Exact(g)' <=>
         IF map'[g] = NoGridRow THEN \A d \in Days : ~ (Mapped(g, d)')
         ELSE /\ [grid |-> g, date |-> map'[g].created] \in mapped'
              /\ [grid |-> g, date |-> map'[g].modified] \in mapped'
              /\ \A d \in Days : Mapped(g, d)' => map'[g].created <= d /\ d <= map'[g].modified
  BY DEF Exact, Mapped, NoGridRow, DM!NoRow
<1>8. \A d \in Days : [grid |-> g, date |-> d] \in mapped' <=> Mapped(g, d) \/ d = date
  BY DEF Mapped
<1>9. \A d \in Days : Mapped(g, d)' <=> Mapped(g, d) \/ d = date
  OBVIOUS
<1> HIDE DEF old, read, date
<1>10. CASE old = NoGridRow
  <2>1. read = NoGridRow
    BY <1>1, <1>2, <1>3, <1>10
  <2>2. map'[g] = [created |-> date, modified |-> date]
    BY <1>6, <1>10, <2>1
  <2>3. map'[g].created = date /\ map'[g].modified = date /\ map'[g] # NoGridRow
    BY <1>1, <1>3, <2>2
  <2> QED
    BY <1>1, <1>5, <1>7, <1>8, <1>9, <1>10, <2>3
<1>11. CASE old # NoGridRow /\ old.modified = date
  <2>1. map'[g].created = old.created /\ map'[g].modified = date /\ map'[g] # NoGridRow
    BY <1>1, <1>3, <1>6, <1>11 DEF Dates
  <2> QED
    BY <1>1, <1>4, <1>7, <1>8, <1>9, <1>11, <2>1
<1>12. CASE old # NoGridRow /\ old.modified # date
  <2>1. old.modified = read.modified /\ read # NoGridRow /\ read.modified # date
    BY <1>1, <1>2, <1>3, <1>4, <1>12
  <2>2. map'[g] = [old EXCEPT !.modified = date]
    BY <1>6, <2>1
  <2>3. map'[g].created = old.created /\ map'[g].modified = date /\ map'[g] # NoGridRow
    BY <1>1, <1>3, <2>2 DEF Dates
  <2>4. old.modified <= date /\ old.created <= old.modified
    BY <1>1, <1>2, <1>3, <1>4, <1>12
  <2>5. date \in Nat /\ old.modified \in Nat /\ old.created \in Nat
    BY <1>1, <1>4, <1>12
  <2>6. ASSUME NEW d \in Days, Mapped(g, d) \/ d = date
        PROVE  old.created <= d /\ d <= date
    <3>1. d \in Nat
      BY <1>1
    <3>2. CASE Mapped(g, d)
      <4>1. old.created <= d /\ d <= old.modified
        BY <1>4, <1>12, <3>2
      <4> QED
        BY <2>4, <2>5, <3>1, <4>1
    <3>3. CASE d = date
      BY <2>4, <2>5, <3>3
    <3> QED
      BY <2>6, <3>2, <3>3
  <2>7. \A d \in Days : Mapped(g, d)' => map'[g].created <= d /\ d <= map'[g].modified
    BY <1>9, <2>3, <2>6
  <2>8. /\ [grid |-> g, date |-> map'[g].created] \in mapped'
        /\ [grid |-> g, date |-> map'[g].modified] \in mapped'
    BY <1>1, <1>4, <1>8, <1>12, <2>3
  <2> QED
    BY <1>7, <2>3, <2>7, <2>8
<1> QED
  BY <1>10, <1>11, <1>12

\* A task commits its batch.
LEMMA MapCommitInv ==
    ASSUME MapInv, NEW w \in Workers, DM!Commit(w)
    PROVE  MapInv'
<1> USE DEF DM!Commit
<1>1. /\ gpc' \in [Workers -> {"idle", "dequeued", "queried"}]
      /\ gbatch' \in [Workers -> SUBSET Grids]
      /\ gday' \in [Workers -> Days]
      /\ gsnap' \in [Workers -> [Grids -> Dates]]
      /\ \A v \in Workers, g \in Grids :
           gsnap'[v][g] = NoGridRow \/ gsnap'[v][g].modified # 0
  BY MapEnd
<1>2. \A g \in Grids : map'[g] = IF g \in gbatch[w] THEN DM!Written(w, g) ELSE map[g]
  OBVIOUS
<1>3. map' \in [Grids -> Dates]
  BY WrittenDates DEF MapInv, MapTypes
<1>4. mapped' \subseteq [grid : Grids, date : Days] /\ overtaken' \subseteq Grids
  BY DEF MapInv, MapTypes
<1>5. MapTypes'
  BY <1>1, <1>3, <1>4 DEF MapInv, MapTypes
<1>6. RowsDated'
  BY <1>1, <1>2, WrittenDates DEF MapInv, RowsDated
<1>7. ASSUME NEW g \in Grids, g \notin overtaken'
      PROVE  Exact(g)'
  <2>1. Exact(g) /\ (g \in gbatch[w] => ~DM!Overtaken(w, g))
    BY <1>7 DEF MapInv
  <2>2. \A d \in Days : Mapped(g, d)' <=> Mapped(g, d) \/ (g \in gbatch[w] /\ d = gday[w])
    BY DEF Mapped
  <2>3. CASE g \in gbatch[w]
    BY <1>2, <2>1, <2>2, <2>3, WrittenExact
  <2>4. CASE g \notin gbatch[w]
    <3>1. map'[g] = map[g]
      BY <1>2, <2>4
    <3>2. \A d : [grid |-> g, date |-> d] \in mapped' <=> [grid |-> g, date |-> d] \in mapped
      BY <2>4
    <3> HIDE DEF DM!Commit
    <3> QED
      BY <2>1, <3>1, <3>2 DEF Exact, Mapped, NoGridRow, DM!NoRow
  <2> QED
    BY <2>3, <2>4
<1> QED
  BY <1>5, <1>6, <1>7 DEF MapInv

\* A task fails.
LEMMA MapFailInv ==
    ASSUME MapInv, NEW w \in Workers, DM!Fail(w)
    PROVE  MapInv'
<1>1. DM!EndTask(w) /\ UNCHANGED <<today, grids, map, mapped, overtaken>>
  BY DEF DM!Fail
<1>2. MapTypes' /\ RowsDated'
  BY <1>1, MapEnd DEF MapInv, MapTypes, RowsDated
<1> QED
  BY <1>1, <1>2, DatesKept DEF MapInv

\* No step breaks the invariant.
LEMMA StepMapInv == IInv /\ MapInv /\ [Next]_vars => MapInv'
<1> SUFFICES ASSUME IInv, MapInv, [Next]_vars PROVE MapInv'
  OBVIOUS
<1>1. ASSUME UNCHANGED <<map, mapped, overtaken, gpc, gbatch, gday, gsnap>>,
             grids' \subseteq Grids
      PROVE  MapInv'
  <2>1. MapTypes' /\ RowsDated'
    BY <1>1 DEF MapInv, MapTypes, RowsDated
  <2> QED
    BY <1>1, <2>1, DatesKept DEF MapInv
<1>2. grids \subseteq Grids
  BY DEF MapInv, MapTypes
<1>3. ASSUME UNCHANGED mapVars PROVE MapInv'
  BY <1>1, <1>2, <1>3 DEF mapVars
<1>4. ASSUME NEW g \in Grids, QueueGrid(g) PROVE MapInv'
  BY <1>1, <1>2, <1>4 DEF QueueGrid
<1>5. ASSUME DM!Next PROVE MapInv'
  <2>1. today \in Days
    BY DEF IInv, Types
  <2> QED
    BY <1>5, <2>1, MapDequeueInv, MapQueryInv, MapCommitInv, MapFailInv DEF DM!Next
<1> QED
  BY <1>3, <1>4, <1>5 DEF Next, NextDay, vars

\* What updatedatamap tasks have read, and what they have mapped, is
\* consistent with the rows.
THEOREM DatesConsistent == Spec => []MapInv
<1> QED
  BY InitMapInv, StepMapInv, CountersConsistent, PTL DEF Spec

\* DataMapUpdater (data/datamap.py) gives a grid the dates of the first and
\* the last task that had it, unless tasks of two dates overlapped on it.
THEOREM DatesExact == Spec => []GridDatesAreExact
<1>1. MapInv => GridDatesAreExact
  <2> SUFFICES ASSUME MapInv, NEW g \in Grids \ overtaken
               PROVE  LET dates == {m.date : m \in {n \in mapped : n.grid = g}} IN
                      map[g] = IF dates = {} THEN NoGridRow
                               ELSE [created |-> Min(dates), modified |-> Max(dates)]
    BY DEF GridDatesAreExact, NoGridRow
  <2> DEFINE dates == {m.date : m \in {n \in mapped : n.grid = g}}
  <2>1. \A d : d \in dates <=> d \in Days /\ Mapped(g, d)
    <3>1. \A m \in mapped : m = [grid |-> m.grid, date |-> m.date] /\ m.date \in Days
      BY DEF MapInv, MapTypes
    <3> QED
      BY <3>1 DEF Mapped
  <2>2. Exact(g) /\ map[g] \in Dates
    BY DEF MapInv, MapTypes
  <2>3. dates \subseteq Int /\ IsFiniteSet(dates)
    <3>1. IsFiniteSet(1..MaxDay) /\ 1..MaxDay \subseteq Int
      BY BoundsAssumption, FS_Interval
    <3>2. dates \subseteq 1..MaxDay
      BY <2>1 DEF Days
    <3> QED
      BY <3>1, <3>2, FS_Subset
  <2> HIDE DEF dates
  <2>4. CASE map[g] = NoGridRow
    <3>1. dates = {}
      BY <2>1, <2>2, <2>4 DEF Exact
    <3> QED
      BY <2>4, <3>1 DEF dates
  <2>5. CASE map[g] # NoGridRow
    <3>1. map[g].created \in Days /\ map[g].modified \in Days
      BY <2>2, <2>5 DEF Exact, Mapped, MapInv, MapTypes
    <3>2. /\ map[g].created \in dates /\ map[g].modified \in dates
          /\ \A d \in dates : map[g].created <= d /\ d <= map[g].modified
      BY <2>1, <2>2, <2>5, <3>1 DEF Exact
    <3>3. /\ Min(dates) \in dates /\ \A d \in dates : Min(dates) <= d
          /\ Max(dates) \in dates /\ \A d \in dates : Max(dates) >= d
      BY <2>3, <3>2, MaxMin
    <3>4. map[g].created = Min(dates) /\ map[g].modified = Max(dates)
      <4>1. /\ map[g].created <= Min(dates) /\ Min(dates) <= map[g].created
            /\ map[g].modified <= Max(dates) /\ Max(dates) <= map[g].modified
        BY <3>2, <3>3
      <4>2. /\ map[g].created \in Int /\ map[g].modified \in Int
            /\ Min(dates) \in Int /\ Max(dates) \in Int
        BY <2>3, <3>2, <3>3
      <4> QED
        BY <4>1, <4>2
    <3>5. map[g] = [created |-> map[g].created, modified |-> map[g].modified]
      BY <2>2 DEF Dates
    <3>6. dates # {} /\ map[g] = [created |-> Min(dates), modified |-> Max(dates)]
      BY <3>2, <3>4, <3>5
    <3> QED
      BY <3>6 DEF dates
  <2> QED
    BY <2>4, <2>5
<1> QED
  BY <1>1, DatesConsistent, PTL


\* Rows, counters, dates and tasks have their types; in particular a row of
\* the stat table is never negative, though counters may be.
THEOREM TypeCorrect == Spec => []TypeOK
<1>1. IInv /\ MapInv => TypeOK
  BY DEF IInv, Types, Steps, MapInv, MapTypes, TypeOK
<1> QED
  BY <1>1, CountersConsistent, DatesConsistent, PTL
=============================================================================
