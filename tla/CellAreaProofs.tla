---------------------------- MODULE CellAreaProofs ----------------------------
(***************************************************************************)
(* Proofs about CellArea: its types, and that an area nothing is going to  *)
(* update is the aggregate of its cells unless a change of it was missed.  *)
(*                                                                         *)
(* An area that was not missed has at most one holder (OneHolder), so that *)
(* nobody changes the row after the holder has read it (ReadIsCurrent),    *)
(* and what the holder has computed is current as long as no change of the *)
(* cells is on its way to the queue (ComputedIsCurrent).  So it is current *)
(* when it is committed (Right).                                           *)
(***************************************************************************)
EXTENDS CellArea, SetFacts

\* No change of the cells of an area waits to be seen by a task.
NoChange(a) == queue[a] = 0 /\ \A c \in notices : AreaOf[c] # a

OneHolder(a) == \A v, w \in Workers : a \in batch[v] /\ a \in batch[w] => v = w

ReadIsCurrent(a) ==
    \A w \in Workers : a \in batch[w] /\ pc[w] = "queried" => plan[w][a].old = areas[a]

ComputedIsCurrent(a) ==
    \A w \in Workers :
        a \in batch[w] /\ pc[w] = "queried" /\ NoChange(a) => plan[w][a].new = Aggregate(a)

Right(a) ==
    NoChange(a) /\ (\A w \in Workers : a \notin batch[w]) => areas[a] = Aggregate(a)

Sound(a) == OneHolder(a) /\ ReadIsCurrent(a) /\ ComputedIsCurrent(a) /\ Right(a)

AllSound == \A a \in Areas : a \notin missed => Sound(a)

\* Each worker has a plan, and an idle one holds no areas.
WorkersOrderly ==
    /\ plan = [w \in Workers |-> plan[w]]
    /\ \A w \in Workers : pc[w] = "idle" => batch[w] = {}

IInv == TypeOK /\ WorkersOrderly /\ AllSound

-----------------------------------------------------------------------------
(* Aggregates.                                                             *)

\* An aggregate is a row: it counts cells, and its extent is of positions.
LEMMA AggregateIsRow ==
    ASSUME TypeOK, NEW a \in Areas
    PROVE  Aggregate(a) \in Row
<1> DEFINE places == {cells[c] : c \in Located(a)}
<1>1. IsFiniteSet(Cells) /\ Located(a) \in SUBSET Cells
  BY CellsAssumption DEF Located
<1>2. /\ IsFiniteSet(Located(a))
      /\ Cardinality(Located(a)) <= Cardinality(Cells)
      /\ Cardinality(Located(a)) \in Nat
      /\ Cardinality(Cells) \in Nat
  BY <1>1, FS_Subset, FS_CardinalityType
<1>3. Positions \in SUBSET Nat /\ places \in SUBSET Positions
  BY CellsAssumption DEF TypeOK, Located
<1>4. IsFiniteSet(places)
  <2> DEFINE f == [c \in Located(a) |-> cells[c]]
  <2>1. IsFiniteSet({f[c] : c \in Located(a)})
    BY <1>2, FiniteImage
  <2> QED
    BY <2>1
<1>5. CASE places = {}
  <2>1. Aggregate(a) = NoArea
    BY <1>5 DEF Aggregate
  <2> QED
    BY <1>2, <2>1 DEF NoArea, Row
<1>6. CASE places # {}
  <2>1. Min(places) \in places /\ Max(places) \in places
    <3> HIDE DEF places
    <3> QED
      BY <1>3, <1>4, <1>6, MaxMin
  <2>2. Aggregate(a) = [num |-> Cardinality(Located(a)), extent |-> {Min(places), Max(places)}]
    BY <1>6 DEF Aggregate
  <2> HIDE DEF places
  <2>3. {Min(places), Max(places)} \in SUBSET Positions
    BY <1>3, <2>1
  <2>4. Cardinality(Located(a)) \in 0..Cardinality(Cells)
    BY <1>2
  <2> QED
    BY <2>2, <2>3, <2>4 DEF Row
<1> QED
  BY <1>5, <1>6

\* It changes only with the cells of the area.
LEMMA AggregateKept ==
    ASSUME NEW a, \A c \in Cells : AreaOf[c] = a => cells'[c] = cells[c]
    PROVE  Aggregate(a)' = Aggregate(a)
<1>1. Located(a)' = Located(a)
  BY DEF Located
<1>2. {cells[c] : c \in Located(a)}' = {cells[c] : c \in Located(a)}
  BY <1>1 DEF Located
<1> QED
  BY <1>1, <1>2 DEF Aggregate

\* What is written for an area is a row, and it is what was computed when the
\* row is as it was read.
LEMMA WrittenIsComputed ==
    ASSUME NEW a \in Areas, areas[a] \in Row, NEW step \in [old : Row, new : Row]
    PROVE  /\ Written(a, step) \in Row
           /\ step.old = areas[a] => Written(a, step) = step.new
<1>1. NoArea \in Row
  <2>1. Cardinality(Cells) \in Nat
    BY CellsAssumption, FS_CardinalityType
  <2> QED
    BY <2>1 DEF NoArea, Row
<1>2. step.old \in Row /\ step.new \in Row
  OBVIOUS
<1>3. CASE step.new = NoArea
  BY <1>1, <1>3 DEF Written
<1>4. CASE step.new # NoArea /\ step.old = NoArea
  BY <1>2, <1>4 DEF Written
<1>5. CASE step.new # NoArea /\ step.old # NoArea
  <2> DEFINE n == IF step.new.num = step.old.num THEN areas[a].num ELSE step.new.num
             e == IF step.new.extent = step.old.extent THEN areas[a].extent ELSE step.new.extent
  <2>1. Written(a, step) = [num |-> n, extent |-> e]
    BY <1>5 DEF Written
  <2>2. n \in 0..Cardinality(Cells) /\ e \in SUBSET Positions
    BY <1>2 DEF Row
  <2>3. step.old = areas[a] => n = step.new.num /\ e = step.new.extent
    OBVIOUS
  <2>4. step.new = [num |-> step.new.num, extent |-> step.new.extent]
    BY <1>2 DEF Row
  <2> HIDE DEF n, e
  <2> QED
    BY <2>1, <2>2, <2>3, <2>4 DEF Row
<1> QED
  BY <1>3, <1>4, <1>5

-----------------------------------------------------------------------------
(* The first state.                                                        *)

\* Nothing is stored, and nothing is to do.
LEMMA InitIInv ==
    Init => IInv
<1> SUFFICES ASSUME Init
             PROVE  IInv
  OBVIOUS
<1>1. NoArea \in Row
  <2>1. Cardinality(Cells) \in Nat
    BY CellsAssumption, FS_CardinalityType
  <2> QED
    BY <2>1 DEF NoArea, Row
<1>2. TypeOK
  <2>1. 0 \in 0..MaxCopies
    BY BoundsAssumption
  <2> QED
    BY <1>1, <2>1 DEF TypeOK, Init, NoPlan
<1>3. WorkersOrderly
  BY DEF WorkersOrderly, Init
<1>4. ASSUME NEW a \in Areas
      PROVE  Aggregate(a) = NoArea
  <2>1. Located(a) = {}
    BY DEF Located, Init
  <2>2. {cells[c] : c \in Located(a)} = {}
    BY <2>1
  <2> QED
    BY <2>2 DEF Aggregate
<1>5. AllSound
  BY <1>4 DEF AllSound, Sound, OneHolder, ReadIsCurrent, ComputedIsCurrent, Right, Init
<1> QED
  BY <1>2, <1>3, <1>5 DEF IInv

-----------------------------------------------------------------------------
(* Changes of the cells.                                                   *)

\* Queueing takes no copy away, and leaves a copy of what is queued.
LEMMA QueuedFacts ==
    ASSUME TypeOK, NEW A
    PROVE  /\ Queued(A) \in [Areas -> 0..MaxCopies]
           /\ \A a \in Areas : queue[a] <= Queued(A)[a]
           /\ \A a \in Areas : a \in A => Queued(A)[a] # 0
<1>1. MaxCopies \in Nat \ {0} /\ queue \in [Areas -> 0..MaxCopies]
  BY BoundsAssumption DEF TypeOK
<1> QED
  BY <1>1 DEF Queued

\* A step that leaves the tasks and the area table alone keeps an area sound,
\* when the area's cells stay or a change of them is to be seen afterwards.
LEMMA TasksAlone ==
    ASSUME NEW a \in Areas, Sound(a), UNCHANGED <<areas, workerVars>>,
           NoChange(a)' => NoChange(a) /\ Aggregate(a)' = Aggregate(a)
    PROVE  Sound(a)'
<1>1. OneHolder(a)' /\ ReadIsCurrent(a)'
  BY DEF Sound, OneHolder, ReadIsCurrent, workerVars
<1>2. ComputedIsCurrent(a)'
  BY DEF Sound, ComputedIsCurrent, workerVars
<1>3. Right(a)'
  BY DEF Sound, Right, workerVars
<1> QED
  BY <1>1, <1>2, <1>3 DEF Sound

\* An update task stores a cell: a notice is pending.
LEMMA StoreCellStep ==
    ASSUME IInv, NEW c \in Cells, NEW p \in Positions \cup {NoPosition}, StoreCell(c, p)
    PROVE  IInv'
<1> USE DEF StoreCell
<1>1. TypeOK'
  BY DEF IInv, TypeOK, workerVars
<1>2. WorkersOrderly'
  BY DEF IInv, WorkersOrderly, workerVars
<1>3. ASSUME NEW a \in Areas, a \notin missed
      PROVE  Sound(a)'
  <2>1. Sound(a) /\ UNCHANGED <<areas, workerVars>>
    BY <1>3 DEF IInv, AllSound
  <2>2. ASSUME NoChange(a)'
        PROVE  NoChange(a) /\ Aggregate(a)' = Aggregate(a)
    <3>1. NoChange(a) /\ AreaOf[c] # a
      BY <2>2 DEF NoChange
    <3>2. \A d \in Cells : AreaOf[d] = a => cells'[d] = cells[d]
      BY <3>1 DEF IInv, TypeOK
    <3> QED
      BY <3>1, <3>2, AggregateKept
  <2> QED
    BY <2>1, <2>2, TasksAlone
<1> QED
  BY <1>1, <1>2, <1>3 DEF IInv, AllSound

\* The pipeline of an update task is executed: a copy for the notice.
LEMMA ExecutePipeStep ==
    ASSUME IInv, NEW c \in Cells, ExecutePipe(c)
    PROVE  IInv'
<1> USE DEF ExecutePipe
<1> DEFINE A == {AreaOf[c]}
<1>0. TypeOK /\ queue' = Queued(A)
  BY DEF IInv
<1>1. /\ queue' \in [Areas -> 0..MaxCopies]
      /\ \A a \in Areas : queue[a] <= queue'[a]
      /\ \A a \in Areas : a \in A => queue'[a] # 0
  BY <1>0, QueuedFacts
<1>2. TypeOK'
  BY <1>1 DEF IInv, TypeOK, workerVars
<1>3. WorkersOrderly'
  BY DEF IInv, WorkersOrderly, workerVars
<1>4. ASSUME NEW a \in Areas, a \notin missed
      PROVE  Sound(a)'
  <2>1. Sound(a) /\ UNCHANGED <<areas, workerVars>>
    BY <1>4 DEF IInv, AllSound
  <2>2. Aggregate(a)' = Aggregate(a)
    BY AggregateKept
  <2>3. NoChange(a)' => NoChange(a)
    <3>1. queue[a] \in 0..MaxCopies /\ MaxCopies \in Nat
      BY <1>0, BoundsAssumption DEF TypeOK
    <3>2. queue'[a] = 0 => queue[a] = 0 /\ AreaOf[c] # a
      BY <1>1, <3>1
    <3> QED
      BY <3>2 DEF NoChange
  <2> QED
    BY <2>1, <2>2, <2>3, TasksAlone
<1> QED
  BY <1>2, <1>3, <1>4 DEF IInv, AllSound

\* The pipeline is lost: the area is missed.
LEMMA LosePipeStep ==
    ASSUME IInv, NEW c \in Cells, LosePipe(c)
    PROVE  IInv'
<1> USE DEF LosePipe
<1>1. TypeOK'
  BY CellsAssumption DEF IInv, TypeOK, workerVars
<1>2. WorkersOrderly'
  BY DEF IInv, WorkersOrderly, workerVars
<1>3. ASSUME NEW a \in Areas, a \notin missed'
      PROVE  Sound(a)'
  <2>1. Sound(a) /\ UNCHANGED <<areas, workerVars>> /\ AreaOf[c] # a
    BY <1>3 DEF IInv, AllSound
  <2>2. Aggregate(a)' = Aggregate(a)
    BY AggregateKept
  <2>3. NoChange(a)' => NoChange(a)
    BY <2>1 DEF NoChange
  <2> QED
    BY <2>1, <2>2, <2>3, TasksAlone
<1> QED
  BY <1>1, <1>2, <1>3 DEF IInv, AllSound

\* The queue expires: all areas in it are missed.
LEMMA ExpireStep ==
    ASSUME IInv, Expire
    PROVE  IInv'
<1> USE DEF Expire
<1>0. MaxCopies \in Nat
  BY BoundsAssumption
<1>1. TypeOK'
  BY <1>0 DEF IInv, TypeOK, workerVars
<1>2. WorkersOrderly'
  BY DEF IInv, WorkersOrderly, workerVars
<1>3. ASSUME NEW a \in Areas, a \notin missed'
      PROVE  Sound(a)'
  <2>1. Sound(a) /\ UNCHANGED <<areas, workerVars>> /\ queue[a] \in 0..MaxCopies
    BY <1>3 DEF IInv, AllSound, TypeOK
  <2>2. Aggregate(a)' = Aggregate(a)
    BY AggregateKept
  <2>3. queue[a] = 0
    BY <1>0, <1>3, <2>1
  <2>4. NoChange(a)' => NoChange(a)
    BY <2>3 DEF NoChange
  <2> QED
    BY <2>1, <2>2, <2>4, TasksAlone
<1> QED
  BY <1>1, <1>2, <1>3 DEF IInv, AllSound

\* An import queues the areas of its file.
LEMMA ImportStationsStep ==
    ASSUME IInv, NEW rows \in Files, ImportStations(rows)
    PROVE  IInv'
<1> USE DEF ImportStations
<1> DEFINE A == {AreaOf[c] : c \in DOMAIN rows}
<1>0. TypeOK /\ queue' = Queued(A)
  BY DEF IInv
<1> HIDE DEF A
<1>1. /\ queue' \in [Areas -> 0..MaxCopies]
      /\ \A a \in Areas : queue[a] <= queue'[a]
  BY <1>0, QueuedFacts
<1>2. TypeOK'
  BY <1>1 DEF IInv, TypeOK, workerVars
<1>3. WorkersOrderly'
  BY DEF IInv, WorkersOrderly, workerVars
<1>4. ASSUME NEW a \in Areas, a \notin missed
      PROVE  Sound(a)'
  <2>1. Sound(a) /\ UNCHANGED <<areas, workerVars>>
    BY <1>4 DEF IInv, AllSound
  <2>2. Aggregate(a)' = Aggregate(a)
    BY AggregateKept
  <2>3. NoChange(a)' => NoChange(a)
    <3>1. queue[a] \in 0..MaxCopies /\ MaxCopies \in Nat
      BY <1>0, BoundsAssumption DEF TypeOK
    <3>2. queue'[a] = 0 => queue[a] = 0
      BY <1>1, <3>1
    <3> QED
      BY <3>2 DEF NoChange
  <2> QED
    BY <2>1, <2>2, <2>3, TasksAlone
<1> QED
  BY <1>2, <1>3, <1>4 DEF IInv, AllSound

\* An import commits: an area of its file is still to be read, or is missed.
LEMMA CommitImportStep ==
    ASSUME IInv, CommitImport
    PROVE  IInv'
<1> USE DEF CommitImport
<1>0. importing \in Files
  BY DEF IInv, TypeOK
<1>1. importing \in [DOMAIN importing -> Positions] /\ DOMAIN importing \subseteq Cells
  BY <1>0, CellsAssumption
<1>2. TypeOK'
  <2>1. cells' \in [Cells -> Positions \cup {NoPosition}]
    BY <1>1 DEF IInv, TypeOK
  <2>2. missed' \subseteq Areas
    BY <1>1, CellsAssumption DEF IInv, TypeOK
  <2> QED
    BY <2>1, <2>2 DEF IInv, TypeOK, workerVars
<1>3. WorkersOrderly'
  BY DEF IInv, WorkersOrderly, workerVars
<1>4. ASSUME NEW a \in Areas, a \notin missed'
      PROVE  Sound(a)'
  <2>1. Sound(a) /\ UNCHANGED <<areas, workerVars>> /\ (NoChange(a)' => NoChange(a))
    BY <1>4 DEF IInv, AllSound, NoChange
  <2>2. CASE \A c \in DOMAIN importing : AreaOf[c] # a
    <3>1. \A c \in Cells : AreaOf[c] = a => cells'[c] = cells[c]
      BY <2>2
    <3> QED
      BY <2>1, <3>1, AggregateKept, TasksAlone
  <2>3. CASE queue[a] > 0
    BY <2>1, <2>3, TasksAlone DEF NoChange
  <2>4. CASE \E w \in Holders(a) : pc[w] = "dequeued"
    <3>1. \E w \in Workers : a \in batch[w] /\ pc[w] = "dequeued"
      BY <2>4 DEF Holders
    <3>2. \A w \in Workers : a \in batch[w] => pc[w] # "queried"
      BY <2>1, <3>1 DEF Sound, OneHolder
    <3>3. OneHolder(a)' /\ ReadIsCurrent(a)'
      BY <2>1 DEF Sound, OneHolder, ReadIsCurrent, workerVars
    <3>4. ComputedIsCurrent(a)'
      BY <2>1, <3>2 DEF ComputedIsCurrent, workerVars
    <3>5. Right(a)'
      BY <2>1, <3>1 DEF Right, workerVars
    <3> QED
      BY <3>3, <3>4, <3>5 DEF Sound
  <2> QED
    BY <1>4, <2>2, <2>3, <2>4
<1> QED
  BY <1>2, <1>3, <1>4 DEF IInv, AllSound

\* An import is rolled back.
LEMMA FailImportStep ==
    ASSUME IInv, FailImport
    PROVE  IInv'
<1> USE DEF FailImport
<1>1. TypeOK'
  BY DEF IInv, TypeOK, workerVars
<1>2. WorkersOrderly'
  BY DEF IInv, WorkersOrderly, workerVars
<1>3. ASSUME NEW a \in Areas, a \notin missed
      PROVE  Sound(a)'
  <2>1. Sound(a) /\ UNCHANGED <<areas, workerVars>> /\ (NoChange(a)' => NoChange(a))
    BY <1>3 DEF IInv, AllSound, NoChange
  <2> QED
    BY <2>1, AggregateKept, TasksAlone
<1> QED
  BY <1>1, <1>2, <1>3 DEF IInv, AllSound

-----------------------------------------------------------------------------
(* The area task.                                                          *)

\* A task takes a batch; an area that another task holds is missed.
LEMMA DequeueStep ==
    ASSUME IInv, NEW w \in Workers, NEW taken \in Takes, Dequeue(w, taken)
    PROVE  IInv'
<1> USE DEF Dequeue
<1>1. TypeOK /\ MaxCopies \in Nat
  BY BoundsAssumption DEF IInv
<1>2. \A a \in Areas :
         /\ taken[a] \in 0..MaxCopies /\ queue[a] \in 0..MaxCopies /\ taken[a] <= queue[a]
         /\ queue'[a] = queue[a] - taken[a]
  BY <1>1 DEF TypeOK, Takes
<1>3. queue' \in [Areas -> 0..MaxCopies]
  BY <1>1, <1>2
<1>4. \A v \in Workers :
         /\ batch'[v] = IF v = w THEN {a \in Areas : taken[a] > 0} ELSE batch[v]
         /\ pc'[v] = IF v = w THEN "dequeued" ELSE pc[v]
  BY <1>1 DEF TypeOK
<1>5. TypeOK'
  <2>1. batch' \in [Workers -> SUBSET Areas]
    BY <1>1 DEF TypeOK
  <2>2. pc' \in [Workers -> {"idle", "dequeued", "queried"}]
    BY <1>1 DEF TypeOK
  <2>3. \A v \in Workers :
           plan'[v] \in [IF pc'[v] = "queried" THEN batch'[v] ELSE {} -> [old : Row, new : Row]]
    BY <1>1, <1>4 DEF TypeOK
  <2>4. missed' \subseteq Areas
    BY <1>1 DEF TypeOK
  <2> QED
    BY <1>1, <1>3, <2>1, <2>2, <2>3, <2>4 DEF TypeOK
<1>6. WorkersOrderly'
  BY <1>4 DEF IInv, WorkersOrderly
<1>7. ASSUME NEW a \in Areas, a \notin missed'
      PROVE  Sound(a)'
  <2>1. Sound(a) /\ Aggregate(a)' = Aggregate(a)
    BY <1>7, AggregateKept DEF IInv, AllSound
  <2>2. CASE taken[a] > 0
    <3>1. \A v \in Workers : a \notin batch[v]
      BY <1>7, <2>2 DEF Holders
    <3>2. OneHolder(a)'
      BY <1>4, <3>1 DEF OneHolder
    <3>3. ReadIsCurrent(a)' /\ ComputedIsCurrent(a)'
      BY <1>4, <3>1 DEF ReadIsCurrent, ComputedIsCurrent
    <3>4. a \in batch'[w]
      <4>1. batch'[w] = {b \in Areas : taken[b] > 0}
        BY <1>4
      <4> HIDE DEF Dequeue
      <4> QED
        BY <2>2, <4>1
    <3>5. Right(a)'
      <4> HIDE DEF Dequeue
      <4> QED
        BY <3>4 DEF Right
    <3> QED
      BY <3>2, <3>3, <3>5 DEF Sound
  <2>3. CASE ~ (taken[a] > 0)
    <3>1. queue'[a] = queue[a]
      BY <1>1, <1>2, <2>3
    <3>2. NoChange(a)' <=> NoChange(a)
      BY <3>1 DEF NoChange
    <3>3. OneHolder(a)'
      BY <1>4, <2>1, <2>3 DEF Sound, OneHolder
    <3>4. ReadIsCurrent(a)' /\ ComputedIsCurrent(a)'
      BY <1>4, <2>1, <3>2 DEF Sound, ReadIsCurrent, ComputedIsCurrent
    <3>5. batch[w] = {}
      BY DEF IInv, WorkersOrderly
    <3>6. Right(a)'
      BY <1>4, <2>1, <3>2, <3>5 DEF Sound, Right
    <3> QED
      BY <3>3, <3>4, <3>6 DEF Sound
  <2> QED
    BY <2>2, <2>3
<1> QED
  BY <1>5, <1>6, <1>7 DEF IInv, AllSound

\* A task reads its areas and their cells: what it is alone to hold is no
\* longer missed.
LEMMA QueryStep ==
    ASSUME IInv, NEW w \in Workers, Query(w)
    PROVE  IInv'
<1> USE DEF Query
<1>1. TypeOK
  BY DEF IInv
<1>2. /\ pc' \in [Workers -> {"idle", "dequeued", "queried"}]
      /\ \A v \in Workers : pc'[v] = IF v = w THEN "queried" ELSE pc[v]
  BY <1>1 DEF TypeOK
<1> DEFINE P == [a \in batch[w] |-> [old |-> areas[a], new |-> Aggregate(a)]]
<1>3. \A v \in Workers : plan'[v] = IF v = w THEN P ELSE plan[v]
  <2>1. plan = [v \in Workers |-> plan[v]] /\ plan' = [plan EXCEPT ![w] = P]
    BY DEF IInv, WorkersOrderly
  <2> HIDE DEF P
  <2> QED
    BY <2>1
<1>4. P \in [batch[w] -> [old : Row, new : Row]]
  <2>1. batch[w] \in SUBSET Areas /\ \A a \in Areas : areas[a] \in Row
    BY <1>1 DEF TypeOK
  <2>2. \A a \in Areas : Aggregate(a) \in Row
    BY <1>1, AggregateIsRow
  <2> QED
    BY <2>1, <2>2
<1>5. WorkersOrderly'
  <2>1. plan = [v \in Workers |-> plan[v]] /\ plan' = [plan EXCEPT ![w] = P]
    BY DEF IInv, WorkersOrderly
  <2> HIDE DEF P
  <2>2. plan' = [v \in Workers |-> plan'[v]]
    BY <2>1
  <2> QED
    BY <1>2, <2>2 DEF IInv, WorkersOrderly
<1>6. TypeOK'
  <2>1. \A v \in Workers :
           plan'[v] \in [IF pc'[v] = "queried" THEN batch'[v] ELSE {} -> [old : Row, new : Row]]
    <3> HIDE DEF P
    <3> QED
      BY <1>1, <1>2, <1>3, <1>4 DEF TypeOK
  <2> QED
    BY <1>1, <1>2, <2>1 DEF TypeOK
<1>7. ASSUME NEW a \in Areas, a \notin missed'
      PROVE  Sound(a)'
  <2>1. Aggregate(a)' = Aggregate(a) /\ (NoChange(a)' <=> NoChange(a))
    BY AggregateKept DEF NoChange
  <2>2. a \in batch[w] => P[a].old = areas[a] /\ P[a].new = Aggregate(a)
    OBVIOUS
  <2> HIDE DEF P
  <2>3. CASE a \in missed
    <3>1. a \in batch[w] /\ \A v \in Workers : a \in batch[v] => v = w
      BY <1>7, <2>3 DEF Holders
    <3>2. OneHolder(a)' /\ Right(a)'
      BY <3>1 DEF OneHolder, Right
    <3>3. ReadIsCurrent(a)' /\ ComputedIsCurrent(a)'
      BY <1>3, <2>1, <2>2, <3>1 DEF ReadIsCurrent, ComputedIsCurrent
    <3> QED
      BY <3>2, <3>3 DEF Sound
  <2>4. CASE a \notin missed
    <3>1. Sound(a)
      BY <2>4 DEF IInv, AllSound
    <3>2. OneHolder(a)' /\ Right(a)'
      BY <2>1, <3>1 DEF Sound, OneHolder, Right
    <3>3. ReadIsCurrent(a)'
      <4>1. areas' = areas /\ batch' = batch
        OBVIOUS
      <4>2. \A v \in Workers : a \in batch[v] /\ pc'[v] = "queried" => plan'[v][a].old = areas[a]
        <5> HIDE DEF Query
        <5> QED
          BY <1>2, <1>3, <2>2, <3>1 DEF Sound, ReadIsCurrent
      <4> QED
        BY <4>1, <4>2 DEF ReadIsCurrent
    <3>4. ComputedIsCurrent(a)'
      BY <1>2, <1>3, <2>1, <2>2, <3>1 DEF Sound, ComputedIsCurrent
    <3> QED
      BY <3>2, <3>3, <3>4 DEF Sound
  <2> QED
    BY <2>3, <2>4
<1> QED
  BY <1>5, <1>6, <1>7 DEF IInv, AllSound

\* How a task ends, by its commit or its failure.
LEMMA EndFacts ==
    ASSUME TypeOK, WorkersOrderly, NEW w \in Workers, EndTask(w)
    PROVE  /\ pc' \in [Workers -> {"idle", "dequeued", "queried"}]
           /\ batch' \in [Workers -> SUBSET Areas]
           /\ \A v \in Workers :
                plan'[v] \in [IF pc'[v] = "queried" THEN batch'[v] ELSE {} -> [old : Row, new : Row]]
           /\ WorkersOrderly'
           /\ \A v \in Workers :
                /\ v = w => pc'[v] = "idle" /\ batch'[v] = {}
                /\ v # w => pc'[v] = pc[v] /\ batch'[v] = batch[v] /\ plan'[v] = plan[v]
<1> USE DEF EndTask
<1>1. /\ pc' \in [Workers -> {"idle", "dequeued", "queried"}]
      /\ batch' \in [Workers -> SUBSET Areas]
  BY DEF TypeOK
<1>2. \A v \in Workers :
         /\ v = w => pc'[v] = "idle" /\ batch'[v] = {}
         /\ v # w => pc'[v] = pc[v] /\ batch'[v] = batch[v]
  BY DEF TypeOK
<1>3. /\ plan' = [v \in Workers |-> plan'[v]]
      /\ \A v \in Workers : plan'[v] = IF v = w THEN NoPlan ELSE plan[v]
  BY DEF WorkersOrderly
<1>4. NoPlan \in [{} -> [old : Row, new : Row]]
  BY DEF NoPlan
<1>5. \A v \in Workers :
         plan'[v] \in [IF pc'[v] = "queried" THEN batch'[v] ELSE {} -> [old : Row, new : Row]]
  BY <1>2, <1>3, <1>4 DEF TypeOK
<1>6. WorkersOrderly'
  BY <1>2, <1>3 DEF WorkersOrderly
<1> QED
  BY <1>1, <1>2, <1>3, <1>5, <1>6

\* A task commits: what it writes for an area that was not missed is what it
\* has computed.
LEMMA CommitStep ==
    ASSUME IInv, NEW w \in Workers, Commit(w)
    PROVE  IInv'
<1> USE DEF Commit
<1>1. TypeOK /\ WorkersOrderly
  BY DEF IInv
<1>2. /\ pc' \in [Workers -> {"idle", "dequeued", "queried"}]
      /\ batch' \in [Workers -> SUBSET Areas]
      /\ \A v \in Workers :
           plan'[v] \in [IF pc'[v] = "queried" THEN batch'[v] ELSE {} -> [old : Row, new : Row]]
      /\ WorkersOrderly'
  BY <1>1, EndFacts
<1>3. \A v \in Workers :
           /\ v = w => pc'[v] = "idle" /\ batch'[v] = {}
           /\ v # w => pc'[v] = pc[v] /\ batch'[v] = batch[v] /\ plan'[v] = plan[v]
  BY <1>1, EndFacts
<1>4. ASSUME NEW a \in batch[w]
      PROVE  a \in Areas /\ areas[a] \in Row /\ plan[w][a] \in [old : Row, new : Row]
  BY <1>1 DEF TypeOK
<1>5. ASSUME NEW a \in batch[w]
      PROVE  /\ Written(a, plan[w][a]) \in Row
             /\ plan[w][a].old = areas[a] => Written(a, plan[w][a]) = plan[w][a].new
  BY <1>4, WrittenIsComputed
<1>6. TypeOK'
  <2>1. areas' \in [Areas -> Row]
    BY <1>1, <1>5 DEF TypeOK
  <2> QED
    BY <1>1, <1>2, <2>1 DEF TypeOK
<1>7. ASSUME NEW a \in Areas, a \notin missed
      PROVE  Sound(a)'
  <2>1. Sound(a)
    BY <1>7 DEF IInv, AllSound
  <2>2. Aggregate(a)' = Aggregate(a) /\ (NoChange(a)' <=> NoChange(a))
    BY AggregateKept DEF NoChange
  <2>3. OneHolder(a)'
    BY <1>3, <2>1 DEF Sound, OneHolder
  <2>4. CASE a \in batch[w]
    <3>1. \A v \in Workers : a \notin batch'[v]
      BY <1>3, <2>1, <2>4 DEF Sound, OneHolder
    <3>2. areas'[a] = Written(a, plan[w][a])
      BY <2>4
    <3>3. areas'[a] = plan[w][a].new
      BY <1>5, <2>1, <2>4, <3>2 DEF Sound, ReadIsCurrent
    <3>4. Right(a)'
      BY <2>1, <2>2, <2>4, <3>3 DEF Sound, ComputedIsCurrent, Right
    <3>5. ReadIsCurrent(a)' /\ ComputedIsCurrent(a)'
      BY <3>1 DEF ReadIsCurrent, ComputedIsCurrent
    <3> QED
      BY <2>3, <3>4, <3>5 DEF Sound
  <2>5. CASE a \notin batch[w]
    <3>1. areas'[a] = areas[a]
      BY <2>5
    <3>2. \A v \in Workers : a \in batch[v] => a \in batch'[v]
      BY <1>3, <2>5
    <3>3. Right(a)'
      BY <2>1, <2>2, <3>1, <3>2 DEF Sound, Right
    <3>4. ReadIsCurrent(a)' /\ ComputedIsCurrent(a)'
      BY <1>3, <2>1, <2>2, <3>1 DEF Sound, ReadIsCurrent, ComputedIsCurrent
    <3> QED
      BY <2>3, <3>3, <3>4 DEF Sound
  <2> QED
    BY <2>4, <2>5
<1> QED
  BY <1>2, <1>6, <1>7 DEF IInv, AllSound

\* A task fails: its areas are missed.
LEMMA FailStep ==
    ASSUME IInv, NEW w \in Workers, Fail(w)
    PROVE  IInv'
<1> USE DEF Fail
<1>1. TypeOK /\ WorkersOrderly
  BY DEF IInv
<1>2. /\ pc' \in [Workers -> {"idle", "dequeued", "queried"}]
      /\ batch' \in [Workers -> SUBSET Areas]
      /\ \A v \in Workers :
           plan'[v] \in [IF pc'[v] = "queried" THEN batch'[v] ELSE {} -> [old : Row, new : Row]]
      /\ WorkersOrderly'
  BY <1>1, EndFacts
<1>3. \A v \in Workers :
           /\ v = w => pc'[v] = "idle" /\ batch'[v] = {}
           /\ v # w => pc'[v] = pc[v] /\ batch'[v] = batch[v] /\ plan'[v] = plan[v]
  BY <1>1, EndFacts
<1>4. TypeOK'
  BY <1>1, <1>2 DEF TypeOK
<1>5. ASSUME NEW a \in Areas, a \notin missed'
      PROVE  Sound(a)'
  <2>1. Sound(a) /\ a \notin batch[w]
    BY <1>5 DEF IInv, AllSound
  <2>2. Aggregate(a)' = Aggregate(a) /\ (NoChange(a)' <=> NoChange(a))
    BY AggregateKept DEF NoChange
  <2>3. \A v \in Workers : a \in batch[v] <=> a \in batch'[v]
    BY <1>3, <2>1
  <2>4. OneHolder(a)' /\ Right(a)'
    BY <2>1, <2>2, <2>3 DEF Sound, OneHolder, Right
  <2>5. ReadIsCurrent(a)' /\ ComputedIsCurrent(a)'
    BY <1>3, <2>1, <2>2 DEF Sound, ReadIsCurrent, ComputedIsCurrent
  <2> QED
    BY <2>4, <2>5 DEF Sound
<1> QED
  BY <1>2, <1>4, <1>5 DEF IInv, AllSound

-----------------------------------------------------------------------------
(* The theorems.                                                           *)

\* IInv is an invariant: every area that was not missed has at most one
\* holder, whose reading and computation are current.
THEOREM AreasSound == Spec => []IInv
<1>1. ASSUME IInv, [Next]_vars
      PROVE  IInv'
  <2>1. CASE UNCHANGED vars
    <3>1. TypeOK' /\ WorkersOrderly'
      BY <1>1, <2>1 DEF IInv, TypeOK, WorkersOrderly, vars, workerVars
    <3>2. ASSUME NEW a \in Areas, a \notin missed
          PROVE  Sound(a)'
      BY <1>1, <2>1, <3>2, AggregateKept, TasksAlone DEF IInv, AllSound, NoChange, vars
    <3> QED
      BY <2>1, <3>1, <3>2 DEF IInv, AllSound, vars
  <2>2. ASSUME NEW c \in Cells, NEW p \in Positions \cup {NoPosition}, StoreCell(c, p)
        PROVE  IInv'
    BY <1>1, <2>2, StoreCellStep
  <2>3. ASSUME NEW c \in Cells, ExecutePipe(c) \/ LosePipe(c)
        PROVE  IInv'
    BY <1>1, <2>3, ExecutePipeStep, LosePipeStep
  <2>4. ASSUME NEW rows \in Files, ImportStations(rows)
        PROVE  IInv'
    BY <1>1, <2>4, ImportStationsStep
  <2>5. CASE Expire \/ CommitImport \/ FailImport
    BY <1>1, <2>5, ExpireStep, CommitImportStep, FailImportStep
  <2>6. ASSUME NEW w \in Workers, NEW taken \in Takes, Dequeue(w, taken)
        PROVE  IInv'
    BY <1>1, <2>6, DequeueStep
  <2>7. ASSUME NEW w \in Workers, Query(w) \/ Commit(w) \/ Fail(w)
        PROVE  IInv'
    BY <1>1, <2>7, QueryStep, CommitStep, FailStep
  <2> QED
    BY <1>1, <2>1, <2>2, <2>3, <2>4, <2>5, <2>6, <2>7 DEF Next
<1> QED
  BY InitIInv, <1>1, PTL DEF Spec

\* Every variable has its type; in particular the extent of an area is of
\* positions, and its number no more than the cells.
THEOREM TypeCorrect == Spec => []TypeOK
<1>1. IInv => TypeOK
  BY DEF IInv
<1> QED
  BY AreasSound, <1>1, PTL

\* CellAreaUpdater (data/area.py) leaves an area with the aggregate of its
\* cells, unless missed records one of five things: a lost notice, a queue at
\* its time to live (queue.py:32,55), a failed task, two tasks with one area,
\* or an import that committed after the area was read.
THEOREM SettledAreasAreRight == Spec => []SettledIsAggregate
<1>1. IInv => SettledIsAggregate
  <2> SUFFICES ASSUME IInv, NEW a \in Areas, ~Underway(a), a \notin missed
               PROVE  areas[a] = Aggregate(a)
    BY DEF SettledIsAggregate
  <2>1. Right(a) /\ queue[a] \in 0..MaxCopies /\ MaxCopies \in Nat
    BY BoundsAssumption DEF IInv, AllSound, Sound, TypeOK
  <2>2. NoChange(a) /\ \A w \in Workers : a \notin batch[w]
    BY <2>1 DEF Underway, NoChange, Holders
  <2> QED
    BY <2>1, <2>2 DEF Right
<1> QED
  BY AreasSound, <1>1, PTL
=============================================================================
