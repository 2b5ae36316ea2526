------------------------ MODULE StationUpdaterProofs -------------------------
(***************************************************************************)
(* Theorems about StationUpdater, for any number of overlapping tasks, any *)
(* observations and any thresholds.                                        *)
(*                                                                         *)
(* A task writes rows it computed from its snapshot, so what must hold of  *)
(* the table must hold of every snapshot too, measured against the batches *)
(* committed by now and not only those committed when it was read.  This   *)
(* is RowSound; it survives further commits and further days (SoundLater)  *)
(* and the merge of a batch nobody else holds (SoundValues).               *)
(*                                                                         *)
(* What a commit is to leave in the area queue and in the counter of new   *)
(* stations is in the pipeline until that is executed or lost, and the     *)
(* invariants of both (AreaInv, RowsCounted) say so.                       *)
(***************************************************************************)
EXTENDS StationUpdater, FiniteSetTheorems, TLAPS

\* What holds of a row of station s, in the table or in a snapshot, when the
\* observations O are consumed and the day is d.
RowSound(row, s, O, d) ==
    /\ row.samples <= Cardinality(ObsOf(s, O))
    /\ row.box \subseteq PositionsOf(ObsOf(s, O))
    /\ ~TooFar(row.box)
    /\ row.count <= PermThreshold
    /\ row.count = 0 => row.first = 0 /\ row.last = 0
    /\ row.count > 0 => 1 <= row.first /\ row.first <= row.last /\ row.last <= d
    /\ Blocked(row, d) => row.box = {}

\* Every observation is in one place only.
OnePlace ==
    /\ queue \cap consumed = {}
    /\ queue \cap lost = {}
    /\ consumed \cap lost = {}
    /\ \A w \in Workers : batch[w] \cap (queue \cup consumed \cup lost) = {}
    /\ \A v, w \in Workers : v # w => batch[v] \cap batch[w] = {}

DaysPast == \A w \in Workers : day[w] <= today

TableSound == \A s \in Stations : RowSound(table[s], s, consumed, today)

SnapsSound ==
    \A w \in Workers : \A s \in Stations : RowSound(snap[w][s], s, consumed, today)

IInv == TypeOK /\ OnePlace /\ DaysPast /\ TableSound /\ SnapsSound

-----------------------------------------------------------------------------
(* Facts about rows.                                                       *)

LEMMA ObsOfFinite ==
    ASSUME NEW s, NEW O \in SUBSET Obs
    PROVE  /\ IsFiniteSet(ObsOf(s, O))
           /\ Cardinality(ObsOf(s, O)) \in Nat
           /\ ObsOf(s, O) \in SUBSET Obs
<1>1. ObsOf(s, O) \in SUBSET Obs
  BY DEF ObsOf
<1>2. IsFiniteSet(ObsOf(s, O))
  BY <1>1, ObsAssumption, FS_Subset
<1> QED
  BY <1>1, <1>2, FS_CardinalityType

LEMMA NoRowSound ==
    ASSUME NEW s \in Stations, NEW O \in SUBSET Obs, NEW d \in Nat
    PROVE  /\ NoRow \in Row(Positions)
           /\ RowSound(NoRow, s, O, d)
<1>1. Cardinality(ObsOf(s, O)) \in Nat
  BY ObsOfFinite
<1> QED
  BY <1>1, RecordAssumption DEF NoRow, Row, RowSound, TooFar, Blocked

\* A sound row stays sound while observations are consumed and days pass.
LEMMA SoundLater ==
    ASSUME NEW row \in Row(Positions), NEW s \in Stations,
           NEW O \in SUBSET Obs, NEW P \in SUBSET Obs, O \subseteq P,
           NEW d \in Nat, NEW e \in Nat, d <= e,
           RowSound(row, s, O, d)
    PROVE  RowSound(row, s, P, e)
<1>1. ObsOf(s, O) \in SUBSET ObsOf(s, P)
  BY DEF ObsOf
<1>2. Cardinality(ObsOf(s, O)) <= Cardinality(ObsOf(s, P))
  BY <1>1, ObsOfFinite, FS_Subset
<1>3. /\ Cardinality(ObsOf(s, O)) \in Nat
      /\ Cardinality(ObsOf(s, P)) \in Nat
  BY ObsOfFinite
<1>4. PositionsOf(ObsOf(s, O)) \subseteq PositionsOf(ObsOf(s, P))
  BY <1>1 DEF PositionsOf
<1>5. Blocked(row, e) => Blocked(row, d)
  BY RecordAssumption DEF Blocked, Row
<1>6. row.samples <= Cardinality(ObsOf(s, P))
  BY <1>2, <1>3 DEF RowSound, Row
<1>7. row.count > 0 => 1 <= row.first /\ row.first <= row.last /\ row.last <= e
  BY DEF RowSound, Row
<1> QED
  BY <1>4, <1>5, <1>6, <1>7 DEF RowSound

\* Merging a batch that shares no observation with those consumed into a row
\* that is not blocked yields a sound row.
LEMMA SoundValues ==
    ASSUME NEW row \in Row(Positions), NEW s \in Stations,
           NEW O \in SUBSET Obs, NEW B \in SUBSET Obs, O \cap B = {},
           NEW d \in Nat, NEW e \in Nat, 1 <= d, d <= e,
           RowSound(row, s, O, e), ~Blocked(row, d)
    PROVE  LET v == StationValues(row, PositionsOf(ObsOf(s, B)),
                                  Cardinality(ObsOf(s, B)), d)
           IN  v \in Row(Positions) /\ RowSound(v, s, O \cup B, e)
<1> DEFINE P == PositionsOf(ObsOf(s, B))
           n == Cardinality(ObsOf(s, B))
<1> USE RecordAssumption
<1>1. /\ n \in Nat
      /\ Cardinality(ObsOf(s, O)) \in Nat
      /\ Cardinality(ObsOf(s, O \cup B)) \in Nat
  BY ObsOfFinite
<1>2. Cardinality(ObsOf(s, O \cup B)) = Cardinality(ObsOf(s, O)) + n
  <2>1. ObsOf(s, O \cup B) = ObsOf(s, O) \cup ObsOf(s, B)
    BY DEF ObsOf
  <2>2. ObsOf(s, O) \cap ObsOf(s, B) = {}
    BY DEF ObsOf
  <2>3. IsFiniteSet(ObsOf(s, O)) /\ IsFiniteSet(ObsOf(s, B))
    BY ObsOfFinite
  <2>4. Cardinality(ObsOf(s, O) \cup ObsOf(s, B)) =
           Cardinality(ObsOf(s, O)) + n - Cardinality(ObsOf(s, O) \cap ObsOf(s, B))
    BY <2>3, FS_Union
  <2>5. Cardinality(ObsOf(s, O) \cap ObsOf(s, B)) = 0
    BY <2>2, FS_EmptySet
  <2>6. Cardinality(ObsOf(s, O \cup B)) =
           Cardinality(ObsOf(s, O)) + n - Cardinality(ObsOf(s, O) \cap ObsOf(s, B))
    BY <2>1, <2>4, Zenon
  <2> HIDE DEF n
  <2> QED
    BY <2>5, <2>6, <1>1
<1>3. P \subseteq Positions /\ Positions \subseteq Int
  BY ObsAssumption DEF PositionsOf, ObsOf
<1>4. P \cup row.box \subseteq PositionsOf(ObsOf(s, O \cup B))
  BY DEF RowSound, PositionsOf, ObsOf
<1>5. /\ row.count < PermThreshold
      /\ row.last # 0 => row.last < d
  BY DEF Blocked, Row
<1> HIDE DEF P, n
<1>6. CASE Disagree(row, P)
  <2> DEFINE v == Moved(row, d)
  <2>1. /\ v.box = {} /\ v.samples = 0
        /\ v.first = IF row.first = 0 THEN d ELSE row.first
        /\ v.last = d /\ v.count = row.count + 1
        /\ v \in Row(Positions)
    BY DEF Moved, Row
  <2>2. /\ v.count <= PermThreshold /\ v.count > 0
        /\ 1 <= v.first /\ v.first <= v.last /\ v.last <= e
    BY <2>1, <1>5 DEF RowSound, Row
  <2> HIDE DEF v
  <2>3. RowSound(v, s, O \cup B, e)
    BY <2>1, <2>2, <1>1 DEF RowSound, TooFar
  <2> QED
    BY <1>6, <2>1, <2>3 DEF StationValues, v, P, n
<1>7. CASE ~Disagree(row, P)
  <2> DEFINE v == Merged(row, P, n)
  <2>1. /\ v.box = Hull(P \cup row.box) /\ v.samples = row.samples + n
        /\ v.first = row.first /\ v.last = row.last /\ v.count = row.count
    BY DEF Merged, Row
  <2>2. Hull(P \cup row.box) \subseteq P \cup row.box
    BY DEF Hull
  <2>3. v \in Row(Positions)
    <3>1. row.box \subseteq Positions /\ row.samples \in Nat
      BY DEF Row
    <3>2. Hull(P \cup row.box) \in SUBSET Positions
      BY <3>1, <1>3, <2>2
    <3>3. row.samples + n \in Nat
      BY <3>1, <1>1
    <3> QED
      BY <3>2, <3>3 DEF Merged, Row
  <2>4. ~TooFar(v.box)
    BY <1>7, <2>1, <2>2 DEF Disagree, TooFar
  <2>5. v.samples <= Cardinality(ObsOf(s, O \cup B))
    BY <2>1, <1>1, <1>2 DEF RowSound, Row
  <2>6. ~Blocked(v, e)
    BY <2>1, <1>5 DEF Blocked, Row
  <2> HIDE DEF v
  <2>7. RowSound(v, s, O \cup B, e)
    BY <2>1, <2>2, <2>4, <2>5, <2>6, <1>4 DEF RowSound
  <2> QED
    BY <1>7, <2>3, <2>7 DEF StationValues, v, P, n
<1> QED
  BY <1>6, <1>7

-----------------------------------------------------------------------------
(* The inductive invariant.                                                *)

LEMMA InitInv == Init => IInv
<1> SUFFICES ASSUME Init
             PROVE  IInv
  OBVIOUS
<1> USE DEF Init
<1>1. \A s \in Stations : /\ NoRow \in Row(Positions)
                          /\ RowSound(NoRow, s, {}, 1)
  BY NoRowSound
<1>2. NoPipe \in [new : Nat, areas : SUBSET Areas]
  BY DEF NoPipe
<1>3. TypeOK
  <2>1. NoSnap \in [Stations -> Row(Positions)]
    BY <1>1 DEF NoSnap
  <2>2. 1 \in 1..MaxDay /\ 0 \in 0..MaxTasks
    BY BoundsAssumption
  <2> QED
    BY <1>2, <2>1, <2>2 DEF TypeOK
<1>4. OnePlace /\ DaysPast
  BY DEF OnePlace, DaysPast
<1>5. TableSound /\ SnapsSound
  BY <1>1 DEF TableSound, SnapsSound, NoSnap
<1> QED
  BY <1>3, <1>4, <1>5 DEF IInv

\* The rows of the tables and of the snapshots that a step leaves alone stay
\* sound, since a step never takes back a consumed observation or a day.
LEMMA UntouchedRows ==
    ASSUME IInv, TypeOK', consumed \subseteq consumed', today <= today'
    PROVE  /\ \A s \in Stations : RowSound(table[s], s, consumed', today')
           /\ \A w \in Workers : \A s \in Stations :
                RowSound(snap[w][s], s, consumed', today')
<1>1. /\ consumed \in SUBSET Obs /\ consumed' \in SUBSET Obs
      /\ today \in Nat /\ today' \in Nat
  BY BoundsAssumption DEF IInv, TypeOK
<1>2. ASSUME NEW s \in Stations
      PROVE  RowSound(table[s], s, consumed', today')
  <2>1. table[s] \in Row(Positions)
    BY DEF IInv, TypeOK
  <2>2. RowSound(table[s], s, consumed, today)
    BY DEF IInv, TableSound
  <2> QED
    BY <1>1, <2>1, <2>2, SoundLater
<1>3. ASSUME NEW w \in Workers, NEW s \in Stations
      PROVE  RowSound(snap[w][s], s, consumed', today')
  <2>1. snap[w][s] \in Row(Positions)
    BY DEF IInv, TypeOK
  <2>2. RowSound(snap[w][s], s, consumed, today)
    BY DEF IInv, SnapsSound
  <2> QED
    BY <1>1, <2>1, <2>2, SoundLater
<1> QED
  BY <1>2, <1>3

LEMMA EnvironmentInv ==
    ASSUME IInv,
           \/ \E S \in SUBSET Obs : Submit(S)
           \/ Expire \/ NextDay \/ Beat \/ TaskExpires
    PROVE  IInv'
<1> USE BoundsAssumption
<1>1. /\ UNCHANGED <<table, consumed, workerVars, redisVars>>
      /\ today' \in {today, today + 1} /\ today' \in 1..MaxDay
      /\ tasks' \in 0..MaxTasks
      /\ queue' \subseteq Obs /\ lost' \subseteq Obs
  BY DEF IInv, TypeOK, Submit, Expire, NextDay, Beat, TaskExpires, queueVars
<1>2. TypeOK'
  BY <1>1 DEF IInv, TypeOK, workerVars, redisVars
<1>3. OnePlace'
  <2>1. CASE \E S \in SUBSET Obs : Submit(S)
    <3>1. PICK S \in SUBSET Obs : Submit(S)
      BY <2>1
    <3>2. /\ S \cap consumed = {} /\ S \cap lost = {}
          /\ \A w \in Workers : batch[w] \cap S = {}
      BY <3>1 DEF Submit
    <3> QED
      BY <3>1, <3>2 DEF Submit, OnePlace, IInv, workerVars
  <2>2. CASE Expire
    BY <2>2 DEF Expire, OnePlace, IInv, workerVars
  <2>3. CASE NextDay \/ Beat \/ TaskExpires
    BY <2>3 DEF NextDay, Beat, TaskExpires, OnePlace, IInv, workerVars, queueVars
  <2> QED
    BY <2>1, <2>2, <2>3
<1>4. DaysPast'
  BY <1>1 DEF DaysPast, IInv, TypeOK, workerVars
<1>5. today <= today'
  BY <1>1 DEF IInv, TypeOK
<1>6. TableSound' /\ SnapsSound'
  BY <1>1, <1>2, <1>5, UntouchedRows DEF TableSound, SnapsSound, workerVars
<1> QED
  BY <1>2, <1>3, <1>4, <1>6 DEF IInv

LEMMA DequeueInv ==
    ASSUME IInv, NEW w \in Workers, NEW S \in SUBSET queue, Dequeue(w, S)
    PROVE  IInv'
<1> USE BoundsAssumption
<1>1. /\ UNCHANGED <<consumed, lost, table, today, snap, pipe, redisVars>>
      /\ queue' = queue \ S
      /\ S \in SUBSET Obs
      /\ tasks' \in 0..MaxTasks
  BY DEF Dequeue, Rest, workerVars, IInv, TypeOK
<1>2. /\ pc' \in [Workers -> {"idle", "dequeued", "queried", "written", "committed"}]
      /\ batch' \in [Workers -> SUBSET Obs]
      /\ \A v \in Workers : batch'[v] = IF v = w /\ S # {} THEN S ELSE batch[v]
      /\ day' \in [Workers -> 1..MaxDay]
      /\ \A v \in Workers : day'[v] \in {day[v], today}
  <2>1. CASE S = {}
    BY <2>1 DEF Dequeue, workerVars, IInv, TypeOK
  <2>2. CASE S # {}
    <3>1. /\ pc \in [Workers -> {"idle", "dequeued", "queried", "written", "committed"}]
          /\ batch \in [Workers -> SUBSET Obs]
          /\ day \in [Workers -> 1..MaxDay] /\ today \in 1..MaxDay
      BY DEF IInv, TypeOK
    <3>2. /\ pc' = [pc EXCEPT ![w] = "dequeued"]
          /\ batch' = [batch EXCEPT ![w] = S]
          /\ day' = [day EXCEPT ![w] = today]
      BY <2>2 DEF Dequeue
    <3> QED
      BY <1>1, <2>2, <3>1, <3>2
  <2> QED
    BY <2>1, <2>2
<1>3. TypeOK'
  BY <1>1, <1>2 DEF IInv, TypeOK, redisVars
<1>4. OnePlace'
  <2>1. /\ S \subseteq queue
        /\ \A v \in Workers : batch[v] \cap queue = {}
    BY DEF IInv, OnePlace
  <2> QED
    BY <1>1, <1>2, <2>1 DEF IInv, OnePlace
<1>5. DaysPast'
  BY <1>1, <1>2 DEF IInv, DaysPast, TypeOK
<1>6. today <= today'
  BY <1>1 DEF IInv, TypeOK
<1>7. TableSound' /\ SnapsSound'
  BY <1>1, <1>3, <1>6, UntouchedRows DEF TableSound, SnapsSound
<1> QED
  BY <1>3, <1>4, <1>5, <1>7 DEF IInv

LEMMA QueryInv ==
    ASSUME IInv, NEW w \in Workers, Query(w)
    PROVE  IInv'
<1> USE BoundsAssumption
<1>1. /\ UNCHANGED <<queueVars, table, today, tasks, batch, day, pipe, redisVars>>
      /\ \A v \in Workers : \A s \in Stations :
           snap'[v][s] \in {snap[v][s], table[s], NoRow}
      /\ pc' \in [Workers -> {"idle", "dequeued", "queried", "written", "committed"}]
  BY DEF Query, IInv, TypeOK
<1>2. /\ consumed \in SUBSET Obs /\ today \in Nat
      /\ \A s \in Stations : /\ NoRow \in Row(Positions)
                             /\ RowSound(NoRow, s, consumed, today)
  BY NoRowSound DEF IInv, TypeOK
<1>3. snap' \in [Workers -> [Stations -> Row(Positions)]]
  BY <1>2 DEF Query, IInv, TypeOK
<1>4. TypeOK'
  BY <1>1, <1>3 DEF IInv, TypeOK, queueVars, redisVars
<1>5. OnePlace' /\ DaysPast' /\ TableSound'
  BY <1>1 DEF IInv, OnePlace, DaysPast, TableSound, queueVars
<1>6. SnapsSound'
  BY <1>1, <1>2 DEF IInv, SnapsSound, TableSound, queueVars
<1> QED
  BY <1>4, <1>5, <1>6 DEF IInv

LEMMA FollowUpInv ==
    ASSUME IInv, NEW w \in Workers, FollowUp(w)
    PROVE  IInv'
<1>1. /\ UNCHANGED <<queueVars, table, today, batch, day, snap, pipe, redisVars>>
      /\ tasks' \in 0..MaxTasks
      /\ pc' \in [Workers -> {"idle", "dequeued", "queried", "written", "committed"}]
  BY BoundsAssumption DEF FollowUp, Sent, IInv, TypeOK
<1> QED
  BY <1>1 DEF IInv, TypeOK, OnePlace, DaysPast, TableSound, SnapsSound,
              queueVars, redisVars

\* The rows a commit writes are sound for the batches committed with it.
LEMMA WrittenSound ==
    ASSUME IInv, NEW w \in Workers, NEW s \in Updates(w)
    PROVE  /\ s \in Stations
           /\ NewRow(w, s) \in Row(Positions)
           /\ RowSound(NewRow(w, s), s, consumed \cup batch[w], today)
<1>1. /\ batch[w] \in SUBSET Obs /\ consumed \in SUBSET Obs
      /\ consumed \cap batch[w] = {}
      /\ day[w] \in Nat /\ today \in Nat /\ 1 <= day[w] /\ day[w] <= today
  BY BoundsAssumption DEF IInv, TypeOK, OnePlace, DaysPast
<1>2. s \in Stations /\ ~Blocked(snap[w][s], day[w])
  BY <1>1, ObsAssumption DEF Updates, Keys
<1>3. /\ snap[w][s] \in Row(Positions)
      /\ RowSound(snap[w][s], s, consumed, today)
  BY <1>2 DEF IInv, TypeOK, SnapsSound
<1> QED
  BY <1>1, <1>2, <1>3, SoundValues DEF NewRow

LEMMA CommitInv ==
    ASSUME IInv, NEW w \in Workers, Commit(w)
    PROVE  IInv'
<1>1. /\ UNCHANGED <<queue, lost, today, tasks, day, redisVars>>
      /\ consumed' = consumed \cup batch[w]
      /\ batch' = [batch EXCEPT ![w] = {}]
      /\ snap' = [snap EXCEPT ![w] = NoSnap]
      /\ pipe' = [pipe EXCEPT ![w] = Piped(w)]
      /\ table' = [s \in Stations |->
                      IF s \in Updates(w) THEN Written(w, s) ELSE table[s]]
      /\ pc' \in [Workers -> {"idle", "dequeued", "queried", "written", "committed"}]
  BY DEF Commit, IInv, TypeOK
<1>2. /\ consumed' \in SUBSET Obs
      /\ batch' \in [Workers -> SUBSET Obs]
      /\ today \in Nat
  BY <1>1, BoundsAssumption DEF IInv, TypeOK
<1>3. \A s \in Stations : /\ NoRow \in Row(Positions)
                          /\ RowSound(NoRow, s, consumed', today')
  BY <1>1, <1>2, NoRowSound
<1>4. snap' \in [Workers -> [Stations -> Row(Positions)]]
  BY <1>1, <1>3 DEF IInv, TypeOK, NoSnap
<1>5. table' \in [Stations -> Row(Positions)]
  <2>1. \A s \in Updates(w) : Written(w, s) \in Row(Positions)
    BY WrittenSound DEF Written, IInv, TypeOK
  <2> QED
    BY <1>1, <2>1 DEF IInv, TypeOK
<1>6. pipe' \in [Workers -> [new : Nat, areas : SUBSET Areas]]
  <2>1. Updates(w) \subseteq Stations
    BY WrittenSound
  <2>2. Cardinality({s \in Updates(w) : snap[w][s] = NoRow}) \in Nat
    <3>1. {s \in Updates(w) : snap[w][s] = NoRow} \in SUBSET Stations
      BY <2>1
    <3> QED
      BY <3>1, StationsAssumption, FS_Subset, FS_CardinalityType
  <2>3. UNION {AreaOf[s] : s \in Updates(w)} \subseteq Areas
    BY <2>1, StationsAssumption
  <2>4. Piped(w) \in [new : Nat, areas : SUBSET Areas]
    BY <2>2, <2>3 DEF Piped
  <2> QED
    BY <1>1, <2>4 DEF IInv, TypeOK
<1>7. TypeOK'
  BY <1>1, <1>2, <1>4, <1>5, <1>6 DEF IInv, TypeOK, redisVars
<1>8. OnePlace'
  <2>1. /\ batch[w] \cap queue = {} /\ batch[w] \cap lost = {}
        /\ \A v \in Workers : v # w => batch[v] \cap batch[w] = {}
        /\ \A v \in Workers : batch'[v] = IF v = w THEN {} ELSE batch[v]
    BY <1>1 DEF IInv, OnePlace, TypeOK
  <2> QED
    BY <1>1, <2>1 DEF IInv, OnePlace
<1>9. DaysPast'
  BY <1>1 DEF IInv, DaysPast
<1>10. /\ \A s \in Stations : RowSound(table[s], s, consumed', today')
       /\ \A v \in Workers : \A s \in Stations :
            RowSound(snap[v][s], s, consumed', today')
  <2>1. consumed \subseteq consumed' /\ today <= today'
    BY <1>1, <1>2
  <2> QED
    BY <2>1, <1>7, UntouchedRows
<1>11. TableSound'
  <2>1. SUFFICES ASSUME NEW s \in Stations
                 PROVE  RowSound(table'[s], s, consumed', today')
    BY DEF TableSound
  <2>2. CASE table'[s] = table[s]
    BY <2>2, <1>10
  <2>3. CASE table'[s] # table[s]
    <3>1. s \in Updates(w) /\ table'[s] = NewRow(w, s)
      BY <2>3, <1>1 DEF Written
    <3> QED
      BY <3>1, <1>1, WrittenSound
  <2> QED
    BY <2>2, <2>3
<1>12. SnapsSound'
  <2>1. \A v \in Workers : \A s \in Stations :
           snap'[v][s] \in {snap[v][s], NoRow}
    BY <1>1 DEF IInv, TypeOK, NoSnap
  <2> QED
    BY <2>1, <1>3, <1>10 DEF SnapsSound
<1> QED
  BY <1>7, <1>8, <1>9, <1>11, <1>12 DEF IInv

\* What is left of a worker when its task has ended.
LEMMA EndTaskState ==
    ASSUME IInv, NEW w \in Workers, EndTask(w)
    PROVE  /\ pc' \in [Workers -> {"idle", "dequeued", "queried", "written", "committed"}]
           /\ batch' \in [Workers -> SUBSET Obs]
           /\ \A v \in Workers : batch'[v] = IF v = w THEN {} ELSE batch[v]
           /\ day' \in [Workers -> 1..MaxDay]
           /\ \A v \in Workers : day'[v] = IF v = w THEN 1 ELSE day[v]
           /\ snap' \in [Workers -> [Stations -> Row(Positions)]]
           /\ \A v \in Workers : \A s \in Stations :
                snap'[v][s] \in {snap[v][s], NoRow}
           /\ pipe' \in [Workers -> [new : Nat, areas : SUBSET Areas]]
<1>1. \A s \in Stations : NoRow \in Row(Positions)
  BY NoRowSound, ObsAssumption
<1>2. NoPipe \in [new : Nat, areas : SUBSET Areas]
  BY DEF NoPipe
<1>3. NoSnap \in [Stations -> Row(Positions)]
  BY <1>1 DEF NoSnap
<1>4. 1 \in 1..MaxDay
  BY BoundsAssumption
<1> QED
  BY <1>2, <1>3, <1>4 DEF EndTask, IInv, TypeOK, NoSnap

LEMMA ExecutePipeInv ==
    ASSUME IInv, NEW w \in Workers, ExecutePipe(w)
    PROVE  IInv'
<1>1. /\ UNCHANGED <<queueVars, table, today, tasks, pipeLost>>
      /\ EndTask(w)
      /\ areaUpdates' = areaUpdates \cup pipe[w].areas
      /\ newStations' = newStations + pipe[w].new
      /\ batch[w] \cap queue = {}
  BY DEF ExecutePipe, IInv, OnePlace
<1>2. pipe[w] \in [new : Nat, areas : SUBSET Areas]
  BY DEF IInv, TypeOK
<1>3. areaUpdates' \subseteq Areas /\ newStations' \in Nat
  BY <1>1, <1>2 DEF IInv, TypeOK
<1>4. TypeOK'
  BY <1>1, <1>3, EndTaskState DEF IInv, TypeOK, queueVars
<1>5. OnePlace'
  BY <1>1, EndTaskState DEF IInv, OnePlace, queueVars
<1>6. DaysPast'
  <2>1. today \in Nat /\ 1 <= today /\ today' = today
    BY <1>1, BoundsAssumption DEF IInv, TypeOK
  <2>2. \A v \in Workers : day'[v] \in {day[v], 1}
    BY <1>1, EndTaskState
  <2> QED
    BY <2>1, <2>2 DEF IInv, DaysPast
<1>7. TableSound'
  BY <1>1 DEF IInv, TableSound, queueVars
<1>8. SnapsSound'
  <2>1. /\ consumed \in SUBSET Obs /\ today \in Nat
        /\ consumed' = consumed /\ today' = today
    BY <1>1, BoundsAssumption DEF IInv, TypeOK, queueVars
  <2>2. \A s \in Stations : RowSound(NoRow, s, consumed, today)
    BY <2>1, NoRowSound
  <2>3. \A v \in Workers : \A s \in Stations :
           snap'[v][s] \in {snap[v][s], NoRow}
    BY <1>1, EndTaskState
  <2> QED
    BY <2>1, <2>2, <2>3 DEF IInv, SnapsSound
<1> QED
  BY <1>4, <1>5, <1>6, <1>7, <1>8 DEF IInv

LEMMA FailInv ==
    ASSUME IInv, NEW w \in Workers, Fail(w)
    PROVE  IInv'
<1>1. /\ UNCHANGED <<queue, consumed, table, today, areaUpdates, newStations>>
      /\ EndTask(w)
      /\ lost' = lost \cup batch[w]
      /\ tasks' \in 0..MaxTasks
      /\ pipeLost' \in BOOLEAN
      /\ batch[w] \in SUBSET Obs
  BY BoundsAssumption DEF Fail, Sent, IInv, TypeOK
<1>2. TypeOK'
  BY <1>1, EndTaskState DEF IInv, TypeOK
<1>3. OnePlace'
  <2>1. /\ batch[w] \cap queue = {} /\ batch[w] \cap consumed = {}
        /\ \A v \in Workers : v # w => batch[v] \cap batch[w] = {}
        /\ \A v \in Workers : batch'[v] = IF v = w THEN {} ELSE batch[v]
    BY <1>1, EndTaskState DEF IInv, OnePlace
  <2> QED
    BY <1>1, <2>1 DEF IInv, OnePlace
<1>4. DaysPast'
  <2>1. today \in Nat /\ 1 <= today /\ today' = today
    BY <1>1, BoundsAssumption DEF IInv, TypeOK
  <2>2. \A v \in Workers : day'[v] \in {day[v], 1}
    BY <1>1, EndTaskState
  <2> QED
    BY <2>1, <2>2 DEF IInv, DaysPast
<1>5. TableSound'
  BY <1>1 DEF IInv, TableSound
<1>6. SnapsSound'
  <2>1. /\ consumed \in SUBSET Obs /\ today \in Nat
        /\ consumed' = consumed /\ today' = today
    BY <1>1, BoundsAssumption DEF IInv, TypeOK
  <2>2. \A s \in Stations : RowSound(NoRow, s, consumed, today)
    BY <2>1, NoRowSound
  <2>3. \A v \in Workers : \A s \in Stations :
           snap'[v][s] \in {snap[v][s], NoRow}
    BY <1>1, EndTaskState
  <2> QED
    BY <2>1, <2>2, <2>3 DEF IInv, SnapsSound
<1> QED
  BY <1>2, <1>3, <1>4, <1>5, <1>6 DEF IInv

LEMMA NextInv == IInv /\ [Next]_vars => IInv'
<1> SUFFICES ASSUME IInv, [Next]_vars
             PROVE  IInv'
  OBVIOUS
<1>1. CASE \/ \E S \in SUBSET Obs : Submit(S)
           \/ Expire \/ NextDay \/ Beat \/ TaskExpires
  BY <1>1, EnvironmentInv
<1>2. ASSUME NEW w \in Workers, NEW S \in SUBSET queue, Dequeue(w, S)
      PROVE  IInv'
  BY <1>2, DequeueInv
<1>3. ASSUME NEW w \in Workers, Step(w)
      PROVE  IInv'
  BY <1>3, QueryInv, FollowUpInv, CommitInv, ExecutePipeInv DEF Step
<1>4. ASSUME NEW w \in Workers, Fail(w)
      PROVE  IInv'
  BY <1>4, FailInv
<1>5. CASE UNCHANGED vars
  BY <1>5 DEF vars, queueVars, workerVars, redisVars, IInv, TypeOK, OnePlace,
              DaysPast, TableSound, SnapsSound
<1> QED
  BY <1>1, <1>2, <1>3, <1>4, <1>5 DEF Next

-----------------------------------------------------------------------------
\* Every reachable state satisfies the inductive invariant.
THEOREM Invariance == Spec => []IInv
  BY InitInv, NextInv, PTL DEF Spec

\* All variables of the updater tasks stay within their types.
THEOREM TypeCorrect == Spec => []TypeOK
<1>1. IInv => TypeOK
  BY DEF IInv
<1> QED
  BY <1>1, Invariance, PTL

\* A blocked station has no position, however many tasks overlap on its table
\* and wherever they fail (station.py:112-139, station.py:179-197).
THEOREM BlockedNotLocated == Spec => []BlockedHasNoPosition
<1>1. IInv => BlockedHasNoPosition
  BY DEF IInv, TableSound, RowSound, BlockedHasNoPosition
<1> QED
  BY <1>1, Invariance, PTL

\* An observation is counted in the samples of its station at most once
\* (station.py:156, station.py:211), across overlapping and repeated tasks.
THEOREM SamplesBounded == Spec => []SamplesAreObserved
<1>1. IInv => SamplesAreObserved
  BY DEF IInv, TableSound, RowSound, SamplesAreObserved
<1> QED
  BY <1>1, Invariance, PTL

\* The box of a station is made of observations of that station and within the
\* reach of one station (station.py:107-112, station.py:176-179).
THEOREM BoxObserved == Spec => []BoxIsObserved
<1>1. IInv => BoxIsObserved
  BY DEF IInv, TableSound, RowSound, BoxIsObserved
<1> QED
  BY <1>1, Invariance, PTL

\* The block count never passes the threshold and the block dates agree with
\* it (station.py:115-119, station.py:135-137).
THEOREM BlockHistoryKept == Spec => []BlockHistory
<1>1. IInv => BlockHistory
  BY DEF IInv, TableSound, RowSound, BlockHistory
<1> QED
  BY <1>1, Invariance, PTL

-----------------------------------------------------------------------------
(* Refinement: tasks and queue together hand over each observation once.   *)

\* A worker that runs no task, or has committed, holds no batch.
NothingHeld ==
    \A w \in Workers : pc[w] \in {"idle", "committed"} => batch[w] = {}

LEMMA NothingHeldStep ==
    TypeOK /\ NothingHeld /\ [Next]_vars => NothingHeld'
<1> SUFFICES ASSUME TypeOK, NothingHeld, [Next]_vars
             PROVE  NothingHeld'
  OBVIOUS
<1> USE DEF NothingHeld
<1>1. CASE UNCHANGED workerVars
  BY <1>1 DEF workerVars
<1>2. ASSUME NEW w \in Workers, NEW S \in SUBSET queue, Dequeue(w, S),
             ~UNCHANGED workerVars
      PROVE  NothingHeld'
  BY <1>2 DEF Dequeue, TypeOK
<1>3. ASSUME NEW w \in Workers, Query(w) \/ FollowUp(w)
      PROVE  NothingHeld'
  BY <1>3 DEF Query, FollowUp, TypeOK
<1>4. ASSUME NEW w \in Workers, Commit(w)
      PROVE  NothingHeld'
  BY <1>4 DEF Commit, TypeOK
<1>5. ASSUME NEW w \in Workers, ExecutePipe(w) \/ Fail(w)
      PROVE  NothingHeld'
  BY <1>5 DEF ExecutePipe, Fail, EndTask, TypeOK
<1>6. \/ UNCHANGED workerVars
      \/ \E w \in Workers :
           \/ \E S \in SUBSET queue : Dequeue(w, S)
           \/ Step(w)
           \/ Fail(w)
  BY DEF Next, Submit, Expire, NextDay, Beat, TaskExpires, vars
<1> QED
  BY <1>1, <1>2, <1>3, <1>4, <1>5, <1>6 DEF Step

LEMMA NothingHeldInvariant == Spec => []NothingHeld
<1>1. Init => NothingHeld
  BY DEF Init, NothingHeld
<1> QED
  BY <1>1, NothingHeldStep, TypeCorrect, PTL DEF Spec

Held == UNION {batch[w] : w \in Workers}

\* Every step of the tasks is a step of the at-most-once queue or a stutter:
\* a Submit puts, an Expire and a Fail lose, a Commit delivers.
LEMMA AbstractStep ==
    IInv /\ NothingHeld /\ [Next]_vars => [Abstract!Next]_(Abstract!vars)
<1> SUFFICES ASSUME IInv, NothingHeld, [Next]_vars
             PROVE  Abstract!Next \/ UNCHANGED Abstract!vars
  OBVIOUS
<1>1. /\ queue \subseteq Obs /\ Held \subseteq Obs
      /\ batch \in [Workers -> SUBSET Obs]
  BY DEF IInv, TypeOK, Held
<1>2. ASSUME NEW S \in SUBSET Obs, Submit(S)
      PROVE  Abstract!Put(S)
  BY <1>2 DEF Submit, workerVars, Abstract!Put, Abstract!Fresh
<1>3. ASSUME Expire
      PROVE  Abstract!Lose(queue)
  <2>1. /\ Held' = Held /\ Held \cap queue = {}
    BY <1>3 DEF Expire, workerVars, Held, IInv, OnePlace
  <2> QED
    BY <1>3, <2>1 DEF Expire, Abstract!Lose, Held
<1>4. CASE NextDay \/ Beat \/ TaskExpires
  BY <1>4 DEF NextDay, Beat, TaskExpires, queueVars, workerVars, Abstract!vars
<1>5. ASSUME NEW w \in Workers, NEW S \in SUBSET queue, Dequeue(w, S)
      PROVE  UNCHANGED Abstract!vars
  <2>1. queue' = queue \ S /\ UNCHANGED <<consumed, lost>>
    BY <1>5 DEF Dequeue, Rest
  <2>2. \A v \in Workers : batch'[v] = IF v = w THEN batch[v] \cup S ELSE batch[v]
    <3>1. CASE S = {}
      BY <1>5, <3>1 DEF Dequeue, workerVars
    <3>2. CASE S # {}
      BY <1>1, <1>5, <3>2 DEF Dequeue, NothingHeld
    <3> QED
      BY <3>1, <3>2
  <2>3. Held' = Held \cup S
    BY <2>2 DEF Held
  <2> QED
    BY <2>1, <2>3 DEF Abstract!vars, Held
<1>6. ASSUME NEW w \in Workers, Query(w) \/ FollowUp(w)
      PROVE  UNCHANGED Abstract!vars
  BY <1>6 DEF Query, FollowUp, queueVars, Abstract!vars
<1>7. ASSUME NEW w \in Workers, batch' = [batch EXCEPT ![w] = {}]
      PROVE  /\ Held' = Held \ batch[w]
             /\ batch[w] \subseteq Held
             /\ batch[w] \cap queue = {}
  <2>1. \A v \in Workers : batch'[v] = IF v = w THEN {} ELSE batch[v]
    BY <1>1, <1>7
  <2>2. \A v \in Workers : v # w => batch[v] \cap batch[w] = {}
    BY DEF IInv, OnePlace
  <2>3. batch[w] \cap queue = {}
    BY DEF IInv, OnePlace
  <2> QED
    BY <2>1, <2>2, <2>3 DEF Held
<1>8. ASSUME NEW w \in Workers, Commit(w)
      PROVE  Abstract!Take(batch[w])
  BY <1>7, <1>8 DEF Commit, Abstract!Take, Held
<1>9. ASSUME NEW w \in Workers, ExecutePipe(w)
      PROVE  UNCHANGED Abstract!vars
  <2>1. batch[w] = {}
    BY <1>9 DEF ExecutePipe, NothingHeld
  <2>2. Held' = Held
    BY <1>7, <1>9, <2>1 DEF ExecutePipe, EndTask
  <2> QED
    BY <1>9, <2>2 DEF ExecutePipe, queueVars, Abstract!vars, Held
<1>10. ASSUME NEW w \in Workers, Fail(w)
       PROVE  Abstract!Lose(batch[w])
  BY <1>7, <1>10 DEF Fail, EndTask, Abstract!Lose, Held
<1>11. CASE UNCHANGED vars
  BY <1>11 DEF vars, queueVars, workerVars, Abstract!vars
<1>12. /\ \A w \in Workers : batch[w] \in SUBSET Obs
       /\ queue \in SUBSET Obs
  BY <1>1
<1>13. ASSUME NEW S \in SUBSET Obs, Submit(S)
       PROVE  Abstract!Next
  BY <1>2, <1>13 DEF Abstract!Next
<1>14. CASE Expire
  <2>1. queue \in SUBSET Obs /\ Abstract!Lose(queue)
    BY <1>3, <1>12, <1>14
  <2> QED
    BY <2>1 DEF Abstract!Next, Abstract!Put, Abstract!Take, Abstract!Lose
<1>15. ASSUME NEW w \in Workers, Commit(w)
       PROVE  Abstract!Next
  <2>1. batch[w] \in SUBSET Obs /\ Abstract!Take(batch[w])
    BY <1>8, <1>12, <1>15
  <2> QED
    BY <2>1 DEF Abstract!Next, Abstract!Put, Abstract!Take, Abstract!Lose
<1>16. ASSUME NEW w \in Workers, Fail(w)
       PROVE  Abstract!Next
  <2>1. batch[w] \in SUBSET Obs /\ Abstract!Lose(batch[w])
    BY <1>10, <1>12, <1>16
  <2> QED
    BY <2>1 DEF Abstract!Next, Abstract!Put, Abstract!Take, Abstract!Lose
<1>17. ASSUME NEW w \in Workers, Step(w)
       PROVE  Abstract!Next \/ UNCHANGED Abstract!vars
  BY <1>6, <1>9, <1>15, <1>17 DEF Step
<1>18. CASE Next
  BY <1>4, <1>5, <1>13, <1>14, <1>16, <1>17, <1>18 DEF Next
<1> QED
  BY <1>11, <1>18

\* An observation that entered the queue is consumed by one committed batch or
\* lost, never both and never twice (station.py:314-316, tasks.py:121-138).
THEOREM Refinement == Spec => ImplementsAtMostOnce
<1>1. Init => Abstract!Init
  BY DEF Init, Abstract!Init
<1> QED
  BY <1>1, AbstractStep, Invariance, NothingHeldInvariant, PTL
  DEF Spec, ImplementsAtMostOnce, Abstract!Spec

-----------------------------------------------------------------------------
(* With one task at a time.                                                *)

\* The rows of the batch, as read, are still the rows of the table.
SnapIsFresh ==
    \A w \in Workers : pc[w] \in {"queried", "written"} =>
        \A s \in Keys(batch[w]) : snap[w][s] = table[s]

\* A task that is alone has the rows of its stations as they are.
LEMMA SnapIsFreshStep ==
    ASSUME NEW w0, Workers = {w0}
    PROVE  TypeOK /\ SnapIsFresh /\ [Next]_vars => SnapIsFresh'
<1> SUFFICES ASSUME TypeOK, SnapIsFresh, [Next]_vars
             PROVE  SnapIsFresh'
  OBVIOUS
<1> USE DEF SnapIsFresh
<1>1. CASE UNCHANGED <<workerVars, table>>
  BY <1>1 DEF workerVars, Keys
<1>2. ASSUME NEW S \in SUBSET queue, Dequeue(w0, S), ~UNCHANGED workerVars
      PROVE  SnapIsFresh'
  BY <1>2 DEF Dequeue, TypeOK
<1>3. CASE Query(w0)
  <2>1. /\ batch' = batch /\ table' = table
        /\ \A s \in Keys(batch[w0]) : s \in Stations
    BY <1>3, ObsAssumption DEF Query, Keys, TypeOK
  <2>2. \A s \in Keys(batch[w0]) : snap'[w0][s] = table[s]
    BY <1>3, <2>1 DEF Query, TypeOK
  <2> QED
    BY <2>1, <2>2 DEF Keys
<1>4. CASE FollowUp(w0)
  BY <1>4 DEF FollowUp, TypeOK, Keys
<1>5. CASE Commit(w0) \/ ExecutePipe(w0) \/ Fail(w0)
  BY <1>5 DEF Commit, ExecutePipe, Fail, EndTask, TypeOK
<1>6. \/ UNCHANGED <<workerVars, table>>
      \/ \E S \in SUBSET queue : Dequeue(w0, S) /\ ~UNCHANGED workerVars
      \/ Query(w0) \/ FollowUp(w0) \/ Commit(w0) \/ ExecutePipe(w0) \/ Fail(w0)
  BY DEF Next, Step, Submit, Expire, NextDay, Beat, TaskExpires, vars, Dequeue
<1> QED
  BY <1>1, <1>2, <1>3, <1>4, <1>5, <1>6

\* If the tasks of one queue never overlap, a blocked station's row is not
\* touched while the block lasts (station.py:273-276).
THEOREM BlockedFrozen ==
    ASSUME NEW w0, Workers = {w0}
    PROVE  Spec => BlockedRowIsFrozen
<1>1. Init => SnapIsFresh
  BY DEF Init, SnapIsFresh
<1>2. Spec => []SnapIsFresh
  BY <1>1, SnapIsFreshStep, TypeCorrect, PTL DEF Spec
<1>3. IInv /\ SnapIsFresh /\ [Next]_vars =>
        [\A s \in Stations : Blocked(table[s], today) => table'[s] = table[s]]_vars
  <2>1. SUFFICES ASSUME IInv, SnapIsFresh, Commit(w0),
                        NEW s \in Stations, Blocked(table[s], today)
                 PROVE  table'[s] = table[s]
    <3>1. [Next]_vars => Commit(w0) \/ table' = table
      BY DEF Next, Step, Submit, Expire, NextDay, Beat, TaskExpires, Dequeue,
             Query, FollowUp, ExecutePipe, Fail, vars
    <3> QED
      BY <3>1
  <2>2. s \notin Updates(w0)
    <3>1. SUFFICES ASSUME s \in Updates(w0)
                   PROVE  FALSE
      OBVIOUS
    <3>2. snap[w0][s] = table[s]
      BY <2>1, <3>1 DEF Commit, SnapIsFresh, Updates
    <3>3. /\ table[s] \in Row(Positions)
          /\ today \in Nat /\ day[w0] \in Nat /\ day[w0] <= today
      BY <2>1, BoundsAssumption DEF IInv, TypeOK, DaysPast
    <3>4. Blocked(table[s], day[w0])
      BY <2>1, <3>3, RecordAssumption DEF Blocked, Row
    <3> QED
      BY <3>1, <3>2, <3>4 DEF Updates
  <2> QED
    BY <2>1, <2>2 DEF Commit
<1> QED
  BY <1>2, <1>3, Invariance, PTL DEF Spec, BlockedRowIsFrozen

-----------------------------------------------------------------------------
(* The pipeline: area updates, and the count of new stations.              *)

Rows == {s \in Stations : table[s] # NoRow}

AreasOfRows == UNION {AreaOf[s] : s \in Rows}

PipesEmpty == \A w \in Workers : pc[w] # "committed" => pipe[w] = NoPipe

PipedAreasHaveRows == \A w \in Workers : pipe[w].areas \subseteq AreasOfRows

AreaInv ==
    /\ PipesEmpty
    /\ PipedAreasHaveRows /\ RowsBeforeAreas
    /\ AreasAreUpdated

\* A row that a task computes says that the station was seen or has moved: it
\* is not the row of a station that is not there.
LEMMA NewRowIsRow ==
    ASSUME IInv, NEW w \in Workers, NEW s \in Updates(w)
    PROVE  s \in Stations /\ NewRow(w, s) # NoRow
<1> DEFINE O == ObsOf(s, batch[w])
           n == Cardinality(O)
           row == snap[w][s]
<1>1. batch[w] \in SUBSET Obs /\ O # {}
  BY DEF IInv, TypeOK, Updates, Keys, ObsOf
<1>2. n \in Nat /\ n # 0
  BY <1>1, ObsOfFinite, FS_EmptySet
<1>3. s \in Stations /\ row \in Row(Positions)
  <2>1. s \in Stations
    BY WrittenSound
  <2>2. snap \in [Workers -> [Stations -> Row(Positions)]]
    BY DEF IInv, TypeOK
  <2> QED
    BY <2>1, <2>2
<1> HIDE DEF O, n, row
<1>4. row.count \in Nat /\ row.samples \in Nat
  BY <1>3 DEF Row
<1>5. Moved(row, day[w]) # NoRow
  BY <1>4 DEF Moved, NoRow
<1>6. Merged(row, PositionsOf(O), n) # NoRow
  <2>1. Merged(row, PositionsOf(O), n).samples = row.samples + n
    BY <1>3 DEF Merged, Row
  <2> QED
    BY <1>2, <1>4, <2>1 DEF NoRow
<1> QED
  BY <1>3, <1>5, <1>6 DEF NewRow, StationValues, O, n, row

\* What a commit does to the table: the stations it updates are in it, and the
\* others are in it if they were.
LEMMA CommitRows ==
    ASSUME IInv, NEW w \in Workers, Commit(w)
    PROVE  Updates(w) \subseteq Stations /\ Rows' = Rows \cup Updates(w)
<1>1. table' = [s \in Stations |-> IF s \in Updates(w) THEN Written(w, s) ELSE table[s]]
  BY DEF Commit
<1>2. Updates(w) \subseteq Stations
  BY NewRowIsRow
<1>3. \A s \in Updates(w) : Written(w, s) # NoRow
  BY NewRowIsRow DEF Written
<1>4. \A s \in Stations : table'[s] # NoRow <=> table[s] # NoRow \/ s \in Updates(w)
  BY <1>1, <1>3
<1> QED
  BY <1>2, <1>4 DEF Rows

\* What becomes of a pipeline: it is filled by a commit, and is executed or
\* lost as a whole.
LEMMA PipeSteps ==
    ASSUME IInv, PipesEmpty, [Next]_vars
    PROVE  \/ /\ UNCHANGED <<pipe, areaUpdates, newStations, pipeLost, table>>
              /\ PipesEmpty'
           \/ \E w \in Workers :
                /\ Commit(w)
                /\ pipe[w] = NoPipe
                /\ \A v \in Workers : pipe'[v] = IF v = w THEN Piped(w) ELSE pipe[v]
                /\ UNCHANGED <<areaUpdates, newStations, pipeLost>>
                /\ PipesEmpty'
           \/ \E w \in Workers :
                /\ \A v \in Workers : pipe'[v] = IF v = w THEN NoPipe ELSE pipe[v]
                /\ UNCHANGED table
                /\ PipesEmpty'
                /\ \/ /\ areaUpdates' = areaUpdates \cup pipe[w].areas
                      /\ newStations' = newStations + pipe[w].new
                      /\ UNCHANGED pipeLost
                   \/ /\ UNCHANGED <<areaUpdates, newStations>>
                      /\ pipe[w] = NoPipe \/ pipeLost'
                      /\ pipeLost => pipeLost'
<1>1. /\ pc \in [Workers -> {"idle", "dequeued", "queried", "written", "committed"}]
      /\ pipe \in [Workers -> [new : Nat, areas : SUBSET Areas]]
  BY DEF IInv, TypeOK
<1>2. CASE UNCHANGED <<pc, pipe, areaUpdates, newStations, pipeLost, table>>
  BY <1>2 DEF PipesEmpty
<1>3. ASSUME NEW w \in Workers, NEW S \in SUBSET queue, Dequeue(w, S)
      PROVE  /\ UNCHANGED <<pipe, areaUpdates, newStations, pipeLost, table>>
             /\ PipesEmpty'
  BY <1>1, <1>3 DEF Dequeue, workerVars, redisVars, PipesEmpty
<1>4. ASSUME NEW w \in Workers, Query(w) \/ FollowUp(w)
      PROVE  /\ UNCHANGED <<pipe, areaUpdates, newStations, pipeLost, table>>
             /\ PipesEmpty'
  BY <1>1, <1>4 DEF Query, FollowUp, redisVars, PipesEmpty
<1>5. ASSUME NEW w \in Workers, Commit(w)
      PROVE  /\ pipe[w] = NoPipe
             /\ \A v \in Workers : pipe'[v] = IF v = w THEN Piped(w) ELSE pipe[v]
             /\ UNCHANGED <<areaUpdates, newStations, pipeLost>>
             /\ PipesEmpty'
  BY <1>1, <1>5 DEF Commit, redisVars, PipesEmpty
<1>6. ASSUME NEW w \in Workers, EndTask(w)
      PROVE  /\ \A v \in Workers : pipe'[v] = IF v = w THEN NoPipe ELSE pipe[v]
             /\ PipesEmpty'
  BY <1>1, <1>6 DEF EndTask, PipesEmpty
<1>7. ASSUME NEW w \in Workers, ExecutePipe(w)
      PROVE  /\ areaUpdates' = areaUpdates \cup pipe[w].areas
             /\ newStations' = newStations + pipe[w].new
             /\ UNCHANGED <<pipeLost, table>>
  BY <1>7 DEF ExecutePipe
<1>8. ASSUME NEW w \in Workers, Fail(w)
      PROVE  /\ UNCHANGED <<areaUpdates, newStations, table>>
             /\ pipe[w] = NoPipe \/ pipeLost'
             /\ pipeLost => pipeLost'
  BY <1>8 DEF Fail, PipesEmpty
<1>9. \A w \in Workers : ExecutePipe(w) \/ Fail(w) => EndTask(w)
  BY DEF ExecutePipe, Fail
<1>10. \/ UNCHANGED <<pc, pipe, areaUpdates, newStations, pipeLost, table>>
       \/ \E w \in Workers :
            \/ \E S \in SUBSET queue : Dequeue(w, S)
            \/ Query(w) \/ FollowUp(w) \/ Commit(w) \/ ExecutePipe(w) \/ Fail(w)
  BY DEF Next, Step, Submit, Expire, NextDay, Beat, TaskExpires, vars, workerVars, redisVars
<1> QED
  BY <1>2, <1>3, <1>4, <1>5, <1>6, <1>7, <1>8, <1>9, <1>10

LEMMA AreaInvStep ==
    IInv /\ AreaInv /\ [Next]_vars => AreaInv'
<1> SUFFICES ASSUME IInv, AreaInv, [Next]_vars
             PROVE  AreaInv'
  OBVIOUS
<1>1. /\ PipesEmpty
      /\ areaUpdates \subseteq AreasOfRows
      /\ \A w \in Workers : pipe[w].areas \subseteq AreasOfRows
      /\ ~pipeLost => AreasOfRows \subseteq areaUpdates \cup UNION {pipe[w].areas : w \in Workers}
  BY DEF AreaInv, PipedAreasHaveRows, RowsBeforeAreas, AreasAreUpdated, AreasOfRows, Rows
<1>2. SUFFICES /\ PipesEmpty'
               /\ areaUpdates' \subseteq AreasOfRows'
               /\ \A w \in Workers : pipe'[w].areas \subseteq AreasOfRows'
               /\ ~pipeLost' =>
                     AreasOfRows' \subseteq areaUpdates' \cup UNION {pipe'[w].areas : w \in Workers}
  BY DEF AreaInv, PipedAreasHaveRows, RowsBeforeAreas, AreasAreUpdated, AreasOfRows, Rows
<1>3. NoPipe.areas = {}
  BY DEF NoPipe
<1>4. CASE UNCHANGED <<pipe, areaUpdates, newStations, pipeLost, table>> /\ PipesEmpty'
  <2>1. AreasOfRows' = AreasOfRows
    BY <1>4 DEF AreasOfRows, Rows
  <2> QED
    BY <1>1, <1>4, <2>1
<1>5. ASSUME NEW w \in Workers, Commit(w), pipe[w] = NoPipe,
             \A v \in Workers : pipe'[v] = IF v = w THEN Piped(w) ELSE pipe[v],
             UNCHANGED <<areaUpdates, newStations, pipeLost>>
      PROVE  /\ areaUpdates' \subseteq AreasOfRows'
             /\ \A v \in Workers : pipe'[v].areas \subseteq AreasOfRows'
             /\ ~pipeLost' =>
                   AreasOfRows' \subseteq areaUpdates' \cup UNION {pipe'[v].areas : v \in Workers}
  <2>1. Piped(w).areas = UNION {AreaOf[s] : s \in Updates(w)}
    BY DEF Piped
  <2>2. Rows' = Rows \cup Updates(w)
    BY <1>5, CommitRows
  <2>3. AreasOfRows' = AreasOfRows \cup Piped(w).areas
    BY <2>1, <2>2 DEF AreasOfRows
  <2>4. UNION {pipe[v].areas : v \in Workers} \subseteq UNION {pipe'[v].areas : v \in Workers}
    BY <1>3, <1>5
  <2>5. Piped(w).areas \subseteq UNION {pipe'[v].areas : v \in Workers}
    BY <1>5
  <2> QED
    BY <1>1, <1>5, <2>3, <2>4, <2>5
<1>6. ASSUME NEW w \in Workers,
             \A v \in Workers : pipe'[v] = IF v = w THEN NoPipe ELSE pipe[v],
             UNCHANGED table,
             \/ /\ areaUpdates' = areaUpdates \cup pipe[w].areas
                /\ UNCHANGED pipeLost
             \/ /\ UNCHANGED <<areaUpdates, newStations>>
                /\ pipe[w] = NoPipe \/ pipeLost'
                /\ pipeLost => pipeLost'
      PROVE  /\ areaUpdates' \subseteq AreasOfRows'
             /\ \A v \in Workers : pipe'[v].areas \subseteq AreasOfRows'
             /\ ~pipeLost' =>
                   AreasOfRows' \subseteq areaUpdates' \cup UNION {pipe'[v].areas : v \in Workers}
  <2>1. AreasOfRows' = AreasOfRows
    BY <1>6 DEF AreasOfRows, Rows
  <2>2. UNION {pipe[v].areas : v \in Workers}
           = pipe[w].areas \cup UNION {pipe'[v].areas : v \in Workers}
    BY <1>3, <1>6
  <2>3. areaUpdates' \subseteq areaUpdates \cup pipe[w].areas /\ areaUpdates \subseteq areaUpdates'
    BY <1>6
  <2>4. ~pipeLost' => ~pipeLost /\ pipe[w].areas \subseteq areaUpdates'
    BY <1>3, <1>6
  <2> QED
    BY <1>1, <1>3, <1>6, <2>1, <2>2, <2>3, <2>4
<1> QED
  BY <1>1, <1>4, <1>5, <1>6, PipeSteps

LEMMA AreaInvariant == Spec => []AreaInv
<1>1. Init => AreaInv
  BY DEF Init, AreaInv, PipesEmpty, PipedAreasHaveRows, NoPipe, NoSnap, RowsBeforeAreas,
         AreasAreUpdated
<1> QED
  BY <1>1, AreaInvStep, Invariance, PTL DEF Spec

\* Every station in the table has the update of its areas queued, or waiting in
\* a pipeline, unless a pipeline was lost (station.py:291-293, 327-328).
THEOREM AreasFollowRows == Spec => []AreasAreUpdated
<1>1. AreaInv => AreasAreUpdated
  BY DEF AreaInv
<1> QED
  BY <1>1, AreaInvariant, PTL

\* An area is queued only when the row it is queued for is committed, however
\* many tasks overlap (station.py:291-293, 327-328): area tasks do not come too early.
THEOREM AreasComeAfterRows == Spec => []RowsBeforeAreas
<1>1. AreaInv => RowsBeforeAreas
  BY DEF AreaInv
<1> QED
  BY <1>1, AreaInvariant, PTL

\* The rows of the table are counted, by the counter and by the pipeline that
\* is on its way to it.
RowsCounted ==
    \A w \in Workers : ~pipeLost => newStations + pipe[w].new = Cardinality(Rows)

LEMMA RowsCountedStep ==
    ASSUME NEW w0, Workers = {w0}
    PROVE  IInv /\ SnapIsFresh /\ PipesEmpty /\ RowsCounted /\ [Next]_vars => RowsCounted'
<1> SUFFICES ASSUME IInv, SnapIsFresh, PipesEmpty, RowsCounted, [Next]_vars, ~pipeLost'
             PROVE  newStations' + pipe'[w0].new = Cardinality(Rows')
  BY DEF RowsCounted
<1>1. /\ newStations \in Nat
      /\ pipe[w0] \in [new : Nat, areas : SUBSET Areas]
      /\ NoPipe.new = 0
  BY DEF IInv, TypeOK, NoPipe
<1>2. ~pipeLost => newStations + pipe[w0].new = Cardinality(Rows)
  BY DEF RowsCounted
<1>3. CASE UNCHANGED <<pipe, areaUpdates, newStations, pipeLost, table>>
  BY <1>2, <1>3 DEF Rows
<1>4. ASSUME Commit(w0), pipe[w0] = NoPipe, pipe'[w0] = Piped(w0),
             UNCHANGED <<newStations, pipeLost>>
      PROVE  newStations' + pipe'[w0].new = Cardinality(Rows')
  <2> DEFINE new == {s \in Updates(w0) : snap[w0][s] = NoRow}
  <2>1. Updates(w0) \subseteq Stations /\ Rows' = Rows \cup Updates(w0)
    BY <1>4, CommitRows
  <2>2. \A s \in Updates(w0) : snap[w0][s] = table[s]
    BY <1>4 DEF Commit, SnapIsFresh, Updates
  <2>3. Rows' = Rows \cup new /\ Rows \cap new = {}
    BY <2>1, <2>2 DEF Rows
  <2>4. IsFiniteSet(Rows) /\ IsFiniteSet(new)
    <3>1. Rows \in SUBSET Stations /\ new \in SUBSET Stations
      BY <2>1 DEF Rows
    <3> HIDE DEF new
    <3> QED
      BY <3>1, StationsAssumption, FS_Subset
  <2>5. pipe'[w0].new = Cardinality(new)
    BY <1>4 DEF Piped
  <2> HIDE DEF new
  <2>6. Cardinality(Rows \cup new)
          = Cardinality(Rows) + Cardinality(new) - Cardinality(Rows \cap new)
    BY <2>4, FS_Union
  <2>7. /\ Cardinality(Rows) \in Nat /\ Cardinality(new) \in Nat
        /\ Cardinality(Rows \cap new) = 0
    BY <2>3, <2>4, FS_CardinalityType, FS_EmptySet
  <2>8. Cardinality(Rows') = Cardinality(Rows \cup new)
    BY <2>3
  <2>9. newStations' = newStations /\ newStations + 0 = Cardinality(Rows)
    BY <1>1, <1>2, <1>4
  <2> QED
    BY <1>1, <2>5, <2>6, <2>7, <2>8, <2>9
<1>5. ASSUME pipe'[w0] = NoPipe, UNCHANGED table,
             \/ /\ newStations' = newStations + pipe[w0].new
                /\ UNCHANGED pipeLost
             \/ /\ UNCHANGED <<areaUpdates, newStations>>
                /\ pipe[w0] = NoPipe \/ pipeLost'
                /\ pipeLost => pipeLost'
      PROVE  newStations' + pipe'[w0].new = Cardinality(Rows')
  <2>1. Rows' = Rows
    BY <1>5 DEF Rows
  <2>2. ~pipeLost
    BY <1>5
  <2> QED
    BY <1>1, <1>2, <1>5, <2>1, <2>2
<1> QED
  BY <1>3, <1>4, <1>5, PipeSteps

\* If the tasks of one queue never overlap, the counter of unique stations has
\* counted every row of the table, once no pipeline is pending and if none was
\* lost (station.py:279-281).
THEOREM NewStationsCounted ==
    ASSUME NEW w0, Workers = {w0}
    PROVE  Spec => []NewStationsAreCounted
<1>1. Init => SnapIsFresh
  BY DEF Init, SnapIsFresh
<1>2. Spec => []SnapIsFresh
  BY <1>1, SnapIsFreshStep, TypeCorrect, PTL DEF Spec
<1>3. Init => RowsCounted
  <2>1. Init => Rows = {} /\ \A w \in Workers : newStations + pipe[w].new = 0
    BY DEF Init, Rows, NoSnap, NoPipe
  <2> QED
    BY <2>1, FS_EmptySet DEF RowsCounted
<1>4. AreaInv => PipesEmpty
  BY DEF AreaInv
<1>5. Spec => []RowsCounted
  BY <1>2, <1>3, <1>4, RowsCountedStep, AreaInvariant, Invariance, PTL DEF Spec
<1>6. IInv /\ AreaInv /\ RowsCounted => NewStationsAreCounted
  BY DEF IInv, TypeOK, AreaInv, PipesEmpty, NoPipe, RowsCounted, NewStationsAreCounted, Rows
<1> QED
  BY <1>5, <1>6, AreaInvariant, Invariance, PTL
=============================================================================
