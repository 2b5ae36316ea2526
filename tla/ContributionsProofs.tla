------------------------ MODULE ContributionsProofs --------------------------
(***************************************************************************)
(* Theorems about Contributions, for any number of insert_reports tasks,   *)
(* users, retries and score tasks: a nickname has one user, the            *)
(* observations of a task are pushed once and after its score, and no user *)
(* is credited with more than was earned.                                  *)
(*                                                                         *)
(* A task that is going to commit a new user must be the only one of its   *)
(* nickname (OnlyMaker).  That holds because an insert waits for the other *)
(* one, and because ids are not used again; there are ids enough, since a  *)
(* try makes at most one user (IdsEnough).  A committed user stays, so a   *)
(* task that has scored for its id keeps its credit (Credited).            *)
(*                                                                         *)
(* A row that a score task has read may be stale, and larger than the row  *)
(* is by now; but it is never more than had been earned when it was read   *)
(* (SnapsEarned), and it is the row when the task runs alone.              *)
(***************************************************************************)
EXTENDS Contributions, SetFacts

HasUser(t) == pc[t] \in {"identified", "scored"} /\ uid[t] \in Ids

\* The task has a user row that is flushed and not committed.
Making(t) == HasUser(t) /\ users[uid[t]] = NoNick

States == {"waiting", "userless", "identified", "scored", "committed", "done", "failed"}

Types ==
    /\ users \in [Ids -> Nicks \cup {NoNick}]
    /\ lastId \in Nat
    /\ pc \in [Tasks -> States]
    /\ uid \in [Tasks -> Nat]
    /\ pushes \in [Tasks -> Nat]

PushedWhenDone ==
    \A t \in Tasks \ unanswered : pushes[t] = 0 \/ (pushes[t] = 1 /\ pc[t] = "done")

LaterIdsUnused == \A i \in Ids : lastId < i => users[i] = NoNick

UserOfNick ==
    \A t \in Tasks :
        /\ pc[t] = "userless" => Nick[t] # NoNick
        /\ HasUser(t) => /\ Nick[t] # NoNick
                         /\ uid[t] <= lastId
                         /\ users[uid[t]] \in {NoNick, Nick[t]}

OnlyMaker ==
    \A t \in Tasks : Making(t) =>
        /\ \A i \in Ids : users[i] # Nick[t]
        /\ \A v \in Tasks : Making(v) /\ v # t => Nick[v] # Nick[t] /\ uid[v] # uid[t]

UserInv == LaterIdsUnused /\ UserOfNick /\ OnlyMaker /\ OneUserPerNickname

IInv == Types /\ PushedWhenDone /\ UserInv

-----------------------------------------------------------------------------
\* No user, no task, nothing pushed.
LEMMA InitIInv == Init => IInv
<1> SUFFICES ASSUME Init PROVE IInv
  OBVIOUS
<1>1. /\ users = [i \in Ids |-> NoNick] /\ lastId = 0
      /\ pc = [t \in Tasks |-> "waiting"] /\ uid = [t \in Tasks |-> 0]
      /\ pushes = [t \in Tasks |-> 0]
  BY DEF Init, RQ!Init
<1>2. Types
  <2>1. users \in [Ids -> Nicks \cup {NoNick}]
    BY <1>1
  <2>2. pc \in [Tasks -> States]
    BY <1>1 DEF States
  <2>3. lastId \in Nat /\ uid \in [Tasks -> Nat] /\ pushes \in [Tasks -> Nat]
    BY <1>1
  <2> QED
    BY <2>1, <2>2, <2>3 DEF Types
<1>3. PushedWhenDone /\ LaterIdsUnused /\ OneUserPerNickname
  BY <1>1 DEF PushedWhenDone, LaterIdsUnused, OneUserPerNickname
<1>4. UserOfNick /\ OnlyMaker
  BY <1>1 DEF UserOfNick, OnlyMaker, Making, HasUser
<1> QED
  BY <1>2, <1>3, <1>4 DEF IInv, UserInv

\* What keeps the user table and its counter, and takes no task to a state in
\* which it has a user unless it was in one with the same id, keeps UserInv.
LEMMA UserInvKept ==
    ASSUME IInv, UNCHANGED <<users, lastId>>,
           \A t \in Tasks : pc'[t] = "userless" => Nick[t] # NoNick,
           \A t \in Tasks : HasUser(t)' => HasUser(t) /\ uid'[t] = uid[t]
    PROVE  UserInv'
  BY DEF IInv, UserInv, LaterIdsUnused, UserOfNick, OnlyMaker, OneUserPerNickname, HasUser, Making

\* The same for a step of one task that leaves it without a user.
LEMMA LeaverKept ==
    ASSUME IInv, UNCHANGED <<users, lastId>>, NEW t \in Tasks,
           NEW how \in States \ {"userless", "identified", "scored"},
           pc' = [pc EXCEPT ![t] = how],
           \A v \in Tasks : v # t => uid'[v] = uid[v]
    PROVE  UserInv'
<1>1. \A v \in Tasks : v # t => pc'[v] = pc[v]
  BY DEF IInv, Types
<1>2. pc'[t] = how
  BY DEF IInv, Types
<1>3. \A v \in Tasks : pc'[v] = "userless" => Nick[v] # NoNick
  BY <1>1, <1>2 DEF IInv, UserInv, UserOfNick
<1>4. \A v \in Tasks : HasUser(v)' => HasUser(v) /\ uid'[v] = uid[v]
  BY <1>1, <1>2 DEF HasUser
<1> QED
  BY <1>3, <1>4, UserInvKept

\* How a try ends: for good, or with the next one.
LEMMA Ends ==
    ASSUME IInv, NEW t \in Tasks,
           RQ!EndTask(t, "done") \/ RQ!EndTask(t, "failed") \/ RQ!Retry(t)
    PROVE  \E how \in {"done", "failed", "waiting"} :
              /\ pc' = [pc EXCEPT ![t] = how]
              /\ uid' \in [Tasks -> Nat]
              /\ \A v \in Tasks : v # t => uid'[v] = uid[v]
              /\ RQ!EndTask(t, "done") => how = "done"
<1>1. uid \in [Tasks -> Nat] /\ pc \in [Tasks -> States]
  BY DEF IInv, Types
<1>2. CASE RQ!EndTask(t, "done")
  BY <1>1, <1>2 DEF RQ!EndTask
<1>3. CASE RQ!EndTask(t, "failed") /\ ~RQ!EndTask(t, "done")
  BY <1>1, <1>3 DEF RQ!EndTask
<1>4. CASE RQ!Retry(t) /\ ~RQ!EndTask(t, "done") /\ ~RQ!EndTask(t, "failed")
  <2>1. /\ pc' = [pc EXCEPT ![t] = "waiting"]
        /\ uid' = [uid EXCEPT ![t] = 0]
    BY <1>4 DEF RQ!Retry
  <2> QED
    BY <1>1, <1>4, <2>1
<1> QED
  BY <1>2, <1>3, <1>4

\* Steps that push no observations.
LEMMA PushedKept ==
    ASSUME IInv, UNCHANGED <<pushes, unanswered>>,
           \A v \in Tasks : pc[v] = "done" => pc'[v] = "done"
    PROVE  PushedWhenDone'
  BY DEF IInv, PushedWhenDone

-----------------------------------------------------------------------------
(* One lemma per kind of step.                                             *)

\* A user that is found is not one that is being made.
LEMMA BeginIInv ==
    ASSUME IInv, NEW t \in Tasks, RQ!Begin(t)
    PROVE  IInv'
<1>1. /\ users \in [Ids -> Nicks \cup {NoNick}] /\ lastId \in Nat
      /\ pc \in [Tasks -> States] /\ uid \in [Tasks -> Nat] /\ pushes \in [Tasks -> Nat]
  BY DEF IInv, Types
<1>2. UNCHANGED <<users, lastId, pushes, unanswered>> /\ pc[t] = "waiting"
  BY DEF RQ!Begin, RQ!tableVars, RQ!queueVars
<1>3. PICK id : /\ uid' = [uid EXCEPT ![t] = id]
                /\ id = 0 \/ (id \in Ids /\ users[id] = Nick[t] /\ Nick[t] # NoNick)
  <2>1. CASE RQ!IdsOf(Nick[t]) = {}
    BY <2>1 DEF RQ!Begin
  <2>2. CASE RQ!IdsOf(Nick[t]) # {}
    <3> DEFINE id == CHOOSE i \in RQ!IdsOf(Nick[t]) : TRUE
    <3>1. id \in RQ!IdsOf(Nick[t])
      BY <2>2
    <3>2. id \in Ids /\ users[id] = Nick[t] /\ Nick[t] # NoNick
      BY <3>1 DEF RQ!IdsOf
    <3>3. uid' = [uid EXCEPT ![t] = id]
      BY <2>2 DEF RQ!Begin
    <3> QED
      BY <3>2, <3>3
  <2> QED
    BY <2>1, <2>2
<1>4. id \in Nat /\ 0 \notin Ids
  BY <1>3 DEF Ids
<1>5. PICK step \in {"userless", "identified"} :
        pc' = [pc EXCEPT ![t] = step] /\ (step = "userless" => Nick[t] # NoNick)
  BY DEF RQ!Begin
<1>6. /\ uid'[t] = id /\ pc'[t] = step
      /\ \A v \in Tasks : v # t => uid'[v] = uid[v] /\ pc'[v] = pc[v]
  BY <1>1, <1>3, <1>5
<1>7. Types'
  BY <1>1, <1>2, <1>3, <1>4, <1>5 DEF Types, States
<1>8. PushedWhenDone'
  BY <1>2, <1>6, PushedKept
<1>9. LaterIdsUnused' /\ OneUserPerNickname'
  BY <1>2 DEF IInv, UserInv, LaterIdsUnused, OneUserPerNickname
<1>10. ~Making(t)'
  BY <1>2, <1>3, <1>4, <1>6 DEF Making, HasUser
<1>11. \A v \in Tasks : v # t => (HasUser(v)' <=> HasUser(v)) /\ (Making(v)' <=> Making(v))
  BY <1>2, <1>6 DEF Making, HasUser
<1>12. UserOfNick'
  <2>1. ASSUME NEW v \in Tasks, v # t
        PROVE  /\ pc'[v] = "userless" => Nick[v] # NoNick
               /\ HasUser(v)' => /\ Nick[v] # NoNick /\ uid'[v] <= lastId
                                 /\ users[uid'[v]] \in {NoNick, Nick[v]}
    BY <1>6, <1>11, <2>1 DEF IInv, UserInv, UserOfNick
  <2>2. HasUser(t)' => /\ Nick[t] # NoNick /\ id <= lastId
                       /\ users[id] \in {NoNick, Nick[t]}
    <3>1. CASE id = 0
      BY <1>4, <1>6, <3>1 DEF HasUser
    <3>2. CASE id \in Ids /\ users[id] = Nick[t] /\ Nick[t] # NoNick
      BY <1>1, <1>4, <3>2 DEF IInv, UserInv, LaterIdsUnused
    <3> QED
      BY <1>3, <3>1, <3>2
  <2> QED
    BY <1>2, <1>5, <1>6, <2>1, <2>2 DEF UserOfNick
<1>13. OnlyMaker'
  <2> SUFFICES ASSUME NEW v \in Tasks, Making(v)'
               PROVE  /\ \A i \in Ids : users'[i] # Nick[v]
                      /\ \A u \in Tasks : Making(u)' /\ u # v => Nick[u] # Nick[v] /\ uid'[u] # uid'[v]
    BY DEF OnlyMaker
  <2>1. v # t /\ Making(v)
    BY <1>10, <1>11
  <2> QED
    BY <1>2, <1>6, <1>10, <1>11, <2>1 DEF IInv, UserInv, OnlyMaker
<1> QED
  BY <1>7, <1>8, <1>9, <1>12, <1>13 DEF IInv, UserInv

\* An insert gets an id of its own, and is the only one of its nickname.
LEMMA InsertUserIInv ==
    ASSUME IInv, NEW t \in Tasks, RQ!InsertUser(t)
    PROVE  IInv'
<1>1. /\ users \in [Ids -> Nicks \cup {NoNick}] /\ lastId \in Nat
      /\ pc \in [Tasks -> States] /\ uid \in [Tasks -> Nat] /\ pushes \in [Tasks -> Nat]
  BY DEF IInv, Types
<1>2. /\ UNCHANGED <<users, pushes, unanswered>> /\ pc[t] = "userless"
      /\ lastId' = lastId + 1
      /\ uid' = [uid EXCEPT ![t] = lastId + 1]
      /\ pc' = [pc EXCEPT ![t] = "identified"]
  BY DEF RQ!InsertUser, RQ!queueVars
<1>3. /\ uid'[t] = lastId + 1 /\ pc'[t] = "identified"
      /\ \A v \in Tasks : v # t => uid'[v] = uid[v] /\ pc'[v] = pc[v]
  BY <1>1, <1>2
<1>4. Types'
  BY <1>1, <1>2 DEF Types, States
<1>5. PushedWhenDone'
  BY <1>2, <1>3, PushedKept
<1>6. LaterIdsUnused' /\ OneUserPerNickname' /\ Ids \subseteq Nat \ {0}
  BY <1>1, <1>2 DEF IInv, UserInv, LaterIdsUnused, OneUserPerNickname, Ids
<1>7. \A v \in Tasks : v # t => (HasUser(v)' <=> HasUser(v)) /\ (Making(v)' <=> Making(v))
  BY <1>2, <1>3 DEF Making, HasUser
<1>8. \A v \in Tasks : HasUser(v) => uid[v] <= lastId
  BY DEF IInv, UserInv, UserOfNick
<1>9. Nick[t] # NoNick
  BY <1>2 DEF IInv, UserInv, UserOfNick
<1>10. UserOfNick'
  <2>1. ASSUME NEW v \in Tasks, v # t
        PROVE  /\ pc'[v] = "userless" => Nick[v] # NoNick
               /\ HasUser(v)' => /\ Nick[v] # NoNick /\ uid'[v] <= lastId'
                                 /\ users'[uid'[v]] \in {NoNick, Nick[v]}
    <3>1. HasUser(v) => uid[v] <= lastId'
      BY <1>1, <1>2, <1>8
    <3> QED
      BY <1>2, <1>3, <1>7, <2>1, <3>1 DEF IInv, UserInv, UserOfNick
  <2>2. HasUser(t)' => /\ uid'[t] <= lastId'
                       /\ users'[uid'[t]] \in {NoNick, Nick[t]}
    <3>1. lastId + 1 \in Ids => users[lastId + 1] = NoNick
      BY <1>1 DEF IInv, UserInv, LaterIdsUnused
    <3> QED
      BY <1>1, <1>2, <1>3, <3>1 DEF HasUser
  <2> QED
    BY <1>3, <1>9, <2>1, <2>2 DEF UserOfNick
<1>11. \A i \in Ids : users[i] # Nick[t]
  BY <1>9 DEF RQ!InsertUser, RQ!MayInsert, RQ!IdsOf
<1>12. \A v \in Tasks : Making(v) => Nick[v] # Nick[t] /\ uid[v] # lastId + 1
  <2>1. ASSUME NEW v \in Tasks, Making(v)
        PROVE  Nick[v] # Nick[t]
    <3>1. uid[v] # 0 /\ pc[v] \in {"identified", "scored"} /\ users[uid[v]] = NoNick
      BY <1>6, <2>1 DEF Making, HasUser
    <3>2. v \notin RQ!Inserting(Nick[t])
      BY DEF RQ!InsertUser, RQ!MayInsert
    <3> QED
      BY <3>1, <3>2 DEF RQ!Inserting
  <2>2. ASSUME NEW v \in Tasks, Making(v)
        PROVE  uid[v] # lastId + 1
    <3>1. uid[v] <= lastId /\ uid[v] \in Nat
      BY <1>1, <1>8, <2>2 DEF Making
    <3> QED
      BY <1>1, <3>1
  <2> QED
    BY <2>1, <2>2
<1>13. OnlyMaker'
  <2> SUFFICES ASSUME NEW v \in Tasks, Making(v)'
               PROVE  /\ \A i \in Ids : users'[i] # Nick[v]
                      /\ \A u \in Tasks : Making(u)' /\ u # v => Nick[u] # Nick[v] /\ uid'[u] # uid'[v]
    BY DEF OnlyMaker
  <2>1. CASE v = t
    BY <1>2, <1>3, <1>7, <1>11, <1>12, <2>1
  <2>2. CASE v # t
    <3>1. Making(v)
      BY <1>7, <2>2
    <3> QED
      BY <1>2, <1>3, <1>7, <1>12, <2>2, <3>1 DEF IInv, UserInv, OnlyMaker
  <2> QED
    BY <2>1, <2>2
<1> QED
  BY <1>4, <1>5, <1>6, <1>10, <1>13 DEF IInv, UserInv

\* Scores touch neither users nor observations.
LEMMA PushScoresIInv ==
    ASSUME IInv, NEW t \in Tasks, RQ!PushScores(t)
    PROVE  IInv'
<1>1. /\ UNCHANGED <<users, lastId, uid, pushes, unanswered>>
      /\ pc[t] = "identified" /\ pc' = [pc EXCEPT ![t] = "scored"]
  BY DEF RQ!PushScores, RQ!tableVars
<1>2. pc'[t] = "scored" /\ \A v \in Tasks : v # t => pc'[v] = pc[v]
  BY <1>1 DEF IInv, Types
<1>3. Types'
  BY <1>1 DEF IInv, Types, States
<1>4. PushedWhenDone'
  BY <1>1, <1>2, PushedKept
<1>5. UserInv'
  <2>1. \A v \in Tasks : HasUser(v)' => HasUser(v) /\ uid'[v] = uid[v]
    BY <1>1, <1>2 DEF HasUser
  <2>2. \A v \in Tasks : pc'[v] = "userless" => Nick[v] # NoNick
    BY <1>2 DEF IInv, UserInv, UserOfNick
  <2> QED
    BY <1>1, <2>1, <2>2, UserInvKept
<1> QED
  BY <1>3, <1>4, <1>5 DEF IInv

\* A commit makes the user of the only task that was going to make it, or
\* writes a row that has the nickname already.
LEMMA CommitIInv ==
    ASSUME IInv, NEW t \in Tasks, RQ!Commit(t)
    PROVE  IInv'
<1>1. /\ users \in [Ids -> Nicks \cup {NoNick}] /\ lastId \in Nat
      /\ pc \in [Tasks -> States] /\ uid \in [Tasks -> Nat] /\ pushes \in [Tasks -> Nat]
  BY DEF IInv, Types
<1>2. /\ UNCHANGED <<lastId, uid, pushes, unanswered>> /\ pc[t] = "scored"
      /\ users' = IF uid[t] = 0 THEN users ELSE [users EXCEPT ![uid[t]] = Nick[t]]
      /\ pc' = [pc EXCEPT ![t] = "committed"]
  BY DEF RQ!Commit, RQ!EndTask, RQ!queueVars
<1>3. pc'[t] = "committed" /\ \A v \in Tasks : v # t => pc'[v] = pc[v]
  BY <1>1, <1>2
<1>4. PushedWhenDone'
  BY <1>2, <1>3, PushedKept
<1>5. CASE uid[t] \notin Ids
  <2>1. users' = users
    BY <1>1, <1>2, <1>5
  <2>2. Types'
    BY <1>1, <1>2, <2>1 DEF Types, States
  <2>3. UserInv'
    BY <1>2, <2>1, LeaverKept DEF States
  <2> QED
    BY <1>4, <2>2, <2>3 DEF IInv
<1>6. CASE users[uid[t]] = Nick[t] /\ uid[t] \in Ids
  <2>1. users' = users
    BY <1>1, <1>2, <1>6
  <2>2. Types'
    BY <1>1, <1>2, <2>1 DEF Types, States
  <2>3. UserInv'
    BY <1>2, <2>1, LeaverKept DEF States
  <2> QED
    BY <1>4, <2>2, <2>3 DEF IInv
<1>7. CASE Making(t)
  <2> DEFINE id == uid[t]
  <2>1. id \in Ids /\ id # 0 /\ users[id] = NoNick
    BY <1>7 DEF Making, HasUser, Ids
  <2>2. Nick[t] # NoNick /\ id <= lastId /\ id \in Nat
    BY <1>1, <1>7 DEF IInv, UserInv, UserOfNick, Making
  <2>3. /\ users'[id] = Nick[t]
        /\ \A i \in Ids : i # id => users'[i] = users[i]
    BY <1>1, <1>2, <2>1
  <2>4. /\ \A i \in Ids : users[i] # Nick[t]
        /\ \A v \in Tasks : Making(v) /\ v # t => Nick[v] # Nick[t] /\ uid[v] # id
    BY <1>7 DEF IInv, UserInv, OnlyMaker
  <2>5. Nick[t] \in Nicks \cup {NoNick}
    BY TasksAssumption
  <2>6. Types'
    BY <1>1, <1>2, <2>1, <2>5 DEF Types, States
  <2>7. LaterIdsUnused'
    BY <1>1, <1>2, <2>2, <2>3 DEF IInv, UserInv, LaterIdsUnused, Ids
  <2>8. OneUserPerNickname'
    BY <2>2, <2>3, <2>4 DEF IInv, UserInv, OneUserPerNickname
  <2>9. \A v \in Tasks : HasUser(v)' => v # t /\ HasUser(v)
    BY <1>2, <1>3 DEF HasUser
  <2>10. UserOfNick'
    <3> SUFFICES ASSUME NEW v \in Tasks
                 PROVE  /\ pc'[v] = "userless" => Nick[v] # NoNick
                        /\ HasUser(v)' => /\ Nick[v] # NoNick /\ uid'[v] <= lastId'
                                          /\ users'[uid'[v]] \in {NoNick, Nick[v]}
      BY DEF UserOfNick
    <3>1. pc'[v] = "userless" => Nick[v] # NoNick
      BY <1>3 DEF IInv, UserInv, UserOfNick
    <3>2. ASSUME HasUser(v)'
          PROVE  /\ Nick[v] # NoNick /\ uid[v] <= lastId
                 /\ users'[uid[v]] \in {NoNick, Nick[v]}
      <4>1. v # t /\ HasUser(v) /\ uid[v] \in Ids
        BY <2>9, <3>2 DEF HasUser
      <4>2. /\ Nick[v] # NoNick /\ uid[v] <= lastId
            /\ users[uid[v]] \in {NoNick, Nick[v]}
        BY <4>1 DEF IInv, UserInv, UserOfNick
      <4>3. CASE uid[v] = id
        <5>1. Making(v)
          BY <2>1, <4>1, <4>3 DEF Making
        <5> QED
          BY <2>4, <4>1, <4>3, <5>1
      <4>4. CASE uid[v] # id
        BY <2>3, <4>1, <4>2, <4>4
      <4> QED
        BY <4>3, <4>4
    <3> QED
      BY <1>2, <3>1, <3>2
  <2>11. \A v \in Tasks : Making(v)' => v # t /\ Making(v)
    <3> SUFFICES ASSUME NEW v \in Tasks, Making(v)'
                 PROVE  v # t /\ Making(v)
      OBVIOUS
    <3>1. v # t /\ HasUser(v) /\ uid[v] \in Ids /\ users'[uid[v]] = NoNick
      BY <1>2, <2>9 DEF Making, HasUser
    <3> QED
      BY <2>2, <2>3, <3>1 DEF Making
  <2>12. OnlyMaker'
    <3> SUFFICES ASSUME NEW v \in Tasks, Making(v)'
                 PROVE  /\ \A i \in Ids : users'[i] # Nick[v]
                        /\ \A u \in Tasks : Making(u)' /\ u # v => Nick[u] # Nick[v] /\ uid'[u] # uid'[v]
      BY DEF OnlyMaker
    <3>1. v # t /\ Making(v)
      BY <2>11
    <3>2. \A i \in Ids : users[i] # Nick[v]
      BY <3>1 DEF IInv, UserInv, OnlyMaker
    <3>3. \A i \in Ids : users'[i] # Nick[v]
      BY <2>3, <2>4, <3>1, <3>2
    <3>4. \A u \in Tasks : Making(u) /\ u # v => Nick[u] # Nick[v] /\ uid[u] # uid[v]
      BY <3>1 DEF IInv, UserInv, OnlyMaker
    <3> QED
      BY <1>2, <2>11, <3>3, <3>4
  <2> QED
    BY <1>4, <2>6, <2>7, <2>8, <2>10, <2>12 DEF IInv, UserInv
<1>8. HasUser(t) => Making(t) \/ users[uid[t]] = Nick[t]
  BY DEF IInv, UserInv, UserOfNick, Making
<1> QED
  BY <1>2, <1>5, <1>6, <1>7, <1>8 DEF HasUser

\* The pipeline: observations are pushed by a task that has not pushed any, or
\* that Redis does not answer.
LEMMA PushIInv ==
    ASSUME IInv, NEW t \in Tasks, RQ!ExecutePipe(t) \/ RQ!LoseAnswer(t)
    PROVE  IInv'
<1>1. /\ pc[t] = "committed" /\ UNCHANGED <<users, lastId>>
      /\ pushes' = [pushes EXCEPT ![t] = @ + 1]
      /\ unanswered \subseteq unanswered'
  BY DEF RQ!ExecutePipe, RQ!LoseAnswer, RQ!Push, RQ!tableVars
<1>2. PICK how \in {"done", "failed", "waiting"} :
        /\ pc' = [pc EXCEPT ![t] = how]
        /\ uid' \in [Tasks -> Nat]
        /\ \A v \in Tasks : v # t => uid'[v] = uid[v]
        /\ RQ!EndTask(t, "done") => how = "done"
  BY Ends DEF RQ!ExecutePipe, RQ!LoseAnswer
<1>3. pc'[t] = how /\ \A v \in Tasks : v # t => pc'[v] = pc[v]
  BY <1>2 DEF IInv, Types
<1>4. how = "done" \/ t \in unanswered'
  BY <1>2 DEF RQ!ExecutePipe, RQ!LoseAnswer
<1>5. Types'
  BY <1>1, <1>2 DEF IInv, Types, States
<1>6. UserInv'
  BY <1>1, <1>2, LeaverKept DEF States
<1>7. PushedWhenDone'
  <2> SUFFICES ASSUME NEW v \in Tasks \ unanswered'
               PROVE  pushes'[v] = 0 \/ (pushes'[v] = 1 /\ pc'[v] = "done")
    BY DEF PushedWhenDone
  <2>1. pushes[v] = 0 \/ (pushes[v] = 1 /\ pc[v] = "done")
    BY <1>1 DEF IInv, PushedWhenDone
  <2>2. CASE v = t
    BY <1>1, <1>3, <1>4, <2>1, <2>2 DEF IInv, Types
  <2>3. CASE v # t
    BY <1>1, <1>3, <2>1, <2>3 DEF IInv, Types
  <2> QED
    BY <2>2, <2>3
<1> QED
  BY <1>5, <1>6, <1>7 DEF IInv

\* A try that raises, and a worker that dies.
LEMMA FailIInv ==
    ASSUME IInv, NEW t \in Tasks, RQ!Fail(t) \/ RQ!Crash(t)
    PROVE  IInv'
<1>1. /\ pc[t] # "done" /\ UNCHANGED <<users, lastId, pushes, unanswered>>
  BY DEF RQ!Fail, RQ!Crash, RQ!Running, RQ!tableVars, RQ!queueVars
<1>2. PICK how \in {"done", "failed", "waiting"} :
        /\ pc' = [pc EXCEPT ![t] = how]
        /\ uid' \in [Tasks -> Nat]
        /\ \A v \in Tasks : v # t => uid'[v] = uid[v]
  BY Ends DEF RQ!Fail, RQ!Crash
<1>3. \A v \in Tasks : v # t => pc'[v] = pc[v]
  BY <1>2 DEF IInv, Types
<1>4. Types'
  BY <1>1, <1>2 DEF IInv, Types, States
<1>5. UserInv'
  BY <1>1, <1>2, LeaverKept DEF States
<1>6. PushedWhenDone'
  BY <1>1, <1>3, PushedKept
<1> QED
  BY <1>4, <1>5, <1>6 DEF IInv

\* No step breaks the invariant.
LEMMA StepIInv == IInv /\ [Next]_vars => IInv'
<1> SUFFICES ASSUME IInv, [Next]_vars PROVE IInv'
  OBVIOUS
<1> DEFINE others == UNCHANGED <<users, lastId, pc, uid, pushes, unanswered>>
<1>1. ASSUME others PROVE IInv'
  BY <1>1 DEF IInv, Types, PushedWhenDone, UserInv, LaterIdsUnused, UserOfNick, OnlyMaker,
              OneUserPerNickname, HasUser, Making
<1>2. ASSUME NEW t \in Tasks,
             \/ RQ!Begin(t) \/ RQ!InsertUser(t) \/ RQ!PushScores(t) \/ RQ!Commit(t)
             \/ RQ!ExecutePipe(t) \/ RQ!LoseAnswer(t) \/ RQ!Fail(t) \/ RQ!Crash(t)
      PROVE  IInv'
  BY <1>2, BeginIInv, InsertUserIInv, PushScoresIInv, CommitIInv, PushIInv, FailIInv
<1>3. ASSUME NEW o \in observations, RQ!UpdateStations(o)
      PROVE  others
  BY <1>3 DEF RQ!UpdateStations, RQ!taskVars
<1>4. ASSUME UNCHANGED reportVars PROVE others
  BY <1>4 DEF reportVars
<1>5. CASE UNCHANGED vars
  BY <1>1, <1>4, <1>5 DEF vars
<1> HIDE DEF others
<1>6. CASE RQ!Next
  BY <1>1, <1>2, <1>3, <1>6 DEF RQ!Next
<1> QED
  BY <1>1, <1>4, <1>5, <1>6 DEF Next

\* What tasks on their way have in hand is consistent with the user table and
\* with what was pushed (ReportQueue.process_user, redis_pipeline).
THEOREM TasksConsistent == Spec => []IInv
<1> QED
  BY InitIInv, StepIInv, PTL DEF Spec

\* However insert_reports tasks overlap, fail and are tried again, a nickname
\* has one user (data/report.py:232-254).
THEOREM OneUser == Spec => []OneUserPerNickname
<1>1. IInv => OneUserPerNickname
  BY DEF IInv, UserInv
<1> QED
  BY <1>1, TasksConsistent, PTL

\* A retry does not push the observations of its task again (cache.py:44-55),
\* unless the answer of Redis to the first push was lost.
THEOREM PushedOnce == Spec => []ObservationsPushedOnce
<1>1. IInv => ObservationsPushedOnce
  BY DEF IInv, Types, PushedWhenDone, ObservationsPushedOnce
<1> QED
  BY <1>1, TasksConsistent, PTL

-----------------------------------------------------------------------------
(* Types and bounds of the report tasks.                                   *)

Over(t) == pc[t] \in {"done", "failed"}

\* The present try of the task is past the point where it makes a user.
Begun(t) == pc[t] \notin {"waiting", "userless"}

\* The tries that may have made a user.
Used ==
    {u \in Tasks \X (0..MaxRetries) :
        u[2] < tries[u[1]] \/ (u[2] = tries[u[1]] /\ Begun(u[1]))}

IdsEnough == lastId <= Cardinality(Used)

\* A task pushes once in a try, at its end.
PushedPerTry ==
    \A t \in Tasks : pushes[t] <= tries[t] + (IF Over(t) THEN 1 ELSE 0)

TaskTypes ==
    /\ tries \in [Tasks -> 0..MaxRetries]
    /\ uid \in [Tasks -> Ids \cup {0}]
    /\ fresh \in [Tasks -> SUBSET Stations]
    /\ creditedTo \in [Tasks -> SUBSET Ids]

QueueTypes ==
    /\ known \subseteq Stations
    /\ observations \subseteq Tags
    /\ unanswered \subseteq Tasks
    /\ grids \subseteq Grids
    /\ scores \subseteq Deltas /\ IsFiniteSet(scores)

TaskInv == TaskTypes /\ QueueTypes /\ PushedPerTry /\ IdsEnough

\* The number of ids, and of tries.
LEMMA Bounds ==
    /\ MaxRetries \in Nat
    /\ Ids \subseteq Nat \ {0}
    /\ IsFiniteSet(Tasks \X (0..MaxRetries))
    /\ Cardinality(Tasks \X (0..MaxRetries)) \in Nat
    /\ Cardinality(Ids) = Cardinality(Tasks \X (0..MaxRetries))
    /\ \A i \in Nat \ {0} : i <= Cardinality(Tasks \X (0..MaxRetries)) => i \in Ids
<1>1. /\ IsFiniteSet(Tasks) /\ MaxRetries \in Nat /\ Cardinality(Tasks) \in Nat
  BY TasksAssumption, RetriesAssumption, FS_CardinalityType
<1>2. IsFiniteSet(0..MaxRetries) /\ Cardinality(0..MaxRetries) = MaxRetries + 1
  BY <1>1, FS_Interval
<1> DEFINE n == Cardinality(Tasks) * (MaxRetries + 1)
<1>3. /\ IsFiniteSet(Tasks \X (0..MaxRetries))
      /\ Cardinality(Tasks \X (0..MaxRetries)) = n
  BY <1>1, <1>2, FS_Product
<1>4. n \in Nat
  BY <1>3, FS_CardinalityType
<1>5. Ids = 1..n
  BY DEF Ids
<1> HIDE DEF n
<1>6. Cardinality(Ids) = n
  BY <1>4, <1>5, FS_Interval
<1>7. Ids \subseteq Nat \ {0} /\ \A i \in Nat \ {0} : i <= n => i \in Ids
  BY <1>4, <1>5
<1> QED
  BY <1>1, <1>3, <1>4, <1>6, <1>7

\* Used tries are finitely many, at most all of them.
LEMMA UsedFinite ==
    /\ IsFiniteSet(Used) /\ Cardinality(Used) \in Nat
    /\ Cardinality(Used) <= Cardinality(Tasks \X (0..MaxRetries))
<1>1. Used \in SUBSET (Tasks \X (0..MaxRetries))
  BY DEF Used
<1> QED
  BY <1>1, Bounds, FS_Subset, FS_CardinalityType

\* A step in which no task goes back uses no fewer tries.
LEMMA UsedGrows ==
    ASSUME IInv, TaskInv, NEW t \in Tasks, UNCHANGED lastId,
           tries' \in [Tasks -> 0..MaxRetries],
           \A v \in Tasks : v # t => tries'[v] = tries[v] /\ pc'[v] = pc[v],
           \/ tries'[t] > tries[t]
           \/ tries'[t] = tries[t] /\ (Begun(t) => Begun(t)')
    PROVE  IdsEnough'
<1>1. tries \in [Tasks -> 0..MaxRetries] /\ MaxRetries \in Nat
  BY Bounds DEF TaskInv, TaskTypes
<1>2. \A v \in Tasks : tries[v] \in Nat /\ tries'[v] \in Nat
  BY <1>1
<1>3. ASSUME NEW u \in Used PROVE u \in Used'
  <2>1. u \in Tasks \X (0..MaxRetries) /\ u[1] \in Tasks /\ u[2] \in Nat
    BY <1>1 DEF Used
  <2>2. u[2] < tries[u[1]] \/ (u[2] = tries[u[1]] /\ Begun(u[1]))
    BY DEF Used
  <2>3. CASE u[1] # t
    <3>1. tries'[u[1]] = tries[u[1]] /\ (Begun(u[1]) => Begun(u[1])')
      BY <2>1, <2>3 DEF Begun
    <3> QED
      BY <2>1, <2>2, <3>1 DEF Used, Begun
  <2>4. CASE u[1] = t
    <3>1. u[2] < tries'[t] \/ (u[2] = tries'[t] /\ Begun(t)')
      BY <1>2, <2>1, <2>2, <2>4
    <3> QED
      BY <2>1, <2>4, <3>1 DEF Used, Begun
  <2> QED
    BY <2>3, <2>4
<1>4. IsFiniteSet(Used') /\ Cardinality(Used') \in Nat
  <2>1. Used' \in SUBSET (Tasks \X (0..MaxRetries))
    BY DEF Used
  <2> QED
    BY <2>1, Bounds, FS_Subset, FS_CardinalityType
<1>5. Cardinality(Used) <= Cardinality(Used')
  <2>1. Used \in SUBSET Used'
    BY <1>3
  <2> QED
    BY <1>4, <2>1, FS_Subset
<1>6. lastId \in Nat /\ lastId <= Cardinality(Used) /\ Cardinality(Used) \in Nat
  BY UsedFinite DEF IInv, Types, TaskInv, IdsEnough
<1> QED
  BY <1>4, <1>5, <1>6 DEF IdsEnough

\* The id that an insert gets is among the ids.
LEMMA IdLeft ==
    ASSUME IInv, TaskInv, NEW t \in Tasks, RQ!InsertUser(t)
    PROVE  lastId + 1 \in Ids /\ IdsEnough'
<1>1. /\ pc[t] = "userless" /\ lastId' = lastId + 1 /\ UNCHANGED tries
      /\ pc' = [pc EXCEPT ![t] = "identified"]
  BY DEF RQ!InsertUser
<1>2. /\ tries[t] \in 0..MaxRetries /\ lastId \in Nat /\ MaxRetries \in Nat
      /\ \A v \in Tasks : tries[v] \in 0..MaxRetries
      /\ pc'[t] = "identified" /\ \A v \in Tasks : v # t => pc'[v] = pc[v]
  BY <1>1, Bounds DEF IInv, Types, TaskInv, TaskTypes
<1> DEFINE now == <<t, tries[t]>>
<1>3. now \in Tasks \X (0..MaxRetries) /\ now[1] = t /\ now[2] = tries[t]
  BY <1>2
<1>4. now \notin Used
  BY <1>1, <1>2, <1>3 DEF Used, Begun
<1>5. Used' \in SUBSET (Tasks \X (0..MaxRetries)) /\ Used \cup {now} \in SUBSET Used'
  <2>1. now \in Used'
    BY <1>1, <1>2, <1>3 DEF Used, Begun
  <2>2. ASSUME NEW u \in Used PROVE u \in Used'
    <3>1. u \in Tasks \X (0..MaxRetries) /\ u[1] \in Tasks /\ (Begun(u[1]) => Begun(u[1])')
      BY <1>1, <1>2 DEF Used, Begun
    <3> QED
      BY <1>1, <3>1 DEF Used, Begun
  <2> QED
    BY <2>1, <2>2 DEF Used
<1> HIDE DEF now
<1>6. Cardinality(Used \cup {now}) = Cardinality(Used) + 1
  BY <1>4, UsedFinite, FS_AddElement
<1>7. /\ IsFiniteSet(Used')
      /\ Cardinality(Used') <= Cardinality(Tasks \X (0..MaxRetries))
  BY <1>5, Bounds, FS_Subset
<1>8. Cardinality(Used \cup {now}) <= Cardinality(Used') /\ Cardinality(Used') \in Nat
  BY <1>5, <1>7, FS_Subset, FS_CardinalityType
<1>9. lastId + 1 <= Cardinality(Used')
  <2>1. lastId <= Cardinality(Used) /\ Cardinality(Used) \in Nat
    BY UsedFinite DEF TaskInv, IdsEnough
  <2> QED
    BY <1>2, <1>6, <1>8, <2>1
<1>10. lastId + 1 \in Ids
  BY <1>2, <1>7, <1>8, <1>9, Bounds
<1> QED
  BY <1>1, <1>9, <1>10 DEF IdsEnough

\* How a try ends, for the variables of the task.
LEMMA TryEnds ==
    ASSUME IInv, TaskInv, NEW t \in Tasks, RQ!Running(t),
           NEW how \in {"committed", "done", "failed"},
           RQ!EndTask(t, how) \/ RQ!Retry(t)
    PROVE  /\ tries' \in [Tasks -> 0..MaxRetries]
           /\ uid' \in [Tasks -> Ids \cup {0}]
           /\ fresh' \in [Tasks -> SUBSET Stations]
           /\ \A v \in Tasks : v # t => /\ tries'[v] = tries[v] /\ pc'[v] = pc[v]
                                        /\ uid'[v] = uid[v] /\ fresh'[v] = fresh[v]
           /\ \/ tries'[t] = tries[t] + 1
              \/ tries'[t] = tries[t] /\ pc'[t] \in {how, "failed"}
<1>1. /\ pc \in [Tasks -> States] /\ tries \in [Tasks -> 0..MaxRetries]
      /\ uid \in [Tasks -> Ids \cup {0}] /\ fresh \in [Tasks -> SUBSET Stations]
      /\ MaxRetries \in Nat
  BY Bounds DEF IInv, Types, TaskInv, TaskTypes
<1>2. ASSUME NEW h \in {"committed", "done", "failed"}, RQ!EndTask(t, h), h \in {how, "failed"}
      PROVE  /\ tries' = tries /\ uid' = uid /\ fresh' \in [Tasks -> SUBSET Stations]
             /\ \A v \in Tasks : v # t => pc'[v] = pc[v] /\ fresh'[v] = fresh[v]
             /\ pc'[t] \in {how, "failed"}
  <2>1. /\ pc' = [pc EXCEPT ![t] = h] /\ fresh' = [fresh EXCEPT ![t] = {}]
        /\ tries' = tries /\ uid' = uid
    BY <1>2 DEF RQ!EndTask
  <2>2. pc'[t] = h /\ \A v \in Tasks : v # t => pc'[v] = pc[v] /\ fresh'[v] = fresh[v]
    BY <1>1, <2>1
  <2>3. fresh' \in [Tasks -> SUBSET Stations]
    BY <1>1, <2>1
  <2> QED
    BY <1>2, <2>1, <2>2, <2>3
<1>3. CASE RQ!EndTask(t, how) \/ RQ!EndTask(t, "failed")
  BY <1>1, <1>2, <1>3
<1>4. CASE RQ!Retry(t) /\ tries[t] < MaxRetries
  <2>1. /\ pc' = [pc EXCEPT ![t] = "waiting"] /\ fresh' = [fresh EXCEPT ![t] = {}]
        /\ tries' = [tries EXCEPT ![t] = @ + 1] /\ uid' = [uid EXCEPT ![t] = 0]
    BY <1>4 DEF RQ!Retry
  <2>2. tries[t] + 1 \in 0..MaxRetries
    BY <1>1, <1>4
  <2> QED
    BY <1>1, <2>1, <2>2
<1> QED
  BY <1>3, <1>4 DEF RQ!Retry

\* A step that pushes nothing and takes no task back keeps what was pushed
\* within the tries.
LEMMA PushedPerTryKept ==
    ASSUME IInv, TaskInv, NEW t \in Tasks, UNCHANGED pushes,
           tries'[t] \in Nat,
           \A v \in Tasks : v # t => tries'[v] = tries[v] /\ pc'[v] = pc[v],
           tries'[t] > tries[t] \/ (tries'[t] = tries[t] /\ ~Over(t))
    PROVE  PushedPerTry'
<1> SUFFICES ASSUME NEW v \in Tasks
             PROVE  pushes[v] <= tries'[v] + (IF Over(v)' THEN 1 ELSE 0)
  BY DEF PushedPerTry
<1>1. /\ pushes[v] \in Nat /\ tries[v] \in Nat
      /\ pushes[v] <= tries[v] + (IF Over(v) THEN 1 ELSE 0)
  BY Bounds DEF IInv, Types, TaskInv, TaskTypes, PushedPerTry
<1>2. CASE v # t
  BY <1>1, <1>2 DEF Over
<1>3. CASE v = t
  BY <1>1, <1>3
<1> QED
  BY <1>2, <1>3

\* What a try scores is finitely much, for a user and a number.
LEMMA ScoredFacts ==
    ASSUME TaskInv, NEW t \in Tasks, uid[t] # 0
    PROVE  /\ RQ!Scored(t) \subseteq Deltas
           /\ IsFiniteSet(RQ!Scored(t))
           /\ uid[t] \in Ids
<1>1. /\ uid[t] \in Ids /\ RQ!Tag(t) \in Tags
  BY DEF TaskInv, TaskTypes, RQ!Tag, Tags
<1>2. /\ Cardinality(Places[t]) \in Nat /\ Cardinality(fresh[t]) \in Nat
  <2>1. Places[t] \in SUBSET Grids /\ fresh[t] \in SUBSET Stations
    BY TasksAssumption DEF TaskInv, TaskTypes
  <2> QED
    BY <2>1, SetsAssumption, FS_Subset, FS_CardinalityType
<1> DEFINE one(kind, n) == [tag |-> RQ!Tag(t), key |-> [user |-> uid[t], kind |-> kind], value |-> n]
           a == one("location", Cardinality(Places[t]))
           b == one("new", Cardinality(fresh[t]))
<1>3. ASSUME NEW s \in RQ!Scored(t)
      PROVE  s \in {a, b}
  <2>1. PICK d \in RQ!Deltas(t) :
           s = [tag |-> RQ!Tag(t), key |-> [user |-> uid[t], kind |-> d.kind], value |-> d.value]
    BY DEF RQ!Scored
  <2>2. \/ d = [kind |-> "location", value |-> Cardinality(Places[t])]
        \/ d = [kind |-> "new", value |-> Cardinality(fresh[t])]
    <3> DEFINE place == [kind |-> "location", value |-> Cardinality(Places[t])]
               news == [kind |-> "new", value |-> Cardinality(fresh[t])]
    <3>1. RQ!Deltas(t) = {place} \cup IF fresh[t] = {} THEN {} ELSE {news}
      BY DEF RQ!Deltas, RQ!Cardinality, Cardinality
    <3> HIDE DEF place, news
    <3>2. d = place \/ d = news
      BY <3>1
    <3> QED
      BY <3>2 DEF place, news
  <2>3. \/ d.kind = "location" /\ d.value = Cardinality(Places[t])
        \/ d.kind = "new" /\ d.value = Cardinality(fresh[t])
    BY <2>2
  <2> QED
    BY <2>1, <2>3
<1>4. a \in Deltas /\ b \in Deltas
  BY <1>1, <1>2 DEF Deltas, Keys, Kinds
<1> HIDE DEF a, b
<1>5. IsFiniteSet({a, b})
  <2>1. IsFiniteSet({a} \cup {b})
    BY FS_Singleton, FS_AddElement
  <2>2. {a} \cup {b} = {a, b}
    OBVIOUS
  <2> QED
    BY <2>1, <2>2
<1>6. RQ!Scored(t) \in SUBSET {a, b}
  BY <1>3
<1> QED
  BY <1>1, <1>4, <1>5, <1>6, FS_Subset

\* No task, nothing queued.
LEMMA InitTaskInv == Init => TaskInv
<1> SUFFICES ASSUME Init PROVE TaskInv
  OBVIOUS
<1>1. /\ tries = [t \in Tasks |-> 0] /\ uid = [t \in Tasks |-> 0] /\ fresh = [t \in Tasks |-> {}]
      /\ creditedTo = [t \in Tasks |-> {}] /\ pushes = [t \in Tasks |-> 0] /\ lastId = 0
      /\ known = {} /\ observations = {} /\ unanswered = {} /\ grids = {} /\ scores = {}
  BY DEF Init, RQ!Init
<1>2. TaskTypes /\ QueueTypes
  BY <1>1, Bounds, FS_EmptySet DEF TaskTypes, QueueTypes
<1>3. PushedPerTry
  BY <1>1 DEF PushedPerTry
<1>4. IdsEnough
  BY <1>1, UsedFinite DEF IdsEnough
<1> QED
  BY <1>2, <1>3, <1>4 DEF TaskInv

\* A try begins, gets a user, or pushes its scores.
LEMMA EarlyTaskInv ==
    ASSUME IInv, TaskInv, NEW t \in Tasks,
           RQ!Begin(t) \/ RQ!InsertUser(t) \/ RQ!PushScores(t)
    PROVE  TaskInv'
<1>1. /\ UNCHANGED <<tries, pushes, known, observations, unanswered, grids>>
      /\ ~Over(t)
      /\ \A v \in Tasks : v # t => pc'[v] = pc[v]
  BY DEF RQ!Begin, RQ!InsertUser, RQ!PushScores, RQ!tableVars, RQ!queueVars, Over,
         IInv, Types
<1>2. tries[t] \in Nat /\ MaxRetries \in Nat
  BY Bounds DEF TaskInv, TaskTypes
<1>3. PushedPerTry'
  BY <1>1, <1>2, PushedPerTryKept
<1>4. uid' \in [Tasks -> Ids \cup {0}]
  <2>1. CASE RQ!Begin(t)
    <3> DEFINE id == IF RQ!IdsOf(Nick[t]) = {} THEN 0 ELSE CHOOSE i \in RQ!IdsOf(Nick[t]) : TRUE
    <3>1. id \in Ids \cup {0}
      BY DEF RQ!IdsOf
    <3>2. uid' = [uid EXCEPT ![t] = id]
      BY <2>1 DEF RQ!Begin
    <3> HIDE DEF id
    <3> QED
      BY <3>1, <3>2 DEF TaskInv, TaskTypes
  <2>2. CASE RQ!InsertUser(t)
    <3>1. lastId + 1 \in Ids /\ uid' = [uid EXCEPT ![t] = lastId + 1]
      BY <2>2, IdLeft DEF RQ!InsertUser
    <3> QED
      BY <3>1 DEF TaskInv, TaskTypes
  <2>3. CASE RQ!PushScores(t)
    BY <2>3 DEF RQ!PushScores, TaskInv, TaskTypes
  <2> QED
    BY <2>1, <2>2, <2>3
<1>5. fresh' \in [Tasks -> SUBSET Stations]
  <2>1. fresh' = fresh \/ fresh' = [fresh EXCEPT ![t] = Observed[t] \ known]
    BY DEF RQ!Begin, RQ!InsertUser, RQ!PushScores
  <2>2. Observed[t] \ known \in SUBSET Stations
    BY TasksAssumption
  <2> QED
    BY <2>1, <2>2 DEF TaskInv, TaskTypes
<1>6. /\ creditedTo' \in [Tasks -> SUBSET Ids]
      /\ scores' \subseteq Deltas /\ IsFiniteSet(scores')
  <2>0. /\ creditedTo \in [Tasks -> SUBSET Ids]
        /\ scores \subseteq Deltas /\ IsFiniteSet(scores)
    BY DEF TaskInv, TaskTypes, QueueTypes
  <2>1. CASE UNCHANGED <<creditedTo, scores>>
    BY <2>0, <2>1
  <2>2. CASE /\ uid[t] # 0 /\ scores' = scores \cup RQ!Scored(t)
             /\ creditedTo' = [creditedTo EXCEPT ![t] = @ \cup {uid[t]}]
    BY <2>0, <2>2, ScoredFacts, FS_Union
  <2> QED
    BY <2>1, <2>2 DEF RQ!Begin, RQ!InsertUser, RQ!PushScores, RQ!queueVars
<1>7. TaskTypes' /\ QueueTypes'
  BY <1>1, <1>4, <1>5, <1>6 DEF TaskInv, TaskTypes, QueueTypes
<1>8. IdsEnough'
  <2>1. CASE RQ!InsertUser(t)
    BY <2>1, IdLeft
  <2>2. CASE RQ!Begin(t) \/ RQ!PushScores(t)
    <3>1. lastId' = lastId /\ (Begun(t) => Begun(t)')
      BY <2>2 DEF RQ!Begin, RQ!PushScores, RQ!tableVars, Begun, IInv, Types
    <3> QED
      BY <1>1, <3>1, UsedGrows DEF TaskInv, TaskTypes
  <2> QED
    BY <2>1, <2>2
<1> QED
  BY <1>3, <1>7, <1>8 DEF TaskInv

\* A try commits, fails, or its worker dies.
LEMMA EndTaskInv ==
    ASSUME IInv, TaskInv, NEW t \in Tasks, RQ!Commit(t) \/ RQ!Fail(t) \/ RQ!Crash(t)
    PROVE  TaskInv'
<1>1. /\ UNCHANGED <<pushes, known, observations, unanswered, grids, creditedTo, scores, lastId>>
      /\ RQ!Running(t)
  BY DEF RQ!Commit, RQ!Fail, RQ!Crash, RQ!Running, RQ!tableVars, RQ!queueVars
<1>2. PICK how \in {"committed", "failed"} : RQ!EndTask(t, how) \/ RQ!Retry(t)
  BY DEF RQ!Commit, RQ!Fail, RQ!Crash
<1>3. /\ tries' \in [Tasks -> 0..MaxRetries]
      /\ uid' \in [Tasks -> Ids \cup {0}]
      /\ fresh' \in [Tasks -> SUBSET Stations]
      /\ \A v \in Tasks : v # t => tries'[v] = tries[v] /\ pc'[v] = pc[v]
      /\ tries'[t] = tries[t] + 1 \/ (tries'[t] = tries[t] /\ pc'[t] \in {how, "failed"})
  BY <1>1, <1>2, TryEnds
<1>4. tries[t] \in Nat /\ tries'[t] \in Nat /\ MaxRetries \in Nat
  BY <1>3, Bounds DEF TaskInv, TaskTypes
<1>5. PushedPerTry'
  BY <1>1, <1>3, <1>4, PushedPerTryKept DEF RQ!Running, Over
<1>6. TaskTypes' /\ QueueTypes'
  BY <1>1, <1>3 DEF TaskInv, TaskTypes, QueueTypes
<1>7. IdsEnough'
  BY <1>1, <1>3, <1>4, UsedGrows DEF Begun
<1> QED
  BY <1>5, <1>6, <1>7 DEF TaskInv

\* The pipeline, answered or not: one push more, at the end of a try.
LEMMA PushTaskInv ==
    ASSUME IInv, TaskInv, NEW t \in Tasks, RQ!ExecutePipe(t) \/ RQ!LoseAnswer(t)
    PROVE  TaskInv'
<1>1. /\ UNCHANGED <<known, creditedTo, scores, lastId>>
      /\ pc[t] = "committed" /\ RQ!Running(t)
      /\ unanswered' \subseteq unanswered \cup {t}
      /\ observations' \subseteq observations \cup {RQ!Tag(t)}
      /\ grids' = grids \cup Places[t]
      /\ pushes' = [pushes EXCEPT ![t] = @ + 1]
  BY DEF RQ!ExecutePipe, RQ!LoseAnswer, RQ!Running, RQ!Push, RQ!tableVars
<1>2. RQ!EndTask(t, "done") \/ RQ!Retry(t)
  BY DEF RQ!ExecutePipe, RQ!LoseAnswer
<1>3. /\ tries' \in [Tasks -> 0..MaxRetries]
      /\ uid' \in [Tasks -> Ids \cup {0}]
      /\ fresh' \in [Tasks -> SUBSET Stations]
      /\ \A v \in Tasks : v # t => tries'[v] = tries[v] /\ pc'[v] = pc[v]
      /\ tries'[t] = tries[t] + 1 \/ (tries'[t] = tries[t] /\ pc'[t] \in {"done", "failed"})
  BY <1>1, <1>2, TryEnds
<1>4. /\ tries[t] \in Nat /\ tries'[t] \in Nat /\ MaxRetries \in Nat
      /\ pushes \in [Tasks -> Nat]
  BY <1>3, Bounds DEF IInv, Types, TaskInv, TaskTypes
<1>5. PushedPerTry'
  <2> SUFFICES ASSUME NEW v \in Tasks
               PROVE  pushes'[v] <= tries'[v] + (IF Over(v)' THEN 1 ELSE 0)
    BY DEF PushedPerTry
  <2>1. pushes[v] <= tries[v] + (IF Over(v) THEN 1 ELSE 0)
    BY DEF TaskInv, PushedPerTry
  <2>2. CASE v # t
    BY <1>1, <1>3, <1>4, <2>1, <2>2 DEF Over
  <2>3. CASE v = t
    <3>1. pushes'[t] = pushes[t] + 1 /\ pushes[t] <= tries[t] /\ pushes[t] \in Nat
      BY <1>1, <1>4, <2>1, <2>3 DEF Over
    <3>2. CASE tries'[t] = tries[t] + 1
      BY <1>4, <2>3, <3>1, <3>2
    <3>3. CASE tries'[t] = tries[t] /\ pc'[t] \in {"done", "failed"}
      BY <1>4, <2>3, <3>1, <3>3 DEF Over
    <3> QED
      BY <1>3, <3>2, <3>3
  <2> QED
    BY <2>2, <2>3
<1>6. QueueTypes'
  <2>1. RQ!Tag(t) \in Tags /\ Places[t] \subseteq Grids
    BY TasksAssumption DEF RQ!Tag, Tags, TaskInv, TaskTypes
  <2> QED
    BY <1>1, <2>1 DEF TaskInv, QueueTypes
<1>7. TaskTypes'
  BY <1>1, <1>3 DEF TaskInv, TaskTypes
<1>8. IdsEnough'
  BY <1>1, <1>3, <1>4, UsedGrows DEF Begun
<1> QED
  BY <1>5, <1>6, <1>7, <1>8 DEF TaskInv

\* No step breaks the types and bounds.
LEMMA StepTaskInv == IInv /\ TaskInv /\ [Next]_vars => TaskInv'
<1> SUFFICES ASSUME IInv, TaskInv, [Next]_vars PROVE TaskInv'
  OBVIOUS
<1>1. ASSUME UNCHANGED <<pc, tries, uid, fresh, creditedTo, pushes, lastId>>, QueueTypes'
      PROVE  TaskInv'
  BY <1>1 DEF TaskInv, TaskTypes, PushedPerTry, Over, IdsEnough, Used, Begun
<1>2. ASSUME NEW o \in observations, RQ!UpdateStations(o) PROVE TaskInv'
  <2>1. /\ UNCHANGED <<pc, tries, uid, fresh, creditedTo, pushes, lastId, unanswered, scores, grids>>
        /\ observations' = observations \ {o} /\ known' = known \cup Observed[o.by]
    BY <1>2 DEF RQ!UpdateStations, RQ!taskVars
  <2>2. Observed[o.by] \subseteq Stations
    BY TasksAssumption DEF TaskInv, QueueTypes, Tags
  <2>3. QueueTypes'
    BY <2>1, <2>2 DEF TaskInv, QueueTypes
  <2> QED
    BY <1>1, <2>1, <2>3
<1>3. ASSUME S!Next, UNCHANGED reportVars PROVE TaskInv'
  <2>1. scores' \in {scores, {}}
    BY <1>3 DEF S!Next, S!Dequeue, S!Query, S!Commit, S!Fail
  <2>2. QueueTypes'
    BY <1>3, <2>1, FS_EmptySet DEF TaskInv, QueueTypes, reportVars
  <2> QED
    BY <1>1, <1>3, <2>2 DEF reportVars
<1>4. CASE UNCHANGED vars
  BY <1>1, <1>4 DEF vars, reportVars, TaskInv, QueueTypes
<1>5. CASE RQ!Next
  BY <1>2, <1>5, EarlyTaskInv, EndTaskInv, PushTaskInv DEF RQ!Next
<1> QED
  BY <1>3, <1>4, <1>5 DEF Next

-----------------------------------------------------------------------------
(* Credit before observations.                                             *)

\* The scores of the task were pushed for the user that has its nickname.
Mine(t) == \E u \in creditedTo[t] : users[u] = Nick[t]

\* A task with a nickname has an id before it scores, scores for it before it
\* commits, and pushes its observations when the user is committed.
Credited(t) ==
    Nick[t] # NoNick =>
        /\ pc[t] \in {"identified", "scored"} => uid[t] \in Ids
        /\ Places[t] # {} =>
             /\ pc[t] = "scored" => uid[t] \in creditedTo[t]
             /\ pc[t] = "committed" \/ pushes[t] # 0 => Mine(t)

CreditInv == \A t \in Tasks : Credited(t)

\* The committed users are there for good.
NicksStay == \A i \in Ids : users[i] # NoNick => users'[i] = users[i]

\* A task that a step leaves alone, while users stay, keeps its credit.
LEMMA CreditedKept ==
    ASSUME TaskInv, NicksStay, NEW v \in Tasks, Credited(v),
           UNCHANGED <<pc[v], uid[v], creditedTo[v], pushes[v]>>
    PROVE  Credited(v)'
<1>1. Nick[v] # NoNick /\ Mine(v) => Mine(v)'
  BY DEF Mine, NicksStay, TaskInv, TaskTypes
<1> QED
  BY <1>1 DEF Credited

\* A task's own steps keep its credit when they lead to no user, no score and
\* no commit, and push nothing unless the task has committed.
LEMMA CreditedBack ==
    ASSUME TaskInv, NEW t \in Tasks, Credited(t), UNCHANGED <<users, creditedTo>>,
           pc'[t] \notin {"identified", "scored", "committed"},
           pushes'[t] = pushes[t] \/ pc[t] = "committed"
    PROVE  Credited(t)'
<1>1. Mine(t)' <=> Mine(t)
  BY DEF Mine
<1> QED
  BY <1>1 DEF Credited

\* The steps of a report task.
LEMMA TaskCreditInv ==
    ASSUME IInv, TaskInv, CreditInv, NEW t \in Tasks,
           \/ RQ!Begin(t) \/ RQ!InsertUser(t) \/ RQ!PushScores(t) \/ RQ!Commit(t)
           \/ RQ!ExecutePipe(t) \/ RQ!LoseAnswer(t) \/ RQ!Fail(t) \/ RQ!Crash(t)
    PROVE  CreditInv'
<1>1. /\ users \in [Ids -> Nicks \cup {NoNick}] /\ lastId \in Nat
      /\ pc \in [Tasks -> States] /\ uid \in [Tasks -> Nat] /\ pushes \in [Tasks -> Nat]
      /\ creditedTo \in [Tasks -> SUBSET Ids]
  BY DEF IInv, Types, TaskInv, TaskTypes
<1>2. Credited(t) /\ 0 \notin Ids
  BY Bounds DEF CreditInv
<1>3. SUFFICES /\ NicksStay
               /\ \A v \in Tasks : v # t => UNCHANGED <<pc[v], uid[v], creditedTo[v], pushes[v]>>
               /\ Credited(t)'
  BY CreditedKept DEF CreditInv
<1>4. CASE RQ!Begin(t)
  <2>1. /\ UNCHANGED <<users, creditedTo, pushes>>
        /\ \A v \in Tasks : v # t => pc'[v] = pc[v] /\ uid'[v] = uid[v]
    BY <1>1, <1>4 DEF RQ!Begin, RQ!tableVars, RQ!queueVars
  <2>2. /\ pc'[t] \in {"userless", "identified"}
        /\ pc'[t] = "identified" /\ Nick[t] # NoNick => uid'[t] \in Ids
    <3> DEFINE id == CHOOSE i \in RQ!IdsOf(Nick[t]) : TRUE
    <3>1. CASE RQ!IdsOf(Nick[t]) = {}
      BY <1>1, <1>4, <3>1 DEF RQ!Begin
    <3>2. CASE RQ!IdsOf(Nick[t]) # {}
      <4>1. id \in Ids
        BY <3>2 DEF RQ!IdsOf
      <4>2. uid' = [uid EXCEPT ![t] = id] /\ pc' = [pc EXCEPT ![t] = "identified"]
        BY <1>4, <3>2 DEF RQ!Begin
      <4> HIDE DEF id
      <4> QED
        BY <1>1, <4>1, <4>2
    <3> QED
      BY <3>1, <3>2
  <2>3. Credited(t)'
    <3>1. Mine(t)' <=> Mine(t)
      BY <2>1 DEF Mine
    <3> QED
      BY <1>2, <2>1, <2>2, <3>1 DEF Credited
  <2> QED
    BY <2>1, <2>3 DEF NicksStay
<1>5. CASE RQ!InsertUser(t)
  <2>1. /\ UNCHANGED <<users, creditedTo, pushes>>
        /\ \A v \in Tasks : v # t => pc'[v] = pc[v] /\ uid'[v] = uid[v]
        /\ pc'[t] = "identified" /\ uid'[t] = lastId + 1
    BY <1>1, <1>5 DEF RQ!InsertUser, RQ!queueVars
  <2>2. uid'[t] \in Ids
    BY <1>5, <2>1, IdLeft
  <2>3. Mine(t)' <=> Mine(t)
    BY <2>1 DEF Mine
  <2>4. Credited(t)'
    BY <1>2, <2>1, <2>2, <2>3 DEF Credited
  <2> QED
    BY <2>1, <2>4 DEF NicksStay
<1>6. CASE RQ!PushScores(t)
  <2>1. /\ UNCHANGED <<users, uid, pushes>> /\ pc[t] = "identified" /\ pc'[t] = "scored"
        /\ \A v \in Tasks : v # t => pc'[v] = pc[v] /\ creditedTo'[v] = creditedTo[v]
    BY <1>1, <1>6 DEF RQ!PushScores, RQ!tableVars
  <2>2. /\ creditedTo[t] \subseteq creditedTo'[t]
        /\ uid[t] # 0 /\ Places[t] # {} => uid[t] \in creditedTo'[t]
    BY <1>1, <1>6 DEF RQ!PushScores
  <2>3. Mine(t) => Mine(t)'
    BY <2>1, <2>2 DEF Mine
  <2>4. Credited(t)'
    BY <1>2, <2>1, <2>2, <2>3 DEF Credited
  <2> QED
    BY <2>1, <2>4 DEF NicksStay
<1>7. CASE RQ!Commit(t)
  <2>1. /\ UNCHANGED <<uid, creditedTo, pushes>> /\ pc[t] = "scored" /\ pc'[t] = "committed"
        /\ \A v \in Tasks : v # t => pc'[v] = pc[v]
        /\ users' = IF uid[t] = 0 THEN users ELSE [users EXCEPT ![uid[t]] = Nick[t]]
    BY <1>1, <1>7 DEF RQ!Commit, RQ!EndTask, RQ!queueVars
  <2>2. uid[t] \in Ids => users[uid[t]] \in {NoNick, Nick[t]}
    BY <2>1 DEF IInv, UserInv, UserOfNick, HasUser
  <2>3. NicksStay
    BY <1>1, <2>1, <2>2 DEF NicksStay
  <2>4. ASSUME Nick[t] # NoNick, Places[t] # {}
        PROVE  Mine(t)'
    <3>1. uid[t] \in Ids /\ uid[t] \in creditedTo[t]
      BY <1>2, <2>1, <2>4 DEF Credited
    <3>2. users'[uid[t]] = Nick[t]
      BY <1>1, <1>2, <2>1, <3>1
    <3> QED
      BY <2>1, <3>1, <3>2 DEF Mine
  <2>5. Credited(t)'
    BY <2>1, <2>4 DEF Credited
  <2> QED
    BY <2>1, <2>3, <2>5
<1>8. CASE RQ!ExecutePipe(t) \/ RQ!LoseAnswer(t)
  <2>1. /\ UNCHANGED <<users, creditedTo>> /\ pc[t] = "committed"
        /\ pushes' = [pushes EXCEPT ![t] = @ + 1]
    BY <1>8 DEF RQ!ExecutePipe, RQ!LoseAnswer, RQ!Push, RQ!tableVars
  <2>2. PICK how \in {"done", "failed", "waiting"} :
          /\ pc' = [pc EXCEPT ![t] = how]
          /\ \A v \in Tasks : v # t => uid'[v] = uid[v]
    BY <1>8, Ends DEF RQ!ExecutePipe, RQ!LoseAnswer
  <2>3. pc'[t] = how /\ \A v \in Tasks : v # t => pc'[v] = pc[v] /\ pushes'[v] = pushes[v]
    BY <1>1, <2>1, <2>2
  <2>4. Credited(t)'
    BY <1>2, <2>1, <2>3, CreditedBack
  <2> QED
    BY <2>1, <2>2, <2>3, <2>4 DEF NicksStay
<1>9. CASE RQ!Fail(t) \/ RQ!Crash(t)
  <2>1. UNCHANGED <<users, creditedTo, pushes>>
    BY <1>9 DEF RQ!Fail, RQ!Crash, RQ!tableVars, RQ!queueVars
  <2>2. PICK how \in {"done", "failed", "waiting"} :
          /\ pc' = [pc EXCEPT ![t] = how]
          /\ \A v \in Tasks : v # t => uid'[v] = uid[v]
    BY <1>9, Ends DEF RQ!Fail, RQ!Crash
  <2>3. pc'[t] = how /\ \A v \in Tasks : v # t => pc'[v] = pc[v]
    BY <1>1, <2>2
  <2>4. Credited(t)'
    BY <1>2, <2>1, <2>3, CreditedBack
  <2> QED
    BY <2>1, <2>2, <2>3, <2>4 DEF NicksStay
<1> QED
  BY <1>4, <1>5, <1>6, <1>7, <1>8, <1>9

\* No step breaks it.
LEMMA StepCreditInv == IInv /\ TaskInv /\ CreditInv /\ [Next]_vars => CreditInv'
<1> SUFFICES ASSUME IInv, TaskInv, CreditInv, [Next]_vars PROVE CreditInv'
  OBVIOUS
<1>1. ASSUME UNCHANGED <<users, pc, uid, creditedTo, pushes>> PROVE CreditInv'
  BY <1>1, CreditedKept DEF CreditInv, NicksStay
<1>2. ASSUME NEW o \in observations, RQ!UpdateStations(o) PROVE CreditInv'
  BY <1>1, <1>2 DEF RQ!UpdateStations, RQ!taskVars
<1>3. CASE RQ!Next
  BY <1>2, <1>3, TaskCreditInv DEF RQ!Next
<1>4. CASE UNCHANGED reportVars
  BY <1>1, <1>4 DEF reportVars
<1> QED
  BY <1>3, <1>4 DEF Next, vars

-----------------------------------------------------------------------------
(* Credit is earned.                                                       *)

ScoreTypes ==
    /\ score \in [Keys -> Nat] /\ earned \in [Keys -> Nat]
    /\ overlapped \in BOOLEAN
    /\ spc \in [ScoreWorkers -> {"idle", "dequeued", "queried"}]
    /\ sbatch \in [ScoreWorkers -> SUBSET Deltas]
    /\ \A w \in ScoreWorkers : IsFiniteSet(sbatch[w])
    /\ ssnap = [w \in ScoreWorkers |-> ssnap[w]]
    /\ \A w \in ScoreWorkers :
         ssnap[w] \in [DOMAIN ssnap[w] -> Nat] /\ DOMAIN ssnap[w] \subseteq Keys

\* A task has read the rows of its batch, and nothing that was not earned.
SnapsEarned ==
    \A w \in ScoreWorkers : spc[w] = "queried" =>
        /\ \A d \in sbatch[w] : d.key \in DOMAIN ssnap[w]
        /\ \A k \in DOMAIN ssnap[w] : ssnap[w][k] <= earned[k]

\* A task that runs alone has read the rows as they are.
SnapsCurrent ==
    ~overlapped =>
        /\ \A v, w \in ScoreWorkers : spc[v] # "idle" /\ spc[w] # "idle" => v = w
        /\ \A w \in ScoreWorkers : spc[w] = "queried" =>
             \A k \in DOMAIN ssnap[w] : ssnap[w][k] = score[k]

ScoreInv == ScoreTypes /\ SnapsEarned /\ SnapsCurrent /\ CreditIsEarned

\* The deltas of a batch for a row add up to a number, to none if the batch
\* has no delta for it.
LEMMA DeltaFacts ==
    ASSUME ScoreTypes, NEW w \in ScoreWorkers, NEW k \in Keys
    PROVE  /\ S!Delta(w, k) \in Nat
           /\ (\A d \in sbatch[w] : d.key # k) => S!Delta(w, k) = 0
<1> DEFINE B == {d \in sbatch[w] : d.key = k}
           F == [d \in B |-> d.value]
           P(g) == g = [s \in SUBSET B |->
                           IF s = {} THEN 0
                           ELSE (CHOOSE x \in s : TRUE).value + g[s \ {CHOOSE x \in s : TRUE}]]
<1>1. IsFiniteSet(B)
  <2>1. B \in SUBSET sbatch[w]
    OBVIOUS
  <2> HIDE DEF B
  <2> QED
    BY <2>1, FS_Subset DEF ScoreTypes
<1>2. \A d \in B : F[d] \in Nat
  BY DEF ScoreTypes, Deltas
<1>3. \A g : P(g) <=> IsSum(g, F, B)
  <2> SUFFICES ASSUME NEW g
               PROVE  P(g) <=> IsSum(g, F, B)
    OBVIOUS
  <2>1. \A s \in SUBSET B : s # {} => F[CHOOSE x \in s : TRUE] = (CHOOSE x \in s : TRUE).value
    OBVIOUS
  <2> HIDE DEF B, F
  <2>2. [s \in SUBSET B |->
            IF s = {} THEN 0
            ELSE (CHOOSE x \in s : TRUE).value + g[s \ {CHOOSE x \in s : TRUE}]]
        = [s \in SUBSET B |->
            IF s = {} THEN 0
            ELSE F[CHOOSE x \in s : TRUE] + g[s \ {CHOOSE x \in s : TRUE}]]
    BY <2>1
  <2> QED
    BY <2>2 DEF IsSum
<1>4. S!Delta(w, k) = (CHOOSE g : P(g))[B]
  BY DEF S!Delta, S!MapThenSumSet, S!MapThenFoldSet
<1> DEFINE h == CHOOSE g : P(g)
<1> HIDE DEF B, F, P
<1>5. P(h)
  <2>1. \A d \in B : F[d] \in Int
    BY <1>2
  <2>2. \E g : P(g)
    BY <1>1, <1>3, <2>1, SumExists
  <2> QED
    BY <2>2
<1> HIDE DEF h
<1>6. IsSum(h, F, B)
  BY <1>3, <1>5
<1>7. h[B] \in Nat
  BY <1>1, <1>2, <1>6, SumType
<1>8. B = {} => h[B] = 0
  BY <1>6 DEF IsSum
<1> QED
  BY <1>4, <1>7, <1>8 DEF B, h

\* No row, no task.
LEMMA InitScoreInv == Init => ScoreInv
<1> SUFFICES ASSUME Init PROVE ScoreInv
  OBVIOUS
<1> USE DEF Init, S!Init, S!NoSnap
<1>1. ScoreTypes
  <2>1. overlapped \in BOOLEAN
    OBVIOUS
  <2>2. /\ score \in [Keys -> Nat] /\ earned \in [Keys -> Nat]
        /\ spc \in [ScoreWorkers -> {"idle", "dequeued", "queried"}]
        /\ sbatch \in [ScoreWorkers -> SUBSET Deltas]
        /\ ssnap = [w \in ScoreWorkers |-> ssnap[w]]
    OBVIOUS
  <2>3. \A w \in ScoreWorkers : IsFiniteSet(sbatch[w])
    BY FS_EmptySet
  <2>4. \A w \in ScoreWorkers :
           ssnap[w] \in [DOMAIN ssnap[w] -> Nat] /\ DOMAIN ssnap[w] \subseteq Keys
    OBVIOUS
  <2> QED
    BY <2>1, <2>2, <2>3, <2>4 DEF ScoreTypes
<1>2. SnapsEarned /\ SnapsCurrent /\ CreditIsEarned
  BY DEF SnapsEarned, SnapsCurrent, CreditIsEarned
<1> QED
  BY <1>1, <1>2 DEF ScoreInv

\* A task starts with the whole queue.
LEMMA ScoreDequeue ==
    ASSUME TaskInv, ScoreInv, NEW w \in ScoreWorkers, S!Dequeue(w)
    PROVE  ScoreInv'
<1> DEFINE other == \E v \in ScoreWorkers : spc[v] # "idle"
<1>1. /\ spc[w] = "idle" /\ UNCHANGED <<score, earned, ssnap>>
      /\ sbatch' = [sbatch EXCEPT ![w] = scores] /\ spc' = [spc EXCEPT ![w] = "dequeued"]
  BY DEF S!Dequeue
<1>2. overlapped' = (overlapped \/ other)
  BY DEF S!Dequeue
<1>3. /\ spc'[w] = "dequeued" /\ sbatch'[w] = scores
      /\ \A v \in ScoreWorkers : v # w => spc'[v] = spc[v] /\ sbatch'[v] = sbatch[v]
      /\ scores \subseteq Deltas /\ IsFiniteSet(scores)
  BY <1>1 DEF ScoreInv, ScoreTypes, TaskInv, QueueTypes
<1>4. overlapped' \in BOOLEAN
  BY <1>2
<1>5. /\ sbatch' \in [ScoreWorkers -> SUBSET Deltas]
      /\ spc' \in [ScoreWorkers -> {"idle", "dequeued", "queried"}]
      /\ \A v \in ScoreWorkers : IsFiniteSet(sbatch'[v])
  BY <1>1, <1>3 DEF ScoreInv, ScoreTypes
<1>6. ScoreTypes'
  BY <1>1, <1>4, <1>5 DEF ScoreInv, ScoreTypes
<1>7. SnapsEarned'
  BY <1>1, <1>3 DEF ScoreInv, SnapsEarned
<1>8. ~overlapped' => ~overlapped /\ \A v \in ScoreWorkers : spc[v] = "idle"
  BY <1>2
<1>9. SnapsCurrent' /\ CreditIsEarned'
  BY <1>1, <1>3, <1>8 DEF ScoreInv, SnapsCurrent, CreditIsEarned
<1> QED
  BY <1>6, <1>7, <1>9 DEF ScoreInv

\* A task reads the rows of its batch.
LEMMA ScoreQuery ==
    ASSUME ScoreInv, NEW w \in ScoreWorkers, S!Query(w)
    PROVE  ScoreInv'
<1> DEFINE read == [k \in {d.key : d \in sbatch[w]} |-> score[k]]
<1>1. /\ spc[w] = "dequeued" /\ UNCHANGED <<score, earned, overlapped, sbatch>>
      /\ spc' = [spc EXCEPT ![w] = "queried"] /\ ssnap' = [ssnap EXCEPT ![w] = read]
  BY DEF S!Query
<1>2. /\ DOMAIN read \subseteq Keys /\ \A d \in sbatch[w] : d.key \in DOMAIN read
      /\ read \in [DOMAIN read -> Nat]
      /\ \A k \in DOMAIN read : read[k] = score[k]
  <2>1. \A d \in sbatch[w] : d.key \in Keys
    BY DEF ScoreInv, ScoreTypes, Deltas
  <2>2. \A k \in Keys : score[k] \in Nat
    BY DEF ScoreInv, ScoreTypes
  <2> QED
    BY <2>1, <2>2
<1> HIDE DEF read
<1>3. ssnap = [v \in ScoreWorkers |-> ssnap[v]]
  BY DEF ScoreInv, ScoreTypes
<1>4. /\ ssnap' = [v \in ScoreWorkers |-> ssnap'[v]]
      /\ ssnap'[w] = read
      /\ \A v \in ScoreWorkers : v # w => ssnap'[v] = ssnap[v]
  BY <1>1, <1>3
<1>5. /\ spc' \in [ScoreWorkers -> {"idle", "dequeued", "queried"}]
      /\ spc'[w] = "queried"
      /\ \A v \in ScoreWorkers : v # w => spc'[v] = spc[v]
  BY <1>1 DEF ScoreInv, ScoreTypes
<1>6. \A v \in ScoreWorkers :
         ssnap'[v] \in [DOMAIN ssnap'[v] -> Nat] /\ DOMAIN ssnap'[v] \subseteq Keys
  BY <1>2, <1>4 DEF ScoreInv, ScoreTypes
<1>7. ScoreTypes'
  BY <1>1, <1>4, <1>5, <1>6 DEF ScoreInv, ScoreTypes
<1>8. \A k \in Keys : score[k] <= earned[k]
  BY DEF ScoreInv, CreditIsEarned
<1>9. SnapsEarned'
  BY <1>1, <1>2, <1>4, <1>5, <1>8 DEF ScoreInv, SnapsEarned
<1>10. SnapsCurrent'
  BY <1>1, <1>2, <1>4, <1>5 DEF ScoreInv, SnapsCurrent
<1>11. CreditIsEarned'
  BY <1>1 DEF ScoreInv, CreditIsEarned
<1> QED
  BY <1>7, <1>9, <1>10, <1>11 DEF ScoreInv

\* How a score task ends, by its commit or its failure.
LEMMA ScoreEnds ==
    ASSUME ScoreTypes, NEW w \in ScoreWorkers, S!EndTask(w)
    PROVE  /\ spc' \in [ScoreWorkers -> {"idle", "dequeued", "queried"}]
           /\ sbatch' \in [ScoreWorkers -> SUBSET Deltas]
           /\ \A v \in ScoreWorkers : IsFiniteSet(sbatch'[v])
           /\ ssnap' = [v \in ScoreWorkers |-> ssnap'[v]]
           /\ \A v \in ScoreWorkers :
                ssnap'[v] \in [DOMAIN ssnap'[v] -> Nat] /\ DOMAIN ssnap'[v] \subseteq Keys
           /\ spc'[w] = "idle"
           /\ \A v \in ScoreWorkers : v # w =>
                spc'[v] = spc[v] /\ sbatch'[v] = sbatch[v] /\ ssnap'[v] = ssnap[v]
<1> DEFINE none == [k \in {} |-> 0]
<1>1. /\ spc' = [spc EXCEPT ![w] = "idle"] /\ sbatch' = [sbatch EXCEPT ![w] = {}]
      /\ ssnap' = [ssnap EXCEPT ![w] = none]
  BY DEF S!EndTask, S!NoSnap
<1>2. none \in [DOMAIN none -> Nat] /\ DOMAIN none \subseteq Keys
  OBVIOUS
<1> HIDE DEF none
<1>3. /\ spc' \in [ScoreWorkers -> {"idle", "dequeued", "queried"}]
      /\ sbatch' \in [ScoreWorkers -> SUBSET Deltas]
      /\ spc'[w] = "idle" /\ sbatch'[w] = {}
      /\ \A v \in ScoreWorkers : v # w => spc'[v] = spc[v] /\ sbatch'[v] = sbatch[v]
  BY <1>1 DEF ScoreTypes
<1>4. /\ ssnap' = [v \in ScoreWorkers |-> ssnap'[v]]
      /\ ssnap'[w] = none
      /\ \A v \in ScoreWorkers : v # w => ssnap'[v] = ssnap[v]
  <2>1. ssnap = [v \in ScoreWorkers |-> ssnap[v]]
    BY DEF ScoreTypes
  <2> QED
    BY <1>1, <2>1
<1>5. \A v \in ScoreWorkers :
         ssnap'[v] \in [DOMAIN ssnap'[v] -> Nat] /\ DOMAIN ssnap'[v] \subseteq Keys
  BY <1>2, <1>4 DEF ScoreTypes
<1>6. \A v \in ScoreWorkers : IsFiniteSet(sbatch'[v])
  BY <1>3, FS_EmptySet DEF ScoreTypes
<1> QED
  BY <1>3, <1>4, <1>5, <1>6

\* A task commits: what it writes has been earned, and is what has been earned
\* if it is alone.
LEMMA ScoreCommit ==
    ASSUME ScoreInv, NEW w \in ScoreWorkers, S!Commit(w)
    PROVE  ScoreInv'
<1>1. /\ spc[w] = "queried" /\ UNCHANGED overlapped /\ S!EndTask(w)
      /\ score' = [k \in Keys |-> IF k \in DOMAIN ssnap[w] THEN S!Written(w, k) ELSE score[k]]
      /\ earned' = [k \in Keys |-> earned[k] + S!Delta(w, k)]
  BY DEF S!Commit
<1>2. /\ spc' \in [ScoreWorkers -> {"idle", "dequeued", "queried"}]
      /\ sbatch' \in [ScoreWorkers -> SUBSET Deltas]
      /\ \A v \in ScoreWorkers : IsFiniteSet(sbatch'[v])
      /\ ssnap' = [v \in ScoreWorkers |-> ssnap'[v]]
      /\ \A v \in ScoreWorkers :
           ssnap'[v] \in [DOMAIN ssnap'[v] -> Nat] /\ DOMAIN ssnap'[v] \subseteq Keys
      /\ spc'[w] = "idle"
      /\ \A v \in ScoreWorkers : v # w =>
           spc'[v] = spc[v] /\ sbatch'[v] = sbatch[v] /\ ssnap'[v] = ssnap[v]
  BY <1>1, ScoreEnds DEF ScoreInv
<1>3. ASSUME NEW k \in Keys
      PROVE  /\ S!Delta(w, k) \in Nat /\ score[k] \in Nat /\ earned[k] \in Nat
             /\ k \in DOMAIN ssnap[w] => ssnap[w][k] \in Nat /\ ssnap[w][k] <= earned[k]
             /\ k \notin DOMAIN ssnap[w] => S!Delta(w, k) = 0
             /\ score[k] <= earned[k]
             /\ ~overlapped => score[k] = earned[k]
             /\ ~overlapped /\ k \in DOMAIN ssnap[w] => ssnap[w][k] = score[k]
  <2>1. S!Delta(w, k) \in Nat /\ ((\A d \in sbatch[w] : d.key # k) => S!Delta(w, k) = 0)
    BY DeltaFacts DEF ScoreInv
  <2>2. k \notin DOMAIN ssnap[w] => \A d \in sbatch[w] : d.key # k
    BY <1>1 DEF ScoreInv, SnapsEarned
  <2>3. score[k] \in Nat /\ earned[k] \in Nat /\ (k \in DOMAIN ssnap[w] => ssnap[w][k] \in Nat)
    BY DEF ScoreInv, ScoreTypes
  <2>4. k \in DOMAIN ssnap[w] => ssnap[w][k] <= earned[k]
    BY <1>1 DEF ScoreInv, SnapsEarned
  <2>5. score[k] <= earned[k] /\ (~overlapped => score[k] = earned[k])
    BY DEF ScoreInv, CreditIsEarned
  <2>6. ~overlapped /\ k \in DOMAIN ssnap[w] => ssnap[w][k] = score[k]
    BY <1>1 DEF ScoreInv, SnapsCurrent
  <2> QED
    BY <2>1, <2>2, <2>3, <2>4, <2>5, <2>6
<1>4. ASSUME NEW k \in Keys
      PROVE  /\ score'[k] \in Nat /\ earned'[k] \in Nat
             /\ earned[k] <= earned'[k]
             /\ score'[k] <= earned'[k]
             /\ ~overlapped => score'[k] = earned'[k]
  <2>1. earned'[k] = earned[k] + S!Delta(w, k)
    BY <1>1
  <2>2. CASE k \notin DOMAIN ssnap[w]
    <3>1. score'[k] = score[k]
      BY <1>1, <2>2
    <3> QED
      BY <1>3, <2>1, <2>2, <3>1
  <2>3. CASE k \in DOMAIN ssnap[w]
    <3>1. score'[k] = (IF ssnap[w][k] = 0 THEN score[k] ELSE ssnap[w][k]) + S!Delta(w, k)
      BY <1>1, <2>3 DEF S!Written
    <3> QED
      BY <1>3, <2>1, <2>3, <3>1
  <2> QED
    BY <2>2, <2>3
<1>5. score' \in [Keys -> Nat] /\ earned' \in [Keys -> Nat]
  <2>1. score' = [k \in Keys |-> score'[k]] /\ earned' = [k \in Keys |-> earned'[k]]
    BY <1>1
  <2> QED
    BY <1>4, <2>1
<1>6. overlapped' \in BOOLEAN
  BY <1>1 DEF ScoreInv, ScoreTypes
<1>7. ScoreTypes'
  BY <1>2, <1>5, <1>6 DEF ScoreTypes
<1>8. SnapsEarned'
  <2> SUFFICES ASSUME NEW v \in ScoreWorkers, spc'[v] = "queried"
               PROVE  /\ \A d \in sbatch'[v] : d.key \in DOMAIN ssnap'[v]
                      /\ \A k \in DOMAIN ssnap'[v] : ssnap'[v][k] <= earned'[k]
    BY DEF SnapsEarned
  <2>1. v # w /\ spc[v] = "queried" /\ sbatch'[v] = sbatch[v] /\ ssnap'[v] = ssnap[v]
    BY <1>2
  <2>2. /\ \A d \in sbatch[v] : d.key \in DOMAIN ssnap[v]
        /\ \A k \in DOMAIN ssnap[v] : ssnap[v][k] <= earned[k]
    BY <2>1 DEF ScoreInv, SnapsEarned
  <2>3. ASSUME NEW k \in DOMAIN ssnap[v]
        PROVE  ssnap[v][k] <= earned'[k]
    <3>1. k \in Keys /\ ssnap[v][k] \in Nat
      BY DEF ScoreInv, ScoreTypes
    <3>2. ssnap[v][k] <= earned[k] /\ earned[k] <= earned'[k] /\ earned[k] \in Nat /\ earned'[k] \in Nat
      BY <1>3, <1>4, <2>2, <3>1
    <3> QED
      BY <3>1, <3>2
  <2> QED
    BY <2>1, <2>2, <2>3
<1>9. SnapsCurrent'
  BY <1>1, <1>2 DEF ScoreInv, SnapsCurrent
<1>10. CreditIsEarned'
  BY <1>1, <1>4 DEF CreditIsEarned
<1> QED
  BY <1>7, <1>8, <1>9, <1>10 DEF ScoreInv

\* A task fails.
LEMMA ScoreFail ==
    ASSUME ScoreInv, NEW w \in ScoreWorkers, S!Fail(w)
    PROVE  ScoreInv'
<1>1. UNCHANGED <<score, earned, overlapped>> /\ S!EndTask(w)
  BY DEF S!Fail
<1>2. /\ spc' \in [ScoreWorkers -> {"idle", "dequeued", "queried"}]
      /\ sbatch' \in [ScoreWorkers -> SUBSET Deltas]
      /\ \A v \in ScoreWorkers : IsFiniteSet(sbatch'[v])
      /\ ssnap' = [v \in ScoreWorkers |-> ssnap'[v]]
      /\ \A v \in ScoreWorkers :
           ssnap'[v] \in [DOMAIN ssnap'[v] -> Nat] /\ DOMAIN ssnap'[v] \subseteq Keys
      /\ spc'[w] = "idle"
      /\ \A v \in ScoreWorkers : v # w =>
           spc'[v] = spc[v] /\ sbatch'[v] = sbatch[v] /\ ssnap'[v] = ssnap[v]
  BY <1>1, ScoreEnds DEF ScoreInv
<1>3. ScoreTypes'
  BY <1>1, <1>2 DEF ScoreInv, ScoreTypes
<1>4. SnapsEarned' /\ SnapsCurrent' /\ CreditIsEarned'
  BY <1>1, <1>2 DEF ScoreInv, SnapsEarned, SnapsCurrent, CreditIsEarned
<1> QED
  BY <1>3, <1>4 DEF ScoreInv

\* No step breaks it.
LEMMA StepScoreInv == TaskInv /\ ScoreInv /\ [Next]_vars => ScoreInv'
<1> SUFFICES ASSUME TaskInv, ScoreInv, [Next]_vars PROVE ScoreInv'
  OBVIOUS
<1>1. ASSUME UNCHANGED scoreVars PROVE ScoreInv'
  BY <1>1 DEF scoreVars, ScoreInv, ScoreTypes, SnapsEarned, SnapsCurrent, CreditIsEarned
<1>2. CASE S!Next
  BY <1>2, ScoreDequeue, ScoreQuery, ScoreCommit, ScoreFail DEF S!Next
<1> QED
  BY <1>1, <1>2 DEF Next, vars

-----------------------------------------------------------------------------
(* The theorems that need those invariants.                                *)

\* Report tasks keep within their tries and the ids, push their scores before
\* their observations, and what score tasks have in hand was earned.
THEOREM ContributionsConsistent == Spec => [](TaskInv /\ CreditInv /\ ScoreInv)
<1>1. Init => CreditInv
  BY DEF Init, RQ!Init, CreditInv, Credited
<1> QED
  BY <1>1, InitTaskInv, InitScoreInv, StepTaskInv, StepCreditInv, StepScoreInv, TasksConsistent,
     PTL DEF Spec

\* Every variable has its type; in particular there are ids enough, no task
\* pushes more often than it is tried, and no score is negative.
THEOREM TypeCorrect == Spec => []TypeOK
<1>1. IInv /\ TaskInv /\ ScoreInv => TypeOK
  <2> SUFFICES ASSUME IInv, TaskInv, ScoreInv PROVE TypeOK
    OBVIOUS
  <2>1. lastId \in 0..Cardinality(Ids)
    BY UsedFinite, Bounds DEF IInv, Types, TaskInv, IdsEnough
  <2>2. pushes \in [Tasks -> 0..(MaxRetries + 1)]
    <3>1. ASSUME NEW t \in Tasks PROVE pushes[t] \in 0..(MaxRetries + 1)
      <4>1. pushes[t] \in Nat /\ tries[t] \in 0..MaxRetries /\ MaxRetries \in Nat
        BY Bounds DEF IInv, Types, TaskInv, TaskTypes
      <4>2. pushes[t] <= tries[t] + (IF Over(t) THEN 1 ELSE 0)
        BY DEF TaskInv, PushedPerTry
      <4> QED
        BY <4>1, <4>2
    <3> QED
      BY <3>1 DEF IInv, Types
  <2>3. \A w \in ScoreWorkers : sbatch[w] \subseteq Deltas
    BY DEF ScoreInv, ScoreTypes
  <2>4. overlapped \in BOOLEAN
    BY DEF ScoreInv, ScoreTypes
  <2> QED
    BY <2>1, <2>2, <2>3, <2>4
    DEF TypeOK, IInv, Types, States, TaskInv, TaskTypes, QueueTypes, ScoreInv, ScoreTypes
<1> QED
  BY <1>1, TasksConsistent, ContributionsConsistent, PTL

\* Observations enter the queues only when their score has, for a user that is
\* committed (data/report.py pushes scores before the session commits).
THEOREM CreditedFirst == Spec => []ObservedIsCredited
<1>1. IInv /\ CreditInv => ObservedIsCredited
  <2> SUFFICES ASSUME IInv, CreditInv, NEW t \in Tasks,
                      pushes[t] > 0, Nick[t] # NoNick, Places[t] # {}
               PROVE  \E u \in creditedTo[t] : users[u] = Nick[t]
    BY DEF ObservedIsCredited
  <2>1. pushes[t] # 0
    BY DEF IInv, Types
  <2> QED
    BY <2>1 DEF CreditInv, Credited, Mine
<1> QED
  BY <1>1, TasksConsistent, ContributionsConsistent, PTL

\* ScoreUpdater (data/score.py) credits no more than was earned, and all of it
\* if no two tasks overlap.
THEOREM NoMoreThanEarned == Spec => []CreditIsEarned
<1>1. ScoreInv => CreditIsEarned
  BY DEF ScoreInv
<1> QED
  BY <1>1, ContributionsConsistent, PTL
=============================================================================
