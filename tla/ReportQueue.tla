----------------------------- MODULE ReportQueue -----------------------------
(***************************************************************************)
(* insert_reports of data/tasks.py, running ReportQueue of data/report.py: *)
(* the reports of one user become observations, grids of the data map and  *)
(* scores.                                                                 *)
(*                                                                         *)
(* A task finds or makes the user, looks up which stations are new, pushes *)
(* the scores at once, commits, and executes the pipeline that holds the   *)
(* observations and the grids.  It may fail at any point and is then sent  *)
(* again as a whole, up to MaxRetries times, unless its worker dies.       *)
(*                                                                         *)
(* Constants and queues are those of Contributions, which composes this    *)
(* module with the tasks that drain the scores.                            *)
(***************************************************************************)
EXTENDS Integers, FiniteSets

CONSTANTS
    Tasks,          \* the insert_reports messages ever sent
    Nick,           \* the nickname of a task, NoNick if it has no valid one
    NoNick,
    Observed,       \* the stations of its valid observations
    Places,         \* the grids of the reports that have one
    Ids,            \* user ids
    MaxRetries      \* BaseTask.max_retries

VARIABLES
    users,          \* the nickname of each committed user id
    lastId,         \* the auto-increment counter of the user table
    known,          \* the stations in the station tables
    pc,             \* how far the present try of a task is
    tries,          \* how often it was retried
    uid,            \* the user id the try has found or made, 0 for none
    fresh,          \* the stations its snapshot lacks
    observations,   \* tries whose observations wait in the update queues
    pushes,         \* how often the observations of a task were pushed
    unanswered,     \* tasks whose pipeline was executed without an answer
    creditedTo,     \* the user ids the scores of a task were pushed for
    scores,         \* the update_score queue
    grids           \* the update_datamap queue

tableVars == <<users, lastId, known>>
queueVars == <<observations, pushes, unanswered, creditedTo, scores, grids>>
taskVars == <<pc, tries, uid, fresh>>
vars == <<tableVars, queueVars, taskVars>>

Init ==
    /\ users = [i \in Ids |-> NoNick]
    /\ lastId = 0
    /\ known = {}
    /\ pc = [t \in Tasks |-> "waiting"]
    /\ tries = [t \in Tasks |-> 0]
    /\ uid = [t \in Tasks |-> 0]
    /\ fresh = [t \in Tasks |-> {}]
    /\ observations = {}
    /\ pushes = [t \in Tasks |-> 0]
    /\ unanswered = {}
    /\ creditedTo = [t \in Tasks |-> {}]
    /\ scores = {}
    /\ grids = {}

-----------------------------------------------------------------------------
\* The ids of a nickname among the committed users.
IdsOf(nick) == {i \in Ids : nick # NoNick /\ users[i] = nick}

Tag(t) == [by |-> t, try |-> tries[t]]

\* A try starts: the transaction's snapshot tells the user, if there is one,
\* and the stations that are not known yet.
Begin(t) ==
    /\ pc[t] = "waiting"
    /\ uid' = [uid EXCEPT ![t] = IF IdsOf(Nick[t]) = {} THEN 0
                                 ELSE CHOOSE i \in IdsOf(Nick[t]) : TRUE]
    /\ fresh' = [fresh EXCEPT ![t] = Observed[t] \ known]
    /\ pc' = [pc EXCEPT ![t] =
                IF Nick[t] # NoNick /\ IdsOf(Nick[t]) = {} THEN "userless" ELSE "identified"]
    /\ UNCHANGED <<tableVars, queueVars, tries>>

\* Tasks with an uncommitted user row of the same nickname.
Inserting(nick) ==
    {t \in Tasks : Nick[t] = nick /\ pc[t] \in {"identified", "scored"}
                   /\ uid[t] # 0 /\ users[uid[t]] = NoNick}

\* Mutant: the nickname column is not unique.
MayInsertAnyway(t) == TRUE

\* The nickname is unique: an insert waits for the transaction that has one
\* like it, and raises if that one commits.
MayInsert(t) == IdsOf(Nick[t]) = {} /\ Inserting(Nick[t]) = {}

\* The user row is flushed to get its id, but not committed.
InsertUser(t) ==
    /\ pc[t] = "userless"
    /\ MayInsert(t)
    /\ lastId' = lastId + 1
    /\ uid' = [uid EXCEPT ![t] = lastId + 1]
    /\ pc' = [pc EXCEPT ![t] = "identified"]
    /\ UNCHANGED <<users, known, queueVars, tries, fresh>>

\* What a try scores: its places, and the stations it takes for new.
Deltas(t) ==
    {[kind |-> "location", value |-> Cardinality(Places[t])]} \cup
    IF fresh[t] = {} THEN {} ELSE {[kind |-> "new", value |-> Cardinality(fresh[t])]}

Scored(t) ==
    {[tag |-> Tag(t), key |-> [user |-> uid[t], kind |-> d.kind], value |-> d.value] : d \in Deltas(t)}

\* Mutant: only tasks with a new station score.
PushScoresIfNew(t) ==
    /\ pc[t] = "identified"
    /\ IF uid[t] # 0 /\ fresh[t] # {}
         THEN /\ scores' = scores \cup Scored(t)
              /\ creditedTo' = [creditedTo EXCEPT ![t] = @ \cup {uid[t]}]
         ELSE UNCHANGED <<scores, creditedTo>>
    /\ pc' = [pc EXCEPT ![t] = "scored"]
    /\ UNCHANGED <<tableVars, observations, pushes, unanswered, grids, tries, uid, fresh>>

\* The scores go into their queue at once, not with the pipeline.
PushScores(t) ==
    /\ pc[t] = "identified"
    /\ IF uid[t] # 0 /\ Places[t] # {}
         THEN /\ scores' = scores \cup Scored(t)
              /\ creditedTo' = [creditedTo EXCEPT ![t] = @ \cup {uid[t]}]
         ELSE UNCHANGED <<scores, creditedTo>>
    /\ pc' = [pc EXCEPT ![t] = "scored"]
    /\ UNCHANGED <<tableVars, observations, pushes, unanswered, grids, tries, uid, fresh>>

\* The end of a try that is not, or cannot be, sent again.
EndTask(t, how) ==
    /\ pc' = [pc EXCEPT ![t] = how]
    /\ fresh' = [fresh EXCEPT ![t] = {}]
    /\ UNCHANGED <<tries, uid>>

Commit(t) ==
    /\ pc[t] = "scored"
    /\ users' = IF uid[t] = 0 THEN users ELSE [users EXCEPT ![uid[t]] = Nick[t]]
    /\ EndTask(t, "committed")
    /\ UNCHANGED <<lastId, known, queueVars>>

\* The pipeline pushes observations and grids in one transaction.
Push(t) ==
    /\ observations' = IF Observed[t] = {} THEN observations ELSE observations \cup {Tag(t)}
    /\ pushes' = [pushes EXCEPT ![t] = @ + 1]
    /\ grids' = grids \cup Places[t]

ExecutePipe(t) ==
    /\ pc[t] = "committed"
    /\ Push(t)
    /\ EndTask(t, "done")
    /\ UNCHANGED <<tableVars, unanswered, creditedTo, scores>>

\* Mutant: one try too many.
RetryOnceMore(t) ==
    IF tries[t] <= MaxRetries
      THEN /\ pc' = [pc EXCEPT ![t] = "waiting"]
           /\ tries' = [tries EXCEPT ![t] = @ + 1]
           /\ uid' = [uid EXCEPT ![t] = 0]
           /\ fresh' = [fresh EXCEPT ![t] = {}]
      ELSE EndTask(t, "failed")

\* The next try of a task, if it has one.
Retry(t) ==
    IF tries[t] < MaxRetries
      THEN /\ pc' = [pc EXCEPT ![t] = "waiting"]
           /\ tries' = [tries EXCEPT ![t] = @ + 1]
           /\ uid' = [uid EXCEPT ![t] = 0]
           /\ fresh' = [fresh EXCEPT ![t] = {}]
      ELSE EndTask(t, "failed")

\* Redis has executed the pipeline, but its answer does not arrive.
LoseAnswer(t) ==
    /\ pc[t] = "committed"
    /\ Push(t)
    /\ unanswered' = unanswered \cup {t}
    /\ Retry(t)
    /\ UNCHANGED <<tableVars, creditedTo, scores>>

\* Mutant: a message is acknowledged late and can be delivered again.
RunningOrDone(t) == pc[t] \in {"userless", "identified", "scored", "committed", "done"}

Running(t) == pc[t] \in {"userless", "identified", "scored", "committed"}

\* The task raises; what is not committed is rolled back, and its id lost.
Fail(t) ==
    /\ Running(t)
    /\ Retry(t)
    /\ UNCHANGED <<tableVars, queueVars>>

\* The worker dies; the message was acknowledged when the task started.
Crash(t) ==
    /\ Running(t)
    /\ EndTask(t, "failed")
    /\ UNCHANGED <<tableVars, queueVars>>

\* A station update consumes the observations of a try.
UpdateStations(o) ==
    /\ o \in observations
    /\ observations' = observations \ {o}
    /\ known' = known \cup Observed[o.by]
    /\ UNCHANGED <<users, lastId, pushes, unanswered, creditedTo, scores, grids, taskVars>>

Next ==
    \/ \E t \in Tasks :
         \/ Begin(t) \/ InsertUser(t) \/ PushScores(t) \/ Commit(t)
         \/ ExecutePipe(t) \/ LoseAnswer(t) \/ Fail(t) \/ Crash(t)
    \/ \E o \in observations : UpdateStations(o)
=============================================================================
