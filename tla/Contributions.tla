---------------------------- MODULE Contributions ----------------------------
(***************************************************************************)
(* What becomes of the reports of users: ReportQueue, the insert_reports   *)
(* tasks, with Score, the tasks that drain the scores they push.  The two  *)
(* share the update_score queue and nothing else.                          *)
(***************************************************************************)
EXTENDS Integers, FiniteSets, FiniteSetsExt

CONSTANTS
    Tasks,          \* the insert_reports messages ever sent
    Nicks, NoNick,
    Nick,           \* the nickname of a task, NoNick if it has no valid one
    Stations,
    Observed,       \* the stations of its valid observations
    Grids,
    Places,         \* the grids of the reports that have one
    MaxRetries,     \* BaseTask.max_retries
    ScoreWorkers    \* worker processes for score tasks

ASSUME TasksAssumption ==
    /\ IsFiniteSet(Tasks)
    /\ NoNick \notin Nicks
    /\ Nick \in [Tasks -> Nicks \cup {NoNick}]
    /\ Observed \in [Tasks -> SUBSET Stations]
    /\ Places \in [Tasks -> SUBSET Grids]
ASSUME SetsAssumption ==
    /\ IsFiniteSet(Stations)
    /\ IsFiniteSet(Grids)
ASSUME RetriesAssumption == MaxRetries \in Nat

VARIABLES
    users, lastId, known,
    pc, tries, uid, fresh,
    observations, pushes, unanswered, creditedTo, scores, grids,
    score, earned, overlapped, spc, sbatch, ssnap

\* Every try makes at most one user.
Ids == 1..(Cardinality(Tasks) * (MaxRetries + 1))
Kinds == {"location", "new"}
Keys == [user : Ids, kind : Kinds]

RQ == INSTANCE ReportQueue
S == INSTANCE Score

reportVars == <<users, lastId, known, pc, tries, uid, fresh, observations, pushes, unanswered, creditedTo, grids>>
scoreVars == <<score, earned, overlapped, spc, sbatch, ssnap>>
vars == <<scores, reportVars, scoreVars>>

Init == RQ!Init /\ S!Init

Next ==
    \/ RQ!Next /\ UNCHANGED scoreVars
    \/ S!Next /\ UNCHANGED reportVars

Spec == Init /\ [][Next]_vars

-----------------------------------------------------------------------------
Tags == [by : Tasks, try : 0..MaxRetries]
Deltas == [tag : Tags, key : Keys, value : Nat]

TypeOK ==
    /\ users \in [Ids -> Nicks \cup {NoNick}]
    /\ lastId \in 0..Cardinality(Ids)
    /\ known \subseteq Stations
    /\ pc \in [Tasks -> {"waiting", "userless", "identified", "scored", "committed",
                         "done", "failed"}]
    /\ tries \in [Tasks -> 0..MaxRetries]
    /\ uid \in [Tasks -> Ids \cup {0}]
    /\ fresh \in [Tasks -> SUBSET Stations]
    /\ observations \subseteq Tags
    /\ pushes \in [Tasks -> 0..(MaxRetries + 1)]
    /\ unanswered \subseteq Tasks
    /\ creditedTo \in [Tasks -> SUBSET Ids]
    /\ scores \subseteq Deltas
    /\ grids \subseteq Grids
    /\ score \in [Keys -> Nat] /\ earned \in [Keys -> Nat]
    /\ overlapped \in BOOLEAN
    /\ spc \in [ScoreWorkers -> {"idle", "dequeued", "queried"}]
    /\ \A w \in ScoreWorkers :
         /\ sbatch[w] \subseteq Deltas
         /\ ssnap[w] \in [DOMAIN ssnap[w] -> Nat] /\ DOMAIN ssnap[w] \subseteq Keys

\* However the tasks of one nickname overlap and are tried again, it has one
\* user in the end.
OneUserPerNickname ==
    \A i, j \in Ids : users[i] # NoNick /\ users[i] = users[j] => i = j

\* The observations of a task are pushed once, however often it is tried again
\* after a failure, unless Redis pushed them and its answer was lost.
ObservationsPushedOnce ==
    \A t \in Tasks : t \notin unanswered => pushes[t] <= 1

\* Observations do not get into the queues before the score of their reports
\* was pushed, for a user that is there for good.
ObservedIsCredited ==
    \A t \in Tasks :
        pushes[t] > 0 /\ Nick[t] # NoNick /\ Places[t] # {} =>
            \E u \in creditedTo[t] : users[u] = Nick[t]

\* A user is never credited with more than the deltas of committed tasks, and
\* with no less if no two score tasks overlap.
CreditIsEarned ==
    \A k \in Keys :
        /\ score[k] <= earned[k]
        /\ ~overlapped => score[k] = earned[k]
=============================================================================
