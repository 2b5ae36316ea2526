-------------------------------- MODULE Score --------------------------------
(***************************************************************************)
(* update_score of data/tasks.py, running ScoreUpdater of data/score.py:   *)
(* the deltas in the update_score queue are added to the rows of the score *)
(* table.                                                                  *)
(*                                                                         *)
(* A row is that of a user and a kind; the code has one per day too, which *)
(* only makes it rarer that two tasks meet at a row.  Scores are positive, *)
(* so that 0 stands for a row that is not there.                           *)
(***************************************************************************)
EXTENDS Integers, FiniteSets, FiniteSetsExt

CONSTANTS
    Keys,           \* user and kind of a row
    ScoreWorkers

VARIABLES
    scores,         \* the update_score queue
    score,          \* the value of each row
    earned,         \* the sum of the deltas of committed batches, per row
    overlapped,     \* has a task started while another one was running?
    spc, sbatch, ssnap      \* the task each worker runs

taskVars == <<spc, sbatch, ssnap>>
vars == <<scores, score, earned, overlapped, taskVars>>

NoSnap == [k \in {} |-> 0]

Init ==
    /\ score = [k \in Keys |-> 0]
    /\ earned = [k \in Keys |-> 0]
    /\ overlapped = FALSE
    /\ spc = [w \in ScoreWorkers |-> "idle"]
    /\ sbatch = [w \in ScoreWorkers |-> {}]
    /\ ssnap = [w \in ScoreWorkers |-> NoSnap]

\* A task starts: it takes a batch off the queue, here all of it, for a batch
\* is larger than any queue of the model.
Dequeue(w) ==
    /\ spc[w] = "idle"
    /\ scores # {}
    /\ sbatch' = [sbatch EXCEPT ![w] = scores]
    /\ scores' = {}
    /\ overlapped' = (overlapped \/ \E v \in ScoreWorkers : spc[v] # "idle")
    /\ spc' = [spc EXCEPT ![w] = "dequeued"]
    /\ UNCHANGED <<score, earned, ssnap>>

\* The rows of all keys of the batch, read at one point of time.
Query(w) ==
    /\ spc[w] = "dequeued"
    /\ ssnap' = [ssnap EXCEPT ![w] = [k \in {d.key : d \in sbatch[w]} |-> score[k]]]
    /\ spc' = [spc EXCEPT ![w] = "queried"]
    /\ UNCHANGED <<scores, score, earned, overlapped, sbatch>>

\* The sum of the batch's deltas for a row.
Delta(w, k) == MapThenSumSet(LAMBDA d : d.value, {d \in sbatch[w] : d.key = k})

\* Mutant: the deltas are added to the row as it is, and to the one read too.
WrittenTwice(w, k) == score[k] + ssnap[w][k] + Delta(w, k)

\* A row that the snapshot lacks is inserted, or added to if it has come to be;
\* the others are set to the value read plus the deltas.
Written(w, k) ==
    IF ssnap[w][k] = 0 THEN score[k] + Delta(w, k) ELSE ssnap[w][k] + Delta(w, k)

EndTask(w) ==
    /\ spc' = [spc EXCEPT ![w] = "idle"]
    /\ sbatch' = [sbatch EXCEPT ![w] = {}]
    /\ ssnap' = [ssnap EXCEPT ![w] = NoSnap]

Commit(w) ==
    /\ spc[w] = "queried"
    /\ score' = [k \in Keys |-> IF k \in DOMAIN ssnap[w] THEN Written(w, k) ELSE score[k]]
    /\ earned' = [k \in Keys |-> earned[k] + Delta(w, k)]
    /\ EndTask(w)
    /\ UNCHANGED <<scores, overlapped>>

\* The worker dies or the task raises; a task sent again takes a new batch.
Fail(w) ==
    /\ spc[w] # "idle"
    /\ EndTask(w)
    /\ UNCHANGED <<scores, score, earned, overlapped>>

Next == \E w \in ScoreWorkers : Dequeue(w) \/ Query(w) \/ Commit(w) \/ Fail(w)
=============================================================================
