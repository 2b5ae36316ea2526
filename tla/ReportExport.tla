---------------------------- MODULE ReportExport -----------------------------
(***************************************************************************)
(* How submitted reports leave for the partners and for ichnaea's own      *)
(* pipeline: queue_reports, schedule_export_reports, export_reports and    *)
(* upload_reports of data/tasks.py, running data/export.py and             *)
(* data/internal.py.                                                       *)
(*                                                                         *)
(* A report is pushed to every export list that wants it.  The scheduler   *)
(* sends an export task for each list that has enough data; the task looks *)
(* again, takes a batch in a second step, puts it back if it turns out too *)
(* short, and otherwise hands it to an upload task.  Uploads are tried up  *)
(* to MaxRetries times more, always as a whole.                            *)
(*                                                                         *)
(* Reports are counted as queue_reports pushes them: when Redis has        *)
(* executed its pipeline and the answer is lost, the task is tried again   *)
(* and pushes further ones with the same content.                          *)
(*                                                                         *)
(* A list is one Redis key: that of an http or internal queue, or that of  *)
(* one api key of an s3 queue.  As in StationUpdater, a list is a set, for *)
(* DataQueue shows that it hands out every item at most once.              *)
(***************************************************************************)
EXTENDS Integers, FiniteSets

CONSTANTS
    Reports,        \* the reports ever pushed
    Lists,          \* the export lists
    Targets,        \* the lists a report goes to: skip_keys, queue_key
    Batch,          \* the batch setting of each list, 0 for none
    Kind,           \* "http", "internal" or "s3": the scheme of its URL
    Groups,
    GroupOf,        \* api key, email, ip and nickname of a report
    Usable,         \* reports InternalTransform finds a cell or wifi in
    Workers,        \* worker processes for export tasks
    MaxRetries,     \* BaseTask.max_retries
    MaxMsgs         \* bound: export task messages waiting, per list

ASSUME ReportsAssumption ==
    /\ IsFiniteSet(Reports)
    /\ Targets \in [Reports -> SUBSET Lists]
    /\ GroupOf \in [Reports -> Groups]
    /\ Usable \subseteq Reports
ASSUME ListsAssumption ==
    /\ Lists # {}
    /\ Batch \in [Lists -> Nat]
    /\ Kind \in [Lists -> {"http", "internal", "s3"}]
ASSUME BoundsAssumption ==
    /\ MaxRetries \in Nat
    /\ MaxMsgs \in Nat \ {0}

VARIABLES
    submitted,      \* reports that have been pushed
    list,           \* for each list, the reports in it
    msgs,           \* for each list, export task messages waiting
    pc, cur, held,  \* the export task each worker runs, its list and batch
    uploads,        \* upload tasks waiting or running
    finished,       \* for each list, reports that are done with, sent or lost
    received        \* for each list, how often a report got to the other side,
                    \* counted up to one time too many

workerVars == <<pc, cur, held>>
vars == <<submitted, list, msgs, workerVars, uploads, finished, received>>

Init ==
    /\ submitted = {}
    /\ list = [l \in Lists |-> {}]
    /\ msgs = [l \in Lists |-> 0]
    /\ pc = [w \in Workers |-> "idle"]
    /\ cur = [w \in Workers |-> CHOOSE l \in Lists : TRUE]
    /\ held = [w \in Workers |-> {}]
    /\ uploads = {}
    /\ finished = [l \in Lists |-> {}]
    /\ received = [l \in Lists |-> [r \in Reports |-> 0]]

-----------------------------------------------------------------------------
(* Definitions headed "Mutant:" are faulty variants for mutation runs.     *)

\* The age of a list never counts, as DataQueue shows.
EnoughData(l) == list[l] # {} /\ Cardinality(list[l]) >= Batch[l]

\* queue_reports: one pipeline pushes the report to all of its lists.  What a
\* repeated task pushes is another report, as said above.
QueueReport(r) ==
    /\ r \notin submitted
    /\ submitted' = submitted \cup {r}
    /\ list' = [l \in Lists |->
                  IF l \in Targets[r] THEN list[l] \cup {r} ELSE list[l]]
    /\ UNCHANGED <<msgs, workerVars, uploads, finished, received>>

\* The key of a list reaches its time to live.
Expire(l) ==
    /\ list[l] # {}
    /\ list' = [list EXCEPT ![l] = {}]
    /\ finished' = [finished EXCEPT ![l] = @ \cup list[l]]
    /\ UNCHANGED <<submitted, msgs, workerVars, uploads, received>>

Sent(l) == [msgs EXCEPT ![l] = IF @ < MaxMsgs THEN @ + 1 ELSE @]

\* schedule_export_reports, for one list.
Schedule(l) ==
    /\ EnoughData(l)
    /\ msgs[l] < MaxMsgs
    /\ msgs' = Sent(l)
    /\ UNCHANGED <<submitted, list, workerVars, uploads, finished, received>>

\* A follow-up message was not started in time.
MessageExpires(l) ==
    /\ msgs[l] > 0
    /\ msgs' = [msgs EXCEPT ![l] = @ - 1]
    /\ UNCHANGED <<submitted, list, workerVars, uploads, finished, received>>

-----------------------------------------------------------------------------
(* The export task.                                                        *)

StartExport(w, l) ==
    /\ pc[w] = "idle"
    /\ msgs[l] > 0
    /\ msgs' = [msgs EXCEPT ![l] = @ - 1]
    /\ IF EnoughData(l)
         THEN /\ pc' = [pc EXCEPT ![w] = "checked"]
              /\ cur' = [cur EXCEPT ![w] = l]
         ELSE UNCHANGED <<pc, cur>>
    /\ UNCHANGED <<submitted, list, held, uploads, finished, received>>

\* How many reports a dequeue takes; a batch of 0 takes all.
Share(l) ==
    IF Batch[l] = 0 \/ Cardinality(list[l]) < Batch[l]
      THEN Cardinality(list[l]) ELSE Batch[l]

\* Mutant: the batch is read but not trimmed off the list.
RestUntrimmed(l, S) == list[l]

Rest(l, S) == list[l] \ S

Take(w, S) ==
    /\ pc[w] = "checked"
    /\ S \subseteq list[cur[w]]
    /\ Cardinality(S) = Share(cur[w])
    /\ list' = [list EXCEPT ![cur[w]] = Rest(cur[w], S)]
    /\ held' = [held EXCEPT ![w] = S]
    /\ pc' = [pc EXCEPT ![w] = "taken"]
    /\ UNCHANGED <<submitted, msgs, cur, uploads, finished, received>>

\* Mutant: a batch of just the right size counts as too short.
TooShortByOne(w) == held[w] # {} /\ Cardinality(held[w]) <= Batch[cur[w]]

\* Something took from the list between the look and the dequeue.
TooShort(w) == held[w] # {} /\ Cardinality(held[w]) < Batch[cur[w]]

\* Mutant: a short batch is dropped, not put back.
PutBackNothing(w) == [list EXCEPT ![cur[w]] = @]

PutBackHeld(w) == [list EXCEPT ![cur[w]] = @ \cup held[w]]

PutBack(w) ==
    /\ pc[w] = "taken"
    /\ TooShort(w)
    /\ list' = PutBackHeld(w)
    /\ held' = [held EXCEPT ![w] = {}]
    /\ pc' = [pc EXCEPT ![w] = "idle"]
    /\ UNCHANGED <<submitted, msgs, cur, uploads, finished, received>>

SendUpload(w) ==
    /\ pc[w] = "taken"
    /\ ~TooShort(w)
    /\ uploads' = uploads \cup {[list |-> cur[w], batch |-> held[w],
                                 tries |-> 0, sent |-> {}]}
    /\ held' = [held EXCEPT ![w] = {}]
    /\ pc' = [pc EXCEPT ![w] = "sent"]
    /\ UNCHANGED <<submitted, list, msgs, cur, finished, received>>

FollowUp(w) ==
    /\ pc[w] = "sent"
    /\ msgs' = IF EnoughData(cur[w]) THEN Sent(cur[w]) ELSE msgs
    /\ pc' = [pc EXCEPT ![w] = "idle"]
    /\ UNCHANGED <<submitted, list, cur, held, uploads, finished, received>>

\* The worker dies or the task raises, and is then sent once more.
FailExport(w) ==
    /\ pc[w] # "idle"
    /\ msgs' \in {msgs, Sent(cur[w])}
    /\ finished' = [finished EXCEPT ![cur[w]] = @ \cup held[w]]
    /\ held' = [held EXCEPT ![w] = {}]
    /\ pc' = [pc EXCEPT ![w] = "idle"]
    /\ UNCHANGED <<submitted, list, cur, uploads, received>>

-----------------------------------------------------------------------------
(* The upload task.                                                        *)

\* What is sent in one piece: the batch to a partner or a bucket, the usable
\* reports of one metadata group to insert_reports.
Parts(u) ==
    IF Kind[u.list] = "internal"
      THEN {{r \in u.batch \cap Usable : GroupOf[r] = g} :
               g \in {GroupOf[r] : r \in u.batch \cap Usable}}
      ELSE {u.batch}

End(u) ==
    /\ uploads' = uploads \ {u}
    /\ finished' = [finished EXCEPT ![u.list] = @ \cup u.batch]
    /\ UNCHANGED <<submitted, list, msgs, workerVars, received>>

More(n) == IF n < MaxRetries + 2 THEN n + 1 ELSE n

SendPart(u) ==
    \E part \in Parts(u) \ u.sent :
        /\ uploads' = (uploads \ {u}) \cup {[u EXCEPT !.sent = @ \cup {part}]}
        /\ received' = [received EXCEPT ![u.list] =
                          [r \in Reports |-> IF r \in part THEN More(@[r]) ELSE @[r]]]
        /\ UNCHANGED <<submitted, list, msgs, workerVars, finished>>

FinishUpload(u) == u.sent = Parts(u) /\ End(u)

\* Mutant: one retry more than allowed.
RetriesOneMore(u) == Kind[u.list] # "s3" /\ u.tries <= MaxRetries

\* Mutant: a failed transfer to S3 is retried.
RetriesAlways(u) == u.tries < MaxRetries

\* S3Uploader swallows every exception, the others let the task be retried.
Retries(u) == Kind[u.list] # "s3" /\ u.tries < MaxRetries

\* Mutant: retries are not counted.
AgainForever(u) == [u EXCEPT !.sent = {}]

Again(u) == [u EXCEPT !.tries = @ + 1, !.sent = {}]

\* An error or a timeout, before or after any part has got to the other side.
FailUpload(u) ==
    IF Retries(u)
      THEN /\ uploads' = (uploads \ {u}) \cup {Again(u)}
           /\ UNCHANGED <<submitted, list, msgs, workerVars, finished, received>>
      ELSE End(u)

\* The worker dies; the message was acknowledged when the task started.
CrashUpload(u) == End(u)

-----------------------------------------------------------------------------
Next ==
    \/ \E r \in Reports : QueueReport(r)
    \/ \E l \in Lists : Expire(l) \/ Schedule(l) \/ MessageExpires(l)
    \/ \E w \in Workers :
         \/ \E l \in Lists : StartExport(w, l)
         \/ \E S \in SUBSET list[cur[w]] : Take(w, S)
         \/ PutBack(w) \/ SendUpload(w) \/ FollowUp(w) \/ FailExport(w)
    \/ \E u \in uploads :
         SendPart(u) \/ FinishUpload(u) \/ FailUpload(u) \/ CrashUpload(u)

Spec == Init /\ [][Next]_vars

TakeBatch(w) == \E S \in SUBSET list[cur[w]] : Take(w, S)

ExportStep(w) == PutBack(w) \/ SendUpload(w) \/ FollowUp(w)

UploadStep(u) == u \in uploads /\ (SendPart(u) \/ FinishUpload(u))

\* The scheduler runs every few seconds, a message reaches an idle worker
\* before it expires at least every now and then, tasks that run go on, and
\* they do not fail each time they come to the same step.
Fairness ==
    /\ \A l \in Lists : WF_vars(Schedule(l))
    /\ \A w \in Workers, l \in Lists : SF_vars(StartExport(w, l))
    /\ \A w \in Workers : SF_vars(TakeBatch(w)) /\ SF_vars(ExportStep(w))
    /\ WF_vars(\E u \in uploads : UploadStep(u))

FairSpec == Spec /\ Fairness

-----------------------------------------------------------------------------
TypeOK ==
    /\ submitted \subseteq Reports
    /\ list \in [Lists -> SUBSET Reports]
    /\ msgs \in [Lists -> 0..MaxMsgs]
    /\ pc \in [Workers -> {"idle", "checked", "taken", "sent"}]
    /\ cur \in [Workers -> Lists]
    /\ held \in [Workers -> SUBSET Reports]
    /\ uploads \subseteq [list : Lists, batch : SUBSET Reports,
                          tries : 0..MaxRetries, sent : SUBSET SUBSET Reports]
    /\ finished \in [Lists -> SUBSET Reports]
    /\ received \in [Lists -> [Reports -> 0..(MaxRetries + 2)]]

HeldFor(l) == {w \in Workers : pc[w] = "taken" /\ cur[w] = l}

UploadsFor(l) == {u \in uploads : u.list = l}

\* Every report pushed is, for each list it goes to, in exactly one place:
\* the list, an export task, an upload task, or done with.  No put-back, retry
\* or overlap of export tasks duplicates it or loses track of it.
OneStage ==
    \A l \in Lists :
        LET stages == <<list[l], UNION {held[w] : w \in HeldFor(l)},
                        UNION {u.batch : u \in UploadsFor(l)}, finished[l]>>
        IN  /\ {r \in submitted : l \in Targets[r]} = UNION {stages[i] : i \in 1..4}
            /\ \A i, j \in 1..4 : i # j => stages[i] \cap stages[j] = {}
            /\ \A v, w \in HeldFor(l) : v # w => held[v] \cap held[w] = {}
            /\ \A u, v \in UploadsFor(l) : u # v => u.batch \cap v.batch = {}

\* The reports in a list, or taken from it by an export task that has not sent
\* them.
Unsent(l) == list[l] \cup UNION {held[w] : w \in HeldFor(l)}

\* A report that is still in a list or an export task has never been sent: what
\* has reached the other side is not put back.  Of what a repeated queue_reports
\* pushed, each push counts as a report.
QueuedIsUnsent ==
    \A l \in Lists : \A r \in Reports :
        received[l][r] > 0 => r \notin Unsent(l)

\* The other side sees each push of a report at most once per try of its
\* upload, and never sees it twice from an S3 upload.
ReceivedOncePerTry ==
    \A l \in Lists : \A r \in Reports :
        received[l][r] <= IF Kind[l] = "s3" THEN 1 ELSE MaxRetries + 1

Enough(l) == Unsent(l) # {} /\ Cardinality(Unsent(l)) >= Batch[l]

\* Reports enough for a batch, in the list or taken by export tasks that have
\* not sent them, do not go back and forth for ever.
FullBatchLeaves == \A l \in Lists : Enough(l) ~> ~Enough(l)

\* Every upload ends, delivered or given up.
UploadsEnd ==
    \A l \in Lists : \A r \in Reports :
        r \in UNION {u.batch : u \in UploadsFor(l)} ~> r \in finished[l]
=============================================================================
