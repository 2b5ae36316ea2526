------------------------- MODULE ReportExportProofs --------------------------
(***************************************************************************)
(* Theorems about ReportExport, for any reports, lists, batch settings,    *)
(* numbers of workers and retries: no export task and no retry duplicates  *)
(* a report or loses track of it, nothing is put back that was sent, and   *)
(* nothing is sent more often than it was tried.                           *)
(*                                                                         *)
(* Where a report is was said by sets of a list in OneStage.  The proof    *)
(* says it of one report and one list at a time: it is still somewhere     *)
(* (Tracked), and nowhere twice (Apart).  How often it was sent has to be  *)
(* counted against the try its upload is at, and the parts of the batch    *)
(* that this try has sent (Accounted).                                     *)
(***************************************************************************)
EXTENDS ReportExport, TLAPS

\* The export task w has taken report r off list l.
Holds(w, l, r) == cur[w] = l /\ r \in held[w]

\* The upload task u is about report r of list l.
Carries(u, l, r) == u.list = l /\ r \in u.batch

OnlyTakenIsHeld == \A w \in Workers : pc[w] # "taken" => held[w] = {}

\* A report that was pushed to a list is still known of.
Tracked ==
    \A l \in Lists, r \in Reports :
        r \in submitted /\ l \in Targets[r] <=>
            \/ r \in list[l] \/ r \in finished[l]
            \/ \E w \in Workers : Holds(w, l, r)
            \/ \E u \in uploads : Carries(u, l, r)

\* No report of a list is in two places.
Apart ==
    \A l \in Lists, r \in Reports :
        /\ r \in list[l] => r \notin finished[l]
        /\ \A w \in Workers : Holds(w, l, r) =>
              /\ r \notin list[l] /\ r \notin finished[l]
              /\ \A v \in Workers : Holds(v, l, r) => v = w
        /\ \A u \in uploads : Carries(u, l, r) =>
              /\ r \notin list[l] /\ r \notin finished[l]
              /\ \A w \in Workers : ~Holds(w, l, r)
              /\ \A v \in uploads : Carries(v, l, r) => v = u

\* What the uploads say of themselves: parts of the batch are sent, and nothing
\* is tried again that goes to a bucket.
PartsSent ==
    \A u \in uploads :
        /\ u.sent \subseteq Parts(u)
        /\ Kind[u.list] = "s3" => u.tries = 0

\* What has reached the other side has left the list, and each try of its
\* upload accounts for one time.
Accounted ==
    \A l \in Lists, r \in Reports :
        /\ \/ received[l][r] = 0
           \/ r \in finished[l]
           \/ \E u \in uploads : Carries(u, l, r)
        /\ \A u \in uploads : Carries(u, l, r) =>
              received[l][r] <= IF r \in UNION u.sent THEN u.tries + 1 ELSE u.tries

IInv ==
    /\ TypeOK
    /\ OnlyTakenIsHeld /\ Tracked /\ Apart
    /\ PartsSent /\ Accounted /\ ReceivedOncePerTry

Upload == [list : Lists, batch : SUBSET Reports,
           tries : 0..MaxRetries, sent : SUBSET SUBSET Reports]

-----------------------------------------------------------------------------
(* What an upload sends at a time.                                         *)

\* The parts of an upload are made of its reports, and have none in common.
LEMMA PartsApart ==
    ASSUME NEW u
    PROVE  /\ \A part \in Parts(u) : part \subseteq u.batch
           /\ \A p, q \in Parts(u) : \A r : r \in p /\ r \in q => p = q
<1>1. CASE Kind[u.list] = "internal"
  <2> DEFINE own == u.batch \cap Usable
             Group(g) == {r \in own : GroupOf[r] = g}
  <2>1. Parts(u) = {Group(g) : g \in {GroupOf[r] : r \in own}}
    BY <1>1 DEF Parts
  <2>2. \A g : Group(g) \subseteq u.batch /\ \A r \in Group(g) : GroupOf[r] = g
    OBVIOUS
  <2> HIDE DEF Group, own
  <2> QED
    BY <2>1, <2>2
<1>2. CASE Kind[u.list] # "internal"
  BY <1>2 DEF Parts
<1> QED
  BY <1>1, <1>2

\* One more time, up to the bound.
LEMMA MoreIsOneMore ==
    ASSUME NEW n \in 0..(MaxRetries + 2)
    PROVE  More(n) \in 0..(MaxRetries + 2) /\ More(n) <= n + 1
  BY BoundsAssumption DEF More

\* The messages of a list stay within their bound.
LEMMA SentTypes ==
    ASSUME msgs \in [Lists -> 0..MaxMsgs], NEW l \in Lists
    PROVE  Sent(l) \in [Lists -> 0..MaxMsgs]
<1>1. \A k \in Lists : (IF msgs[k] < MaxMsgs THEN msgs[k] + 1 ELSE msgs[k]) \in 0..MaxMsgs
  BY BoundsAssumption
<1> QED
  BY <1>1 DEF Sent

-----------------------------------------------------------------------------
(* Steps that have something in common.                                    *)

\* As long as no upload changes and nothing is sent, the accounts are right
\* whatever moves.
LEMMA AccountsKept ==
    ASSUME IInv, UNCHANGED <<uploads, received>>,
           \A l \in Lists : finished[l] \subseteq finished'[l]
    PROVE  PartsSent' /\ Accounted' /\ ReceivedOncePerTry'
<1>1. PartsSent'
  BY DEF IInv, PartsSent, Parts
<1>2. Accounted'
  BY DEF IInv, Accounted, Carries
<1>3. ReceivedOncePerTry'
  BY DEF IInv, ReceivedOncePerTry
<1> QED
  BY <1>1, <1>2, <1>3

\* An upload that becomes another one of the same reports: nothing moves.
LEMMA UploadReplaced ==
    ASSUME IInv, NEW u \in uploads, NEW v, v.list = u.list, v.batch = u.batch,
           uploads' = (uploads \ {u}) \cup {v},
           UNCHANGED <<submitted, list, msgs, workerVars, finished>>
    PROVE  OnlyTakenIsHeld' /\ Tracked' /\ Apart'
<1> USE DEF workerVars
<1>1. OnlyTakenIsHeld'
  BY DEF IInv, OnlyTakenIsHeld
<1>2. \A l, r : Carries(v, l, r) <=> Carries(u, l, r)
  BY DEF Carries
<1>3. \A x, l, r : Carries(x, l, r)' <=> Carries(x, l, r)
  BY DEF Carries
<1>4. \A w, l, r : Holds(w, l, r)' <=> Holds(w, l, r)
  BY DEF Holds
<1>5. \A l, r : (\E x \in uploads' : Carries(x, l, r)) <=> \E x \in uploads : Carries(x, l, r)
  BY <1>2
<1>6. Tracked'
  BY <1>3, <1>4, <1>5 DEF IInv, Tracked
<1>7. Apart'
  <2> SUFFICES ASSUME NEW l \in Lists, NEW r \in Reports
               PROVE  /\ r \in list[l] => r \notin finished[l]
                      /\ \A w \in Workers : Holds(w, l, r) =>
                            /\ r \notin list[l] /\ r \notin finished[l]
                            /\ \A x \in Workers : Holds(x, l, r) => x = w
                      /\ \A x \in uploads' : Carries(x, l, r) =>
                            /\ r \notin list[l] /\ r \notin finished[l]
                            /\ \A w \in Workers : ~Holds(w, l, r)
                            /\ \A y \in uploads' : Carries(y, l, r) => y = x
    BY <1>3, <1>4 DEF Apart
  <2>1. /\ r \in list[l] => r \notin finished[l]
        /\ \A w \in Workers : Holds(w, l, r) =>
              /\ r \notin list[l] /\ r \notin finished[l]
              /\ \A x \in Workers : Holds(x, l, r) => x = w
        /\ \A x \in uploads : Carries(x, l, r) =>
              /\ r \notin list[l] /\ r \notin finished[l]
              /\ \A w \in Workers : ~Holds(w, l, r)
              /\ \A y \in uploads : Carries(y, l, r) => y = x
    BY DEF IInv, Apart
  <2> QED
    BY <1>2, <2>1
<1> QED
  BY <1>1, <1>6, <1>7

-----------------------------------------------------------------------------
(* One lemma per kind of step.                                             *)

\* Nothing is submitted.
LEMMA InitIInv == Init => IInv
<1> SUFFICES ASSUME Init PROVE IInv
  OBVIOUS
<1>1. (CHOOSE l \in Lists : TRUE) \in Lists
  BY ListsAssumption
<1>2. TypeOK
  <2>1. pc \in [Workers -> {"idle", "checked", "taken", "sent"}]
    BY DEF Init
  <2>2. cur \in [Workers -> Lists] /\ held \in [Workers -> SUBSET Reports]
    BY <1>1 DEF Init
  <2>3. msgs \in [Lists -> 0..MaxMsgs]
    BY BoundsAssumption DEF Init
  <2>4. received \in [Lists -> [Reports -> 0..(MaxRetries + 2)]]
    BY BoundsAssumption DEF Init
  <2> QED
    BY <2>1, <2>2, <2>3, <2>4 DEF Init, TypeOK
<1>3. OnlyTakenIsHeld /\ Tracked /\ Apart
  BY DEF Init, OnlyTakenIsHeld, Tracked, Apart, Holds, Carries
<1>4. PartsSent /\ Accounted
  BY DEF Init, PartsSent, Accounted
<1>5. ReceivedOncePerTry
  BY BoundsAssumption DEF Init, ReceivedOncePerTry
<1> QED
  BY <1>2, <1>3, <1>4, <1>5 DEF IInv

\* A report is new to all of its lists.
LEMMA QueueReportIInv ==
    ASSUME IInv, NEW r \in Reports, QueueReport(r)
    PROVE  IInv'
<1> USE DEF workerVars
<1>1. TypeOK'
  BY DEF IInv, TypeOK, QueueReport
<1>2. OnlyTakenIsHeld'
  BY DEF IInv, OnlyTakenIsHeld, QueueReport
<1>3. /\ \A w, l, s : Holds(w, l, s)' <=> Holds(w, l, s)
      /\ \A u, l, s : Carries(u, l, s)' <=> Carries(u, l, s)
  BY DEF QueueReport, Holds, Carries
<1>4. /\ r \notin submitted /\ submitted' = submitted \cup {r}
      /\ \A l \in Lists : /\ l \in Targets[r] => list'[l] = list[l] \cup {r}
                          /\ l \notin Targets[r] => list'[l] = list[l]
      /\ uploads' = uploads /\ finished' = finished
  BY DEF QueueReport
<1>5. Tracked'
  <2> SUFFICES ASSUME NEW l \in Lists, NEW s \in Reports
               PROVE  s \in submitted' /\ l \in Targets[s] <=>
                        \/ s \in list'[l] \/ s \in finished[l]
                        \/ \E w \in Workers : Holds(w, l, s)
                        \/ \E u \in uploads : Carries(u, l, s)
    BY <1>3, <1>4 DEF Tracked
  <2>1. s \in submitted /\ l \in Targets[s] <=>
          \/ s \in list[l] \/ s \in finished[l]
          \/ \E w \in Workers : Holds(w, l, s)
          \/ \E u \in uploads : Carries(u, l, s)
    BY DEF IInv, Tracked
  <2>2. s \in submitted' <=> s \in submitted \/ s = r
    BY <1>4
  <2>3. s \in list'[l] <=> s \in list[l] \/ (s = r /\ l \in Targets[r])
    <3>1. l \in Targets[r] => (s \in list'[l] <=> s \in list[l] \/ s = r)
      BY <1>4
    <3>2. l \notin Targets[r] => (s \in list'[l] <=> s \in list[l])
      BY <1>4
    <3> QED
      BY <3>1, <3>2
  <2> QED
    BY <1>4, <2>1, <2>2, <2>3
<1>6. Apart'
  <2> SUFFICES ASSUME NEW l \in Lists, NEW s \in Reports
               PROVE  /\ s \in list'[l] => s \notin finished[l]
                      /\ \A w \in Workers : Holds(w, l, s) =>
                            /\ s \notin list'[l] /\ s \notin finished[l]
                            /\ \A v \in Workers : Holds(v, l, s) => v = w
                      /\ \A u \in uploads : Carries(u, l, s) =>
                            /\ s \notin list'[l] /\ s \notin finished[l]
                            /\ \A w \in Workers : ~Holds(w, l, s)
                            /\ \A v \in uploads : Carries(v, l, s) => v = u
    BY <1>3, <1>4 DEF Apart
  <2>1. CASE s = r /\ l \in Targets[r]
    BY <1>4, <2>1 DEF IInv, Tracked
  <2>2. CASE s # r \/ l \notin Targets[r]
    <3>1. s \in list'[l] <=> s \in list[l]
      BY <1>4, <2>2
    <3> QED
      BY <3>1 DEF IInv, Apart
  <2> QED
    BY <2>1, <2>2
<1>7. PartsSent' /\ Accounted' /\ ReceivedOncePerTry'
  BY AccountsKept DEF QueueReport
<1> QED
  BY <1>1, <1>2, <1>5, <1>6, <1>7 DEF IInv

\* A list that expires is done with.
LEMMA ExpireIInv ==
    ASSUME IInv, NEW k \in Lists, Expire(k)
    PROVE  IInv'
<1> USE DEF workerVars
<1>1. /\ list' = [list EXCEPT ![k] = {}]
      /\ finished' = [finished EXCEPT ![k] = @ \cup list[k]]
      /\ list \in [Lists -> SUBSET Reports] /\ finished \in [Lists -> SUBSET Reports]
      /\ UNCHANGED <<submitted, msgs, pc, cur, held, uploads, received>>
  BY DEF Expire, IInv, TypeOK
<1>2. TypeOK'
  BY <1>1 DEF IInv, TypeOK
<1>3. OnlyTakenIsHeld'
  BY <1>1 DEF IInv, OnlyTakenIsHeld
<1>4. /\ \A w, l, s : Holds(w, l, s)' <=> Holds(w, l, s)
      /\ \A u, l, s : Carries(u, l, s)' <=> Carries(u, l, s)
  BY <1>1 DEF Holds, Carries
<1>5. \A l \in Lists :
        /\ list'[l] = IF l = k THEN {} ELSE list[l]
        /\ finished'[l] = IF l = k THEN finished[l] \cup list[l] ELSE finished[l]
  BY <1>1
<1>6. Tracked'
  BY <1>1, <1>4, <1>5 DEF IInv, Tracked
<1>7. Apart'
  BY <1>1, <1>4, <1>5 DEF IInv, Apart
<1>8. PartsSent' /\ Accounted' /\ ReceivedOncePerTry'
  BY <1>1, <1>5, AccountsKept
<1> QED
  BY <1>2, <1>3, <1>6, <1>7, <1>8 DEF IInv

\* An export task takes a batch: what it holds has left the list.
LEMMA TakeIInv ==
    ASSUME IInv, NEW w \in Workers, NEW S, Take(w, S)
    PROVE  IInv'
<1> DEFINE k == cur[w]
<1>1. /\ pc[w] = "checked" /\ S \subseteq list[k] /\ k \in Lists
      /\ list' = [list EXCEPT ![k] = @ \ S]
      /\ held' = [held EXCEPT ![w] = S]
      /\ pc' = [pc EXCEPT ![w] = "taken"]
      /\ list \in [Lists -> SUBSET Reports] /\ held \in [Workers -> SUBSET Reports]
      /\ pc \in [Workers -> {"idle", "checked", "taken", "sent"}]
      /\ UNCHANGED <<submitted, msgs, cur, uploads, finished, received>>
  BY DEF Take, Rest, IInv, TypeOK
<1> HIDE DEF k
<1>2. TypeOK'
  <2>1. pc' \in [Workers -> {"idle", "checked", "taken", "sent"}]
    BY <1>1
  <2> QED
    BY <1>1, <2>1 DEF IInv, TypeOK
<1>3. held[w] = {}
  BY <1>1 DEF IInv, OnlyTakenIsHeld
<1>4. OnlyTakenIsHeld'
  BY <1>1 DEF IInv, OnlyTakenIsHeld
<1>5. /\ \A l \in Lists : list'[l] = IF l = k THEN list[l] \ S ELSE list[l]
      /\ \A v \in Workers : held'[v] = IF v = w THEN S ELSE held[v]
      /\ \A u, l, s : Carries(u, l, s)' <=> Carries(u, l, s)
  BY <1>1 DEF Carries
<1>6. \A v \in Workers, l \in Lists, s \in Reports :
        Holds(v, l, s)' <=> IF v = w THEN l = k /\ s \in S ELSE Holds(v, l, s)
  BY <1>1, <1>5 DEF Holds, k
<1>7. \A l \in Lists, s \in Reports : ~Holds(w, l, s)
  BY <1>3 DEF Holds
<1>8. Tracked'
  BY <1>1, <1>5, <1>6, <1>7 DEF IInv, Tracked
<1>9. Apart'
  BY <1>1, <1>5, <1>6, <1>7 DEF IInv, Apart
<1>10. PartsSent' /\ Accounted' /\ ReceivedOncePerTry'
  BY <1>1, AccountsKept
<1> QED
  BY <1>2, <1>4, <1>8, <1>9, <1>10 DEF IInv

\* An export task puts back what it holds.
LEMMA PutBackIInv ==
    ASSUME IInv, NEW w \in Workers, PutBack(w)
    PROVE  IInv'
<1> DEFINE k == cur[w]
           S == held[w]
<1>1. /\ k \in Lists /\ S \subseteq Reports
      /\ list' = [list EXCEPT ![k] = @ \cup S]
      /\ held' = [held EXCEPT ![w] = {}]
      /\ pc' = [pc EXCEPT ![w] = "idle"]
      /\ list \in [Lists -> SUBSET Reports] /\ held \in [Workers -> SUBSET Reports]
      /\ pc \in [Workers -> {"idle", "checked", "taken", "sent"}]
      /\ UNCHANGED <<submitted, msgs, cur, uploads, finished, received>>
  BY DEF PutBack, PutBackHeld, IInv, TypeOK
<1>2. \A l \in Lists, s \in Reports : Holds(w, l, s) <=> l = k /\ s \in S
  BY DEF Holds
<1> HIDE DEF k, S
<1>3. TypeOK'
  <2>1. pc' \in [Workers -> {"idle", "checked", "taken", "sent"}]
    BY <1>1
  <2> QED
    BY <1>1, <2>1 DEF IInv, TypeOK
<1>4. OnlyTakenIsHeld'
  BY <1>1 DEF IInv, OnlyTakenIsHeld
<1>5. /\ \A l \in Lists : list'[l] = IF l = k THEN list[l] \cup S ELSE list[l]
      /\ \A v \in Workers : held'[v] = IF v = w THEN {} ELSE held[v]
      /\ \A u, l, s : Carries(u, l, s)' <=> Carries(u, l, s)
  BY <1>1 DEF Carries
<1>6. \A v \in Workers, l \in Lists, s \in Reports : Holds(v, l, s)' <=> v # w /\ Holds(v, l, s)
  BY <1>1, <1>5 DEF Holds
<1>7. Tracked'
  BY <1>1, <1>2, <1>5, <1>6 DEF IInv, Tracked
<1>8. Apart'
  BY <1>1, <1>2, <1>5, <1>6 DEF IInv, Apart
<1>9. PartsSent' /\ Accounted' /\ ReceivedOncePerTry'
  BY <1>1, AccountsKept
<1> QED
  BY <1>3, <1>4, <1>7, <1>8, <1>9 DEF IInv

\* An export task fails: what it holds is lost.
LEMMA FailExportIInv ==
    ASSUME IInv, NEW w \in Workers, FailExport(w)
    PROVE  IInv'
<1> DEFINE k == cur[w]
           S == held[w]
<1>1. /\ k \in Lists /\ S \subseteq Reports
      /\ msgs' \in {msgs, Sent(k)} /\ msgs \in [Lists -> 0..MaxMsgs]
      /\ finished' = [finished EXCEPT ![k] = @ \cup S]
      /\ held' = [held EXCEPT ![w] = {}]
      /\ pc' = [pc EXCEPT ![w] = "idle"]
      /\ finished \in [Lists -> SUBSET Reports] /\ held \in [Workers -> SUBSET Reports]
      /\ pc \in [Workers -> {"idle", "checked", "taken", "sent"}]
      /\ UNCHANGED <<submitted, list, cur, uploads, received>>
  BY DEF FailExport, IInv, TypeOK
<1>2. \A l \in Lists, s \in Reports : Holds(w, l, s) <=> l = k /\ s \in S
  BY DEF Holds
<1> HIDE DEF k, S
<1>3. TypeOK'
  <2>1. pc' \in [Workers -> {"idle", "checked", "taken", "sent"}]
    BY <1>1
  <2>2. msgs' \in [Lists -> 0..MaxMsgs]
    BY <1>1, SentTypes
  <2> QED
    BY <1>1, <2>1, <2>2 DEF IInv, TypeOK
<1>4. OnlyTakenIsHeld'
  BY <1>1 DEF IInv, OnlyTakenIsHeld
<1>5. /\ \A l \in Lists : finished'[l] = IF l = k THEN finished[l] \cup S ELSE finished[l]
      /\ \A v \in Workers : held'[v] = IF v = w THEN {} ELSE held[v]
      /\ \A u, l, s : Carries(u, l, s)' <=> Carries(u, l, s)
  BY <1>1 DEF Carries
<1>6. \A v \in Workers, l \in Lists, s \in Reports : Holds(v, l, s)' <=> v # w /\ Holds(v, l, s)
  BY <1>1, <1>5 DEF Holds
<1>7. Tracked'
  BY <1>1, <1>2, <1>5, <1>6 DEF IInv, Tracked
<1>8. Apart'
  BY <1>1, <1>2, <1>5, <1>6 DEF IInv, Apart
<1>9. PartsSent' /\ Accounted' /\ ReceivedOncePerTry'
  BY <1>1, <1>5, AccountsKept
<1> QED
  BY <1>3, <1>4, <1>7, <1>8, <1>9 DEF IInv

\* An export task hands what it holds to a new upload, of which nothing has
\* been sent.
LEMMA SendUploadIInv ==
    ASSUME IInv, NEW w \in Workers, SendUpload(w)
    PROVE  IInv'
<1> DEFINE k == cur[w]
           S == held[w]
           new == [list |-> k, batch |-> S, tries |-> 0, sent |-> {}]
<1>1. /\ k \in Lists /\ S \subseteq Reports
      /\ uploads' = uploads \cup {new}
      /\ held' = [held EXCEPT ![w] = {}]
      /\ pc' = [pc EXCEPT ![w] = "sent"]
      /\ uploads \subseteq Upload /\ held \in [Workers -> SUBSET Reports]
      /\ pc \in [Workers -> {"idle", "checked", "taken", "sent"}]
      /\ UNCHANGED <<submitted, list, msgs, cur, finished, received>>
  BY DEF SendUpload, IInv, TypeOK, Upload
<1>2. \A l \in Lists, s \in Reports : Holds(w, l, s) <=> l = k /\ s \in S
  BY DEF Holds
<1>3. /\ new \in Upload
      /\ new.list = k /\ new.batch = S /\ new.tries = 0 /\ new.sent = {}
  BY <1>1, BoundsAssumption DEF Upload
<1> HIDE DEF k, S, new
<1>4. TypeOK'
  <2>1. pc' \in [Workers -> {"idle", "checked", "taken", "sent"}]
    BY <1>1
  <2>2. uploads' \subseteq Upload
    BY <1>1, <1>3
  <2> QED
    BY <1>1, <2>1, <2>2 DEF IInv, TypeOK, Upload
<1>5. OnlyTakenIsHeld'
  BY <1>1 DEF IInv, OnlyTakenIsHeld
<1>6. /\ \A v \in Workers : held'[v] = IF v = w THEN {} ELSE held[v]
      /\ \A u, l, s : Carries(u, l, s)' <=> Carries(u, l, s)
      /\ \A l \in Lists, s \in Reports : Carries(new, l, s) <=> Holds(w, l, s)
  BY <1>1, <1>2, <1>3 DEF Carries
<1>7. \A v \in Workers, l \in Lists, s \in Reports : Holds(v, l, s)' <=> v # w /\ Holds(v, l, s)
  BY <1>1, <1>6 DEF Holds
<1>8. Tracked'
  BY <1>1, <1>6, <1>7 DEF IInv, Tracked
<1>9. Apart'
  BY <1>1, <1>6, <1>7 DEF IInv, Apart
<1>10. PartsSent'
  BY <1>1, <1>3 DEF IInv, PartsSent, Parts
<1>11. Accounted'
  <2> SUFFICES ASSUME NEW l \in Lists, NEW r \in Reports
               PROVE  /\ \/ received[l][r] = 0
                         \/ r \in finished[l]
                         \/ \E u \in uploads' : Carries(u, l, r)
                      /\ \A u \in uploads' : Carries(u, l, r) =>
                            received[l][r] <= IF r \in UNION u.sent THEN u.tries + 1 ELSE u.tries
    BY <1>1, <1>6 DEF Accounted
  <2>1. /\ \/ received[l][r] = 0
           \/ r \in finished[l]
           \/ \E u \in uploads : Carries(u, l, r)
        /\ \A u \in uploads : Carries(u, l, r) =>
              received[l][r] <= IF r \in UNION u.sent THEN u.tries + 1 ELSE u.tries
    BY DEF IInv, Accounted
  <2>2. Carries(new, l, r) => received[l][r] = 0
    BY <1>6, <2>1 DEF IInv, Apart
  <2> QED
    BY <1>1, <1>3, <2>1, <2>2
<1>12. ReceivedOncePerTry'
  BY <1>1 DEF IInv, ReceivedOncePerTry
<1> QED
  BY <1>4, <1>5, <1>8, <1>9, <1>10, <1>11, <1>12 DEF IInv

\* An upload ends, with what of its batch has been sent.
LEMMA EndIInv ==
    ASSUME IInv, NEW u \in uploads, End(u)
    PROVE  IInv'
<1> DEFINE k == u.list
           S == u.batch
<1>1. /\ k \in Lists /\ S \subseteq Reports /\ u.tries \in 0..MaxRetries
      /\ uploads' = uploads \ {u}
      /\ finished' = [finished EXCEPT ![k] = @ \cup S]
      /\ finished \in [Lists -> SUBSET Reports]
      /\ received \in [Lists -> [Reports -> 0..(MaxRetries + 2)]]
      /\ UNCHANGED <<submitted, list, msgs, pc, cur, held, received>>
  BY DEF End, workerVars, IInv, TypeOK
<1>2. \A l \in Lists, s \in Reports : Carries(u, l, s) <=> l = k /\ s \in S
  BY DEF Carries
<1> HIDE DEF k, S
<1>3. TypeOK'
  BY <1>1 DEF IInv, TypeOK
<1>4. OnlyTakenIsHeld'
  BY <1>1 DEF IInv, OnlyTakenIsHeld
<1>5. /\ \A l \in Lists : finished'[l] = IF l = k THEN finished[l] \cup S ELSE finished[l]
      /\ \A v, l, s : Carries(v, l, s)' <=> Carries(v, l, s)
      /\ \A w, l, s : Holds(w, l, s)' <=> Holds(w, l, s)
  BY <1>1 DEF Carries, Holds
<1>6. Tracked'
  BY <1>1, <1>2, <1>5 DEF IInv, Tracked
<1>7. Apart'
  BY <1>1, <1>2, <1>5 DEF IInv, Apart
<1>8. PartsSent'
  BY <1>1 DEF IInv, PartsSent, Parts
<1>9. Accounted'
  BY <1>1, <1>2, <1>5 DEF IInv, Accounted
<1>10. ReceivedOncePerTry'
  BY <1>1 DEF IInv, ReceivedOncePerTry
<1> QED
  BY <1>3, <1>4, <1>6, <1>7, <1>8, <1>9, <1>10 DEF IInv

\* An upload sends a part of its batch that this try has not sent.
LEMMA SendPartIInv ==
    ASSUME IInv, NEW u \in uploads, SendPart(u)
    PROVE  IInv'
<1>1. PICK part \in Parts(u) \ u.sent :
        /\ uploads' = (uploads \ {u}) \cup {[u EXCEPT !.sent = @ \cup {part}]}
        /\ received' = [received EXCEPT ![u.list] =
                          [r \in Reports |-> IF r \in part THEN More(@[r]) ELSE @[r]]]
        /\ UNCHANGED <<submitted, list, msgs, pc, cur, held, finished>>
  BY DEF SendPart, workerVars
<1> DEFINE k == u.list
           v == [u EXCEPT !.sent = @ \cup {part}]
<1>2. /\ u \in Upload /\ uploads \subseteq Upload
      /\ received \in [Lists -> [Reports -> 0..(MaxRetries + 2)]]
  BY DEF IInv, TypeOK, Upload
<1>3. /\ u.sent \subseteq Parts(u) /\ part \subseteq u.batch
      /\ \A p \in u.sent : \A r : ~(r \in p /\ r \in part)
  BY <1>1, PartsApart DEF IInv, PartsSent
<1>4. /\ k \in Lists /\ v \in Upload
      /\ v.list = k /\ v.batch = u.batch /\ v.tries = u.tries
      /\ v.sent = u.sent \cup {part}
  <2>1. u \in Upload /\ part \in SUBSET Reports
    BY <1>2, <1>3 DEF Upload
  <2>2. v = [list |-> u.list, batch |-> u.batch, tries |-> u.tries, sent |-> u.sent \cup {part}]
    <3>1. u = [list |-> u.list, batch |-> u.batch, tries |-> u.tries, sent |-> u.sent]
      BY <2>1 DEF Upload
    <3> DEFINE w == u
               more == u.sent \cup {part}
    <3>2. w = [list |-> w.list, batch |-> w.batch, tries |-> w.tries, sent |-> w.sent]
      BY <3>1
    <3> HIDE DEF w, more
    <3>3. [w EXCEPT !.sent = more]
          = [list |-> w.list, batch |-> w.batch, tries |-> w.tries, sent |-> more]
      BY <3>2
    <3> QED
      BY <3>3 DEF w, more
  <2> HIDE DEF v
  <2> QED
    BY <2>1, <2>2 DEF Upload
<1>5. /\ uploads' = (uploads \ {u}) \cup {v}
      /\ received' = [received EXCEPT ![k] =
                          [r \in Reports |-> IF r \in part THEN More(@[r]) ELSE @[r]]]
      /\ UNCHANGED <<submitted, list, msgs, pc, cur, held, finished>>
  BY <1>1
<1>6. Parts(v) = Parts(u)
  BY <1>4 DEF Parts
<1> HIDE DEF v
<1>7. \A l \in Lists, r \in Reports :
        received'[l][r] = IF l = k /\ r \in part THEN More(received[l][r]) ELSE received[l][r]
  BY <1>2, <1>4, <1>5
<1>8. TypeOK'
  <2>1. [r \in Reports |-> IF r \in part THEN More(received[k][r]) ELSE received[k][r]]
            \in [Reports -> 0..(MaxRetries + 2)]
    BY <1>2, <1>4, MoreIsOneMore
  <2>2. received' \in [Lists -> [Reports -> 0..(MaxRetries + 2)]]
    BY <1>2, <1>4, <1>5, <2>1
  <2>3. uploads' \subseteq Upload
    BY <1>2, <1>4, <1>5
  <2> QED
    BY <1>5, <2>2, <2>3 DEF IInv, TypeOK, Upload
<1>9. OnlyTakenIsHeld' /\ Tracked' /\ Apart'
  BY <1>4, <1>5, UploadReplaced DEF workerVars
<1>10. PartsSent'
  <2>1. \A x : Parts(x)' = Parts(x)
    BY DEF Parts
  <2>2. v.sent \subseteq Parts(v)
    BY <1>1, <1>3, <1>4, <1>6
  <2> QED
    BY <1>4, <1>5, <2>1, <2>2 DEF IInv, PartsSent
<1>11. \A l \in Lists, r \in Reports : Carries(v, l, r) <=> Carries(u, l, r)
  BY <1>4 DEF Carries
<1>12. \A r \in part : r \in Reports /\ Carries(u, k, r) /\ r \notin UNION u.sent
  BY <1>2, <1>3 DEF Carries, Upload
<1>13. ASSUME NEW l \in Lists, NEW r \in Reports
       PROVE  /\ \/ received'[l][r] = 0
                 \/ r \in finished[l]
                 \/ \E x \in uploads' : Carries(x, l, r)
              /\ \A x \in uploads' : Carries(x, l, r) =>
                    received'[l][r] <= IF r \in UNION x.sent THEN x.tries + 1 ELSE x.tries
  <2>1. /\ \/ received[l][r] = 0
           \/ r \in finished[l]
           \/ \E x \in uploads : Carries(x, l, r)
        /\ \A x \in uploads : Carries(x, l, r) =>
              received[l][r] <= IF r \in UNION x.sent THEN x.tries + 1 ELSE x.tries
    BY DEF IInv, Accounted
  <2>2. CASE l = k /\ r \in part
    <3>1. /\ Carries(u, l, r) /\ Carries(v, l, r)
          /\ received[l][r] <= u.tries
      BY <1>11, <1>12, <2>1, <2>2
    <3>2. received'[l][r] <= u.tries + 1
      <4>1. received[l][r] \in 0..(MaxRetries + 2) /\ u.tries \in Nat
        BY <1>2 DEF Upload
      <4>2. More(received[l][r]) \in Nat /\ More(received[l][r]) <= received[l][r] + 1
        BY <4>1, MoreIsOneMore, BoundsAssumption
      <4>3. received'[l][r] = More(received[l][r])
        BY <1>7, <2>2
      <4> QED
        BY <3>1, <4>1, <4>2, <4>3
    <3>3. \A x \in uploads' : Carries(x, l, r) => x = v
      BY <1>5, <3>1 DEF IInv, Apart
    <3>4. r \in UNION v.sent
      BY <1>4, <2>2
    <3> QED
      BY <1>4, <1>5, <3>1, <3>2, <3>3, <3>4
  <2>3. CASE ~(l = k /\ r \in part)
    <3>1. received'[l][r] = received[l][r]
      BY <1>7, <2>3
    <3>2. Carries(v, l, r) => (r \in UNION v.sent <=> r \in UNION u.sent)
      BY <1>4, <2>3 DEF Carries
    <3> QED
      BY <1>4, <1>5, <1>11, <2>1, <3>1, <3>2
  <2> QED
    BY <2>2, <2>3
<1>14. Accounted'
  <2>1. \A x, l, r : Carries(x, l, r)' <=> Carries(x, l, r)
    BY DEF Carries
  <2> QED
    BY <1>5, <1>13, <2>1 DEF Accounted
<1>15. ReceivedOncePerTry'
  <2> SUFFICES ASSUME NEW l \in Lists, NEW r \in Reports
               PROVE  received'[l][r] <= IF Kind[l] = "s3" THEN 1 ELSE MaxRetries + 1
    BY DEF ReceivedOncePerTry
  <2>1. CASE l = k /\ r \in part
    <3>1. Carries(v, l, r) /\ v \in uploads'
      BY <1>5, <1>11, <1>12, <2>1
    <3>2. received'[l][r] <= v.tries + 1 /\ v.tries \in 0..MaxRetries
      <4>1. received'[l][r] <= IF r \in UNION v.sent THEN v.tries + 1 ELSE v.tries
        BY <1>13, <3>1
      <4> QED
        BY <1>4, <2>1, <4>1 DEF Upload
    <3>3. Kind[l] = "s3" => v.tries = 0
      BY <1>4, <2>1 DEF IInv, PartsSent
    <3>4. received'[l][r] \in Int
      BY <1>2, <1>7, <2>1, MoreIsOneMore
    <3> QED
      BY <3>2, <3>3, <3>4, BoundsAssumption
  <2>2. CASE ~(l = k /\ r \in part)
    BY <1>7, <2>2 DEF IInv, ReceivedOncePerTry
  <2> QED
    BY <2>1, <2>2
<1> QED
  BY <1>8, <1>9, <1>10, <1>14, <1>15 DEF IInv

\* An upload is tried again, as a whole.
LEMMA AgainIInv ==
    ASSUME IInv, NEW u \in uploads, FailUpload(u), Retries(u)
    PROVE  IInv'
<1> DEFINE v == Again(u)
<1>1. /\ uploads' = (uploads \ {u}) \cup {v}
      /\ UNCHANGED <<submitted, list, msgs, pc, cur, held, finished, received>>
  BY DEF FailUpload, workerVars
<1>2. /\ u \in Upload /\ uploads \subseteq Upload
      /\ received \in [Lists -> [Reports -> 0..(MaxRetries + 2)]]
  BY DEF IInv, TypeOK, Upload
<1>3. /\ v \in Upload
      /\ v.list = u.list /\ v.batch = u.batch /\ v.tries = u.tries + 1 /\ v.sent = {}
      /\ Kind[v.list] # "s3"
  <2>1. /\ u.list \in Lists /\ u.batch \in SUBSET Reports /\ u.tries \in 0..MaxRetries
        /\ u.tries + 1 \in 0..MaxRetries /\ Kind[u.list] # "s3"
    BY <1>2, BoundsAssumption DEF Retries, Upload
  <2>2. v = [list |-> u.list, batch |-> u.batch, tries |-> u.tries + 1, sent |-> {}]
    <3> DEFINE n == u.tries + 1
    <3>1. v = [u EXCEPT !.tries = n, !.sent = {}]
      BY DEF Again
    <3>2. u = [list |-> u.list, batch |-> u.batch, tries |-> u.tries, sent |-> u.sent]
      BY <1>2 DEF Upload
    <3> HIDE DEF n, v
    <3>3. v = [[u EXCEPT !.tries = n] EXCEPT !.sent = {}]
      BY <3>1
    <3>4. [u EXCEPT !.tries = n] = [list |-> u.list, batch |-> u.batch, tries |-> n, sent |-> u.sent]
      BY <3>2
    <3> QED
      BY <3>3, <3>4 DEF n
  <2> HIDE DEF v
  <2> QED
    BY <2>1, <2>2 DEF Upload
<1> HIDE DEF v
<1>4. TypeOK'
  BY <1>1, <1>2, <1>3 DEF IInv, TypeOK, Upload
<1>5. OnlyTakenIsHeld' /\ Tracked' /\ Apart'
  BY <1>1, <1>3, UploadReplaced DEF workerVars
<1>6. PartsSent'
  <2>1. \A x : Parts(x)' = Parts(x)
    BY DEF Parts
  <2> QED
    BY <1>1, <1>3, <2>1 DEF IInv, PartsSent
<1>7. Accounted'
  <2>1. \A x, l, r : Carries(x, l, r)' <=> Carries(x, l, r)
    BY DEF Carries
  <2>2. \A l, r : Carries(v, l, r) <=> Carries(u, l, r)
    BY <1>3 DEF Carries
  <2> SUFFICES ASSUME NEW l \in Lists, NEW r \in Reports
               PROVE  /\ \/ received[l][r] = 0
                         \/ r \in finished[l]
                         \/ \E x \in uploads' : Carries(x, l, r)
                      /\ \A x \in uploads' : Carries(x, l, r) =>
                            received[l][r] <= IF r \in UNION x.sent THEN x.tries + 1 ELSE x.tries
    BY <1>1, <2>1 DEF Accounted
  <2>3. /\ \/ received[l][r] = 0
           \/ r \in finished[l]
           \/ \E x \in uploads : Carries(x, l, r)
        /\ \A x \in uploads : Carries(x, l, r) =>
              received[l][r] <= IF r \in UNION x.sent THEN x.tries + 1 ELSE x.tries
    BY DEF IInv, Accounted
  <2>4. Carries(u, l, r) => received[l][r] <= v.tries
    <3>1. received[l][r] \in Nat /\ u.tries \in Nat
      BY <1>2 DEF Upload
    <3> QED
      BY <1>3, <2>3, <3>1
  <2> QED
    BY <1>1, <1>3, <2>2, <2>3, <2>4
<1>8. ReceivedOncePerTry'
  BY <1>1 DEF IInv, ReceivedOncePerTry
<1> QED
  BY <1>4, <1>5, <1>6, <1>7, <1>8 DEF IInv

\* Steps of messages and of tasks that hold nothing move no report.
LEMMA OtherStepIInv ==
    ASSUME IInv, UNCHANGED <<submitted, list, held, uploads, finished, received>>,
           msgs' \in [Lists -> 0..MaxMsgs],
           pc' \in [Workers -> {"idle", "checked", "taken", "sent"}],
           cur' \in [Workers -> Lists],
           \A w \in Workers : held[w] # {} => UNCHANGED <<pc[w], cur[w]>>
    PROVE  IInv'
<1>1. TypeOK'
  BY DEF IInv, TypeOK
<1>2. OnlyTakenIsHeld'
  BY DEF IInv, OnlyTakenIsHeld
<1>3. /\ \A w \in Workers : \A l, r : Holds(w, l, r)' <=> Holds(w, l, r)
      /\ \A u, l, r : Carries(u, l, r)' <=> Carries(u, l, r)
  BY DEF Holds, Carries
<1>4. Tracked' /\ Apart'
  BY <1>3 DEF IInv, Tracked, Apart
<1>5. PartsSent' /\ Accounted' /\ ReceivedOncePerTry'
  BY AccountsKept
<1> QED
  BY <1>1, <1>2, <1>4, <1>5 DEF IInv

\* No step breaks the invariant.
LEMMA StepIInv == IInv /\ [Next]_vars => IInv'
<1> SUFFICES ASSUME IInv, [Next]_vars PROVE IInv'
  OBVIOUS
<1> USE DEF workerVars
<1>1. /\ msgs \in [Lists -> 0..MaxMsgs]
      /\ pc \in [Workers -> {"idle", "checked", "taken", "sent"}]
      /\ cur \in [Workers -> Lists]
      /\ \A w \in Workers : pc[w] # "taken" => held[w] = {}
  BY DEF IInv, TypeOK, OnlyTakenIsHeld
<1>2. ASSUME NEW r \in Reports, QueueReport(r) PROVE IInv'
  BY <1>2, QueueReportIInv
<1>3. ASSUME NEW l \in Lists, Expire(l) PROVE IInv'
  BY <1>3, ExpireIInv
<1>4. ASSUME NEW l \in Lists, Schedule(l) PROVE IInv'
  <2>1. msgs' \in [Lists -> 0..MaxMsgs]
    BY <1>1, <1>4, SentTypes DEF Schedule
  <2> QED
    BY <1>1, <1>4, <2>1, OtherStepIInv DEF Schedule
<1>5. ASSUME NEW l \in Lists, MessageExpires(l) PROVE IInv'
  <2>1. msgs' \in [Lists -> 0..MaxMsgs]
    BY <1>1, <1>5, BoundsAssumption DEF MessageExpires
  <2> QED
    BY <1>1, <1>5, <2>1, OtherStepIInv DEF MessageExpires
<1>6. ASSUME NEW w \in Workers, NEW l \in Lists, StartExport(w, l) PROVE IInv'
  <2>1. msgs' \in [Lists -> 0..MaxMsgs]
    BY <1>1, <1>6, BoundsAssumption DEF StartExport
  <2>2. /\ pc' \in [Workers -> {"idle", "checked", "taken", "sent"}]
        /\ cur' \in [Workers -> Lists]
        /\ \A v \in Workers : v # w => UNCHANGED <<pc[v], cur[v]>>
    BY <1>1, <1>6 DEF StartExport
  <2>3. held[w] = {}
    BY <1>1, <1>6 DEF StartExport
  <2> QED
    BY <1>6, <2>1, <2>2, <2>3, OtherStepIInv DEF StartExport
<1>7. ASSUME NEW w \in Workers, NEW S, Take(w, S) PROVE IInv'
  BY <1>7, TakeIInv
<1>8. ASSUME NEW w \in Workers, PutBack(w) PROVE IInv'
  BY <1>8, PutBackIInv
<1>9. ASSUME NEW w \in Workers, SendUpload(w) PROVE IInv'
  BY <1>9, SendUploadIInv
<1>10. ASSUME NEW w \in Workers, FollowUp(w) PROVE IInv'
  <2>1. msgs' \in [Lists -> 0..MaxMsgs]
    BY <1>1, <1>10, SentTypes DEF FollowUp
  <2>2. /\ pc' \in [Workers -> {"idle", "checked", "taken", "sent"}]
        /\ \A v \in Workers : v # w => UNCHANGED <<pc[v], cur[v]>>
    BY <1>1, <1>10 DEF FollowUp
  <2>3. held[w] = {}
    BY <1>1, <1>10 DEF FollowUp
  <2> QED
    BY <1>1, <1>10, <2>1, <2>2, <2>3, OtherStepIInv DEF FollowUp
<1>11. ASSUME NEW w \in Workers, FailExport(w) PROVE IInv'
  BY <1>11, FailExportIInv
<1>12. ASSUME NEW u \in uploads, SendPart(u) PROVE IInv'
  BY <1>12, SendPartIInv
<1>13. ASSUME NEW u \in uploads, FinishUpload(u) \/ CrashUpload(u) PROVE IInv'
  BY <1>13, EndIInv DEF FinishUpload, CrashUpload
<1>14. ASSUME NEW u \in uploads, FailUpload(u) PROVE IInv'
  <2>1. CASE Retries(u)
    BY <1>14, <2>1, AgainIInv
  <2>2. CASE ~Retries(u)
    BY <1>14, <2>2, EndIInv DEF FailUpload
  <2> QED
    BY <2>1, <2>2
<1>15. CASE UNCHANGED vars
  BY <1>1, <1>15, OtherStepIInv DEF vars
<1> QED
  BY <1>2, <1>3, <1>4, <1>5, <1>6, <1>7, <1>8, <1>9, <1>10, <1>11, <1>12, <1>13,
     <1>14, <1>15 DEF Next

-----------------------------------------------------------------------------
\* Where the reports of a list are, and how often they were sent, is known at
\* any time of any run of the export and upload tasks (data/export.py).
THEOREM ReportsTraced == Spec => []IInv
<1> QED
  BY InitIInv, StepIInv, PTL DEF Spec

\* The variables of the export stay within their types (data/export.py).
THEOREM TypeCorrect == Spec => []TypeOK
<1>1. IInv => TypeOK
  BY DEF IInv
<1> QED
  BY <1>1, ReportsTraced, PTL

\* A put-back, a retry, a failure or an overlap of export tasks neither
\* duplicates a report nor loses track of it (data/export.py:91-144).
THEOREM InOneStage == Spec => []OneStage
<1>1. IInv => OneStage
  <2> SUFFICES ASSUME IInv, NEW l \in Lists
               PROVE  LET stages == <<list[l], UNION {held[w] : w \in HeldFor(l)},
                                      UNION {u.batch : u \in UploadsFor(l)}, finished[l]>>
                      IN  /\ {r \in submitted : l \in Targets[r]} = UNION {stages[i] : i \in 1..4}
                          /\ \A i, j \in 1..4 : i # j => stages[i] \cap stages[j] = {}
                          /\ \A v, w \in HeldFor(l) : v # w => held[v] \cap held[w] = {}
                          /\ \A u, v \in UploadsFor(l) : u # v => u.batch \cap v.batch = {}
    BY DEF OneStage
  <2> DEFINE H == UNION {held[w] : w \in HeldFor(l)}
             U == UNION {u.batch : u \in UploadsFor(l)}
             stages == <<list[l], H, U, finished[l]>>
  <2>1. /\ submitted \subseteq Reports
        /\ list[l] \subseteq Reports /\ finished[l] \subseteq Reports
        /\ \A w \in Workers : held[w] \subseteq Reports
        /\ \A u \in uploads : u.batch \subseteq Reports
    BY DEF IInv, TypeOK
  <2>2. /\ \A w \in Workers, r \in Reports :
              Holds(w, l, r) <=> w \in HeldFor(l) /\ r \in held[w]
        /\ \A u \in uploads, r \in Reports :
              Carries(u, l, r) <=> u \in UploadsFor(l) /\ r \in u.batch
        /\ HeldFor(l) \subseteq Workers /\ UploadsFor(l) \subseteq uploads
    BY DEF Holds, Carries, HeldFor, UploadsFor, IInv, OnlyTakenIsHeld
  <2>3. /\ \A r : r \in H <=> r \in Reports /\ \E w \in Workers : Holds(w, l, r)
        /\ \A r : r \in U <=> r \in Reports /\ \E u \in uploads : Carries(u, l, r)
    BY <2>1, <2>2
  <2> HIDE DEF H, U
  <2>4. {r \in submitted : l \in Targets[r]} = list[l] \cup H \cup U \cup finished[l]
    BY <2>1, <2>3 DEF IInv, Tracked
  <2>5. /\ list[l] \cap H = {} /\ list[l] \cap U = {} /\ list[l] \cap finished[l] = {}
        /\ H \cap U = {} /\ H \cap finished[l] = {} /\ U \cap finished[l] = {}
    BY <2>1, <2>3 DEF IInv, Apart
  <2>6. UNION {stages[i] : i \in 1..4} = list[l] \cup H \cup U \cup finished[l]
    <3>1. /\ 1..4 = {1, 2, 3, 4}
          /\ stages[1] = list[l] /\ stages[2] = H /\ stages[3] = U /\ stages[4] = finished[l]
      OBVIOUS
    <3> HIDE DEF stages
    <3> QED
      BY <3>1
  <2>7. \A i, j \in 1..4 : i # j => stages[i] \cap stages[j] = {}
    <3>1. /\ 1..4 = {1, 2, 3, 4}
          /\ stages[1] = list[l] /\ stages[2] = H /\ stages[3] = U /\ stages[4] = finished[l]
      OBVIOUS
    <3> HIDE DEF stages
    <3> QED
      BY <2>5, <3>1
  <2>8. \A v, w \in HeldFor(l) : v # w => held[v] \cap held[w] = {}
    BY <2>1, <2>2 DEF IInv, Apart
  <2>9. \A u, v \in UploadsFor(l) : u # v => u.batch \cap v.batch = {}
    BY <2>1, <2>2 DEF IInv, Apart
  <2> QED
    BY <2>4, <2>6, <2>7, <2>8, <2>9 DEF H, U
<1> QED
  BY <1>1, ReportsTraced, PTL

\* No report that has reached the other side is in a list or will be put back
\* into one (data/export.py:91-121).
THEOREM UnsentWhileQueued == Spec => []QueuedIsUnsent
<1>1. IInv => QueuedIsUnsent
  <2> SUFFICES ASSUME IInv, NEW l \in Lists, NEW r \in Reports, r \in Unsent(l)
               PROVE  received[l][r] = 0
    <3>1. \A l \in Lists, r \in Reports : received[l][r] = 0 => ~(received[l][r] > 0)
      OBVIOUS
    <3> QED
      BY <3>1 DEF QueuedIsUnsent
  <2>1. r \in list[l] \/ \E w \in Workers : Holds(w, l, r)
    BY DEF Unsent, HeldFor, Holds
  <2> QED
    BY <2>1 DEF IInv, Apart, Accounted
<1> QED
  BY <1>1, ReportsTraced, PTL

\* Retries send a report at most once per try, and S3 uploads, which are not
\* tried again, send it at most once (data/export.py:137-224).
THEOREM SentOncePerTry == Spec => []ReceivedOncePerTry
<1>1. IInv => ReceivedOncePerTry
  BY DEF IInv
<1> QED
  BY <1>1, ReportsTraced, PTL
=============================================================================
