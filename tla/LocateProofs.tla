---------------------------- MODULE LocateProofs -----------------------------
(***************************************************************************)
(* The two limits of Locate hold for any number of concurrent requests,    *)
(* any limits and any lengths of the day and the interval, and what a      *)
(* request takes from the cache is the last that was stored.               *)
(*                                                                         *)
(* A counter that vanished before its period is over would let further     *)
(* requests through, so the invariant says of the present and all coming   *)
(* ticks that the counter of their period lives longer than they do (Kept) *)
(* and has counted every use of it that was not let in uncounted (Counted). *)
(* It is the same for both limits, and stated once for any counters.       *)
(*                                                                         *)
(* The cache forgets an answer when its time is over, so its invariant     *)
(* (Fresh) ties each entry, and each missing entry, to what was given for  *)
(* the network, and when.  That a mean of positions is one that agrees with *)
(* all of them needs what SetFacts says of sums.                           *)
(***************************************************************************)
EXTENDS Locate, SetFacts

Entries == [count : Nat, until : Nat]
Tallies == [Times -> Nat]

\* At tick n, with counters c for periods of length len.
Kept(n, c, len) ==
    \A t \in Times : n <= t /\ c[t \div len].count # 0 => t < c[t \div len].until

\* The uses are those of a period, the free ones among them were not counted.
Counted(n, c, len, uses, free) ==
    \A t \in Times : n <= t => uses[t \div len] <= c[t \div len].count + free[t \div len]

Within(uses, max, free) == \A p \in Times : uses[p] <= max + free[p]

Sound(n, c, len, uses, max, free) ==
    /\ Kept(n, c, len)
    /\ Counted(n, c, len, uses, free)
    /\ Within(uses, max, free)

NoneFree == [p \in Times |-> 0]

Types ==
    /\ now \in Times
    /\ apiCounters \in [Times -> Entries] /\ extCounters \in [Times -> Entries]
    /\ served \in Tallies /\ unlimited \in Tallies /\ calls \in Tallies

IInv ==
    /\ Types
    /\ MaxReq # 0 => Sound(now, apiCounters, DayLength, served, MaxReq, unlimited)
    /\ Limit # 0 => Sound(now, extCounters, Interval, calls, Limit, NoneFree)

-----------------------------------------------------------------------------
(* One pair of counters.                                                   *)

\* The period of a tick is a number that is not larger, and two ticks of one
\* period are less than its length apart.
LEMMA Division ==
    ASSUME NEW t \in Nat, NEW n \in Nat, NEW len \in Nat \ {0}
    PROVE  /\ t \div len \in 0..t
           /\ t \div len = n \div len => t < n + len
  OBVIOUS

\* So every tick has a period among the ticks.
LEMMA PeriodInTimes ==
    ASSUME NEW t \in Times, NEW len \in Nat \ {0}
    PROVE  t \div len \in Times
  BY Division, LimitsAssumption DEF Times

\* What Increase of RateLimit makes of counters that live for e ticks.
Increased(n, c, len, e) ==
    [c EXCEPT ![n \div len] = [count |-> @.count + 1, until |-> n + e]]

\* A count that is not followed by a use does no harm.
LEMMA SoundIncrease ==
    ASSUME NEW n \in Times, NEW c \in [Times -> Entries],
           NEW len \in Nat \ {0}, NEW e \in Nat, len <= e,
           NEW uses \in Tallies, NEW free \in Tallies, NEW max \in Nat,
           Sound(n, c, len, uses, max, free)
    PROVE  /\ Increased(n, c, len, e) \in [Times -> Entries]
           /\ Sound(n, Increased(n, c, len, e), len, uses, max, free)
<1> DEFINE d == Increased(n, c, len, e)
           p == n \div len
<1>1. p \in Times
  BY PeriodInTimes
<1>2. n \in Nat /\ Times \subseteq Nat
  BY LimitsAssumption DEF Times
<1>3. /\ d \in [Times -> Entries]
      /\ d[p] = [count |-> c[p].count + 1, until |-> n + e]
      /\ \A q \in Times : q # p => d[q] = c[q]
  BY <1>1, <1>2 DEF Increased, Entries
<1> HIDE DEF d
<1>4. ASSUME NEW t \in Times, n <= t, d[t \div len].count # 0
      PROVE  t < d[t \div len].until
  <2>1. t \div len \in Times
    BY PeriodInTimes
  <2>2. CASE t \div len = p
    <3>1. t < n + len
      BY <1>2, <2>2, Division
    <3>2. d[t \div len].until = n + e
      BY <1>3, <2>2
    <3> QED
      BY <1>2, <3>1, <3>2
  <2>3. CASE t \div len # p
    BY <1>3, <1>4, <2>1, <2>3 DEF Sound, Kept
  <2> QED
    BY <2>2, <2>3
<1>5. ASSUME NEW t \in Times, n <= t
      PROVE  uses[t \div len] <= d[t \div len].count + free[t \div len]
  <2> DEFINE q == t \div len
  <2>1. q \in Times
    BY PeriodInTimes
  <2>2. c[q].count \in Nat /\ uses[q] \in Nat /\ free[q] \in Nat
    BY <2>1 DEF Entries, Tallies
  <2>3. uses[q] <= c[q].count + free[q]
    BY <1>5 DEF Sound, Counted
  <2>4. d[q].count = c[q].count \/ d[q].count = c[q].count + 1
    BY <1>3, <2>1
  <2> HIDE DEF q
  <2>5. uses[q] <= d[q].count + free[q]
    BY <2>2, <2>3, <2>4
  <2> QED
    BY <2>5 DEF q
<1> QED
  BY <1>3, <1>4, <1>5 DEF Sound, Kept, Counted, d

\* A use that was counted first, and within the limit.
LEMMA SoundUse ==
    ASSUME NEW n \in Times, NEW c \in [Times -> Entries],
           NEW len \in Nat \ {0}, NEW e \in Nat, len <= e,
           NEW uses \in Tallies, NEW free \in Tallies, NEW max \in Nat,
           Sound(n, c, len, uses, max, free),
           c[n \div len].count + 1 <= max
    PROVE  LET more == [uses EXCEPT ![n \div len] = @ + 1]
           IN  /\ more \in Tallies
               /\ Sound(n, Increased(n, c, len, e), len, more, max, free)
<1> DEFINE d == Increased(n, c, len, e)
           p == n \div len
           more == [uses EXCEPT ![p] = @ + 1]
<1>1. p \in Times
  BY PeriodInTimes
<1>2. n \in Nat /\ Times \subseteq Nat
  BY LimitsAssumption DEF Times
<1>3. /\ more \in Tallies
      /\ more[p] = uses[p] + 1
      /\ \A q \in Times : q # p => more[q] = uses[q]
  BY <1>1 DEF Tallies
<1>4. /\ d[p].count = c[p].count + 1
      /\ \A q \in Times : q # p => d[q] = c[q]
  BY <1>1 DEF Increased, Entries
<1>5. Kept(n, d, len)
  BY SoundIncrease DEF Sound
<1>6. c[p].count \in Nat /\ c[p].count + 1 <= max
  BY <1>1 DEF Entries
<1>7. \A q \in Times : c[q].count \in Nat /\ uses[q] \in Nat /\ free[q] \in Nat
  BY DEF Entries, Tallies
<1> HIDE DEF d, more, p
<1>8. ASSUME NEW t \in Times, n <= t
      PROVE  more[t \div len] <= d[t \div len].count + free[t \div len]
  <2> DEFINE q == t \div len
  <2>1. q \in Times
    BY PeriodInTimes
  <2>2. uses[q] <= c[q].count + free[q]
    BY <1>8 DEF Sound, Counted
  <2> HIDE DEF q
  <2>3. more[q] <= d[q].count + free[q]
    BY <1>3, <1>4, <1>7, <2>1, <2>2
  <2> QED
    BY <2>3 DEF q
<1>9. ASSUME NEW q \in Times
      PROVE  more[q] <= max + free[q]
  <2>1. CASE q = p
    <3>1. uses[p] <= c[p].count + free[p]
      BY <1>2 DEF Sound, Counted, p
    <3> QED
      BY <1>3, <1>6, <1>7, <2>1, <3>1
  <2>2. CASE q # p
    BY <1>3, <2>2 DEF Sound, Within
  <2> QED
    BY <2>1, <2>2
<1> QED
  BY <1>3, <1>5, <1>8, <1>9 DEF Sound, Counted, Within, d, more, p

\* A use that could not be counted.
LEMMA SoundFree ==
    ASSUME NEW n \in Times, NEW c \in [Times -> Entries],
           NEW len \in Nat \ {0}, NEW max \in Nat,
           NEW uses \in Tallies, NEW free \in Tallies, NEW p \in Times,
           Sound(n, c, len, uses, max, free)
    PROVE  Sound(n, c, len, [uses EXCEPT ![p] = @ + 1], max, [free EXCEPT ![p] = @ + 1])
<1> DEFINE more == [uses EXCEPT ![p] = @ + 1]
           moreFree == [free EXCEPT ![p] = @ + 1]
<1>1. \A q \in Times : \/ more[q] = uses[q] /\ moreFree[q] = free[q]
                       \/ more[q] = uses[q] + 1 /\ moreFree[q] = free[q] + 1
  BY DEF Tallies
<1>2. \A q \in Times : c[q].count \in Nat /\ uses[q] \in Nat /\ free[q] \in Nat
  BY DEF Entries, Tallies
<1> HIDE DEF more, moreFree
<1>3. ASSUME NEW t \in Times, n <= t
      PROVE  more[t \div len] <= c[t \div len].count + moreFree[t \div len]
  <2> DEFINE q == t \div len
  <2>1. q \in Times
    BY PeriodInTimes
  <2>2. uses[q] <= c[q].count + free[q]
    BY <1>3 DEF Sound, Counted
  <2> HIDE DEF q
  <2>3. more[q] <= c[q].count + moreFree[q]
    BY <1>1, <1>2, <2>1, <2>2
  <2> QED
    BY <2>3 DEF q
<1>4. \A q \in Times : more[q] <= max + moreFree[q]
  BY <1>1, <1>2 DEF Sound, Within
<1> QED
  BY <1>3, <1>4 DEF Sound, Counted, Within, more, moreFree

\* No counter expires while its period goes on.
LEMMA SoundTick ==
    ASSUME NEW n \in Times, n + 1 \in Times, NEW c \in [Times -> Entries],
           NEW len \in Nat \ {0}, NEW max \in Nat,
           NEW uses \in Tallies, NEW free \in Tallies,
           Sound(n, c, len, uses, max, free),
           NEW d, d = [p \in Times |-> IF c[p].until <= n + 1
                                       THEN [count |-> 0, until |-> 0] ELSE c[p]]
    PROVE  Sound(n + 1, d, len, uses, max, free)
<1>1. Times \subseteq Nat
  BY LimitsAssumption DEF Times
<1>2. ASSUME NEW t \in Times, n + 1 <= t
      PROVE  /\ d[t \div len].count # 0 => t < d[t \div len].until
             /\ uses[t \div len] <= d[t \div len].count + free[t \div len]
  <2> DEFINE q == t \div len
  <2>1. q \in Times
    BY PeriodInTimes
  <2>2. c[q].count # 0 => t < c[q].until
    BY <1>1, <1>2 DEF Sound, Kept
  <2>3. uses[q] <= c[q].count + free[q]
    BY <1>1, <1>2 DEF Sound, Counted
  <2>4. c[q].count \in Nat /\ c[q].until \in Nat
    BY <2>1 DEF Entries
  <2>5. d[q] = IF c[q].until <= n + 1 THEN [count |-> 0, until |-> 0] ELSE c[q]
    BY <2>1
  <2> HIDE DEF q
  <2>6. d[q].count = c[q].count /\ (d[q].count # 0 => d[q] = c[q])
    BY <1>1, <1>2, <2>2, <2>4, <2>5
  <2>7. /\ d[q].count # 0 => t < d[q].until
        /\ uses[q] <= d[q].count + free[q]
    BY <2>2, <2>3, <2>6
  <2> QED
    BY <2>7 DEF q
<1> QED
  BY <1>2 DEF Sound, Kept, Counted

-----------------------------------------------------------------------------
(* The specification.                                                      *)

\* All limits hold before the first request.
LEMMA InitIInv == Init => IInv
<1> SUFFICES ASSUME Init PROVE IInv
  OBVIOUS
<1>1. Times \subseteq Nat /\ 0 \in Times
  BY LimitsAssumption DEF Times
<1>2. Types
  BY <1>1 DEF Init, Types, Api!Init, Ext!Init, Api!NoCounter, Ext!NoCounter, Entries, Tallies
<1>3. MaxReq # 0 => Sound(now, apiCounters, DayLength, served, MaxReq, unlimited)
  <2>1. \A t \in Times : t \div DayLength \in Times
    BY PeriodInTimes, LimitsAssumption
  <2> QED
    BY <2>1, LimitsAssumption
    DEF Init, Api!Init, Api!NoCounter, Sound, Kept, Counted, Within
<1>4. Limit # 0 => Sound(now, extCounters, Interval, calls, Limit, NoneFree)
  <2>1. \A t \in Times : t \div Interval \in Times
    BY PeriodInTimes, LimitsAssumption
  <2> QED
    BY <2>1, LimitsAssumption
    DEF Init, Ext!Init, Ext!NoCounter, Sound, Kept, Counted, Within, NoneFree
<1> QED
  BY <1>2, <1>3, <1>4 DEF IInv

\* The daily limit: requests are let in when the count after their own is
\* within the limit, or when there is no count.
LEMMA CheckIInv ==
    ASSUME IInv, NEW r \in Requests, NEW q \in Queries, Check(r, q)
    PROVE  IInv'
<1> DEFINE day == now \div DayLength
<1> PICK exceeded \in BOOLEAN, failed \in BOOLEAN :
        /\ Api!Exceeded(day, exceeded, failed)
        /\ served' = [served EXCEPT ![day] = IF exceeded THEN @ ELSE @ + 1]
        /\ unlimited' = [unlimited EXCEPT ![day] = IF failed THEN @ + 1 ELSE @]
        /\ UNCHANGED <<now, extCounters, calls>>
  BY DEF Check, Day
<1>1. /\ Types /\ now \in Times /\ day \in Times
      /\ MaxReq \in Nat /\ DayLength \in Nat \ {0} /\ DayLength \in Nat
      /\ apiCounters \in [Times -> Entries] /\ extCounters \in [Times -> Entries]
      /\ served \in Tallies /\ unlimited \in Tallies
  BY LimitsAssumption, PeriodInTimes DEF IInv, Types
<1>2. served' \in Tallies /\ unlimited' \in Tallies
  BY <1>1 DEF Tallies
<1>3. (~exceeded => served' = [served EXCEPT ![day] = @ + 1]) /\ (exceeded => served' = served)
  BY <1>1 DEF Tallies
<1>4. (failed => unlimited' = [unlimited EXCEPT ![day] = @ + 1]) /\ (~failed => unlimited' = unlimited)
  BY <1>1 DEF Tallies
<1> DEFINE more == Increased(now, apiCounters, DayLength, DayLength)
<1>5. CASE MaxReq = 0
  BY <1>1, <1>2, <1>5 DEF IInv, Types, Api!Exceeded
<1>6. CASE MaxReq # 0
  <2>1. Sound(now, apiCounters, DayLength, served, MaxReq, unlimited)
    BY <1>6 DEF IInv
  <2>2. /\ more \in [Times -> Entries]
        /\ Sound(now, more, DayLength, served, MaxReq, unlimited)
    BY <1>1, <2>1, SoundIncrease
  <2>3. Api!Increase(day) => apiCounters' = more
    BY DEF Api!Increase, Increased
  <2>4. CASE ~failed
    <3>1. apiCounters' = more /\ (exceeded <=> Api!Over(day))
      BY <1>6, <2>3, <2>4 DEF Api!Exceeded
    <3>2. CASE exceeded
      BY <1>1, <1>2, <1>3, <1>4, <2>2, <2>4, <3>1, <3>2 DEF IInv, Types
    <3>3. CASE ~exceeded
      <4>1. apiCounters[day].count + 1 <= MaxReq
        BY <1>1, <3>1, <3>3 DEF Api!Over, Entries
      <4>2. DayLength <= DayLength
        BY <1>1
      <4>3. Sound(now, more, DayLength, [served EXCEPT ![day] = @ + 1], MaxReq, unlimited)
        BY <1>1, <2>1, <4>1, <4>2, SoundUse
      <4> QED
        BY <1>1, <1>2, <1>3, <1>4, <2>2, <2>4, <3>1, <3>3, <4>3 DEF IInv, Types
    <3> QED
      BY <3>2, <3>3
  <2>5. CASE failed
    <3>1. ~exceeded /\ (apiCounters' = apiCounters \/ apiCounters' = more)
      BY <1>6, <2>3, <2>5 DEF Api!Exceeded
    <3>2. /\ apiCounters' \in [Times -> Entries]
          /\ Sound(now, apiCounters', DayLength, served, MaxReq, unlimited)
      BY <1>1, <2>1, <2>2, <3>1
    <3>3. Sound(now, apiCounters', DayLength, served', MaxReq, unlimited')
      <4> DEFINE c == apiCounters'
      <4>1. /\ c \in [Times -> Entries]
            /\ Sound(now, c, DayLength, served, MaxReq, unlimited)
        BY <3>2
      <4>2. /\ served' = [served EXCEPT ![day] = @ + 1]
            /\ unlimited' = [unlimited EXCEPT ![day] = @ + 1]
        BY <1>3, <1>4, <2>5, <3>1
      <4> HIDE DEF c, day
      <4>3. Sound(now, c, DayLength, [served EXCEPT ![day] = @ + 1], MaxReq,
                  [unlimited EXCEPT ![day] = @ + 1])
        BY <1>1, <4>1, SoundFree
      <4> QED
        BY <4>2, <4>3 DEF c
    <3> QED
      BY <1>1, <1>2, <3>2, <3>3 DEF IInv, Types
  <2> QED
    BY <2>4, <2>5
<1> QED
  BY <1>5, <1>6

\* The database fails: one more request that is not counted.
LEMMA SkipCheckIInv ==
    ASSUME IInv, NEW r \in Requests, NEW q \in Queries, SkipCheck(r, q)
    PROVE  IInv'
<1> DEFINE day == now \div DayLength
<1>1. /\ Types /\ now \in Times /\ day \in Times
      /\ MaxReq \in Nat /\ DayLength \in Nat \ {0}
      /\ apiCounters \in [Times -> Entries]
      /\ served \in Tallies /\ unlimited \in Tallies
  BY LimitsAssumption, PeriodInTimes DEF IInv, Types
<1>2. /\ served' = [served EXCEPT ![day] = @ + 1]
      /\ unlimited' = [unlimited EXCEPT ![day] = @ + 1]
      /\ UNCHANGED <<now, apiCounters, extCounters, calls>>
  BY DEF SkipCheck, Day, redisVars
<1>3. Types'
  BY <1>1, <1>2 DEF Types, Tallies
<1>4. ASSUME MaxReq # 0
      PROVE  Sound(now, apiCounters, DayLength, served', MaxReq, unlimited')
  <2>1. Sound(now, apiCounters, DayLength, served, MaxReq, unlimited)
    BY <1>4 DEF IInv
  <2> QED
    BY <1>1, <1>2, <2>1, SoundFree
<1> QED
  BY <1>2, <1>3, <1>4 DEF IInv

\* The limit of external calls: a call counts first, and there is none when
\* Redis fails.
LEMMA CountCallIInv ==
    ASSUME IInv, NEW r \in Requests, CountCall(r)
    PROVE  IInv'
<1> DEFINE p == now \div Interval
<1> PICK exceeded \in BOOLEAN, failed \in BOOLEAN :
        /\ Ext!Exceeded(p, exceeded, failed)
        /\ calls' = [calls EXCEPT ![p] = IF exceeded THEN @ ELSE @ + 1]
        /\ UNCHANGED <<now, apiCounters, served, unlimited>>
  BY DEF CountCall, Period
<1>1. /\ Types /\ now \in Times /\ p \in Times
      /\ Limit \in Nat /\ Interval \in Nat \ {0}
      /\ Expire \in Nat /\ Interval <= Expire
      /\ extCounters \in [Times -> Entries]
      /\ calls \in Tallies /\ NoneFree \in Tallies
  BY LimitsAssumption, ExpireAssumption, PeriodInTimes DEF IInv, Types, NoneFree, Tallies
<1>2. calls' \in Tallies
  BY <1>1 DEF Tallies
<1>3. (~exceeded => calls' = [calls EXCEPT ![p] = @ + 1]) /\ (exceeded => calls' = calls)
  BY <1>1 DEF Tallies
<1> DEFINE more == Increased(now, extCounters, Interval, Expire)
<1>4. CASE Limit = 0
  BY <1>1, <1>2, <1>4 DEF IInv, Types, Ext!Exceeded
<1>5. CASE Limit # 0
  <2>1. Sound(now, extCounters, Interval, calls, Limit, NoneFree)
    BY <1>5 DEF IInv
  <2>2. /\ more \in [Times -> Entries]
        /\ Sound(now, more, Interval, calls, Limit, NoneFree)
    BY <1>1, <2>1, SoundIncrease
  <2>3. Ext!Increase(p) => extCounters' = more
    BY DEF Ext!Increase, Increased
  <2>4. CASE exceeded
    <3>1. extCounters' = extCounters \/ extCounters' = more
      BY <1>5, <2>3 DEF Ext!Exceeded
    <3> QED
      BY <1>1, <1>2, <1>3, <2>1, <2>2, <2>4, <3>1 DEF IInv, Types
  <2>5. CASE ~exceeded
    <3>1. extCounters' = more /\ ~Ext!Over(p)
      BY <1>5, <2>3, <2>5 DEF Ext!Exceeded
    <3>2. extCounters[p].count + 1 <= Limit
      BY <1>1, <3>1 DEF Ext!Over, Entries
    <3>3. Sound(now, more, Interval, calls', Limit, NoneFree)
      BY <1>1, <1>3, <2>1, <2>5, <3>2, SoundUse
    <3> QED
      BY <1>1, <1>2, <2>2, <3>1, <3>3 DEF IInv, Types
  <2> QED
    BY <2>4, <2>5
<1> QED
  BY <1>4, <1>5

\* Time passes, and counters expire.
LEMMA TickIInv ==
    ASSUME IInv, Tick
    PROVE  IInv'
<1>1. /\ Types /\ now \in Times /\ now + 1 \in Times
      /\ MaxReq \in Nat /\ Limit \in Nat
      /\ DayLength \in Nat \ {0} /\ Interval \in Nat \ {0}
      /\ NoneFree \in Tallies
  BY LimitsAssumption DEF IInv, Types, Tick, Times, NoneFree, Tallies
<1>2. /\ now' = now + 1
      /\ apiCounters' = [p \in Times |-> IF apiCounters[p].until <= now + 1
                                         THEN [count |-> 0, until |-> 0] ELSE apiCounters[p]]
      /\ extCounters' = [p \in Times |-> IF extCounters[p].until <= now + 1
                                         THEN [count |-> 0, until |-> 0] ELSE extCounters[p]]
      /\ UNCHANGED <<served, unlimited, calls>>
  BY DEF Tick, Api!Tick, Ext!Tick, Api!NoCounter, Ext!NoCounter, historyVars
<1>3. Types'
  BY <1>1, <1>2 DEF Types, Entries
<1>4. ASSUME MaxReq # 0
      PROVE  Sound(now + 1, apiCounters', DayLength, served, MaxReq, unlimited)
  <2>1. Sound(now, apiCounters, DayLength, served, MaxReq, unlimited)
    BY <1>4 DEF IInv
  <2> QED
    BY <1>1, <1>2, <2>1, SoundTick DEF Types
<1>5. ASSUME Limit # 0
      PROVE  Sound(now + 1, extCounters', Interval, calls, Limit, NoneFree)
  <2>1. Sound(now, extCounters, Interval, calls, Limit, NoneFree)
    BY <1>5 DEF IInv
  <2> QED
    BY <1>1, <1>2, <2>1, SoundTick DEF Types
<1> QED
  BY <1>2, <1>3, <1>4, <1>5 DEF IInv

\* No step breaks the invariant.
LEMMA StepIInv == IInv /\ [Next]_vars => IInv'
<1> SUFFICES ASSUME IInv, [Next]_vars PROVE IInv'
  OBVIOUS
<1> DEFINE others == UNCHANGED <<now, apiCounters, extCounters, served, unlimited, calls>>
<1>1. CASE Tick
  BY <1>1, TickIInv
<1>2. ASSUME NEW r \in Requests, NEW q \in Queries, Check(r, q) \/ SkipCheck(r, q)
      PROVE  IInv'
  BY <1>2, CheckIInv, SkipCheckIInv
<1>3. ASSUME NEW r \in Requests, CountCall(r)
      PROVE  IInv'
  BY <1>3, CountCallIInv
<1>4. ASSUME others
      PROVE  IInv'
  BY <1>4 DEF IInv, Types
<1>5. ASSUME NEW r \in Requests, Search(r) \/ AskCache(r) \/ Call(r)
      PROVE  others
  BY <1>5 DEF Search, AskCache, Call, redisVars, historyVars
<1>6. ASSUME NEW r \in Requests, Store(r)
      PROVE  others
  BY <1>6 DEF Store
<1>7. CASE UNCHANGED vars
  BY <1>4, <1>7 DEF vars, redisVars, historyVars
<1> HIDE DEF others
<1> QED
  BY <1>1, <1>2, <1>3, <1>4, <1>5, <1>6, <1>7 DEF Next

\* What the counters say of their periods (FallbackPositionSource and
\* BaseAPIView.check over rate_limit_exceeded) always holds.
THEOREM LimitsSound == Spec => []IInv
<1> QED
  BY InitIInv, StepIInv, PTL DEF Spec

\* In no interval are more external calls let out than the limit of the
\* fallback source (api/locate/fallback.py:338), however many requests run.
THEOREM ExternalCallsLimited == Spec => []CallsWithinLimit
<1>1. IInv => CallsWithinLimit
  <2> SUFFICES ASSUME IInv, Limit # 0, NEW p \in Times PROVE calls[p] <= Limit
    BY DEF CallsWithinLimit
  <2>1. calls[p] <= Limit + NoneFree[p] /\ NoneFree[p] = 0
    BY DEF IInv, Sound, Within, NoneFree
  <2> QED
    BY <2>1, LimitsAssumption DEF IInv, Types, Tallies
<1> QED
  BY <1>1, LimitsSound, PTL

\* A key is served as often as its daily limit (api/views.py:90), and more
\* often only by requests that could not be counted.
THEOREM RequestsLimited == Spec => []ServedWithinMaxreq
<1>1. IInv => ServedWithinMaxreq
  BY DEF IInv, Sound, Within, ServedWithinMaxreq
<1> QED
  BY <1>1, LimitsSound, PTL

-----------------------------------------------------------------------------
(* The cache.                                                              *)

States == {"new", "refused", "searching", "asking", "missed", "hit",
           "calling", "storing", "answered"}

CacheTypes ==
    /\ now \in Times
    /\ cache \in [Networks -> {NoEntry} \cup [answer : Answers, until : Nat]]
    /\ given \in [Networks -> [Answers -> Times \cup {Never}]]
    /\ query \in [Requests -> Queries \cup {{}}]
    /\ pc \in [Requests -> States]
    /\ result = [r \in Requests |-> result[r]]
    /\ \A r \in Requests : pc[r] = "storing" => result[r] \in Answers

\* What is cached for a network is what was given for it last, for as long as
\* it has not expired; what is not cached has expired or was never given.
Fresh(n) ==
    /\ \A a \in Answers : given[n][a] <= now
    /\ cache[n] = NoEntry =>
          \A a \in Answers : given[n][a] # Never => given[n][a] + CacheExpire <= now
    /\ cache[n] # NoEntry =>
          /\ now < cache[n].until
          /\ given[n][cache[n].answer] # Never
          /\ cache[n].until = given[n][cache[n].answer] + CacheExpire
          /\ \A a \in Answers : given[n][a] <= given[n][cache[n].answer]

CacheInv == CacheTypes /\ \A n \in Networks : Fresh(n)

\* A query is a finite set of networks.
LEMMA QueryFacts ==
    ASSUME NEW q \in Queries \cup {{}}
    PROVE  q \subseteq Networks /\ IsFiniteSet(q)
<1>1. q \subseteq Networks
  BY NetworksAssumption
<1>2. IsFiniteSet(Networks)
  BY NetworksAssumption, FS_Union DEF Networks
<1> QED
  BY <1>1, <1>2, FS_Subset

\* An entry has an answer and an expiry.
LEMMA EntryFacts ==
    ASSUME CacheTypes, NEW n \in Networks
    PROVE  cache[n] # NoEntry => cache[n].answer \in Answers /\ cache[n].until \in Nat
<1>1. cache[n] \in {NoEntry} \cup [answer : Answers, until : Nat]
  BY DEF CacheTypes
<1> QED
  BY <1>1

\* Answers were given at some tick, or never.
LEMMA GivenFacts ==
    ASSUME CacheTypes, NEW n \in Networks, NEW a \in Answers
    PROVE  given[n][a] \in Int
<1>1. given[n] \in [Answers -> Times \cup {Never}]
  BY DEF CacheTypes
<1>2. given[n][a] \in Times \cup {Never}
  BY <1>1
<1> QED
  BY <1>2, LimitsAssumption DEF Times, Never

\* What is current of a network is in the cache.
LEMMA CurrentFacts ==
    ASSUME CacheInv, NEW n \in Networks
    PROVE  /\ cache[n] = NoEntry => Current(n) = {}
           /\ cache[n] # NoEntry => cache[n].answer \in Current(n)
<1> DEFINE V == {given[n][a] : a \in Answers}
           last == Max(V)
<1>1. /\ now \in Times /\ Times \subseteq Nat /\ MaxTime \in Nat /\ Never \in Int
      /\ CacheExpire \in Nat \ {0} /\ NotFound \in Answers
  BY LimitsAssumption DEF CacheInv, CacheTypes, Times, Never, Answers
<1>2. \A a \in Answers : given[n][a] \in Times \cup {Never}
  BY DEF CacheInv, CacheTypes
<1>3. V \in SUBSET (-1)..MaxTime /\ V # {}
  BY <1>1, <1>2 DEF Times, Never
<1>4. IsFiniteSet((-1)..MaxTime) /\ V \in SUBSET Int
  BY <1>1, <1>3, FS_Interval
<1> HIDE DEF V
<1>5. IsFiniteSet(V)
  BY <1>3, <1>4, FS_Subset
<1>6. last \in V /\ \A y \in V : last >= y
  BY <1>3, <1>4, <1>5, MaxMin
<1> HIDE DEF last
<1> USE DEF V
<1>7. \E a \in Answers : last = given[n][a]
  BY <1>6
<1>8. \A a \in Answers : last >= given[n][a]
  BY <1>6
<1>9. Current(n) = {a \in Answers : given[n][a] = last /\ last # Never /\ now < last + CacheExpire}
  BY DEF Current, last
<1>10. Fresh(n)
  BY DEF CacheInv
<1> HIDE DEF V
<1>11. ASSUME cache[n] = NoEntry
       PROVE  Current(n) = {}
  <2>1. last # Never => last + CacheExpire <= now
    BY <1>7, <1>10, <1>11 DEF Fresh
  <2>2. last \in Int
    BY <1>3, <1>6
  <2> QED
    BY <1>1, <1>9, <2>1, <2>2
<1>12. ASSUME cache[n] # NoEntry
       PROVE  cache[n].answer \in Current(n)
  <2> DEFINE a == cache[n].answer
  <2>1. a \in Answers /\ cache[n].until \in Nat
    BY <1>12, EntryFacts DEF CacheInv
  <2>2. /\ now < cache[n].until /\ given[n][a] # Never
        /\ cache[n].until = given[n][a] + CacheExpire
        /\ \A b \in Answers : given[n][b] <= given[n][a]
    BY <1>10, <1>12 DEF Fresh
  <2> HIDE DEF a
  <2>3. given[n][a] \in Int /\ last \in Int
    BY <1>4, <1>6, <2>1, GivenFacts DEF CacheInv
  <2>4. given[n][a] = last
    BY <1>7, <1>8, <2>1, <2>2, <2>3
  <2> QED
    BY <1>9, <2>1, <2>2, <2>4 DEF a
<1> QED
  BY <1>11, <1>12

\* Nothing is cached or given before the first request.
LEMMA InitCacheInv == Init => CacheInv
<1> SUFFICES ASSUME Init PROVE CacheInv
  OBVIOUS
<1>1. 0 \in Times /\ Never = -1
  BY LimitsAssumption DEF Times, Never
<1>2. CacheTypes
  <2>1. pc \in [Requests -> States] /\ \A r \in Requests : pc[r] = "new"
    BY DEF Init, States
  <2>2. /\ query \in [Requests -> Queries \cup {{}}]
        /\ result = [r \in Requests |-> result[r]]
        /\ given \in [Networks -> [Answers -> Times \cup {Never}]]
        /\ cache \in [Networks -> {NoEntry} \cup [answer : Answers, until : Nat]]
    BY DEF Init
  <2> QED
    BY <1>1, <2>1, <2>2 DEF Init, CacheTypes
<1>3. ASSUME NEW n \in Networks PROVE Fresh(n)
  <2>1. cache[n] = NoEntry /\ now = 0 /\ \A a \in Answers : given[n][a] = Never
    BY DEF Init
  <2> QED
    BY <1>1, <2>1 DEF Fresh
<1> QED
  BY <1>2, <1>3 DEF CacheInv

\* Time passes, and entries expire.
LEMMA TickCacheInv ==
    ASSUME CacheInv, Tick
    PROVE  CacheInv'
<1>1. /\ now \in Nat /\ now + 1 \in Times /\ now' = now + 1
      /\ Times \subseteq Nat
      /\ CacheExpire \in Nat \ {0} /\ Never = -1
      /\ UNCHANGED <<pc, query, result, given>>
  BY LimitsAssumption
  DEF CacheInv, CacheTypes, Tick, Times, Never, requestVars, historyVars
<1>2. \A n \in Networks :
         cache'[n] = IF cache[n].until <= now + 1 THEN NoEntry ELSE cache[n]
  BY DEF Tick
<1>3. cache' \in [Networks -> {NoEntry} \cup [answer : Answers, until : Nat]]
  <2>1. \A n \in Networks : cache[n] \in {NoEntry} \cup [answer : Answers, until : Nat]
    BY DEF CacheInv, CacheTypes
  <2> QED
    BY <2>1 DEF Tick
<1>4. CacheTypes'
  BY <1>1, <1>3 DEF CacheInv, CacheTypes
<1>5. ASSUME NEW n \in Networks PROVE Fresh(n)'
  <2>1. Fresh(n) /\ (cache[n] # NoEntry => cache[n].until \in Nat /\ cache[n].answer \in Answers)
    BY EntryFacts DEF CacheInv
  <2>2. \A a \in Answers : given[n][a] \in Int
    BY GivenFacts DEF CacheInv
  <2>3. CASE cache[n] = NoEntry
    <3>1. cache'[n] = NoEntry
      BY <1>2, <2>3
    <3> QED
      BY <1>1, <2>1, <2>2, <2>3, <3>1 DEF Fresh
  <2>4. CASE cache[n] # NoEntry /\ cache[n].until <= now + 1
    <3>1. cache'[n] = NoEntry
      BY <1>2, <2>4
    <3>2. \A a \in Answers : given[n][a] + CacheExpire <= cache[n].until
      BY <1>1, <2>1, <2>2, <2>4 DEF Fresh
    <3> QED
      BY <1>1, <2>1, <2>2, <2>4, <3>1, <3>2 DEF Fresh
  <2>5. CASE cache[n] # NoEntry /\ ~ (cache[n].until <= now + 1)
    <3>1. cache'[n] = cache[n]
      BY <1>2, <2>5
    <3> QED
      BY <1>1, <2>1, <2>2, <2>5, <3>1 DEF Fresh
  <2> QED
    BY <2>3, <2>4, <2>5
<1> QED
  BY <1>4, <1>5 DEF CacheInv

\* An answer replaces what was cached, and is the last that was given.
LEMMA StoreCacheInv ==
    ASSUME CacheInv, NEW r \in Requests, Store(r)
    PROVE  CacheInv'
<1> DEFINE a == result[r]
           q == query[r]
<1>1. /\ now \in Times /\ now \in Nat /\ now' = now
      /\ Times \subseteq Nat
      /\ CacheExpire \in Nat \ {0} /\ Never = -1
      /\ UNCHANGED <<query, result>>
      /\ pc[r] = "storing" /\ pc' = [pc EXCEPT ![r] = "answered"]
  BY LimitsAssumption DEF CacheInv, CacheTypes, Store, Times, Never
<1>2. a \in Answers /\ a # Nothing
  BY <1>1, NetworksAssumption DEF CacheInv, CacheTypes, Answers
<1>3. /\ pc' \in [Requests -> States]
      /\ \A s \in Requests : pc'[s] = "storing" => pc[s] = "storing"
  BY <1>1 DEF CacheInv, CacheTypes, States
<1>4. CASE UNCHANGED <<cache, given>>
  BY <1>1, <1>3, <1>4 DEF CacheInv, CacheTypes, Fresh
<1>5. CASE /\ cache' = Stored(r)
           /\ given' = [n \in Networks |->
                          IF n \in q THEN [given[n] EXCEPT ![a] = now] ELSE given[n]]
  <2> DEFINE e == [answer |-> a, until |-> now + CacheExpire]
  <2>1. /\ cache' = [n \in Networks |-> IF n \in q THEN e ELSE cache[n]]
        /\ e \in [answer : Answers, until : Nat]
        /\ e # NoEntry /\ e.answer = a /\ e.until = now + CacheExpire
    <3>1. cache' = [n \in Networks |-> IF n \in q THEN e ELSE cache[n]]
      BY <1>5 DEF Stored
    <3>2. now + CacheExpire \in Nat
      BY <1>1
    <3>3. e.answer = a /\ e.until = now + CacheExpire
      OBVIOUS
    <3>4. e # NoEntry
      <4>1. NoEntry.answer = Nothing
        BY DEF NoEntry
      <4> HIDE DEF e
      <4> QED
        BY <1>2, <3>3, <4>1
    <3> HIDE DEF q
    <3> QED
      BY <1>2, <3>1, <3>2, <3>3, <3>4
  <2>2. /\ cache \in [Networks -> {NoEntry} \cup [answer : Answers, until : Nat]]
        /\ given \in [Networks -> [Answers -> Times \cup {Never}]]
    BY DEF CacheInv, CacheTypes
  <2> HIDE DEF e, a, q
  <2>3. cache' \in [Networks -> {NoEntry} \cup [answer : Answers, until : Nat]]
    BY <2>1, <2>2
  <2>4. given' \in [Networks -> [Answers -> Times \cup {Never}]]
    BY <1>1, <1>2, <1>5, <2>2
  <2>5. CacheTypes'
    BY <1>1, <1>3, <2>3, <2>4 DEF CacheInv, CacheTypes
  <2>6. ASSUME NEW n \in Networks PROVE Fresh(n)'
    <3>1. Fresh(n) /\ \A b \in Answers : given[n][b] \in Int
      <4>1. \A b \in Answers : given[n][b] \in Int
        BY GivenFacts DEF CacheInv
      <4>2. Fresh(n)
        BY DEF CacheInv
      <4> QED
        BY <4>1, <4>2
    <3>2. CASE n \in q
      <4>1. cache'[n] = e
        BY <2>1, <3>2
      <4>2. given'[n] = [given[n] EXCEPT ![a] = now]
        BY <1>5, <3>2
      <4>3. given[n] \in [Answers -> Times \cup {Never}]
        BY <2>2
      <4>4. \A b \in Answers : given'[n][b] = IF b = a THEN now ELSE given[n][b]
        BY <1>2, <4>2, <4>3
      <4>5. given'[n][a] = now /\ \A b \in Answers : given'[n][b] <= now
        BY <1>1, <1>2, <3>1, <4>4 DEF Fresh
      <4> QED
        BY <1>1, <2>1, <4>1, <4>5 DEF Fresh
    <3>3. CASE n \notin q
      <4>1. cache'[n] = cache[n] /\ given'[n] = given[n]
        BY <1>5, <2>1, <3>3
      <4> QED
        BY <1>1, <3>1, <4>1 DEF Fresh
    <3> QED
      BY <3>2, <3>3
  <2> QED
    BY <2>5, <2>6 DEF CacheInv
<1> QED
  BY <1>4, <1>5 DEF Store

\* Every other step leaves the cache alone, and a request has an answer before
\* it stores one.
LEMMA OtherCacheInv ==
    ASSUME CacheInv, NEW r \in Requests,
           \/ \E q \in Queries : Check(r, q) \/ SkipCheck(r, q)
           \/ Search(r) \/ AskCache(r) \/ CountCall(r) \/ Call(r)
    PROVE  CacheInv'
<1>1. UNCHANGED <<now, cache, given>>
  <2>1. ASSUME NEW q \in Queries, Check(r, q) \/ SkipCheck(r, q)
        PROVE  UNCHANGED <<now, cache, given>>
    BY <2>1 DEF Check, SkipCheck, redisVars
  <2>2. ASSUME Search(r) \/ AskCache(r) \/ Call(r)
        PROVE  UNCHANGED <<now, cache, given>>
    BY <2>2 DEF Search, AskCache, Call, redisVars, historyVars
  <2>3. ASSUME CountCall(r)
        PROVE  UNCHANGED <<now, cache, given>>
    BY <2>3 DEF CountCall
  <2> QED
    BY <2>1, <2>2, <2>3
<1>2. /\ query' \in [Requests -> Queries \cup {{}}]
      /\ pc' \in [Requests -> States]
      /\ result' = [s \in Requests |-> result'[s]]
      /\ \A s \in Requests : pc'[s] = "storing" => result'[s] \in Answers
  <2> DEFINE Goal == /\ query' \in [Requests -> Queries \cup {{}}]
              /\ pc' \in [Requests -> States]
              /\ result' = [s \in Requests |-> result'[s]]
              /\ \A s \in Requests : pc'[s] = "storing" => result'[s] \in Answers
  <2> USE DEF CacheInv, CacheTypes, States
  <2>1. ASSUME NEW q \in Queries, Check(r, q) \/ SkipCheck(r, q)
        PROVE  Goal
    <3>1. /\ \E v \in {"refused", "searching", "answered"} : pc' = [pc EXCEPT ![r] = v]
          /\ query' = [query EXCEPT ![r] = q] /\ result' = result
      BY <2>1 DEF Check, SkipCheck
    <3> QED
      BY <3>1
  <2>2. ASSUME Search(r) \/ CountCall(r)
        PROVE  Goal
    <3>1. /\ \E v \in {"asking", "answered", "calling"} : pc' = [pc EXCEPT ![r] = v]
          /\ query' = query /\ result' = result
      BY <2>2 DEF Search, CountCall
    <3> QED
      BY <3>1
  <2>3. ASSUME AskCache(r)
        PROVE  Goal
    <3>1. /\ \E v \in {"missed", "hit"} : pc' = [pc EXCEPT ![r] = v]
          /\ \E found : result' = [result EXCEPT ![r] = found]
          /\ query' = query
      BY <2>3 DEF AskCache
    <3> QED
      BY <3>1
  <2>4. ASSUME Call(r)
        PROVE  Goal
    <3> PICK answer \in Answers \cup {Nothing} :
            /\ result' = [result EXCEPT ![r] = answer]
            /\ pc' = [pc EXCEPT ![r] = IF answer = Nothing THEN "answered" ELSE "storing"]
            /\ query' = query
      BY <2>4 DEF Call
    <3>1. \A s \in Requests : result'[s] = IF s = r THEN answer ELSE result[s]
      OBVIOUS
    <3>2. \A s \in Requests : pc'[s] = IF s # r THEN pc[s]
                                       ELSE IF answer = Nothing THEN "answered" ELSE "storing"
      OBVIOUS
    <3>3. \A s \in Requests : pc'[s] = "storing" => result'[s] \in Answers
      BY <3>1, <3>2
    <3> QED
      BY <3>3
  <2> HIDE DEF Goal, CacheInv, CacheTypes, States
  <2>5. Goal
    BY <2>1, <2>2, <2>3, <2>4
  <2> QED
    BY <2>5 DEF Goal
<1> QED
  BY <1>1, <1>2 DEF CacheInv, CacheTypes, Fresh

\* A mean position lies between the positions it is the mean of.
LEMMA MeanFacts ==
    ASSUME NEW N, IsFiniteSet(N), N # {},
           \A n \in N : cache[n].answer \in [lat : Nat, lon : Nat],
           NEW lo \in Nat, NEW hi \in Nat
    PROVE  /\ (\A n \in N : lo <= cache[n].answer.lat /\ cache[n].answer.lat <= hi)
              => Mean(N).lat \in Nat /\ lo <= Mean(N).lat /\ Mean(N).lat <= hi
           /\ (\A n \in N : lo <= cache[n].answer.lon /\ cache[n].answer.lon <= hi)
              => Mean(N).lon \in Nat /\ lo <= Mean(N).lon /\ Mean(N).lon <= hi
<1>1. ASSUME \A n \in N : lo <= cache[n].answer.lat /\ cache[n].answer.lat <= hi
      PROVE  Mean(N).lat \in Nat /\ lo <= Mean(N).lat /\ Mean(N).lat <= hi
  <2> DEFINE F == [n \in N |-> cache[n].answer.lat]
             P(g) == g = [s \in SUBSET N |->
                             IF s = {} THEN 0
                             ELSE cache[CHOOSE x \in s : TRUE].answer.lat
                                  + g[s \ {CHOOSE x \in s : TRUE}]]
             h == CHOOSE g : P(g)
  <2>1. \A g : P(g) <=> IsSum(g, F, N)
    <3> SUFFICES ASSUME NEW g
                 PROVE  P(g) <=> IsSum(g, F, N)
      OBVIOUS
    <3>1. \A s \in SUBSET N : s # {} => F[CHOOSE x \in s : TRUE]
                                        = cache[CHOOSE x \in s : TRUE].answer.lat
      OBVIOUS
    <3> HIDE DEF F
    <3>2. [s \in SUBSET N |->
              IF s = {} THEN 0
              ELSE cache[CHOOSE x \in s : TRUE].answer.lat + g[s \ {CHOOSE x \in s : TRUE}]]
          = [s \in SUBSET N |->
              IF s = {} THEN 0
              ELSE F[CHOOSE x \in s : TRUE] + g[s \ {CHOOSE x \in s : TRUE}]]
      BY <3>1
    <3> QED
      BY <3>2 DEF IsSum
  <2>2. Mean(N).lat = (CHOOSE g : P(g))[N] \div Cardinality(N)
    BY DEF Mean, MapThenSumSet, MapThenFoldSet
  <2>3. \A n \in N : F[n] \in Nat /\ lo <= F[n] /\ F[n] <= hi
    BY <1>1
  <2> HIDE DEF F, P
  <2>4. P(h)
    <3>1. \A n \in N : F[n] \in Int
      BY <2>3
    <3>2. \E g : P(g)
      BY <2>1, <3>1, SumExists
    <3> QED
      BY <3>2
  <2> HIDE DEF h
  <2>5. IsSum(h, F, N)
    BY <2>1, <2>4
  <2>6. h[N] \div Cardinality(N) \in Nat /\ lo <= h[N] \div Cardinality(N)
        /\ h[N] \div Cardinality(N) <= hi
    BY <2>3, <2>5, MeanBounds
  <2> QED
    BY <2>2, <2>6 DEF h
<1>2. ASSUME \A n \in N : lo <= cache[n].answer.lon /\ cache[n].answer.lon <= hi
      PROVE  Mean(N).lon \in Nat /\ lo <= Mean(N).lon /\ Mean(N).lon <= hi
  <2> DEFINE F == [n \in N |-> cache[n].answer.lon]
             P(g) == g = [s \in SUBSET N |->
                             IF s = {} THEN 0
                             ELSE cache[CHOOSE x \in s : TRUE].answer.lon
                                  + g[s \ {CHOOSE x \in s : TRUE}]]
             h == CHOOSE g : P(g)
  <2>1. \A g : P(g) <=> IsSum(g, F, N)
    <3> SUFFICES ASSUME NEW g
                 PROVE  P(g) <=> IsSum(g, F, N)
      OBVIOUS
    <3>1. \A s \in SUBSET N : s # {} => F[CHOOSE x \in s : TRUE]
                                        = cache[CHOOSE x \in s : TRUE].answer.lon
      OBVIOUS
    <3> HIDE DEF F
    <3>2. [s \in SUBSET N |->
              IF s = {} THEN 0
              ELSE cache[CHOOSE x \in s : TRUE].answer.lon + g[s \ {CHOOSE x \in s : TRUE}]]
          = [s \in SUBSET N |->
              IF s = {} THEN 0
              ELSE F[CHOOSE x \in s : TRUE] + g[s \ {CHOOSE x \in s : TRUE}]]
      BY <3>1
    <3> QED
      BY <3>2 DEF IsSum
  <2>2. Mean(N).lon = (CHOOSE g : P(g))[N] \div Cardinality(N)
    BY DEF Mean, MapThenSumSet, MapThenFoldSet
  <2>3. \A n \in N : F[n] \in Nat /\ lo <= F[n] /\ F[n] <= hi
    BY <1>2
  <2> HIDE DEF F, P
  <2>4. P(h)
    <3>1. \A n \in N : F[n] \in Int
      BY <2>3
    <3>2. \E g : P(g)
      BY <2>1, <3>1, SumExists
    <3> QED
      BY <3>2
  <2> HIDE DEF h
  <2>5. IsSum(h, F, N)
    BY <2>1, <2>4
  <2>6. h[N] \div Cardinality(N) \in Nat /\ lo <= h[N] \div Cardinality(N)
        /\ h[N] \div Cardinality(N) <= hi
    BY <2>3, <2>5, MeanBounds
  <2> QED
    BY <2>2, <2>6 DEF h
<1> QED
  BY <1>1, <1>2

\* No step breaks what the cache says.
LEMMA StepCacheInv == CacheInv /\ [Next]_vars => CacheInv'
<1> SUFFICES ASSUME CacheInv, [Next]_vars PROVE CacheInv'
  OBVIOUS
<1>1. CASE Tick
  BY <1>1, TickCacheInv
<1>2. ASSUME NEW r \in Requests, Store(r)
      PROVE  CacheInv'
  BY <1>2, StoreCacheInv
<1>3. ASSUME NEW r \in Requests,
             \/ \E q \in Queries : Check(r, q) \/ SkipCheck(r, q)
             \/ Search(r) \/ AskCache(r) \/ CountCall(r) \/ Call(r)
      PROVE  CacheInv'
  BY <1>3, OtherCacheInv
<1>4. CASE UNCHANGED vars
  BY <1>4 DEF vars, redisVars, requestVars, historyVars, CacheInv, CacheTypes, Fresh
<1> QED
  BY <1>1, <1>2, <1>3, <1>4 DEF Next

\* What the cache says of a query: that none of its networks has a position,
\* or a mean of positions of one latitude.
LEMMA CachedFacts ==
    ASSUME CacheTypes, NEW q \in Queries \cup {{}}, Cached(q) # Nothing
    PROVE  LET N == {n \in q : cache[n] # NoEntry}
           IN  /\ N # {}
               /\ \/ Cached(q) = NotFound /\ \A n \in N : cache[n].answer = NotFound
                  \/ /\ Cached(q) = Mean(N)
                     /\ \A n \in N : cache[n].answer \in Places
                     /\ \A n \in N, m \in N : cache[n].answer.lat = cache[m].answer.lat
<1> DEFINE N == {n \in q : cache[n] # NoEntry}
           found == {n \in N : cache[n].answer # NotFound}
           clusters == {Cluster(cache[n].answer) : n \in N}
<1>1. \A n \in N : cache[n].answer \in Answers
  BY QueryFacts, EntryFacts
<1>2. Cached(q) = IF ~ShouldCache(q) \/ N = {} THEN Nothing
                  ELSE CASE found = {} -> NotFound
                         [] found = N /\ Cardinality(clusters) = 1 -> Mean(N)
                         [] OTHER -> Nothing
  BY DEF Cached
<1> HIDE DEF N, found, clusters
<1>3. ShouldCache(q) /\ N # {}
  BY <1>2
<1>4. CASE found = {}
  <2>1. Cached(q) = NotFound
    BY <1>2, <1>3, <1>4
  <2>2. \A n \in N : cache[n].answer = NotFound
    BY <1>4 DEF found
  <2> QED
    BY <1>3, <2>1, <2>2 DEF N
<1>5. CASE found # {}
  <2>1. found = N /\ Cardinality(clusters) = 1 /\ Cached(q) = Mean(N)
    BY <1>2, <1>3, <1>5
  <2>2. \A n \in N : cache[n].answer \in Places
    BY <1>1, <2>1 DEF found, Answers
  <2>3. \A n \in N, m \in N : cache[n].answer.lat = cache[m].answer.lat
    <3>1. IsFiniteSet(clusters)
      <4> DEFINE f == [n \in N |-> Cluster(cache[n].answer)]
      <4>1. IsFiniteSet(N)
        <5>1. N \in SUBSET q
          BY DEF N
        <5> QED
          BY <5>1, QueryFacts, FS_Subset
      <4>2. clusters = {f[n] : n \in N} /\ DOMAIN f = N
        BY DEF clusters
      <4> HIDE DEF f
      <4> QED
        BY <4>1, <4>2, FiniteImage
    <3>2. PICK c : clusters = {c}
      BY <2>1, <3>1, FS_Singleton
    <3>3. \A n \in N : Cluster(cache[n].answer) = c
      BY <3>2 DEF clusters
    <3>4. \A n \in N : cache[n].answer.lat = c[1]
      BY <3>3 DEF Cluster
    <3> QED
      BY <3>4
  <2> QED
    BY <1>3, <2>1, <2>2, <2>3 DEF N
<1> QED
  BY <1>4, <1>5

\* So it agrees with what is current of each network.
LEMMA CachedIsCurrent ==
    ASSUME CacheInv, NEW q \in Queries \cup {{}}, Cached(q) # Nothing
    PROVE  /\ \E n \in q : Current(n) # {}
           /\ \A n \in q : Current(n) # {} =>
                 \E a \in Current(n) : Agrees(Cached(q), a)
<1> DEFINE N == {n \in q : cache[n] # NoEntry}
<1>1. CacheTypes /\ q \subseteq Networks
  BY QueryFacts DEF CacheInv
<1>2. /\ N # {}
      /\ \/ Cached(q) = NotFound /\ \A n \in N : cache[n].answer = NotFound
         \/ /\ Cached(q) = Mean(N)
            /\ \A n \in N : cache[n].answer \in Places
            /\ \A n \in N, m \in N : cache[n].answer.lat = cache[m].answer.lat
  BY <1>1, CachedFacts
<1>3. \A n \in q : /\ n \notin N => Current(n) = {}
                   /\ n \in N => cache[n].answer \in Current(n)
  BY <1>1, CurrentFacts
<1>4. N \in SUBSET q /\ IsFiniteSet(N)
  <2>1. N \in SUBSET q /\ IsFiniteSet(q)
    BY QueryFacts
  <2> HIDE DEF N
  <2> QED
    BY <2>1, FS_Subset
<1> HIDE DEF N
<1>5. ASSUME NEW n \in N
      PROVE  Agrees(Cached(q), cache[n].answer)
  <2>1. CASE Cached(q) = NotFound /\ \A m \in N : cache[m].answer = NotFound
    BY <2>1 DEF Agrees
  <2>2. CASE /\ Cached(q) = Mean(N)
             /\ \A m \in N : cache[m].answer \in Places
             /\ \A m \in N, k \in N : cache[m].answer.lat = cache[k].answer.lat
    <3> DEFINE lat == cache[n].answer.lat
    <3>1. \A m \in N : cache[m].answer \in [lat : Nat, lon : Nat]
      BY <2>2, NetworksAssumption
    <3>2. lat \in Nat /\ \A m \in N : lat <= cache[m].answer.lat /\ cache[m].answer.lat <= lat
      <4>1. \A m \in N : cache[m].answer.lat \in Nat /\ cache[m].answer.lat = lat
        BY <2>2, <3>1
      <4> QED
        BY <4>1
    <3> HIDE DEF lat
    <3>3. Mean(N).lat \in Nat /\ lat <= Mean(N).lat /\ Mean(N).lat <= lat
      BY <1>4, <3>1, <3>2, MeanFacts
    <3>4. Mean(N).lat = lat
      BY <3>2, <3>3
    <3>5. Mean(N) \in [lat : Nat, lon : Nat]
      <4>1. PICK hi \in Nat : \A m \in N : cache[m].answer.lon <= hi
        <5> DEFINE f == [m \in N |-> cache[m].answer.lon]
                   V == {f[m] : m \in N}
        <5>1. IsFiniteSet(V)
          <6> HIDE DEF f
          <6>1. DOMAIN f = N
            BY DEF f
          <6> QED
            BY <1>4, <6>1, FiniteImage
        <5>2. V \in SUBSET Nat /\ V # {}
          BY <3>1
        <5> HIDE DEF V
        <5>3. Max(V) \in V /\ \A y \in V : Max(V) >= y
          BY <5>1, <5>2, MaxMin
        <5>4. \A m \in N : cache[m].answer.lon \in V
          BY DEF V
        <5> QED
          BY <5>2, <5>3, <5>4
      <4>2. \A m \in N : 0 <= cache[m].answer.lon /\ cache[m].answer.lon <= hi
        <5>1. \A m \in N : cache[m].answer.lon \in Nat
          BY <3>1
        <5> QED
          BY <4>1, <5>1
      <4>3. Mean(N).lon \in Nat
        BY <1>4, <3>1, <4>2, MeanFacts
      <4>4. Mean(N) = [lat |-> Mean(N).lat, lon |-> Mean(N).lon]
        BY DEF Mean
      <4> QED
        BY <3>3, <4>3, <4>4
    <3>6. NotFound \notin {Mean(N), cache[n].answer}
      BY <3>1, <3>5, NetworksAssumption
    <3> QED
      BY <2>2, <3>4, <3>6 DEF Agrees, lat
  <2> QED
    BY <1>2, <2>1, <2>2
<1> QED
  BY <1>2, <1>3, <1>4, <1>5

\* What the cache of FallbackCache (api/locate/fallback.py) holds of a network
\* is what was stored for it last, until that expires.
THEOREM CacheHoldsTheLast == Spec => []CacheInv
<1> QED
  BY InitCacheInv, StepCacheInv, PTL DEF Spec

\* A hit (FallbackCache.get) agrees with the last answer for each network of
\* the query, and nothing that has expired takes part in it.
THEOREM HitsFollowTheLast == Spec => HitsAreCurrent
<1> DEFINE Good == \A r \in Requests : pc[r] = "asking" /\ pc'[r] = "hit" =>
                      /\ \E n \in query[r] : Current(n) # {}
                      /\ \A n \in query[r] :
                            Current(n) # {} => \E a \in Current(n) : Agrees(result'[r], a)
<1>1. CacheInv /\ [Next]_vars => [Good]_vars
  <2> SUFFICES ASSUME CacheInv, Next, NEW r \in Requests, pc[r] = "asking", pc'[r] = "hit"
               PROVE  /\ \E n \in query[r] : Current(n) # {}
                      /\ \A n \in query[r] :
                            Current(n) # {} => \E a \in Current(n) : Agrees(result'[r], a)
    BY DEF Good
  <2>1. /\ pc \in [Requests -> States] /\ query[r] \in Queries \cup {{}}
        /\ DOMAIN result = Requests
    BY DEF CacheInv, CacheTypes
  <2>2. AskCache(r)
    <3>1. ASSUME NEW s \in Requests, NEW v, pc' = [pc EXCEPT ![s] = v], v # "hit"
          PROVE  FALSE
      BY <2>1, <3>1
    <3>2. ~Tick
      BY DEF Tick, requestVars
    <3>3. ASSUME NEW s \in Requests, NEW q \in Queries
          PROVE  ~Check(s, q) /\ ~SkipCheck(s, q)
      <4>1. Check(s, q) => \E v : pc' = [pc EXCEPT ![s] = v] /\ v # "hit"
        BY DEF Check
      <4>2. SkipCheck(s, q) => \E v : pc' = [pc EXCEPT ![s] = v] /\ v # "hit"
        BY DEF SkipCheck
      <4> QED
        BY <3>1, <4>1, <4>2
    <3>4. ASSUME NEW s \in Requests
          PROVE  ~Search(s) /\ ~CountCall(s) /\ ~Call(s) /\ ~Store(s)
      <4>1. Search(s) => \E v : pc' = [pc EXCEPT ![s] = v] /\ v # "hit"
        BY DEF Search
      <4>2. CountCall(s) => \E v : pc' = [pc EXCEPT ![s] = v] /\ v # "hit"
        BY DEF CountCall
      <4>3. Call(s) => \E v : pc' = [pc EXCEPT ![s] = v] /\ v # "hit"
        BY DEF Call
      <4>4. Store(s) => \E v : pc' = [pc EXCEPT ![s] = v] /\ v # "hit"
        BY DEF Store
      <4> QED
        BY <3>1, <4>1, <4>2, <4>3, <4>4
    <3>5. ASSUME NEW s \in Requests, AskCache(s)
          PROVE  s = r
      <4>1. \E v : pc' = [pc EXCEPT ![s] = v]
        BY <3>5 DEF AskCache
      <4> QED
        BY <2>1, <4>1
    <3> QED
      BY <3>2, <3>3, <3>4, <3>5 DEF Next
  <2> PICK found \in {Cached(query[r]), Nothing} :
          /\ result' = [result EXCEPT ![r] = found]
          /\ pc' = [pc EXCEPT ![r] = IF found = Nothing THEN "missed" ELSE "hit"]
    BY <2>2 DEF AskCache
  <2>3. found # Nothing /\ found = Cached(query[r]) /\ result'[r] = found
    BY <2>1
  <2> QED
    BY <2>1, <2>3, CachedIsCurrent
<1> QED
  BY <1>1, CacheHoldsTheLast, PTL DEF Spec, HitsAreCurrent

-----------------------------------------------------------------------------
(* Bounds.                                                                 *)

\* A request increases a counter once, and is then past the step that does.
Started == {r \in Requests : pc[r] # "new"}
Asked == {r \in Requests : pc[r] \in {"calling", "storing", "answered"}}

CountInv ==
    /\ \A p \in Times : apiCounters[p].count <= Cardinality(Started)
    /\ \A p \in Times : extCounters[p].count <= Cardinality(Asked)

Results == Positions \cup {NotFound, Nothing}

Bounds == CountInv /\ result \in [Requests -> Results]

\* Sets of requests are finite, and larger ones have more members.
LEMMA RequestSets ==
    ASSUME NEW S \in SUBSET Requests, NEW T \in SUBSET Requests, S \subseteq T
    PROVE  /\ Cardinality(S) \in Nat /\ Cardinality(T) \in Nat /\ Cardinality(Requests) \in Nat
           /\ Cardinality(S) <= Cardinality(T) /\ Cardinality(T) <= Cardinality(Requests)
           /\ \A r \in T \ S : Cardinality(S) + 1 <= Cardinality(T)
<1>1. IsFiniteSet(Requests)
  BY FiniteAssumption
<1>2. IsFiniteSet(S) /\ IsFiniteSet(T)
  BY <1>1, FS_Subset
<1>3. /\ Cardinality(S) \in Nat /\ Cardinality(T) \in Nat /\ Cardinality(Requests) \in Nat
      /\ Cardinality(S) <= Cardinality(T) /\ Cardinality(T) <= Cardinality(Requests)
  BY <1>1, <1>2, FS_Subset, FS_CardinalityType
<1>4. ASSUME NEW r \in T \ S
      PROVE  Cardinality(S) + 1 <= Cardinality(T)
  <2> DEFINE R == T \ {r}
  <2>1. Cardinality(R) = Cardinality(T) - 1
    BY <1>2, FS_RemoveElement
  <2>2. S \subseteq R /\ IsFiniteSet(R)
    BY <1>2, FS_Subset
  <2> HIDE DEF R
  <2>3. Cardinality(S) <= Cardinality(R)
    BY <2>2, FS_Subset
  <2> QED
    BY <1>3, <2>1, <2>3
<1> QED
  BY <1>3, <1>4

\* Positions the service knows are within the bounds of TypeOK.
LEMMA PlacesInBounds ==
    ASSUME Places # {}
    PROVE  LET lat == Max({p.lat : p \in Places})
               lon == Max({p.lon : p \in Places})
           IN  /\ lat \in Nat /\ lon \in Nat
               /\ \A p \in Places : p.lat \in 0..lat /\ p.lon \in 0..lon
               /\ Positions = [lat : 0..lat, lon : 0..lon]
<1> DEFINE F == [p \in Places |-> p.lat]
           G == [p \in Places |-> p.lon]
           V == {p.lat : p \in Places}
           W == {p.lon : p \in Places}
<1>1. \A p \in Places : p.lat \in Nat /\ p.lon \in Nat
  BY NetworksAssumption
<1>2. V = {F[p] : p \in Places} /\ W = {G[p] : p \in Places}
      /\ DOMAIN F = Places /\ DOMAIN G = Places
  OBVIOUS
<1> HIDE DEF F, G
<1>3. IsFiniteSet({F[p] : p \in Places}) /\ IsFiniteSet({G[p] : p \in Places})
  BY <1>2, FiniteAssumption, FiniteImage
<1>4. /\ V \in SUBSET Nat /\ V # {} /\ W \in SUBSET Nat /\ W # {}
      /\ \A p \in Places : p.lat \in V /\ p.lon \in W
  BY <1>1
<1>5. Positions = [lat : 0..Max(V), lon : 0..Max(W)]
  BY DEF Positions
<1> HIDE DEF V, W
<1>6. IsFiniteSet(V) /\ IsFiniteSet(W)
  BY <1>2, <1>3
<1>7. /\ Max(V) \in Nat /\ \A y \in V : y <= Max(V)
      /\ Max(W) \in Nat /\ \A y \in W : y <= Max(W)
  <2>1. V \in SUBSET Int /\ W \in SUBSET Int
    BY <1>4
  <2>2. Max(V) \in V /\ \A y \in V : Max(V) >= y
    BY <1>4, <1>6, <2>1, MaxMin
  <2>3. Max(W) \in W /\ \A y \in W : Max(W) >= y
    BY <1>4, <1>6, <2>1, MaxMin
  <2> QED
    BY <1>4, <2>2, <2>3
<1>8. \A p \in Places : p.lat \in 0..Max(V) /\ p.lon \in 0..Max(W)
  BY <1>1, <1>4, <1>7
<1> QED
  BY <1>5, <1>7, <1>8 DEF V, W

\* Answers are results, and so is what the cache says.
LEMMA AnswersAreResults == Answers \subseteq Results
<1> SUFFICES ASSUME NEW p \in Places PROVE p \in Positions
  BY DEF Answers, Results
<1> DEFINE lat == Max({x.lat : x \in Places})
           lon == Max({x.lon : x \in Places})
<1>1. p.lat \in 0..lat /\ p.lon \in 0..lon /\ Positions = [lat : 0..lat, lon : 0..lon]
  BY PlacesInBounds
<1>2. p = [lat |-> p.lat, lon |-> p.lon]
  BY NetworksAssumption
<1> HIDE DEF lat, lon
<1> QED
  BY <1>1, <1>2

\* A mean of positions is within their bounds.
LEMMA CachedIsResult ==
    ASSUME CacheTypes, NEW q \in Queries \cup {{}}
    PROVE  Cached(q) \in Results
<1> DEFINE N == {n \in q : cache[n] # NoEntry}
<1>1. CASE Cached(q) \in {NotFound, Nothing}
  BY <1>1 DEF Results
<1>2. CASE Cached(q) \notin {NotFound, Nothing}
  <2>1. /\ N # {} /\ Cached(q) = Mean(N)
        /\ \A n \in N : cache[n].answer \in Places
    BY <1>2, CachedFacts
  <2>2. IsFiniteSet(N)
    <3>1. N \in SUBSET q /\ IsFiniteSet(q)
      BY QueryFacts
    <3> HIDE DEF N
    <3> QED
      BY <3>1, FS_Subset
  <2> HIDE DEF N
  <2> DEFINE lat == Max({x.lat : x \in Places})
             lon == Max({x.lon : x \in Places})
  <2>3. /\ lat \in Nat /\ lon \in Nat
        /\ \A p \in Places : p.lat \in 0..lat /\ p.lon \in 0..lon
        /\ Positions = [lat : 0..lat, lon : 0..lon]
    BY <2>1, PlacesInBounds
  <2> HIDE DEF lat, lon
  <2>4. \A n \in N : /\ cache[n].answer \in [lat : Nat, lon : Nat]
                     /\ 0 <= cache[n].answer.lat /\ cache[n].answer.lat <= lat
                     /\ 0 <= cache[n].answer.lon /\ cache[n].answer.lon <= lon
    <3> SUFFICES ASSUME NEW n \in N
                 PROVE  /\ cache[n].answer \in [lat : Nat, lon : Nat]
                        /\ cache[n].answer.lat \in 0..lat /\ cache[n].answer.lon \in 0..lon
      BY <2>3
    <3> QED
      BY <2>1, <2>3, NetworksAssumption
  <2>5. Mean(N).lat \in 0..lat
    <3>1. Mean(N).lat \in Nat /\ Mean(N).lat <= lat
      BY <2>1, <2>2, <2>3, <2>4, MeanFacts
    <3> QED
      BY <2>3, <3>1
  <2>6. Mean(N).lon \in 0..lon
    <3>1. Mean(N).lon \in Nat /\ Mean(N).lon <= lon
      BY <2>1, <2>2, <2>3, <2>4, MeanFacts
    <3> QED
      BY <2>3, <3>1
  <2>7. Mean(N) = [lat |-> Mean(N).lat, lon |-> Mean(N).lon]
    BY DEF Mean
  <2>8. Mean(N) \in Positions
    BY <2>3, <2>5, <2>6, <2>7
  <2> QED
    BY <2>1, <2>8 DEF Results
<1> QED
  BY <1>1, <1>2

\* A counter grows by one at most.
LEMMA ExceededAddsOne ==
    ASSUME Types, NEW t \in Times, NEW exceeded, NEW failed
    PROVE  /\ Api!Exceeded(t, exceeded, failed) =>
                 \A p \in Times : apiCounters'[p].count <= apiCounters[p].count + 1
           /\ Ext!Exceeded(t, exceeded, failed) =>
                 \A p \in Times : extCounters'[p].count <= extCounters[p].count + 1
<1>1. \A p \in Times : apiCounters[p].count \in Nat /\ extCounters[p].count \in Nat
  BY DEF Types, Entries
<1>2. ASSUME Api!Exceeded(t, exceeded, failed), NEW p \in Times
      PROVE  apiCounters'[p].count <= apiCounters[p].count + 1
  <2>1. CASE UNCHANGED apiCounters
    BY <1>1, <2>1
  <2>2. CASE Api!Increase(t)
    <3>1. apiCounters' = [apiCounters EXCEPT ![t] = [count |-> @.count + 1, until |-> now + DayLength]]
      BY <2>2 DEF Api!Increase
    <3>2. apiCounters'[p].count \in {apiCounters[p].count, apiCounters[p].count + 1}
      BY <3>1 DEF Types
    <3> QED
      BY <1>1, <3>2
  <2> QED
    BY <1>2, <2>1, <2>2 DEF Api!Exceeded
<1>3. ASSUME Ext!Exceeded(t, exceeded, failed), NEW p \in Times
      PROVE  extCounters'[p].count <= extCounters[p].count + 1
  <2>1. CASE UNCHANGED extCounters
    BY <1>1, <2>1
  <2>2. CASE Ext!Increase(t)
    <3>1. extCounters' = [extCounters EXCEPT ![t] = [count |-> @.count + 1, until |-> now + Expire]]
      BY <2>2 DEF Ext!Increase
    <3>2. extCounters'[p].count \in {extCounters[p].count, extCounters[p].count + 1}
      BY <3>1 DEF Types
    <3> QED
      BY <1>1, <3>2
  <2> QED
    BY <1>3, <2>1, <2>2 DEF Ext!Exceeded
<1> QED
  BY <1>2, <1>3

\* Before the first request everything is zero.
LEMMA InitBounds == Init => Bounds
<1> SUFFICES ASSUME Init PROVE Bounds
  OBVIOUS
<1>1. \A p \in Times : apiCounters[p].count = 0 /\ extCounters[p].count = 0
  BY DEF Init, Api!Init, Ext!Init, Api!NoCounter, Ext!NoCounter
<1>2. Cardinality(Started) \in Nat /\ Cardinality(Asked) \in Nat
  <2>1. Started \in SUBSET Requests /\ Asked \in SUBSET Requests
    BY DEF Started, Asked
  <2> QED
    BY <2>1, RequestSets
<1>3. result \in [Requests -> Results]
  BY DEF Init, Results
<1> QED
  BY <1>1, <1>2, <1>3 DEF Bounds, CountInv

\* The counters stay within what the requests have added, when no request takes
\* back a step and the one that adds goes forward.
LEMMA CountKept ==
    ASSUME CountInv, Types, Types', Started \subseteq Started', Asked \subseteq Asked',
           \/ \A p \in Times : apiCounters'[p].count <= apiCounters[p].count
           \/ /\ \A p \in Times : apiCounters'[p].count <= apiCounters[p].count + 1
              /\ \E r \in Requests : r \in Started' \ Started,
           \/ \A p \in Times : extCounters'[p].count <= extCounters[p].count
           \/ /\ \A p \in Times : extCounters'[p].count <= extCounters[p].count + 1
              /\ \E r \in Requests : r \in Asked' \ Asked
    PROVE  CountInv'
<1> DEFINE s == Cardinality(Started)
           s1 == Cardinality(Started')
           a == Cardinality(Asked)
           a1 == Cardinality(Asked')
<1>1. /\ Started \in SUBSET Requests /\ Started' \in SUBSET Requests
      /\ Asked \in SUBSET Requests /\ Asked' \in SUBSET Requests
  BY DEF Started, Asked
<1>2. s \in Nat /\ s1 \in Nat /\ s <= s1 /\ \A r \in Started' \ Started : s + 1 <= s1
  BY <1>1, RequestSets
<1>3. a \in Nat /\ a1 \in Nat /\ a <= a1 /\ \A r \in Asked' \ Asked : a + 1 <= a1
  BY <1>1, RequestSets
<1>4. \A p \in Times : apiCounters[p].count <= s /\ extCounters[p].count <= a
  BY DEF CountInv
<1>5. \A p \in Times : /\ apiCounters[p].count \in Nat /\ apiCounters'[p].count \in Nat
                       /\ extCounters[p].count \in Nat /\ extCounters'[p].count \in Nat
  BY DEF Types, Entries
<1> HIDE DEF s, s1, a, a1
<1>6. \A p \in Times : apiCounters'[p].count <= s1
  BY <1>2, <1>4, <1>5
<1>7. \A p \in Times : extCounters'[p].count <= a1
  BY <1>3, <1>4, <1>5
<1>8. (\A p \in Times : apiCounters'[p].count <= s1 /\ extCounters'[p].count <= a1) => CountInv'
  BY DEF CountInv, s1, a1
<1> QED
  BY <1>6, <1>7, <1>8

\* No step takes a counter or a result out of its bounds.
LEMMA StepBounds == IInv /\ IInv' /\ CacheInv /\ Bounds /\ [Next]_vars => Bounds'
<1> SUFFICES ASSUME IInv, IInv', CacheInv, Bounds, [Next]_vars PROVE Bounds'
  OBVIOUS
<1>1. /\ Types /\ Types' /\ CountInv /\ CacheTypes
      /\ result \in [Requests -> Results] /\ pc \in [Requests -> States]
      /\ Nothing \in Results
  BY DEF IInv, Bounds, CacheInv, CacheTypes, Results
<1>2. \A p \in Times : apiCounters[p].count \in Nat /\ extCounters[p].count \in Nat
  BY <1>1 DEF Types, Entries
<1> DEFINE Same == /\ \A p \in Times : apiCounters'[p].count <= apiCounters[p].count
                   /\ \A p \in Times : extCounters'[p].count <= extCounters[p].count
<1>3. ASSUME UNCHANGED <<apiCounters, extCounters>>
      PROVE  Same
  BY <1>2, <1>3
<1>4. ASSUME Same, pc' = pc, result' = result
      PROVE  Bounds'
  <2>1. Started' = Started /\ Asked' = Asked
    BY <1>4 DEF Started, Asked
  <2>2. CountInv'
    BY <1>1, <1>4, <2>1, CountKept
  <2> QED
    BY <1>1, <1>4, <2>2 DEF Bounds, Results, Positions
<1>5. CASE Tick
  <2>1. /\ apiCounters' = [p \in Times |-> IF apiCounters[p].until <= now + 1
                                           THEN [count |-> 0, until |-> 0] ELSE apiCounters[p]]
        /\ extCounters' = [p \in Times |-> IF extCounters[p].until <= now + 1
                                           THEN [count |-> 0, until |-> 0] ELSE extCounters[p]]
        /\ pc' = pc /\ result' = result
    BY <1>5 DEF Tick, Api!Tick, Ext!Tick, Api!NoCounter, Ext!NoCounter, requestVars
  <2>2. \A p \in Times : /\ apiCounters'[p].count \in {0, apiCounters[p].count}
                         /\ extCounters'[p].count \in {0, extCounters[p].count}
    BY <2>1
  <2>3. Same
    BY <1>2, <2>2
  <2> HIDE DEF Same
  <2> QED
    BY <1>4, <2>1, <2>3
<1>6. CASE UNCHANGED vars
  BY <1>3, <1>4, <1>6 DEF vars, redisVars, requestVars
<1>7. ASSUME NEW r \in Requests, NEW v, pc' = [pc EXCEPT ![r] = v], v # "new"
      PROVE  /\ Started \subseteq Started' /\ r \in Started'
             /\ v \in {"calling", "storing", "answered"} => Asked \subseteq Asked' /\ r \in Asked'
             /\ pc[r] \notin {"calling", "storing", "answered"} => Asked \subseteq Asked' /\ r \notin Asked
  <2>1. \A s \in Requests : pc'[s] = IF s = r THEN v ELSE pc[s]
    BY <1>1, <1>7
  <2> QED
    BY <1>7, <2>1 DEF Started, Asked
<1>8. ASSUME NEW r \in Requests, NEW q \in Queries, Check(r, q)
      PROVE  Bounds'
  <2> PICK exceeded \in BOOLEAN, failed \in BOOLEAN :
          /\ Api!Exceeded(Day, exceeded, failed)
          /\ pc' = [pc EXCEPT ![r] = IF exceeded THEN "refused" ELSE "searching"]
          /\ pc[r] = "new"
          /\ extCounters' = extCounters /\ result' = result
    BY <1>8 DEF Check
  <2>1. r \in Started' \ Started /\ Started \subseteq Started' /\ Asked \subseteq Asked'
    <3>1. r \notin Started
      BY DEF Started
    <3> QED
      BY <1>7, <3>1
  <2>2. \A p \in Times : apiCounters'[p].count <= apiCounters[p].count + 1
    <3>1. Day \in Times
      BY <1>1, PeriodInTimes, LimitsAssumption DEF Day, Types
    <3> QED
      BY <1>1, <3>1, ExceededAddsOne
  <2>3. \A p \in Times : extCounters'[p].count <= extCounters[p].count
    BY <1>2
  <2>4. CountInv'
    BY <1>1, <2>1, <2>2, <2>3, CountKept
  <2> QED
    BY <1>1, <2>4 DEF Bounds, Results, Positions
<1>9. ASSUME NEW r \in Requests, CountCall(r)
      PROVE  Bounds'
  <2> PICK exceeded \in BOOLEAN, failed \in BOOLEAN :
          /\ Ext!Exceeded(Period, exceeded, failed)
          /\ pc' = [pc EXCEPT ![r] = IF exceeded THEN "answered" ELSE "calling"]
          /\ pc[r] = "missed"
          /\ apiCounters' = apiCounters /\ result' = result
    BY <1>9 DEF CountCall
  <2>1. Started \subseteq Started' /\ Asked \subseteq Asked' /\ r \in Asked' \ Asked
    BY <1>7
  <2>2. \A p \in Times : extCounters'[p].count <= extCounters[p].count + 1
    <3>1. Period \in Times
      BY <1>1, PeriodInTimes, LimitsAssumption DEF Period, Types
    <3> QED
      BY <1>1, <3>1, ExceededAddsOne
  <2>3. \A p \in Times : apiCounters'[p].count <= apiCounters[p].count
    BY <1>2
  <2>4. CountInv'
    BY <1>1, <2>1, <2>2, <2>3, CountKept
  <2> QED
    BY <1>1, <2>4 DEF Bounds, Results, Positions
<1>10. ASSUME NEW r \in Requests,
              \/ \E q \in Queries : SkipCheck(r, q)
              \/ Search(r) \/ AskCache(r) \/ Call(r) \/ Store(r)
       PROVE  Bounds'
  <2>1. UNCHANGED <<apiCounters, extCounters>>
    BY <1>10 DEF SkipCheck, Search, AskCache, Call, Store, redisVars
  <2>2. Started \subseteq Started' /\ Asked \subseteq Asked'
    <3>1. ASSUME NEW q \in Queries, SkipCheck(r, q)
          PROVE  Started \subseteq Started' /\ Asked \subseteq Asked'
      BY <1>7, <3>1 DEF SkipCheck
    <3>2. CASE Search(r) \/ AskCache(r)
      <4>1. /\ pc[r] \in {"searching", "asking"}
            /\ \E v : pc' = [pc EXCEPT ![r] = v] /\ v # "new"
        BY <3>2 DEF Search, AskCache
      <4> QED
        BY <1>7, <4>1
    <3>3. CASE Call(r) \/ Store(r)
      <4>1. \E v \in {"answered", "storing"} : pc' = [pc EXCEPT ![r] = v]
        BY <3>3 DEF Call, Store
      <4> QED
        BY <1>7, <4>1
    <3> QED
      BY <1>10, <3>1, <3>2, <3>3
  <2>3. CountInv'
    <3>1. Same
      BY <1>3, <2>1
    <3> QED
      BY <1>1, <2>2, <3>1, CountKept
  <2>4. result' \in [Requests -> Results]
    <3>1. CASE AskCache(r)
      <4>1. query[r] \in Queries \cup {{}}
        BY <1>1 DEF CacheTypes
      <4>2. Cached(query[r]) \in Results
        BY <1>1, <4>1, CachedIsResult
      <4>3. PICK found \in {Cached(query[r]), Nothing} : result' = [result EXCEPT ![r] = found]
        BY <3>1 DEF AskCache
      <4> QED
        BY <1>1, <4>2, <4>3
    <3>2. CASE Call(r)
      <4>1. PICK answer \in Answers \cup {Nothing} : result' = [result EXCEPT ![r] = answer]
        BY <3>2 DEF Call
      <4>2. answer \in Results
        BY <1>1, <4>1, AnswersAreResults
      <4> QED
        BY <1>1, <4>1, <4>2
    <3>3. CASE Search(r) \/ Store(r) \/ \E q \in Queries : SkipCheck(r, q)
      <4>1. result' = result
        BY <3>3 DEF Search, Store, SkipCheck
      <4> QED
        BY <1>1, <4>1
    <3> QED
      BY <1>10, <3>1, <3>2, <3>3
  <2> QED
    BY <2>3, <2>4 DEF Bounds, Results, Positions
<1> HIDE DEF Same
<1> QED
  BY <1>5, <1>6, <1>8, <1>9, <1>10 DEF Next

\* All variables keep their types: no counter exceeds the number of requests,
\* and no result is outside the positions that the service knows.
THEOREM TypeCorrect == Spec => []TypeOK
<1>1. IInv /\ CacheInv /\ Bounds => TypeOK
  <2> SUFFICES ASSUME IInv, CacheInv, Bounds PROVE TypeOK
    OBVIOUS
  <2> DEFINE K == Cardinality(Requests)
  <2>1. Types /\ CacheTypes /\ CountInv
    BY DEF IInv, CacheInv, Bounds
  <2>2. \A p \in Times : /\ apiCounters[p] \in [count : 0..K, until : Nat]
                         /\ extCounters[p] \in [count : 0..K, until : Nat]
    <3>1. Started \in SUBSET Requests /\ Asked \in SUBSET Requests
      BY DEF Started, Asked
    <3>2. /\ Cardinality(Started) \in Nat /\ Cardinality(Asked) \in Nat /\ K \in Nat
          /\ Cardinality(Started) <= K /\ Cardinality(Asked) <= K
      BY <3>1, RequestSets
    <3> HIDE DEF K
    <3> SUFFICES ASSUME NEW p \in Times
                 PROVE  /\ apiCounters[p] \in [count : 0..K, until : Nat]
                        /\ extCounters[p] \in [count : 0..K, until : Nat]
      OBVIOUS
    <3>3. apiCounters[p] \in [count : Nat, until : Nat] /\ extCounters[p] \in [count : Nat, until : Nat]
      BY <2>1 DEF Types, Entries
    <3>4. apiCounters[p].count \in 0..K /\ extCounters[p].count \in 0..K
      BY <2>1, <3>2, <3>3 DEF CountInv
    <3> QED
      BY <3>3, <3>4
  <2>3. apiCounters \in [Times -> Counters] /\ extCounters \in [Times -> Counters]
    BY <2>1, <2>2 DEF Types, Counters
  <2>4. result \in [Requests -> Positions \cup {NotFound, Nothing}]
    BY DEF Bounds, Results
  <2> QED
    BY <2>1, <2>3, <2>4 DEF TypeOK, Types, Tallies, CacheTypes, States
<1> QED
  BY <1>1, InitBounds, StepBounds, LimitsSound, CacheHoldsTheLast, PTL DEF Spec
=============================================================================
