------------------------------ MODULE RateLimit ------------------------------
(***************************************************************************)
(* rate_limit_exceeded of api/rate_limit.py: a Redis counter per period    *)
(* that is increased before it is compared with the limit, and whose time  *)
(* to live starts again with every request.                                *)
(***************************************************************************)
EXTENDS Integers

CONSTANTS
    Periods,        \* a key of the caller stands for each
    Expire,         \* the time to live of a counter
    MaxReq,         \* the limit, 0 for none
    OnError         \* the verdict when Redis fails

VARIABLES
    now,
    counters        \* the counter of each period, and when it expires

NoCounter == [count |-> 0, until |-> 0]

Init == counters = [p \in Periods |-> NoCounter]

\* INCR and EXPIRE, in one pipeline.
Increase(p) ==
    counters' = [counters EXCEPT ![p] = [count |-> @.count + 1, until |-> now + Expire]]

\* Mutant: the count before the increase is compared.
OverBefore(p) == counters[p].count > MaxReq

\* The count after the increase is over the limit.
Over(p) == counters[p].count + 1 > MaxReq

\* Mutant: the verdict when Redis fails is the default one.
ExceededByDefault(p, verdict, failed) ==
    \/ MaxReq = 0 /\ ~verdict /\ ~failed /\ UNCHANGED counters
    \/ MaxReq # 0 /\ ~failed /\ verdict = Over(p) /\ Increase(p)
    \/ MaxReq # 0 /\ failed /\ ~verdict /\ (UNCHANGED counters \/ Increase(p))

\* Without a limit Redis is not asked.  When it fails, the pipeline may have
\* been executed or not.
Exceeded(p, verdict, failed) ==
    \/ MaxReq = 0 /\ ~verdict /\ ~failed /\ UNCHANGED counters
    \/ MaxReq # 0 /\ ~failed /\ verdict = Over(p) /\ Increase(p)
    \/ MaxReq # 0 /\ failed /\ verdict = OnError /\ (UNCHANGED counters \/ Increase(p))

\* Redis drops the counters that expire with the next tick.
Tick ==
    counters' = [p \in Periods |-> IF counters[p].until <= now + 1 THEN NoCounter ELSE counters[p]]
=============================================================================
