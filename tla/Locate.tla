-------------------------------- MODULE Locate -------------------------------
(***************************************************************************)
(* A locate request: BaseAPIView.check of api/views.py, the search of      *)
(* api/locate/searcher.py as far as it decides about the last source, and  *)
(* that source, FallbackPositionSource of api/locate/fallback.py, with its *)
(* result cache and its rate limit.                                        *)
(*                                                                         *)
(* Requests run at the same time, in any number of web processes, and meet *)
(* in Redis: at the cache, and at the counters of both limits.  Redis, the *)
(* database and the external service may fail at any call.                 *)
(***************************************************************************)
EXTENDS Integers, FiniteSets, FiniteSetsExt

CONSTANTS
    Requests,
    Cells, Wifis,
    Queries,            \* sets of networks that requests may hold
    MaxCachedWifis,     \* queries with as many are not cached
    Places,             \* the positions the external service knows
    NotFound, Nothing,
    MaxReq,             \* the daily limit of the API key
    DayLength,
    Limit,              \* ratelimit, ratelimit_interval, ratelimit_expire
    Interval,
    Expire,
    CacheExpire,        \* cache_expire
    MaxTime             \* bound: the last tick

Networks == Cells \cup Wifis

ASSUME NetworksAssumption ==
    /\ IsFiniteSet(Cells) /\ IsFiniteSet(Wifis) /\ Cells \cap Wifis = {}
    /\ Queries \subseteq SUBSET Networks
    /\ Places \subseteq [lat : Nat, lon : Nat]
    /\ {NotFound, Nothing} \cap [lat : Nat, lon : Nat] = {} /\ Nothing # NotFound
ASSUME LimitsAssumption ==
    /\ MaxReq \in Nat /\ Limit \in Nat /\ MaxCachedWifis \in Nat
    /\ CacheExpire \in Nat \ {0}  \* 0 would disable the cache
    /\ DayLength \in Nat \ {0} /\ Interval \in Nat \ {0}
    /\ MaxTime \in Nat
\* Only the bounds that TypeOK names need these.
ASSUME FiniteAssumption == IsFiniteSet(Requests) /\ IsFiniteSet(Places)
\* docs/config.rst asks for an expiry that is larger than the interval.
ASSUME ExpireAssumption == Expire \in Nat /\ Expire >= Interval

VARIABLES
    now,
    apiCounters,        \* the Redis counters of the daily limit
    extCounters,        \* the Redis counters of the external service
    cache,              \* the cached answer for each network, with its expiry
    pc, query, result,  \* the requests
    served, unlimited,  \* per day: requests let in, and those not counted
    calls,              \* per interval: external calls let out
    given               \* when an answer was last stored for a network

redisVars == <<apiCounters, extCounters, cache>>
requestVars == <<pc, query, result>>
historyVars == <<served, unlimited, calls, given>>
vars == <<now, redisVars, requestVars, historyVars>>

Times == 0..MaxTime
Day == now \div DayLength
Period == now \div Interval
Answers == Places \cup {NotFound}
NoEntry == [answer |-> Nothing, until |-> 0]
Never == -1

Api == INSTANCE RateLimit WITH
    Periods <- Times, Expire <- DayLength, OnError <- FALSE, counters <- apiCounters
Ext == INSTANCE RateLimit WITH
    Periods <- Times, MaxReq <- Limit, OnError <- TRUE, counters <- extCounters

Init ==
    /\ now = 0
    /\ Api!Init /\ Ext!Init
    /\ cache = [n \in Networks |-> NoEntry]
    /\ pc = [r \in Requests |-> "new"]
    /\ query = [r \in Requests |-> {}]
    /\ result = [r \in Requests |-> Nothing]
    /\ served = [d \in Times |-> 0]
    /\ unlimited = [d \in Times |-> 0]
    /\ calls = [p \in Times |-> 0]
    /\ given = [n \in Networks |-> [a \in Answers |-> Never]]

Tick ==
    /\ now < MaxTime
    /\ now' = now + 1
    /\ Api!Tick /\ Ext!Tick
    /\ cache' = [n \in Networks |-> IF cache[n].until <= now + 1 THEN NoEntry ELSE cache[n]]
    /\ UNCHANGED <<requestVars, historyVars>>

-----------------------------------------------------------------------------
(* The view.                                                               *)

\* A request with a valid key arrives.  It is let in if the key is within its
\* daily limit, or if Redis cannot tell.
Check(r, q) ==
    \E exceeded, failed \in BOOLEAN :
        /\ pc[r] = "new"
        /\ Api!Exceeded(Day, exceeded, failed)
        /\ query' = [query EXCEPT ![r] = q]
        /\ pc' = [pc EXCEPT ![r] = IF exceeded THEN "refused" ELSE "searching"]
        /\ served' = [served EXCEPT ![Day] = IF exceeded THEN @ ELSE @ + 1]
        /\ unlimited' = [unlimited EXCEPT ![Day] = IF failed THEN @ + 1 ELSE @]
        /\ UNCHANGED <<now, extCounters, cache, result, calls, given>>

\* The database fails: the key and its limit are not checked, and the empty
\* key that stands in for it does not allow the fallback.
SkipCheck(r, q) ==
    /\ pc[r] = "new"
    /\ query' = [query EXCEPT ![r] = q]
    /\ pc' = [pc EXCEPT ![r] = "answered"]
    /\ served' = [served EXCEPT ![Day] = @ + 1]
    /\ unlimited' = [unlimited EXCEPT ![Day] = @ + 1]
    /\ UNCHANGED <<now, redisVars, result, calls, given>>

\* The sources before the fallback: it is asked if the key allows it, the
\* query has a network, and no result so far is accurate enough.
Search(r) ==
    \E allowed, satisfied \in BOOLEAN :
        /\ pc[r] = "searching"
        /\ pc' = [pc EXCEPT ![r] = IF allowed /\ query[r] # {} /\ ~satisfied
                                   THEN "asking" ELSE "answered"]
        /\ UNCHANGED <<now, redisVars, query, result, historyVars>>

-----------------------------------------------------------------------------
(* The result cache.                                                       *)

\* One cell, or only wifi networks and not too many.
ShouldCache(q) ==
    \/ q \cap Wifis = {} /\ Cardinality(q) = 1
    \/ q # {} /\ q \cap Cells = {} /\ Cardinality(q) < MaxCachedWifis

\* Answers are clustered by latitude, and by latitude again.
Cluster(place) == <<place.lat, place.lat>>

\* Mutant: the sum of the positions.
Total(N) ==
    LET Sum(Coordinate(_)) == MapThenSumSet(Coordinate, N) IN
    [lat |-> Sum(LAMBDA n : cache[n].answer.lat),
     lon |-> Sum(LAMBDA n : cache[n].answer.lon)]

\* The position of networks whose cached positions form one cluster, for
\* positions of the same accuracy.
Mean(N) ==
    LET Average(Coordinate(_)) == MapThenSumSet(Coordinate, N) \div Cardinality(N) IN
    [lat |-> Average(LAMBDA n : cache[n].answer.lat),
     lon |-> Average(LAMBDA n : cache[n].answer.lon)]

\* What the cache says of a query: an answer if all that is cached for its
\* networks agrees.
Cached(q) ==
    LET N == {n \in q : cache[n] # NoEntry}
        found == {n \in N : cache[n].answer # NotFound}
    IN  IF ~ShouldCache(q) \/ N = {} THEN Nothing
        ELSE CASE found = {} -> NotFound
               [] found = N /\ Cardinality({Cluster(cache[n].answer) : n \in N}) = 1 -> Mean(N)
               [] OTHER -> Nothing

-----------------------------------------------------------------------------
(* The fallback source.                                                    *)

\* The cache is asked first and without the limit; an error is a miss.
AskCache(r) ==
    \E found \in {Cached(query[r]), Nothing} :
        /\ pc[r] = "asking"
        /\ result' = [result EXCEPT ![r] = found]
        /\ pc' = [pc EXCEPT ![r] = IF found = Nothing THEN "missed" ELSE "hit"]
        /\ UNCHANGED <<now, redisVars, query, historyVars>>

\* An external call counts before it is made.  When Redis cannot tell, there
\* is no call.
CountCall(r) ==
    \E exceeded, failed \in BOOLEAN :
        /\ pc[r] = "missed"
        /\ Ext!Exceeded(Period, exceeded, failed)
        /\ pc' = [pc EXCEPT ![r] = IF exceeded THEN "answered" ELSE "calling"]
        /\ calls' = [calls EXCEPT ![Period] = IF exceeded THEN @ ELSE @ + 1]
        /\ UNCHANGED <<now, apiCounters, cache, query, result, served, unlimited, given>>

\* The service answers, with a position or that it has none, or the call fails.
Call(r) ==
    \E answer \in Answers \cup {Nothing} :
        /\ pc[r] = "calling"
        /\ result' = [result EXCEPT ![r] = answer]
        /\ pc' = [pc EXCEPT ![r] = IF answer = Nothing THEN "answered" ELSE "storing"]
        /\ UNCHANGED <<now, redisVars, query, historyVars>>

\* Mutant: networks that are cached already keep their answer, for longer.
StoredIfNew(r) ==
    [n \in Networks |->
        IF n \in query[r]
        THEN [answer |-> IF cache[n] = NoEntry THEN result[r] ELSE cache[n].answer,
              until |-> now + CacheExpire]
        ELSE cache[n]]

\* The answer replaces what is cached for any network of the query.
Stored(r) ==
    [n \in Networks |->
        IF n \in query[r] THEN [answer |-> result[r], until |-> now + CacheExpire] ELSE cache[n]]

\* MSET and EXPIRE, in one pipeline, unless Redis fails.
Store(r) ==
    /\ pc[r] = "storing"
    /\ pc' = [pc EXCEPT ![r] = "answered"]
    /\ \/ /\ ShouldCache(query[r])
          /\ cache' = Stored(r)
          /\ given' = [n \in Networks |->
                         IF n \in query[r] THEN [given[n] EXCEPT ![result[r]] = now] ELSE given[n]]
       \/ UNCHANGED <<cache, given>>
    /\ UNCHANGED <<now, apiCounters, extCounters, query, result, served, unlimited, calls>>

-----------------------------------------------------------------------------
Next ==
    \/ Tick
    \/ \E r \in Requests :
         \/ \E q \in Queries : Check(r, q) \/ SkipCheck(r, q)
         \/ Search(r) \/ AskCache(r) \/ CountCall(r) \/ Call(r) \/ Store(r)

Spec == Init /\ [][Next]_vars

-----------------------------------------------------------------------------
Counters == [count : 0..Cardinality(Requests), until : Nat]
Positions == [lat : 0..Max({p.lat : p \in Places}), lon : 0..Max({p.lon : p \in Places})]

TypeOK ==
    /\ now \in Times
    /\ apiCounters \in [Times -> Counters] /\ extCounters \in [Times -> Counters]
    /\ cache \in [Networks -> {NoEntry} \cup [answer : Answers, until : Nat]]
    /\ pc \in [Requests -> {"new", "refused", "searching", "asking", "missed", "hit",
                            "calling", "storing", "answered"}]
    /\ query \in [Requests -> Queries \cup {{}}]
    /\ result \in [Requests -> Positions \cup {NotFound, Nothing}]
    /\ served \in [Times -> Nat] /\ unlimited \in [Times -> Nat] /\ calls \in [Times -> Nat]
    /\ given \in [Networks -> [Answers -> Times \cup {Never}]]

\* In no interval are more calls let out to the external service than its
\* limit, however requests interleave and Redis fails.
CallsWithinLimit == Limit # 0 => \A p \in Times : calls[p] <= Limit

\* A key is served as often as its daily limit allows, and more often only by
\* the requests that Redis or the database could not count.
ServedWithinMaxreq ==
    MaxReq # 0 => \A d \in Times : served[d] <= MaxReq + unlimited[d]

\* The answers stored last for a network, unless they have expired.
Current(n) ==
    LET last == Max({given[n][a] : a \in Answers}) IN
    {a \in Answers : given[n][a] = last /\ last # Never /\ now < last + CacheExpire}

Agrees(position, answer) ==
    IF NotFound \in {position, answer} THEN position = answer ELSE position.lat = answer.lat

\* What a request takes from the cache agrees, by latitude, with the last
\* answer stored for each of its networks, and none of it has expired.
HitsAreCurrent ==
    [][\A r \in Requests : pc[r] = "asking" /\ pc'[r] = "hit" =>
          /\ \E n \in query[r] : Current(n) # {}
          /\ \A n \in query[r] :
                Current(n) # {} => \E a \in Current(n) : Agrees(result'[r], a)]_vars

\* The comments of FallbackCache.get (api/locate/fallback.py:206 and 238) say
\* that results are clustered in a grid of 100 by 100 meters, and that a hit
\* means that all of them agree: a hit is a position the service has given.
HitsWereGiven ==
    \A r \in Requests : pc[r] = "hit" => result[r] \in Answers
=============================================================================
