------------------------------ MODULE DataQueue ------------------------------
(***************************************************************************)
(* The Redis list behind every work queue of ichnaea (ichnaea/queue.py):   *)
(* BaseQueue with the DataQueue front end.                                 *)
(*                                                                         *)
(* Producers push to the head of the list and refresh the key's time to    *)
(* live, consumers take a batch off the head, and Redis drops the whole    *)
(* key when its time to live runs out.  Every push and every dequeue is    *)
(* one MULTI/EXEC transaction, hence one step.  Items are numbered in the  *)
(* order in which they are put.                                            *)
(***************************************************************************)
EXTENDS Integers, Sequences, SequencesExt

CONSTANTS
    MaxItems,       \* bound: how many items are ever put
    Batches,        \* the batch sizes consumers ask for
    QueueTTL,       \* BaseQueue.queue_ttl, in units of time
    MaxAge          \* BaseQueue.queue_max_age, in the same units

ASSUME MaxItemsAssumption == MaxItems \in Nat
ASSUME BatchesAssumption == Batches \subseteq Nat
ASSUME TimesAssumption ==
    /\ QueueTTL \in Nat
    /\ MaxAge \in Nat
    /\ 0 < MaxAge
    /\ MaxAge < QueueTTL

VARIABLES
    list,           \* the Redis list, head first
    ttl,            \* the key's remaining time to live, or NoTTL
    silence,        \* time since the last put, up to QueueTTL
    puts,           \* how many items have been put
    delivered,      \* the items handed to consumers
    expired         \* the items dropped with their key

vars == <<list, ttl, silence, puts, delivered, expired>>

Items == 1..MaxItems

\* Redis answers -1 for a key without expiry and -2 for an absent key; the
\* code tests only for a negative answer.
NoTTL == -1

Init ==
    /\ list = <<>>
    /\ ttl = NoTTL
    /\ silence = 0
    /\ puts = 0
    /\ delivered = {}
    /\ expired = {}

-----------------------------------------------------------------------------
(***************************************************************************)
(* Enqueue: EXPIRE first, which does nothing to a key that is not there,   *)
(* then LPUSH item by item, which leaves the last item pushed at the head. *)
(* Definitions headed "Mutant:" are faulty variants of the definition that *)
(* follows; only mutation runs use them.                                   *)
(***************************************************************************)
\* Mutant: only the first push sets a time to live.
PushedTTLOnce == IF list = <<>> THEN QueueTTL ELSE ttl

\* Mutant: a push adds to the time to live instead of setting it.
PushedTTLAdded ==
    IF list = <<>> THEN NoTTL ELSE IF ttl = NoTTL THEN QueueTTL ELSE ttl + QueueTTL

PushedTTL == IF list = <<>> THEN NoTTL ELSE QueueTTL

\* Mutant: RPUSH for LPUSH.
PushedAtTail(items) == list \o items

Pushed(items) == Reverse(items) \o list

Enqueue(n) ==
    LET items == [i \in 1..n |-> puts + i] IN
    /\ n > 0
    /\ puts + n <= MaxItems
    /\ ttl' = PushedTTL
    /\ list' = Pushed(items)
    /\ puts' = puts + n
    /\ silence' = 0
    /\ UNCHANGED <<delivered, expired>>

(***************************************************************************)
(* Dequeue: LRANGE 0 batch-1, then LTRIM batch -1, in one transaction; a   *)
(* batch of 0 reads everything and needs a LTRIM of its own to remove it.  *)
(* A list left empty is a key left absent.                                 *)
(***************************************************************************)
Taken(batch) == IF batch = 0 \/ batch > Len(list) THEN Len(list) ELSE batch

\* Mutant: LRANGE reads one item less than LTRIM removes.
HandedOneShort(batch) == SubSeq(list, 1, Taken(batch) - 1)

Handed(batch) == SubSeq(list, 1, Taken(batch))

\* Mutant: no special case for a batch of 0, LTRIM 0 -1 keeps everything.
KeptByPlainTrim(batch) == SubSeq(list, batch + 1, Len(list))

Kept(batch) == SubSeq(list, Taken(batch) + 1, Len(list))

Dequeue(batch) ==
    /\ list # <<>>
    /\ delivered' = delivered \cup ToSet(Handed(batch))
    /\ list' = Kept(batch)
    /\ ttl' = IF Kept(batch) = <<>> THEN NoTTL ELSE ttl
    /\ UNCHANGED <<silence, puts, expired>>

(***************************************************************************)
(* Tick: a unit of time passes; Redis drops a key whose time to live ends. *)
(***************************************************************************)
KeyEnds == ttl = 1

Tick ==
    /\ silence' = IF silence < QueueTTL THEN silence + 1 ELSE silence
    /\ IF KeyEnds
         THEN /\ ttl' = NoTTL
              /\ list' = <<>>
              /\ expired' = expired \cup ToSet(list)
         ELSE /\ ttl' = IF ttl = NoTTL THEN NoTTL ELSE ttl - 1
              /\ UNCHANGED <<list, expired>>
    /\ UNCHANGED <<puts, delivered>>

Next ==
    \/ \E n \in Items : Enqueue(n)
    \/ \E batch \in Batches : Dequeue(batch)
    \/ Tick

Spec == Init /\ [][Next]_vars

\* The task that drains a queue is sent by the scheduler every few seconds.
FairSpec == Spec /\ WF_vars(\E batch \in Batches : Dequeue(batch))

-----------------------------------------------------------------------------
Age == IF ttl < 0 THEN -1
       ELSE IF QueueTTL - ttl < 0 THEN QueueTTL - ttl ELSE 0

EnoughData(batch) == Len(list) > 0 /\ (Len(list) >= batch \/ Age >= MaxAge)

-----------------------------------------------------------------------------
\* The type of every variable; the time to live never reaches 0 in a state,
\* because the key is gone by then.
TypeOK ==
    /\ list \in Seq(Items)
    /\ ttl \in 1..QueueTTL \cup {NoTTL}
    /\ silence \in 0..QueueTTL
    /\ puts \in 0..MaxItems
    /\ delivered \subseteq Items
    /\ expired \subseteq Items

\* Every item put is in exactly one place: in the list, with a consumer, or
\* lost with its key.  _push, _dequeue and the expiry together neither lose
\* track of an item nor hand one out twice.
NothingLostUnseen ==
    /\ 1..puts = ToSet(list) \cup delivered \cup expired
    /\ ToSet(list) \cap delivered = {}
    /\ ToSet(list) \cap expired = {}
    /\ delivered \cap expired = {}

\* The list runs from the newest item to the oldest, whatever the mix of
\* pushes and partial dequeues.
NewestFirst ==
    \A i, j \in 1..Len(list) : i < j => list[i] > list[j]

\* While the key has a time to live, the time to live measures the time since
\* data was last put: only _push resets it, and a dequeue keeps it.
TTLMeasuresSilence ==
    ttl # NoTTL => /\ list # <<>>
                   /\ ttl = QueueTTL - silence

\* Items expire only after a full queue_ttl without a single put.
ExpiryOnlyAfterSilence ==
    [][expired' # expired => silence' = QueueTTL]_vars

\* Once pushes end, a queue that is polled without a threshold drains: every
\* item put reaches a consumer or expires, with batches of any size.  While
\* pushes go on, the tail of the list may starve, for batches come off the head.
Drains ==
    \A i \in Items : (i <= puts) ~> (i \in delivered \cup expired)

\* The class comment of BaseQueue (queue.py:27-29): there is enough data if
\* the queue has not seen new data for more than queue_max_age; stated for the
\* lists whose age Redis can tell.
OldDataIsEnough ==
    ttl # NoTTL /\ silence > MaxAge => \A batch \in Batches : EnoughData(batch)

-----------------------------------------------------------------------------
\* The list as an at-most-once queue: what a push, a dequeue or the time to
\* live does to the list never brings an item back.
Abstract == INSTANCE AtMostOnceQueue
              WITH pending <- ToSet(list), lost <- expired

ImplementsAtMostOnce == Abstract!Spec
=============================================================================
