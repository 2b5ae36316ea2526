--------------------------- MODULE DataQueueProofs ---------------------------
(***************************************************************************)
(* Theorems about DataQueue, for every number of items, every set of batch *)
(* sizes and every time to live.                                           *)
(*                                                                         *)
(* That no item is handed out twice rests on the list holding no item      *)
(* twice, which is a consequence of its order: the inductive invariant is  *)
(* the conjunction of the type, the partition of the items, the order of   *)
(* the list and the meaning of the time to live.                           *)
(***************************************************************************)
EXTENDS DataQueue, SequenceTheorems, TLAPS

IInv == TypeOK /\ NothingLostUnseen /\ NewestFirst /\ TTLMeasuresSilence

Numbered(n) == [i \in 1..n |-> puts + i]

-----------------------------------------------------------------------------
\* What a push leaves in the list: the new items, newest first, before the
\* old ones.
LEMMA PushedList ==
    ASSUME TypeOK, NEW n \in Nat, 0 < n, puts + n <= MaxItems
    PROVE  /\ Pushed(Numbered(n)) \in Seq(Items)
           /\ Len(Pushed(Numbered(n))) = n + Len(list)
           /\ \A k \in 1..(n + Len(list)) :
                Pushed(Numbered(n))[k] =
                   IF k <= n THEN puts + n - k + 1 ELSE list[k - n]
<1> DEFINE new == Numbered(n)
           rev == Reverse(new)
<1> USE MaxItemsAssumption
<1>1. /\ list \in Seq(Items)
      /\ Len(list) \in Nat
      /\ puts \in Nat
  BY LenProperties DEF TypeOK
<1>2. /\ new \in Seq(Items)
      /\ Len(new) = n
      /\ \A k \in 1..n : new[k] = puts + k
  <2>1. new \in [1..n -> Items]
    BY <1>1 DEF Numbered, Items
  <2>2. new \in Seq(Items)
    BY <2>1, SeqDef
  <2>3. Len(new) = n
    BY <2>1, <2>2, LenProperties
  <2> QED
    BY <2>2, <2>3 DEF Numbered
<1>3. /\ rev \in Seq(Items)
      /\ Len(rev) = n
      /\ \A k \in 1..n : rev[k] = puts + n - k + 1
  <2>1. rev = [k \in 1..n |-> new[(n - k) + 1]]
    BY <1>2 DEF Reverse
  <2>2. \A k \in 1..n : /\ (n - k) + 1 \in 1..n
                        /\ new[(n - k) + 1] \in Items
                        /\ new[(n - k) + 1] = puts + n - k + 1
    BY <1>1, <1>2 DEF Items
  <2>3. rev \in [1..n -> Items]
    BY <2>1, <2>2
  <2>4. rev \in Seq(Items)
    BY <2>3, SeqDef
  <2>5. Len(rev) = n
    BY <2>3, <2>4, LenProperties
  <2> QED
    BY <2>1, <2>2, <2>4, <2>5
<1>4. Pushed(new) = rev \o list
  BY DEF Pushed
<1> HIDE DEF new, rev
<1>5. /\ rev \o list \in Seq(Items)
      /\ Len(rev \o list) = Len(rev) + Len(list)
      /\ \A k \in 1..(Len(rev) + Len(list)) :
           (rev \o list)[k] = IF k <= Len(rev) THEN rev[k]
                              ELSE list[k - Len(rev)]
  BY <1>1, <1>3, ConcatProperties
<1> QED
  BY <1>1, <1>3, <1>4, <1>5 DEF new

\* The elements of the list after a push.
LEMMA PushedSet ==
    ASSUME TypeOK, NEW n \in Nat, 0 < n, puts + n <= MaxItems
    PROVE  ToSet(Pushed(Numbered(n))) = ToSet(list) \cup (puts + 1)..(puts + n)
<1> DEFINE s == Pushed(Numbered(n))
<1>1. /\ s \in Seq(Items)
      /\ Len(s) = n + Len(list)
      /\ \A k \in 1..(n + Len(list)) :
           s[k] = IF k <= n THEN puts + n - k + 1 ELSE list[k - n]
  BY PushedList
<1>2. /\ DOMAIN s = 1..(n + Len(list))
      /\ DOMAIN list = 1..Len(list)
      /\ Len(list) \in Nat
      /\ puts \in Nat
  BY <1>1, LenProperties, MaxItemsAssumption DEF TypeOK
<1> HIDE DEF s
<1>3. ASSUME NEW x \in ToSet(s)
      PROVE  x \in ToSet(list) \cup (puts + 1)..(puts + n)
  <2>1. PICK k \in 1..(n + Len(list)) : x = s[k]
    BY <1>3, <1>2 DEF ToSet
  <2>2. CASE k <= n
    BY <2>1, <2>2, <1>1, <1>2
  <2>3. CASE ~(k <= n)
    <3>1. k - n \in 1..Len(list) /\ x = list[k - n]
      BY <2>1, <2>3, <1>1, <1>2
    <3> QED
      BY <3>1, <1>2 DEF ToSet
  <2> QED
    BY <2>2, <2>3
<1>4. ASSUME NEW x \in ToSet(list)
      PROVE  x \in ToSet(s)
  <2>1. PICK k \in 1..Len(list) : x = list[k]
    BY <1>4, <1>2 DEF ToSet
  <2>2. /\ k + n \in 1..(n + Len(list))
        /\ ~(k + n <= n)
        /\ (k + n) - n = k
    BY <1>2
  <2>3. s[k + n] = x
    BY <2>1, <2>2, <1>1
  <2> QED
    BY <2>2, <2>3, <1>2 DEF ToSet
<1>5. ASSUME NEW x \in (puts + 1)..(puts + n)
      PROVE  x \in ToSet(s)
  <2>1. /\ puts + n - x + 1 \in 1..(n + Len(list))
        /\ puts + n - x + 1 <= n
        /\ puts + n - (puts + n - x + 1) + 1 = x
    BY <1>2
  <2>2. s[puts + n - x + 1] = x
    BY <2>1, <1>1
  <2> QED
    BY <2>1, <2>2, <1>2 DEF ToSet
<1> QED
  BY <1>3, <1>4, <1>5 DEF s

\* A dequeue splits the list: what is handed out and what is kept are its two
\* parts, element by element.
LEMMA SplitList ==
    ASSUME TypeOK, NEW batch \in Batches
    PROVE  /\ Taken(batch) \in 0..Len(list)
           /\ Handed(batch) \in Seq(Items)
           /\ Len(Handed(batch)) = Taken(batch)
           /\ \A k \in 1..Taken(batch) : Handed(batch)[k] = list[k]
           /\ Kept(batch) \in Seq(Items)
           /\ Len(Kept(batch)) = Len(list) - Taken(batch)
           /\ \A k \in 1..(Len(list) - Taken(batch)) :
                Kept(batch)[k] = list[Taken(batch) + k]
<1> DEFINE t == Taken(batch)
<1>1. /\ list \in Seq(Items)
      /\ Len(list) \in Nat
      /\ batch \in Nat
  BY LenProperties, BatchesAssumption DEF TypeOK
<1>2. t \in 0..Len(list)
  BY <1>1 DEF Taken
<1> HIDE DEF t
<1>3. \A i \in 1..Len(list) : list[i] \in Items
  BY <1>1, ElementOfSeq
<1>4. /\ SubSeq(list, 1, t) \in Seq(Items)
      /\ Len(SubSeq(list, 1, t)) = t
      /\ \A k \in 1..t : SubSeq(list, 1, t)[k] = list[k]
  BY <1>1, <1>2, <1>3, SubSeqProperties
<1>5. /\ SubSeq(list, t + 1, Len(list)) \in Seq(Items)
      /\ Len(SubSeq(list, t + 1, Len(list))) = Len(list) - t
      /\ \A k \in 1..(Len(list) - t) :
           SubSeq(list, t + 1, Len(list))[k] = list[t + k]
  BY <1>1, <1>2, <1>3, SubSeqProperties
<1> QED
  BY <1>2, <1>4, <1>5 DEF t, Handed, Kept

\* The elements handed out and the elements kept make up the list and, the
\* list being in strict order, have nothing in common.
LEMMA SplitSet ==
    ASSUME TypeOK, NewestFirst, NEW batch \in Batches
    PROVE  /\ ToSet(Handed(batch)) \cup ToSet(Kept(batch)) = ToSet(list)
           /\ ToSet(Handed(batch)) \cap ToSet(Kept(batch)) = {}
<1> DEFINE t == Taken(batch)
           h == Handed(batch)
           r == Kept(batch)
<1>1. /\ t \in 0..Len(list)
      /\ h \in Seq(Items) /\ Len(h) = t
      /\ \A k \in 1..t : h[k] = list[k]
      /\ r \in Seq(Items) /\ Len(r) = Len(list) - t
      /\ \A k \in 1..(Len(list) - t) : r[k] = list[t + k]
  BY SplitList
<1>2. /\ DOMAIN list = 1..Len(list)
      /\ Len(list) \in Nat
      /\ DOMAIN h = 1..t
      /\ DOMAIN r = 1..(Len(list) - t)
      /\ \A i \in 1..Len(list) : list[i] \in Nat
  BY <1>1, LenProperties, ElementOfSeq, MaxItemsAssumption DEF TypeOK, Items
<1> HIDE DEF t, h, r
<1>3. ToSet(h) = {list[k] : k \in 1..t}
  <2>1. ToSet(h) = {h[k] : k \in 1..t}
    BY <1>2, Zenon DEF ToSet
  <2>2. \A k \in 1..t : h[k] = list[k]
    BY <1>1
  <2> QED
    BY <2>1, <2>2
<1>4. ToSet(r) = {list[k] : k \in (t + 1)..Len(list)}
  <2>1. ASSUME NEW k \in (t + 1)..Len(list)
        PROVE  /\ k - t \in 1..(Len(list) - t)
               /\ r[k - t] = list[k]
    <3>1. k - t \in 1..(Len(list) - t) /\ t + (k - t) = k
      BY <1>1, <1>2
    <3> QED
      BY <3>1, <1>1
  <2>2. \A k \in 1..(Len(list) - t) : /\ t + k \in (t + 1)..Len(list)
                                      /\ r[k] = list[t + k]
    BY <1>1, <1>2
  <2>3. ToSet(r) = {r[k] : k \in 1..(Len(list) - t)}
    BY <1>2, Zenon DEF ToSet
  <2> QED
    BY <2>1, <2>2, <2>3
<1>5. ToSet(list) = {list[k] : k \in 1..Len(list)}
  BY <1>2 DEF ToSet
<1>6. 1..t \cup (t + 1)..Len(list) = 1..Len(list)
  BY <1>1, <1>2
<1>7. ToSet(h) \cap ToSet(r) = {}
  <2>1. SUFFICES ASSUME NEW i \in 1..t, NEW j \in (t + 1)..Len(list),
                        list[i] = list[j]
                 PROVE  FALSE
    BY <1>3, <1>4
  <2>2. /\ i \in 1..Len(list)
        /\ j \in 1..Len(list)
        /\ i < j
    BY <1>1, <1>2
  <2>3. list[i] > list[j]
    BY <2>2 DEF NewestFirst
  <2> QED
    BY <2>1, <2>2, <2>3, <1>2
<1> QED
  BY <1>3, <1>4, <1>5, <1>6, <1>7 DEF h, r

-----------------------------------------------------------------------------
LEMMA InitInv == Init => IInv
<1> SUFFICES ASSUME Init
             PROVE  IInv
  OBVIOUS
<1>1. ToSet(<<>>) = {}
  BY DEF ToSet
<1>2. TypeOK
  BY MaxItemsAssumption, TimesAssumption DEF Init, TypeOK, NoTTL
<1>3. NothingLostUnseen
  BY <1>1, MaxItemsAssumption DEF Init, NothingLostUnseen
<1>4. NewestFirst /\ TTLMeasuresSilence
  BY DEF Init, NewestFirst, TTLMeasuresSilence, NoTTL
<1> QED
  BY <1>2, <1>3, <1>4 DEF IInv

LEMMA EnqueueInv ==
    ASSUME IInv, NEW n \in Items, Enqueue(n)
    PROVE  IInv'
<1> USE MaxItemsAssumption, TimesAssumption
<1>1. /\ n \in Nat /\ 0 < n /\ puts + n <= MaxItems
      /\ puts \in Nat
      /\ list \in Seq(Items) /\ Len(list) \in Nat
      /\ DOMAIN list = 1..Len(list)
      /\ TypeOK
  BY LenProperties DEF Enqueue, IInv, TypeOK, Items
<1>2. list' = Pushed(Numbered(n))
  BY DEF Enqueue, Numbered
<1>3. /\ list' \in Seq(Items)
      /\ Len(list') = n + Len(list)
      /\ \A k \in 1..(n + Len(list)) :
           list'[k] = IF k <= n THEN puts + n - k + 1 ELSE list[k - n]
  BY <1>1, <1>2, PushedList
<1>4. ToSet(list') = ToSet(list) \cup (puts + 1)..(puts + n)
  BY <1>1, <1>2, PushedSet
<1>5. \A i \in 1..Len(list) : list[i] \in ToSet(list)
  BY <1>1 DEF ToSet
<1>6. TypeOK'
  BY <1>1, <1>3 DEF Enqueue, TypeOK, PushedTTL, NoTTL, IInv
<1>7. NothingLostUnseen'
  <2>1. /\ 1..(puts + n) = 1..puts \cup (puts + 1)..(puts + n)
        /\ 1..puts \cap (puts + 1)..(puts + n) = {}
    BY <1>1
  <2>2. puts' = puts + n /\ delivered' = delivered /\ expired' = expired
    BY DEF Enqueue
  <2> QED
    BY <1>4, <2>1, <2>2 DEF NothingLostUnseen, IInv
<1>8. NewestFirst'
  <2>1. SUFFICES ASSUME NEW i \in 1..(n + Len(list)),
                        NEW j \in 1..(n + Len(list)), i < j
                 PROVE  list'[i] > list'[j]
    BY <1>3 DEF NewestFirst
  <2>2. CASE j <= n
    BY <2>1, <2>2, <1>1, <1>3
  <2>3. CASE i <= n /\ ~(j <= n)
    <3>1. j - n \in 1..Len(list)
      BY <2>3, <1>1
    <3>2. list[j - n] \in 1..puts
      BY <3>1, <1>5 DEF NothingLostUnseen, IInv
    <3> QED
      BY <2>3, <3>2, <1>1, <1>3
  <2>4. CASE ~(i <= n)
    <3>1. i - n \in 1..Len(list) /\ j - n \in 1..Len(list) /\ i - n < j - n
      BY <2>1, <2>4, <1>1
    <3>2. list[i - n] > list[j - n]
      BY <3>1 DEF NewestFirst, IInv
    <3> QED
      BY <2>1, <2>4, <3>2, <1>1, <1>3
  <2> QED
    BY <2>2, <2>3, <2>4, <1>1
<1>9. TTLMeasuresSilence'
  <2>1. list' # <<>>
    BY <1>1, <1>3, EmptySeq
  <2> QED
    BY <2>1 DEF Enqueue, PushedTTL, TTLMeasuresSilence
<1> QED
  BY <1>6, <1>7, <1>8, <1>9 DEF IInv

LEMMA DequeueInv ==
    ASSUME IInv, NEW batch \in Batches, Dequeue(batch)
    PROVE  IInv'
<1> USE MaxItemsAssumption, TimesAssumption
<1>1. /\ list' = Kept(batch)
      /\ delivered' = delivered \cup ToSet(Handed(batch))
      /\ UNCHANGED <<silence, puts, expired>>
  BY DEF Dequeue
<1>2. /\ Taken(batch) \in 0..Len(list)
      /\ Len(list) \in Nat
      /\ list' \in Seq(Items)
      /\ Len(list') = Len(list) - Taken(batch)
      /\ \A k \in 1..(Len(list) - Taken(batch)) :
           list'[k] = list[Taken(batch) + k]
  BY <1>1, SplitList, LenProperties DEF IInv, TypeOK
<1>3. /\ ToSet(Handed(batch)) \cup ToSet(list') = ToSet(list)
      /\ ToSet(Handed(batch)) \cap ToSet(list') = {}
  BY <1>1, SplitSet DEF IInv
<1>4. 1..puts \subseteq Items
  BY DEF IInv, TypeOK, Items
<1>5. ToSet(Handed(batch)) \subseteq Items
  BY <1>3, <1>4 DEF IInv, NothingLostUnseen
<1>6. TypeOK'
  BY <1>1, <1>2, <1>5 DEF Dequeue, IInv, TypeOK, NoTTL
<1>7. NothingLostUnseen'
  BY <1>1, <1>3 DEF IInv, NothingLostUnseen
<1>8. NewestFirst'
  <2>1. SUFFICES ASSUME NEW i \in 1..Len(list'), NEW j \in 1..Len(list'), i < j
                 PROVE  list'[i] > list'[j]
    BY DEF NewestFirst
  <2>2. /\ Taken(batch) + i \in 1..Len(list)
        /\ Taken(batch) + j \in 1..Len(list)
        /\ Taken(batch) + i < Taken(batch) + j
    BY <2>1, <1>2
  <2>3. list[Taken(batch) + i] > list[Taken(batch) + j]
    BY <2>2 DEF IInv, NewestFirst
  <2> QED
    BY <2>1, <2>3, <1>2
<1>9. TTLMeasuresSilence'
  BY <1>1 DEF Dequeue, IInv, TTLMeasuresSilence, NoTTL
<1> QED
  BY <1>6, <1>7, <1>8, <1>9 DEF IInv

LEMMA TickInv ==
    ASSUME IInv, Tick
    PROVE  IInv'
<1> USE MaxItemsAssumption, TimesAssumption
<1>1. CASE KeyEnds
  <2>1. /\ ttl' = NoTTL /\ list' = <<>>
        /\ expired' = expired \cup ToSet(list)
        /\ UNCHANGED <<puts, delivered>>
        /\ silence' = IF silence < QueueTTL THEN silence + 1 ELSE silence
    BY <1>1 DEF Tick
  <2>2. ToSet(list') = {} /\ Len(list') = 0
    BY <2>1 DEF ToSet
  <2>3. ToSet(list) \subseteq Items
    BY DEF IInv, NothingLostUnseen, TypeOK, Items
  <2>4. TypeOK'
    BY <2>1, <2>3, EmptySeq DEF IInv, TypeOK, NoTTL
  <2>5. NothingLostUnseen'
    BY <2>1, <2>2 DEF IInv, NothingLostUnseen
  <2>6. NewestFirst' /\ TTLMeasuresSilence'
    BY <2>1, <2>2 DEF NewestFirst, TTLMeasuresSilence
  <2> QED
    BY <2>4, <2>5, <2>6 DEF IInv
<1>2. CASE ~KeyEnds
  <2>1. /\ ttl' = IF ttl = NoTTL THEN NoTTL ELSE ttl - 1
        /\ silence' = IF silence < QueueTTL THEN silence + 1 ELSE silence
        /\ UNCHANGED <<list, expired, puts, delivered>>
    BY <1>2 DEF Tick
  <2>2. ttl # 1
    BY <1>2 DEF KeyEnds
  <2>3. TypeOK'
    BY <2>1, <2>2 DEF IInv, TypeOK, NoTTL
  <2>4. NothingLostUnseen' /\ NewestFirst'
    BY <2>1 DEF IInv, NothingLostUnseen, NewestFirst
  <2>5. TTLMeasuresSilence'
    BY <2>1, <2>2 DEF IInv, TypeOK, TTLMeasuresSilence, NoTTL
  <2> QED
    BY <2>3, <2>4, <2>5 DEF IInv
<1> QED
  BY <1>1, <1>2

LEMMA NextInv == IInv /\ [Next]_vars => IInv'
<1> SUFFICES ASSUME IInv, [Next]_vars
             PROVE  IInv'
  OBVIOUS
<1>1. CASE \E n \in Items : Enqueue(n)
  BY <1>1, EnqueueInv
<1>2. CASE \E batch \in Batches : Dequeue(batch)
  BY <1>2, DequeueInv
<1>3. CASE Tick
  BY <1>3, TickInv
<1>4. CASE UNCHANGED vars
  BY <1>4 DEF vars, IInv, TypeOK, NothingLostUnseen, NewestFirst,
              TTLMeasuresSilence
<1> QED
  BY <1>1, <1>2, <1>3, <1>4 DEF Next

\* Every reachable state satisfies the inductive invariant.
THEOREM Invariance == Spec => []IInv
  BY InitInv, NextInv, PTL DEF Spec

\* The variables of the queue stay within their types (queue.py:39-82).
THEOREM TypeCorrect == Spec => []TypeOK
<1>1. IInv => TypeOK
  BY DEF IInv
<1> QED
  BY <1>1, Invariance, PTL

\* Whatever the mix of pushes, dequeues and expiries, every item put is in the
\* list, with exactly one consumer, or expired (queue.py:39-71).
THEOREM Conservation == Spec => []NothingLostUnseen
<1>1. IInv => NothingLostUnseen
  BY DEF IInv
<1> QED
  BY <1>1, Invariance, PTL

\* The list is always in reverse order of arrival (queue.py:52-58).
THEOREM Order == Spec => []NewestFirst
<1>1. IInv => NewestFirst
  BY DEF IInv
<1> QED
  BY <1>1, Invariance, PTL

\* A key with a time to live is a list with items in it, and the time to live
\* is what is left of queue_ttl since the last put (queue.py:39-71).
THEOREM TTLIsRemainingSilence == Spec => []TTLMeasuresSilence
<1>1. IInv => TTLMeasuresSilence
  BY DEF IInv
<1> QED
  BY <1>1, Invariance, PTL

\* Data is dropped only after a whole queue_ttl without a put (queue.py:52-58):
\* the time to live of the key, where it has one, counts from the last put.
THEOREM ExpiryIsLate == Spec => ExpiryOnlyAfterSilence
<1>1. IInv /\ [Next]_vars => [expired' # expired => silence' = QueueTTL]_vars
  <2>1. SUFFICES ASSUME IInv, [Next]_vars, expired' # expired
                 PROVE  silence' = QueueTTL
    OBVIOUS
  <2>2. Tick /\ KeyEnds
    BY <2>1 DEF Next, Enqueue, Dequeue, Tick, vars
  <2>3. ttl = 1 /\ ttl # NoTTL
    BY <2>2 DEF KeyEnds, NoTTL
  <2>4. silence = QueueTTL - 1
    BY <2>1, <2>3, TimesAssumption DEF IInv, TypeOK, TTLMeasuresSilence
  <2> QED
    BY <2>2, <2>4, TimesAssumption DEF Tick
<1> QED
  BY <1>1, Invariance, PTL DEF Spec, ExpiryOnlyAfterSilence

-----------------------------------------------------------------------------
\* The Redis list implements the at-most-once queue: an Enqueue is a Put, a
\* Dequeue is a Take, an expiry is a Lose, any other Tick a stutter.
THEOREM Refinement == Spec => ImplementsAtMostOnce
<1> USE MaxItemsAssumption
<1>1. Init => Abstract!Init
  BY DEF Init, Abstract!Init, ToSet
<1>2. IInv /\ [Next]_vars => [Abstract!Next]_(Abstract!vars)
  <2> SUFFICES ASSUME IInv, [Next]_vars
               PROVE  [Abstract!Next]_(Abstract!vars)
    OBVIOUS
  <2>1. ASSUME NEW n \in Items, Enqueue(n)
        PROVE  Abstract!Next
    <3> DEFINE S == (puts + 1)..(puts + n)
    <3>1. /\ n \in Nat /\ 0 < n /\ puts + n <= MaxItems /\ puts \in Nat
          /\ TypeOK
      BY <2>1 DEF Enqueue, IInv, TypeOK, Items
    <3>2. ToSet(list') = ToSet(list) \cup S
      BY <2>1, <3>1, PushedSet DEF Enqueue, Numbered
    <3>3. S \subseteq Items /\ S \cap 1..puts = {}
      BY <3>1 DEF Items
    <3>4. Abstract!Put(S)
      BY <2>1, <3>2, <3>3
      DEF Abstract!Put, Abstract!Fresh, Enqueue, IInv, NothingLostUnseen
    <3> QED
      BY <3>3, <3>4 DEF Abstract!Next
  <2>2. ASSUME NEW batch \in Batches, Dequeue(batch)
        PROVE  Abstract!Next
    <3> DEFINE S == ToSet(Handed(batch))
    <3>1. /\ S \cup ToSet(list') = ToSet(list)
          /\ S \cap ToSet(list') = {}
      BY <2>2, SplitSet DEF IInv, Dequeue
    <3>2. ToSet(list) \subseteq Items
      BY DEF IInv, NothingLostUnseen, TypeOK, Items
    <3>3. Abstract!Take(S)
      BY <2>2, <3>1 DEF Abstract!Take, Dequeue
    <3> QED
      BY <3>1, <3>2, <3>3 DEF Abstract!Next
  <2>3. ASSUME Tick
        PROVE  Abstract!Next \/ UNCHANGED Abstract!vars
    <3>1. CASE KeyEnds
      <4>1. ToSet(list') = {}
        BY <2>3, <3>1 DEF Tick, ToSet
      <4>2. ToSet(list) \subseteq Items
        BY DEF IInv, NothingLostUnseen, TypeOK, Items
      <4>3. Abstract!Lose(ToSet(list))
        BY <2>3, <3>1, <4>1 DEF Abstract!Lose, Tick
      <4> QED
        BY <4>2, <4>3 DEF Abstract!Next
    <3>2. CASE ~KeyEnds
      BY <2>3, <3>2 DEF Tick, Abstract!vars
    <3> QED
      BY <3>1, <3>2
  <2>4. CASE UNCHANGED vars
    BY <2>4 DEF vars, Abstract!vars
  <2> QED
    BY <2>1, <2>2, <2>3, <2>4 DEF Next
<1> QED
  BY <1>1, <1>2, Invariance, PTL DEF Spec, ImplementsAtMostOnce, Abstract!Spec
=============================================================================
