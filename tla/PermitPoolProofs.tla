--------------------------- MODULE PermitPoolProofs ---------------------------
(***************************************************************************)
(* The permit pool counts exactly and loses no wakeup, for any number of   *)
(* clients, any limit and any word size.                                   *)
(***************************************************************************)
EXTENDS PermitPool, FiniteSetTheorems, TLAPS

-----------------------------------------------------------------------------
(* Counting units.                                                         *)

Allotments == [Clients -> 0..MaxWord]

\* The units of an allotment form a finite set.
LEMMA UnitsFinite ==
  ASSUME NEW a \in Allotments
  PROVE  IsFiniteSet(UnitsOf(a)) /\ Cardinality(UnitsOf(a)) \in Nat
  <1>1. IsFiniteSet(1..MaxWord)
    BY FS_Interval, LimitAssumption
  <1>2. IsFiniteSet(Clients \X (1..MaxWord))
    BY <1>1, ClientsAssumption, FS_Product
  <1>3. UnitsOf(a) \in SUBSET (Clients \X (1..MaxWord))
    BY DEF UnitsOf
  <1>4. IsFiniteSet(UnitsOf(a))
    BY <1>2, <1>3, FS_Subset
  <1> QED
    BY <1>4, FS_CardinalityType

\* Giving n units to a client that has none adds n units.
LEMMA UnitsGrow ==
  ASSUME NEW a \in Allotments, NEW c \in Clients, a[c] = 0, NEW n \in 0..MaxWord
  PROVE  Cardinality(UnitsOf([a EXCEPT ![c] = n])) = Cardinality(UnitsOf(a)) + n
  <1> DEFINE b == [a EXCEPT ![c] = n]
             share == {c} \X (1..n)
  <1>1. b \in Allotments
    BY DEF Allotments
  <1>2. IsFiniteSet(share) /\ Cardinality(share) = n
    <2>1. n \in Nat
      BY LimitAssumption
    <2>2. IsFiniteSet(1..n) /\ Cardinality(1..n) = n
      BY <2>1, FS_Interval
    <2>3. IsFiniteSet({c}) /\ Cardinality({c}) = 1
      BY FS_Singleton
    <2>4. IsFiniteSet(share) /\ Cardinality(share) = Cardinality({c}) * Cardinality(1..n)
      BY <2>2, <2>3, FS_Product
    <2> QED
      BY <2>1, <2>2, <2>3, <2>4
  <1>3. UnitsOf(b) = UnitsOf(a) \cup share
    BY LimitAssumption DEF UnitsOf, Allotments
  <1>4. UnitsOf(a) \cap share = {}
    BY LimitAssumption DEF UnitsOf, Allotments
  <1>5. IsFiniteSet(UnitsOf(a)) /\ Cardinality(UnitsOf(a)) \in Nat
    BY UnitsFinite
  <1> HIDE DEF b, share
  <1>6. Cardinality(UnitsOf(a) \cup share)
          = Cardinality(UnitsOf(a)) + Cardinality(share) - Cardinality(UnitsOf(a) \cap share)
    BY <1>2, <1>5, FS_Union
  <1>7. Cardinality(UnitsOf(a) \cap share) = 0
    BY <1>4, FS_EmptySet, Zenon
  <1>8. Cardinality(UnitsOf(b)) = Cardinality(UnitsOf(a) \cup share)
    BY <1>3, Zenon
  <1>9. n \in Nat
    BY LimitAssumption
  <1>10. Cardinality(UnitsOf(b)) = Cardinality(UnitsOf(a)) + n
    <2> DEFINE x == Cardinality(UnitsOf(b))
               y == Cardinality(UnitsOf(a) \cup share)
               p == Cardinality(UnitsOf(a))
               q == Cardinality(share)
               r == Cardinality(UnitsOf(a) \cap share)
    <2>1. x = y /\ y = p + q - r /\ q = n /\ r = 0 /\ p \in Nat
      BY <1>2, <1>5, <1>6, <1>7, <1>8, Zenon
    <2> HIDE DEF x, y, p, q, r
    <2>2. x = p + n
      BY <2>1, <1>9
    <2> QED
      BY <2>2 DEF x, p
  <1> QED
    BY <1>10 DEF b

\* Taking all units of a client away removes exactly those.
LEMMA UnitsShrink ==
  ASSUME NEW a \in Allotments, NEW c \in Clients
  PROVE  Cardinality(UnitsOf([a EXCEPT ![c] = 0])) = Cardinality(UnitsOf(a)) - a[c]
  <1> DEFINE b == [a EXCEPT ![c] = 0]
  <1>1. b \in Allotments /\ b[c] = 0 /\ a[c] \in 0..MaxWord
    BY LimitAssumption DEF Allotments
  <1>2. a = [b EXCEPT ![c] = a[c]]
    BY DEF Allotments
  <1>3. Cardinality(UnitsOf(a)) = Cardinality(UnitsOf(b)) + a[c]
    BY <1>1, <1>2, UnitsGrow
  <1>4. Cardinality(UnitsOf(b)) \in Nat
    BY <1>1, UnitsFinite
  <1> QED
    BY <1>1, <1>3, <1>4, LimitAssumption

\* Moving one unit from c to d, which has none, keeps their number.
LEMMA UnitsMove ==
  ASSUME NEW a \in Allotments, NEW c \in Clients, NEW d \in Clients,
         c # d, a[c] > 0, a[d] = 0
  PROVE  Cardinality(UnitsOf([a EXCEPT ![c] = a[c] - 1, ![d] = 1])) = Cardinality(UnitsOf(a))
  <1> DEFINE b == [a EXCEPT ![c] = 0]
             e == [b EXCEPT ![c] = a[c] - 1]
             f == [e EXCEPT ![d] = 1]
  <1>1. a[c] \in 1..MaxWord /\ 1 \in 0..MaxWord /\ a[c] - 1 \in 0..MaxWord
    BY LimitAssumption DEF Allotments
  <1>2. b \in Allotments /\ b[c] = 0
    BY LimitAssumption DEF Allotments
  <1>3. e \in Allotments /\ e[d] = 0
    BY <1>1, <1>2 DEF Allotments
  <1>4. f = [a EXCEPT ![c] = a[c] - 1, ![d] = 1]
    BY DEF Allotments
  <1>5. Cardinality(UnitsOf(b)) = Cardinality(UnitsOf(a)) - a[c]
    BY UnitsShrink
  <1>6. Cardinality(UnitsOf(e)) = Cardinality(UnitsOf(b)) + (a[c] - 1)
    BY <1>1, <1>2, UnitsGrow
  <1>7. Cardinality(UnitsOf(f)) = Cardinality(UnitsOf(e)) + 1
    BY <1>1, <1>3, UnitsGrow
  <1>8. Cardinality(UnitsOf(a)) \in Nat
    BY UnitsFinite
  <1> HIDE DEF b, e, f
  <1>9. Cardinality(UnitsOf(f)) = Cardinality(UnitsOf(a))
    BY <1>1, <1>5, <1>6, <1>7, <1>8, LimitAssumption
  <1> QED
    BY <1>4, <1>9
-----------------------------------------------------------------------------
(* The inductive invariant.                                                *)

\* A client without a permit holds no units.
AmountsOfLive == \A c \in Clients : ~live[c] => amount[c] = 0

\* Only a client that has no future to poll owns a permit.
OwnersDoNotPoll == \A c \in Clients : live[c] => pc[c] \in {"idle", "ready"}

\* A future is pending from its enqueueing to its drop, which is before its
\* first attempt to acquire; and from its registration on, its waker is in
\* place or has been used.
PendingIsRegistered == \A f \in Clients : registered[f] <=> f \in pending
EnqueuedBeforeTry == \A f \in Clients : pc[f] \in {"try", "parked"} => f \in pending
ArmedBeforeTry ==
    \A f \in Clients : pc[f] \in {"enqueue", "try", "parked"} => waker[f] \/ sched[f]

IInv == /\ TypeOK /\ PoolIsExact /\ AmountsOfLive /\ OwnersDoNotPoll
        /\ PendingIsRegistered /\ EnqueuedBeforeTry /\ ArmedBeforeTry /\ NoLostWakeup

\* The invariant holds initially: no permit exists and nobody waits.
LEMMA InitIInv == Init => IInv
  <1> SUFFICES ASSUME Init PROVE IInv
    OBVIOUS
  <1> USE LimitAssumption DEF Init
  <1>1. TypeOK
    BY DEF TypeOK
  <1>2. Units = {}
    BY DEF Units, UnitsOf
  <1>3. PoolIsExact
    BY <1>2, FS_EmptySet DEF PoolIsExact
  <1>4. AmountsOfLive /\ OwnersDoNotPoll /\ PendingIsRegistered /\ EnqueuedBeforeTry
    BY DEF AmountsOfLive, OwnersDoNotPoll, PendingIsRegistered, EnqueuedBeforeTry
  <1>5. ArmedBeforeTry /\ NoLostWakeup
    BY DEF ArmedBeforeTry, NoLostWakeup
  <1> QED
    BY <1>1, <1>3, <1>4, <1>5 DEF IInv

\* A permit never holds more than the counter.
LEMMA AmountWithinUsed ==
  ASSUME TypeOK, PoolIsExact, NEW c \in Clients
  PROVE  amount[c] <= used
  <1>1. amount \in Allotments
    BY DEF TypeOK, Allotments
  <1>2. [amount EXCEPT ![c] = 0] \in Allotments
    BY <1>1, LimitAssumption DEF Allotments
  <1>3. Cardinality(UnitsOf([amount EXCEPT ![c] = 0])) \in Nat
    BY <1>2, UnitsFinite
  <1>4. Cardinality(UnitsOf([amount EXCEPT ![c] = 0])) = used - amount[c]
    BY <1>1, UnitsShrink DEF PoolIsExact, Units
  <1> QED
    BY <1>3, <1>4, LimitAssumption DEF TypeOK

\* acquire keeps the count exact and within the limit.
LEMMA TakeKeepsCount ==
  ASSUME IInv, NEW c \in Clients, NEW n \in 0..MaxWord, ~live[c], Take(c, n)
  PROVE  /\ used' \in 0..MaxWord /\ live' \in [Clients -> BOOLEAN]
         /\ amount' \in [Clients -> 0..MaxWord]
         /\ PoolIsExact' /\ AmountsOfLive'
  <1> USE LimitAssumption DEF IInv
  <1>1. used' \in 0..MaxWord /\ used' <= Limit
    BY DEF Take, Fits, TypeOK
  <1>2. live' \in [Clients -> BOOLEAN] /\ amount' \in [Clients -> 0..MaxWord]
    BY DEF Take, TypeOK
  <1>3. AmountsOfLive'
    BY DEF Take, TypeOK, AmountsOfLive
  <1>4. amount \in Allotments /\ amount[c] = 0
    BY DEF TypeOK, Allotments, AmountsOfLive
  <1>5. Cardinality(UnitsOf([amount EXCEPT ![c] = n])) = Cardinality(UnitsOf(amount)) + n
    BY <1>4, UnitsGrow
  <1>6. used' = Cardinality(Units')
    BY <1>5 DEF Take, PoolIsExact, Units, UnitsOf
  <1> QED
    BY <1>1, <1>2, <1>3, <1>6 DEF PoolIsExact

\* Every step keeps the invariant.
LEMMA NextIInv == IInv /\ [Next]_vars => IInv'
  <1> SUFFICES ASSUME IInv, [Next]_vars PROVE IInv'
    OBVIOUS
  <1> USE LimitAssumption DEF IInv
  <1> DEFINE Waiting == OwnersDoNotPoll /\ PendingIsRegistered /\ EnqueuedBeforeTry
                          /\ ArmedBeforeTry /\ NoLostWakeup
  <1>1. ASSUME NEW c \in Clients, NEW n \in Amounts, Acquire(c, n) PROVE IInv'
    <2>1. n \in 0..MaxWord /\ ~live[c] /\ Take(c, n)
      BY <1>1 DEF Acquire
    <2>2. TypeOK' /\ PoolIsExact' /\ AmountsOfLive'
      BY <1>1, <2>1, TakeKeepsCount DEF Acquire, TypeOK
    <2>3. Waiting'
      BY <1>1, <2>1 DEF Acquire, Take, Fits, TypeOK, OwnersDoNotPoll, PendingIsRegistered,
         EnqueuedBeforeTry, ArmedBeforeTry, NoLostWakeup
    <2> QED
      BY <2>2, <2>3
  <1>2. ASSUME NEW c \in Clients, NEW d \in Clients, SplitOne(c, d) PROVE IInv'
    <2>1. c # d /\ amount[c] > 0 /\ amount[d] = 0
      BY <1>2 DEF SplitOne, AmountsOfLive
    <2>2. TypeOK'
      BY <1>2, <2>1 DEF SplitOne, TypeOK
    <2>3. amount \in Allotments
      BY DEF TypeOK, Allotments
    <2>4. Cardinality(UnitsOf([amount EXCEPT ![c] = amount[c] - 1, ![d] = 1]))
            = Cardinality(UnitsOf(amount))
      BY <2>1, <2>3, UnitsMove
    <2>5. PoolIsExact'
      BY <1>2, <2>4 DEF SplitOne, PoolIsExact, Units, UnitsOf
    <2>6. AmountsOfLive'
      BY <1>2, <2>1 DEF SplitOne, AmountsOfLive, TypeOK
    <2>7. Waiting'
      BY <1>2 DEF SplitOne, Fits, TypeOK, OwnersDoNotPoll, PendingIsRegistered, EnqueuedBeforeTry,
         ArmedBeforeTry, NoLostWakeup
    <2> QED
      BY <2>2, <2>5, <2>6, <2>7
  <1>3. ASSUME NEW c \in Clients, DropPermit(c) PROVE IInv'
    <2>1. amount[c] <= used
      BY AmountWithinUsed
    <2>2. TypeOK'
      BY <1>3, <2>1 DEF DropPermit, ToWake, TypeOK
    <2>3. amount \in Allotments
      BY DEF TypeOK, Allotments
    <2>4. Cardinality(UnitsOf([amount EXCEPT ![c] = 0])) = Cardinality(UnitsOf(amount)) - amount[c]
      BY <2>3, UnitsShrink
    <2>5. used' = Cardinality(Units')
      BY <1>3, <2>4 DEF DropPermit, PoolIsExact, Units, UnitsOf
    <2>6. PoolIsExact'
      BY <1>3, <2>5 DEF DropPermit, PoolIsExact, TypeOK
    <2>7. AmountsOfLive'
      BY <1>3 DEF DropPermit, AmountsOfLive, TypeOK
    <2>8. (OwnersDoNotPoll /\ PendingIsRegistered /\ EnqueuedBeforeTry /\ ArmedBeforeTry)'
      BY <1>3 DEF DropPermit, OwnersDoNotPoll, PendingIsRegistered, EnqueuedBeforeTry, ArmedBeforeTry, TypeOK
    <2>9. NoLostWakeup'
      \* every parked future is pending, so the drop collects it
      BY <1>3 DEF DropPermit, ToWake, EnqueuedBeforeTry, NoLostWakeup, TypeOK
    <2> QED
      BY <2>2, <2>6, <2>7, <2>8, <2>9
  <1>4. ASSUME NEW c \in Clients, NEW f \in Clients, WakeOne(c, f) PROVE IInv'
    <2>1. TypeOK' /\ PoolIsExact' /\ AmountsOfLive'
      BY <1>4 DEF WakeOne, TypeOK, PoolIsExact, Units, UnitsOf, AmountsOfLive
    <2>2. (OwnersDoNotPoll /\ PendingIsRegistered /\ EnqueuedBeforeTry /\ ArmedBeforeTry)'
      BY <1>4 DEF WakeOne, TypeOK, OwnersDoNotPoll, PendingIsRegistered, EnqueuedBeforeTry, ArmedBeforeTry
    <2>3. NoLostWakeup'
      \* a parked future is armed, so the wake schedules it
      BY <1>4 DEF WakeOne, TypeOK, Fits, ArmedBeforeTry, NoLostWakeup
    <2> QED
      BY <2>1, <2>2, <2>3
  <1>5. ASSUME NEW c \in Clients, PollAcquire(c) PROVE IInv'
    <2>1. CASE Take(c, 1) /\ pc' = [pc EXCEPT ![c] = "ready"]
      <3>1. ~live[c] /\ 1 \in 0..MaxWord
        BY <1>5, <2>1 DEF PollAcquire, OwnersDoNotPoll, Take, Fits, TypeOK
      <3>2. TypeOK' /\ PoolIsExact' /\ AmountsOfLive'
        BY <1>5, <2>1, <3>1, TakeKeepsCount DEF PollAcquire, TypeOK
      <3>3. Waiting'
        BY <1>5, <2>1 DEF PollAcquire, Take, Fits, TypeOK, OwnersDoNotPoll,
           PendingIsRegistered, EnqueuedBeforeTry, ArmedBeforeTry, NoLostWakeup
      <3> QED
        BY <3>2, <3>3
    <2>2. CASE ~Fits(1) /\ pc' = [pc EXCEPT ![c] = "parked"] /\ UNCHANGED <<used, live, amount>>
      <3>1. TypeOK' /\ PoolIsExact' /\ AmountsOfLive'
        BY <1>5, <2>2 DEF PollAcquire, TypeOK, PoolIsExact, Units, UnitsOf, AmountsOfLive
      <3>2. Waiting'
        BY <1>5, <2>2 DEF PollAcquire, Fits, TypeOK, OwnersDoNotPoll, PendingIsRegistered,
           EnqueuedBeforeTry, ArmedBeforeTry, NoLostWakeup
      <3> QED
        BY <3>1, <3>2
    <2> QED
      BY <1>5, <2>1, <2>2 DEF PollAcquire
  <1>6. ASSUME NEW c \in Clients,
               \/ EndWakes(c) \/ NewFuture(c) \/ PollRegister(c) \/ PollEnqueue(c)
               \/ Repoll(c) \/ FinishFuture(c) \/ CancelFuture(c)
        PROVE IInv'
    <2> USE DEF EndWakes, NewFuture, PollRegister, PollEnqueue, Repoll, FinishFuture,
                CancelFuture, DropFuture
    <2>1. pending' \in SUBSET Clients /\ registered' \in [Clients -> BOOLEAN]
      BY <1>6 DEF TypeOK
    <2>2. waker' \in [Clients -> BOOLEAN] /\ sched' \in [Clients -> BOOLEAN]
      BY <1>6 DEF TypeOK
    <2>3. wakes' \in [Clients -> SUBSET Clients]
      BY <1>6 DEF TypeOK
    <2>4. TypeOK'
      BY <1>6, <2>1, <2>2, <2>3 DEF TypeOK
    <2>5. PoolIsExact' /\ AmountsOfLive'
      BY <1>6 DEF PoolIsExact, Units, UnitsOf, AmountsOfLive
    <2>6. (OwnersDoNotPoll /\ PendingIsRegistered /\ EnqueuedBeforeTry)'
      BY <1>6 DEF TypeOK, OwnersDoNotPoll, PendingIsRegistered, EnqueuedBeforeTry
    <2>7. (ArmedBeforeTry /\ NoLostWakeup)'
      BY <1>6 DEF TypeOK, Fits, ArmedBeforeTry, NoLostWakeup
    <2> QED
      BY <2>4, <2>5, <2>6, <2>7
  <1>7. CASE UNCHANGED vars
    BY <1>7 DEF vars, TypeOK, PoolIsExact, Units, UnitsOf, AmountsOfLive, OwnersDoNotPoll, Fits,
       PendingIsRegistered, EnqueuedBeforeTry, ArmedBeforeTry, NoLostWakeup
  <1> QED
    BY <1>1, <1>2, <1>3, <1>4, <1>5, <1>6, <1>7 DEF Next, PollStep, WakeStep

-----------------------------------------------------------------------------
\* The pool's state is well typed: the counter stays a machine word.
THEOREM TypeCorrect == Spec => []TypeOK
  <1>1. IInv => TypeOK
    BY DEF IInv
  <1> QED
    BY InitIInv, NextIInv, <1>1, PTL DEF Spec

\* acquire, split_one and drop keep the counter equal to the units that live
\* permits hold, and within the limit, for every limit and word size.
THEOREM PoolCountsExactly == Spec => []PoolIsExact
  <1>1. IInv => PoolIsExact
    BY DEF IInv
  <1> QED
    BY InitIInv, NextIInv, <1>1, PTL DEF Spec

\* No future that wait_for_render created sleeps while a slot is free and
\* nobody is about to wake it.
THEOREM WakeupsAreKept == Spec => []NoLostWakeup
  <1>1. IInv => NoLostWakeup
    BY DEF IInv
  <1> QED
    BY InitIInv, NextIInv, <1>1, PTL DEF Spec
=============================================================================
