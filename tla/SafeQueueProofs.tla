-------------------------- MODULE SafeQueueProofs --------------------------
(***************************************************************************)
(* Theorems about SafeQueue, for any finite sets of producers and          *)
(* consumers, any items and any bound on the length of the queue.          *)
(***************************************************************************)
EXTENDS SafeQueue, FiniteSetTheorems, TLAPS

LEMMA TypeInit == Init => TypeOK
  BY CapacityAssumption, ResultAssumption DEF Init, TypeOK

\* Taking the front leaves a shorter queue, and the taker with an element.
LEMMA FrontTaken ==
  ASSUME TypeOK, NEW c \in Consumers, TakeFront(c)
  PROVE  /\ queue_' \in Seq(Items)
         /\ Len(queue_') = Len(queue_) - 1
         /\ Len(queue_) \in Nat
         /\ Head(queue_) \in Items
<1>1. queue_ \in Seq(Items) /\ queue_ # <<>> /\ queue_' = Tail(queue_)
  BY DEF TypeOK, TakeFront, WithoutFront
<1> QED
  BY <1>1

LEMMA TypeStep == TypeOK /\ [Next]_vars => TypeOK'
<1> SUFFICES ASSUME TypeOK, [Next]_vars PROVE TypeOK'
  OBVIOUS
<1> USE DEF TypeOK
<1>1. ASSUME NEW p \in Producers, NEW x \in Items, Push(p, x) PROVE TypeOK'
  <2>1. queue_' \in Seq(Items) /\ Len(queue_') <= Capacity
    BY <1>1, CapacityAssumption DEF Push
  <2> QED
    BY <1>1, <2>1 DEF Push
<1>2. ASSUME NEW p \in Producers, NotifyOne(p) PROVE TypeOK'
  <2>1. PICK w \in Woken : pc' = [c \in Consumers |-> IF c \in w THEN "check" ELSE pc[c]]
    BY <1>2 DEF NotifyOne
  <2>2. \A c \in w : c \in Consumers /\ pc[c] = "asleep"
    BY <2>1 DEF Woken, Asleep
  <2> QED
    BY <1>2, <2>1, <2>2 DEF NotifyOne
<1>3. ASSUME NEW c \in Consumers, NEW f \in Calls, Begin(c, f) PROVE TypeOK'
  <2>1. f \in {"pop", "try_pop", "purge"}
    BY CallsAssumption
  <2> QED
    BY <1>3, <2>1 DEF Begin, Goes
<1>4. ASSUME NEW c \in Consumers, TakeFront(c), pc[c] \in {"check", "timedOut"}
      PROVE  TypeOK'
  <2>1. queue_' \in Seq(Items) /\ Len(queue_') <= Capacity /\ Head(queue_) \in Items
    BY <1>4, FrontTaken, CapacityAssumption
  <2>2. result' = [result EXCEPT ![c] = Head(queue_)] /\ Head(queue_) # Pending
    BY <1>4, <2>1, ResultAssumption DEF TakeFront
  <2>3. pc' = [pc EXCEPT ![c] = AfterTake(c)] /\ AfterTake(c) \in {"size", "out"}
    BY <1>4 DEF TakeFront, Goes, AfterTake
  <2> QED
    BY <1>4, <2>1, <2>2, <2>3 DEF TakeFront
<1>5. ASSUME NEW c \in Consumers, Check(c) PROVE TypeOK'
  <2>1. CASE TakeFront(c)
    BY <1>4, <1>5, <2>1 DEF Check
  <2>2. CASE Goes(c, "asleep") /\ UNCHANGED <<queue_, notifying, call, result>>
    BY <1>5, <2>2 DEF Check, Goes
  <2> QED
    BY <1>5, <2>1, <2>2 DEF Check
<1>6. ASSUME NEW c \in Consumers, LastCheck(c) PROVE TypeOK'
  <2>1. CASE TakeFront(c)
    BY <1>4, <1>6, <2>1 DEF LastCheck
  <2>2. CASE /\ result' = [result EXCEPT ![c] = Nothing]
             /\ Goes(c, "out")
             /\ UNCHANGED <<queue_, notifying, call>>
    BY <1>6, <2>2, ResultAssumption DEF LastCheck, Goes
  <2> QED
    BY <1>6, <2>1, <2>2 DEF LastCheck
<1>7. ASSUME NEW c \in Consumers, Size(c) PROVE TypeOK'
  BY <1>7 DEF Size, Goes
<1>8. ASSUME NEW c \in Consumers, WakeUnnotified(c) \/ Timeout(c) PROVE TypeOK'
  BY <1>8 DEF WakeUnnotified, Timeout, Goes
<1>9. CASE UNCHANGED vars
  BY <1>9 DEF vars
<1> QED
  BY <1>1, <1>2, <1>3, <1>5, <1>6, <1>7, <1>8, <1>9 DEF Next, Step

\* The state of a queue and its threads is always well formed; in particular a
\* call has a result exactly when it is over (SafeQueue.hpp:30-76).
THEOREM TypeCorrect == Spec => []TypeOK
  BY TypeInit, TypeStep, PTL DEF Spec
-----------------------------------------------------------------------------
(***************************************************************************)
(* No lost wake-up                                                         *)
(***************************************************************************)
\* Consumers on their way to the queue.
Coming == {c \in Consumers : pc[c] \in {"check", "timedOut"}}

LEMMA FiniteThreads ==
  ASSUME TypeOK
  PROVE  /\ IsFiniteSet(notifying) /\ Cardinality(notifying) \in Nat
         /\ IsFiniteSet(Coming) /\ Cardinality(Coming) \in Nat
<1>1. notifying \in SUBSET Producers /\ Coming \in SUBSET Consumers
  BY DEF TypeOK, Coming
<1>2. IsFiniteSet(notifying) /\ IsFiniteSet(Coming)
  BY <1>1, ThreadsAssumption, FS_Subset
<1> QED
  BY <1>2, FS_CardinalityType

\* Threads that leave or come one at a time change the counts by one.
LEMMA Counts ==
  ASSUME TypeOK, TypeOK'
  PROVE  /\ Coming \subseteq Coming' => Cardinality(Coming) <= Cardinality(Coming')
         /\ \A c : Coming \ {c} \subseteq Coming'
                     => Cardinality(Coming) - 1 <= Cardinality(Coming')
         /\ \A c : c \notin Coming /\ Coming \cup {c} \subseteq Coming'
                     => Cardinality(Coming) + 1 <= Cardinality(Coming')
<1>1. /\ IsFiniteSet(Coming) /\ Cardinality(Coming) \in Nat
      /\ IsFiniteSet(Coming') /\ Cardinality(Coming') \in Nat
  <2>1. Coming' \in SUBSET Consumers
    BY DEF Coming
  <2>2. IsFiniteSet(Coming')
    BY <2>1, ThreadsAssumption, FS_Subset
  <2> QED
    BY <2>2, FiniteThreads, FS_CardinalityType
<1>2. ASSUME NEW S, S \subseteq Coming'
      PROVE  Cardinality(S) <= Cardinality(Coming')
  BY <1>1, <1>2, FS_Subset
<1>3. ASSUME NEW c, Coming \ {c} \subseteq Coming'
      PROVE  Cardinality(Coming) - 1 <= Cardinality(Coming')
  <2>1. Cardinality(Coming \ {c}) \in {Cardinality(Coming) - 1, Cardinality(Coming)}
    BY <1>1, FS_RemoveElement
  <2>2. Cardinality(Coming \ {c}) <= Cardinality(Coming')
    BY <1>2, <1>3
  <2> QED
    BY <1>1, <2>1, <2>2
<1>4. ASSUME NEW c, c \notin Coming, Coming \cup {c} \subseteq Coming'
      PROVE  Cardinality(Coming) + 1 <= Cardinality(Coming')
  <2>1. Cardinality(Coming \cup {c}) = Cardinality(Coming) + 1
    BY <1>1, <1>4, FS_AddElement
  <2>2. Cardinality(Coming \cup {c}) <= Cardinality(Coming')
    BY <1>2, <1>4
  <2> QED
    BY <2>1, <2>2
<1> QED
  BY <1>2, <1>3, <1>4

LEMMA WakeupKept ==
  ASSUME TypeOK, TypeOK', NoLostWakeup, [Next]_vars
  PROVE  NoLostWakeup'
<1> DEFINE n == Cardinality(notifying)
           k == Cardinality(Coming)
           l == Len(queue_)
<1>1. n \in Nat /\ k \in Nat /\ l \in Nat /\ n' \in Nat /\ k' \in Nat /\ l' \in Nat
  <2>1. notifying' \in SUBSET Producers /\ Coming' \in SUBSET Consumers
    BY DEF TypeOK, Coming
  <2>2. IsFiniteSet(notifying') /\ IsFiniteSet(Coming')
    BY <2>1, ThreadsAssumption, FS_Subset
  <2> QED
    BY <2>2, FiniteThreads, FS_CardinalityType DEF TypeOK
<1>2. /\ NoLostWakeup  <=> (Asleep  # {} => l  <= n  + k )
      /\ NoLostWakeup' <=> (Asleep' # {} => l' <= n' + k')
  BY DEF NoLostWakeup, Coming
<1>3. ASSUME NEW p \in Producers, NEW x \in Items, Push(p, x) PROVE NoLostWakeup'
  <2>1. l' = l + 1
    BY <1>3 DEF Push, TypeOK
  <2>2. n' = n + 1
    BY <1>3, FiniteThreads, FS_AddElement DEF Push
  <2>3. Asleep' = Asleep /\ k' = k
    BY <1>3 DEF Push, Asleep, Coming
  <2> QED
    BY <1>1, <1>2, <2>1, <2>2, <2>3
<1>4. ASSUME NEW p \in Producers, NotifyOne(p) PROVE NoLostWakeup'
  <2>1. PICK w \in Woken : pc' = [c \in Consumers |-> IF c \in w THEN "check" ELSE pc[c]]
    BY <1>4 DEF NotifyOne
  <2>2. l' = l
    BY <1>4 DEF NotifyOne
  <2>3. n' = n - 1
    BY <1>4, FiniteThreads, FS_RemoveElement DEF NotifyOne
  <2>4. CASE Asleep = {}
    <3>1. Asleep' = {}
      BY <2>1, <2>4 DEF Woken, Asleep
    <3> QED
      BY <1>2, <3>1
  <2>5. CASE Asleep # {}
    <3>1. PICK c \in Asleep : w = {c}
      BY <2>1, <2>5 DEF Woken
    <3>2. c \notin Coming /\ Coming \cup {c} \subseteq Coming'
      BY <2>1, <3>1 DEF Asleep, Coming
    <3>3. k + 1 <= k'
      BY <3>2, Counts
    <3> QED
      BY <1>1, <1>2, <2>2, <2>3, <2>5, <3>3
  <2> QED
    BY <2>4, <2>5
<1>5. ASSUME l' = l, n' = n, Asleep' \subseteq Asleep, Coming \subseteq Coming'
      PROVE  NoLostWakeup'
  <2>1. k <= k'
    BY <1>5, Counts
  <2>2. Asleep' # {} => Asleep # {}
    BY <1>5
  <2> QED
    BY <1>1, <1>2, <1>5, <2>1, <2>2
<1>6. ASSUME NEW c \in Consumers, NEW f \in Calls, Begin(c, f) PROVE NoLostWakeup'
  <2>1. l' = l /\ n' = n
    BY <1>6 DEF Begin
  <2>2. Asleep' \subseteq Asleep /\ Coming \subseteq Coming'
    BY <1>6 DEF Begin, Goes, Asleep, Coming, TypeOK
  <2> QED
    BY <1>5, <2>1, <2>2
<1>7. ASSUME NEW c \in Consumers, TakeFront(c) PROVE NoLostWakeup'
  <2>1. l' = l - 1
    BY <1>7, FrontTaken
  <2>2. n' = n
    BY <1>7 DEF TakeFront
  <2>3. AfterTake(c) \in {"size", "out"} /\ pc' = [pc EXCEPT ![c] = AfterTake(c)]
    BY <1>7 DEF TakeFront, Goes, AfterTake
  <2>4. Asleep' \subseteq Asleep /\ Coming \ {c} \subseteq Coming'
    BY <2>3 DEF Asleep, Coming, TypeOK
  <2>5. k - 1 <= k'
    BY <2>4, Counts
  <2>6. Asleep' # {} => Asleep # {}
    BY <2>4
  <2> QED
    BY <1>1, <1>2, <2>1, <2>2, <2>5, <2>6
<1>8. ASSUME queue_ = <<>>, UNCHANGED queue_ PROVE NoLostWakeup'
  <2>1. l' = 0
    BY <1>8
  <2> QED
    BY <1>1, <1>2, <2>1
<1>9. ASSUME NEW c \in Consumers, Check(c) \/ LastCheck(c) PROVE NoLostWakeup'
  <2>1. TakeFront(c) \/ (queue_ = <<>> /\ UNCHANGED queue_)
    BY <1>9 DEF Check, LastCheck, NothingThere
  <2> QED
    BY <1>7, <1>8, <2>1
<1>10. ASSUME NEW c \in Consumers, Size(c) \/ WakeUnnotified(c) \/ Timeout(c)
       PROVE  NoLostWakeup'
  <2>1. l' = l /\ n' = n
    BY <1>10 DEF Size, WakeUnnotified, Timeout
  <2>2. Asleep' \subseteq Asleep /\ Coming \subseteq Coming'
    BY <1>10 DEF Size, WakeUnnotified, Timeout, Goes, Asleep, Coming, TypeOK
  <2> QED
    BY <1>5, <2>1, <2>2
<1>11. CASE UNCHANGED vars
  <2>1. l' = l /\ n' = n /\ Asleep' = Asleep /\ Coming' = Coming
    BY <1>11 DEF vars, Asleep, Coming
  <2> QED
    BY <1>5, <2>1
<1> QED
  BY <1>3, <1>4, <1>6, <1>9, <1>10, <1>11 DEF Next, Step

\* While a consumer sleeps, every element in the queue has a push that has yet
\* to notify, or a consumer on its way to it, however many threads there are
\* (SafeQueue.hpp:33-75, where push notifies outside the mutex).
THEOREM WakeupNeverLost == Spec => []NoLostWakeup
<1>1. Init => NoLostWakeup
  BY DEF Init, NoLostWakeup, Asleep
<1> QED
  BY <1>1, TypeInit, TypeStep, WakeupKept, PTL DEF Spec
-----------------------------------------------------------------------------
(***************************************************************************)
(* The queue is a Fifo                                                     *)
(***************************************************************************)
LEMMA StepMapped ==
  ASSUME TypeOK, [Next]_vars
  PROVE  [Abstract!Next]_(Abstract!vars)
<1> USE DEF Abstract!Next, Abstract!vars
<1>1. ASSUME NEW p \in Producers, NEW x \in Items, Push(p, x)
      PROVE  Abstract!Push(x)
  BY <1>1 DEF Push, Abstract!Push
<1>2. ASSUME NEW c \in Consumers, NEW f \in Calls, Begin(c, f)
      PROVE  [Abstract!Next]_(Abstract!vars)
  <2>1. result[c] # Pending
    BY <1>2 DEF Begin, TypeOK
  <2>2. Abstract!Ask(c) \/ UNCHANGED <<queue_, result>>
    BY <1>2, <2>1 DEF Begin, Abstract!Ask
  <2> QED
    BY <2>2
<1>3. ASSUME NEW c \in Consumers, TakeFront(c), pc[c] \in {"check", "timedOut"}
      PROVE  Abstract!Take(c)
  <2>1. result[c] = Pending
    BY <1>3 DEF TypeOK
  <2> QED
    BY <1>3, <2>1 DEF TakeFront, WithoutFront, Abstract!Take
<1>4. ASSUME NEW c \in Consumers, Check(c)
      PROVE  Abstract!Take(c) \/ UNCHANGED <<queue_, result>>
  BY <1>3, <1>4 DEF Check
<1>5. ASSUME NEW c \in Consumers, LastCheck(c)
      PROVE  Abstract!Take(c) \/ Abstract!GiveUp(c)
  <2>1. result[c] = Pending
    BY <1>5 DEF LastCheck, TypeOK
  <2> QED
    BY <1>3, <1>5, <2>1 DEF LastCheck, NothingThere, Abstract!GiveUp
<1>6. ASSUME NEW c \in Consumers, Size(c)
      PROVE  Abstract!Ask(c) \/ UNCHANGED <<queue_, result>>
  <2>1. result[c] # Pending
    BY <1>6 DEF Size, TypeOK
  <2> QED
    BY <1>6, <2>1 DEF Size, Abstract!Ask
<1>7. ASSUME NEW p \in Producers, NotifyOne(p) PROVE UNCHANGED <<queue_, result>>
  BY <1>7 DEF NotifyOne
<1>8. ASSUME NEW c \in Consumers, WakeUnnotified(c) \/ Timeout(c)
      PROVE  UNCHANGED <<queue_, result>>
  BY <1>8 DEF WakeUnnotified, Timeout
<1>9. CASE UNCHANGED vars
  BY <1>9 DEF vars
<1> QED
  BY <1>1, <1>2, <1>4, <1>5, <1>6, <1>7, <1>8, <1>9 DEF Next, Step

\* Elements come out once each and in order, and a try_pop that returns false
\* found nothing at that moment (SafeQueue.hpp:53), for any threads.
THEOREM Refinement == Spec => ImplementsFifo
<1>1. Init => Abstract!Init
  BY DEF Init, Abstract!Init
<1>2. TypeOK /\ [Next]_vars => [Abstract!Next]_(Abstract!vars)
  BY StepMapped
<1> QED
  BY <1>1, <1>2, TypeCorrect, PTL DEF Spec, ImplementsFifo, Abstract!Spec
=============================================================================
