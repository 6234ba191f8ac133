----------------------------- MODULE SafeQueue -----------------------------
(***************************************************************************)
(* SafeQueue: a queue under a mutex, with one condition variable that      *)
(* consumers wait on, in pop without limit and in try_pop for a time.      *)
(*                                                                         *)
(* Every section under the mutex is one action, since queue_ is touched    *)
(* nowhere else.  push notifies after it has unlocked: between the two     *)
(* anything may happen, and so it may between the moment a consumer is     *)
(* woken and the moment it has the mutex again.  A wait may end without a  *)
(* notification.                                                           *)
(*                                                                         *)
(* purge is EmulatedDevice::DevicePurgeData, the loop over size and pop.   *)
(***************************************************************************)
EXTENDS Naturals, Sequences, FiniteSets

CONSTANTS Producers, Consumers, Items,
          Calls,         \* the calls consumers make
          Capacity,      \* bound on the length of the queue
          Pending, Nothing

ASSUME ThreadsAssumption == IsFiniteSet(Producers) /\ IsFiniteSet(Consumers)
ASSUME CapacityAssumption == Capacity \in Nat
ASSUME CallsAssumption == Calls \subseteq {"pop", "try_pop", "purge"}
ASSUME ResultAssumption == /\ Pending \notin Items
                           /\ Nothing \notin Items
                           /\ Pending # Nothing

VARIABLES queue_,
          notifying,  \* producers between their unlock and their notify_one
          pc,         \* of each consumer: "out", "size", "check", "asleep", or
                      \* "timedOut"
          call,       \* the call each consumer is in
          result      \* what each consumer's last call returned

vars == <<queue_, notifying, pc, call, result>>
-----------------------------------------------------------------------------
Init == /\ queue_ = <<>>
        /\ notifying = {}
        /\ pc = [c \in Consumers |-> "out"]
        /\ call = [c \in Consumers |-> "pop"]
        /\ result = [c \in Consumers |-> Nothing]

Asleep == {c \in Consumers : pc[c] = "asleep"}

\* push: lock, append, unlock.
Push(p, x) == /\ p \notin notifying
              /\ Len(queue_) < Capacity
              /\ queue_' = Append(queue_, x)
              /\ notifying' = notifying \cup {p}
              /\ UNCHANGED <<pc, call, result>>

\* Mutant: nobody is woken.
WokenNone == {{}}
Woken == IF Asleep = {} THEN {{}} ELSE {{c} : c \in Asleep}

\* push: notify_one, which wakes one waiting consumer if there is one.
NotifyOne(p) == /\ p \in notifying
                /\ notifying' = notifying \ {p}
                /\ \E w \in Woken :
                     pc' = [c \in Consumers |-> IF c \in w THEN "check"
                                                          ELSE pc[c]]
                /\ UNCHANGED <<queue_, call, result>>

Goes(c, where) == pc' = [pc EXCEPT ![c] = where]

\* A consumer calls; a purge looks at size first.
Begin(c, f) == /\ pc[c] = "out"
               /\ call' = [call EXCEPT ![c] = f]
               /\ IF f = "purge"
                    THEN Goes(c, "size") /\ UNCHANGED result
                    ELSE /\ Goes(c, "check")
                         /\ result' = [result EXCEPT ![c] = Pending]
               /\ UNCHANGED <<queue_, notifying>>

\* Mutant: the purge's loop has no condition.
WithoutFront(q) == Tail(q)
MoreToPurgeAlways(q) == TRUE
MoreToPurge(q) == q # <<>>

\* Mutant: the call is not over.
AfterTakeAgain(c) == IF call[c] = "purge" THEN "size" ELSE "check"
AfterTake(c) == IF call[c] = "purge" THEN "size" ELSE "out"

\* The predicate holds: move the front out, remove it, return; a purge goes on
\* with its loop, and its element is dropped.
TakeFront(c) ==
  /\ queue_ # <<>>
  /\ queue_' = WithoutFront(queue_)
  /\ result' = [result EXCEPT ![c] = Head(queue_)]
  /\ Goes(c, AfterTake(c))
  /\ UNCHANGED <<notifying, call>>

\* The predicate, under the mutex, before the wait and after each wake-up.
Check(c) == /\ pc[c] = "check"
            /\ \/ TakeFront(c)
               \/ /\ queue_ = <<>>
                  /\ Goes(c, "asleep")
                  /\ UNCHANGED <<queue_, notifying, call, result>>

WakeUnnotified(c) == /\ pc[c] = "asleep"
                     /\ Goes(c, "check")
                     /\ UNCHANGED <<queue_, notifying, call, result>>

Timeout(c) == /\ pc[c] = "asleep"
              /\ call[c] = "try_pop"
              /\ Goes(c, "timedOut")
              /\ UNCHANGED <<queue_, notifying, call, result>>

\* wait_for evaluates the predicate once more when the time is over.
\* Mutant: it does not.
NothingThereUnchecked == TRUE
NothingThere == queue_ = <<>>

LastCheck(c) == /\ pc[c] = "timedOut"
                /\ \/ ~NothingThere /\ TakeFront(c)
                   \/ /\ NothingThere
                      /\ result' = [result EXCEPT ![c] = Nothing]
                      /\ Goes(c, "out")
                      /\ UNCHANGED <<queue_, notifying, call>>

\* DevicePurgeData asks for the size before each pop.
Size(c) == /\ pc[c] = "size"
           /\ IF MoreToPurge(queue_)
                THEN /\ Goes(c, "check")
                     /\ result' = [result EXCEPT ![c] = Pending]
                ELSE Goes(c, "out") /\ UNCHANGED result
           /\ UNCHANGED <<queue_, notifying, call>>

Step(c) == Check(c) \/ LastCheck(c) \/ Size(c)

Next == \/ \E p \in Producers : NotifyOne(p) \/ \E x \in Items : Push(p, x)
        \/ \E c \in Consumers : \/ \E f \in Calls : Begin(c, f)
                                \/ Step(c)
                                \/ WakeUnnotified(c)
                                \/ Timeout(c)

Spec == Init /\ [][Next]_vars

\* A thread that is not waiting runs; nothing has to be pushed or called, and
\* no wait has to end by itself.
FairSpec == /\ Spec
            /\ \A p \in Producers : WF_vars(NotifyOne(p))
            /\ \A c \in Consumers : WF_vars(Step(c))
-----------------------------------------------------------------------------
TypeOK == /\ queue_ \in Seq(Items)
          /\ Len(queue_) <= Capacity
          /\ notifying \subseteq Producers
          /\ pc \in [Consumers -> {"out", "size", "check", "asleep", "timedOut"}]
          /\ call \in [Consumers -> {"pop", "try_pop", "purge"}]
          /\ result \in [Consumers -> Items \cup {Pending, Nothing}]
          /\ \A c \in Consumers :
               (result[c] = Pending) = (pc[c] \in {"check", "asleep", "timedOut"})

\* While a consumer sleeps, there is for every element in the queue a push that
\* has yet to notify or a consumer on its way to the queue, although push
\* notifies outside the mutex (67, 75) and a consumer that was notified may
\* have run out of time or find its element taken.
NoLostWakeup ==
  Asleep # {} =>
    Len(queue_) <= Cardinality(notifying)
                     + Cardinality({c \in Consumers :
                                      pc[c] \in {"check", "timedOut"}})

\* The only consumer, between its size and its pop, is not overtaken: its purge
\* never waits (EmulatedDevice.cxx:50-52 pops without limit).
PurgeNeverWaits ==
  \A c \in Consumers : call[c] = "purge" /\ Consumers = {c} => pc[c] # "asleep"

\* Elements come out once each, in order, and a try_pop that returns false
\* found the queue empty at that moment (SafeQueue.hpp:53).
Abstract == INSTANCE Fifo WITH Takers <- Consumers, contents <- queue_
ImplementsFifo == Abstract!Spec

\* A consumer that waits while there are elements does not wait for ever: some
\* consumer takes what there is, or none is left waiting.
SleepersServed ==
  (queue_ # <<>> /\ Asleep # {}) ~> (queue_ = <<>> \/ Asleep = {})
=============================================================================
