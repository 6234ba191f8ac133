------------------------------ MODULE Fragment ------------------------------
(***************************************************************************)
(* ReadEvent and BuildFragment: which of the buffered events go into the   *)
(* fragment of a trigger, and which stay.                                  *)
(*                                                                         *)
(* The buffer is the sequence of the times of its events, which may come   *)
(* in any order; an event is known by its position.  A fragment and what   *)
(* stays in the buffer are sets of positions, both kept in the order of    *)
(* the buffer.                                                             *)
(***************************************************************************)
EXTENDS Integers, Sequences

Triggers == [startTime : Nat, endTime : Nat]

\* The buffer has gone past the trigger, by the delay that late events have.
Ready(buffer, trigger, delay) ==
  Len(buffer) > 0 /\ buffer[Len(buffer)] > trigger.endTime + delay

Wanted(buffer, trigger) ==
  {i \in DOMAIN buffer : /\ buffer[i] >= trigger.startTime
                         /\ buffer[i] < trigger.endTime}

\* The last event wanted, or the first in the buffer if there is none.
LastPacket(buffer, trigger) ==
  IF Wanted(buffer, trigger) = {} THEN 1
  ELSE CHOOSE i \in Wanted(buffer, trigger) :
         \A j \in Wanted(buffer, trigger) : j <= i

\* Events up to the last packet leave the buffer, and those that are too new
\* go back into it.
Passed(buffer, trigger) == 1..LastPacket(buffer, trigger)

EventsToWrite(buffer, trigger) ==
  {i \in Passed(buffer, trigger) : /\ buffer[i] >= trigger.startTime
                                   /\ ~(buffer[i] >= trigger.endTime)}

EventsToPutBack(buffer, trigger) ==
  {i \in Passed(buffer, trigger) : /\ buffer[i] >= trigger.startTime
                                   /\ buffer[i] >= trigger.endTime}

Kept(buffer, trigger) ==
  (DOMAIN buffer \ Passed(buffer, trigger)) \cup EventsToPutBack(buffer, trigger)

\* What a fragment is for (DeviceInterface.cxx:493-597), also if the buffer is
\* not in order of time: it has exactly the events of the trigger's window,
\* none of them stays for the next, and what is neither written nor kept is
\* older than the window.
FragmentIsWindow(buffer, trigger) ==
  /\ EventsToWrite(buffer, trigger) = Wanted(buffer, trigger)
  /\ Kept(buffer, trigger) \cap Wanted(buffer, trigger) = {}
  /\ \A i \in DOMAIN buffer :
       \/ i \in Kept(buffer, trigger)
       \/ i \in Wanted(buffer, trigger)
       \/ buffer[i] < trigger.startTime
=============================================================================
