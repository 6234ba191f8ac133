-------------------------------- MODULE Fifo --------------------------------
(***************************************************************************)
(* What SafeQueue promises its threads: a first-in first-out queue.  A     *)
(* taker that asks gets the front of the queue, or is told that there is   *)
(* nothing, which it is only while the queue is empty.                     *)
(***************************************************************************)
EXTENDS Sequences

CONSTANTS Takers, Items, Pending, Nothing

VARIABLES contents,
          result     \* of each taker's last call, or Pending

vars == <<contents, result>>

Init == /\ contents = <<>>
        /\ result = [t \in Takers |-> Nothing]

Push(x) == /\ contents' = Append(contents, x)
           /\ UNCHANGED result

Ask(t) == /\ result[t] # Pending
          /\ result' = [result EXCEPT ![t] = Pending]
          /\ UNCHANGED contents

Take(t) == /\ result[t] = Pending
           /\ contents # <<>>
           /\ result' = [result EXCEPT ![t] = Head(contents)]
           /\ contents' = Tail(contents)

GiveUp(t) == /\ result[t] = Pending
             /\ contents = <<>>
             /\ result' = [result EXCEPT ![t] = Nothing]
             /\ UNCHANGED contents

Next == \/ \E x \in Items : Push(x)
        \/ \E t \in Takers : Ask(t) \/ Take(t) \/ GiveUp(t)

Spec == Init /\ [][Next]_vars
=============================================================================
