---------------------------- MODULE MCDataTaking ----------------------------
(***************************************************************************)
(* Offsets of zero, and one that takes the time of the first event, but    *)
(* not that of the second, below zero.                                     *)
(*                                                                         *)
(* The algorithms that no action of DataTaking reaches are evaluated for   *)
(* all short buffers, in any order of time, and every trigger.             *)
(***************************************************************************)
EXTENDS DataTaking

F == INSTANCE Fragment

MCOffsets == {0, -80}

\* Every unsigned long survives the four words of the header.
ASSUME RoundTrip ==
  \A x \in 0..W4 - 1 : GetTimestamp(SetExternalTimestamp(Stamp(NoEvent), x)) = x

\* BuildFragment against what a fragment is for.
ASSUME FragmentsAreWindows ==
  \A buffer \in UNION {[1..n -> 0..4] : n \in 1..4}, start, end \in 0..5 :
    F!FragmentIsWindow(buffer, [startTime |-> start, endTime |-> end])
=============================================================================
