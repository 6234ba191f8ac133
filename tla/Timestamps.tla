----------------------------- MODULE Timestamps -----------------------------
(***************************************************************************)
(* The time of an event: the header keeps it in four words, lowest first,  *)
(* and the read thread puts a third of it, shifted, in its place.          *)
(* A word has 2^16 values in the code, an unsigned long 2^64.              *)
(***************************************************************************)
EXTENDS Integers

CONSTANT WordBase   \* the values a word of the header can have

ASSUME WordBaseAssumption == WordBase \in Nat \ {0}

W2 == WordBase * WordBase
W3 == W2 * WordBase
W4 == W3 * WordBase       \* those of an unsigned long

Words == [0..3 -> 0..WordBase - 1]

\* fUseExternalTimestamp, as the constructor leaves it.
GetTimestamp(timestamp) ==
  (timestamp[0] + timestamp[1] * WordBase + timestamp[2] * W2 + timestamp[3] * W3) % W4

SetExternalTimestamp(timestamp, new) ==
  [w \in 0..3 |-> CASE w = 0 -> new % WordBase
                    [] w = 1 -> (new \div WordBase) % WordBase
                    [] w = 2 -> (new \div W2) % WordBase
                    [] w = 3 -> (new \div W3) % WordBase]

\* The offset is an int that is converted to unsigned long for the sum.
\* Mutant: divided by three before the offset is added.
CorrectedTooLate(timestamp, offset) ==
  SetExternalTimestamp(timestamp, (GetTimestamp(timestamp) \div 3 + offset) % W4)
Corrected(timestamp, offset) ==
  SetExternalTimestamp(timestamp, ((GetTimestamp(timestamp) + offset) % W4) \div 3)
=============================================================================
