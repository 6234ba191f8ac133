---------------------------- MODULE EventProofs ----------------------------
(***************************************************************************)
(* Theorems about the pure parts of the event path: Timestamps, for words  *)
(* of any width, and Fragment, for every buffer and every trigger.         *)
(***************************************************************************)
EXTENDS Timestamps, Fragment, TLAPS, WellFoundedInduction

\* A number is its quotient and its remainder, and no other two.
LEMMA DivMod ==
  ASSUME NEW x \in Nat, NEW d \in Nat \ {0}
  PROVE  /\ x \div d \in Nat /\ x % d \in 0..d-1
         /\ x = (x \div d) * d + (x % d)
  BY SMT

LEMMA DivUnique ==
  ASSUME NEW x \in Nat, NEW d \in Nat \ {0}, NEW q \in Nat, NEW r \in 0..d-1,
         x = q * d + r
  PROVE  x \div d = q /\ x % d = r
  BY SMT

\* Shifting twice is shifting by both.
LEMMA DivDiv ==
  ASSUME NEW x \in Nat, NEW a \in Nat \ {0}, NEW b \in Nat \ {0}
  PROVE  (x \div a) \div b = x \div (a * b)
<1> DEFINE q == x \div a
           r == x % a
           p == q \div b
           s == q % b
<1>1. q \in Nat /\ r \in 0..a-1 /\ x = q * a + r
  BY DivMod
<1>2. p \in Nat /\ s \in 0..b-1 /\ q = p * b + s
  BY <1>1, DivMod
<1> HIDE DEF q, r, p, s
<1>3. a * b \in Nat \ {0}
  OBVIOUS
<1>4. s * a + r \in 0..(a * b)-1
  <2>1. s * a <= (b - 1) * a
    BY <1>2
  <2>2. (b - 1) * a = a * b - a
    OBVIOUS
  <2>3. s * a \in Nat
    BY <1>2
  <2> QED
    BY <1>1, <1>3, <2>1, <2>2, <2>3
<1>5. x = p * (a * b) + (s * a + r)
  <2>1. x = (p * b + s) * a + r
    BY <1>1, <1>2
  <2> QED
    BY <1>1, <1>2, <2>1
<1>6. x \div (a * b) = p
  BY <1>2, <1>3, <1>4, <1>5, DivUnique
<1> QED
  BY <1>6 DEF p, q

\* What is written into the header is what is read from it, as long as it fits.
THEOREM TimestampRoundTrip ==
  ASSUME NEW ts \in Words, NEW x \in 0..W4 - 1
  PROVE  /\ SetExternalTimestamp(ts, x) \in Words
         /\ GetTimestamp(SetExternalTimestamp(ts, x)) = x
<1> DEFINE W == WordBase
           q1 == x \div W
           q2 == q1 \div W
           q3 == q2 \div W
           r0 == x % W
           r1 == q1 % W
           r2 == q2 % W
<1>1. /\ W \in Nat \ {0} /\ W2 \in Nat \ {0} /\ W3 \in Nat \ {0}
      /\ W4 \in Nat \ {0} /\ x \in Nat
      /\ W2 = W * W /\ W3 = W2 * W /\ W4 = W3 * W
  BY WordBaseAssumption DEF W2, W3, W4
<1>2. q1 \in Nat /\ r0 \in 0..W-1 /\ x = q1 * W + r0
  BY <1>1, DivMod
<1>3. q2 \in Nat /\ r1 \in 0..W-1 /\ q1 = q2 * W + r1
  BY <1>1, <1>2, DivMod
<1>4. q3 \in Nat /\ r2 \in 0..W-1 /\ q2 = q3 * W + r2
  BY <1>1, <1>3, DivMod
<1>5. q2 = x \div W2 /\ q3 = x \div W3
  <2> HIDE DEF W
  <2>1. x \in Nat /\ W \in Nat \ {0} /\ W2 \in Nat \ {0}
    BY <1>1
  <2>2. (x \div W) \div W = x \div (W * W)
    BY <2>1, DivDiv, Zenon
  <2>3. (x \div W2) \div W = x \div (W2 * W)
    BY <2>1, DivDiv, Zenon
  <2>4. q2 = x \div W2
    BY <1>1, <2>2, Zenon
  <2>5. q3 = (x \div W2) \div W
    BY <2>4, Zenon
  <2> QED
    BY <1>1, <2>3, <2>4, <2>5, Zenon
<1> HIDE DEF W, q1, q2, q3, r0, r1, r2
<1>6. x = r0 + r1 * W + r2 * W2 + q3 * W3
  <2>1. q1 = q3 * W2 + r2 * W + r1
    BY <1>1, <1>3, <1>4
  <2>2. q1 * W = q3 * W3 + r2 * W2 + r1 * W
    BY <1>1, <1>3, <1>4, <2>1
  <2>3. q3 * W3 \in Int /\ r2 * W2 \in Int /\ r1 * W \in Int
    BY <1>1, <1>3, <1>4
  <2> QED
    BY <1>2, <2>2, <2>3
<1>7. q3 < W
  <2>1. /\ q3 * W3 \in Nat /\ r2 * W2 \in Nat /\ r1 * W \in Nat /\ W * W3 \in Nat
        /\ W4 = W * W3
    BY <1>1, <1>3, <1>4
  <2>2. q3 * W3 <= x
    BY <1>2, <1>6, <2>1
  <2>3. x < W * W3
    BY <1>1, <2>1
  <2>4. q3 >= W => q3 * W3 >= W * W3
    BY <1>1, <1>4
  <2> QED
    BY <1>1, <1>4, <2>1, <2>2, <2>3, <2>4
<1>8. q3 % W = q3
  BY <1>1, <1>4, <1>7
<1>9. SetExternalTimestamp(ts, x)
        = [w \in 0..3 |-> CASE w = 0 -> r0 [] w = 1 -> r1 [] w = 2 -> r2 [] w = 3 -> q3]
  BY <1>5, <1>8 DEF SetExternalTimestamp, W, q1, r0, r1, r2
<1>10. SetExternalTimestamp(ts, x) \in Words
  BY <1>1, <1>2, <1>3, <1>4, <1>7, <1>9 DEF Words, W
<1>11. GetTimestamp(SetExternalTimestamp(ts, x)) = x % W4
  BY <1>6, <1>9 DEF GetTimestamp, W
<1>12. x % W4 = x
  BY <1>1
<1> QED
  BY <1>10, <1>11, <1>12
-----------------------------------------------------------------------------

\* A set of positions that is not empty has a last one.
LEMMA LastOne ==
  ASSUME NEW n \in Nat, NEW S \in SUBSET (1..n), S # {}
  PROVE  \E i \in S : \A j \in S : j <= i
<1> DEFINE T == {n - i : i \in S}
<1>1. \A i \in S : i \in Nat /\ n - i \in Nat
  OBVIOUS
<1>2. T \subseteq Nat /\ T # {}
  BY <1>1
<1>3. \E x \in T : \A y \in T : ~(<<y, x>> \in OpToRel(<, Nat))
  <2> HIDE DEF T
  <2> QED
    BY <1>2, NatLessThanWellFounded, WFMin
<1>4. PICK x \in T : \A y \in T : ~(y < x)
  <2>1. ASSUME NEW x \in T, NEW y \in T, y < x PROVE <<y, x>> \in OpToRel(<, Nat)
    BY <2>1, <1>2 DEF OpToRel
  <2> QED
    BY <1>3, <2>1
<1>5. PICK i \in S : x = n - i
  OBVIOUS
<1>6. ASSUME NEW j \in S PROVE j <= i
  <2>1. ~(n - j < x)
    BY <1>4
  <2> QED
    BY <2>1, <1>1, <1>5
<1> QED
  BY <1>6

\* The last packet is a position of the buffer with none wanted behind it.
LEMMA LastPacketIsLast ==
  ASSUME NEW buffer \in Seq(Nat), NEW trigger \in Triggers, Len(buffer) > 0
  PROVE  /\ LastPacket(buffer, trigger) \in DOMAIN buffer
         /\ \A j \in Wanted(buffer, trigger) : j <= LastPacket(buffer, trigger)
<1> DEFINE W == Wanted(buffer, trigger)
<1>1. /\ Len(buffer) \in Nat /\ DOMAIN buffer = 1..Len(buffer)
      /\ W \in SUBSET (1..Len(buffer))
  BY DEF Wanted
<1>2. CASE W = {}
  BY <1>1, <1>2 DEF LastPacket
<1>3. CASE W # {}
  <2>1. \E i \in W : \A j \in W : j <= i
    <3> HIDE DEF W
    <3> QED
      BY <1>1, <1>3, LastOne
  <2>2. /\ LastPacket(buffer, trigger) \in W
        /\ \A j \in W : j <= LastPacket(buffer, trigger)
    BY <2>1, <1>3 DEF LastPacket
  <2> QED
    BY <1>1, <2>2
<1> QED
  BY <1>2, <1>3

\* BuildFragment takes out of the buffer, in any order of arrival, exactly the
\* events of the window and those before it, and writes the former.
THEOREM FragmentIsTheWindow ==
  ASSUME NEW buffer \in Seq(Nat), NEW trigger \in Triggers, Len(buffer) > 0
  PROVE  FragmentIsWindow(buffer, trigger)
<1> DEFINE W == Wanted(buffer, trigger)
           last == LastPacket(buffer, trigger)
<1>1. /\ Len(buffer) \in Nat /\ DOMAIN buffer = 1..Len(buffer)
      /\ \A i \in DOMAIN buffer : buffer[i] \in Nat
      /\ trigger.startTime \in Nat /\ trigger.endTime \in Nat
  BY DEF Triggers
<1>2. last \in 1..Len(buffer) /\ \A j \in W : j <= last
  BY <1>1, LastPacketIsLast
<1>3. Passed(buffer, trigger) = 1..last /\ 1..last \subseteq DOMAIN buffer
  BY <1>1, <1>2 DEF Passed
<1>4. \A i \in W : i \in 1..last
  BY <1>1, <1>2 DEF Wanted
<1> HIDE DEF last
<1>5. EventsToWrite(buffer, trigger) = W
  BY <1>1, <1>3, <1>4 DEF EventsToWrite, Wanted
<1>6. Kept(buffer, trigger) \cap W = {}
  BY <1>1, <1>3, <1>4 DEF Kept, EventsToPutBack, Wanted
<1>7. \A i \in DOMAIN buffer : \/ i \in Kept(buffer, trigger)
                              \/ i \in W
                              \/ buffer[i] < trigger.startTime
  BY <1>1, <1>3 DEF Kept, EventsToPutBack, Wanted
<1> QED
  BY <1>5, <1>6, <1>7 DEF FragmentIsWindow
=============================================================================
