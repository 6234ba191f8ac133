-------------------------- MODULE DataTakingProofs --------------------------
(***************************************************************************)
(* Theorems about DataTaking, for any number of events and faults, any     *)
(* period, any offsets, and words of any width.                            *)
(***************************************************************************)
EXTENDS DataTaking, EventProofs, SequenceTheorems, TLAPS

\* Where the caller is in its call: the thread is joined before the writes of a
\* Stop begin, and there is none while those of a Start go on.
CallerOrder == /\ cmd = "none" <=> step = "none"
               /\ cmd = "Start" => step = "write"
               /\ step = "join" => nWrites = 0
               /\ step = "write" => ~joinable

\* What was last sent carries a third of its event's time and the offset.
SentStamp == GetTimestamp(sent.stamp)
               = ((Time(sent.event) + sent.offset) % W4) \div 3

IInv == TypeOK /\ CallerOrder /\ SentStamp

LEMMA Widths == /\ W4 \in Nat \ {0} /\ MaxEvents \in Nat /\ MaxFaults \in Nat
                /\ MaxBody \in Nat \ {0} /\ Period \in Nat /\ Period >= 3
                /\ MaxEvents * Period < W4
  BY WordBaseAssumption, BoundAssumption, PeriodAssumption DEF W2, W3, W4

\* Events the board can make have times that fit into the words.
LEMMA TimeFits ==
  ASSUME NEW e \in Events
  PROVE  /\ Time(e) \in 0..W4 - 1
         /\ Stamp(e) \in Words
         /\ GetTimestamp(Stamp(e)) = Time(e)
<1>1. e.n * Period \in Nat /\ e.n * Period <= MaxEvents * Period
  BY Widths DEF Events
<1>2. Time(e) \in 0..W4 - 1
  BY <1>1, Widths DEF Time
<1>3. [w \in 0..3 |-> 0] \in Words
  BY WordBaseAssumption DEF Words
<1> QED
  BY <1>2, <1>3, TimestampRoundTrip DEF Stamp

\* The corrected time of an event, in words and read from them.
LEMMA CorrectedFits ==
  ASSUME NEW e \in Events, NEW o \in Int
  PROVE  /\ Corrected(Stamp(e), o) \in Words
         /\ GetTimestamp(Corrected(Stamp(e), o)) = ((Time(e) + o) % W4) \div 3
<1> DEFINE x == (Time(e) + o) % W4
           y == x \div 3
<1>1. x \in 0..W4 - 1
  BY TimeFits, Widths
<1> HIDE DEF x
<1>2. y \in 0..W4 - 1
  BY <1>1, Widths
<1>3. Corrected(Stamp(e), o) = SetExternalTimestamp(Stamp(e), y)
  BY TimeFits DEF Corrected, x
<1> QED
  BY <1>2, <1>3, TimeFits, TimestampRoundTrip DEF x

LEMMA NoEventTyped == NoEvent \in Events /\ Time(NoEvent) = 0
  BY Widths DEF NoEvent, Events, Time

\* Streams, and what reading and writing makes of them.
Unit == [kind : {"pattern", "header", "body"}, of : Events]

LEMMA Streams ==
  /\ <<>> \in Stream
  /\ \A s \in Stream :
       /\ Len(s) \in Nat
       /\ s # <<>> => Head(s) \in Unit /\ Tail(s) \in Stream
       /\ \A u \in Unit : Append(s, u) \in Stream
       /\ \A m \in Nat \ {0}, n \in Nat : n <= Len(s) => SubSeq(s, m, n) \in Stream
       /\ \A t \in Stream : s \o t \in Stream
<1>1. Stream = Seq(Unit)
  BY DEF Stream, Unit
<1> HIDE DEF Unit
<1>2. ASSUME NEW s \in Seq(Unit), NEW m \in Nat \ {0}, NEW n \in Nat, n <= Len(s)
      PROVE  SubSeq(s, m, n) \in Seq(Unit)
  <2>1. \A i \in m..n : s[i] \in Unit
    BY <1>2
  <2> QED
    BY <2>1, SubSeqProperties
<1> QED
  BY <1>1, <1>2, EmptySeq, LenProperties, HeadTailProperties, AppendProperties,
     ConcatProperties

LEMMA EmptyTyped == Empty \in [head : Events, body : Stream]
  BY NoEventTyped, Streams DEF Empty

LEMMA StampInit == Init => SentStamp
<1> SUFFICES ASSUME Init PROVE SentStamp
  OBVIOUS
<1>1. GetTimestamp(sent.stamp) = 0 /\ Time(sent.event) + sent.offset = 0
  BY NoEventTyped, TimeFits DEF Init, NotSent
<1>2. (0 % W4) \div 3 = 0
  BY Widths
<1> QED
  BY <1>1, <1>2 DEF SentStamp

LEMMA InvInit == Init => IInv
<1> SUFFICES ASSUME Init PROVE IInv
  OBVIOUS
<1>2. NotSent \in [event : Events, stamp : Words, offset : Int]
  BY NoEventTyped, TimeFits DEF NotSent
<1>3. TypeOK
  <2>1. fifo \in Stream /\ wire \in Stream /\ sock \in Stream
    BY Streams DEF Init
  <2>2. /\ packet \in [head : Events, body : Stream]
        /\ sent \in [event : Events, stamp : Words, offset : Int]
    BY <1>2, EmptyTyped DEF Init
  <2>3. faults \in 0..MaxFaults /\ nEvents \in 0..MaxEvents /\ nStopped \in 0..MaxEvents
    BY Widths DEF Init
  <2> QED
    BY <2>1, <2>2, <2>3 DEF Init, TypeOK
<1>4. CallerOrder
  BY DEF Init, CallerOrder
<1> QED
  BY <1>3, <1>4, StampInit DEF IInv
-----------------------------------------------------------------------------
(***************************************************************************)
(* Types and order of the calls                                            *)
(***************************************************************************)
LEMMA CallerKept ==
  ASSUME TypeOK, CallerOrder, StartBegins \/ StopBegins \/ Caller
  PROVE  TypeOK' /\ CallerOrder'
<1> USE DEF TypeOK, CallerOrder
<1>0. Len(Writes["Stop"]) = 5 /\ Len(Writes["Start"]) = 10
  BY DEF Writes
<1>1. CASE StartBegins
  BY <1>0, <1>1 DEF StartBegins, host, board
<1>2. CASE StopBegins
  BY <1>0, <1>2 DEF StopBegins, FirstStep, board
<1>3. CASE Join
  <2>1. /\ step = "join" /\ nWrites = 0 /\ cmd = "Stop"
        /\ UNCHANGED <<fState, fShouldStop, packet, crashed, offset, sent>>
        /\ UNCHANGED <<acquiring, fifo, wire, nEvents, sock, faults, nStopped>>
    BY <1>3 DEF Join, board
  <2>2. CASE joinable
    <3>1. /\ joinable' = FALSE /\ reader' = "none" /\ step' = "write"
          /\ cmd' = "Stop" /\ nWrites' = 0
      BY <1>3, <2>1, <2>2 DEF Join
    <3> QED
      BY <1>0, <2>1, <3>1
  <2>3. CASE ~joinable
    <3>1. /\ cmd' = "none" /\ step' = "none" /\ nWrites' = 0
          /\ joinable' = joinable /\ reader' = reader
      BY <1>3, <2>3 DEF Join, Returns
    <3> QED
      BY <2>1, <3>1
  <2> QED
    BY <2>2, <2>3
<1>4. CASE WritesRegister
  <2>1. /\ acquiring' \in BOOLEAN /\ fifo' \in Stream
        /\ wire' = wire /\ nEvents' = nEvents
    BY <1>4, Streams DEF WritesRegister, BoardTakes, board
  <2>2. /\ faults' \in 0..MaxFaults
        /\ \/ cmd' = cmd /\ step' = step /\ nWrites' = nWrites + 1
           \/ Returns
    BY <1>4, Widths DEF WritesRegister
  <2>3. cmd \in {"Start", "Stop"} /\ nWrites < Len(Writes[cmd])
    BY <1>4 DEF WritesRegister
  <2>4. cmd' # "none" => nWrites' \in 0..Len(Writes[cmd'])
    BY <1>0, <2>2, <2>3 DEF Returns
  <2> QED
    BY <1>4, <2>1, <2>2, <2>3, <2>4 DEF WritesRegister, Returns, host
<1>5. CASE StartsThread
  BY <1>5 DEF StartsThread, Returns, board
<1>6. CASE Purges
  <2>1. step = "write" /\ ~joinable
    BY <1>0, <1>6 DEF Purges
  <2> QED
    BY <1>6, <2>1, Streams DEF Purges, Returns, host, call, board
<1> QED
  BY <1>1, <1>2, <1>3, <1>4, <1>5, <1>6 DEF Caller

LEMMA ReaderKept ==
  ASSUME TypeOK, CallerOrder, Reader
  PROVE  TypeOK' /\ CallerOrder'
<1> USE DEF TypeOK, CallerOrder
<1>1. CASE Top
  BY <1>1 DEF Top, ReaderGoes, call, board
<1>2. CASE Find
  <2>1. Empty \in [head : Events, body : Stream]
    BY EmptyTyped
  <2>2. sock' \in Stream /\ reader' \in {"top", "header", "find"}
    BY <1>2, Streams DEF Find, ReaderGoes
  <2> QED
    BY <1>2, <2>1, <2>2 DEF Find, ReaderGoes, call, board
<1>3. CASE ReadHeader
  <2>1. sock' \in Stream /\ Head(sock).of \in Events
    BY <1>3, Streams DEF ReadHeader, Unit
  <2> QED
    BY <1>3, <2>1 DEF ReadHeader, ReaderGoes, call, board
<1>4. CASE ReadBody
  <2>1. packet.head.size \in Nat /\ BodySize(packet.head) = packet.head.size
    BY Widths DEF Events, BodySize
  <2>2. /\ sock \in Stream /\ Len(sock) \in Nat
        /\ packet.head.size <= Len(sock)
    BY <1>4, <2>1, Streams DEF ReadBody
  <2>3. SubSeq(sock, 1, packet.head.size) \in Stream
    <3>1. 1 \in Nat \ {0}
      OBVIOUS
    <3> QED
      BY <2>1, <2>2, <3>1, Streams
  <2>4. SubSeq(sock, packet.head.size + 1, Len(sock)) \in Stream
    <3>1. packet.head.size + 1 \in Nat \ {0} /\ Len(sock) <= Len(sock)
      BY <2>1, <2>2
    <3> QED
      BY <2>2, <3>1, Streams
  <2> QED
    BY <1>4, <2>1, <2>3, <2>4 DEF ReadBody, ReaderGoes, call, board
<1>5. CASE Send
  <2>1. offset \in Int
    BY OffsetsAssumption
  <2>2. sent' \in [event : Events, stamp : Words, offset : Int]
    BY <1>5, <2>1, CorrectedFits DEF Send
  <2> QED
    BY <1>5, <2>2 DEF Send, ReaderGoes, call, board
<1> QED
  BY <1>1, <1>2, <1>3, <1>4, <1>5 DEF Reader

LEMMA OthersKept ==
  ASSUME TypeOK, CallerOrder,
         \/ TimesOut \/ SinkFails \/ Restart
         \/ MakesEvent \/ Transmits \/ Delivers
  PROVE  TypeOK' /\ CallerOrder'
<1> USE DEF TypeOK, CallerOrder
<1>1. CASE TimesOut
  BY <1>1, Widths DEF TimesOut, board
<1>2. CASE SinkFails
  BY <1>2, Widths DEF SinkFails, board
<1>3. CASE Restart
  <2>1. Empty \in [head : Events, body : Stream]
    BY EmptyTyped
  <2> QED
    BY <1>3, <2>1, Streams DEF Restart, Returns
<1>4. CASE MakesEvent
  <2>1. PICK size \in 1..MaxBody :
           fifo' = fifo \o Units([n |-> nEvents + 1, size |-> size])
    BY <1>4 DEF MakesEvent
  <2> DEFINE e == [n |-> nEvents + 1, size |-> size]
  <2>2. e \in Events
    BY <1>4, <2>1, Widths DEF MakesEvent, Events
  <2>3. Units(e) \in Stream
    <3>1. size \in Nat /\ e.size = size
      BY <2>1, Widths
    <3> HIDE DEF e
    <3>2. [i \in 1..size |-> [kind |-> "body", of |-> e]] \in Stream
      BY <2>2, <3>1 DEF Stream
    <3>3. <<[kind |-> "pattern", of |-> e], [kind |-> "header", of |-> e]>> \in Stream
      BY <2>2 DEF Stream
    <3> QED
      BY <3>1, <3>2, <3>3 DEF Units, Stream
  <2>4. fifo' \in Stream
    BY <2>1, <2>3, Streams
  <2> QED
    BY <1>4, <2>4, Widths DEF MakesEvent, host, call
<1>5. CASE Transmits
  <2>1. fifo' \in Stream /\ wire' \in Stream
    BY <1>5, Streams DEF Transmits
  <2> QED
    BY <1>5, <2>1 DEF Transmits, host, call
<1>6. CASE Delivers
  <2>1. wire' \in Stream /\ sock' \in Stream
    BY <1>6, Streams DEF Delivers
  <2> QED
    BY <1>6, <2>1 DEF Delivers, host, call
<1> QED
  BY <1>1, <1>2, <1>3, <1>4, <1>5, <1>6

\* Only Send changes what was sent.
LEMMA OnlySendSends ==
  ASSUME [Next]_vars
  PROVE  Send \/ UNCHANGED sent
<1>1. CASE StartBegins \/ StopBegins \/ Caller
  BY <1>1 DEF StartBegins, StopBegins, Caller, Join, WritesRegister,
              StartsThread, Purges, host
<1>2. CASE Reader
  BY <1>2 DEF Reader, Top, Find, ReadHeader, ReadBody
<1>3. CASE TimesOut \/ SinkFails \/ Restart
  BY <1>3 DEF TimesOut, SinkFails, Restart
<1>4. CASE MakesEvent \/ Transmits \/ Delivers
  BY <1>4 DEF MakesEvent, Transmits, Delivers, host
<1>5. CASE UNCHANGED vars
  BY <1>5 DEF vars, host
<1> QED
  BY <1>1, <1>2, <1>3, <1>4, <1>5 DEF Next

LEMMA StampKept ==
  ASSUME TypeOK, SentStamp, [Next]_vars
  PROVE  SentStamp'
<1>1. CASE UNCHANGED sent
  BY <1>1 DEF SentStamp, Time
<1>2. CASE Send
  <2>1. packet.head \in Events /\ offset \in Int
    BY OffsetsAssumption DEF TypeOK
  <2>2. /\ sent'.event = packet.head /\ sent'.offset = offset
        /\ sent'.stamp = Corrected(Stamp(packet.head), offset)
    BY <1>2 DEF Send
  <2> QED
    BY <2>1, <2>2, CorrectedFits DEF SentStamp, Time
<1> QED
  BY <1>1, <1>2, OnlySendSends

LEMMA InvStep == IInv /\ [Next]_vars => IInv'
<1> SUFFICES ASSUME IInv, [Next]_vars PROVE IInv'
  OBVIOUS
<1>1. TypeOK /\ CallerOrder /\ SentStamp
  BY DEF IInv
<1>2. TypeOK' /\ CallerOrder'
  <2>1. CASE UNCHANGED vars
    BY <1>1, <2>1 DEF vars, host, call, board, TypeOK, CallerOrder
  <2> QED
    BY <1>1, <2>1, CallerKept, ReaderKept, OthersKept DEF Next
<1>3. SentStamp'
  BY <1>1, StampKept
<1> QED
  BY <1>2, <1>3 DEF IInv

LEMMA Invariance == Spec => []IInv
  BY InvInit, InvStep, PTL DEF Spec

\* Interface, thread and stream are well formed; in particular there is a read
\* thread only while the interface is running (DeviceInterface.cxx:140-230).
THEOREM TypeCorrect == Spec => []TypeOK
<1>1. IInv => TypeOK
  BY DEF IInv
<1> QED
  BY Invariance, <1>1, PTL
-----------------------------------------------------------------------------
(***************************************************************************)
(* Time stamps                                                             *)
(***************************************************************************)
\* A third of a sum that is not below zero is within two of it.
LEMMA Thirds ==
  ASSUME NEW t \in 0..W4 - 1
  PROVE  /\ (t % W4) \div 3 \in Nat
         /\ 3 * ((t % W4) \div 3) \in t - 2 .. t
  BY Widths

\* What the property asks of an event that is sent now with time s.
TellsTheTime(e, s) ==
  Time(e) + offset \in 0..W4 - 1 =>
    /\ 3 * s \in Time(e) + offset - 2 .. Time(e) + offset
    /\ /\ sent.offset = offset
       /\ Time(sent.event) + offset >= 0
       /\ sent.event.n < e.n
       => s > GetTimestamp(sent.stamp)

LEMMA StampStep ==
  ASSUME IInv, Send
  PROVE  TellsTheTime(sent'.event, GetTimestamp(sent'.stamp))
<1> DEFINE e == packet.head
           t == Time(e) + offset
           u == Time(sent.event) + offset
           s == (t % W4) \div 3
           r == (u % W4) \div 3
<1>1. e \in Events /\ offset \in Int /\ sent.event \in Events
  BY OffsetsAssumption DEF IInv, TypeOK
<1>2. sent'.event = e /\ GetTimestamp(sent'.stamp) = s
  BY <1>1, CorrectedFits DEF Send
<1>3. Time(e) \in Nat /\ Time(sent.event) \in Nat
  BY <1>1, TimeFits, Widths
<1>4. ASSUME t \in 0..W4 - 1 PROVE 3 * s \in t - 2 .. t
  BY <1>4, Thirds
<1>5. ASSUME t \in 0..W4 - 1, sent.offset = offset, u >= 0, sent.event.n < e.n
      PROVE  s > GetTimestamp(sent.stamp)
  <2>1. GetTimestamp(sent.stamp) = r
    BY <1>5 DEF IInv, SentStamp
  <2>2. Time(e) >= Time(sent.event) + 3
    <3>1. e.n \in Nat /\ sent.event.n \in Nat /\ sent.event.n + 1 <= e.n
      BY <1>1, <1>5, Widths DEF Events
    <3>2. (sent.event.n + 1) * Period <= e.n * Period
      BY <3>1, Widths
    <3>3. (sent.event.n + 1) * Period = sent.event.n * Period + Period
      BY <3>1, Widths
    <3>4. sent.event.n * Period \in Nat /\ e.n * Period \in Nat
      BY <3>1, Widths
    <3> QED
      BY <3>2, <3>3, <3>4, Widths DEF Time
  <2>3. t \in Int /\ u \in Int /\ u + 3 <= t
    BY <1>1, <1>3, <2>2
  <2> HIDE DEF t, u
  <2>4. u \in 0..W4 - 1
    BY <1>5, <2>3, Widths
  <2>5. /\ s \in Nat /\ 3 * s \in t - 2 .. t
        /\ r \in Nat /\ 3 * r \in u - 2 .. u
    BY <1>5, <2>4, Thirds
  <2> HIDE DEF s, r
  <2>6. s > r
    BY <2>3, <2>5
  <2> QED
    BY <2>1, <2>6
<1>6. TellsTheTime(e, s)
  <2> HIDE DEF e, s
  <2> QED
    BY <1>1, <1>3, <1>4, <1>5 DEF TellsTheTime
<1> HIDE DEF e, s
<1> QED
  BY <1>2, <1>6

\* An event goes out with a third of the board's time plus the offset, and later
\* events with later times (DeviceInterface.cxx:257-264, 1086-1116), whatever
\* offset the process found, as long as the sums do not pass zero.
THEOREM StampsCorrect == Spec => StampsTellTheTime
<1>1. IInv /\ [Next]_vars =>
        [sent' # sent =>
           LET e == sent'.event
               s == GetTimestamp(sent'.stamp)
           IN  Time(e) + offset \in 0..W4 - 1 =>
                 /\ 3 * s \in Time(e) + offset - 2 .. Time(e) + offset
                 /\ /\ sent.offset = offset
                    /\ Time(sent.event) + offset >= 0
                    /\ sent.event.n < e.n
                    => s > GetTimestamp(sent.stamp)]_sent
  BY StampStep, OnlySendSends DEF TellsTheTime
<1> QED
  BY Invariance, <1>1, PTL DEF Spec, StampsTellTheTime
-----------------------------------------------------------------------------
(***************************************************************************)
(* Runs of units                                                           *)
(***************************************************************************)
\* The units that are still to be read, in their order.
Coming == (sock \o wire) \o fifo

\* Of a run of units: events come in the order of their numbers and the pattern
\* word of an event before the rest of it; where the numbers lie.
Ordered(s) ==
  \A i, j \in 1..Len(s) :
    i < j => /\ s[i].of.n <= s[j].of.n
             /\ s[j].kind = "pattern" => s[i].of.n < s[j].of.n
AllUpTo(s, n)       == \A i \in 1..Len(s) : s[i].of.n <= n
AllAbove(s, n)      == \A i \in 1..Len(s) : s[i].of.n > n
PatternsAbove(s, n) == \A i \in 1..Len(s) : s[i].kind = "pattern" => s[i].of.n > n

\* The reader sends no event twice, none before one it sent and none from before
\* a Stop, although its header may be another event's and the stream may have
\* lost units anywhere: what it makes an event from begins at a pattern word
\* that it has not passed yet.
StreamOrder ==
  /\ Ordered(Coming)
  /\ AllUpTo(Coming, nEvents)
  /\ \A n \in {sent.event.n, nStopped} :
       /\ n <= nEvents
       /\ PatternsAbove(Coming, n)
       /\ reader = "header" => AllAbove(Coming, n)
       /\ reader \in {"body", "send"} => n < packet.head.n
  /\ reader \in {"body", "send"} => /\ packet.head.n <= nEvents
                                    /\ PatternsAbove(Coming, packet.head.n)

\* Once the writes of a Stop have reset the FIFO, nothing is put into it.
BoardStops == cmd = "Stop" => /\ nWrites >= 2 => ~acquiring
                              /\ nWrites >= 3 => fifo = <<>>

\* t is s without its first k units and without some of its last.
Piece(t, s, k) == /\ Len(t) + k <= Len(s)
                  /\ \A i \in 1..Len(t) : t[i] = s[i + k]

LEMMA Numbers ==
  ASSUME NEW s \in Stream
  PROVE  /\ Len(s) \in Nat
         /\ \A i \in 1..Len(s) : s[i] \in Unit /\ s[i].of.n \in Nat
<1>1. Stream = Seq(Unit)
  BY DEF Stream, Unit
<1>2. \A u \in Unit : u.of.n \in Nat
  BY Widths DEF Unit, Events
<1> HIDE DEF Unit
<1>3. Len(s) \in Nat /\ \A i \in 1..Len(s) : s[i] \in Unit
  BY <1>1
<1> QED
  BY <1>2, <1>3

LEMMA PieceOrdered ==
  ASSUME NEW s \in Stream, NEW t \in Stream, NEW k \in Nat, Piece(t, s, k)
  PROVE  /\ Ordered(s) => Ordered(t)
         /\ \A n : /\ AllUpTo(s, n) => AllUpTo(t, n)
                   /\ AllAbove(s, n) => AllAbove(t, n)
                   /\ PatternsAbove(s, n) => PatternsAbove(t, n)
<1>1. Len(s) \in Nat /\ Len(t) \in Nat
  BY Numbers
<1>2. \A i \in 1..Len(t) : i + k \in 1..Len(s) /\ t[i] = s[i + k]
  BY <1>1 DEF Piece
<1>3. ASSUME Ordered(s) PROVE Ordered(t)
  <2> SUFFICES ASSUME NEW i \in 1..Len(t), NEW j \in 1..Len(t), i < j
               PROVE  /\ t[i].of.n <= t[j].of.n
                      /\ t[j].kind = "pattern" => t[i].of.n < t[j].of.n
    BY DEF Ordered
  <2>1. i + k \in 1..Len(s) /\ j + k \in 1..Len(s) /\ i + k < j + k
    BY <1>1, <1>2
  <2>2. t[i] = s[i + k] /\ t[j] = s[j + k]
    BY <1>2
  <2> QED
    BY <1>3, <2>1, <2>2 DEF Ordered
<1>4. ASSUME NEW n
      PROVE  /\ AllUpTo(s, n) => AllUpTo(t, n)
             /\ AllAbove(s, n) => AllAbove(t, n)
             /\ PatternsAbove(s, n) => PatternsAbove(t, n)
  BY <1>2, Zenon DEF AllUpTo, AllAbove, PatternsAbove
<1> QED
  BY <1>3, <1>4

LEMMA Concatenated ==
  ASSUME NEW a \in Stream, NEW b \in Stream
  PROVE  /\ a \o b \in Stream
         /\ Len(a \o b) = Len(a) + Len(b)
         /\ \A i \in 1..Len(a) : (a \o b)[i] = a[i]
         /\ \A i \in 1..Len(b) : (a \o b)[Len(a) + i] = b[i]
<1>1. Stream = Seq(Unit)
  BY DEF Stream, Unit
<1> HIDE DEF Unit
<1>2. /\ a \o b \in Seq(Unit)
      /\ Len(a \o b) = Len(a) + Len(b)
      /\ \A i \in 1 .. Len(a) + Len(b) :
           (a \o b)[i] = IF i <= Len(a) THEN a[i] ELSE b[i - Len(a)]
  BY <1>1, ConcatProperties, Zenon
<1>3. Len(a) \in Nat /\ Len(b) \in Nat
  BY Numbers
<1>4. ASSUME NEW i \in 1..Len(a) PROVE (a \o b)[i] = a[i]
  BY <1>2, <1>3
<1>5. ASSUME NEW i \in 1..Len(b) PROVE (a \o b)[Len(a) + i] = b[i]
  <2>1. /\ Len(a) + i \in 1..Len(a) + Len(b) /\ ~(Len(a) + i <= Len(a))
        /\ Len(a) + i - Len(a) = i
    BY <1>3
  <2> QED
    BY <1>2, <2>1
<1> QED
  BY <1>1, <1>2, <1>4, <1>5

\* The first of two runs loses its front, or the second is lost.
LEMMA PieceInFront ==
  ASSUME NEW a \in Stream, NEW t \in Stream, NEW b \in Stream, NEW k \in Nat,
         Len(a) = Len(t) + k, Piece(t, a, k)
  PROVE  Len(a \o b) = Len(t \o b) + k /\ Piece(t \o b, a \o b, k)
<1>1. Len(a) \in Nat /\ Len(t) \in Nat /\ Len(b) \in Nat
  BY Numbers
<1>2. Len(a \o b) = Len(a) + Len(b) /\ Len(t \o b) = Len(t) + Len(b)
  BY Concatenated
<1>3. ASSUME NEW i \in 1..Len(t \o b) PROVE (t \o b)[i] = (a \o b)[i + k]
  <2>1. CASE i <= Len(t)
    <3>1. i \in 1..Len(t) /\ i + k \in 1..Len(a)
      BY <1>1, <1>2, <2>1
    <3>2. (t \o b)[i] = t[i] /\ (a \o b)[i + k] = a[i + k]
      BY <3>1, Concatenated
    <3> QED
      BY <3>1, <3>2 DEF Piece
  <2>2. CASE ~(i <= Len(t))
    <3>1. PICK j \in 1..Len(b) : i = Len(t) + j
      <4>1. i - Len(t) \in 1..Len(b) /\ i = Len(t) + (i - Len(t))
        BY <1>1, <1>2, <2>2
      <4> QED
        BY <4>1
    <3>2. i + k = Len(a) + j
      BY <1>1, <3>1
    <3>3. (t \o b)[Len(t) + j] = b[j] /\ (a \o b)[Len(a) + j] = b[j]
      BY <3>1, Concatenated
    <3> QED
      BY <3>1, <3>2, <3>3
  <2> QED
    BY <2>1, <2>2
<1> QED
  BY <1>1, <1>2, <1>3 DEF Piece

LEMMA PieceBehind ==
  ASSUME NEW a \in Stream, NEW b \in Stream
  PROVE  a \o <<>> = a /\ Piece(a, a \o b, 0)
<1>1. a \o <<>> = a
  <2>1. Stream = Seq(Unit)
    BY DEF Stream, Unit
  <2> QED
    BY <2>1, ConcatEmptySeq
<1>2. Len(a \o b) = Len(a) + Len(b) /\ \A i \in 1..Len(a) : (a \o b)[i] = a[i]
  BY Concatenated
<1>3. Len(a) \in Nat /\ Len(b) \in Nat
  BY Numbers
<1> QED
  BY <1>1, <1>2, <1>3 DEF Piece

\* A unit goes from the front of one run to the back of the one before it.
LEMMA UnitMoves ==
  ASSUME NEW a \in Stream, NEW b \in Stream, b # <<>>
  PROVE  Append(a, Head(b)) \o Tail(b) = a \o b
<1>1. Stream = Seq(Unit)
  BY DEF Stream, Unit
<1> HIDE DEF Unit
<1>2. Head(b) \in Unit /\ Tail(b) \in Seq(Unit) /\ Append(a, Head(b)) \in Seq(Unit)
  BY <1>1, Streams
<1> DEFINE s == Append(a, Head(b)) \o Tail(b)
           t == a \o b
<1>3. Len(a) \in Nat /\ Len(b) \in Nat /\ Len(b) # 0
  BY <1>1
<1>4. Len(Append(a, Head(b))) = Len(a) + 1 /\ Len(Tail(b)) = Len(b) - 1
  BY <1>1, <1>2, <1>3
<1>5. Len(s) = Len(t) /\ s \in Seq(Unit) /\ t \in Seq(Unit)
      /\ Len(t) = Len(a) + Len(b)
  BY <1>1, <1>2, <1>3, <1>4, Concatenated
<1>6. ASSUME NEW i \in 1..Len(s) PROVE s[i] = t[i]
  <2>1. CASE i \in 1..Len(a)
    <3>1. t[i] = a[i]
      BY <2>1, Concatenated
    <3>2. i \in 1..Len(Append(a, Head(b))) /\ Append(a, Head(b))[i] = a[i]
      BY <1>1, <1>2, <1>3, <1>4, <2>1
    <3>3. s[i] = Append(a, Head(b))[i]
      BY <1>1, <1>2, <3>2, Concatenated
    <3> QED
      BY <3>1, <3>2, <3>3
  <2>2. CASE i = Len(a) + 1
    <3>1. t[Len(a) + 1] = b[1]
      <4>1. 1 \in 1..Len(b)
        BY <1>3
      <4> QED
        BY <4>1, Concatenated
    <3>2. /\ Len(a) + 1 \in 1..Len(Append(a, Head(b)))
          /\ Append(a, Head(b))[Len(a) + 1] = Head(b)
      BY <1>1, <1>2, <1>3, <1>4
    <3>3. s[Len(a) + 1] = Append(a, Head(b))[Len(a) + 1]
      BY <1>1, <1>2, <3>2, Concatenated
    <3>4. Head(b) = b[1]
      BY <1>1
    <3> QED
      BY <2>2, <3>1, <3>2, <3>3, <3>4
  <2>3. CASE i > Len(a) + 1
    <3>1. PICK j \in 1..Len(Tail(b)) : i = Len(a) + 1 + j
      <4>1. /\ i - (Len(a) + 1) \in 1..Len(Tail(b))
            /\ i = Len(a) + 1 + (i - (Len(a) + 1))
        BY <1>3, <1>4, <1>5, <2>3
      <4> QED
        BY <4>1
    <3>2. s[Len(Append(a, Head(b))) + j] = Tail(b)[j]
      BY <1>1, <1>2, <3>1, Concatenated
    <3>3. Tail(b)[j] = b[j + 1]
      BY <1>1, <1>3, <1>4, <3>1
    <3>4. t[Len(a) + (j + 1)] = b[j + 1]
      <4>1. j + 1 \in 1..Len(b)
        BY <1>3, <1>4, <3>1
      <4> QED
        BY <4>1, Concatenated
    <3>5. i = Len(Append(a, Head(b))) + j /\ i = Len(a) + (j + 1)
      BY <1>3, <1>4, <3>1
    <3> QED
      BY <3>2, <3>3, <3>4, <3>5
  <2> QED
    BY <1>3, <1>4, <1>5, <2>1, <2>2, <2>3
<1> HIDE DEF s, t
<1>7. s = t
  BY <1>5, <1>6, SeqEqual
<1> QED
  BY <1>7 DEF s, t

\* The board appends a later event.
LEMMA Extended ==
  ASSUME NEW s \in Stream, NEW u \in Stream, NEW n \in Nat,
         Ordered(s), Ordered(u), AllUpTo(s, n), AllAbove(u, n)
  PROVE  Ordered(s \o u)
<1>1. Len(s) \in Nat /\ Len(u) \in Nat /\ Len(s \o u) = Len(s) + Len(u)
  BY Numbers, Concatenated
<1>2. ASSUME NEW i \in 1..Len(s \o u)
      PROVE  \/ i \in 1..Len(s) /\ (s \o u)[i] = s[i]
             \/ \E j \in 1..Len(u) : i = Len(s) + j /\ (s \o u)[i] = u[j]
  <2>1. CASE i \in 1..Len(s)
    BY <2>1, Concatenated
  <2>2. CASE i \notin 1..Len(s)
    <3>1. i - Len(s) \in 1..Len(u) /\ i = Len(s) + (i - Len(s))
      BY <1>1, <2>2
    <3>2. (s \o u)[Len(s) + (i - Len(s))] = u[i - Len(s)]
      BY <3>1, Concatenated
    <3> QED
      BY <3>1, <3>2
  <2> QED
    BY <2>1, <2>2
<1> SUFFICES ASSUME NEW i \in 1..Len(s \o u), NEW j \in 1..Len(s \o u), i < j
             PROVE  /\ (s \o u)[i].of.n <= (s \o u)[j].of.n
                    /\ (s \o u)[j].kind = "pattern"
                         => (s \o u)[i].of.n < (s \o u)[j].of.n
  BY DEF Ordered
<1>3. CASE i \in 1..Len(s) /\ j \in 1..Len(s)
  <2>1. (s \o u)[i] = s[i] /\ (s \o u)[j] = s[j]
    BY <1>3, Concatenated
  <2> QED
    BY <1>3, <2>1 DEF Ordered
<1>4. CASE i \in 1..Len(s) /\ j \notin 1..Len(s)
  <2>1. PICK q \in 1..Len(u) : (s \o u)[j] = u[q]
    BY <1>2, <1>4
  <2>2. (s \o u)[i] = s[i]
    BY <1>4, Concatenated
  <2>3. s[i].of.n \in Nat /\ u[q].of.n \in Nat
    BY <1>4, Numbers
  <2>4. s[i].of.n <= n /\ u[q].of.n > n
    BY <1>4 DEF AllUpTo, AllAbove
  <2>5. s[i].of.n < u[q].of.n /\ s[i].of.n <= u[q].of.n
    BY <2>3, <2>4
  <2> QED
    BY <2>1, <2>2, <2>5
<1>5. CASE i \notin 1..Len(s)
  <2>1. PICK p \in 1..Len(u) : i = Len(s) + p /\ (s \o u)[i] = u[p]
    BY <1>2, <1>5
  <2>2. j \notin 1..Len(s)
    BY <1>1, <1>5
  <2>3. PICK q \in 1..Len(u) : j = Len(s) + q /\ (s \o u)[j] = u[q]
    BY <1>2, <2>2
  <2>4. p < q
    BY <1>1, <2>1, <2>3
  <2> QED
    BY <2>1, <2>3, <2>4 DEF Ordered
<1> QED
  BY <1>3, <1>4, <1>5

LEMMA UnitsOf ==
  ASSUME NEW e \in Events
  PROVE  /\ Units(e) \in Stream
         /\ \A i \in 1..Len(Units(e)) :
              /\ Units(e)[i].of = e
              /\ Units(e)[i].kind = "pattern" => i = 1
         /\ Len(Units(e)) = 2 + e.size
         /\ Units(e)[2] = [kind |-> "header", of |-> e]
         /\ \A j \in 1..e.size : Units(e)[2 + j] = [kind |-> "body", of |-> e]
<1> DEFINE size == e.size
           front == <<[kind |-> "pattern", of |-> e],
                      [kind |-> "header", of |-> e]>>
           body == [i \in 1..size |-> [kind |-> "body", of |-> e]]
<1>1. size \in Nat
  BY Widths DEF Events
<1> HIDE DEF size
<1>2. front \in Stream
  BY DEF Stream
<1>3. body \in Stream /\ Len(front) = 2 /\ Len(body) = size
  <2>1. body \in Stream
    BY <1>1 DEF Stream
  <2>2. Len(body) = size
    BY <1>1
  <2> QED
    BY <2>1, <2>2
<1>4. \A i \in 1..2 : front[i].of = e /\ (front[i].kind = "pattern" => i = 1)
  OBVIOUS
<1>5. \A i \in 1..Len(body) : body[i].of = e /\ body[i].kind = "body"
  BY <1>3
<1>6. Units(e) = front \o body
  BY DEF Units, size
<1> HIDE DEF front, body
<1>7. /\ front \o body \in Stream
      /\ Len(front \o body) = Len(front) + Len(body)
      /\ \A i \in 1..Len(front) : (front \o body)[i] = front[i]
      /\ \A i \in 1..Len(body) : (front \o body)[Len(front) + i] = body[i]
  BY <1>2, <1>3, Concatenated, Zenon
<1>8. Units(e) \in Stream /\ Len(Units(e)) = 2 + size
  BY <1>3, <1>6, <1>7
<1>9. ASSUME NEW i \in 1..Len(Units(e))
      PROVE  Units(e)[i].of = e /\ (Units(e)[i].kind = "pattern" => i = 1)
  <2>1. CASE i \in 1..2
    <3>1. Units(e)[i] = front[i]
      BY <1>3, <1>6, <1>7, <2>1
    <3> QED
      BY <1>4, <2>1, <3>1
  <2>2. CASE i \notin 1..2
    <3>1. i - 2 \in 1..Len(body) /\ i = 2 + (i - 2)
      BY <1>1, <1>3, <1>8, <2>2
    <3>2. Units(e)[2 + (i - 2)] = body[i - 2]
      BY <1>3, <1>6, <1>7, <3>1
    <3> QED
      BY <1>5, <3>1, <3>2
  <2> QED
    BY <2>1, <2>2
<1>10. front[2] = [kind |-> "header", of |-> e]
       /\ \A j \in 1..size : body[j] = [kind |-> "body", of |-> e]
  BY DEF front, body
<1>11. Units(e)[2] = [kind |-> "header", of |-> e]
       /\ \A j \in 1..size : Units(e)[2 + j] = [kind |-> "body", of |-> e]
  <2>1. 2 \in 1..Len(front)
    BY <1>3
  <2> QED
    BY <1>3, <1>6, <1>7, <1>10, <2>1
<1> QED
  BY <1>8, <1>9, <1>11 DEF size

LEMMA FrontLost ==
  ASSUME NEW a \in Stream, NEW t \in Stream, NEW b \in Stream, NEW c \in Stream,
         NEW k \in Nat, Len(a) = Len(t) + k, Piece(t, a, k)
  PROVE  Piece((t \o b) \o c, (a \o b) \o c, k)
<1>1. Len(a \o b) = Len(t \o b) + k /\ Piece(t \o b, a \o b, k)
  BY PieceInFront
<1>2. a \o b \in Stream /\ t \o b \in Stream
  BY Concatenated
<1> QED
  BY <1>1, <1>2, PieceInFront

\* What is in front is gone, or the first unit is taken.
LEMMA AllLost ==
  ASSUME NEW a \in Stream
  PROVE  /\ <<>> \in Stream /\ Len(a) \in Nat
         /\ Len(a) = Len(<<>>) + Len(a) /\ Piece(<<>>, a, Len(a))
<1>1. Len(a) \in Nat /\ <<>> \in Stream /\ Len(<<>>) = 0
  BY Numbers, Streams
<1> QED
  BY <1>1 DEF Piece

LEMMA FirstTaken ==
  ASSUME NEW a \in Stream, a # <<>>
  PROVE  /\ Tail(a) \in Stream
         /\ Len(a) = Len(Tail(a)) + 1 /\ Piece(Tail(a), a, 1)
         /\ 1 \in 1..Len(a) /\ Head(a) = a[1]
<1>1. Stream = Seq(Unit)
  BY DEF Stream, Unit
<1> HIDE DEF Unit
<1>2. /\ Len(a) \in Nat \ {0} /\ Head(a) = a[1] /\ Tail(a) \in Seq(Unit)
      /\ Len(Tail(a)) = Len(a) - 1
      /\ \A i \in 1..Len(Tail(a)) : Tail(a)[i] = a[i + 1]
  BY <1>1, HeadTailProperties
<1> QED
  BY <1>1, <1>2 DEF Piece

\* The first units of a run and what is behind them.
LEMMA FrontOfRun ==
  ASSUME NEW s \in Stream, NEW k \in Nat, k <= Len(s)
  PROVE  /\ Len(SubSeq(s, 1, k)) = k
         /\ \A i \in 1..k : SubSeq(s, 1, k)[i] = s[i]
<1>1. Len(s) \in Nat /\ \A i \in 1..Len(s) : s[i] \in Unit
  BY Numbers
<1>2. \A i \in 1 .. k : s[i] \in Unit
  BY <1>1
<1>3. /\ Len(SubSeq(s, 1, k)) = IF 1 <= k THEN k - 1 + 1 ELSE 0
      /\ \A i \in 1 .. k - 1 + 1 : SubSeq(s, 1, k)[i] = s[1 + i - 1]
  BY <1>2, SubSeqProperties
<1> QED
  BY <1>3

LEMMA RestOfRun ==
  ASSUME NEW s \in Stream, NEW k \in Nat, k <= Len(s)
  PROVE  LET t == SubSeq(s, k + 1, Len(s))
         IN  Len(s) = Len(t) + k /\ Piece(t, s, k)
<1> DEFINE t == SubSeq(s, k + 1, Len(s))
<1>1. /\ Len(s) \in Nat
      /\ \A i \in 1..Len(s) : s[i] \in Unit
  BY Numbers
<1>2. /\ Len(t) = IF k + 1 <= Len(s) THEN Len(s) - (k + 1) + 1 ELSE 0
      /\ \A i \in 1..Len(s) - (k + 1) + 1 : t[i] = s[(k + 1) + i - 1]
  <2>1. k + 1 \in Int /\ Len(s) \in Int
    BY <1>1
  <2>2. \A i \in k + 1 .. Len(s) : s[i] \in Unit
    BY <1>1
  <2> QED
    BY <2>1, <2>2, SubSeqProperties
<1> HIDE DEF t
<1>3. Len(t) = Len(s) - k
  BY <1>1, <1>2
<1>4. ASSUME NEW i \in 1..Len(t) PROVE t[i] = s[i + k]
  <2>1. i \in 1..Len(s) - (k + 1) + 1 /\ (k + 1) + i - 1 = i + k
    BY <1>1, <1>3
  <2> QED
    BY <1>2, <2>1
<1>5. Len(s) = Len(t) + k /\ Piece(t, s, k)
  BY <1>1, <1>3, <1>4 DEF Piece
<1> QED
  BY <1>5 DEF t
-----------------------------------------------------------------------------
(***************************************************************************)
(* The order of the events                                                 *)
(***************************************************************************)
LEMMA StreamTyped ==
  ASSUME TypeOK
  PROVE  /\ sock \in Stream /\ wire \in Stream /\ fifo \in Stream
         /\ sock \o wire \in Stream /\ Coming \in Stream
         /\ nEvents \in Nat /\ nStopped \in Nat
         /\ packet.head.n \in Nat /\ sent.event.n \in Nat
<1>1. sock \in Stream /\ wire \in Stream /\ fifo \in Stream
  BY DEF TypeOK
<1>2. sock \o wire \in Stream /\ Coming \in Stream
  BY <1>1, Streams DEF Coming
<1>3. /\ nEvents \in Nat /\ nStopped \in Nat
      /\ packet.head \in Events /\ sent.event \in Events
  BY Widths DEF TypeOK
<1> QED
  BY <1>1, <1>2, <1>3, Widths DEF Events

\* A step that only takes units out of the stream, and begins no event.
LEMMA LossKeeps ==
  ASSUME TypeOK, TypeOK', StreamOrder, NEW k \in Nat, Piece(Coming', Coming, k),
         UNCHANGED <<sent, nStopped, nEvents>>,
         reader' = "header" => reader = "header",
         reader' \in {"body", "send"}
           => reader \in {"body", "send"} /\ packet'.head = packet.head
  PROVE  StreamOrder'
<1>1. Coming \in Stream /\ Coming' \in Stream
  <2>1. Coming \in Stream
    BY StreamTyped
  <2>2. sock' \in Stream /\ wire' \in Stream /\ fifo' \in Stream
    BY DEF TypeOK
  <2>3. Coming' \in Stream
    BY <2>2, Streams DEF Coming
  <2> QED
    BY <2>1, <2>3
<1>2. /\ Ordered(Coming) => Ordered(Coming')
      /\ \A n : /\ AllUpTo(Coming, n) => AllUpTo(Coming', n)
                /\ AllAbove(Coming, n) => AllAbove(Coming', n)
                /\ PatternsAbove(Coming, n) => PatternsAbove(Coming', n)
  <2> DEFINE s == Coming
             t == Coming'
  <2>1. s \in Stream /\ t \in Stream /\ Piece(t, s, k)
    BY <1>1
  <2> HIDE DEF s, t
  <2>2. /\ Ordered(s) => Ordered(t)
        /\ \A n : /\ AllUpTo(s, n) => AllUpTo(t, n)
                  /\ AllAbove(s, n) => AllAbove(t, n)
                  /\ PatternsAbove(s, n) => PatternsAbove(t, n)
    BY <2>1, PieceOrdered
  <2> QED
    BY <2>2 DEF s, t
<1>3. Ordered(Coming') /\ AllUpTo(Coming', nEvents)
  BY <1>2 DEF StreamOrder
<1>4. ASSUME NEW n \in {sent.event.n, nStopped}
      PROVE  /\ n <= nEvents
             /\ PatternsAbove(Coming', n)
             /\ reader' = "header" => AllAbove(Coming', n)
             /\ reader' \in {"body", "send"} => n < packet'.head.n
  BY <1>2, <1>4 DEF StreamOrder
<1>5. reader' \in {"body", "send"} => /\ packet'.head.n <= nEvents
                                      /\ PatternsAbove(Coming', packet'.head.n)
  BY <1>2 DEF StreamOrder
<1> QED
  BY <1>3, <1>4, <1>5 DEF StreamOrder

\* The steps that leave the stream as it is, for all the reader sees of it.
LEMMA SameStreamKeeps ==
  ASSUME TypeOK, TypeOK', StreamOrder,
         Coming' = Coming, UNCHANGED <<sent, nStopped, nEvents>>,
         reader' = "header" => reader = "header",
         reader' \in {"body", "send"}
           => reader \in {"body", "send"} /\ packet'.head = packet.head
  PROVE  StreamOrder'
<1>1. Coming \in Stream
  BY StreamTyped
<1>2. Len(Coming) \in Nat
  BY <1>1, Numbers
<1>3. Piece(Coming', Coming, 0)
  BY <1>2 DEF Piece
<1> QED
  BY <1>3, LossKeeps

LEMMA CallerOrders ==
  ASSUME TypeOK, TypeOK', CallerOrder, StreamOrder, BoardStops,
         StartBegins \/ StopBegins \/ Caller
  PROVE  StreamOrder'
<1>1. CASE StartBegins \/ StopBegins \/ Join \/ StartsThread
  <2>1. /\ UNCHANGED <<sent, nStopped, nEvents, sock, wire, fifo, packet>>
        /\ reader' = reader \/ reader' \in {"none", "top"}
    BY <1>1 DEF StartBegins, StopBegins, Join, StartsThread, host, board
  <2>2. Coming' = Coming
    BY <2>1 DEF Coming
  <2> QED
    BY <2>1, <2>2, SameStreamKeeps
<1>2. CASE WritesRegister
  <2>1. /\ UNCHANGED <<sent, nStopped, nEvents, sock, wire, packet, reader>>
        /\ fifo' \in {fifo, <<>>}
    BY <1>2 DEF WritesRegister, BoardTakes, host, board
  <2>2. CASE fifo' = fifo
    BY <2>1, <2>2, SameStreamKeeps DEF Coming
  <2>3. CASE fifo' = <<>>
    <3> DEFINE s == sock \o wire
    <3>1. s \in Stream /\ fifo \in Stream
      BY StreamTyped
    <3>2. Coming = s \o fifo /\ Coming' = s \o <<>>
      BY <2>1, <2>3 DEF Coming
    <3> HIDE DEF s
    <3>3. Piece(Coming', Coming, 0)
      BY <3>1, <3>2, PieceBehind
    <3> QED
      BY <2>1, <3>3, LossKeeps
  <2> QED
    BY <2>1, <2>2, <2>3
<1>3. CASE Purges
  <2>1. UNCHANGED <<sent, nEvents, wire, fifo, packet, reader>>
    BY <1>3 DEF Purges, host, board
  <2>2. CASE sock' = <<>> /\ UNCHANGED nStopped
    <3>1. sock \in Stream /\ wire \in Stream /\ fifo \in Stream
      BY StreamTyped
    <3>2. Piece((<<>> \o wire) \o fifo, (sock \o wire) \o fifo, Len(sock))
      BY <3>1, AllLost, FrontLost
    <3>3. Coming' = (<<>> \o wire) \o fifo /\ Coming = (sock \o wire) \o fifo
      BY <2>1, <2>2 DEF Coming
    <3>4. Piece(Coming', Coming, Len(sock)) /\ Len(sock) \in Nat
      BY <3>1, <3>2, <3>3, AllLost
    <3> QED
      BY <2>1, <2>2, <3>4, LossKeeps
  <2>3. CASE Quiet /\ nStopped' = nEvents /\ sock' = sock
    <3>1. nWrites = 5 /\ cmd = "Stop" /\ step = "write"
      BY <1>3 DEF Purges, Writes, CallerOrder, TypeOK
    <3>2. sock' = <<>> /\ wire' = <<>> /\ fifo' = <<>>
      BY <2>1, <2>3, <3>1 DEF Quiet, BoardStops
    <3>3. reader' = "none"
      BY <2>1, <3>1 DEF CallerOrder, TypeOK
    <3>4. Coming' = <<>>
      BY <3>2, <2>1 DEF Coming
    <3>5. /\ Ordered(Coming')
          /\ \A n : AllUpTo(Coming', n) /\ PatternsAbove(Coming', n)
      BY <3>4 DEF Ordered, AllUpTo, PatternsAbove
    <3>6. sent'.event.n <= nEvents' /\ nStopped' <= nEvents'
      <4>1. nEvents \in Nat /\ sent.event.n <= nEvents
        BY StreamTyped DEF StreamOrder
      <4> QED
        BY <2>1, <2>3, <4>1
    <3> QED
      BY <3>3, <3>5, <3>6 DEF StreamOrder
  <2> QED
    BY <1>3, <2>2, <2>3 DEF Purges, call
<1> QED
  BY <1>1, <1>2, <1>3 DEF Caller

\* The reader takes the first unit of the stream: a pattern word, with which
\* nothing of an event it has sent is left, or what it takes for a header.
LEMMA FirstUnit ==
  ASSUME TypeOK, sock # <<>>, sock' = Tail(sock), UNCHANGED <<wire, fifo>>
  PROVE  /\ Piece(Coming', Coming, 1)
         /\ 1 \in 1..Len(Coming) /\ Coming[1] = Head(sock)
         /\ \A i \in 1..Len(Coming') : /\ i + 1 \in 1..Len(Coming) /\ 1 < i + 1
                                       /\ Coming'[i] = Coming[i + 1]
<1>1. sock \in Stream /\ wire \in Stream /\ fifo \in Stream /\ Coming \in Stream
  BY StreamTyped
<1>2. /\ Tail(sock) \in Stream
      /\ Len(sock) = Len(Tail(sock)) + 1 /\ Piece(Tail(sock), sock, 1)
      /\ 1 \in 1..Len(sock) /\ Head(sock) = sock[1]
  BY <1>1, FirstTaken
<1>3. Piece((Tail(sock) \o wire) \o fifo, (sock \o wire) \o fifo, 1)
  BY <1>1, <1>2, FrontLost
<1>4. Coming' = (Tail(sock) \o wire) \o fifo /\ Coming = (sock \o wire) \o fifo
  BY DEF Coming
<1>5. Piece(Coming', Coming, 1)
  BY <1>3, <1>4
<1>6. 1 \in 1..Len(Coming) /\ Coming[1] = Head(sock)
  <2>1. Len(sock \o wire) = Len(sock) + Len(wire) /\ (sock \o wire)[1] = sock[1]
    BY <1>1, <1>2, Concatenated
  <2>2. Len(sock) \in Nat /\ Len(wire) \in Nat /\ Len(fifo) \in Nat
    BY <1>1, Numbers
  <2>3. 1 \in 1..Len(sock \o wire) /\ sock \o wire \in Stream
    BY <1>1, <1>2, <2>1, <2>2, Concatenated
  <2>4. /\ Len(Coming) = Len(sock \o wire) + Len(fifo)
        /\ Coming[1] = (sock \o wire)[1]
    BY <1>1, <1>4, <2>3, Concatenated
  <2> QED
    BY <1>2, <2>1, <2>2, <2>4
<1>7. Len(Coming) \in Nat /\ Len(Coming') \in Nat
  <2>1. Coming' \in Stream
    BY <1>1, <1>2, <1>4, Concatenated
  <2> QED
    BY <1>1, <2>1, Numbers
<1> QED
  BY <1>5, <1>6, <1>7 DEF Piece

LEMMA ReaderOrders ==
  ASSUME TypeOK, TypeOK', StreamOrder, Reader
  PROVE  StreamOrder'
<1>1. CASE Top
  <2>1. /\ UNCHANGED <<sent, nStopped, nEvents, sock, wire, fifo, packet>>
        /\ reader' \in {"find", "ended"}
    BY <1>1 DEF Top, ReaderGoes, call, board
  <2>2. Coming' = Coming
    BY <2>1 DEF Coming
  <2> QED
    BY <2>1, <2>2, SameStreamKeeps
<1>2. CASE Find /\ sock = <<>>
  <2>1. /\ UNCHANGED <<sent, nStopped, nEvents, sock, wire, fifo>>
        /\ reader' = "top"
    BY <1>2 DEF Find, ReaderGoes, call, board
  <2>2. Coming' = Coming
    BY <2>1 DEF Coming
  <2> QED
    BY <2>1, <2>2, SameStreamKeeps
<1>3. CASE Find /\ sock # <<>>
  <2>1. /\ UNCHANGED <<sent, nStopped, nEvents, wire, fifo>>
        /\ sock # <<>> /\ sock' = Tail(sock)
        /\ reader' = IF Head(sock).kind = "pattern" THEN "header" ELSE "find"
    BY <1>3 DEF Find, ReaderGoes, call, board
  <2>2. Piece(Coming', Coming, 1)
    BY <2>1, FirstUnit
  <2>3. CASE Head(sock).kind # "pattern"
    BY <2>1, <2>2, <2>3, LossKeeps
  <2>4. CASE Head(sock).kind = "pattern"
    <3>1. Coming \in Stream /\ Coming' \in Stream
      <4>1. sock' \in Stream /\ wire' \in Stream /\ fifo' \in Stream
        BY DEF TypeOK
      <4> QED
        BY <4>1, Streams, StreamTyped DEF Coming
    <3>2. /\ Ordered(Coming') /\ AllUpTo(Coming', nEvents)
          /\ \A n \in {sent.event.n, nStopped} : PatternsAbove(Coming', n)
      <4> DEFINE s == Coming
                 t == Coming'
      <4>1. s \in Stream /\ t \in Stream /\ Piece(t, s, 1)
        BY <2>2, <3>1
      <4>2. /\ Ordered(s) /\ AllUpTo(s, nEvents)
            /\ \A n \in {sent.event.n, nStopped} : PatternsAbove(s, n)
        BY DEF StreamOrder
      <4> HIDE DEF s, t
      <4>3. /\ Ordered(s) => Ordered(t)
            /\ \A n : /\ AllUpTo(s, n) => AllUpTo(t, n)
                      /\ PatternsAbove(s, n) => PatternsAbove(t, n)
        BY <4>1, PieceOrdered
      <4>4. /\ Ordered(t) /\ AllUpTo(t, nEvents)
            /\ \A n \in {sent.event.n, nStopped} : PatternsAbove(t, n)
        BY <4>2, <4>3
      <4> QED
        BY <4>4 DEF t
    <3>3. ASSUME NEW n \in {sent.event.n, nStopped}
          PROVE  AllAbove(Coming', n)
      <4> SUFFICES ASSUME NEW i \in 1..Len(Coming')
                   PROVE  Coming'[i].of.n > n
        BY DEF AllAbove
      <4>1. /\ 1 \in 1..Len(Coming) /\ Coming[1] = Head(sock)
            /\ i + 1 \in 1..Len(Coming) /\ 1 < i + 1
            /\ Coming'[i] = Coming[i + 1]
        BY <2>1, FirstUnit
      <4>2. Coming[1].of.n > n
        BY <2>4, <4>1 DEF StreamOrder, PatternsAbove
      <4>3. Coming[1].of.n <= Coming[i + 1].of.n
        BY <4>1 DEF StreamOrder, Ordered
      <4>4. /\ Coming[1].of.n \in Nat /\ Coming[i + 1].of.n \in Nat /\ n \in Nat
        BY <3>1, <4>1, Numbers, StreamTyped
      <4>5. Coming[i + 1].of.n > n
        BY <4>2, <4>3, <4>4
      <4> QED
        BY <4>1, <4>5
    <3>4. \A n \in {sent.event.n, nStopped} : n <= nEvents
      BY DEF StreamOrder
    <3>5. reader' = "header"
      BY <2>1, <2>4
    <3> QED
      BY <2>1, <3>2, <3>3, <3>4, <3>5 DEF StreamOrder
  <2> QED
    BY <2>3, <2>4
<1>4. CASE ReadHeader
  <2>1. /\ UNCHANGED <<sent, nStopped, nEvents, wire, fifo>>
        /\ reader = "header" /\ reader' = "body"
        /\ sock # <<>> /\ sock' = Tail(sock)
        /\ packet'.head = Head(sock).of
    BY <1>4 DEF ReadHeader, ReaderGoes, call, board, TypeOK
  <2>2. /\ Piece(Coming', Coming, 1)
        /\ 1 \in 1..Len(Coming) /\ Coming[1] = Head(sock)
        /\ \A i \in 1..Len(Coming') : /\ i + 1 \in 1..Len(Coming) /\ 1 < i + 1
                                      /\ Coming'[i] = Coming[i + 1]
    BY <2>1, FirstUnit
  <2>3. Coming \in Stream /\ Coming' \in Stream
    <3>1. sock' \in Stream /\ wire' \in Stream /\ fifo' \in Stream
      BY DEF TypeOK
    <3> QED
      BY <3>1, Streams, StreamTyped DEF Coming
  <2>4. /\ Ordered(Coming') /\ AllUpTo(Coming', nEvents)
        /\ \A n \in {sent.event.n, nStopped} : PatternsAbove(Coming', n)
    <3> DEFINE s == Coming
               t == Coming'
    <3>1. s \in Stream /\ t \in Stream /\ Piece(t, s, 1)
      BY <2>2, <2>3
    <3>2. /\ Ordered(s) /\ AllUpTo(s, nEvents)
          /\ \A n \in {sent.event.n, nStopped} : PatternsAbove(s, n)
      BY DEF StreamOrder
    <3> HIDE DEF s, t
    <3>3. /\ Ordered(s) => Ordered(t)
          /\ \A n : /\ AllUpTo(s, n) => AllUpTo(t, n)
                    /\ PatternsAbove(s, n) => PatternsAbove(t, n)
      BY <3>1, PieceOrdered
    <3>4. /\ Ordered(t) /\ AllUpTo(t, nEvents)
          /\ \A n \in {sent.event.n, nStopped} : PatternsAbove(t, n)
      BY <3>2, <3>3
    <3> QED
      BY <3>4 DEF t
  <2>5. packet'.head.n <= nEvents
    BY <2>1, <2>2 DEF StreamOrder, AllUpTo
  <2>6. \A n \in {sent.event.n, nStopped} : n <= nEvents /\ n < packet'.head.n
    <3>1. ASSUME NEW n \in {sent.event.n, nStopped}
          PROVE  n <= nEvents /\ n < packet'.head.n
      <4>1. n \in Nat /\ Coming[1].of.n \in Nat
        BY <2>2, <2>3, Numbers, StreamTyped
      <4>2. n <= nEvents /\ Coming[1].of.n > n
        BY <2>1, <2>2 DEF StreamOrder, AllAbove
      <4>3. n < Coming[1].of.n
        BY <4>1, <4>2
      <4> QED
        BY <2>1, <2>2, <4>2, <4>3
    <3> QED
      BY <3>1
  <2>7. PatternsAbove(Coming', packet'.head.n)
    <3> SUFFICES ASSUME NEW i \in 1..Len(Coming'), Coming'[i].kind = "pattern"
                 PROVE  Coming'[i].of.n > packet'.head.n
      BY DEF PatternsAbove
    <3>1. i + 1 \in 1..Len(Coming) /\ 1 < i + 1 /\ Coming'[i] = Coming[i + 1]
      BY <2>2
    <3>2. Coming[1].of.n < Coming[i + 1].of.n
      BY <2>2, <3>1 DEF StreamOrder, Ordered
    <3>3. Coming[1].of.n \in Nat /\ Coming[i + 1].of.n \in Nat
      BY <2>2, <2>3, <3>1, Numbers
    <3>4. Coming[i + 1].of.n > Coming[1].of.n
      BY <3>2, <3>3
    <3> QED
      BY <2>1, <2>2, <3>1, <3>4
  <2> QED
    BY <2>1, <2>4, <2>5, <2>6, <2>7 DEF StreamOrder
<1>5. CASE ReadBody
  <2> DEFINE k == BodySize(packet.head)
  <2>1. /\ UNCHANGED <<sent, nStopped, nEvents, wire, fifo>>
        /\ reader = "body" /\ reader' = "send"
        /\ Len(sock) >= k
        /\ sock' = SubSeq(sock, k + 1, Len(sock))
        /\ packet'.head = packet.head
    BY <1>5 DEF ReadBody, ReaderGoes, call, board, TypeOK
  <2>2. k \in Nat
    BY Widths DEF BodySize, TypeOK, Events
  <2> HIDE DEF k
  <2>3. sock \in Stream /\ wire \in Stream /\ fifo \in Stream /\ sock' \in Stream
    BY DEF TypeOK
  <2>4. Len(sock) = Len(sock') + k /\ Piece(sock', sock, k)
    <3>1. k <= Len(sock)
      BY <2>1, <2>2, <2>3, Numbers
    <3> QED
      BY <2>1, <2>2, <2>3, <3>1, RestOfRun
  <2>5. Piece((sock' \o wire) \o fifo, (sock \o wire) \o fifo, k)
    BY <2>2, <2>3, <2>4, FrontLost
  <2>6. Piece(Coming', Coming, k)
    BY <2>1, <2>5 DEF Coming
  <2> QED
    BY <2>1, <2>2, <2>6, LossKeeps
<1>6. CASE Send
  <2>1. /\ UNCHANGED <<nStopped, nEvents, sock, wire, fifo>>
        /\ reader = "send" /\ reader' = "top"
        /\ sent'.event = packet.head
    BY <1>6 DEF Send, ReaderGoes, call, board
  <2>2. Coming' = Coming
    BY <2>1 DEF Coming
  <2>3. /\ Ordered(Coming') /\ AllUpTo(Coming', nEvents)
        /\ \A n \in {sent'.event.n, nStopped} :
             n <= nEvents /\ PatternsAbove(Coming', n)
    BY <2>1, <2>2 DEF StreamOrder
  <2> QED
    BY <2>1, <2>3 DEF StreamOrder
<1> QED
  BY <1>1, <1>2, <1>3, <1>4, <1>5, <1>6 DEF Reader

LEMMA Associated ==
  ASSUME NEW a \in Stream, NEW b \in Stream, NEW c \in Stream
  PROVE  (a \o b) \o c = a \o (b \o c)
<1>1. Stream = Seq(Unit)
  BY DEF Stream, Unit
<1> HIDE DEF Unit
<1> QED
  BY <1>1, ConcatAssociative

\* A unit goes from the last of three runs to the one before it.
LEMMA UnitPasses ==
  ASSUME NEW a \in Stream, NEW b \in Stream, NEW c \in Stream, c # <<>>
  PROVE  (a \o Append(b, Head(c))) \o Tail(c) = (a \o b) \o c
<1> DEFINE d == Append(b, Head(c))
           t == Tail(c)
<1>1. d \in Stream /\ t \in Stream
  BY Streams
<1>2. d \o t = b \o c
  BY UnitMoves
<1> HIDE DEF d, t
<1>3. (a \o d) \o t = a \o (d \o t)
  <2>1. \A u, v, w \in Stream : (u \o v) \o w = u \o (v \o w)
    BY Associated
  <2> QED
    BY <1>1, <2>1, SMTT(30)
<1>4. (a \o b) \o c = a \o (b \o c)
  BY Associated
<1> QED
  BY <1>2, <1>3, <1>4 DEF d, t

\* Event n + 1 is put behind the units of the first n.
LEMMA EventBehind ==
  ASSUME NEW s \in Stream, NEW e \in Events, NEW n \in Nat, e.n = n + 1,
         Ordered(s), AllUpTo(s, n)
  PROVE  /\ s \o Units(e) \in Stream
         /\ Ordered(s \o Units(e))
         /\ AllUpTo(s \o Units(e), n + 1)
         /\ \A m \in 0..n :
              /\ AllAbove(s, m) => AllAbove(s \o Units(e), m)
              /\ PatternsAbove(s, m) => PatternsAbove(s \o Units(e), m)
<1> DEFINE u == Units(e)
           t == s \o Units(e)
<1>1. u \in Stream /\ \A i \in 1..Len(u) : u[i].of.n = n + 1
  BY UnitsOf
<1> HIDE DEF u
<1>2. t = s \o u
  BY DEF u
<1>3. t \in Stream /\ Len(t) = Len(s) + Len(u)
  BY <1>1, <1>2, Concatenated
<1>4. Len(s) \in Nat /\ Len(u) \in Nat
  BY <1>1, Numbers
<1>5. ASSUME NEW i \in 1..Len(t)
      PROVE  (\E j \in 1..Len(s) : t[i] = s[j]) \/ t[i].of.n = n + 1
  <2>1. CASE i \in 1..Len(s)
    BY <1>1, <1>2, <2>1, Concatenated
  <2>2. CASE i \notin 1..Len(s)
    <3>1. i - Len(s) \in 1..Len(u) /\ i = Len(s) + (i - Len(s))
      BY <1>3, <1>4, <2>2
    <3>2. t[Len(s) + (i - Len(s))] = u[i - Len(s)]
      BY <1>1, <1>2, <3>1, Concatenated
    <3> QED
      BY <1>1, <3>1, <3>2
  <2> QED
    BY <2>1, <2>2
<1>6. Ordered(t)
  <2>1. AllAbove(u, n)
    BY <1>1 DEF AllAbove
  <2>2. Ordered(u)
    <3>1. \A i \in 1..Len(u) : u[i].kind = "pattern" => i = 1
      BY UnitsOf DEF u
    <3> SUFFICES ASSUME NEW i \in 1..Len(u), NEW j \in 1..Len(u), i < j
                 PROVE  /\ u[i].of.n <= u[j].of.n
                        /\ u[j].kind = "pattern" => u[i].of.n < u[j].of.n
      BY DEF Ordered
    <3>2. j # 1 /\ u[i].of.n = n + 1 /\ u[j].of.n = n + 1
      BY <1>1, <1>4
    <3> QED
      BY <3>1, <3>2
  <2> QED
    BY <1>1, <1>2, <2>1, <2>2, Extended
<1> HIDE DEF t
<1>7. \A j \in 1..Len(s) : s[j].of.n \in Nat /\ s[j].of.n <= n
  BY Numbers DEF AllUpTo
<1>8. AllUpTo(t, n + 1)
  <2> SUFFICES ASSUME NEW i \in 1..Len(t) PROVE t[i].of.n <= n + 1
    BY DEF AllUpTo
  <2> QED
    BY <1>5, <1>7
<1>9. ASSUME NEW m \in 0..n
      PROVE  /\ AllAbove(s, m) => AllAbove(t, m)
             /\ PatternsAbove(s, m) => PatternsAbove(t, m)
  <2>1. n + 1 > m
    OBVIOUS
  <2>2. ASSUME AllAbove(s, m), NEW i \in 1..Len(t) PROVE t[i].of.n > m
    BY <1>5, <2>1, <2>2 DEF AllAbove
  <2>3. ASSUME PatternsAbove(s, m), NEW i \in 1..Len(t), t[i].kind = "pattern"
        PROVE  t[i].of.n > m
    BY <1>5, <2>1, <2>3 DEF PatternsAbove
  <2> QED
    BY <2>2, <2>3 DEF AllAbove, PatternsAbove
<1> QED
  BY <1>3, <1>6, <1>8, <1>9 DEF t

LEMMA OthersOrder ==
  ASSUME TypeOK, TypeOK', StreamOrder,
         \/ TimesOut \/ SinkFails \/ Restart
         \/ MakesEvent \/ Transmits \/ Delivers
  PROVE  StreamOrder'
<1>0. sock \in Stream /\ wire \in Stream /\ fifo \in Stream
  BY StreamTyped
<1>1. CASE TimesOut \/ SinkFails
  <2>1. UNCHANGED <<sent, nStopped, nEvents, sock, wire, fifo, packet, reader>>
    BY <1>1 DEF TimesOut, SinkFails, board
  <2>2. Coming' = Coming
    BY <2>1 DEF Coming
  <2> QED
    BY <2>1, <2>2, SameStreamKeeps
<1>2. CASE Restart
  <2> DEFINE s == sock \o wire
  <2>1. /\ UNCHANGED <<sent, nStopped, nEvents, fifo>>
        /\ reader' = "none" /\ sock' = <<>> /\ wire' = <<>>
    BY <1>2 DEF Restart
  <2>2. s \in Stream
    BY <1>0, Concatenated
  <2>3. <<>> \o <<>> = <<>>
    BY <1>0, AllLost, PieceBehind
  <2>4. Coming' = <<>> \o fifo
    BY <2>1, <2>3 DEF Coming
  <2>5. Coming = s \o fifo
    BY DEF Coming
  <2> HIDE DEF s
  <2>6. /\ <<>> \in Stream /\ Len(s) \in Nat
        /\ Len(s) = Len(<<>>) + Len(s) /\ Piece(<<>>, s, Len(s))
    BY <2>2, AllLost
  <2>7. Piece(<<>> \o fifo, s \o fifo, Len(s))
    BY <1>0, <2>2, <2>6, PieceInFront
  <2>8. Piece(Coming', Coming, Len(s))
    BY <2>4, <2>5, <2>7
  <2> QED
    BY <2>1, <2>6, <2>8, LossKeeps
<1>3. CASE MakesEvent
  <2>1. PICK size \in 1..MaxBody :
           fifo' = fifo \o Units([n |-> nEvents + 1, size |-> size])
    BY <1>3 DEF MakesEvent
  <2> DEFINE e == [n |-> nEvents + 1, size |-> size]
  <2>2. /\ UNCHANGED <<sent, nStopped, sock, wire, packet, reader>>
        /\ nEvents' = nEvents + 1 /\ nEvents < MaxEvents
    BY <1>3 DEF MakesEvent, host, call
  <2>3. e \in Events /\ e.n = nEvents + 1
    BY <2>1, <2>2, StreamTyped, Widths DEF Events
  <2>4. fifo' = fifo \o Units(e)
    BY <2>1
  <2> HIDE DEF e
  <2>5. Units(e) \in Stream
    BY <2>3, UnitsOf
  <2>6. Coming' = Coming \o Units(e)
    <3>1. sock \o wire \in Stream
      BY StreamTyped
    <3>2. ((sock \o wire) \o fifo) \o Units(e) = (sock \o wire) \o (fifo \o Units(e))
      BY <1>0, <2>5, <3>1, Associated
    <3> QED
      BY <2>2, <2>4, <3>2 DEF Coming
  <2> DEFINE s == Coming
             t == Coming'
  <2>7. s \in Stream /\ nEvents \in Nat /\ Ordered(s) /\ AllUpTo(s, nEvents)
    BY StreamTyped DEF StreamOrder
  <2>8. t = s \o Units(e)
    BY <2>6
  <2>9. \A n \in {sent.event.n, nStopped} :
          /\ n \in 0..nEvents
          /\ PatternsAbove(s, n)
          /\ reader = "header" => AllAbove(s, n)
          /\ reader \in {"body", "send"} => n < packet.head.n
    BY StreamTyped DEF StreamOrder
  <2>10. reader \in {"body", "send"} => /\ packet.head.n \in 0..nEvents
                                        /\ PatternsAbove(s, packet.head.n)
    BY StreamTyped DEF StreamOrder
  <2> HIDE DEF s, t
  <2>11. /\ Ordered(t) /\ AllUpTo(t, nEvents + 1)
         /\ \A m \in 0..nEvents : /\ AllAbove(s, m) => AllAbove(t, m)
                                  /\ PatternsAbove(s, m) => PatternsAbove(t, m)
    BY <2>3, <2>7, <2>8, EventBehind
  <2>12. \A n \in {sent.event.n, nStopped} :
           /\ n <= nEvents + 1
           /\ PatternsAbove(t, n)
           /\ reader = "header" => AllAbove(t, n)
           /\ reader \in {"body", "send"} => n < packet.head.n
    BY <2>7, <2>9, <2>11
  <2>13. reader \in {"body", "send"} => /\ packet.head.n <= nEvents + 1
                                        /\ PatternsAbove(t, packet.head.n)
    BY <2>7, <2>10, <2>11
  <2>14. /\ Ordered(Coming') /\ AllUpTo(Coming', nEvents')
    BY <2>2, <2>11 DEF t
  <2>15. \A n \in {sent'.event.n, nStopped'} :
           /\ n <= nEvents'
           /\ PatternsAbove(Coming', n)
           /\ reader' = "header" => AllAbove(Coming', n)
           /\ reader' \in {"body", "send"} => n < packet'.head.n
    BY <2>2, <2>12 DEF t
  <2>16. reader' \in {"body", "send"} => /\ packet'.head.n <= nEvents'
                                         /\ PatternsAbove(Coming', packet'.head.n)
    BY <2>2, <2>13 DEF t
  <2> QED
    BY <2>14, <2>15, <2>16 DEF StreamOrder
<1>4. CASE Transmits
  <2>1. /\ UNCHANGED <<sent, nStopped, nEvents, sock, packet, reader>>
        /\ fifo # <<>> /\ wire' = Append(wire, Head(fifo)) /\ fifo' = Tail(fifo)
    BY <1>4 DEF Transmits, host, call
  <2>2. Coming' = Coming
    BY <1>0, <2>1, UnitPasses DEF Coming
  <2> QED
    BY <2>1, <2>2, SameStreamKeeps
<1>5. CASE Delivers
  <2>1. /\ UNCHANGED <<sent, nStopped, nEvents, fifo, packet, reader>>
        /\ wire # <<>> /\ sock' = Append(sock, Head(wire)) /\ wire' = Tail(wire)
    BY <1>5 DEF Delivers, host, call
  <2>2. sock' \o wire' = sock \o wire
    BY <1>0, <2>1, UnitMoves
  <2>3. Coming' = Coming
    BY <2>1, <2>2 DEF Coming
  <2> QED
    BY <2>1, <2>3, SameStreamKeeps
<1> QED
  BY <1>1, <1>2, <1>3, <1>4, <1>5

\* The master logic is off after the second write of a Stop, and the FIFO empty
\* after the third and the fourth, with nothing to fill it again.
LEMMA StopsBoard ==
  ASSUME TypeOK, CallerOrder, BoardStops, [Next]_vars
  PROVE  BoardStops'
<1>1. CASE StartBegins \/ StartsThread \/ Restart
  <2>1. cmd' # "Stop"
    BY <1>1 DEF StartBegins, StartsThread, Restart, Returns
  <2> QED
    BY <2>1 DEF BoardStops
<1>2. CASE StopBegins \/ Join
  <2>1. nWrites' = 0
    BY <1>2 DEF StopBegins, Join, Returns, CallerOrder
  <2> QED
    BY <2>1 DEF BoardStops
<1>3. CASE WritesRegister
  <2> SUFFICES ASSUME cmd' = "Stop"
               PROVE  /\ nWrites' >= 2 => ~acquiring'
                      /\ nWrites' >= 3 => fifo' = <<>>
    BY DEF BoardStops
  <2>1. /\ cmd = "Stop" /\ nWrites' = nWrites + 1 /\ nWrites < Len(Writes[cmd])
        /\ BoardTakes(Writes[cmd][nWrites + 1])
    BY <1>3 DEF WritesRegister, Returns
  <2>2. nWrites \in 0..4
    BY <2>1 DEF TypeOK, Writes
  <2>3. CASE nWrites = 0
    BY <2>1, <2>3
  <2>4. CASE nWrites = 1
    <3>1. Writes["Stop"][2] = "master_logic_control"
      BY DEF Writes
    <3>2. ~acquiring'
      <4>1. 1 + 1 = 2
        OBVIOUS
      <4>2. BoardTakes("master_logic_control")
        BY <2>1, <2>4, <3>1, <4>1
      <4>3. acquiring' = (cmd = "Start")
        BY <4>2, Zenon DEF BoardTakes
      <4> QED
        BY <2>1, <4>3
    <3>3. nWrites' = 2
      BY <2>1, <2>4
    <3> QED
      BY <3>2, <3>3
  <2>5. CASE nWrites = 2
    <3>1. Writes["Stop"][3] = "fifo_control"
      BY DEF Writes
    <3> QED
      BY <2>1, <2>5, <3>1 DEF BoardTakes, BoardStops
  <2>6. CASE nWrites \in {3, 4}
    <3>1. Writes["Stop"][nWrites + 1] \in {"PurgeDDR", "event_data_control"}
      BY <2>6 DEF Writes
    <3>2. ~acquiring /\ fifo = <<>>
      BY <2>1, <2>6 DEF BoardStops
    <3> QED
      BY <2>1, <3>1, <3>2 DEF BoardTakes
  <2> QED
    BY <2>2, <2>3, <2>4, <2>5, <2>6
<1>4. CASE Purges
  <2>1. cmd' # "Stop" \/ UNCHANGED <<cmd, nWrites, acquiring, fifo>>
    BY <1>4 DEF Purges, Returns, call, board
  <2> QED
    BY <2>1 DEF BoardStops
<1>5. CASE Reader \/ TimesOut \/ SinkFails \/ Delivers \/ UNCHANGED vars
  <2>1. UNCHANGED <<cmd, nWrites, acquiring, fifo>>
    <3>1. CASE Reader
      BY <3>1 DEF Reader, Top, Find, ReadHeader, ReadBody, Send, call, board
    <3>2. CASE TimesOut \/ SinkFails \/ Delivers \/ UNCHANGED vars
      BY <3>2 DEF TimesOut, SinkFails, Delivers, vars, call, board
    <3> QED
      BY <1>5, <3>1, <3>2
  <2> QED
    BY <2>1 DEF BoardStops
<1>6. CASE MakesEvent
  <2>1. UNCHANGED <<cmd, nWrites, acquiring>> /\ acquiring
    BY <1>6 DEF MakesEvent, call
  <2>2. cmd = "Stop" => ~(nWrites >= 2) /\ ~(nWrites >= 3)
    <3> SUFFICES ASSUME cmd = "Stop" PROVE ~(nWrites >= 2) /\ ~(nWrites >= 3)
      OBVIOUS
    <3>1. nWrites \in Nat
      BY DEF TypeOK, Writes
    <3> QED
      BY <2>1, <3>1 DEF BoardStops
  <2> QED
    BY <2>1, <2>2 DEF BoardStops
<1>7. CASE Transmits
  <2>1. UNCHANGED <<cmd, nWrites, acquiring>> /\ fifo # <<>>
    BY <1>7 DEF Transmits, call
  <2> QED
    BY <2>1 DEF BoardStops
<1> QED
  BY <1>1, <1>2, <1>3, <1>4, <1>5, <1>6, <1>7 DEF Next, Caller

LEMMA OrderInit == Init => StreamOrder /\ BoardStops
<1> SUFFICES ASSUME Init PROVE StreamOrder /\ BoardStops
  OBVIOUS
<1>1. Coming = <<>>
  <2>1. <<>> \o <<>> = <<>>
    BY Streams, PieceBehind
  <2> QED
    BY <2>1 DEF Init, Coming
<1>2. Ordered(Coming) /\ \A n : AllUpTo(Coming, n) /\ PatternsAbove(Coming, n)
  BY <1>1 DEF Ordered, AllUpTo, PatternsAbove
<1>3. sent.event.n = 0 /\ nStopped = 0 /\ nEvents = 0 /\ reader = "none" /\ cmd = "none"
  BY DEF Init, NotSent, NoEvent
<1> QED
  BY <1>2, <1>3 DEF StreamOrder, BoardStops

LEMMA OrderStep ==
  ASSUME IInv, IInv', StreamOrder, BoardStops, [Next]_vars
  PROVE  StreamOrder' /\ BoardStops'
<1>1. TypeOK /\ TypeOK' /\ CallerOrder
  BY DEF IInv
<1>2. StreamOrder'
  <2>1. CASE UNCHANGED vars
    <3>1. UNCHANGED <<sent, nStopped, nEvents, sock, wire, fifo, packet, reader>>
      BY <2>1 DEF vars, host, call, board
    <3>2. Coming' = Coming
      BY <3>1 DEF Coming
    <3> QED
      BY <1>1, <3>1, <3>2, SameStreamKeeps
  <2> QED
    BY <1>1, <2>1, CallerOrders, ReaderOrders, OthersOrder DEF Next
<1>3. BoardStops'
  BY <1>1, StopsBoard
<1> QED
  BY <1>2, <1>3

LEMMA OrderInvariance == Spec => [](StreamOrder /\ BoardStops)
<1>1. /\ IInv /\ IInv' /\ (StreamOrder /\ BoardStops) /\ [Next]_vars
      => (StreamOrder /\ BoardStops)'
  BY OrderStep
<1> QED
  BY Invariance, OrderInit, <1>1, PTL DEF Spec

\* Events go out in the order the board made them, none twice and none from
\* before the last Stop that succeeded (DeviceInterface.cxx:140-230, 545-708),
\* however many calls fail, waits end the process and restarts there are, and
\* whatever the stream has lost by then.
THEOREM InOrder == Spec => InOrderFromThisRun
<1>1. IInv /\ StreamOrder /\ [Next]_vars =>
        [sent' # sent => /\ sent'.event.n > sent.event.n
                         /\ sent'.event.n > nStopped]_sent
  <2> SUFFICES ASSUME IInv, StreamOrder, Send
               PROVE  /\ sent'.event.n > sent.event.n
                      /\ sent'.event.n > nStopped
    BY OnlySendSends
  <2>1. sent'.event = packet.head /\ reader = "send"
    BY DEF Send
  <2>2. sent.event.n < packet.head.n /\ nStopped < packet.head.n
    BY <2>1 DEF StreamOrder
  <2>3. /\ packet.head.n \in Nat /\ sent.event.n \in Nat /\ nStopped \in Nat
    BY StreamTyped DEF IInv
  <2> QED
    BY <2>1, <2>2, <2>3
<1> QED
  BY Invariance, OrderInvariance, <1>1, PTL DEF Spec, InOrderFromThisRun
-----------------------------------------------------------------------------
(***************************************************************************)
(* Whole events, under at most one fault                                   *)
(***************************************************************************)
\* Of a run of units: the body of e is at i; the header and the body are; every
\* pattern word has the rest of its event behind it.
BodyAt(s, i, e) ==
  \A j \in 0 .. e.size - 1 :
    i + j \in 1..Len(s) /\ s[i + j] = [kind |-> "body", of |-> e]
RestAt(s, i, e) == /\ i \in 1..Len(s) /\ s[i] = [kind |-> "header", of |-> e]
                   /\ BodyAt(s, i + 1, e)
EventsWhole(s) == \A i \in 1..Len(s) :
                    s[i].kind = "pattern" => RestAt(s, i + 1, s[i].of)

\* A Stop has reset the FIFO, or may have before a write of it threw: then there
\* is no thread, and before there is one again a purge has emptied the stream.
MayBeCut == \/ fState = "kRunning" /\ ~joinable
            \/ cmd = "Stop" /\ nWrites >= 3

\* Of an event the reader has begun, all the rest is still to come.
StreamWhole ==
  /\ ~MayBeCut => EventsWhole(Coming)
  /\ reader = "header" => \E e \in Events : RestAt(Coming, 1, e)
  /\ reader = "body" => BodyAt(Coming, 1, packet.head)
  /\ WholeEvents

\* A process that ended had a thread and has used up the fault; before that, a
\* board whose interface is not running makes nothing and has nothing to send.
FaultOrder ==
  /\ NoEventCutOff
  /\ ~Up => faults > 0 /\ joinable
  /\ cmd = "Start" => fState = "kStopped"
  /\ faults = 0 /\ fState # "kRunning" /\ cmd # "Start" =>
       sock = <<>> /\ wire = <<>> /\ fifo = <<>> /\ ~acquiring

LEMMA FrontLostWhole ==
  ASSUME NEW s \in Stream, NEW t \in Stream, NEW k \in Nat,
         Len(s) = Len(t) + k, Piece(t, s, k)
  PROVE  /\ \A e \in Events, i \in Nat \ {0} :
              /\ BodyAt(s, i + k, e) => BodyAt(t, i, e)
              /\ RestAt(s, i + k, e) => RestAt(t, i, e)
         /\ EventsWhole(s) => EventsWhole(t)
<1>1. Len(s) \in Nat /\ Len(t) \in Nat
  BY Numbers
<1>2. \A i \in Nat \ {0} : i + k \in 1..Len(s) => i \in 1..Len(t) /\ t[i] = s[i + k]
  BY <1>1 DEF Piece
<1>3. ASSUME NEW e \in Events, NEW i \in Nat \ {0}, BodyAt(s, i + k, e)
      PROVE  BodyAt(t, i, e)
  <2> SUFFICES ASSUME NEW j \in 0 .. e.size - 1
               PROVE  i + j \in 1..Len(t) /\ t[i + j] = [kind |-> "body", of |-> e]
    BY DEF BodyAt
  <2>1. j \in Nat /\ i + j \in Nat \ {0} /\ (i + k) + j = (i + j) + k
    BY Widths DEF Events
  <2>2. (i + j) + k \in 1..Len(s) /\ s[(i + j) + k] = [kind |-> "body", of |-> e]
    BY <1>3, <2>1 DEF BodyAt
  <2> QED
    BY <1>2, <2>1, <2>2
<1>4. ASSUME NEW e \in Events, NEW i \in Nat \ {0}, RestAt(s, i + k, e)
      PROVE  RestAt(t, i, e)
  <2>1. i + 1 \in Nat \ {0} /\ (i + k) + 1 = (i + 1) + k
    OBVIOUS
  <2>2. BodyAt(t, i + 1, e)
    BY <1>3, <1>4, <2>1 DEF RestAt
  <2>3. i \in 1..Len(t) /\ t[i] = [kind |-> "header", of |-> e]
    BY <1>2, <1>4 DEF RestAt
  <2> QED
    BY <2>2, <2>3 DEF RestAt
<1>5. ASSUME EventsWhole(s) PROVE EventsWhole(t)
  <2> SUFFICES ASSUME NEW i \in 1..Len(t), t[i].kind = "pattern"
               PROVE  RestAt(t, i + 1, t[i].of)
    BY DEF EventsWhole
  <2>1. i + k \in 1..Len(s) /\ t[i] = s[i + k]
    BY <1>1 DEF Piece
  <2>2. RestAt(s, (i + k) + 1, t[i].of)
    BY <1>5, <2>1 DEF EventsWhole
  <2>3. (i + k) + 1 = (i + 1) + k /\ i + 1 \in Nat \ {0}
    BY <1>1
  <2>4. t[i].of \in Events
    BY Numbers DEF Unit
  <2> QED
    BY <1>4, <2>2, <2>3, <2>4
<1> QED
  BY <1>3, <1>4, <1>5

LEMMA ExtendedWhole ==
  ASSUME NEW s \in Stream, NEW u \in Stream
  PROVE  /\ \A e \in Events, i \in Nat :
              /\ BodyAt(s, i, e) => BodyAt(s \o u, i, e)
              /\ RestAt(s, i, e) => RestAt(s \o u, i, e)
         /\ EventsWhole(s) /\ EventsWhole(u) => EventsWhole(s \o u)
<1> DEFINE t == s \o u
<1>1. Len(s) \in Nat /\ Len(u) \in Nat /\ t \in Stream /\ Len(t) = Len(s) + Len(u)
  BY Numbers, Concatenated
<1>2. \A i \in 1..Len(s) : i \in 1..Len(t) /\ t[i] = s[i]
  BY <1>1, Concatenated
<1>3. \A i \in 1..Len(u) : Len(s) + i \in 1..Len(t) /\ t[Len(s) + i] = u[i]
  BY <1>1, Concatenated
<1> HIDE DEF t
<1>4. \A e \in Events, i \in Nat : /\ BodyAt(s, i, e) => BodyAt(t, i, e)
                                   /\ RestAt(s, i, e) => RestAt(t, i, e)
  BY <1>2 DEF BodyAt, RestAt
<1>5. ASSUME NEW e \in Events, NEW i \in Nat, RestAt(u, i, e)
      PROVE  RestAt(t, Len(s) + i, e)
  <2>1. Len(s) + i \in 1..Len(t) /\ t[Len(s) + i] = [kind |-> "header", of |-> e]
    BY <1>3, <1>5 DEF RestAt
  <2>2. ASSUME NEW j \in 0 .. e.size - 1
        PROVE  /\ (Len(s) + i + 1) + j \in 1..Len(t)
               /\ t[(Len(s) + i + 1) + j] = [kind |-> "body", of |-> e]
    <3>1. j \in Nat /\ (Len(s) + i + 1) + j = Len(s) + ((i + 1) + j)
      BY <1>1, Widths DEF Events
    <3>2. (i + 1) + j \in 1..Len(u) /\ u[(i + 1) + j] = [kind |-> "body", of |-> e]
      BY <1>5 DEF RestAt, BodyAt
    <3> QED
      BY <1>3, <3>1, <3>2
  <2> QED
    BY <2>1, <2>2 DEF RestAt, BodyAt
<1>6. ASSUME EventsWhole(s), EventsWhole(u) PROVE EventsWhole(t)
  <2> SUFFICES ASSUME NEW i \in 1..Len(t), t[i].kind = "pattern"
               PROVE  RestAt(t, i + 1, t[i].of)
    BY DEF EventsWhole
  <2>1. t[i].of \in Events
    BY <1>1, Numbers DEF Unit
  <2>2. CASE i \in 1..Len(s)
    <3>1. t[i] = s[i] /\ RestAt(s, i + 1, s[i].of) /\ i + 1 \in Nat
      BY <1>2, <1>6, <2>2 DEF EventsWhole
    <3> QED
      BY <1>4, <2>1, <3>1
  <2>3. CASE i \notin 1..Len(s)
    <3>1. PICK j \in 1..Len(u) : i = Len(s) + j
      <4>1. i - Len(s) \in 1..Len(u) /\ i = Len(s) + (i - Len(s))
        BY <1>1, <2>3
      <4> QED
        BY <4>1
    <3>2. t[i] = u[j]
      BY <1>3, <3>1
    <3>3. RestAt(u, j + 1, t[i].of) /\ j + 1 \in Nat /\ i + 1 = Len(s) + (j + 1)
      BY <1>1, <1>6, <3>1, <3>2 DEF EventsWhole
    <3> QED
      BY <1>5, <2>1, <3>3
  <2> QED
    BY <2>2, <2>3
<1> QED
  BY <1>4, <1>6 DEF t

LEMMA UnitsWhole ==
  ASSUME NEW e \in Events
  PROVE  EventsWhole(Units(e))
<1> DEFINE u == Units(e)
<1>1. /\ \A i \in 1..Len(u) : u[i].of = e /\ (u[i].kind = "pattern" => i = 1)
      /\ Len(u) = 2 + e.size
      /\ u[2] = [kind |-> "header", of |-> e]
      /\ \A j \in 1..e.size : u[2 + j] = [kind |-> "body", of |-> e]
  BY UnitsOf
<1>2. e.size \in Nat
  BY Widths DEF Events
<1> HIDE DEF u
<1>3. ASSUME NEW j \in 0 .. e.size - 1
      PROVE  3 + j \in 1..Len(u) /\ u[3 + j] = [kind |-> "body", of |-> e]
  <2>1. j + 1 \in 1..e.size /\ 3 + j = 2 + (j + 1) /\ 3 + j \in 1 .. 2 + e.size
    BY <1>2
  <2> QED
    BY <1>1, <2>1
<1>4. 2 \in 1..Len(u)
  BY <1>1, <1>2
<1>5. RestAt(u, 2, e)
  BY <1>1, <1>3, <1>4 DEF RestAt, BodyAt
<1>6. ASSUME NEW i \in 1..Len(u), u[i].kind = "pattern"
      PROVE  RestAt(u, i + 1, u[i].of)
  <2>1. i + 1 = 2 /\ u[i].of = e
    BY <1>1, <1>6
  <2> QED
    BY <1>5, <2>1
<1> QED
  BY <1>6 DEF EventsWhole, u

\* How long the stream is, and where the socket lies in it.
LEMMA ThreeRuns ==
  ASSUME NEW a \in Stream, NEW b \in Stream, NEW c \in Stream
  PROVE  /\ (a \o b) \o c \in Stream
         /\ Len(a) \in Nat /\ Len(b) \in Nat /\ Len(c) \in Nat
         /\ Len((a \o b) \o c) = Len(a) + Len(b) + Len(c)
         /\ \A i \in 1..Len(a) : ((a \o b) \o c)[i] = a[i]
<1> DEFINE d == a \o b
<1>1. /\ d \in Stream /\ Len(d) = Len(a) + Len(b)
      /\ \A i \in 1..Len(a) : d[i] = a[i]
  BY Concatenated
<1>2. Len(a) \in Nat /\ Len(b) \in Nat /\ Len(c) \in Nat
  BY Numbers
<1> HIDE DEF d
<1>3. /\ d \o c \in Stream /\ Len(d \o c) = Len(d) + Len(c)
      /\ \A i \in 1..Len(d) : (d \o c)[i] = d[i]
  BY <1>1, Concatenated
<1>4. \A i \in 1..Len(a) : (d \o c)[i] = a[i]
  BY <1>1, <1>2, <1>3
<1>5. Len(d \o c) = Len(a) + Len(b) + Len(c)
  BY <1>1, <1>3
<1> QED
  BY <1>2, <1>3, <1>4, <1>5 DEF d

\* The stream as it was, for a reader that is where it was or has no event.
LEMMA SameStreamWhole ==
  ASSUME StreamWhole, Coming' = Coming, MayBeCut => MayBeCut',
         reader' \in {"header", "body", "send"} => UNCHANGED <<reader, packet>>
  PROVE  StreamWhole'
<1>1. ~MayBeCut' => EventsWhole(Coming')
  BY DEF StreamWhole
<1>2. reader' = "header" => \E e \in Events : RestAt(Coming', 1, e)
  BY DEF StreamWhole
<1>3. reader' = "body" => BodyAt(Coming', 1, packet'.head)
  BY DEF StreamWhole
<1>4. WholeEvents'
  BY DEF StreamWhole, WholeEvents
<1> QED
  BY <1>1, <1>2, <1>3, <1>4 DEF StreamWhole

\* A stream that is whole, for a reader that has no event.
LEMMA NoEventBegun ==
  ASSUME ~MayBeCut' => EventsWhole(Coming'),
         reader' \notin {"header", "body", "send"}
  PROVE  StreamWhole'
  BY DEF StreamWhole, WholeEvents

\* With one fault, a write that throws finds a board that was never started, or
\* an interface that is running or is being started.
LEMMA WriteWhole ==
  ASSUME MaxFaults <= 1, TypeOK, CallerOrder, StreamWhole, FaultOrder, WritesRegister
  PROVE  StreamWhole' /\ FaultOrder'
<1>1. /\ step = "write" /\ ~joinable /\ reader = "none" /\ cmd \in {"Start", "Stop"}
      /\ nWrites \in 0..9
      /\ UNCHANGED <<fState, joinable, reader, packet, crashed, sock, wire>>
  <2>1. step = "write" /\ ~joinable /\ reader = "none" /\ cmd \in {"Start", "Stop"}
    BY DEF WritesRegister, TypeOK, CallerOrder
  <2>2. nWrites < Len(Writes[cmd]) /\ cmd # "none" /\ nWrites \in 0..Len(Writes[cmd])
    BY <2>1 DEF WritesRegister, TypeOK
  <2>3. nWrites \in 0..9
    <3>1. CASE cmd = "Start"
      BY <2>2, <3>1 DEF Writes
    <3>2. CASE cmd = "Stop"
      BY <2>2, <3>2 DEF Writes
    <3> QED
      BY <2>1, <3>1, <3>2
  <2>4. UNCHANGED <<fState, joinable, reader, packet, crashed, sock, wire>>
    BY DEF WritesRegister, BoardTakes, host, board
  <2> QED
    BY <2>1, <2>3, <2>4
<1>2. \/ /\ BoardTakes(Writes[cmd][nWrites + 1])
         /\ nWrites' = nWrites + 1 /\ UNCHANGED <<cmd, faults>>
      \/ /\ faults < MaxFaults /\ faults' = faults + 1 /\ cmd' = "none"
         /\ UNCHANGED board \/ BoardTakes(Writes[cmd][nWrites + 1])
  BY DEF WritesRegister, Returns
<1>3. /\ fifo' = fifo \/ (cmd = "Stop" /\ nWrites \in {2, 3} /\ fifo' = <<>>)
      /\ cmd = "Stop" => ~acquiring' \/ acquiring' = acquiring
  <2>1. CASE BoardTakes(Writes[cmd][nWrites + 1])
    <3> DEFINE r == Writes[cmd][nWrites + 1]
    <3>1. /\ acquiring' = IF r = "master_logic_control" THEN cmd = "Start" ELSE acquiring
          /\ fifo' = IF cmd = "Stop" /\ r \in {"fifo_control", "PurgeDDR"} THEN <<>> ELSE fifo
      BY <2>1 DEF BoardTakes
    <3>2. cmd = "Stop" /\ r \in {"fifo_control", "PurgeDDR"} => nWrites \in {2, 3}
      <4> SUFFICES ASSUME cmd = "Stop" PROVE r \in {"fifo_control", "PurgeDDR"} => nWrites \in {2, 3}
        OBVIOUS
      <4>1. nWrites \in 0..4
        BY <1>1 DEF WritesRegister, Writes
      <4> QED
        BY <4>1 DEF Writes
    <3> HIDE DEF r
    <3>3. CASE cmd = "Stop" /\ r \in {"fifo_control", "PurgeDDR"}
      BY <3>1, <3>2, <3>3
    <3>4. CASE ~(cmd = "Stop" /\ r \in {"fifo_control", "PurgeDDR"})
      BY <3>1, <3>4
    <3>5. cmd = "Stop" => ~acquiring' \/ acquiring' = acquiring
      BY <3>1
    <3> QED
      BY <3>3, <3>4, <3>5
  <2> QED
    BY <1>2, <2>1 DEF board
<1>4. CASE nWrites' = nWrites + 1 /\ UNCHANGED <<cmd, faults>>
  <2>1. ~MayBeCut' => ~MayBeCut /\ fifo' = fifo
    BY <1>1, <1>3, <1>4 DEF MayBeCut
  <2>2. ~MayBeCut' => EventsWhole(Coming')
    BY <1>1, <2>1 DEF StreamWhole, Coming
  <2>3. StreamWhole'
    BY <1>1, <2>2, NoEventBegun
  <2>4. FaultOrder'
    BY <1>1, <1>3, <1>4 DEF FaultOrder, NoEventCutOff, Up
  <2> QED
    BY <2>3, <2>4
<1>5. CASE faults < MaxFaults /\ faults' = faults + 1 /\ cmd' = "none"
  <2>1. faults = 0 /\ faults' = 1
    BY <1>5, Widths DEF TypeOK
  <2>2. ASSUME ~MayBeCut' PROVE EventsWhole(Coming')
    <3>1. fState # "kRunning"
      BY <1>1, <2>2 DEF MayBeCut
    <3>2. CASE cmd = "Stop"
      <4>1. sock' = <<>> /\ wire' = <<>> /\ fifo' = <<>>
        BY <1>1, <1>3, <2>1, <3>1, <3>2 DEF FaultOrder
      <4>2. Coming' = <<>>
        <5>1. <<>> \o <<>> = <<>>
          BY Streams, PieceBehind
        <5> QED
          BY <4>1, <5>1 DEF Coming
      <4> QED
        BY <4>2 DEF EventsWhole
    <3>3. CASE cmd = "Start"
      <4>1. ~MayBeCut /\ fifo' = fifo
        BY <1>1, <1>3, <3>1, <3>3 DEF MayBeCut
      <4> QED
        BY <1>1, <4>1 DEF StreamWhole, Coming
    <3> QED
      BY <1>1, <3>2, <3>3
  <2>3. StreamWhole'
    BY <1>1, <2>2, NoEventBegun
  <2>4. FaultOrder'
    BY <1>1, <1>5, <2>1 DEF FaultOrder, NoEventCutOff, Up
  <2> QED
    BY <2>3, <2>4
<1> QED
  BY <1>2, <1>4, <1>5

\* While there is a thread, no Stop has got to its writes.
LEMMA ThreadNotCut ==
  ASSUME TypeOK, CallerOrder, joinable
  PROVE  ~MayBeCut
<1>1. step # "write"
  BY DEF CallerOrder
<1>2. cmd = "Stop" => step = "join" /\ nWrites = 0
  BY <1>1 DEF CallerOrder, TypeOK
<1>3. cmd = "Stop" => ~(nWrites >= 3)
  BY <1>2
<1> QED
  BY <1>3 DEF MayBeCut

LEMMA CallerWhole ==
  ASSUME MaxFaults <= 1, TypeOK, CallerOrder, BoardStops, StreamWhole, FaultOrder,
         StartBegins \/ StopBegins \/ Caller
  PROVE  StreamWhole' /\ FaultOrder'
<1>1. CASE StartBegins
  <2>1. /\ UNCHANGED <<fState, joinable, reader, packet, crashed, faults, acquiring>>
        /\ UNCHANGED <<sock, wire, fifo>>
        /\ cmd = "none" /\ cmd' = "Start" /\ fState = "kStopped"
    BY <1>1 DEF StartBegins, host, board
  <2>2. StreamWhole'
    BY <2>1, SameStreamWhole DEF Coming, MayBeCut
  <2>3. FaultOrder'
    BY <2>1 DEF FaultOrder, NoEventCutOff, Up
  <2> QED
    BY <2>2, <2>3
<1>2. CASE StopBegins
  <2>1. /\ UNCHANGED <<fState, joinable, reader, packet, crashed, faults, acquiring>>
        /\ UNCHANGED <<sock, wire, fifo>>
        /\ cmd = "none" /\ cmd' = "Stop"
    BY <1>2 DEF StopBegins, board
  <2>2. StreamWhole'
    BY <2>1, SameStreamWhole DEF Coming, MayBeCut
  <2>3. FaultOrder'
    BY <2>1 DEF FaultOrder, NoEventCutOff, Up
  <2> QED
    BY <2>2, <2>3
<1>3. CASE Join
  <2>1. /\ UNCHANGED <<fState, packet, crashed, faults, acquiring, sock, wire, fifo>>
        /\ Up /\ step = "join" /\ cmd = "Stop" /\ nWrites = 0
    BY <1>3 DEF Join, board, CallerOrder, TypeOK
  <2>2. CASE joinable /\ reader' = "none" /\ UNCHANGED cmd
    <3>1. EventsWhole(Coming')
      BY <2>1, <2>2, ThreadNotCut DEF StreamWhole, Coming
    <3>2. StreamWhole'
      BY <2>2, <3>1, NoEventBegun
    <3>3. fState = "kRunning"
      BY <2>2 DEF TypeOK
    <3>4. FaultOrder'
      BY <2>1, <2>2, <3>3 DEF FaultOrder, NoEventCutOff, Up
    <3> QED
      BY <3>2, <3>4
  <2>3. CASE ~joinable /\ Returns /\ UNCHANGED <<joinable, reader>>
    <3>1. ~(nWrites >= 3) /\ cmd' = "none"
      BY <2>1, <2>3 DEF Returns
    <3>2. StreamWhole'
      BY <2>1, <2>3, <3>1, SameStreamWhole DEF Coming, MayBeCut
    <3>3. FaultOrder'
      BY <2>1, <2>3, <3>1 DEF FaultOrder, NoEventCutOff, Up
    <3> QED
      BY <3>2, <3>3
  <2> QED
    BY <1>3, <2>2, <2>3 DEF Join
<1>4. CASE StartsThread
  <2>1. /\ UNCHANGED <<packet, crashed, faults, acquiring, sock, wire, fifo>>
        /\ Up /\ cmd = "Start" /\ cmd' = "none"
        /\ fState' = "kRunning" /\ joinable' /\ reader' = "top"
    BY <1>4 DEF StartsThread, Returns, board
  <2>2. ~MayBeCut
    BY <2>1 DEF MayBeCut, FaultOrder
  <2>3. StreamWhole'
    BY <2>1, <2>2, NoEventBegun DEF StreamWhole, Coming
  <2>4. FaultOrder'
    BY <2>1 DEF FaultOrder, NoEventCutOff, Up
  <2> QED
    BY <2>3, <2>4
<1>5. CASE Purges
  <2>1. /\ UNCHANGED <<joinable, reader, packet, crashed, faults, acquiring>>
        /\ UNCHANGED <<wire, fifo>>
        /\ Up /\ cmd = "Stop" /\ nWrites = 5
    BY <1>5 DEF Purges, host, call, board, Writes
  <2>2. step = "write" /\ reader = "none" /\ ~acquiring /\ fifo = <<>>
    <3>1. step = "write"
      BY <2>1 DEF CallerOrder, TypeOK
    <3>2. reader = "none"
      BY <3>1 DEF CallerOrder, TypeOK
    <3>3. nWrites >= 2 /\ nWrites >= 3
      BY <2>1
    <3> QED
      BY <2>1, <3>1, <3>2, <3>3 DEF BoardStops
  <2>3. CASE sock' = <<>> /\ UNCHANGED <<host, call>>
    <3>1. UNCHANGED <<fState, cmd, nWrites>> /\ nWrites >= 3
      BY <2>1, <2>3 DEF host, call
    <3>2. MayBeCut'
      BY <2>1, <3>1 DEF MayBeCut
    <3>3. StreamWhole'
      BY <2>1, <2>2, <3>2, NoEventBegun
    <3>4. FaultOrder'
      BY <2>1, <2>3, <3>1 DEF FaultOrder, NoEventCutOff, Up
    <3> QED
      BY <3>3, <3>4
  <2>4. CASE Quiet /\ fState' = "kStopped" /\ Returns /\ UNCHANGED sock
    <3>1. sock' = <<>> /\ wire' = <<>> /\ fifo' = <<>> /\ cmd' = "none"
      BY <2>1, <2>2, <2>4 DEF Quiet, Returns
    <3>2. Coming' = <<>>
      <4>1. <<>> \o <<>> = <<>>
        BY Streams, PieceBehind
      <4> QED
        BY <3>1, <4>1 DEF Coming
    <3>3. EventsWhole(Coming')
      BY <3>2 DEF EventsWhole
    <3>4. StreamWhole'
      BY <2>1, <2>2, <3>3, NoEventBegun
    <3>5. FaultOrder'
      BY <2>1, <2>2, <3>1 DEF FaultOrder, NoEventCutOff, Up
    <3> QED
      BY <3>4, <3>5
  <2> QED
    BY <1>5, <2>3, <2>4 DEF Purges
<1> QED
  BY <1>1, <1>2, <1>3, <1>4, <1>5, WriteWhole DEF Caller

\* What the reader takes from the front of the stream, the rest does not miss.
LEMMA SocketTaken ==
  ASSUME TypeOK, TypeOK', UNCHANGED <<wire, fifo>>,
         NEW k \in Nat, Len(sock) = Len(sock') + k, Piece(sock', sock, k)
  PROVE  /\ \A e \in Events, i \in Nat \ {0} :
              /\ BodyAt(Coming, i + k, e) => BodyAt(Coming', i, e)
              /\ RestAt(Coming, i + k, e) => RestAt(Coming', i, e)
         /\ EventsWhole(Coming) => EventsWhole(Coming')
<1> DEFINE s == (sock \o wire) \o fifo
           t == (sock' \o wire) \o fifo
<1>1. sock \in Stream /\ wire \in Stream /\ fifo \in Stream /\ sock' \in Stream
  BY DEF TypeOK
<1>2. /\ s \in Stream /\ Len(s) = Len(sock) + Len(wire) + Len(fifo)
      /\ Len(sock) \in Nat /\ Len(wire) \in Nat /\ Len(fifo) \in Nat
  BY <1>1, ThreeRuns
<1>3. /\ t \in Stream /\ Len(t) = Len(sock') + Len(wire) + Len(fifo)
      /\ Len(sock') \in Nat
  BY <1>1, ThreeRuns
<1>4. Piece(t, s, k)
  BY <1>1, FrontLost
<1>5. Coming = s /\ Coming' = t
  BY DEF Coming
<1> HIDE DEF s, t
<1>6. Len(s) = Len(t) + k
  BY <1>2, <1>3
<1>7. /\ \A e \in Events, i \in Nat \ {0} :
           /\ BodyAt(s, i + k, e) => BodyAt(t, i, e)
           /\ RestAt(s, i + k, e) => RestAt(t, i, e)
      /\ EventsWhole(s) => EventsWhole(t)
  BY <1>2, <1>3, <1>4, <1>6, FrontLostWhole
<1> QED
  BY <1>5, <1>7

LEMMA FindWhole ==
  ASSUME TypeOK, TypeOK', CallerOrder, StreamWhole, Find, sock # <<>>
  PROVE  StreamWhole'
<1>1. /\ UNCHANGED <<wire, fifo>> /\ sock' = Tail(sock)
      /\ reader = "find"
      /\ reader' = IF Head(sock).kind = "pattern" THEN "header" ELSE "find"
  BY DEF Find, ReaderGoes, board
<1>2. ~MayBeCut /\ EventsWhole(Coming)
  BY <1>1, ThreadNotCut DEF TypeOK, StreamWhole
<1>3. sock \in Stream /\ Coming \in Stream
  BY StreamTyped
<1>4. Len(sock) = Len(sock') + 1 /\ Piece(sock', sock, 1)
  BY <1>1, <1>3, FirstTaken
<1>5. /\ \A e \in Events, i \in Nat \ {0} :
           RestAt(Coming, i + 1, e) => RestAt(Coming', i, e)
      /\ EventsWhole(Coming')
  BY <1>1, <1>2, <1>4, SocketTaken
<1>6. CASE Head(sock).kind # "pattern"
  <2>1. reader' = "find"
    BY <1>1, <1>6
  <2> QED
    BY <1>5, <2>1, NoEventBegun
<1>7. CASE Head(sock).kind = "pattern"
  <2>1. reader' = "header"
    BY <1>1, <1>7
  <2>2. 1 \in 1..Len(Coming) /\ Coming[1] = Head(sock)
    BY <1>1, FirstUnit
  <2>3. RestAt(Coming, 1 + 1, Coming[1].of)
    BY <1>2, <1>7, <2>2 DEF EventsWhole
  <2>4. Coming[1].of \in Events
    BY <1>3, <2>2, Numbers DEF Unit
  <2>5. RestAt(Coming', 1, Coming[1].of)
    BY <1>5, <2>3, <2>4
  <2>6. \E e \in Events : RestAt(Coming', 1, e)
    BY <2>4, <2>5
  <2> QED
    BY <1>5, <2>1, <2>6 DEF StreamWhole, WholeEvents
<1> QED
  BY <1>6, <1>7

LEMMA HeaderWhole ==
  ASSUME TypeOK, TypeOK', CallerOrder, StreamWhole, ReadHeader
  PROVE  StreamWhole'
<1>1. /\ UNCHANGED <<wire, fifo>> /\ sock # <<>> /\ sock' = Tail(sock)
      /\ reader = "header" /\ reader' = "body"
      /\ packet'.head = Head(sock).of
  BY DEF ReadHeader, ReaderGoes, board, TypeOK
<1>2. ~MayBeCut /\ EventsWhole(Coming)
  BY <1>1, ThreadNotCut DEF TypeOK, StreamWhole
<1>3. sock \in Stream
  BY StreamTyped
<1>4. Len(sock) = Len(sock') + 1 /\ Piece(sock', sock, 1)
  BY <1>1, <1>3, FirstTaken
<1>5. /\ \A e \in Events, i \in Nat \ {0} :
           BodyAt(Coming, i + 1, e) => BodyAt(Coming', i, e)
      /\ EventsWhole(Coming')
  BY <1>1, <1>2, <1>4, SocketTaken
<1>6. PICK e \in Events : RestAt(Coming, 1, e)
  BY <1>1 DEF StreamWhole
<1>7. packet'.head = e
  <2>1. Coming[1] = Head(sock)
    BY <1>1, FirstUnit
  <2> QED
    BY <1>1, <1>6, <2>1 DEF RestAt
<1>8. BodyAt(Coming, 1 + 1, e)
  BY <1>6 DEF RestAt
<1>9. BodyAt(Coming', 1, packet'.head)
  BY <1>5, <1>7, <1>8
<1> QED
  BY <1>1, <1>5, <1>9 DEF StreamWhole, WholeEvents

LEMMA BodyWhole ==
  ASSUME TypeOK, TypeOK', CallerOrder, StreamWhole, ReadBody
  PROVE  StreamWhole'
<1> DEFINE e == packet.head
<1>1. /\ UNCHANGED <<wire, fifo>>
      /\ reader = "body" /\ reader' = "send"
      /\ Len(sock) >= e.size
      /\ sock' = SubSeq(sock, e.size + 1, Len(sock))
      /\ packet'.head = e /\ packet'.body = SubSeq(sock, 1, e.size)
  BY DEF ReadBody, ReaderGoes, board, TypeOK, BodySize
<1>2. e \in Events /\ e.size \in Nat
  BY Widths DEF TypeOK, Events
<1>3. ~MayBeCut /\ EventsWhole(Coming) /\ BodyAt(Coming, 1, e)
  BY <1>1, ThreadNotCut DEF TypeOK, StreamWhole
<1> HIDE DEF e
<1>4. sock \in Stream /\ wire \in Stream /\ fifo \in Stream /\ sock' \in Stream
  BY DEF TypeOK
<1>5. Len(sock) = Len(sock') + e.size /\ Piece(sock', sock, e.size)
  BY <1>1, <1>2, <1>4, RestOfRun
<1>6. EventsWhole(Coming')
  BY <1>1, <1>2, <1>3, <1>5, SocketTaken
<1>7. /\ Len(packet'.body) = e.size
      /\ \A i \in 1..e.size : packet'.body[i] = sock[i]
  BY <1>1, <1>2, <1>4, FrontOfRun
<1>8. ASSUME NEW i \in 1..e.size
      PROVE  sock[i] = [kind |-> "body", of |-> e]
  <2>1. i - 1 \in 0 .. e.size - 1 /\ 1 + (i - 1) = i
    BY <1>2
  <2>2. Coming[i] = [kind |-> "body", of |-> e]
    BY <1>3, <2>1 DEF BodyAt
  <2>3. i \in 1..Len(sock)
    BY <1>1, <1>2, <1>4, Numbers
  <2>4. Coming[i] = sock[i]
    BY <1>4, <2>3, ThreeRuns DEF Coming
  <2> QED
    BY <2>2, <2>4
<1>9. WholeEvents'
  BY <1>1, <1>7, <1>8 DEF WholeEvents
<1> QED
  BY <1>1, <1>6, <1>9 DEF StreamWhole

LEMMA ReaderWhole ==
  ASSUME TypeOK, TypeOK', CallerOrder, StreamWhole, FaultOrder, Reader
  PROVE  StreamWhole' /\ FaultOrder'
<1>1. UNCHANGED <<fState, joinable, crashed, cmd, nWrites, faults, wire, fifo>>
      /\ UNCHANGED acquiring /\ reader # "none"
  BY DEF Reader, Top, Find, ReadHeader, ReadBody, Send, ReaderGoes, call, board
<1>2. fState = "kRunning"
  BY <1>1 DEF TypeOK
<1>3. FaultOrder'
  BY <1>1, <1>2 DEF FaultOrder, NoEventCutOff, Up
<1>4. CASE Top \/ Send \/ (Find /\ sock = <<>>)
  <2>1. UNCHANGED sock /\ reader' \in {"find", "ended", "top"}
    BY <1>4 DEF Top, Find, Send, ReaderGoes
  <2>2. StreamWhole'
    BY <1>1, <2>1, SameStreamWhole DEF Coming, MayBeCut
  <2> QED
    BY <1>3, <2>2
<1> QED
  BY <1>3, <1>4, FindWhole, HeaderWhole, BodyWhole DEF Reader

\* What a wait is for comes, so only a stall ends it.
LEMMA StallWhole ==
  ASSUME MaxFaults <= 1, TypeOK, CallerOrder, StreamWhole, FaultOrder, TimesOut
  PROVE  StreamWhole' /\ FaultOrder'
<1>1. /\ UNCHANGED <<fState, joinable, reader, packet, cmd, nWrites, acquiring>>
      /\ UNCHANGED <<sock, wire, fifo>>
      /\ reader # "none" /\ Up
  BY DEF TimesOut, board
<1>2. joinable /\ fState = "kRunning"
  BY <1>1 DEF TypeOK
<1>3. ~NothingComing
  <2> SUFFICES ASSUME NothingComing PROVE FALSE
    OBVIOUS
  <2>1. sock \in Stream /\ Len(sock) \in Nat
    BY StreamTyped, Numbers
  <2>2. Coming = sock
    BY <2>1, Streams, PieceBehind DEF NothingComing, Coming
  <2>3. CASE reader = "header" /\ sock = <<>>
    <3>1. PICK e \in Events : RestAt(Coming, 1, e)
      BY <2>3 DEF StreamWhole
    <3>2. 1 \in 1..Len(sock)
      BY <2>2, <3>1 DEF RestAt
    <3> QED
      BY <2>3, <3>2
  <2>4. CASE reader = "body" /\ Len(sock) < packet.head.size
    <3>1. packet.head.size \in Nat
      BY Widths DEF TypeOK, Events
    <3>2. /\ packet.head.size - 1 \in 0 .. packet.head.size - 1
          /\ 1 + (packet.head.size - 1) = packet.head.size
      BY <2>1, <2>4, <3>1
    <3>3. packet.head.size \in 1..Len(sock)
      BY <2>2, <2>4, <3>2 DEF StreamWhole, BodyAt
    <3> QED
      BY <2>1, <2>4, <3>1, <3>3
  <2> QED
    BY <2>3, <2>4 DEF TimesOut, BodySize
<1>4. faults' = faults + 1 /\ crashed' = "stall"
  BY <1>3 DEF TimesOut
<1>5. faults' > 0
  BY <1>4, Widths DEF TypeOK
<1>6. StreamWhole'
  BY <1>1, SameStreamWhole DEF Coming, MayBeCut
<1>7. FaultOrder'
  BY <1>1, <1>2, <1>4, <1>5 DEF FaultOrder, NoEventCutOff, Up
<1> QED
  BY <1>6, <1>7

LEMMA RestartWhole ==
  ASSUME TypeOK, CallerOrder, StreamWhole, FaultOrder, Restart
  PROVE  StreamWhole' /\ FaultOrder'
<1>1. /\ UNCHANGED <<faults, acquiring, fifo>>
      /\ ~Up /\ crashed' = "no"
      /\ reader' = "none" /\ sock' = <<>> /\ wire' = <<>> /\ cmd' = "none"
  BY DEF Restart, Returns
<1>2. faults > 0 /\ joinable
  BY <1>1 DEF FaultOrder
<1>3. EventsWhole(Coming)
  BY <1>2, ThreadNotCut DEF StreamWhole
<1>4. EventsWhole(Coming')
  <2> DEFINE a == sock \o wire
             s == a \o fifo
             t == <<>> \o fifo
  <2>1. a \in Stream /\ fifo \in Stream
    BY StreamTyped
  <2>2. /\ <<>> \in Stream /\ Len(a) \in Nat
        /\ Len(a) = Len(<<>>) + Len(a) /\ Piece(<<>>, a, Len(a))
    BY <2>1, AllLost
  <2>3. Coming = s /\ Coming' = t
    <3>1. <<>> \o <<>> = <<>>
      BY Streams, PieceBehind
    <3> QED
      BY <1>1, <3>1 DEF Coming
  <2> HIDE DEF a
  <2>4. Len(s) = Len(t) + Len(a) /\ Piece(t, s, Len(a))
    BY <2>1, <2>2, PieceInFront
  <2>5. s \in Stream /\ t \in Stream
    BY <2>1, <2>2, Concatenated
  <2> HIDE DEF s, t
  <2>6. EventsWhole(s) => EventsWhole(t)
    BY <2>2, <2>4, <2>5, FrontLostWhole
  <2> QED
    BY <1>3, <2>3, <2>6
<1>5. StreamWhole'
  BY <1>1, <1>4, NoEventBegun
<1>6. FaultOrder'
  <2>1. ~(faults = 0) /\ faults' = faults
    BY <1>1, <1>2
  <2> QED
    BY <1>1, <2>1 DEF FaultOrder, NoEventCutOff, Up
<1> QED
  BY <1>5, <1>6

LEMMA NewEventWhole ==
  ASSUME TypeOK, StreamWhole, FaultOrder, MakesEvent
  PROVE  StreamWhole' /\ FaultOrder'
<1>1. PICK size \in 1..MaxBody :
        fifo' = fifo \o Units([n |-> nEvents + 1, size |-> size])
  BY DEF MakesEvent
<1> DEFINE e == [n |-> nEvents + 1, size |-> size]
<1>2. /\ UNCHANGED <<fState, joinable, reader, packet, crashed, cmd, nWrites, faults>>
      /\ UNCHANGED <<acquiring, sock, wire>>
      /\ acquiring /\ nEvents < MaxEvents
  BY DEF MakesEvent, host, call
<1>3. e \in Events
  BY <1>1, <1>2, StreamTyped, Widths DEF Events
<1>4. fifo' = fifo \o Units(e)
  BY <1>1
<1> HIDE DEF e
<1>5. Units(e) \in Stream /\ EventsWhole(Units(e))
  BY <1>3, UnitsOf, UnitsWhole
<1>6. Coming' = Coming \o Units(e)
  <2>1. sock \o wire \in Stream /\ fifo \in Stream
    BY StreamTyped
  <2>2. ((sock \o wire) \o fifo) \o Units(e) = (sock \o wire) \o (fifo \o Units(e))
    BY <1>5, <2>1, Associated
  <2> QED
    BY <1>2, <1>4, <2>2 DEF Coming
<1>7. Coming \in Stream /\ packet.head \in Events
  BY StreamTyped DEF TypeOK
<1>8. /\ \A f \in Events, i \in Nat :
           /\ BodyAt(Coming, i, f) => BodyAt(Coming', i, f)
           /\ RestAt(Coming, i, f) => RestAt(Coming', i, f)
      /\ EventsWhole(Coming) => EventsWhole(Coming')
  BY <1>5, <1>6, <1>7, ExtendedWhole
<1>9. StreamWhole'
  <2>1. ~MayBeCut' => EventsWhole(Coming')
    BY <1>2, <1>8 DEF StreamWhole, MayBeCut
  <2>2. reader' = "header" => \E f \in Events : RestAt(Coming', 1, f)
    BY <1>2, <1>8 DEF StreamWhole
  <2>3. reader' = "body" => BodyAt(Coming', 1, packet'.head)
    BY <1>2, <1>7, <1>8 DEF StreamWhole
  <2>4. WholeEvents'
    BY <1>2 DEF StreamWhole, WholeEvents
  <2> QED
    BY <2>1, <2>2, <2>3, <2>4 DEF StreamWhole
<1>10. FaultOrder'
  BY <1>2 DEF FaultOrder, NoEventCutOff, Up
<1> QED
  BY <1>9, <1>10

LEMMA OthersWhole ==
  ASSUME MaxFaults <= 1, TypeOK, CallerOrder, StreamWhole, FaultOrder,
         \/ TimesOut \/ SinkFails \/ Restart
         \/ MakesEvent \/ Transmits \/ Delivers
  PROVE  StreamWhole' /\ FaultOrder'
<1>0. sock \in Stream /\ wire \in Stream /\ fifo \in Stream
  BY StreamTyped
<1>1. CASE SinkFails
  <2>1. /\ UNCHANGED <<fState, joinable, reader, packet, cmd, nWrites, acquiring>>
        /\ UNCHANGED <<sock, wire, fifo>>
        /\ reader = "send" /\ faults' = faults + 1 /\ crashed' = "sink"
    BY <1>1 DEF SinkFails, board
  <2>2. joinable /\ fState = "kRunning" /\ faults' > 0
    BY <2>1, Widths DEF TypeOK
  <2>3. StreamWhole'
    BY <2>1, SameStreamWhole DEF Coming, MayBeCut
  <2>4. FaultOrder'
    BY <2>1, <2>2 DEF FaultOrder, NoEventCutOff, Up
  <2> QED
    BY <2>3, <2>4
<1>2. CASE Transmits
  <2>1. /\ UNCHANGED <<fState, joinable, reader, packet, crashed, cmd, nWrites>>
        /\ UNCHANGED <<faults, acquiring, sock>>
        /\ fifo # <<>> /\ wire' = Append(wire, Head(fifo)) /\ fifo' = Tail(fifo)
    BY <1>2 DEF Transmits, host, call
  <2>2. Coming' = Coming
    BY <1>0, <2>1, UnitPasses DEF Coming
  <2>3. StreamWhole'
    BY <2>1, <2>2, SameStreamWhole DEF MayBeCut
  <2>4. FaultOrder'
    BY <2>1 DEF FaultOrder, NoEventCutOff, Up
  <2> QED
    BY <2>3, <2>4
<1>3. CASE Delivers
  <2>1. /\ UNCHANGED <<fState, joinable, reader, packet, crashed, cmd, nWrites>>
        /\ UNCHANGED <<faults, acquiring, fifo>>
        /\ wire # <<>> /\ sock' = Append(sock, Head(wire)) /\ wire' = Tail(wire)
    BY <1>3 DEF Delivers, host, call
  <2>2. sock' \o wire' = sock \o wire
    BY <1>0, <2>1, UnitMoves
  <2>3. Coming' = Coming
    BY <2>1, <2>2 DEF Coming
  <2>4. StreamWhole'
    BY <2>1, <2>3, SameStreamWhole DEF MayBeCut
  <2>5. FaultOrder'
    BY <2>1 DEF FaultOrder, NoEventCutOff, Up
  <2> QED
    BY <2>4, <2>5
<1> QED
  BY <1>1, <1>2, <1>3, StallWhole, RestartWhole, NewEventWhole

LEMMA WholeInit == Init => StreamWhole /\ FaultOrder
<1> SUFFICES ASSUME Init PROVE StreamWhole /\ FaultOrder
  OBVIOUS
<1>1. Coming = <<>>
  <2>1. <<>> \o <<>> = <<>>
    BY Streams, PieceBehind
  <2> QED
    BY <2>1 DEF Init, Coming
<1>2. EventsWhole(Coming)
  BY <1>1 DEF EventsWhole
<1> QED
  BY <1>2 DEF Init, StreamWhole, WholeEvents, FaultOrder, NoEventCutOff, Up

LEMMA WholeStep ==
  ASSUME MaxFaults <= 1, IInv, IInv', BoardStops, StreamWhole, FaultOrder, [Next]_vars
  PROVE  StreamWhole' /\ FaultOrder'
<1>1. TypeOK /\ TypeOK' /\ CallerOrder
  BY DEF IInv
<1>2. CASE UNCHANGED vars
  <2>1. /\ UNCHANGED <<fState, joinable, reader, packet, crashed, cmd, nWrites>>
        /\ UNCHANGED <<faults, acquiring, sock, wire, fifo>>
    BY <1>2 DEF vars, host, call, board
  <2>2. StreamWhole'
    BY <2>1, SameStreamWhole DEF Coming, MayBeCut
  <2>3. FaultOrder'
    BY <2>1 DEF FaultOrder, NoEventCutOff, Up
  <2> QED
    BY <2>2, <2>3
<1> QED
  BY <1>1, <1>2, CallerWhole, ReaderWhole, OthersWhole DEF Next

LEMMA WholeInvariance ==
  ASSUME MaxFaults <= 1
  PROVE  Spec => [](StreamWhole /\ FaultOrder)
<1>1. /\ IInv /\ IInv' /\ (StreamOrder /\ BoardStops)
      /\ (StreamWhole /\ FaultOrder) /\ [Next]_vars
      => (StreamWhole /\ FaultOrder)'
  BY WholeStep
<1> QED
  BY Invariance, OrderInvariance, WholeInit, <1>1, PTL DEF Spec

\* While at most one call fails or one stall or sink ends the process, the read
\* thread never waits for the rest of an event that a Stop has cut off
\* (DeviceInterface.cxx:139-156): for events of any number and sizes and calls in
\* any order.  With two faults it may, as the comment on WholeEvents tells.
THEOREM NothingCutOff ==
  ASSUME MaxFaults <= 1
  PROVE  Spec => []NoEventCutOff
<1>1. FaultOrder => NoEventCutOff
  BY DEF FaultOrder
<1> QED
  BY WholeInvariance, <1>1, PTL

\* Under the same premise an event goes out with the body that belongs to its
\* header (DeviceInterface.cxx:619-764), whole and unshifted.
THEOREM EventsGoOutWhole ==
  ASSUME MaxFaults <= 1
  PROVE  Spec => []WholeEvents
<1>1. StreamWhole => WholeEvents
  BY DEF StreamWhole
<1> QED
  BY WholeInvariance, <1>1, PTL
=============================================================================
