------------------------- MODULE EthernetLinkProofs -------------------------
(***************************************************************************)
(* Theorems about EthernetLink, for any table of registers, any values,    *)
(* masks and names, and any number of pieces of a header.                  *)
(***************************************************************************)
EXTENDS EthernetLink, SequenceTheorems, FiniteSetTheorems, TLAPS

\* What is known of the request of any call that is not refused.
Sound(r) == /\ r.reads \in Nat
            /\ r.mask \subseteq AllBits
            /\ r.reads > 0 => r.cmd # "writeMask"

LEMMA Rows ==
  ASSUME NEW n \in DOMAIN Registers
  PROVE  /\ Registers[n].size \in Nat
         /\ Registers[n].readMask \subseteq AllBits
         /\ Registers[n].writeMask \subseteq AllBits
  BY RowAssumption DEF Register

LEMMA DeviceRequestsSound ==
  /\ \A a : Sound(DeviceRead(a))
  /\ \A a, v : Sound(DeviceWrite(a, v)) /\ Sound(DeviceArrayWrite(a, v))
  /\ \A a : \A n \in Nat : Sound(DeviceArrayRead(a, n))
  /\ \A a : \A m \in SUBSET AllBits :
       /\ Sound(DeviceReadMask(a, m)) /\ Sound(DeviceSet(a, m)) /\ Sound(DeviceClear(a, m))
       /\ \A v : Sound(DeviceWriteMask(a, m, v))
  BY DEF Sound, Request, DeviceRead, DeviceWrite, DeviceArrayWrite, DeviceArrayRead,
         DeviceReadMask, DeviceSet, DeviceClear, DeviceWriteMask

LEMMA AddressedSound ==
  ASSUME NEW a, NEW m \in SUBSET AllBits, NEW v
  PROVE  Sound(ReadRegister(a, m)) /\ Sound(SetRegister(a, v, m))
  BY DeviceRequestsSound DEF ReadRegister, SetRegister

LEMMA NamedSound ==
  ASSUME NEW n, NEW i, NEW v
  PROVE  \A r \in {SetRegisterByName(n, v), ReadRegisterByName(n),
                   SetRegisterElementByName(n, i, v), ReadRegisterElementByName(n, i),
                   SetRegisterArrayByName(n, v), FillRegisterArrayByName(n, v),
                   ReadRegisterArrayByName(n)} :
           r # Invalid => Sound(r)
<1>1. CASE n \notin DOMAIN Registers
  BY <1>1 DEF Lookup, SetRegisterByName, ReadRegisterByName, SetRegisterElementByName,
     ReadRegisterElementByName, SetRegisterArrayByName, FillRegisterArrayByName,
     ReadRegisterArrayByName
<1>2. CASE n \in DOMAIN Registers
  <2> DEFINE reg == Registers[n]
             e == Element(reg, i)
  <2>1. /\ reg.size \in Nat
        /\ reg.readMask \in SUBSET AllBits /\ reg.writeMask \in SUBSET AllBits
    BY <1>2, Rows
  <2>2. e.readMask = reg.readMask /\ e.writeMask = reg.writeMask
    BY <1>2, RowAssumption DEF Element, Register
  <2>3. \A req : Lookup(n, req) = req
    BY <1>2 DEF Lookup
  <2>4. \A x, r : IfScalar(x, r) # Invalid => IfScalar(x, r) = r
    BY DEF IfScalar
  <2>5. SetRegisterByName(n, v) # Invalid => Sound(SetRegisterByName(n, v))
    <3> DEFINE q == SetRegister(reg.address, v, reg.writeMask)
    <3>1. SetRegisterByName(n, v) = IfScalar(reg, q)
      BY <2>3 DEF SetRegisterByName
    <3>2. Sound(q)
      BY <2>1, AddressedSound
    <3> QED
      BY <2>4, <3>1, <3>2
  <2>6. ReadRegisterByName(n) # Invalid => Sound(ReadRegisterByName(n))
    BY <2>1, <2>3, <2>4, AddressedSound DEF ReadRegisterByName
  <2>7. SetRegisterElementByName(n, i, v) # Invalid
          => Sound(SetRegisterElementByName(n, i, v))
    <3> DEFINE q == SetRegister(e.address, v, e.writeMask)
    <3>1. SetRegisterElementByName(n, i, v) = IfScalar(e, q)
      BY <2>3 DEF SetRegisterElementByName
    <3>2. Sound(q)
      BY <2>1, <2>2, AddressedSound
    <3> QED
      BY <2>4, <3>1, <3>2
  <2>8. ReadRegisterElementByName(n, i) # Invalid
          => Sound(ReadRegisterElementByName(n, i))
    BY <2>1, <2>2, <2>3, <2>4, AddressedSound DEF ReadRegisterElementByName
  <2>9. \A vs : SetRegisterArrayByName(n, vs) # Invalid
                  => Sound(SetRegisterArrayByName(n, vs))
    BY <2>3, DeviceRequestsSound DEF SetRegisterArrayByName
  <2>10. FillRegisterArrayByName(n, v) # Invalid => Sound(FillRegisterArrayByName(n, v))
    BY <2>3, <2>9 DEF FillRegisterArrayByName
  <2>11. Sound(ReadRegisterArrayByName(n))
    BY <2>1, <2>3, DeviceRequestsSound DEF ReadRegisterArrayByName
  <2> QED
    BY <2>5, <2>6, <2>7, <2>8, <2>9, <2>10, <2>11
<1> QED
  BY <1>1, <1>2

LEMMA RequestOfCall ==
  ASSUME NEW n, NEW es, NEW r
  PROVE  Call(n, es, r).request = r
  BY DEF Call

LEMMA CallsSound == \A c \in Calls : c.request # Invalid => Sound(c.request)
<1>1. ASSUME NEW c \in CallsByAddress PROVE Sound(c.request)
  <2>1. PICK a \in Addresses, m \in Masks :
          \/ c = Call(None, {}, ReadRegister(a, m))
          \/ c = Call(None, {}, DeviceSet(a, m))
          \/ c = Call(None, {}, DeviceClear(a, m))
          \/ \E v \in Values : c = Call(None, {}, SetRegister(a, v, m))
    BY <1>1 DEF CallsByAddress
  <2>2. m \in SUBSET AllBits
    BY BitsAssumption
  <2> QED
    BY <2>1, <2>2, RequestOfCall, DeviceRequestsSound, AddressedSound
<1>2. ASSUME NEW c \in CallsByName, c.request # Invalid PROVE Sound(c.request)
  <2>1. PICK n \in Names :
          \/ c \in ElementCalls(n)
          \/ c = Call(n, {0}, ReadRegisterByName(n))
          \/ c = Call(n, Elements(n), ReadRegisterArrayByName(n))
          \/ \E v \in Values : c = Call(n, {0}, SetRegisterByName(n, v))
          \/ \E v \in Values : c = Call(n, Elements(n), FillRegisterArrayByName(n, v))
          \/ \E vs \in Vectors : c = Call(n, Elements(n), SetRegisterArrayByName(n, vs))
    BY <1>2 DEF CallsByName
  <2>2. CASE c \in ElementCalls(n)
    <3>1. PICK i \in Indices :
            \/ c = Call(n, {i}, ReadRegisterElementByName(n, i))
            \/ \E v \in Values : c = Call(n, {i}, SetRegisterElementByName(n, i, v))
      BY <2>2 DEF ElementCalls
    <3> QED
      BY <1>2, <3>1, RequestOfCall, NamedSound
  <2>3. CASE c \notin ElementCalls(n)
    BY <1>2, <2>1, <2>3, RequestOfCall, NamedSound
  <2> QED
    BY <2>2, <2>3
<1> QED
  BY <1>1, <1>2 DEF Calls

\* What start and stop send is a call, and has a reply without words.
LEMMA PlainWritesSound ==
  ASSUME NEW c \in PlainWrites
  PROVE  /\ c \in Calls
         /\ c.request.cmd = "write" /\ c.request.reads = 0
<1>1. PICK a \in Addresses, v \in Values : c = Call(None, {}, SetRegister(a, v, AllBits))
  BY DEF PlainWrites
<1>2. c \in CallsByAddress
  <2>1. AllBits \in Masks
    BY BitsAssumption
  <2>2. c \in {Call(None, {}, SetRegister(a, w, AllBits)) : w \in Values}
    BY <1>1
  <2> DEFINE S(x, m) ==
        {Call(None, {}, ReadRegister(x, m)),
         Call(None, {}, DeviceSet(x, m)), Call(None, {}, DeviceClear(x, m))}
          \cup {Call(None, {}, SetRegister(x, w, m)) : w \in Values}
  <2>3. c \in S(a, AllBits)
    BY <2>2
  <2>4. CallsByAddress = UNION {S(x, m) : x \in Addresses, m \in Masks}
    BY DEF CallsByAddress
  <2> HIDE DEF S
  <2> QED
    BY <2>1, <2>3, <2>4
<1> QED
  BY <1>1, <1>2, RequestOfCall DEF Calls, SetRegister, DeviceWrite, Request
-----------------------------------------------------------------------------
(***************************************************************************)
(* The invariant                                                           *)
(***************************************************************************)
Free == phase \in {"idle", "send"}

\* Nothing can be left of an operation before.
Fresh == use = "conf" \/ timesTried > 0

Silent == sock = <<>> /\ net = <<>>
Left   == Len(sock) + Len(net)

\* Who uses the connection, and for what.
ClientOrder == /\ use = "closed" => phase = "idle"
               /\ call # None => call.request \in Requests
               /\ use = "pulse" /\ call # None =>
                    call.request.cmd = "write" /\ call.request.reads = 0
               /\ ~connected => Silent /\ inbox = <<>>

\* A request is on its way only while its operation goes on.
InboxOrder == /\ Free => inbox = <<>>
              /\ ~Free => inbox \in {<<>>, <<call.request>>}

\* What is in the socket and on its way when a request is sent ...
SendOrder == connected /\ Free =>
               /\ use = "conf" => Silent
               /\ use = "pulse" => Left < HeaderUnits
               /\ phase = "send" /\ timesTried > 0 => Silent

\* ... and while its reply is waited for.
ReceiveOrder ==
  connected /\ phase = "receive" =>
    IF Fresh
      THEN IF inbox = <<>>
             THEN taken /\ sock \o net = Reply(call.request, mem)
             ELSE Silent
      ELSE IF inbox = <<>>
             THEN taken /\ Left \in HeaderUnits .. 2 * HeaderUnits - 1
             ELSE Left < HeaderUnits

IInv == TypeOK /\ ClientOrder /\ InboxOrder /\ SendOrder /\ ReceiveOrder

LEMMA RequestsSound == \A r \in Requests : Sound(r)
  BY CallsSound DEF Requests

\* A reply has the pieces that are waited for, and the words in their place.
LEMMA ReplyTyped ==
  ASSUME NEW r, Sound(r), NEW m
  PROVE  /\ Expected(r) \in Nat /\ Expected(r) >= HeaderUnits
         /\ r.reads > 0 => Expected(r) = HeaderUnits + r.reads
         /\ r.cmd = "write" /\ r.reads = 0 => Expected(r) = HeaderUnits
         /\ Reply(r, m) \in Seq(Pieces) /\ Len(Reply(r, m)) = Expected(r)
<1>1. /\ Expected(r) \in Nat /\ Expected(r) >= HeaderUnits
      /\ r.reads > 0 => Expected(r) = HeaderUnits + r.reads
      /\ r.cmd = "write" /\ r.reads = 0 => Expected(r) = HeaderUnits
  BY HeaderAssumption DEF Sound, Expected, RepliedWords
<1>2. \A w : Header \in Pieces /\ Piece(w \cap r.mask) \in Pieces
  BY DEF Sound, Pieces
<1> HIDE DEF Pieces
<1>3. Reply(r, m) \in [1..Expected(r) -> Pieces]
  BY <1>2, Zenon DEF Reply
<1> QED
  BY <1>1, <1>3

LEMMA ReplyWords ==
  ASSUME NEW r, Sound(r), r.reads > 0, NEW m
  PROVE  /\ Words(Reply(r, m)) = Bus!Contents(m, r)
         /\ Words(Reply(r, m)) \in Seq(SUBSET AllBits)
<1> DEFINE w(i) == m[r.at + i - 1] \cap r.mask
<1>1. /\ Len(Reply(r, m)) - HeaderUnits = r.reads
      /\ r.reads \in Nat /\ HeaderUnits \in Nat
  BY ReplyTyped, HeaderAssumption DEF Sound
<1>2. ASSUME NEW i \in 1..r.reads PROVE Reply(r, m)[HeaderUnits + i][2] = w(i)
  <2>1. /\ HeaderUnits + i \in 1..Expected(r) /\ ~(HeaderUnits + i <= HeaderUnits)
        /\ (HeaderUnits + i) - HeaderUnits - 1 = i - 1
    BY <1>1, ReplyTyped
  <2>2. Reply(r, m)[HeaderUnits + i] = Piece(w(i))
    BY <2>1 DEF Reply
  <2> QED
    BY <2>2 DEF Piece
<1>3. Words(Reply(r, m)) = [i \in 1..r.reads |-> w(i)]
  BY <1>1, <1>2 DEF Words
<1>4. \A i : w(i) \in SUBSET AllBits
  BY DEF Sound
<1>5. Bus!Contents(m, r) = [i \in 1..r.reads |-> w(i)]
  BY DEF Bus!Contents
<1> HIDE DEF w
<1> QED
  BY <1>1, <1>3, <1>4, <1>5

LEMMA WrittenTyped ==
  ASSUME NEW m \in Memories, NEW r, Sound(r)
  PROVE  Bus!Written(m, r) \in Memories
<1>1. DOMAIN m = Addresses /\ \A a \in Addresses : m[a] \in SUBSET AllBits
  BY DEF Memories
<1>2. \A x : x \cap r.mask \in SUBSET AllBits
  BY DEF Sound
<1> QED
  BY <1>1, <1>2 DEF Bus!Written, Memories

\* What is delivered moves from one end to the other.
LEMMA Delivery ==
  ASSUME NEW P, NEW s \in Seq(P), NEW t \in Seq(P), NEW n \in 1..Len(t)
  PROVE  /\ s \o SubSeq(t, 1, n) \in Seq(P)
         /\ SubSeq(t, n + 1, Len(t)) \in Seq(P)
         /\ (s \o SubSeq(t, 1, n)) \o SubSeq(t, n + 1, Len(t)) = s \o t
         /\ Len(s \o SubSeq(t, 1, n)) + Len(SubSeq(t, n + 1, Len(t)))
              = Len(s) + Len(t)
<1> DEFINE a == SubSeq(t, 1, n)
           b == SubSeq(t, n + 1, Len(t))
<1>1. Len(t) \in Nat /\ n \in Nat /\ 1 <= n /\ n <= Len(t)
  BY LenProperties
<1>2. \A i \in 1..Len(t) : t[i] \in P
  BY ElementOfSeq
<1>3. a \in Seq(P) /\ Len(a) = n
  BY <1>1, <1>2, SubSeqProperties
<1>4. b \in Seq(P) /\ Len(b) = Len(t) - n
  BY <1>1, <1>2, SubSeqProperties
<1>5. a \o b = t
  <2>1. a \o b = SubSeq(t, 1, Len(t))
    BY <1>1, ConcatAdjacentSubSeq
  <2> QED
    BY <2>1, SubSeqFull
<1> HIDE DEF a, b
<1>6. s \o a \in Seq(P) /\ Len(s \o a) = Len(s) + n
  BY <1>3, ConcatProperties
<1>7. (s \o a) \o b = s \o t
  <2>1. \A x, y \in Seq(P) : (s \o x) \o y = s \o (x \o y)
    BY ConcatAssociative, SMTT(30)
  <2>2. a \in Seq(P) /\ b \in Seq(P)
    BY <1>3, <1>4
  <2>3. (s \o a) \o b = s \o (a \o b)
    BY <2>1, <2>2, Zenon
  <2> QED
    BY <1>5, <2>3, Zenon
<1>8. Len(s \o a) + Len(b) = Len(s) + Len(t)
  BY <1>1, <1>4, <1>6, LenProperties
<1>9. /\ s \o a \in Seq(P) /\ b \in Seq(P)
      /\ (s \o a) \o b = s \o t
      /\ Len(s \o a) + Len(b) = Len(s) + Len(t)
  BY <1>4, <1>6, <1>7, <1>8
<1> QED
  BY <1>9 DEF a, b

\* What is read is taken from the front.
LEMMA Reading ==
  ASSUME NEW P, NEW s \in Seq(P), NEW n \in 0..Len(s)
  PROVE  /\ SubSeq(s, 1, n) \in Seq(P) /\ Len(SubSeq(s, 1, n)) = n
         /\ SubSeq(s, n + 1, Len(s)) \in Seq(P)
         /\ Len(SubSeq(s, n + 1, Len(s))) = Len(s) - n
<1>1. Len(s) \in Nat /\ n \in Nat /\ n <= Len(s)
  BY LenProperties
<1>2. \A i \in 1..Len(s) : s[i] \in P
  BY ElementOfSeq
<1>3. SubSeq(s, 1, n) \in Seq(P) /\ Len(SubSeq(s, 1, n)) = n
  BY <1>1, <1>2, SubSeqProperties
<1>4. SubSeq(s, n + 1, Len(s)) \in Seq(P) /\ Len(SubSeq(s, n + 1, Len(s))) = Len(s) - n
  BY <1>1, <1>2, SubSeqProperties
<1> QED
  BY <1>3, <1>4

LEMMA InvInit == Init => IInv
<1> SUFFICES ASSUME Init PROVE IInv
  OBVIOUS
<1>1. mem \in Memories
  BY BitsAssumption DEF Init, Memories
<1>2. TypeOK
  <2>1. sock \in Seq(Pieces) /\ net \in Seq(Pieces) /\ inbox \in Seq(Requests)
    <3>1. <<>> \in Seq(Pieces) /\ <<>> \in Seq(Requests)
      BY EmptySeq, Zenon
    <3> QED
      BY <3>1 DEF Init
  <2>2. /\ call = None /\ phase = "idle" /\ use = "closed" /\ timesTried \in 0..RetryCount
        /\ answer = None /\ connected = FALSE /\ taken = FALSE
    BY DEF Init, RetryCount
  <2> QED
    BY <1>1, <2>1, <2>2 DEF TypeOK
<1>3. ClientOrder /\ InboxOrder /\ SendOrder /\ ReceiveOrder
  BY DEF Init, ClientOrder, InboxOrder, SendOrder, ReceiveOrder, Silent, Free
<1> QED
  BY <1>2, <1>3 DEF IInv
-----------------------------------------------------------------------------
(***************************************************************************)
(* One lemma per group of actions                                          *)
(***************************************************************************)
LEMMA InvParts ==
  ASSUME IInv
  PROVE  /\ TypeOK /\ ClientOrder /\ InboxOrder /\ SendOrder /\ ReceiveOrder
         /\ phase # "idle" => call # None /\ Sound(call.request)
         /\ Len(sock) \in Nat /\ Len(net) \in Nat /\ Left \in Nat
         /\ Silent => Left = 0
         /\ HeaderUnits \in Nat /\ HeaderUnits > 0
<1>1. TypeOK /\ ClientOrder /\ InboxOrder /\ SendOrder /\ ReceiveOrder
  BY DEF IInv
<1>2. phase # "idle" => call # None /\ Sound(call.request)
  BY <1>1, RequestsSound DEF TypeOK, ClientOrder
<1>3. Len(sock) \in Nat /\ Len(net) \in Nat
  BY <1>1 DEF TypeOK
<1>4. Len(<<>>) = 0
  OBVIOUS
<1> QED
  BY <1>1, <1>2, <1>3, <1>4, HeaderAssumption DEF Left, Silent

LEMMA ConnectionStep ==
  ASSUME IInv, Open \/ ConfDone \/ Close \/ Refused
  PROVE  IInv'
<1> USE InvParts DEF host, wire, board
<1>1. CASE Open
  <2>1. /\ phase = "idle" /\ phase' = "idle" /\ use' = "conf" /\ connected' = TRUE
        /\ sock' = <<>> /\ net' = <<>> /\ inbox' = <<>>
        /\ UNCHANGED <<call, timesTried, answer, mem, taken>>
    BY <1>1 DEF Open, ClientOrder
  <2>2. <<>> \in Seq(Pieces) /\ <<>> \in Seq(Requests)
    BY EmptySeq, Zenon
  <2>3. TypeOK'
    BY <2>1, <2>2 DEF TypeOK
  <2>4. ClientOrder' /\ InboxOrder' /\ SendOrder' /\ ReceiveOrder'
    BY <2>1 DEF ClientOrder, InboxOrder, SendOrder, ReceiveOrder, Silent, Free
  <2> QED
    BY <2>3, <2>4 DEF IInv
<1>2. CASE ConfDone \/ Close \/ Refused
  <2>1. /\ phase = "idle" /\ phase' = "idle" /\ use # "closed"
        /\ use' \in {"pulse", "closed"} /\ (use' = "pulse" => use = "conf")
        /\ UNCHANGED <<call, timesTried, answer, sock, net, inbox, connected, mem, taken>>
    BY <1>2 DEF ConfDone, Close, Refused
  <2>2. TypeOK'
    BY <2>1 DEF TypeOK
  <2>3. Silent' = Silent /\ Left' = Left
    BY <2>1 DEF Silent, Left
  <2>4. ClientOrder' /\ InboxOrder' /\ ReceiveOrder'
    BY <2>1, <2>3 DEF ClientOrder, InboxOrder, ReceiveOrder, Free, TypeOK
  <2>5. SendOrder'
    BY <2>1, <2>3 DEF SendOrder, Free
  <2> QED
    BY <2>2, <2>4, <2>5 DEF IInv
<1> QED
  BY <1>1, <1>2

LEMMA CallStep ==
  ASSUME IInv, ConfCalls \/ PulseCalls
  PROVE  IInv'
<1> USE InvParts
<1>1. PICK c \in Calls :
        /\ Begin(c)
        /\ use = "conf" \/ (use = "pulse" /\ c.request.cmd = "write" /\ c.request.reads = 0)
  BY PlainWritesSound DEF ConfCalls, PulseCalls
<1>2. /\ phase = "idle" /\ phase' = "send" /\ call' = c /\ c.request \in Requests
      /\ timesTried' = 0 /\ answer' = None /\ taken' = FALSE
      /\ UNCHANGED <<use, sock, net, inbox, connected, mem>>
  BY <1>1 DEF Begin, Requests, client, wire
<1>3. c # None
  BY NoneAssumption
<1>4. TypeOK'
  <2>1. timesTried' \in 0..RetryCount
    BY <1>2 DEF RetryCount
  <2>2. /\ answer' \in Seq(SUBSET AllBits) \cup {None} /\ taken' \in BOOLEAN
        /\ call' \in Calls /\ (call' = None <=> phase' = "idle")
    BY <1>2, <1>3
  <2> QED
    BY <1>2, <2>1, <2>2 DEF TypeOK
<1>5. Silent' = Silent /\ Left' = Left
  BY <1>2 DEF Silent, Left
<1>6. ClientOrder' /\ InboxOrder' /\ ReceiveOrder'
  BY <1>1, <1>2, <1>5 DEF ClientOrder, InboxOrder, ReceiveOrder, Free
<1>7. SendOrder'
  BY <1>2, <1>5 DEF SendOrder, Free
<1> QED
  BY <1>4, <1>6, <1>7 DEF IInv

\* A short transfer is purged and tried again, or ends the operation after the
\* last of its tries.
LEMMA Short ==
  ASSUME IInv, ShortTransfer
  PROVE  /\ use' \in {"closed", "conf", "pulse"} /\ timesTried' \in 0..RetryCount
         /\ \/ /\ phase' = "purge" /\ UNCHANGED <<use, call>>
            \/ /\ timesTried > 0
               /\ phase' = "idle" /\ call' = None
               /\ use' = IF use = "conf" THEN "closed" ELSE use
  BY InvParts DEF ShortTransfer, MayRetry, Counted, AfterShort, Over, RetryCount,
                  TypeOK, client

LEMMA SendStep == IInv /\ SendEthernet => IInv'
<1> SUFFICES ASSUME IInv, SendEthernet PROVE IInv'
  OBVIOUS
<1> USE InvParts
<1>1. /\ phase = "send" /\ connected /\ inbox = <<>>
      /\ UNCHANGED <<answer, sock, net, connected, mem, taken>>
  BY DEF SendEthernet, InboxOrder, Free, board
<1>2. Silent' = Silent /\ Left' = Left
  BY <1>1 DEF Silent, Left
<1>3. CASE /\ inbox' = Append(inbox, call.request)
           /\ phase' = "receive"
           /\ UNCHANGED <<client, call, timesTried>>
  <2>1. use' = use /\ call' = call /\ timesTried' = timesTried
    BY <1>3 DEF client
  <2>2. call.request \in Requests /\ call # None /\ use # "closed"
    BY <1>1 DEF ClientOrder
  <2>3. inbox' = <<call.request>> /\ inbox' # <<>> /\ inbox' \in Seq(Requests)
    BY <1>1, <1>3, <2>2
  <2>4. TypeOK'
    BY <1>1, <1>3, <2>1, <2>3 DEF TypeOK
  <2>5. ClientOrder' /\ InboxOrder' /\ SendOrder'
    BY <1>1, <1>2, <1>3, <2>1, <2>3 DEF ClientOrder, InboxOrder, SendOrder, Free
  <2>6. ReceiveOrder'
    BY <1>1, <1>2, <1>3, <2>1, <2>2, <2>3 DEF ReceiveOrder, SendOrder, Free, Fresh, TypeOK
  <2> QED
    BY <2>4, <2>5, <2>6 DEF IInv
<1>4. CASE ShortTransfer /\ UNCHANGED inbox
  <2>1. TypeOK'
    BY <1>1, <1>4, Short DEF TypeOK
  <2>2. ClientOrder'
    BY <1>1, <1>2, <1>4, Short DEF ClientOrder
  <2>3. InboxOrder' /\ ReceiveOrder'
    BY <1>1, <1>4, Short DEF InboxOrder, ReceiveOrder, Free
  <2>4. SendOrder'
    BY <1>1, <1>2, <1>4, Short DEF SendOrder, Free
  <2> QED
    BY <2>1, <2>2, <2>3, <2>4 DEF IInv
<1> QED
  BY <1>3, <1>4 DEF SendEthernet

\* What a read finds in the socket: with Fresh, the reply and nothing else.
LEMMA Arrived ==
  ASSUME IInv, phase = "receive", connected, sock # <<>>,
         NEW expected, expected = Expected(call.request),
         NEW size, size = IF Len(sock) < expected THEN Len(sock) ELSE expected
  PROVE  /\ expected \in Nat /\ expected > 0
         /\ size \in 1..Len(sock)
         /\ SubSeq(sock, size + 1, Len(sock)) \in Seq(Pieces)
         /\ Len(SubSeq(sock, size + 1, Len(sock))) = Len(sock) - size
         /\ Len(SubSeq(sock, 1, size)) = size
         /\ Fresh => inbox = <<>> /\ Left = expected
         /\ ~Fresh => /\ use = "pulse" /\ expected = HeaderUnits
                      /\ inbox = <<>> => Left \in HeaderUnits .. 2 * HeaderUnits - 1
         /\ size = expected =>
              /\ taken /\ inbox = <<>>
              /\ call.request.reads > 0 =>
                   Fresh /\ SubSeq(sock, 1, size) = Reply(call.request, mem)
<1> USE InvParts
<1> DEFINE r == call.request
           rx == SubSeq(sock, 1, size)
           rest == SubSeq(sock, size + 1, Len(sock))
<1>1. expected \in Nat /\ expected >= HeaderUnits
  BY ReplyTyped
<1>2. sock \in Seq(Pieces) /\ net \in Seq(Pieces)
  BY DEF TypeOK
<1>3. Len(sock) > 0
  <2>1. \A s \in Seq(Pieces) : s # <<>> => Len(s) > 0
    BY EmptySeq, LenProperties
  <2> QED
    BY <1>2, <2>1
<1>4. size \in 1..Len(sock)
  BY <1>1, <1>3
<1>5. rest \in Seq(Pieces) /\ Len(rest) = Len(sock) - size /\ Len(rx) = size
  <2>1. size \in 0..Len(sock)
    BY <1>4
  <2> QED
    BY <1>2, <2>1, Reading
<1>6. ASSUME Fresh
      PROVE  /\ inbox = <<>> /\ taken /\ Left = expected
             /\ Len(sock) = expected => sock = Reply(r, mem)
  <2>1. inbox = <<>> /\ taken /\ sock \o net = Reply(r, mem)
    BY <1>6 DEF ReceiveOrder, Silent
  <2>2. /\ Len(sock \o net) = Len(sock) + Len(net)
        /\ sock \o <<>> = sock
        /\ Len(net) = 0 => net = <<>>
    BY <1>2, ConcatProperties, ConcatEmptySeq
  <2>3. Len(sock \o net) = expected
    BY <2>1, ReplyTyped
  <2>4. Left = expected
    BY <2>2, <2>3 DEF Left
  <2>5. Len(sock) = expected => net = <<>>
    BY <1>1, <2>2, <2>3
  <2> QED
    BY <2>1, <2>2, <2>4, <2>5
<1>7. ASSUME ~Fresh
      PROVE  /\ use = "pulse" /\ expected = HeaderUnits /\ r.reads = 0
             /\ IF inbox = <<>> THEN taken /\ Left \in HeaderUnits .. 2 * HeaderUnits - 1
                                ELSE Left < HeaderUnits
  <2>1. use = "pulse" /\ r.cmd = "write" /\ r.reads = 0
    BY <1>7 DEF Fresh, ClientOrder, TypeOK
  <2> QED
    BY <1>7, <2>1, ReplyTyped DEF ReceiveOrder
<1>8. ASSUME size = expected
      PROVE  taken /\ inbox = <<>> /\ (r.reads > 0 => Fresh /\ rx = Reply(r, mem))
  <2>1. Len(sock) >= expected /\ Len(sock) <= Left
    BY <1>1, <1>8 DEF Left
  <2>2. taken /\ inbox = <<>>
    BY <1>1, <1>6, <1>7, <2>1
  <2>3. ASSUME r.reads > 0 PROVE Fresh /\ rx = Reply(r, mem)
    <3>1. Fresh
      BY <1>7, <2>3
    <3>2. Len(sock) = expected
      BY <1>1, <1>6, <2>1, <3>1
    <3>3. sock = SubSeq(sock, 1, Len(sock))
      BY <1>2, SubSeqFull
    <3> QED
      BY <1>6, <1>8, <3>1, <3>2, <3>3
  <2> QED
    BY <2>2, <2>3
<1> QED
  BY <1>1, <1>4, <1>5, <1>6, <1>7, <1>8

\* The operation as ReceiveEthernet leaves it.
LEMMA Received ==
  ASSUME IInv, ReceiveEthernet
  PROVE  /\ phase = "receive" /\ sock # <<>> /\ connected
         /\ UNCHANGED <<net, inbox, connected, mem, taken>>
         /\ sock' \in Seq(Pieces) /\ Left' \in Nat
         /\ \/ /\ taken /\ inbox = <<>>
               /\ answer' = IF call.request.reads > 0 THEN Bus!Contents(mem, call.request)
                                                     ELSE None
               /\ answer' \in Seq(SUBSET AllBits) \cup {None}
               /\ phase' = "idle" /\ call' = None /\ UNCHANGED <<use, timesTried>>
               /\ IF Fresh THEN Left' = 0 ELSE use = "pulse" /\ Left' < HeaderUnits
            \/ /\ ShortTransfer /\ UNCHANGED answer
               /\ Fresh => /\ inbox = <<>>
                           /\ use = "pulse" => Left' < HeaderUnits
<1> USE InvParts
<1> DEFINE r == call.request
           expected == Expected(r)
           size == IF Len(sock) < expected THEN Len(sock) ELSE expected
           rx == SubSeq(sock, 1, size)
           rest == SubSeq(sock, size + 1, Len(sock))
<1>1. /\ phase = "receive" /\ sock # <<>> /\ connected /\ sock' = rest
      /\ UNCHANGED <<net, inbox, connected, mem, taken>>
  BY DEF ReceiveEthernet, board, ClientOrder, Silent
<1>2. \/ /\ Fits(rx)
         /\ answer' = IF r.reads > 0 THEN Words(rx) ELSE None
         /\ Over(FALSE)
      \/ ~Fits(rx) /\ ShortTransfer /\ UNCHANGED answer
  BY DEF ReceiveEthernet
<1>3. /\ expected \in Nat /\ expected > 0
      /\ size \in 1..Len(sock)
      /\ rest \in Seq(Pieces) /\ Len(rest) = Len(sock) - size /\ Len(rx) = size
      /\ Fresh => inbox = <<>> /\ Left = expected
      /\ ~Fresh => /\ use = "pulse" /\ expected = HeaderUnits
                   /\ inbox = <<>> => Left \in HeaderUnits .. 2 * HeaderUnits - 1
      /\ size = expected =>
           taken /\ inbox = <<>> /\ (r.reads > 0 => rx = Reply(r, mem))
  BY <1>1, Arrived, SMTT(40)
<1>4. Fits(rx) <=> size = expected
  BY <1>3 DEF Fits
<1>5. use = "pulse" => expected = HeaderUnits
  BY <1>1, ReplyTyped DEF ClientOrder
<1> HIDE DEF rx, rest, size, expected
<1>6. Left' = Left - size /\ Left' \in Nat
  BY <1>1, <1>3 DEF Left
<1>7. CASE Fits(rx) /\ Over(FALSE) /\ answer' = IF r.reads > 0 THEN Words(rx) ELSE None
  <2>1. phase' = "idle" /\ call' = None /\ use' = use /\ timesTried' = timesTried
    BY <1>7 DEF Over
  <2>2. IF Fresh THEN Left' = 0 ELSE use = "pulse" /\ Left' < HeaderUnits
    BY <1>3, <1>4, <1>6, <1>7
  <2>3. CASE r.reads > 0
    <3>1. answer' = Words(Reply(r, mem))
      BY <1>3, <1>4, <1>7, <2>3
    <3>2. answer' = Bus!Contents(mem, r) /\ answer' \in Seq(SUBSET AllBits)
      BY <1>1, <2>3, <3>1, ReplyWords
    <3> QED
      BY <1>1, <1>3, <1>4, <1>6, <1>7, <2>1, <2>2, <2>3, <3>2
  <2>4. CASE ~(r.reads > 0)
    BY <1>1, <1>3, <1>4, <1>6, <1>7, <2>1, <2>2, <2>4
  <2> QED
    BY <2>3, <2>4
<1>8. CASE ShortTransfer /\ UNCHANGED answer
  <2>1. Fresh => inbox = <<>> /\ (use = "pulse" => Left' < HeaderUnits)
    BY <1>3, <1>5, <1>6
  <2> QED
    BY <1>1, <1>3, <1>6, <1>8, <2>1
<1> QED
  BY <1>2, <1>7, <1>8

LEMMA ReceiveStep == IInv /\ ReceiveEthernet => IInv'
<1> SUFFICES ASSUME IInv, ReceiveEthernet PROVE IInv'
  OBVIOUS
<1> USE InvParts, Received
<1>1. Left' = 0 => Silent'
  BY DEF Left, Silent, TypeOK
<1>2. CASE phase' = "idle" /\ call' = None /\ UNCHANGED <<use, timesTried>>
           /\ answer' \in Seq(SUBSET AllBits) \cup {None} /\ inbox = <<>>
           /\ IF Fresh THEN Left' = 0 ELSE use = "pulse" /\ Left' < HeaderUnits
  <2>1. TypeOK'
    BY <1>2 DEF TypeOK
  <2>2. SendOrder'
    BY <1>1, <1>2 DEF SendOrder, Fresh
  <2>3. ClientOrder' /\ InboxOrder' /\ ReceiveOrder'
    BY <1>2 DEF ClientOrder, InboxOrder, ReceiveOrder, Free
  <2> QED
    BY <2>1, <2>2, <2>3 DEF IInv
<1>3. CASE ShortTransfer /\ UNCHANGED answer
           /\ (Fresh => inbox = <<>> /\ (use = "pulse" => Left' < HeaderUnits))
  <2>1. TypeOK'
    BY <1>3, Short DEF TypeOK
  <2>2. ClientOrder'
    BY <1>3, Short DEF ClientOrder
  <2>3. CASE phase' = "purge" /\ UNCHANGED <<use, call>>
    BY <2>1, <2>2, <2>3 DEF IInv, InboxOrder, SendOrder, ReceiveOrder, Free
  <2>4. CASE /\ timesTried > 0
             /\ phase' = "idle" /\ call' = None
             /\ use' = IF use = "conf" THEN "closed" ELSE use
    <3>1. inbox = <<>> /\ (use = "pulse" => Left' < HeaderUnits)
      BY <1>3, <2>4 DEF Fresh
    <3>2. SendOrder'
      BY <2>4, <3>1 DEF SendOrder, TypeOK
    <3>3. InboxOrder' /\ ReceiveOrder'
      BY <2>4, <3>1 DEF InboxOrder, ReceiveOrder, Free
    <3> QED
      BY <2>1, <2>2, <3>2, <3>3 DEF IInv
  <2> QED
    BY <1>3, <2>3, <2>4, Short
<1> QED
  BY <1>2, <1>3

LEMMA PurgeStep == IInv /\ DevicePurge => IInv'
<1> SUFFICES ASSUME IInv, DevicePurge PROVE IInv'
  OBVIOUS
<1> USE InvParts
<1>1. /\ phase = "purge" /\ UNCHANGED <<use, call, timesTried, answer, net, inbox,
                                       connected, mem, taken>>
  BY DEF DevicePurge, client, board
<1>2. CASE sock' = <<>> /\ UNCHANGED phase
  <2>1. sock' \in Seq(Pieces)
    BY <1>2, EmptySeq, Zenon
  <2>2. TypeOK'
    BY <1>1, <1>2, <2>1 DEF TypeOK
  <2>3. Silent => Silent'
    BY <1>1, <1>2 DEF Silent
  <2>4. ClientOrder'
    BY <1>1, <1>2, <2>3 DEF ClientOrder
  <2>5. InboxOrder' /\ SendOrder' /\ ReceiveOrder'
    BY <1>1, <1>2 DEF InboxOrder, SendOrder, ReceiveOrder, Free
  <2> QED
    BY <2>2, <2>4, <2>5 DEF IInv
<1>3. CASE Quiet /\ phase' = "send" /\ UNCHANGED sock
  <2>1. Silent /\ Silent' /\ inbox = <<>> /\ Left' = 0
    BY <1>1, <1>3 DEF Silent, Quiet, Left
  <2>2. TypeOK'
    BY <1>1, <1>3 DEF TypeOK
  <2>3. ClientOrder'
    BY <1>1, <1>3, <2>1 DEF ClientOrder
  <2>4. InboxOrder' /\ SendOrder' /\ ReceiveOrder'
    BY <1>1, <1>3, <2>1 DEF InboxOrder, SendOrder, ReceiveOrder, Free
  <2> QED
    BY <2>2, <2>3, <2>4 DEF IInv
<1> QED
  BY <1>2, <1>3 DEF DevicePurge

LEMMA ErrorStep == IInv /\ SocketError => IInv'
<1> SUFFICES ASSUME IInv, SocketError PROVE IInv'
  OBVIOUS
<1> USE InvParts
<1>1. /\ ~connected /\ phase' = "idle" /\ call' = None
      /\ use' = IF use = "conf" THEN "closed" ELSE use
      /\ UNCHANGED <<timesTried, answer, sock, net, inbox, connected, mem, taken>>
  BY DEF SocketError, Over, wire, board
<1>2. TypeOK'
  BY <1>1 DEF TypeOK
<1>3. Silent' = Silent
  BY <1>1 DEF Silent
<1>4. ClientOrder' /\ InboxOrder' /\ SendOrder' /\ ReceiveOrder'
  BY <1>1, <1>3 DEF ClientOrder, InboxOrder, SendOrder, ReceiveOrder, Free
<1> QED
  BY <1>2, <1>4 DEF IInv

LEMMA AnswerStep == IInv /\ BoardAnswers => IInv'
<1> SUFFICES ASSUME IInv, BoardAnswers PROVE IInv'
  OBVIOUS
<1> USE InvParts
<1> DEFINE r == call.request
           reply == Reply(r, mem')
<1>1. /\ inbox # <<>> /\ inbox = <<r>> /\ connected /\ ~Free
      /\ call # None /\ Sound(r) /\ r \in Requests
  BY DEF BoardAnswers, ClientOrder, InboxOrder, Free
<1>2. /\ mem' = Bus!Written(mem, r) /\ net' = net \o reply /\ taken' = TRUE /\ inbox' = <<>>
      /\ UNCHANGED <<use, phase, call, timesTried, answer, sock, connected>>
  BY <1>1 DEF BoardAnswers, client, host
<1>3. mem' \in Memories
  BY <1>1, <1>2, WrittenTyped DEF TypeOK
<1>4. reply \in Seq(Pieces) /\ Len(reply) = Expected(r)
  BY <1>1, ReplyTyped
<1>5. sock \in Seq(Pieces) /\ net \in Seq(Pieces)
  BY DEF TypeOK
<1> HIDE DEF reply
<1>6. /\ net \o reply \in Seq(Pieces) /\ Len(net \o reply) = Len(net) + Len(reply)
      /\ <<>> \o reply = reply
  BY <1>4, <1>5, ConcatProperties, ConcatEmptySeq, Z3
<1>7. TypeOK'
  <2>1. <<>> \in Seq(Requests)
    BY EmptySeq, Zenon
  <2>2. taken' \in BOOLEAN /\ inbox' \in Seq(Requests)
    BY <1>2, <2>1
  <2>3. net' \in Seq(Pieces)
    BY <1>2, <1>6
  <2> QED
    BY <1>2, <1>3, <2>2, <2>3 DEF TypeOK
<1>8. ClientOrder' /\ InboxOrder' /\ SendOrder'
  BY <1>1, <1>2 DEF ClientOrder, InboxOrder, SendOrder, Free
<1>9. ReceiveOrder'
  <2> SUFFICES ASSUME phase = "receive" PROVE ReceiveOrder'
    BY <1>2 DEF ReceiveOrder
  <2>1. Fresh' = Fresh /\ inbox' = <<>> /\ taken'
    BY <1>2 DEF Fresh
  <2>2. CASE Fresh
    <3>1. sock = <<>> /\ net = <<>>
      BY <1>1, <2>2 DEF ReceiveOrder, Silent
    <3>2. sock' \o net' = reply
      BY <1>2, <1>6, <3>1
    <3> QED
      BY <1>2, <2>1, <2>2, <3>2 DEF ReceiveOrder, reply
  <2>3. CASE ~Fresh
    <3>1. Expected(r) = HeaderUnits
      BY <1>1, <2>3, ReplyTyped DEF Fresh, ClientOrder, TypeOK
    <3>2. Left < HeaderUnits
      BY <1>1, <2>3 DEF ReceiveOrder
    <3>3. Left' = Left + HeaderUnits
      BY <1>2, <1>4, <1>6, <3>1 DEF Left
    <3>4. Left' \in HeaderUnits .. 2 * HeaderUnits - 1
      BY <3>2, <3>3
    <3> QED
      BY <1>2, <2>1, <2>3, <3>4 DEF ReceiveOrder
  <2> QED
    BY <2>2, <2>3
<1> QED
  BY <1>7, <1>8, <1>9 DEF IInv

LEMMA DeliverStep == IInv /\ Deliver => IInv'
<1> SUFFICES ASSUME IInv, Deliver PROVE IInv'
  OBVIOUS
<1> USE InvParts
<1>1. /\ ~Silent /\ connected
      /\ UNCHANGED <<use, phase, call, timesTried, answer, inbox, connected, mem, taken>>
  BY DEF Deliver, Silent, ClientOrder, client, host, board
<1>2. PICK n \in 1..Len(net) : /\ sock' = sock \o SubSeq(net, 1, n)
                              /\ net' = SubSeq(net, n + 1, Len(net))
  BY DEF Deliver
<1>3. sock \in Seq(Pieces) /\ net \in Seq(Pieces)
  BY DEF TypeOK
<1>4. /\ sock' \in Seq(Pieces) /\ net' \in Seq(Pieces)
      /\ sock' \o net' = sock \o net /\ Left' = Left
  BY <1>2, <1>3, Delivery, ZenonT(60) DEF Left
<1>5. TypeOK'
  BY <1>1, <1>4 DEF TypeOK
<1>6. ClientOrder' /\ InboxOrder'
  BY <1>1 DEF ClientOrder, InboxOrder, Free
<1>7. SendOrder'
  BY <1>1, <1>4 DEF SendOrder, Free
<1>8. ReceiveOrder'
  BY <1>1, <1>4 DEF ReceiveOrder, Fresh
<1> QED
  BY <1>5, <1>6, <1>7, <1>8 DEF IInv

LEMMA BreakStep == IInv /\ Break => IInv'
<1> SUFFICES ASSUME IInv, Break PROVE IInv'
  OBVIOUS
<1> USE InvParts
<1>1. /\ connected' = FALSE /\ sock' = <<>> /\ net' = <<>> /\ inbox' = <<>>
      /\ UNCHANGED <<use, phase, call, timesTried, answer>>
  BY DEF Break, client, host
<1>2. mem' \in Memories /\ taken' \in BOOLEAN
  <2>1. CASE UNCHANGED <<mem, taken>>
    BY <2>1 DEF TypeOK
  <2>2. CASE inbox # <<>> /\ taken' = TRUE /\ mem' = Bus!Written(mem, Head(inbox))
    <3>1. inbox = <<call.request>> /\ Sound(call.request)
      BY <2>2 DEF InboxOrder, Free
    <3>2. mem' = Bus!Written(mem, call.request)
      BY <2>2, <3>1
    <3> QED
      BY <2>2, <3>1, <3>2, WrittenTyped DEF TypeOK
  <2> QED
    BY <2>1, <2>2 DEF Break
<1>3. TypeOK'
  <2>1. <<>> \in Seq(Pieces) /\ <<>> \in Seq(Requests)
    BY EmptySeq, Zenon
  <2>2. connected' \in BOOLEAN
    BY <1>1
  <2> QED
    BY <1>1, <1>2, <2>1, <2>2 DEF TypeOK
<1>4. ClientOrder' /\ InboxOrder' /\ SendOrder' /\ ReceiveOrder'
  BY <1>1 DEF ClientOrder, InboxOrder, SendOrder, ReceiveOrder, Silent, Free
<1> QED
  BY <1>3, <1>4 DEF IInv

LEMMA InvStep == IInv /\ [Next]_vars => IInv'
<1> SUFFICES ASSUME IInv, [Next]_vars PROVE IInv'
  OBVIOUS
<1>1. CASE UNCHANGED vars
  BY <1>1 DEF vars, client, host, wire, board, IInv, TypeOK, ClientOrder, InboxOrder,
              SendOrder, ReceiveOrder, Silent, Left, Free, Fresh
<1>2. CASE Next
  BY <1>2, ConnectionStep, CallStep, SendStep, ReceiveStep, PurgeStep, ErrorStep,
     AnswerStep, DeliverStep, BreakStep DEF Next, HostStep
<1> QED
  BY <1>1, <1>2

LEMMA InvAlways == Spec => []IInv
  BY InvInit, InvStep, PTL DEF Spec
-----------------------------------------------------------------------------
\* Every variable keeps its type: the replies that are read have the pieces
\* they are cut into (EthernetDevice.cxx:222-296), and a register written over
\* the socket stays one.
THEOREM TypeCorrect == Spec => []TypeOK
<1>1. IInv => TypeOK
  BY DEF IInv
<1> QED
  BY <1>1, InvAlways, PTL

\* When a request goes out over a connection of a conf, nothing of an earlier
\* reply is left in the socket or on its way, and less than a header when it
\* is one of start or stop (EthernetDevice.cxx:247-296).
THEOREM NothingLeft == Spec => []NothingLeftBehind
<1>1. IInv => NothingLeftBehind
  <2> SUFFICES ASSUME IInv, connected, phase = "send"
               PROVE  IF use = "conf" THEN Left = 0 ELSE Left < HeaderUnits
    BY DEF NothingLeftBehind, Left
  <2>1. use \in {"conf", "pulse"}
    BY InvParts DEF TypeOK, ClientOrder
  <2> QED
    BY <2>1, InvParts DEF SendOrder, Free
<1> QED
  BY <1>1, InvAlways, PTL
-----------------------------------------------------------------------------
(***************************************************************************)
(* The register operations are those of RegisterBus.                       *)
(***************************************************************************)
LEMMA BusInit == Init => Bus!Init
<1> SUFFICES ASSUME Init PROVE Bus!Init
  OBVIOUS
<1>1. mem \in Memories
  BY InvInit DEF IInv, TypeOK
<1> QED
  BY <1>1 DEF Init, Bus!Init

\* The request of RegisterBus is there while a call is under way.
LEMMA UnderWay ==
  ASSUME IInv
  PROVE  /\ call = None <=> phase = "idle"
         /\ call # None => call.request \in Requests /\ call.request # None
  BY InvParts, NoneAssumption DEF TypeOK, ClientOrder

LEMMA BusStep == IInv /\ [Next]_vars => [Bus!Next]_Bus!vars
<1> SUFFICES ASSUME IInv, [Next]_vars PROVE [Bus!Next]_Bus!vars
  OBVIOUS
<1> USE InvParts, UnderWay DEF Bus!Next, Bus!vars
<1>1. CASE UNCHANGED <<mem, call, taken, answer>>
  BY <1>1
<1>2. CASE ConfCalls \/ PulseCalls
  <2>1. PICK c \in Calls : Begin(c)
    BY <1>2, PlainWritesSound DEF ConfCalls, PulseCalls
  <2>2. /\ call = None /\ call' = c /\ c # None /\ c.request \in Requests
        /\ taken' = FALSE /\ answer' = None /\ mem' = mem
    BY <2>1, NoneAssumption DEF Begin, Requests
  <2>3. Bus!Begin(c.request)
    BY <2>2 DEF Bus!Begin
  <2> QED
    BY <2>2, <2>3
<1>3. CASE /\ phase # "idle" /\ call' = None /\ UNCHANGED <<mem, taken, answer>>
  <2>1. Bus!Throw
    BY <1>3 DEF Bus!Throw
  <2> QED
    BY <2>1
<1>4. CASE SendEthernet
  <2>1. phase = "send" /\ UNCHANGED <<mem, taken, answer>>
    BY <1>4 DEF SendEthernet, board
  <2>2. UNCHANGED call \/ call' = None
    BY <1>4, Short DEF SendEthernet
  <2> QED
    BY <1>1, <1>3, <2>1, <2>2
<1>5. CASE ReceiveEthernet
  <2>1. CASE ShortTransfer /\ UNCHANGED answer
    BY <1>1, <1>3, <1>5, <2>1, Received, Short
  <2>2. CASE ~(ShortTransfer /\ UNCHANGED answer)
    <3>1. /\ phase = "receive" /\ taken /\ call' = None /\ UNCHANGED <<mem, taken>>
          /\ answer' = IF call.request.reads > 0 THEN Bus!Contents(mem, call.request)
                                                ELSE None
      BY <1>5, <2>2, Received
    <3>2. Bus!Return
      BY <3>1 DEF Bus!Return
    <3> QED
      BY <3>2
  <2> QED
    BY <2>1, <2>2
<1>6. CASE SocketError
  BY <1>3, <1>6 DEF SocketError, Over, board
<1>7. CASE /\ inbox # <<>> /\ taken' = TRUE /\ mem' = Bus!Written(mem, Head(inbox))
           /\ UNCHANGED <<call, answer>>
  <2>1. inbox = <<call.request>> /\ call # None
    BY <1>7 DEF InboxOrder, Free
  <2>2. mem' = Bus!Written(mem, call.request)
    BY <1>7, <2>1
  <2>3. Bus!Take
    BY <1>7, <2>1, <2>2 DEF Bus!Take
  <2> QED
    BY <2>3
<1>8. CASE BoardAnswers
  BY <1>7, <1>8 DEF BoardAnswers, host
<1>9. CASE Break
  BY <1>1, <1>7, <1>9 DEF Break, host
<1>10. CASE Open \/ ConfDone \/ Close \/ Refused \/ DevicePurge \/ Deliver
  BY <1>1, <1>10 DEF Open, ConfDone, Close, Refused, DevicePurge, Deliver, host, board, wire
<1>11. CASE UNCHANGED vars
  BY <1>1, <1>11 DEF vars, host, board
<1> QED
  BY <1>2, <1>4, <1>5, <1>6, <1>8, <1>9, <1>10, <1>11 DEF Next, HostStep

\* A register operation over the socket is what RegisterBus says, for every
\* table and every reply size: one that returned was carried out once at least
\* and reads what the registers hold, although no reply is matched with its
\* request (EthernetDevice.cxx:247-296).
THEOREM Refinement == Spec => ImplementsRegisterBus
  BY BusInit, BusStep, InvAlways, PTL DEF Spec, ImplementsRegisterBus, Bus!Spec
-----------------------------------------------------------------------------
(***************************************************************************)
(* Access by name                                                          *)
(***************************************************************************)
\* A request about the count registers of the row of n from element low on: a
\* write of them, or a read of them, with the mask of the row unless it is of
\* the whole array.
AboutRow(n, low, count, r) ==
  LET reg == Registers[n]
  IN  /\ low \in Nat /\ count \in Nat \ {0}
      /\ r.at = reg.address + low
      /\ \/ /\ r.reads = 0 /\ DOMAIN r.vals = 1..count
            /\ r.cmd = "arrayWrite" \/ r.mask = reg.writeMask
         \/ /\ r.reads = count /\ r.vals = <<>>
            /\ r.mask = IF r.cmd = "arrayRead" THEN AllBits ELSE reg.readMask

About(n, es, r) ==
  /\ n \in DOMAIN Registers
  /\ \E low, count \in Nat : es = low .. low + count - 1 /\ AboutRow(n, low, count, r)

LEMMA OneRegister ==
  ASSUME NEW n \in DOMAIN Registers, NEW i \in Nat, NEW a, a = Registers[n].address + i
  PROVE  /\ \A v : About(n, {i}, SetRegister(a, v, Registers[n].writeMask))
         /\ About(n, {i}, ReadRegister(a, Registers[n].readMask))
<1>1. {i} = i .. i + 1 - 1 /\ 1 \in Nat \ {0}
  OBVIOUS
<1>2. ASSUME NEW r, AboutRow(n, i, 1, r) PROVE About(n, {i}, r)
  BY <1>1, <1>2 DEF About
<1>3. \A v : AboutRow(n, i, 1, SetRegister(a, v, Registers[n].writeMask))
  BY DEF AboutRow, SetRegister, DeviceWrite, DeviceWriteMask, Request
<1>4. AboutRow(n, i, 1, ReadRegister(a, Registers[n].readMask))
  BY DEF AboutRow, ReadRegister, DeviceRead, DeviceReadMask, Request
<1> QED
  BY <1>2, <1>3, <1>4

\* Element i of a row has its masks, and is never taken for an array.
LEMMA ElementOfRow ==
  ASSUME NEW n \in DOMAIN Registers, NEW i
  PROVE  LET e == Element(Registers[n], i)
         IN  /\ e.address = Registers[n].address + i
             /\ e.readMask = Registers[n].readMask /\ e.writeMask = Registers[n].writeMask
             /\ \A r : IfScalar(e, r) = r
  BY RowAssumption DEF Element, Register, IfScalar

LEMMA WholeRow ==
  ASSUME NEW n \in DOMAIN Registers
  PROVE  /\ \A vs \in Vectors : SetRegisterArrayByName(n, vs) # Invalid
                => About(n, Elements(n), SetRegisterArrayByName(n, vs))
         /\ \A v \in Values : FillRegisterArrayByName(n, v) # Invalid
                => About(n, Elements(n), FillRegisterArrayByName(n, v))
         /\ About(n, Elements(n), ReadRegisterArrayByName(n))
<1> DEFINE reg == Registers[n]
           at == Element(reg, 0).address
<1>1. /\ reg.size \in Nat \ {0} /\ reg.address \in Nat
      /\ at = reg.address + 0 /\ Elements(n) = 0 .. 0 + reg.size - 1
  BY RowAssumption, ElementOfRow DEF Elements
<1>2. ASSUME NEW r, AboutRow(n, 0, reg.size, r) PROVE About(n, Elements(n), r)
  BY <1>1, <1>2 DEF About
<1>3. \A req : Lookup(n, req) = req
  BY DEF Lookup
<1> HIDE DEF at
<1>4. ASSUME NEW vs, DOMAIN vs = 1..Len(vs), SetRegisterArrayByName(n, vs) # Invalid
      PROVE  About(n, Elements(n), SetRegisterArrayByName(n, vs))
  <2>1. Len(vs) = reg.size /\ SetRegisterArrayByName(n, vs) = DeviceArrayWrite(at, vs)
    BY <1>3, <1>4 DEF SetRegisterArrayByName, at
  <2>2. AboutRow(n, 0, reg.size, DeviceArrayWrite(at, vs))
    BY <1>1, <1>4, <2>1 DEF AboutRow, DeviceArrayWrite, Request
  <2> QED
    BY <1>2, <2>1, <2>2
<1>5. \A vs \in Vectors : DOMAIN vs = 1..Len(vs)
  <2>1. SUFFICES ASSUME NEW m \in DOMAIN Registers, NEW vs \in [1..Registers[m].size -> Values]
                 PROVE  DOMAIN vs = 1..Len(vs)
    BY DEF Vectors
  <2>2. Registers[m].size \in Nat
    BY Rows
  <2> QED
    BY <2>1, <2>2
<1>6. \A v \in Values : FillRegisterArrayByName(n, v) # Invalid
                          => About(n, Elements(n), FillRegisterArrayByName(n, v))
  <2> SUFFICES ASSUME NEW v \in Values, FillRegisterArrayByName(n, v) # Invalid
               PROVE  About(n, Elements(n), FillRegisterArrayByName(n, v))
    OBVIOUS
  <2> DEFINE vs == [i \in 1..reg.size |-> v]
  <2>1. vs \in Vectors
    BY DEF Vectors
  <2>2. FillRegisterArrayByName(n, v) = SetRegisterArrayByName(n, vs)
    BY <1>3 DEF FillRegisterArrayByName
  <2> HIDE DEF vs
  <2> QED
    BY <1>4, <1>5, <2>1, <2>2
<1>7. About(n, Elements(n), ReadRegisterArrayByName(n))
  <2>1. ReadRegisterArrayByName(n) = DeviceArrayRead(at, reg.size)
    BY <1>3 DEF ReadRegisterArrayByName, at
  <2>2. AboutRow(n, 0, reg.size, DeviceArrayRead(at, reg.size))
    BY <1>1 DEF AboutRow, DeviceArrayRead, Request
  <2> QED
    BY <1>2, <2>1, <2>2
<1> QED
  BY <1>4, <1>5, <1>6, <1>7

\* What a call by name sends is about the elements it means.
LEMMA NamedAbout ==
  ASSUME IInv, CallInside
  PROVE  About(call.name, call.elements, call.request)
<1>1. PICK c \in Calls : c = call
  BY InvParts DEF TypeOK, CallInside
<1>2. /\ c.request # Invalid /\ c.name # None /\ c.elements \subseteq Elements(c.name)
  BY <1>1, InvParts DEF ClientOrder, CallInside, Requests
<1>3. \A n, es, r : /\ Call(n, es, r).name = n /\ Call(n, es, r).elements = es
                    /\ Call(n, es, r).request = r
  BY DEF Call
<1>4. c \notin CallsByAddress
  BY <1>2, <1>3 DEF CallsByAddress
<1>5. PICK n \in Names :
        \/ c \in ElementCalls(n)
        \/ c = Call(n, {0}, ReadRegisterByName(n))
        \/ c = Call(n, Elements(n), ReadRegisterArrayByName(n))
        \/ \E v \in Values : c = Call(n, {0}, SetRegisterByName(n, v))
        \/ \E v \in Values : c = Call(n, Elements(n), FillRegisterArrayByName(n, v))
        \/ \E vs \in Vectors : c = Call(n, Elements(n), SetRegisterArrayByName(n, vs))
  BY <1>4 DEF Calls, CallsByName
<1>6. ASSUME c \in ElementCalls(n)
      PROVE  \E i \in Indices :
               \/ c = Call(n, {i}, ReadRegisterElementByName(n, i))
               \/ \E v \in Values : c = Call(n, {i}, SetRegisterElementByName(n, i, v))
  BY <1>6 DEF ElementCalls
<1>7. c.name = n /\ n \in DOMAIN Registers
  <2>1. n \notin DOMAIN Registers =>
          /\ ReadRegisterByName(n) = Invalid /\ ReadRegisterArrayByName(n) = Invalid
          /\ \A i : ReadRegisterElementByName(n, i) = Invalid
          /\ \A v : SetRegisterByName(n, v) = Invalid
          /\ \A v : FillRegisterArrayByName(n, v) = Invalid
          /\ \A v : SetRegisterArrayByName(n, v) = Invalid
          /\ \A i, v : SetRegisterElementByName(n, i, v) = Invalid
    BY DEF Lookup, ReadRegisterByName, ReadRegisterArrayByName, ReadRegisterElementByName,
           SetRegisterByName, FillRegisterArrayByName, SetRegisterArrayByName,
           SetRegisterElementByName
  <2>2. ASSUME NEW es, NEW r, c = Call(n, es, r), n \notin DOMAIN Registers => r = Invalid
        PROVE  c.name = n /\ n \in DOMAIN Registers
    BY <1>2, <1>3, <2>2
  <2>3. ASSUME c \in ElementCalls(n) PROVE c.name = n /\ n \in DOMAIN Registers
    <3>1. PICK i \in Indices :
            \/ c = Call(n, {i}, ReadRegisterElementByName(n, i))
            \/ \E v \in Values : c = Call(n, {i}, SetRegisterElementByName(n, i, v))
      BY <1>6, <2>3
    <3>2. CASE c = Call(n, {i}, ReadRegisterElementByName(n, i))
      BY <2>1, <2>2, <3>2
    <3>3. ASSUME NEW v \in Values, c = Call(n, {i}, SetRegisterElementByName(n, i, v))
          PROVE  c.name = n /\ n \in DOMAIN Registers
      BY <2>1, <2>2, <3>3
    <3> QED
      BY <3>1, <3>2, <3>3
  <2>4. CASE c = Call(n, {0}, ReadRegisterByName(n))
    BY <2>1, <2>2, <2>4
  <2>5. CASE c = Call(n, Elements(n), ReadRegisterArrayByName(n))
    BY <2>1, <2>2, <2>5
  <2>6. ASSUME NEW v,
               \/ c = Call(n, {0}, SetRegisterByName(n, v))
               \/ c = Call(n, Elements(n), FillRegisterArrayByName(n, v))
               \/ c = Call(n, Elements(n), SetRegisterArrayByName(n, v))
        PROVE  c.name = n /\ n \in DOMAIN Registers
    BY <2>1, <2>2, <2>6
  <2> QED
    BY <1>5, <2>3, <2>4, <2>5, <2>6
<1> SUFFICES About(c.name, c.elements, c.request)
  BY <1>1
<1> DEFINE reg == Registers[n]
<1>8. \A req : Lookup(n, req) = req
  BY <1>7 DEF Lookup
<1>9. CASE c \in ElementCalls(n)
  <2>1. PICK i \in Indices :
          \/ c = Call(n, {i}, ReadRegisterElementByName(n, i))
          \/ \E v \in Values : c = Call(n, {i}, SetRegisterElementByName(n, i, v))
    BY <1>6, <1>9
  <2> DEFINE e == Element(reg, i)
  <2>2. i \in Nat
    BY IndexAssumption
  <2>3. /\ e.address = reg.address + i
        /\ e.readMask = reg.readMask /\ e.writeMask = reg.writeMask
        /\ \A r : IfScalar(e, r) = r
    BY <1>7, ElementOfRow
  <2> HIDE DEF e
  <2>4. ReadRegisterElementByName(n, i) = ReadRegister(e.address, reg.readMask)
    BY <1>8, <2>3 DEF ReadRegisterElementByName, e
  <2>5. \A v : SetRegisterElementByName(n, i, v) = SetRegister(e.address, v, reg.writeMask)
    BY <1>8, <2>3 DEF SetRegisterElementByName, e
  <2>6. /\ About(n, {i}, ReadRegister(e.address, reg.readMask))
        /\ \A v : About(n, {i}, SetRegister(e.address, v, reg.writeMask))
    <3> DEFINE a == e.address
    <3>1. a = reg.address + i
      BY <2>3
    <3> HIDE DEF a
    <3>2. /\ About(n, {i}, ReadRegister(a, reg.readMask))
          /\ \A v : About(n, {i}, SetRegister(a, v, reg.writeMask))
      BY <1>7, <2>2, <3>1, OneRegister, SMTT(30)
    <3> QED
      BY <3>2 DEF a
  <2>7. CASE c = Call(n, {i}, ReadRegisterElementByName(n, i))
    BY <1>3, <2>4, <2>6, <2>7
  <2>8. ASSUME NEW v \in Values, c = Call(n, {i}, SetRegisterElementByName(n, i, v))
        PROVE  About(c.name, c.elements, c.request)
    BY <1>3, <2>5, <2>6, <2>8
  <2> QED
    BY <2>1, <2>7, <2>8
<1>10. \A r : IfScalar(reg, r) # Invalid => IfScalar(reg, r) = r
  BY DEF IfScalar
<1>11. reg.address = reg.address + 0
  BY <1>7, RowAssumption
<1>12. CASE c = Call(n, {0}, ReadRegisterByName(n))
  <2>1. c.request = ReadRegister(reg.address, reg.readMask)
    BY <1>2, <1>3, <1>8, <1>10, <1>12 DEF ReadRegisterByName
  <2>2. About(n, {0}, ReadRegister(reg.address, reg.readMask))
    BY <1>7, <1>11, OneRegister
  <2> QED
    BY <1>3, <1>7, <1>12, <2>1, <2>2
<1>13. ASSUME NEW v \in Values, c = Call(n, {0}, SetRegisterByName(n, v))
       PROVE  About(c.name, c.elements, c.request)
  <2>1. c.request = SetRegister(reg.address, v, reg.writeMask)
    BY <1>2, <1>3, <1>8, <1>10, <1>13 DEF SetRegisterByName
  <2>2. About(n, {0}, SetRegister(reg.address, v, reg.writeMask))
    BY <1>7, <1>11, OneRegister
  <2> QED
    BY <1>3, <1>7, <1>13, <2>1, <2>2
<1>14. CASE \/ c = Call(n, Elements(n), ReadRegisterArrayByName(n))
            \/ \E v \in Values : c = Call(n, Elements(n), FillRegisterArrayByName(n, v))
            \/ \E vs \in Vectors : c = Call(n, Elements(n), SetRegisterArrayByName(n, vs))
  BY <1>2, <1>3, <1>7, <1>14, WholeRow
<1> QED
  BY <1>5, <1>9, <1>12, <1>13, <1>14

LEMMA AddressesTyped == \A a \in Addresses : a \in Nat
  BY RowAssumption DEF Addresses, Row

\* What RegisterBus does with such a request stays with those elements.
LEMMA WrittenInside ==
  ASSUME NEW m \in Memories, NEW n, NEW es, NEW r, About(n, es, r),
         NEW a \in Addresses, Bus!Written(m, r)[a] # m[a]
  PROVE  /\ \E i \in es : a = Registers[n].address + i
         /\ \/ r.cmd = "arrayWrite"
            \/ Bus!Written(m, r)[a] \ Registers[n].writeMask = m[a] \ Registers[n].writeMask
<1> DEFINE reg == Registers[n]
           w == r.vals[a - r.at + 1]
<1>1. PICK low, count \in Nat : es = low .. low + count - 1 /\ AboutRow(n, low, count, r)
  BY DEF About
<1>2. /\ reg.address \in Nat /\ a \in Nat
      /\ DOMAIN m = Addresses
  BY RowAssumption, AddressesTyped DEF About, Memories
<1>3. a - r.at + 1 \in DOMAIN r.vals /\ Bus!Written(m, r)[a] = (m[a] \ r.mask) \cup (w \cap r.mask)
  BY <1>2 DEF Bus!Written
<1>4. /\ DOMAIN r.vals = 1..count /\ r.at = reg.address + low
      /\ r.cmd = "arrayWrite" \/ r.mask = reg.writeMask
  BY <1>1, <1>3 DEF AboutRow
<1>5. a - reg.address \in es /\ a = reg.address + (a - reg.address)
  <2>1. \A x, y \in Nat : x - (y + low) + 1 \in 1..count
                            => x - y \in low .. low + count - 1 /\ x = y + (x - y)
    BY <1>1
  <2>2. a - (reg.address + low) + 1 \in 1..count
    BY <1>3, <1>4
  <2> QED
    BY <1>1, <1>2, <2>1, <2>2
<1>6. r.mask = reg.writeMask => Bus!Written(m, r)[a] \ reg.writeMask = m[a] \ reg.writeMask
  BY <1>3
<1> QED
  BY <1>4, <1>5, <1>6

\* The elements es of the row of n, as a read by cmd returns them.
ElementsRead(m, n, es, cmd) ==
  LET first == CHOOSE i \in es : \A j \in es : i <= j
  IN  [w \in 1..Cardinality(es) |->
         m[Registers[n].address + (first + w - 1)] \cap
           (IF cmd = "arrayRead" THEN AllBits ELSE Registers[n].readMask)]

LEMMA ContentsInside ==
  ASSUME NEW m, NEW n, NEW es, NEW r, About(n, es, r), r.reads > 0
  PROVE  Bus!Contents(m, r) = ElementsRead(m, n, es, r.cmd)
<1> DEFINE reg == Registers[n]
<1>1. PICK low, count \in Nat : es = low .. low + count - 1 /\ AboutRow(n, low, count, r)
  BY DEF About
<1>2. /\ reg.address \in Nat /\ count > 0
      /\ r.at = reg.address + low /\ r.reads = count
      /\ r.mask = IF r.cmd = "arrayRead" THEN AllBits ELSE reg.readMask
  BY <1>1, RowAssumption DEF About, AboutRow
<1>3. Cardinality(es) = count
  <2>1. /\ low \in Int /\ low + count - 1 \in Int
        /\ ~(low > low + count - 1) /\ (low + count - 1) - low + 1 = count
    BY <1>2
  <2> QED
    BY <1>1, <2>1, FS_Interval, Zenon
<1>4. low = CHOOSE i \in es : \A j \in es : i <= j
  <2>1. /\ low \in es /\ \A j \in es : low <= j
        /\ \A i \in es : (\A j \in es : i <= j) => i = low
    BY <1>1, <1>2
  <2> QED
    BY <2>1
<1>5. \A w \in 1..count : r.at + w - 1 = reg.address + (low + w - 1)
  BY <1>2
<1> QED
  BY <1>2, <1>3, <1>4, <1>5 DEF Bus!Contents, ElementsRead

LEMMA InsideStep ==
  ASSUME IInv, [Next]_vars, CallInside
  PROVE  /\ \A a \in Addresses : mem'[a] # mem[a] =>
              /\ \E i \in call.elements : a = Registers[call.name].address + i
              /\ \/ call.request.cmd = "arrayWrite"
                 \/ mem'[a] \ Registers[call.name].writeMask
                      = mem[a] \ Registers[call.name].writeMask
         /\ answer' # answer /\ answer' # None =>
              answer' = ElementsRead(mem, call.name, call.elements, call.request.cmd)
<1>1. /\ About(call.name, call.elements, call.request) /\ mem \in Memories
      /\ call # None /\ call.request # None
  BY NamedAbout, InvParts, UnderWay DEF TypeOK, CallInside
<1>2. \/ mem' = mem /\ answer' = answer
      \/ mem' = Bus!Written(mem, call.request) /\ answer' = answer
      \/ /\ mem' = mem
         /\ answer' = IF call.request.reads > 0 THEN Bus!Contents(mem, call.request) ELSE None
  BY <1>1, BusStep DEF Bus!Next, Bus!vars, Bus!Begin, Bus!Take, Bus!Return, Bus!Throw
<1>3. ASSUME NEW a \in Addresses, mem'[a] # mem[a]
      PROVE  /\ \E i \in call.elements : a = Registers[call.name].address + i
             /\ \/ call.request.cmd = "arrayWrite"
                \/ mem'[a] \ Registers[call.name].writeMask
                     = mem[a] \ Registers[call.name].writeMask
  <2>1. mem' = Bus!Written(mem, call.request)
    BY <1>2, <1>3
  <2> QED
    BY <1>1, <1>3, <2>1, WrittenInside
<1>4. ASSUME answer' # answer, answer' # None
      PROVE  answer' = ElementsRead(mem, call.name, call.elements, call.request.cmd)
  <2>1. call.request.reads > 0 /\ answer' = Bus!Contents(mem, call.request)
    BY <1>2, <1>4
  <2> QED
    BY <1>1, <2>1, ContentsInside
<1> QED
  BY <1>3, <1>4

\* A call by name is about the registers of its row, for every table and every
\* index below the size: no other register changes, a register set for itself
\* changes in the bits of its write mask only, and a read returns the elements
\* asked for, in their order (RegMap.hpp:46-63, DeviceInterface.cxx:828-888).
THEOREM NamedInside == Spec => NamedAccessStaysInside
<1>1. IInv /\ [Next]_vars => [CallInside =>
         LET reg    == Registers[call.name]
             At(i)  == reg.address + i
             first  == CHOOSE i \in call.elements : \A j \in call.elements : i <= j
         IN  /\ \A a \in Addresses : mem'[a] # mem[a] =>
                  /\ \E i \in call.elements : a = At(i)
                  /\ \/ call.request.cmd = "arrayWrite"
                     \/ mem'[a] \ reg.writeMask = mem[a] \ reg.writeMask
             /\ answer' # answer /\ answer' # None =>
                  answer' = [w \in 1..Cardinality(call.elements) |->
                     mem[At(first + w - 1)] \cap
                       (IF call.request.cmd = "arrayRead" THEN AllBits ELSE reg.readMask)]]_<<mem, answer>>
  BY InsideStep DEF ElementsRead
<1> QED
  BY <1>1, InvAlways, PTL DEF Spec, NamedAccessStaysInside
=============================================================================
