---------------------------- MODULE EthernetLink ----------------------------
(***************************************************************************)
(* EthernetDevice: register operations over the comm socket of a board.    *)
(*                                                                         *)
(* TCP hands the reply over in pieces, in order; read_some returns what    *)
(* has arrived, and a piece that is shorter than the reply makes the code  *)
(* throw ETCPError, purge the socket and send the request again, three     *)
(* times at most.  The reply is not matched with the request, so what      *)
(* makes the answers right is that nothing of an earlier reply is left in  *)
(* the socket.                                                             *)
(*                                                                         *)
(* The client is the rest of the program.  A conf opens a connection and   *)
(* makes calls of DeviceInterface over it, by address or by name; one that *)
(* throws ends the conf, and the next conf opens another connection.       *)
(* start and stop use the connection of the conf that succeeded, only      *)
(* write whole registers, and go on using it after a throw.                *)
(*                                                                         *)
(* A reply is a header of HeaderUnits pieces and the words behind it.      *)
(* Board and network are external: the board carries requests out in       *)
(* order and answers each one.                                             *)
(***************************************************************************)
EXTENDS RegMap, FiniteSets

CONSTANTS Values,        \* what registers are set to
          Masks,         \* of accesses by address
          Names,         \* the names that calls give
          Indices,       \* of the elements that calls ask for
          HeaderUnits,   \* pieces a reply's header can arrive in
          None

ASSUME HeaderAssumption == HeaderUnits \in Nat \ {0}
ASSUME BitsAssumption == /\ Values \cup Masks \subseteq SUBSET AllBits
                         /\ AllBits \in Masks
ASSUME IndexAssumption == Indices \subseteq Nat

VARIABLES use,           \* client: "closed", "conf", or "pulse" (start, stop)
          phase,         \* SendReceive: "idle", "send", "receive", "purge"
          call,          \* the call under way, or None
          timesTried,
          answer,        \* what the last read returned
          connected,     \* the connection has not failed
          sock,          \* pieces that arrived and are not read
          net,           \* pieces of replies on their way
          inbox,         \* requests on their way to the board
          mem,           \* the registers
          taken          \* history: the board carried the request out

client == <<use>>
host   == <<phase, call, timesTried, answer>>
wire   == <<sock, net, inbox, connected>>
board  == <<mem, taken>>
vars   == <<client, host, wire, board>>

RetryCount == 3

Row(n)    == Registers[n].address .. Registers[n].address + Registers[n].size - 1
Addresses == UNION {Row(n) : n \in DOMAIN Registers}
Vectors   == UNION {[1..Registers[n].size -> Values] : n \in DOMAIN Registers}
Memories  == [Addresses -> SUBSET AllBits]

\* A call: the name it gives or None, the elements of it that it means, and
\* the request it sends.
Call(name, elements, request) ==
  [name |-> name, elements |-> elements, request |-> request]

PlainWrites == {Call(None, {}, SetRegister(a, v, AllBits)) :
                  a \in Addresses, v \in Values}

CallsByAddress ==
  UNION {{Call(None, {}, ReadRegister(a, m)),
          Call(None, {}, DeviceSet(a, m)), Call(None, {}, DeviceClear(a, m))}
           \cup {Call(None, {}, SetRegister(a, v, m)) : v \in Values} :
         a \in Addresses, m \in Masks}

ElementCalls(n) ==
  UNION {{Call(n, {i}, ReadRegisterElementByName(n, i))}
           \cup {Call(n, {i}, SetRegisterElementByName(n, i, v)) : v \in Values} :
         i \in Indices}

\* The elements of a name that is in the table.
Elements(n) == IF n \in DOMAIN Registers THEN 0 .. Registers[n].size - 1 ELSE {}

CallsByName ==
  UNION {ElementCalls(n)
           \cup {Call(n, {0}, ReadRegisterByName(n)),
                 Call(n, Elements(n), ReadRegisterArrayByName(n))}
           \cup {Call(n, {0}, SetRegisterByName(n, v)) : v \in Values}
           \cup {Call(n, Elements(n), FillRegisterArrayByName(n, v)) : v \in Values}
           \cup {Call(n, Elements(n), SetRegisterArrayByName(n, vs)) : vs \in Vectors} :
         n \in Names}

Calls == CallsByAddress \cup CallsByName
Requests == {c.request : c \in Calls} \ {Invalid}

ASSUME NoneAssumption == None \notin Calls \cup Requests

\* Header pieces, with no meaning of their own, and words.
Header   == <<"header", None>>
Piece(v) == <<"word", v>>

Expected(r) == HeaderUnits + RepliedWords(r)
\* The register at r.at goes back with a masked write.
Reply(r, m) == [i \in 1..Expected(r) |->
                  IF i <= HeaderUnits THEN Header
                                      ELSE Piece(m[r.at + i - HeaderUnits - 1] \cap r.mask)]
Words(rx) == [i \in 1..Len(rx) - HeaderUnits |-> rx[HeaderUnits + i][2]]

Bus == INSTANCE RegisterBus
         WITH request   <- IF call = None THEN None ELSE call.request,
              NoRequest <- None,
              NoAnswer  <- None
-----------------------------------------------------------------------------
Init == /\ use = "closed"
        /\ phase = "idle"
        /\ call = None
        /\ timesTried = 0
        /\ answer = None
        /\ connected = FALSE
        /\ sock = <<>>
        /\ net = <<>>
        /\ inbox = <<>>
        /\ mem \in [Addresses -> Values]
        /\ taken = FALSE

\* A conf whose OpenDevice connects: another socket, with nothing in it.
Open == /\ use = "closed"
        /\ use' = "conf"
        /\ connected' = TRUE
        /\ sock' = <<>>
        /\ net' = <<>>
        /\ inbox' = <<>>
        /\ UNCHANGED <<host, board>>

\* The conf succeeds; its connection is kept for start and stop.
ConfDone == /\ use = "conf"
            /\ phase = "idle"
            /\ use' = "pulse"
            /\ UNCHANGED <<host, wire, board>>

\* The process ends between two operations.
Close == /\ use # "closed"
         /\ phase = "idle"
         /\ use' = "closed"
         /\ UNCHANGED <<host, wire, board>>

Begin(c) == /\ phase = "idle"
            /\ c.request # Invalid
            /\ phase' = "send"
            /\ call' = c
            /\ timesTried' = 0
            /\ answer' = None
            /\ taken' = FALSE
            /\ UNCHANGED <<client, wire, mem>>

ConfCalls  == use = "conf" /\ \E c \in Calls : Begin(c)
PulseCalls == use = "pulse" /\ \E c \in PlainWrites : Begin(c)

\* std::invalid_argument, before anything is sent, ends the conf as well.
Refused == /\ use = "conf"
           /\ phase = "idle"
           /\ \E c \in CallsByName : c.request = Invalid
           /\ use' = "closed"
           /\ UNCHANGED <<host, wire, board>>

\* The operation is over for the client; one that throws ends a conf.
Over(threw) == /\ phase' = "idle"
               /\ call' = None
               /\ use' = IF threw /\ use = "conf" THEN "closed" ELSE use
               /\ UNCHANGED timesTried

\* catch (ETCPError&): purge and try again, or throw.
\* Mutants: one more retry; the failures are not counted; no purge.
MayRetryOnceMore == timesTried <= RetryCount
MayRetry == timesTried < RetryCount
NotCounted == timesTried
Counted == timesTried + 1
AfterShortNoPurge == "send"
AfterShort == "purge"

ShortTransfer == \/ /\ MayRetry
                    /\ phase' = AfterShort
                    /\ timesTried' = Counted
                    /\ UNCHANGED <<client, call>>
                 \/ /\ ~MayRetry
                    /\ Over(TRUE)

\* write_some takes the request, or a part of it, which the board drops.
SendEthernet == /\ phase = "send"
                /\ connected
                /\ \/ /\ inbox' = Append(inbox, call.request)
                      /\ phase' = "receive"
                      /\ UNCHANGED <<client, call, timesTried>>
                   \/ ShortTransfer /\ UNCHANGED inbox
                /\ UNCHANGED <<answer, sock, net, connected, board>>

Fits(pieces) == Len(pieces) = Expected(call.request)

\* read_some blocks until something has arrived, then takes what there is, up
\* to the expected size.
ReceiveEthernet ==
  /\ phase = "receive"
  /\ sock # <<>>
  /\ LET expected == Expected(call.request)
         size == IF Len(sock) < expected THEN Len(sock) ELSE expected
         rx   == SubSeq(sock, 1, size)
     IN  /\ sock' = SubSeq(sock, size + 1, Len(sock))
         /\ IF Fits(rx)
              THEN /\ answer' = IF call.request.reads > 0 THEN Words(rx) ELSE None
                   /\ Over(FALSE)
              ELSE /\ ShortTransfer
                   /\ UNCHANGED answer
  /\ UNCHANGED <<net, inbox, connected, board>>

\* DevicePurge reads until the socket has been quiet for more than a second.
\* Timing assumption: by then the board has answered and the reply is here.
\* Mutant: done as soon as the socket is empty.
QuietAtOnce == sock = <<>>
Quiet == sock = <<>> /\ net = <<>> /\ inbox = <<>>

DevicePurge == /\ phase = "purge"
               /\ \/ /\ sock # <<>>
                     /\ sock' = <<>>
                     /\ UNCHANGED phase
                  \/ /\ Quiet
                     /\ phase' = "send"
                     /\ UNCHANGED sock
               /\ UNCHANGED <<client, call, timesTried, answer>>
               /\ UNCHANGED <<net, inbox, connected, board>>

\* A socket call throws system_error, which SendReceive does not catch.
SocketError == /\ phase # "idle"
               /\ ~connected
               /\ Over(TRUE)
               /\ UNCHANGED <<answer, wire, board>>

\* Board and network (external).
BoardAnswers == /\ inbox # <<>>
                /\ mem' = Bus!Written(mem, Head(inbox))
                /\ net' = net \o Reply(Head(inbox), mem')
                /\ taken' = TRUE
                /\ inbox' = Tail(inbox)
                /\ UNCHANGED <<client, host, sock, connected>>

Deliver == /\ net # <<>>
           /\ \E n \in 1..Len(net) :
                /\ sock' = sock \o SubSeq(net, 1, n)
                /\ net' = SubSeq(net, n + 1, Len(net))
           /\ UNCHANGED <<client, host, inbox, connected, board>>

\* The connection breaks; a request on its way is lost or carried out now, and
\* the operation under way ends with the error at once or on its next call.
Break == /\ connected
         /\ connected' = FALSE
         /\ sock' = <<>>
         /\ net' = <<>>
         /\ inbox' = <<>>
         /\ \/ UNCHANGED <<mem, taken>>
            \/ /\ inbox # <<>>
               /\ taken' = TRUE
               /\ mem' = Bus!Written(mem, Head(inbox))
         /\ UNCHANGED <<client, host>>

HostStep == SendEthernet \/ ReceiveEthernet \/ DevicePurge \/ SocketError

Next == \/ Open \/ ConfDone \/ Close
        \/ ConfCalls \/ PulseCalls \/ Refused
        \/ HostStep
        \/ BoardAnswers \/ Deliver \/ Break

Spec == Init /\ [][Next]_vars

\* The client's thread runs, the board answers and the network delivers.
FairSpec == Spec /\ WF_vars(HostStep) /\ WF_vars(BoardAnswers) /\ WF_vars(Deliver)
-----------------------------------------------------------------------------
Pieces == {Header} \cup {Piece(v) : v \in SUBSET AllBits}

TypeOK == /\ use \in {"closed", "conf", "pulse"}
          /\ phase \in {"idle", "send", "receive", "purge"}
          /\ call \in Calls \cup {None}
          /\ call = None <=> phase = "idle"
          /\ timesTried \in 0..RetryCount
          /\ answer \in Seq(SUBSET AllBits) \cup {None}
          /\ connected \in BOOLEAN
          /\ sock \in Seq(Pieces)
          /\ net \in Seq(Pieces)
          /\ inbox \in Seq(Requests)
          /\ mem \in Memories
          /\ taken \in BOOLEAN

\* A register operation is what RegisterBus says, over pieces, retries, purges
\* and broken connections, although replies are never matched with requests
\* (EthernetDevice.cxx:247-296): a write that returned was carried out, a read
\* that returned gives what the registers hold, and no request is carried out
\* after its operation is over.
ImplementsRegisterBus == Bus!Spec

\* In a conf, where values are read, the pieces in the socket or on their way
\* never outnumber one reply: nothing of an earlier operation is among them.
\* start and stop may be behind by a piece of a reply once one of them threw,
\* because SendReceive throws without a purge (271-274), but not by a reply.
NothingLeftBehind ==
  LET pieces == Len(sock) + Len(net)
  IN  connected /\ phase = "send" =>
        IF use = "conf" THEN pieces = 0 ELSE pieces < HeaderUnits

\* Every register operation ends, whatever pieces its replies arrive in.
OperationsEnd == phase # "idle" ~> phase = "idle"

\* The call asks for elements that the table has under its name.
CallInside == /\ call # None
              /\ call.name # None
              /\ call.elements \subseteq Elements(call.name)

\* A call by name is about the registers of that row (RegMap.hpp:46-63,
\* DeviceInterface.cxx:828-888), as long as the index is below the size: no
\* other register changes, a register set for itself changes in the bits of
\* its write mask only, and what a read returns are the elements asked for, in
\* their order, with every bit of the read mask.
NamedAccessStaysInside ==
  [][CallInside =>
       LET reg    == Registers[call.name]
           At(i)  == reg.address + i
           first  == CHOOSE i \in call.elements : \A j \in call.elements : i <= j
       IN  /\ \A a \in Addresses : mem'[a] # mem[a] =>
                /\ \E i \in call.elements : a = At(i)
                /\ \/ call.request.cmd = "arrayWrite"
                   \/ mem'[a] \ reg.writeMask = mem[a] \ reg.writeMask
           /\ answer' # answer /\ answer' # None =>
                answer' = [w \in 1..Cardinality(call.elements) |->
                   mem[At(first + w - 1)] \cap
                     (IF call.request.cmd = "arrayRead" THEN AllBits ELSE reg.readMask)]
    ]_<<mem, answer>>
=============================================================================
