----------------------------- MODULE DataTaking -----------------------------
(***************************************************************************)
(* DeviceInterface Start and Stop, the read thread between them, and the   *)
(* events it takes from the data socket of a configured Ethernet device.   *)
(*                                                                         *)
(* Start enables the board and creates the thread; Stop asks the thread to *)
(* end, joins it, then stops the board and drains the socket.  The thread  *)
(* looks for the pattern word of an event, waits until the rest of the     *)
(* header, then until the body is there, and sends the event.  A wait of   *)
(* ten seconds throws, and an exception in the thread ends the process.    *)
(*                                                                         *)
(* An event is a run of units in the stream: the pattern word, the rest of *)
(* the header, and a body of one to MaxBody units.  The board puts its     *)
(* time into the header, and what is sent carries a third of that.         *)
(*                                                                         *)
(* The caller is one thread, as are the modules' commands; no code under   *)
(* src calls Start, so calls come in any order.  Board, network and the    *)
(* sinks that events are sent to are external.                             *)
(***************************************************************************)
EXTENDS Timestamps, Sequences

CONSTANTS MaxEvents,   \* bound on the events the board makes
          MaxBody,
          MaxFaults,   \* bound on writes that throw, stalls and failing sinks
          Period,      \* of events in the board's time
          Offsets      \* what fFragmentTimestampOffset can be found to be

ASSUME BoundAssumption == /\ MaxEvents \in Nat /\ MaxFaults \in Nat
                          /\ MaxBody \in Nat \ {0}
ASSUME PeriodAssumption == Period \in 3..W4 /\ MaxEvents * Period < W4
ASSUME OffsetsAssumption == Offsets \subseteq Int

VARIABLES fState,       \* "kInitialized", "kRunning" or "kStopped"
          fShouldStop,
          joinable,     \* fDataThread has a thread that was not joined
          reader,       \* what the thread does next, or "none"
          packet,       \* the event being read: header and body units
          cmd,          \* "none", "Start" or "Stop"
          step,         \* where in the call: "join" or "write", or "none"
          nWrites,      \* register writes of the call done so far
          crashed,      \* "no", or why the read thread ended the process:
                        \* "stall", "cutOff" or "sink"
          offset,       \* fFragmentTimestampOffset, which nothing sets
          faults,
          acquiring,    \* board: makes events
          fifo,         \* board: units not sent yet
          wire,         \* units on their way
          sock,         \* units that arrived
          nEvents,      \* events made
          nStopped,     \* history: events made when a Stop last succeeded
          sent          \* history: the last event sent, and how

host  == <<fState, fShouldStop, joinable, reader, packet, crashed, offset, sent>>
call  == <<cmd, step, nWrites, faults, nStopped>>
board == <<acquiring, fifo, wire, nEvents>>
vars  == <<host, call, board, sock>>

\* The register writes of the two calls, in order.
Writes ==
  [Stop  |-> <<"eventDataControl", "master_logic_control", "fifo_control",
               "PurgeDDR", "event_data_control">>,
   Start |-> <<"channel_pulsed_control", "bias_control", "vmon_control",
               "imon_control", "qi_dac_control", "qi_pulsed",
               "event_data_control", "fifo_control", "eventDataControl",
               "master_logic_control">>]

NoEvent == [n |-> 0, size |-> 0]
Empty   == [head |-> NoEvent, body |-> <<>>]
Units(e) == <<[kind |-> "pattern", of |-> e], [kind |-> "header", of |-> e]>>
              \o [i \in 1..e.size |-> [kind |-> "body", of |-> e]]

\* The four words of the time the board gives an event (external).
Time(e)  == e.n * Period
Stamp(e) == SetExternalTimestamp([w \in 0..3 |-> 0], Time(e))

NotSent == [event |-> NoEvent, stamp |-> Stamp(NoEvent), offset |-> 0]
-----------------------------------------------------------------------------
Init == /\ fState = "kInitialized"
        /\ fShouldStop = FALSE
        /\ joinable = FALSE
        /\ reader = "none"
        /\ packet = Empty
        /\ cmd = "none"
        /\ step = "none"
        /\ nWrites = 0
        /\ crashed = "no"
        /\ faults = 0
        /\ acquiring = FALSE
        /\ fifo = <<>>
        /\ wire = <<>>
        /\ sock = <<>>
        /\ nEvents = 0
        /\ nStopped = 0
        /\ offset \in Offsets
        /\ sent = NotSent

Up == crashed = "no"

\* Start on a device that is not stopped is refused, and changes nothing.
StartBegins == /\ Up /\ cmd = "none"
               /\ fState = "kStopped"
               /\ cmd' = "Start"
               /\ step' = "write"
               /\ nWrites' = 0
               /\ UNCHANGED <<host, board, sock, faults, nStopped>>

\* A running device is joined first; others go through the writes as well.
\* Mutant: the board is stopped before the thread is.
FirstStepLate == "write"
FirstStep == IF fState = "kRunning" THEN "join" ELSE "write"

StopBegins == /\ Up /\ cmd = "none"
              /\ cmd' = "Stop"
              /\ step' = FirstStep
              /\ nWrites' = 0
              /\ fShouldStop' = (fShouldStop \/ fState = "kRunning")
              /\ UNCHANGED <<fState, joinable, reader, packet, crashed, offset, sent>>
              /\ UNCHANGED <<board, sock, faults, nStopped>>

Returns == /\ cmd' = "none"
           /\ step' = "none"
           /\ nWrites' = 0

\* join returns when the thread has ended, and throws if there is none.
Join == /\ Up /\ step = "join"
        /\ \/ /\ joinable
              /\ reader = "ended"
              /\ joinable' = FALSE
              /\ reader' = "none"
              /\ step' = "write"
              /\ UNCHANGED <<cmd, nWrites>>
           \/ /\ ~joinable
              /\ Returns
              /\ UNCHANGED <<joinable, reader>>
        /\ UNCHANGED <<fState, fShouldStop, packet, crashed, offset, sent>>
        /\ UNCHANGED <<board, sock, faults, nStopped>>

\* What a write does to the board: the master logic makes events while it is
\* enabled, and the FIFO reset drops what was not sent (external).
BoardTakes(r) ==
  /\ acquiring' = IF r = "master_logic_control" THEN cmd = "Start"
                                                ELSE acquiring
  /\ fifo' = IF cmd = "Stop" /\ r \in {"fifo_control", "PurgeDDR"} THEN <<>>
                                                                  ELSE fifo
  /\ UNCHANGED <<wire, nEvents>>

\* The last write of Stop is followed by the purge, that of Start by the read
\* thread.
WritesRegister ==
  /\ Up /\ step = "write"
  /\ nWrites < Len(Writes[cmd])
  /\ \/ /\ BoardTakes(Writes[cmd][nWrites + 1])
        /\ nWrites' = nWrites + 1
        /\ UNCHANGED <<cmd, step, faults>>
     \/ /\ faults < MaxFaults
        /\ faults' = faults + 1
        /\ UNCHANGED board \/ BoardTakes(Writes[cmd][nWrites + 1])
        /\ Returns
  /\ UNCHANGED <<host, sock, nStopped>>

StartsThread == /\ Up /\ cmd = "Start"
                /\ nWrites = Len(Writes["Start"])
                /\ fState' = "kRunning"
                /\ fShouldStop' = FALSE
                /\ joinable' = TRUE
                /\ reader' = "top"
                /\ Returns
                /\ UNCHANGED <<packet, crashed, offset, sent, board, sock>>
                /\ UNCHANGED <<faults, nStopped>>

\* DevicePurgeData reads until the socket has been quiet for a second.  Timing
\* assumption: by then what the board had sent has arrived.
\* Mutant: done as soon as the socket is empty.
QuietAtOnce == sock = <<>>
Quiet == sock = <<>> /\ wire = <<>>

Purges == /\ Up /\ cmd = "Stop"
          /\ nWrites = Len(Writes["Stop"])
          /\ \/ /\ sock # <<>>
                /\ sock' = <<>>
                /\ UNCHANGED <<host, call>>
             \/ /\ Quiet
                /\ fState' = "kStopped"
                /\ nStopped' = nEvents
                /\ Returns
                /\ UNCHANGED <<fShouldStop, joinable, reader, packet, crashed>>
                /\ UNCHANGED <<offset, sent, sock, faults>>
          /\ UNCHANGED board

Caller == Join \/ WritesRegister \/ StartsThread \/ Purges
-----------------------------------------------------------------------------
(***************************************************************************)
(* HardwareReadLoop and ReadEventFromDevice                                *)
(***************************************************************************)
ReaderGoes(where) == /\ reader' = where
                     /\ UNCHANGED <<fState, fShouldStop, joinable, crashed, offset>>

\* Mutant: the loop does not look at fShouldStop.
LoopsOnAlways == TRUE
LoopsOn == ~fShouldStop

Top == /\ Up /\ reader = "top"
       /\ ReaderGoes(IF LoopsOn THEN "find" ELSE "ended")
       /\ UNCHANGED <<packet, sent, call, board, sock>>

\* Words before the pattern are dropped; without any word there is no event.
Find == /\ Up /\ reader = "find"
        /\ IF sock = <<>>
             THEN ReaderGoes("top") /\ UNCHANGED sock
             ELSE /\ sock' = Tail(sock)
                  /\ ReaderGoes(IF Head(sock).kind = "pattern" THEN "header"
                                                              ELSE "find")
        /\ packet' = Empty
        /\ UNCHANGED <<sent, call, board>>

\* The body's size is the event's length without the header's.
\* Mutant: the header is counted as well.
BodySizeWithHeader(e) == e.size + 1
BodySize(e) == e.size

ReadHeader == /\ Up /\ reader = "header"
              /\ sock # <<>>
              /\ packet' = [packet EXCEPT !.head = Head(sock).of]
              /\ sock' = Tail(sock)
              /\ ReaderGoes("body")
              /\ UNCHANGED <<sent, call, board>>

ReadBody == /\ Up /\ reader = "body"
            /\ Len(sock) >= BodySize(packet.head)
            /\ packet' = [packet EXCEPT
                            !.body = SubSeq(sock, 1, BodySize(packet.head))]
            /\ sock' = SubSeq(sock, BodySize(packet.head) + 1, Len(sock))
            /\ ReaderGoes("send")
            /\ UNCHANGED <<sent, call, board>>

\* The time is corrected, then the event is sent.
Send == /\ Up /\ reader = "send"
        /\ sent' = [event  |-> packet.head,
                    stamp  |-> Corrected(Stamp(packet.head), offset),
                    offset |-> offset]
        /\ ReaderGoes("top")
        /\ UNCHANGED <<packet, call, board, sock>>

\* The sink has been full for 10 ms, or the channel of the event has none: the
\* exception, or the null pointer, ends the process.
SinkFails == /\ Up /\ reader = "send"
             /\ faults < MaxFaults
             /\ faults' = faults + 1
             /\ crashed' = "sink"
             /\ UNCHANGED <<fState, fShouldStop, joinable, reader, packet>>
             /\ UNCHANGED <<offset, sent, cmd, step, nWrites, nStopped>>
             /\ UNCHANGED <<board, sock>>

\* Ten seconds without the words that are waited for: EEventReadError leaves
\* the thread, which ends the process.  Either the network stalls, or there is
\* nothing to come.  Timing assumption: words that are on their way, or that the
\* board has yet to send, take less if it does not stall.
NothingComing == fifo = <<>> /\ wire = <<>>

TimesOut == /\ Up
            /\ \/ reader = "header" /\ sock = <<>>
               \/ reader = "body" /\ Len(sock) < BodySize(packet.head)
            /\ \/ /\ NothingComing
                  /\ crashed' = "cutOff"
                  /\ UNCHANGED faults
               \/ /\ faults < MaxFaults
                  /\ faults' = faults + 1
                  /\ crashed' = "stall"
            /\ UNCHANGED <<fState, fShouldStop, joinable, reader, packet>>
            /\ UNCHANGED <<offset, sent, cmd, step, nWrites, nStopped>>
            /\ UNCHANGED <<board, sock>>

\* The process is started again, and a conf connects it: the sockets are new,
\* the board is as it was.
Restart == /\ ~Up
           /\ crashed' = "no"
           /\ fState' = "kInitialized"
           /\ fShouldStop' = FALSE
           /\ joinable' = FALSE
           /\ reader' = "none"
           /\ packet' = Empty
           /\ offset' \in Offsets
           /\ Returns
           /\ sock' = <<>>
           /\ wire' = <<>>
           /\ UNCHANGED <<sent, faults, nStopped, acquiring, fifo, nEvents>>

Reader == Top \/ Find \/ ReadHeader \/ ReadBody \/ Send

\* Board and network (external).
MakesEvent == /\ acquiring /\ nEvents < MaxEvents
              /\ \E size \in 1..MaxBody :
                   fifo' = fifo \o Units([n |-> nEvents + 1, size |-> size])
              /\ nEvents' = nEvents + 1
              /\ UNCHANGED <<host, call, acquiring, wire, sock>>

Transmits == /\ fifo # <<>>
             /\ wire' = Append(wire, Head(fifo))
             /\ fifo' = Tail(fifo)
             /\ UNCHANGED <<host, call, acquiring, nEvents, sock>>

Delivers == /\ wire # <<>>
            /\ sock' = Append(sock, Head(wire))
            /\ wire' = Tail(wire)
            /\ UNCHANGED <<host, call, acquiring, fifo, nEvents>>

Next == StartBegins \/ StopBegins \/ Caller \/ Reader \/ TimesOut \/ SinkFails
          \/ Restart \/ MakesEvent \/ Transmits \/ Delivers

Spec == Init /\ [][Next]_vars

\* The caller's thread and the read thread run, a wait with nothing to come is
\* over after ten seconds, and what the board has gets here.
FairSpec == /\ Spec
            /\ WF_vars(Caller) /\ WF_vars(Reader)
            /\ WF_vars(TimesOut /\ UNCHANGED faults)
            /\ WF_vars(Transmits) /\ WF_vars(Delivers)
-----------------------------------------------------------------------------
Events == [n : 0..MaxEvents, size : 0..MaxBody]
Stream == Seq([kind : {"pattern", "header", "body"}, of : Events])

\* The types, and: only a running device has a read thread, one that Start made
\* and Stop has not joined.
TypeOK == /\ fState \in {"kInitialized", "kRunning", "kStopped"}
          /\ fShouldStop \in BOOLEAN
          /\ joinable \in BOOLEAN
          /\ joinable <=> reader # "none"
          /\ joinable => fState = "kRunning"
          /\ reader \in {"none", "top", "find", "header", "body", "send", "ended"}
          /\ packet \in [head : Events, body : Stream]
          /\ cmd \in {"none", "Start", "Stop"}
          /\ step \in {"none", "join", "write"}
          /\ cmd # "none" => nWrites \in 0..Len(Writes[cmd])
          /\ crashed \in {"no", "stall", "cutOff", "sink"}
          /\ acquiring \in BOOLEAN
          /\ faults \in 0..MaxFaults
          /\ fifo \in Stream /\ wire \in Stream /\ sock \in Stream
          /\ nEvents \in 0..MaxEvents
          /\ nStopped \in 0..MaxEvents
          /\ offset \in Offsets
          /\ sent \in [event : Events, stamp : Words, offset : Int]

\* The thread is gone before the board is stopped (146-156), so an event that
\* it has begun to read always arrives whole and its wait never ends the
\* process, unless the network stalls.  As WholeEvents below, it holds while at
\* most one call fails.
NoEventCutOff == crashed # "cutOff"

\* An event goes out with the body that belongs to its header: nothing is left
\* in the stream that could shift the next event.  It holds while at most one
\* call fails or one stall ends the process.  After two failed calls, a Start
\* that left the board making events and a Stop that left half of one in the
\* socket, the next Start ("purges buffers", DeviceInterface.hpp:73) sends a
\* header with the body of another event.
WholeEvents ==
  reader = "send" =>
    /\ Len(packet.body) = packet.head.size
    /\ \A i \in 1..Len(packet.body) :
         packet.body[i] = [kind |-> "body", of |-> packet.head]

\* Events go out in the order the board made them, none twice, and none that
\* was made before the last Stop that succeeded ("purges buffers",
\* DeviceInterface.hpp:73), also after Starts and Stops that threw half-way.
InOrderFromThisRun ==
  [][sent' # sent => /\ sent'.event.n > sent.event.n
                     /\ sent'.event.n > nStopped]_sent

\* An event goes out with a third of the board's time plus the offset
\* (DeviceInterface.cxx:257-264), and later events have later times, also from
\* a process that was started again and found the same offset.  Not when the
\* offset, an int that is never initialised (DeviceInterface.hpp:229), is
\* negative enough to take the sum below zero, nor when it has changed.
StampsTellTheTime ==
  [][sent' # sent =>
       LET e == sent'.event
           s == GetTimestamp(sent'.stamp)
       IN  Time(e) + offset \in 0..W4 - 1 =>
             /\ 3 * s \in Time(e) + offset - 2 .. Time(e) + offset
             /\ /\ sent.offset = offset
                /\ Time(sent.event) + offset >= 0
                /\ sent.event.n < e.n
                => s > GetTimestamp(sent.stamp)]_sent

\* Every Start and Stop ends, also a Stop in the middle of an event, unless the
\* process does.
CallsEnd == cmd # "none" ~> (cmd = "none" \/ ~Up)
=============================================================================
