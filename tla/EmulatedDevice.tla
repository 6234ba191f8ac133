--------------------------- MODULE EmulatedDevice ---------------------------
(***************************************************************************)
(* EmulatedDevice: the emulator thread that makes events, the registers    *)
(* that start and stop it, and the buffer between it and its user, which   *)
(* is a SafeQueue.                                                         *)
(*                                                                         *)
(* The user is whoever holds the device through OpenSlowControl and the    *)
(* public calls of DeviceInterface: SetRegister, Stop and Shutdown, one    *)
(* after the other.  Start refuses slow control, so that nothing takes     *)
(* words from the buffer but the purge of Stop and of Close.  Nothing      *)
(* stops the user from a Shutdown while the emulator runs, which then goes *)
(* on, from starting it twice, or from going on after a Shutdown: calls    *)
(* look at the pointer that Open gave out and never at the flag.           *)
(*                                                                         *)
(* An event is a header word and a payload, EventWords in all.  The random *)
(* time before an event is over as soon as there is room for it within     *)
(* Capacity, or not yet.                                                   *)
(***************************************************************************)
EXTENDS Naturals, Sequences

CONSTANTS EventWords,
          Capacity       \* bound on the words in the buffer

ASSUME SizeAssumption == /\ EventWords \in Nat \ {0}
                         /\ Capacity \in Nat
                         /\ EventWords <= Capacity

VARIABLES isOpen,
          fDevice,               \* the user's pointer is to this device
          fEmulatorThread,       \* the device has a thread object
          fEmulatorShouldStop,
          emulator,              \* the thread: "none", "loop", "event", "ended"
          pushed,                \* words of the current event pushed so far
          call,                  \* the user's call, or "none"
          step,                  \* where in it: "none", "join" or "purge"
          last,                  \* history: the last call to end since a start
          terminated,            \* a joinable thread object was destroyed
          fEmulatedBuffer, notifying, reading, request, word   \* see SafeQueue

device == <<isOpen, fDevice, fEmulatorThread, fEmulatorShouldStop>>
thread == <<emulator, pushed>>
user   == <<call, step, last>>
buffer == <<fEmulatedBuffer, notifying, reading, request, word>>
vars   == <<device, thread, user, terminated, buffer>>

Words == {"header", "payload"}

Buffer == INSTANCE SafeQueue
            WITH Producers <- {"emulator"}, Consumers <- {"user"},
                 Items <- Words, Calls <- {"purge"},
                 Pending <- "pending", Nothing <- "nothing",
                 queue_ <- fEmulatedBuffer, pc <- reading, call <- request,
                 result <- word
-----------------------------------------------------------------------------
Init == /\ isOpen = FALSE
        /\ fDevice = FALSE
        /\ fEmulatorThread = FALSE
        /\ fEmulatorShouldStop \in BOOLEAN       \* not initialised
        /\ emulator = "none"
        /\ pushed = 0
        /\ call = "none"
        /\ step = "none"
        /\ last = "none"
        /\ terminated = FALSE
        /\ Buffer!Init

Ready == ~terminated /\ call = "none"

Open == /\ Ready
        /\ ~isOpen
        /\ isOpen' = TRUE
        /\ fDevice' = TRUE
        /\ UNCHANGED <<fEmulatorThread, fEmulatorShouldStop, thread, user>>
        /\ UNCHANGED <<terminated, buffer>>

\* DeviceWrite of 0x1 to master_logic_control.  A thread object that is there
\* already is replaced while its thread is joinable, which ends the process.
WriteStart == /\ Ready
              /\ fDevice
              /\ fEmulatorShouldStop' = FALSE
              /\ IF fEmulatorThread
                   THEN terminated' = TRUE /\ UNCHANGED emulator
                   ELSE emulator' = "loop" /\ UNCHANGED terminated
              /\ fEmulatorThread' = TRUE
              /\ pushed' = 0
              /\ last' = "none"
              /\ UNCHANGED <<isOpen, fDevice, call, step, buffer>>

Ends == /\ call' = "none"
        /\ step' = "none"
        /\ last' = call

\* What follows the join: Stop goes on to purge, a register write is over.
Proceeds == IF call = "Stop"
              THEN step' = "purge" /\ UNCHANGED <<call, last>>
              ELSE Ends

\* Mutant: the thread is asked to end and not waited for.
WaitsForThreadNot == FALSE
WaitsForThread == fEmulatorThread

\* Mutant: the thread object is kept.
ThreadAfterJoinKept == fEmulatorThread
ThreadAfterJoin == FALSE

\* DeviceWrite of 0x20001 to event_data_control, by itself (SetRegister) or in
\* DeviceInterface::Stop, the only one of whose writes the device answers to.
WriteStop(c) == /\ Ready
                /\ fDevice
                /\ c \in {"SetRegister", "Stop"}
                /\ call' = c
                /\ step' = "join"
                /\ fEmulatorShouldStop' = TRUE
                /\ UNCHANGED <<isOpen, fDevice, fEmulatorThread, thread, last>>
                /\ UNCHANGED <<terminated, buffer>>

Join == /\ step = "join"
        /\ \/ /\ WaitsForThread
              /\ emulator = "ended"
              /\ emulator' = "none"
              /\ fEmulatorThread' = ThreadAfterJoin
           \/ /\ ~WaitsForThread
              /\ UNCHANGED <<emulator, fEmulatorThread>>
        /\ Proceeds
        /\ UNCHANGED <<isOpen, fDevice, fEmulatorShouldStop, pushed>>
        /\ UNCHANGED <<terminated, buffer>>

\* Close, by Shutdown: the purge, then the flag.  The pointer is kept.
Shutdown == /\ Ready
            /\ fDevice
            /\ call' = "Shutdown"
            /\ step' = "purge"
            /\ UNCHANGED <<last, device, thread, terminated, buffer>>

\* DevicePurgeData, a section under the queue's mutex at a time.
PurgeStarts == /\ step = "purge"
               /\ reading["user"] = "out"
               /\ Buffer!Begin("user", "purge")
               /\ UNCHANGED <<device, thread, user, terminated>>

PurgeSteps == /\ step = "purge"
              /\ Buffer!Step("user")
              /\ IF reading'["user"] = "out"
                   THEN /\ Ends
                        /\ isOpen' = (call # "Shutdown")
                   ELSE UNCHANGED <<user, isOpen>>
              /\ UNCHANGED <<fDevice, fEmulatorThread, fEmulatorShouldStop>>
              /\ UNCHANGED <<thread, terminated>>

User == Join \/ PurgeStarts \/ PurgeSteps

\* RefreshDevices, for the conf of a module on an Ethernet board: the device is
\* destroyed, and another takes its place, to which the user has no pointer
\* before it opens it.
Refresh == /\ Ready
           /\ IF fEmulatorThread
                THEN terminated' = TRUE /\ UNCHANGED <<device, thread, buffer>>
                ELSE /\ isOpen' = FALSE
                     /\ fDevice' = FALSE
                     /\ fEmulatorShouldStop' \in BOOLEAN
                     /\ fEmulatedBuffer' = <<>>
                     /\ UNCHANGED <<fEmulatorThread, thread>>
                     /\ UNCHANGED <<notifying, reading, request, word, terminated>>
           /\ last' = "none"
           /\ UNCHANGED <<call, step>>

\* The process is started again.
Restart == /\ terminated
           /\ isOpen' = FALSE
           /\ fDevice' = FALSE
           /\ fEmulatorThread' = FALSE
           /\ fEmulatorShouldStop' \in BOOLEAN
           /\ emulator' = "none"
           /\ pushed' = 0
           /\ last' = "none"
           /\ terminated' = FALSE
           /\ fEmulatedBuffer' = <<>>
           /\ notifying' = {}
           /\ UNCHANGED <<call, step, reading, request, word>>
-----------------------------------------------------------------------------
(***************************************************************************)
(* EmulatorLoop                                                            *)
(***************************************************************************)
\* Mutant: the flag is not looked at.
StopAskedNever == FALSE
StopAsked == fEmulatorShouldStop

Room == Len(fEmulatedBuffer) + EventWords <= Capacity

Loop == /\ ~terminated
        /\ emulator = "loop"
        /\ \/ StopAsked /\ emulator' = "ended"
           \/ ~StopAsked /\ Room /\ emulator' = "event"
        /\ pushed' = 0
        /\ UNCHANGED <<device, user, terminated, buffer>>

EventDone(n) == n = EventWords

PushWord == /\ ~terminated
            /\ emulator = "event"
            /\ ~EventDone(pushed)
            /\ Buffer!Push("emulator", IF pushed = 0 THEN "header" ELSE "payload")
            /\ pushed' = pushed + 1
            /\ UNCHANGED <<emulator, device, user, terminated>>

Notify == /\ ~terminated
          /\ Buffer!NotifyOne("emulator")
          /\ UNCHANGED <<device, thread, user, terminated>>

EventEnds == /\ ~terminated
             /\ emulator = "event"
             /\ EventDone(pushed)
             /\ notifying = {}
             /\ emulator' = "loop"
             /\ UNCHANGED <<pushed, device, user, terminated, buffer>>

Emulator == Loop \/ PushWord \/ Notify \/ EventEnds

Next == \/ Open \/ WriteStart \/ (\E c \in {"SetRegister", "Stop"} : WriteStop(c))
        \/ Shutdown \/ Refresh \/ Restart
        \/ User \/ Emulator

Spec == Init /\ [][Next]_vars

\* Both threads run.
FairSpec == Spec /\ WF_vars(User) /\ WF_vars(Emulator)
-----------------------------------------------------------------------------
\* The types, and: the device has a thread object as long as there is a thread,
\* so that none is ever left behind without one to join it by.
TypeOK == /\ isOpen \in BOOLEAN
          /\ fDevice \in BOOLEAN
          /\ fEmulatorShouldStop \in BOOLEAN
          /\ emulator \in {"none", "loop", "event", "ended"}
          /\ fEmulatorThread = (emulator # "none")
          /\ pushed \in 0..EventWords
          /\ call \in {"none", "SetRegister", "Stop", "Shutdown"}
          /\ step \in {"none", "join", "purge"}
          /\ last \in {"none", "SetRegister", "Stop", "Shutdown"}
          /\ terminated \in BOOLEAN
          /\ Buffer!TypeOK

\* A Stop that has ended, or a Shutdown of a stopped device, leaves the buffer
\* empty, and it stays so until the emulator is started again: the thread is
\* joined in the middle of an event, and the words of that event are purged with
\* the rest ("purges buffers", DeviceInterface.hpp:73).
StoppedIsEmpty ==
  (/\ call = "none"
   /\ last = "Stop" \/ (last = "Shutdown" /\ ~fEmulatorThread))
    => fEmulatedBuffer = <<>>

\* The purge pops without limit what it counted under another lock
\* (EmulatedDevice.cxx:50-52), also while the emulator pushes: it never waits
\* for a word that is not there.
PurgeNeverWaits == Buffer!PurgeNeverWaits

\* A call that stops the emulator ends: the thread it joins looks at the flag
\* after its event.  So does a Shutdown, unless it is left to chase the words
\* of a running emulator.
CallsEnd == /\ call \in {"SetRegister", "Stop"} ~> call = "none"
            /\ (call = "Shutdown" /\ ~fEmulatorThread) ~> call = "none"
=============================================================================
