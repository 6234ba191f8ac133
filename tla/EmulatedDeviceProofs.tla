------------------------ MODULE EmulatedDeviceProofs ------------------------
(***************************************************************************)
(* Theorems about EmulatedDevice, for every length of an event and every   *)
(* bound on the words in the buffer.                                       *)
(*                                                                         *)
(* The user is the only one to take words from the buffer.  So the word    *)
(* that its purge has counted under one lock is still there when it pops   *)
(* it under the next, whatever the emulator pushed in between; and once    *)
(* the thread is joined nobody pushes until the emulator is started again. *)
(***************************************************************************)
EXTENDS EmulatedDevice, TLAPS

Reading == reading["user"]

\* Where the user is in its call.
CallOrder == /\ call = "none" <=> step = "none"
             /\ step = "join" => call \in {"SetRegister", "Stop"}
             /\ step = "purge" => call \in {"Stop", "Shutdown"}
             /\ terminated => call = "none"

\* How its purge reads the buffer: only within the step that purges, and about
\* to pop only if there is a word.
PurgeOrder == /\ Reading \in {"out", "size", "check"}
              /\ Reading # "out" => step = "purge" /\ request["user"] = "purge"
              /\ Reading = "check" => fEmulatedBuffer # <<>>

\* From the join of Stop to the next start there is no thread, and after the
\* purge no word.
StopOrder ==
  /\ step = "purge" /\ call = "Stop" => ~fEmulatorThread
  /\ last = "Stop" => ~fEmulatorThread
  /\ (call = "none" /\ (last = "Stop" \/ (last = "Shutdown" /\ ~fEmulatorThread)))
       => fEmulatedBuffer = <<>>

IInv == TypeOK /\ CallOrder /\ PurgeOrder /\ StopOrder
-----------------------------------------------------------------------------
(***************************************************************************)
(* The buffer.                                                             *)
(***************************************************************************)
\* The purge begins.
LEMMA PurgeBegun ==
  ASSUME Buffer!TypeOK, Buffer!Begin("user", "purge")
  PROVE  /\ Buffer!TypeOK'
         /\ Reading' = "size" /\ request'["user"] = "purge"
         /\ UNCHANGED <<fEmulatedBuffer, notifying>>
BY DEF Buffer!TypeOK, Buffer!Begin, Buffer!Goes, Reading

\* A section of the purge: it counts a word, sees that there is none and is
\* over, or pops the word it has counted.
LEMMA PurgeStepped ==
  ASSUME Buffer!TypeOK, PurgeOrder, Buffer!Step("user"),
         request["user"] = "purge"
  PROVE  /\ Buffer!TypeOK'
         /\ Reading' \in {"out", "size", "check"}
         /\ Reading' = "check" => fEmulatedBuffer' # <<>>
         /\ Reading' = "out" => fEmulatedBuffer' = <<>>
         /\ UNCHANGED request
<1>1. CASE Buffer!Size("user")
  BY <1>1 DEF Buffer!TypeOK, Buffer!Size, Buffer!Goes, Buffer!MoreToPurge,
              Reading, PurgeOrder
<1>2. CASE Buffer!Check("user")
  <2>1. fEmulatedBuffer # <<>> /\ Buffer!TakeFront("user")
    BY <1>2 DEF Buffer!Check, PurgeOrder, Reading
  <2>2. /\ fEmulatedBuffer \in Seq(Words)
        /\ fEmulatedBuffer' = Tail(fEmulatedBuffer)
        /\ Len(fEmulatedBuffer) <= Capacity
    BY <2>1 DEF Buffer!TypeOK, Buffer!TakeFront, Buffer!WithoutFront
  <2>3. /\ fEmulatedBuffer' \in Seq(Words)
        /\ Len(fEmulatedBuffer') <= Capacity
        /\ Head(fEmulatedBuffer) \in Words
    BY <2>1, <2>2, SizeAssumption
  <2>4. Head(fEmulatedBuffer) # "pending"
    BY <2>3 DEF Words
  <2>5. /\ reading' = [reading EXCEPT !["user"] = "size"]
        /\ word' = [word EXCEPT !["user"] = Head(fEmulatedBuffer)]
        /\ UNCHANGED <<notifying, request>>
    BY <2>1 DEF Buffer!TakeFront, Buffer!Goes, Buffer!AfterTake
  <2> QED
    BY <2>3, <2>4, <2>5 DEF Buffer!TypeOK, Reading
<1>3. CASE Buffer!LastCheck("user")
  BY <1>3 DEF Buffer!LastCheck, PurgeOrder, Reading
<1> QED
  BY <1>1, <1>2, <1>3 DEF Buffer!Step

\* The emulator pushes a word, and wakes nobody: nobody sleeps.
LEMMA WordPushed ==
  ASSUME Buffer!TypeOK, NEW w \in Words, Buffer!Push("emulator", w)
  PROVE  /\ Buffer!TypeOK'
         /\ fEmulatedBuffer' # <<>>
         /\ UNCHANGED <<reading, request>>
<1>1. /\ fEmulatedBuffer \in Seq(Words)
      /\ Len(fEmulatedBuffer) < Capacity
      /\ fEmulatedBuffer' = Append(fEmulatedBuffer, w)
  BY DEF Buffer!TypeOK, Buffer!Push
<1>2. /\ fEmulatedBuffer' \in Seq(Words)
      /\ Len(fEmulatedBuffer') <= Capacity
      /\ fEmulatedBuffer' # <<>>
  BY <1>1, SizeAssumption
<1> QED
  BY <1>2 DEF Buffer!TypeOK, Buffer!Push

LEMMA NobodyWoken ==
  ASSUME Buffer!TypeOK, PurgeOrder, Buffer!NotifyOne("emulator")
  PROVE  /\ Buffer!TypeOK'
         /\ UNCHANGED <<fEmulatedBuffer, reading, request>>
<1>1. reading["user"] # "asleep"
  BY DEF PurgeOrder, Reading
<1>2. Buffer!Asleep = {}
  BY <1>1 DEF Buffer!Asleep
<1>3. reading' = [c \in {"user"} |-> reading[c]]
  BY <1>2 DEF Buffer!NotifyOne, Buffer!Woken
<1>4. reading' = reading
  BY <1>3 DEF Buffer!TypeOK
<1> QED
  BY <1>4 DEF Buffer!TypeOK, Buffer!NotifyOne

\* A new device has an empty buffer.
LEMMA BufferNew ==
  ASSUME Buffer!TypeOK, fEmulatedBuffer' = <<>>, notifying' \in {{}, notifying},
         UNCHANGED <<reading, request, word>>
  PROVE  Buffer!TypeOK'
<1>1. <<>> \in Seq(Words) /\ Len(<<>>) <= Capacity
  BY SizeAssumption
<1> QED
  BY <1>1 DEF Buffer!TypeOK
-----------------------------------------------------------------------------
(***************************************************************************)
(* The invariant.                                                          *)
(***************************************************************************)
\* A device that was never opened satisfies the invariant.
THEOREM Initially == Init => IInv
<1> SUFFICES ASSUME Init PROVE IInv
  OBVIOUS
<1>1. Buffer!TypeOK
  <2>1. <<>> \in Seq(Words) /\ Len(<<>>) <= Capacity
    BY SizeAssumption
  <2> QED
    BY <2>1 DEF Init, Buffer!Init, Buffer!TypeOK
<1>2. 0 \in 0..EventWords
  BY SizeAssumption
<1> QED
  BY <1>1, <1>2 DEF Init, Buffer!Init, IInv, TypeOK, CallOrder, PurgeOrder,
                    StopOrder, Reading

\* The calls of the user that begin, and those that end at once.
LEMMA CallsKeep ==
  ASSUME IInv,
         Open \/ WriteStart \/ (\E c \in {"SetRegister", "Stop"} : WriteStop(c))
         \/ Shutdown \/ Refresh
  PROVE  IInv'
<1> USE DEF IInv, TypeOK, Ready, CallOrder, StopOrder
<1>1. ASSUME UNCHANGED buffer
      PROVE  Buffer!TypeOK' /\ (Reading = "out" => PurgeOrder')
  BY <1>1 DEF buffer, Buffer!TypeOK, PurgeOrder, Reading
<1>2. call = "none" => Reading = "out"
  BY DEF PurgeOrder
<1>3. CASE Open
  BY <1>1, <1>2, <1>3 DEF Open, thread, user, buffer
<1>4. CASE WriteStart
  <2>1. 0 \in 0..EventWords
    BY SizeAssumption
  <2> QED
    BY <1>1, <1>2, <1>4, <2>1 DEF WriteStart, buffer
<1>5. ASSUME NEW c \in {"SetRegister", "Stop"}, WriteStop(c) PROVE IInv'
  BY <1>1, <1>2, <1>5 DEF WriteStop, thread, buffer
<1>6. CASE Shutdown
  BY <1>1, <1>2, <1>6 DEF Shutdown, device, thread, buffer
<1>7. CASE Refresh
  <2>1. CASE fEmulatorThread
    BY <1>1, <1>2, <1>7, <2>1 DEF Refresh, device, thread, buffer
  <2>2. CASE ~fEmulatorThread
    <3>1. Buffer!TypeOK'
      BY <1>7, <2>2, BufferNew DEF Refresh
    <3> QED
      BY <1>2, <1>7, <2>2, <3>1 DEF Refresh, thread, PurgeOrder, Reading
  <2> QED
    BY <2>1, <2>2
<1> QED
  BY <1>3, <1>4, <1>5, <1>6, <1>7

\* The join and the purge.
LEMMA UserKeeps ==
  ASSUME IInv, User
  PROVE  IInv'
<1> USE DEF IInv, TypeOK, CallOrder, StopOrder
<1>1. CASE Join
  <2>1. Buffer!TypeOK' /\ PurgeOrder'
    BY <1>1 DEF Join, buffer, Buffer!TypeOK, PurgeOrder, Reading
  <2>2. fEmulatorThread' = (emulator' # "none") /\ ~fEmulatorThread'
    BY <1>1 DEF Join, WaitsForThread, ThreadAfterJoin
  <2>3. /\ fEmulatorShouldStop' \in BOOLEAN
        /\ emulator' \in {"none", "loop", "event", "ended"}
        /\ UNCHANGED <<isOpen, fDevice, pushed, terminated>>
    BY <1>1 DEF Join
  <2>4. \/ call = "Stop" /\ step' = "purge" /\ UNCHANGED <<call, last>>
        \/ call = "SetRegister" /\ call' = "none" /\ step' = "none" /\ last' = call
    BY <1>1 DEF Join, Proceeds, Ends
  <2> QED
    BY <2>1, <2>2, <2>3, <2>4
<1>2. CASE PurgeStarts
  <2>1. /\ Buffer!TypeOK' /\ Reading' = "size"
        /\ request'["user"] = "purge"
        /\ UNCHANGED <<fEmulatedBuffer, notifying>>
    BY <1>2, PurgeBegun DEF PurgeStarts
  <2>2. step = "purge" /\ UNCHANGED <<device, thread, user, terminated>>
    BY <1>2 DEF PurgeStarts
  <2>3. PurgeOrder'
    BY <2>1, <2>2 DEF PurgeOrder, user
  <2> QED
    BY <2>1, <2>2, <2>3 DEF device, thread, user
<1>3. CASE PurgeSteps
  <2>1. Reading # "out"
    BY <1>3 DEF PurgeSteps, Buffer!Step, Buffer!Size, Buffer!Check,
                Buffer!LastCheck, Reading
  <2>2. /\ Buffer!TypeOK'
        /\ Reading' \in {"out", "size", "check"}
        /\ Reading' = "check" => fEmulatedBuffer' # <<>>
        /\ Reading' = "out" => fEmulatedBuffer' = <<>>
        /\ request'["user"] = "purge"
    BY <1>3, <2>1, PurgeStepped DEF PurgeSteps, PurgeOrder
  <2>3. /\ step = "purge"
        /\ UNCHANGED <<fDevice, fEmulatorThread, fEmulatorShouldStop>>
        /\ UNCHANGED <<emulator, pushed, terminated>>
    BY <1>3 DEF PurgeSteps, thread
  <2>4. CASE Reading' = "out"
    <3>1. /\ call' = "none" /\ step' = "none" /\ last' = call
          /\ isOpen' \in BOOLEAN
      BY <1>3, <2>4 DEF PurgeSteps, Ends, Reading
    <3>2. PurgeOrder'
      BY <2>2, <2>4 DEF PurgeOrder
    <3> QED
      BY <2>2, <2>3, <2>4, <3>1, <3>2
  <2>5. CASE Reading' # "out"
    <3>1. UNCHANGED <<call, step, last, isOpen>>
      BY <1>3, <2>5 DEF PurgeSteps, user, Reading
    <3>2. PurgeOrder'
      BY <2>2, <2>3, <3>1 DEF PurgeOrder
    <3> QED
      BY <2>2, <2>3, <3>1, <3>2
  <2> QED
    BY <2>4, <2>5
<1> QED
  BY <1>1, <1>2, <1>3 DEF User

\* The emulator pushes only while the device has its thread, so never between
\* the join of a Stop and the next start.
LEMMA EmulatorKeeps ==
  ASSUME IInv, Emulator
  PROVE  IInv'
<1> USE DEF IInv, TypeOK, CallOrder, StopOrder
<1>1. CASE Loop \/ EventEnds
  <2>1. Buffer!TypeOK' /\ PurgeOrder'
    BY <1>1 DEF Loop, EventEnds, buffer, user, Buffer!TypeOK, PurgeOrder, Reading
  <2>2. pushed' \in 0..EventWords
    BY <1>1, SizeAssumption DEF Loop, EventEnds
  <2> QED
    BY <1>1, <2>1, <2>2 DEF Loop, EventEnds, device, user, buffer
<1>2. CASE PushWord
  <2>1. /\ Buffer!TypeOK' /\ fEmulatedBuffer' # <<>>
        /\ UNCHANGED <<reading, request>>
    BY <1>2, WordPushed DEF PushWord, Words
  <2>2. /\ emulator = "event" /\ fEmulatorThread
        /\ UNCHANGED <<emulator, device, user, terminated>>
    BY <1>2 DEF PushWord
  <2>3. pushed' \in 0..EventWords
    BY <1>2, SizeAssumption DEF PushWord, EventDone
  <2>4. PurgeOrder'
    BY <2>1, <2>2 DEF PurgeOrder, Reading, user
  <2> QED
    BY <2>1, <2>2, <2>3, <2>4 DEF device, user
<1>3. CASE Notify
  <2>1. Buffer!TypeOK' /\ UNCHANGED <<fEmulatedBuffer, reading, request>>
    BY <1>3, NobodyWoken DEF Notify
  <2>2. UNCHANGED <<device, thread, user, terminated>>
    BY <1>3 DEF Notify
  <2>3. PurgeOrder'
    BY <2>1, <2>2 DEF PurgeOrder, Reading, user
  <2> QED
    BY <2>1, <2>2, <2>3 DEF device, thread, user
<1> QED
  BY <1>1, <1>2, <1>3 DEF Emulator

LEMMA RestartKeeps ==
  ASSUME IInv, Restart
  PROVE  IInv'
<1> USE DEF IInv, TypeOK
<1>1. Buffer!TypeOK'
  BY BufferNew DEF Restart
<1>2. 0 \in 0..EventWords
  BY SizeAssumption
<1>3. CallOrder' /\ StopOrder'
  BY DEF Restart, CallOrder, StopOrder
<1>4. PurgeOrder'
  BY DEF Restart, CallOrder, PurgeOrder, Reading
<1> QED
  BY <1>1, <1>2, <1>3, <1>4 DEF Restart

\* Every call of the user and every step of the emulator keeps it.
THEOREM Inductive == IInv /\ [Next]_vars => IInv'
<1> SUFFICES ASSUME IInv, [Next]_vars PROVE IInv'
  OBVIOUS
<1>1. CASE UNCHANGED vars
  BY <1>1 DEF vars, device, thread, user, buffer, IInv, TypeOK, CallOrder,
              PurgeOrder, StopOrder, Reading, Buffer!TypeOK
<1> QED
  BY <1>1, CallsKeep, UserKeeps, EmulatorKeeps, RestartKeeps DEF Next

\* So it holds at every moment of every behaviour.
THEOREM Invariance == Spec => []IInv
BY Initially, Inductive, PTL DEF Spec
-----------------------------------------------------------------------------
(***************************************************************************)
(* The properties.                                                         *)
(***************************************************************************)
\* The device has a thread object exactly as long as there is a thread: none is
\* left behind that nothing could join.
THEOREM TypeCorrect == Spec => []TypeOK
<1>1. IInv => TypeOK
  BY DEF IInv
<1> QED
  BY Invariance, <1>1, PTL

\* After a Stop, or a Shutdown of a stopped device, the buffer is empty until
\* the emulator is started again (DeviceInterface.hpp:73), for events of every
\* length and whatever was left of one when its thread was joined.
THEOREM StoppedEmpty == Spec => []StoppedIsEmpty
<1>1. IInv => StoppedIsEmpty
  BY DEF IInv, StopOrder, StoppedIsEmpty
<1> QED
  BY Invariance, <1>1, PTL

\* The purge pops without limit and never waits (EmulatedDevice.cxx:50-52).
THEOREM PurgeDoesNotWait == Spec => []PurgeNeverWaits
<1>1. IInv => PurgeNeverWaits
  BY DEF IInv, PurgeOrder, Reading, PurgeNeverWaits, Buffer!PurgeNeverWaits
<1> QED
  BY Invariance, <1>1, PTL
=============================================================================
