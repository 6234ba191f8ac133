--------------------------- MODULE PdtsSyncProofs ---------------------------
(***************************************************************************)
(* Theorems about PdtsSync for every set of targets and status values.     *)
(*                                                                         *)
(* Neither safety property is inductive: what a write does to the board is *)
(* safe only because of what the board already is at that point of the     *)
(* handler.  Order says, for each point, what the operations before it     *)
(* have established.                                                       *)
(***************************************************************************)
EXTENDS PdtsSync, TLAPS

\* The handler has not yet left its loop of at most MaxTries attempts.
InAttempt == pc \notin {"idle", "waitRunning", "synced", "configured"}

\* What the board is at each point of the handler, and what its copies are.
HandlerOrder ==
  /\ pc = "readClock" => seen.control = pdts_control
  /\ pc \in {"holdInReset", "readBack", "releaseReset", "selectExternal"}
       => ~DspExternal
  /\ pc \in {"readBack", "releaseReset"}
       => pdts_control = ControlWord(want, TRUE)
  /\ pc = "selectExternal" => pdts_control = ControlWord(want, FALSE)
  /\ pc \in {"checkStatus", "waitRunning", "synced", "configured"}
       => ControlMatches /\ DspExternal
  /\ pc # "idle" => want \in Targets
  /\ InAttempt => nTries < MaxTries

IInv == TypeOK /\ ClockFromReleasedEndpoint /\ HandlerOrder

\* Of the words written to select a clock, those that end in 1 are external; the
\* pulser mode of the wrapper is one of them.
LEMMA ClockFacts ==
  /\ 0 % 16 # 1
  /\ ClockInternal % 16 # 1
  /\ ClockExternal % 16 = 1
  /\ PulserMode % 16 = 1
BY DEF ClockInternal, ClockExternal, PulserMode

\* Both ways to leave the loop lead to one of two points.
LEMMA AfterSyncPlace ==
  ASSUME NEW s
  PROVE  AfterSync(s) \in {"synced", "waitRunning"}
BY DEF AfterSync

\* A control word for a target is a well-formed word.
LEMMA ControlWordType ==
  ASSUME NEW t \in Targets, NEW b \in BOOLEAN
  PROVE  /\ ControlWord(t, b) \in ControlWords
         /\ ControlWord(t, b).reset = b
         /\ ControlWord(t, b).part = t.part
         /\ ControlWord(t, b).addr = t.addr
<1>1. t \in [part : Partitions, addr : Addresses, iface : Nat]
  BY TargetAssumption
<1>2. t.part \in Partitions /\ t.addr \in Addresses
  BY <1>1
<1> QED
  BY <1>2 DEF ControlWord, ControlWords

\* Partitions are numbers the provers can count with.
LEMMA PartitionsNat == Partitions \subseteq Nat
BY SMT DEF Partitions

\* Two bits hold the partitions 0 to 3.
LEMMA SmallPartition ==
  ASSUME NEW p \in Partitions, p < 4
  PROVE  p % 4 = p
<1>1. p \in Nat
  BY PartitionsNat
<1> QED
  BY <1>1

\* The power-on values and the values the handler's copies start from.
LEMMA InitialWords ==
  /\ Unread \in [status : Nat, clock : Nat, control : ControlWords]
  /\ \A c \in [reset : BOOLEAN, part : {0}, addr : {0}] : c \in ControlWords
<1>1. 0 \in Partitions /\ 0 \in Addresses
  BY SMT DEF Partitions, Addresses
<1> QED
  BY <1>1 DEF Unread, ControlWords
-----------------------------------------------------------------------------
\* The invariant holds when the process starts on a board after power-on.
THEOREM Initially == Init => IInv
<1> SUFFICES ASSUME Init PROVE IInv
  OBVIOUS
<1>1. TypeOK
  BY InitialWords DEF Init, TypeOK, MaxTries
<1>2. ClockFromReleasedEndpoint
  BY ClockFacts DEF Init, ClockFromReleasedEndpoint, DspExternal
<1>3. HandlerOrder
  BY DEF Init, HandlerOrder, InAttempt
<1> QED
  BY <1>1, <1>2, <1>3 DEF IInv

\* A read touches no register and keeps the target; it ends at next with the
\* given copies, or throws.
LEMMA ReadStep ==
  ASSUME NEW at, NEW next, NEW copy, Read(at, next, copy), IInv,
         next \in {"readControl", "readClock", "selectInternal",
                  "releaseReset", "waitRunning", "synced"},
         copy \in [status : Nat, clock : Nat, control : ControlWords],
         next = "readClock" => copy.control = pdts_control,
         next = "releaseReset" => pc = "readBack",
         next \in {"waitRunning", "synced"} => ControlMatches /\ DspExternal,
         next \notin {"waitRunning", "synced"} => InAttempt,
         want \in Targets
  PROVE  IInv'
<1>1. /\ pc' \in {next, "idle"}
      /\ UNCHANGED <<pdts_status, pdts_control, dsp_clock_control>>
      /\ UNCHANGED <<want, nTries, lastDone>>
      /\ seen' \in {seen, copy}
      /\ pc' = next /\ next # "idle" => seen' = copy
  BY DEF Read, Throw, board
<1>2. TypeOK'
  BY <1>1 DEF IInv, TypeOK
<1>3. ClockFromReleasedEndpoint'
  BY <1>1 DEF IInv, ClockFromReleasedEndpoint, DspExternal
<1>4. HandlerOrder'
  BY <1>1 DEF IInv, HandlerOrder, InAttempt, DspExternal, ControlMatches
<1> QED
  BY <1>2, <1>3, <1>4 DEF IInv

\* A write to the clock word: it changes that word at most, to value.
LEMMA WriteClockStep ==
  ASSUME NEW at, NEW next, NEW value, WriteClock(at, next, value), IInv,
         value \in {ClockInternal, ClockExternal},
         <<next, value>> \in {<<"holdInReset", ClockInternal>>,
                             <<"checkStatus", ClockExternal>>},
         value = ClockExternal => pc = "selectExternal",
         InAttempt,
         want \in Targets
  PROVE  IInv'
<1>1. /\ pc' \in {next, "idle"}
      /\ pc' = next => dsp_clock_control' = value
      /\ dsp_clock_control' \in {dsp_clock_control, value}
      /\ UNCHANGED <<pdts_status, pdts_control, want, seen, nTries>>
      /\ lastDone' = NoTarget
  BY DEF WriteClock, Throw
<1>2. TypeOK'
  BY <1>1 DEF IInv, TypeOK
<1>3. value = ClockExternal
        => ~pdts_control.reset /\ ControlMatches
  BY ControlWordType DEF IInv, HandlerOrder, ControlMatches
<1>4. ClockFromReleasedEndpoint'
  BY <1>1, <1>3, ClockFacts
     DEF IInv, ClockFromReleasedEndpoint, DspExternal
<1>5. HandlerOrder'
  BY <1>1, <1>3, ClockFacts
     DEF IInv, HandlerOrder, InAttempt, DspExternal, ControlMatches
<1> QED
  BY <1>2, <1>4, <1>5 DEF IInv

\* A write to the endpoint's control word, with the DSP on its own clock.
LEMMA WriteControlStep ==
  ASSUME NEW at, NEW next, NEW reset \in BOOLEAN, IInv,
         WriteControl(at, next, ControlWord(want, reset)),
         \/ next = "readBack" /\ reset = TRUE
         \/ next = "selectExternal" /\ reset = FALSE,
         ~DspExternal,
         InAttempt,
         want \in Targets
  PROVE  IInv'
<1> DEFINE word == ControlWord(want, reset)
<1>1. /\ pc' \in {next, "idle"}
      /\ pc' = next => pdts_control' = word
      /\ pdts_control' \in {pdts_control, word}
      /\ UNCHANGED <<pdts_status, dsp_clock_control, want, seen, nTries>>
      /\ lastDone' = NoTarget
  BY DEF WriteControl, Throw
<1>a. word \in ControlWords
  BY ControlWordType
<1>2. TypeOK'
  BY <1>1, <1>a DEF IInv, TypeOK
<1>3. ~DspExternal'
  BY <1>1 DEF DspExternal
<1>4. ClockFromReleasedEndpoint'
  BY <1>3 DEF ClockFromReleasedEndpoint
<1>5. pc' = next => pdts_control' = ControlWord(want', reset)
  BY <1>1 DEF ControlWord
<1>6. HandlerOrder'
  BY <1>1, <1>3, <1>5 DEF IInv, HandlerOrder, InAttempt
<1> QED
  BY <1>2, <1>4, <1>6 DEF IInv
-----------------------------------------------------------------------------
\* Every operation of the handler, every failure and every move of the endpoint
\* keeps the invariant.
THEOREM Inductive == IInv /\ [Next]_vars => IInv'
<1> SUFFICES ASSUME IInv, [Next]_vars PROVE IInv'
  OBVIOUS
<1>w. pc # "idle" => want \in Targets
  BY DEF IInv, HandlerOrder
<1>s. pdts_status \in Nat
  BY StatusAssumption DEF IInv, TypeOK
<1>c. pdts_control \in ControlWords /\ dsp_clock_control \in Nat
  BY DEF IInv, TypeOK, ClockInternal, ClockExternal, PulserMode
<1>1. ASSUME NEW t \in Targets, Configure(t) PROVE IInv'
  <2>1. TypeOK'
    BY <1>1, InitialWords DEF Configure, IInv, TypeOK, board, MaxTries
  <2>2. ClockFromReleasedEndpoint'
    BY <1>1 DEF Configure, IInv, ClockFromReleasedEndpoint, DspExternal, board
  <2>3. HandlerOrder'
    BY <1>1 DEF Configure, HandlerOrder, InAttempt, MaxTries, board
  <2> QED
    BY <2>1, <2>2, <2>3 DEF IInv
<1>2. CASE /\ \/ Throw
              \/ /\ pc = "open"
                 /\ pc' = "readStatus"
                 /\ UNCHANGED <<want, seen, nTries>>
           /\ pc # "idle"
           /\ UNCHANGED <<board, lastDone>>
  <2>1. TypeOK'
    BY <1>2 DEF Throw, IInv, TypeOK, board
  <2>2. ClockFromReleasedEndpoint'
    BY <1>2 DEF Throw, IInv, ClockFromReleasedEndpoint, DspExternal, board
  <2>3. HandlerOrder'
    BY <1>2, <1>w DEF Throw, IInv, HandlerOrder, InAttempt, board
  <2> QED
    BY <2>1, <2>2, <2>3 DEF IInv
<1>3. CASE RefuseInterface
  BY <1>2, <1>3 DEF RefuseInterface
<1>4. CASE OpenDevice
  BY <1>2, <1>4 DEF OpenDevice, Throw
<1>5. CASE Abandon
  BY <1>2, <1>5 DEF Abandon
<1>6. CASE ReadStatus
  <2>1. pc = "readStatus"
    BY <1>6 DEF ReadStatus, Read
  <2>2. [seen EXCEPT !.status = pdts_status]
           \in [status : Nat, clock : Nat, control : ControlWords]
    BY <1>s DEF IInv, TypeOK
  <2> QED
    BY <1>6, <1>w, <2>1, <2>2, ReadStep DEF ReadStatus, InAttempt
<1>7. CASE ReadControl
  <2> DEFINE copy == [seen EXCEPT !.control = pdts_control]
  <2>1. pc = "readControl"
    BY <1>7 DEF ReadControl, Read
  <2>2. /\ copy \in [status : Nat, clock : Nat, control : ControlWords]
        /\ copy.control = pdts_control
    BY <1>c DEF IInv, TypeOK
  <2> HIDE DEF copy
  <2>3. Read("readControl", "readClock", copy)
    BY <1>7 DEF ReadControl, copy
  <2> QED
    BY <1>w, <2>1, <2>2, <2>3, ReadStep DEF InAttempt
<1>8. CASE ReadClock
  <2> DEFINE copy == [seen EXCEPT !.clock = dsp_clock_control]
             next == IF LooksSynced(copy, want) THEN AfterSync(copy.status)
                                                ELSE "selectInternal"
  <2>1. pc = "readClock"
    BY <1>8 DEF ReadClock, Read
  <2>2. /\ copy \in [status : Nat, clock : Nat, control : ControlWords]
        /\ copy.control = pdts_control
        /\ copy.clock = dsp_clock_control
    BY <1>c, <2>1 DEF IInv, TypeOK, HandlerOrder
  <2>3. Read("readClock", next, copy)
    BY <1>8 DEF ReadClock
  <2> HIDE DEF copy
  <2>4. ASSUME LooksSynced(copy, want) PROVE ControlMatches /\ DspExternal
    <3>1. pdts_control.part \in Nat
      BY <1>c, PartitionsNat DEF ControlWords
    <3>2. (pdts_control.part % 4) % 4 = pdts_control.part % 4
      BY <3>1
    <3> QED
      BY <2>2, <2>4, <3>2
         DEF LooksSynced, ControlMatches, DspExternal, OnExternalClock
  <2>5. next \in {"selectInternal", "waitRunning", "synced"}
    BY AfterSyncPlace
  <2>6. next \in {"waitRunning", "synced"} => ControlMatches /\ DspExternal
    BY <2>4
  <2> HIDE DEF next
  <2> QED
    BY <1>w, <2>1, <2>2, <2>3, <2>5, <2>6, ReadStep DEF InAttempt
<1>9. CASE SelectInternal
  <2>1. pc = "selectInternal"
    BY <1>9 DEF SelectInternal, WriteClock
  <2> QED
    BY <1>9, <1>w, <2>1, WriteClockStep
       DEF SelectInternal, ClockInternal, ClockExternal, InAttempt
<1>10. CASE HoldInReset
  <2>1. pc = "holdInReset" /\ ~DspExternal
    BY <1>10 DEF HoldInReset, WriteControl, IInv, HandlerOrder
  <2> QED
    BY <1>10, <1>w, <2>1, WriteControlStep DEF HoldInReset, InAttempt
<1>11. CASE ReadBack
  <2>1. pc = "readBack"
    BY <1>11 DEF ReadBack, Read
  <2>2. seen \in [status : Nat, clock : Nat, control : ControlWords]
    BY DEF IInv, TypeOK
  <2> QED
    BY <1>11, <1>w, <2>1, <2>2, ReadStep DEF ReadBack, InAttempt
<1>12. CASE ReleaseReset
  <2>1. pc = "releaseReset" /\ ~DspExternal
    BY <1>12 DEF ReleaseReset, WriteControl, IInv, HandlerOrder
  <2> QED
    BY <1>12, <1>w, <2>1, WriteControlStep DEF ReleaseReset, InAttempt
<1>13. CASE SelectExternal
  <2>1. pc = "selectExternal"
    BY <1>13 DEF SelectExternal, WriteClock
  <2> QED
    BY <1>13, <1>w, <2>1, WriteClockStep DEF SelectExternal, InAttempt
<1>14. CASE CheckStatus
  <2>1. /\ pc = "checkStatus"
        /\ pc' \in {"synced", "waitRunning", "selectInternal", "idle"}
        /\ UNCHANGED <<pdts_status, pdts_control, dsp_clock_control>>
        /\ UNCHANGED <<want, lastDone>>
        /\ seen' \in {seen, [seen EXCEPT !.status = pdts_status]}
    BY <1>14, AfterSyncPlace DEF CheckStatus, TriesLeft, Throw, board
  <2>2. seen' \in [status : Nat, clock : Nat, control : ControlWords]
    BY <1>s, <2>1 DEF IInv, TypeOK
  <2>3. nTries' \in 0..MaxTries /\ (pc' = "selectInternal" => nTries' < MaxTries)
    <3>1. nTries \in 0..MaxTries /\ nTries < MaxTries
      BY <2>1 DEF IInv, TypeOK, HandlerOrder, InAttempt
    <3>2. CASE Throw
      BY <3>1, <3>2 DEF Throw
    <3>3. CASE Locked(pdts_status) /\ UNCHANGED nTries
      BY <3>1, <3>3
    <3>4. CASE /\ nTries' = nTries + 1
               /\ pc' = IF TriesLeft(nTries + 1) THEN "selectInternal"
                                                 ELSE "waitRunning"
      BY <3>1, <3>4 DEF TriesLeft, MaxTries
    <3> QED
      BY <1>14, <3>2, <3>3, <3>4 DEF CheckStatus
  <2>4. TypeOK'
    BY <2>1, <2>2, <2>3 DEF IInv, TypeOK
  <2>5. ClockFromReleasedEndpoint'
    BY <2>1 DEF IInv, ClockFromReleasedEndpoint, DspExternal
  <2>6. HandlerOrder'
    BY <1>w, <2>1, <2>3
       DEF IInv, HandlerOrder, InAttempt, DspExternal, ControlMatches
  <2> QED
    BY <2>4, <2>5, <2>6 DEF IInv
<1>15. CASE WaitRunning
  <2> DEFINE copy == [seen EXCEPT !.status = pdts_status]
             next == AfterSync(pdts_status)
  <2>1. pc = "waitRunning" /\ ControlMatches /\ DspExternal
    BY <1>15 DEF WaitRunning, Read, IInv, HandlerOrder
  <2>2. copy \in [status : Nat, clock : Nat, control : ControlWords]
    BY <1>s DEF IInv, TypeOK
  <2>3. next \in {"synced", "waitRunning"}
    BY AfterSyncPlace
  <2>4. Read("waitRunning", next, copy)
    BY <1>15 DEF WaitRunning
  <2> HIDE DEF copy, next
  <2> QED
    BY <1>w, <2>1, <2>2, <2>3, <2>4, ReadStep
<1>16. CASE SetPulserMode
  <2>1. /\ pc = "synced"
        /\ pc' \in {"configured", "idle"}
        /\ pc' = "configured" => dsp_clock_control' = PulserMode
        /\ dsp_clock_control' \in {dsp_clock_control, PulserMode}
        /\ UNCHANGED <<pdts_status, pdts_control, want, seen, nTries>>
        /\ lastDone' \in {want, NoTarget}
    BY <1>16 DEF SetPulserMode, Throw
  <2>2. TypeOK'
    BY <2>1 DEF IInv, TypeOK
  <2>3. ControlMatches /\ DspExternal /\ ~pdts_control.reset
    BY <2>1 DEF IInv, HandlerOrder, ClockFromReleasedEndpoint
  <2>4. ClockFromReleasedEndpoint'
    BY <2>1, <2>3 DEF ClockFromReleasedEndpoint
  <2>5. HandlerOrder'
    BY <1>w, <2>1, <2>3, ClockFacts
       DEF HandlerOrder, InAttempt, DspExternal, ControlMatches
  <2> QED
    BY <2>2, <2>4, <2>5 DEF IInv
<1>17. CASE EndpointMoves
  <2>1. TypeOK'
    BY <1>17 DEF EndpointMoves, handler, IInv, TypeOK
  <2>2. ClockFromReleasedEndpoint'
    BY <1>17
       DEF EndpointMoves, IInv, ClockFromReleasedEndpoint, DspExternal
  <2>3. HandlerOrder'
    BY <1>17 DEF EndpointMoves, handler, IInv, HandlerOrder, InAttempt, DspExternal,
                 ControlMatches
  <2> QED
    BY <2>1, <2>2, <2>3 DEF IInv
<1>18. CASE UNCHANGED vars
  BY <1>18, ZenonT(60) DEF vars, board, handler, IInv, TypeOK, HandlerOrder, InAttempt, DspExternal,
               ClockFromReleasedEndpoint, ControlMatches
<1> QED
  BY <1>1, <1>3, <1>4, <1>5, <1>6, <1>7, <1>8, <1>9, <1>10, <1>11, <1>12,
     <1>13, <1>14, <1>15, <1>16, <1>17, <1>18 DEF Next, SyncStep
-----------------------------------------------------------------------------
\* The invariant holds throughout, and what follows from it with it.
THEOREM Invariance == Spec => []IInv
BY Initially, Inductive, PTL DEF Spec

\* Every variable has its type, and the attempts of a call never exceed five.
THEOREM TypeCorrect == Spec => []TypeOK
<1>1. IInv => TypeOK
  BY DEF IInv
<1> QED
  BY Invariance, <1>1, PTL

\* Wherever a conf stopped, the DSP does not run from the clock of an endpoint
\* held in reset.
THEOREM ClockSafe == Spec => []ClockFromReleasedEndpoint
<1>1. IInv => ClockFromReleasedEndpoint
  BY DEF IInv
<1> QED
  BY Invariance, <1>1, PTL

\* A conf that got through the synchronisation left the board on its target.
THEOREM TargetReached == Spec => []SyncedToTarget
<1>1. IInv => SyncedToTarget
  BY DEF IInv, HandlerOrder, ClockFromReleasedEndpoint, SyncedToTarget
<1> QED
  BY Invariance, <1>1, PTL
-----------------------------------------------------------------------------
\* What the board keeps of the conf that last left it ready, and what the
\* handler knows when it decides for a reset before its first attempt.
Remembered ==
  /\ lastDone # NoTarget =>
       /\ pdts_control.addr = lastDone.addr
       /\ pdts_control.part % 4 = lastDone.part % 4
       /\ DspExternal
  /\ pc = "selectInternal" /\ nTries = 0 =>
       /\ ~LooksSynced(seen, want)
       /\ seen.control = pdts_control
       /\ seen.clock = dsp_clock_control

\* What the handler remembers of a board that an earlier conf left ready stays
\* true while it reads.
LEMMA RememberedInductive == IInv /\ Remembered /\ [Next]_vars => Remembered'
<1> SUFFICES ASSUME IInv, Remembered, [Next]_vars PROVE Remembered'
  OBVIOUS
<1> USE DEF Throw
\* Every write but the last clears the memory and is followed by no decision.
<1>1. ASSUME NEW at, NEW next, NEW value, next # "selectInternal",
             \/ WriteClock(at, next, value)
             \/ WriteControl(at, next, value)
      PROVE  Remembered'
  BY <1>1 DEF WriteClock, WriteControl, Remembered
<1>2. CASE SelectInternal \/ SelectExternal
  BY <1>1, <1>2 DEF SelectInternal, SelectExternal
<1>3. CASE HoldInReset \/ ReleaseReset
  BY <1>1, <1>3 DEF HoldInReset, ReleaseReset
\* Reads and moves leave the board's registers alone.
<1>4. ASSUME UNCHANGED <<pdts_control, dsp_clock_control, lastDone>>,
             ~(pc' = "selectInternal" /\ nTries' = 0)
      PROVE  Remembered'
  BY <1>4 DEF Remembered, DspExternal
<1>5. CASE RefuseInterface \/ OpenDevice \/ Abandon
           \/ (\E t \in Targets : Configure(t))
  BY <1>4, <1>5 DEF RefuseInterface, OpenDevice, Abandon, Configure, board
<1>6. CASE ReadStatus \/ ReadControl \/ ReadBack
  BY <1>4, <1>6 DEF ReadStatus, ReadControl, ReadBack, Read, board
<1>7. CASE WaitRunning
  BY <1>4, <1>7, AfterSyncPlace DEF WaitRunning, Read, board
<1>8. CASE CheckStatus
  <2>1. nTries \in Nat
    BY DEF IInv, TypeOK, MaxTries
  <2> QED
    BY <1>4, <1>8, <2>1, AfterSyncPlace DEF CheckStatus, board
<1>9. CASE ReadClock
  <2> DEFINE copy == [seen EXCEPT !.clock = dsp_clock_control]
             next == IF LooksSynced(copy, want) THEN AfterSync(copy.status)
                                                ELSE "selectInternal"
  <2>1. /\ pc = "readClock"
        /\ UNCHANGED <<pdts_control, dsp_clock_control, lastDone, want>>
        /\ \/ pc' = next /\ seen' = copy
           \/ pc' = "idle"
    BY <1>9 DEF ReadClock, Read, board
  <2>2. copy.control = pdts_control /\ copy.clock = dsp_clock_control
    BY <2>1 DEF IInv, TypeOK, HandlerOrder
  <2> HIDE DEF copy
  <2>3. CASE pc' = next /\ seen' = copy /\ ~LooksSynced(copy, want)
    <3>1. ~LooksSynced(seen', want')
      BY <2>1, <2>3
    <3> QED
      BY <2>1, <2>2, <2>3, <3>1 DEF Remembered, DspExternal
  <2>4. CASE pc' = next /\ LooksSynced(copy, want)
    BY <1>4, <2>1, <2>4, AfterSyncPlace
  <2>5. CASE pc' = "idle"
    BY <1>4, <2>1, <2>5
  <2> QED
    BY <2>1, <2>3, <2>4, <2>5
<1>10. CASE SetPulserMode
  BY <1>10, ClockFacts
     DEF SetPulserMode, Remembered, IInv, HandlerOrder, ControlMatches,
         DspExternal
<1>11. CASE EndpointMoves
  BY <1>11 DEF EndpointMoves, handler, Remembered, DspExternal
<1>12. CASE UNCHANGED vars
  BY <1>12 DEF vars, board, handler, Remembered, DspExternal
<1> QED
  BY <1>2, <1>3, <1>5, <1>6, <1>7, <1>8, <1>9, <1>10, <1>11, <1>12
     DEF Next, SyncStep

\* At a reset that follows no failed attempt, the board is not one that an
\* earlier conf left ready for this target with its endpoint still locked.
THEOREM ReadyBoardKept == Spec => []NoNeedlessReset
<1>1. Init => Remembered
  BY DEF Init, Remembered
<1>2. IInv /\ Remembered => NoNeedlessReset
  <2> SUFFICES ASSUME IInv, Remembered, pc = "selectInternal", nTries = 0,
                      lastDone = want, want.part < 4, Locked(seen.status)
               PROVE  FALSE
    BY DEF NoNeedlessReset
  <2>1. want \in Targets /\ want.part \in Partitions
    BY TargetAssumption DEF IInv, HandlerOrder
  <2>2. want # NoTarget
    <3>1. NoTarget.part \notin Partitions
      BY SMT DEF NoTarget, Partitions
    <3> QED
      BY <2>1, <3>1
  <2>3. want.part % 4 = want.part
    BY <2>1, SmallPartition
  <2> QED
    BY <2>2, <2>3 DEF Remembered, LooksSynced, DspExternal, OnExternalClock
<1> QED
  BY Invariance, RememberedInductive, <1>1, <1>2, PTL DEF Spec
-----------------------------------------------------------------------------
\* The setting a target stands for is one TimingBoard allows.
LEMMA SettingOfTarget ==
  ASSUME NEW t \in Targets, NEW b \in BOOLEAN
  PROVE  [part |-> ControlWord(t, b).part, addr |-> ControlWord(t, b).addr]
            \in {[part |-> u.part, addr |-> u.addr] : u \in Targets}
                 \cup {[part |-> 0, addr |-> 0]}
BY DEF ControlWord

\* A step of the handler is a step of TimingBoard or changes nothing it sees.
LEMMA StepMapped == IInv /\ [Next]_vars => [Board!Next]_(Board!vars)
<1> SUFFICES ASSUME IInv, [Next]_vars PROVE [Board!Next]_(Board!vars)
  OBVIOUS
<1> USE DEF Throw, DspExternal
<1>1. CASE UNCHANGED <<pdts_control, dsp_clock_control>>
  BY <1>1 DEF Board!vars
<1>2. CASE SelectInternal
  BY <1>2, ClockFacts
     DEF SelectInternal, WriteClock, Board!Next, Board!SwitchToInternal,
         Board!vars
<1>3. CASE SelectExternal
  <2>1. ~pdts_control.reset
    BY <1>3, ControlWordType
       DEF SelectExternal, WriteClock, IInv, HandlerOrder
  <2> QED
    BY <1>3, <2>1, ClockFacts
       DEF SelectExternal, WriteClock, Board!Next, Board!SwitchToExternal,
           Board!vars
<1>4. CASE HoldInReset /\ pdts_control' # pdts_control
  <2> DEFINE word == ControlWord(want, TRUE)
             to   == [part |-> word.part, addr |-> word.addr]
  <2>1. /\ want \in Targets
        /\ dsp_clock_control % 16 # 1
        /\ UNCHANGED dsp_clock_control
        /\ pdts_control' = word
    BY <1>4 DEF HoldInReset, WriteControl, IInv, HandlerOrder
  <2>2. word.reset = TRUE
    BY <2>1, ControlWordType
  <2>3. to \in {[part |-> u.part, addr |-> u.addr] : u \in Targets}
                \cup {[part |-> 0, addr |-> 0]}
    BY <2>1, SettingOfTarget
  <2> HIDE DEF word
  <2>4. Board!HoldInReset(to)
    BY <2>1, <2>2 DEF Board!HoldInReset
  <2> QED
    BY <2>3, <2>4 DEF Board!Next
<1>5. CASE ReleaseReset /\ pdts_control' # pdts_control
  <2>1. /\ want \in Targets
        /\ dsp_clock_control % 16 # 1
        /\ UNCHANGED dsp_clock_control
        /\ pdts_control = ControlWord(want, TRUE)
        /\ pdts_control' = ControlWord(want, FALSE)
    BY <1>5 DEF ReleaseReset, WriteControl, IInv, HandlerOrder
  <2>2. /\ pdts_control.reset
        /\ ~pdts_control'.reset
        /\ pdts_control'.part = pdts_control.part
        /\ pdts_control'.addr = pdts_control.addr
    BY <2>1 DEF ControlWord
  <2>3. Board!ReleaseReset
    BY <2>1, <2>2 DEF Board!ReleaseReset
  <2> QED
    BY <2>3 DEF Board!Next
<1>9. CASE /\ HoldInReset \/ ReleaseReset
           /\ pdts_control' = pdts_control
  BY <1>1, <1>9 DEF HoldInReset, ReleaseReset, WriteControl
<1>6. CASE SetPulserMode
  <2>1. DspExternal
    BY <1>6 DEF SetPulserMode, IInv, HandlerOrder
  <2> QED
    BY <1>6, <2>1, ClockFacts DEF SetPulserMode, Board!vars
<1>7. CASE \/ (\E t \in Targets : Configure(t))
           \/ RefuseInterface \/ OpenDevice \/ CheckStatus
           \/ Abandon \/ EndpointMoves \/ UNCHANGED vars
  BY <1>1, <1>7 DEF Configure, RefuseInterface, OpenDevice, CheckStatus,
                    Abandon, EndpointMoves, vars, board
<1>8. CASE ReadStatus \/ ReadControl \/ ReadClock \/ ReadBack \/ WaitRunning
  BY <1>1, <1>8 DEF ReadStatus, ReadControl, ReadClock, ReadBack, WaitRunning,
                    Read, board
<1> QED
  BY <1>2, <1>3, <1>4, <1>5, <1>6, <1>7, <1>8, <1>9 DEF Next, SyncStep

\* Whatever fails or restarts, the board only goes through the steps of
\* TimingBoard.
THEOREM Refinement == Spec => ImplementsTimingBoard
<1>1. Init => Board!Init
  BY ClockFacts DEF Init, Board!Init, DspExternal
<1> QED
  BY Invariance, StepMapped, <1>1, PTL
     DEF Spec, ImplementsTimingBoard, Board!Spec
=============================================================================
