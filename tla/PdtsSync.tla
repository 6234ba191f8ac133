------------------------------ MODULE PdtsSync ------------------------------
(***************************************************************************)
(* DeviceInterface::ConfigureLEDCalib: how a conf command brings the       *)
(* timing endpoint (PDTS) of an SSP board to the wanted partition and      *)
(* address and the DSP onto the endpoint's clock, one register operation   *)
(* per step.                                                               *)
(*                                                                         *)
(* The board outlives the process.  Any register operation may throw, a    *)
(* write before or after it reached the board, and the process may die     *)
(* between two operations; both leave the board as it is and the next      *)
(* conf starts from there.  The endpoint's status register is hardware and *)
(* may change at any time, to any value.                                   *)
(*                                                                         *)
(* The 32-bit pdts_control word is kept as its fields: bit 31 (reset),     *)
(* bits 16 to 23 (addr), bits 0 to 15 (part).  The code reads back only    *)
(* the two lowest bits of the partition.                                   *)
(***************************************************************************)
EXTENDS Naturals

CONSTANTS Targets,       \* the [part, addr, iface] a conf command can carry
          StatusValues   \* what the pdts_status register can read

Partitions == 0..65535
Addresses  == 0..255

\* The schema bounds neither field; the wrapper refuses addresses above 0xFF
\* and leaves the partition unchecked.  A partition of more than 16 bits would
\* carry into the address field of the word, and is left out.
ASSUME TargetAssumption ==
  Targets \subseteq [part : Partitions, addr : Addresses, iface : Nat]

ASSUME StatusAssumption == StatusValues \subseteq Nat

VARIABLES pdts_status,         \* board: state of the timing endpoint
          pdts_control,        \* board: fields of the endpoint control word
          dsp_clock_control,   \* board: clock selection word of the DSP
          pc,                  \* next register operation of the handler
          want,                \* fPartitionNumber, fTimingAddress, interface
          seen,                \* the handler's local copies of the registers
          nTries,              \* attempts to synchronise so far
          lastDone             \* history: the target the board was last left
                               \* ready for, or NoTarget

board == <<pdts_status, pdts_control, dsp_clock_control>>
handler == <<pc, want, seen, nTries>>
vars == <<board, handler, lastDone>>

NoTarget == [part |-> 65536, addr |-> 0, iface |-> 0]

MaxTries == 5
ClockInternal == 48      \* 0x30
ClockExternal == 49      \* 0x31
PulserMode    == 17      \* 0x11, written to the same word by the wrapper

(***************************************************************************)
(* The predicates the handler decides with.                                *)
(***************************************************************************)
Locked(status)  == status % 16 \in 6..8
Running(status) == status % 16 = 8

\* Mutants: only the exact value 0x31 counts as an external clock (the test
\* the code had before); the upper bits of the status are not masked off.
OnExternalClockExact(clock) == clock = 49
OnExternalClock(clock) == clock % 16 = 1

\* Mutant: the address is not compared.
LooksSyncedAnyAddress(s, t) ==
  /\ Locked(s.status)
  /\ s.control.part % 4 = t.part
  /\ OnExternalClock(s.clock)
LooksSynced(s, t) ==
  /\ Locked(s.status)
  /\ s.control.addr = t.addr
  /\ s.control.part % 4 = t.part
  /\ OnExternalClock(s.clock)

ControlMatches == /\ pdts_control.addr = want.addr
                  /\ pdts_control.part % 4 = want.part % 4

ControlWords == [reset : BOOLEAN, part : Partitions, addr : Addresses]
ControlWord(t, reset) == [reset |-> reset, part |-> t.part, addr |-> t.addr]

\* Where the handler goes once it no longer tries to synchronise.
AfterSync(status) == IF Running(status) THEN "synced" ELSE "waitRunning"
-----------------------------------------------------------------------------
Unread == [status |-> 0, clock |-> 0,
           control |-> [reset |-> FALSE, part |-> 0, addr |-> 0]]

Init == /\ pdts_status \in StatusValues
        /\ pdts_control \in [reset : BOOLEAN, part : {0}, addr : {0}]
        /\ dsp_clock_control = 0
        /\ pc = "idle"
        /\ want = NoTarget
        /\ seen = Unread
        /\ nTries = 0
        /\ lastDone = NoTarget

\* conf reaches ConfigureLEDCalib with partition and address set.
Configure(t) == /\ pc = "idle"
                /\ pc' = "open"
                /\ want' = t
                /\ seen' = Unread
                /\ nTries' = 0
                /\ UNCHANGED <<board, lastDone>>

\* The call, or a register operation in it, throws: conf ends.
Throw == /\ pc' = "idle"
         /\ UNCHANGED <<want, seen, nTries>>

\* Only interface type 1 (Ethernet) is accepted.
RefuseInterface == /\ pc = "open"
                   /\ want.iface # 1
                   /\ Throw
                   /\ UNCHANGED <<board, lastDone>>

\* DeviceManager::OpenDevice returns a device or throws.
OpenDevice == /\ pc = "open"
              /\ want.iface = 1
              /\ \/ pc' = "readStatus" /\ UNCHANGED <<want, seen, nTries>>
                 \/ Throw
              /\ UNCHANGED <<board, lastDone>>

Read(at, next, copy) ==
  /\ pc = at
  /\ \/ /\ pc' = next
        /\ seen' = copy
        /\ UNCHANGED <<want, nTries>>
     \/ Throw
  /\ UNCHANGED <<board, lastDone>>

ReadStatus == Read("readStatus", "readControl",
                   [seen EXCEPT !.status = pdts_status])

ReadControl == Read("readControl", "readClock",
                    [seen EXCEPT !.control = pdts_control])

ReadClock ==
  LET copy == [seen EXCEPT !.clock = dsp_clock_control]
  IN  Read("readClock",
           IF LooksSynced(copy, want) THEN AfterSync(copy.status)
                                      ELSE "selectInternal",
           copy)

\* A write that succeeds leads to next; one that throws ends the call, and the
\* board may or may not have taken the value.
WriteClock(at, next, value) ==
  /\ pc = at
  /\ \/ /\ pc' = next
        /\ dsp_clock_control' = value
        /\ UNCHANGED <<want, seen, nTries>>
     \/ /\ Throw
        /\ dsp_clock_control' \in {dsp_clock_control, value}
  /\ lastDone' = NoTarget
  /\ UNCHANGED <<pdts_status, pdts_control>>

WriteControl(at, next, value) ==
  /\ pc = at
  /\ \/ /\ pc' = next
        /\ pdts_control' = value
        /\ UNCHANGED <<want, seen, nTries>>
     \/ /\ Throw
        /\ pdts_control' \in {pdts_control, value}
  /\ lastDone' = NoTarget
  /\ UNCHANGED <<pdts_status, dsp_clock_control>>

\* Mutant: the DSP is left on the endpoint's clock through the reset.
SelectInternalSkipped == WriteClock("selectInternal", "holdInReset",
                                    dsp_clock_control)
SelectInternal == WriteClock("selectInternal", "holdInReset", ClockInternal)

HoldInReset == WriteControl("holdInReset", "readBack", ControlWord(want, TRUE))

\* Three reads whose values are only logged: they matter by failing.
ReadBack == Read("readBack", "releaseReset", seen)

\* Mutant: the reset bit is not taken back.
ReleaseResetForgotten == WriteControl("releaseReset", "selectExternal",
                                      ControlWord(want, TRUE))
ReleaseReset == WriteControl("releaseReset", "selectExternal",
                             ControlWord(want, FALSE))

SelectExternal == WriteClock("selectExternal", "checkStatus", ClockExternal)

\* Mutant: one attempt more.
TriesLeftOneMore(n) == n <= MaxTries
TriesLeft(n) == n < MaxTries

\* The end of one attempt: leave the loop, or count it and try again.
CheckStatus ==
  /\ pc = "checkStatus"
  /\ \/ /\ seen' = [seen EXCEPT !.status = pdts_status]
        /\ IF Locked(pdts_status)
             THEN pc' = AfterSync(pdts_status) /\ UNCHANGED nTries
             ELSE /\ nTries' = nTries + 1
                  /\ pc' = IF TriesLeft(nTries + 1) THEN "selectInternal"
                                                    ELSE "waitRunning"
        /\ UNCHANGED want
     \/ Throw
  /\ UNCHANGED <<board, lastDone>>

\* Wait, without limit, until the endpoint reads exactly 8.
\* Mutant: the loop tests the copy it already has.
WaitRunningStale == Read("waitRunning", AfterSync(seen.status), seen)
WaitRunning == Read("waitRunning", AfterSync(pdts_status),
                    [seen EXCEPT !.status = pdts_status])

\* The wrapper goes on with its own configuration, in which it writes 0x11 to
\* the word that selects the clock.
SetPulserMode ==
  /\ pc = "synced"
  /\ \/ /\ pc' = "configured"
        /\ dsp_clock_control' = PulserMode
        /\ lastDone' = want
        /\ UNCHANGED <<want, seen, nTries>>
     \/ /\ Throw
        /\ dsp_clock_control' \in {dsp_clock_control, PulserMode}
        /\ lastDone' = NoTarget
  /\ UNCHANGED <<pdts_status, pdts_control>>

\* The process ends, by a crash or a shutdown, or the rest of conf throws.
Abandon == /\ pc # "idle"
           /\ Throw
           /\ UNCHANGED <<board, lastDone>>

\* The endpoint moves by itself (hardware).
EndpointMoves == /\ pdts_status' \in StatusValues
                 /\ UNCHANGED <<pdts_control, dsp_clock_control>>
                 /\ UNCHANGED <<handler, lastDone>>

\* The register operations of ConfigureLEDCalib.
SyncStep == \/ RefuseInterface \/ OpenDevice
            \/ ReadStatus \/ ReadControl \/ ReadClock
            \/ SelectInternal \/ HoldInReset \/ ReadBack
            \/ ReleaseReset \/ SelectExternal \/ CheckStatus
            \/ WaitRunning

Next == \/ \E t \in Targets : Configure(t)
        \/ SyncStep
        \/ SetPulserMode
        \/ Abandon
        \/ EndpointMoves

Spec == Init /\ [][Next]_vars

\* The thread that runs the command keeps running it, and its register
\* operations return: fairness is not met by throwing (except from OpenDevice
\* and the interface check), so that waiting is never ended by a failure that
\* had to happen.
Returns == pc' = "idle" => pc = "open"
FairSpec == Spec /\ WF_vars(SyncStep /\ Returns)
-----------------------------------------------------------------------------
TypeOK ==
  /\ pdts_status \in StatusValues
  /\ pdts_control \in ControlWords
  /\ dsp_clock_control \in {0, ClockInternal, ClockExternal, PulserMode}
  /\ pc \in {"idle", "open", "readStatus", "readControl", "readClock",
              "selectInternal", "holdInReset", "readBack", "releaseReset",
              "selectExternal", "checkStatus", "waitRunning", "synced",
              "configured"}
  /\ want \in Targets \cup {NoTarget}
  /\ seen \in [status : Nat, clock : Nat,
               control : ControlWords]
  /\ nTries \in 0..MaxTries
  /\ lastDone \in Targets \cup {NoTarget}

DspExternal == dsp_clock_control % 16 = 1

\* The DSP never runs from the clock of an endpoint that is held in reset,
\* whichever register operations of which conf failed or never happened
\* (DeviceInterface.cxx:992-1015: internal, reset, release, external).
ClockFromReleasedEndpoint == DspExternal => ~pdts_control.reset

\* A conf that got through ConfigureLEDCalib, by resetting the endpoint or by
\* finding the board "already ok" (983), leaves the board on the partition and
\* address it was asked for, out of reset, with the DSP on the endpoint's clock.
\* The skip compares two bits of the partition (971): the lowest two are equal.
SyncedToTarget ==
  pc \in {"synced", "configured"} =>
    /\ ControlMatches
    /\ ~pdts_control.reset
    /\ DspExternal

\* A board that an earlier conf, of this process or of one before it, left
\* ready for the same target, and whose endpoint reads as locked, is not taken
\* through a reset (977-983: "we don't try to resynch").  It holds of the
\* partitions 0 to 3 only: the two bits read back never equal a larger one.
NoNeedlessReset ==
  (pc = "selectInternal" /\ nTries = 0 /\ lastDone = want /\ want.part < 4)
    => ~Locked(seen.status)

\* The board goes through the steps of TimingBoard and no others: clock to
\* internal, hold in reset, release, clock to external, from any crash on.
Board == INSTANCE TimingBoard WITH
  Settings <- {[part |-> t.part, addr |-> t.addr] : t \in Targets}
                \cup {[part |-> 0, addr |-> 0]},
  source   <- IF DspExternal THEN "external" ELSE "internal",
  endpoint <- IF pdts_control.reset THEN "reset" ELSE "run",
  setting  <- [part |-> pdts_control.part, addr |-> pdts_control.addr]
ImplementsTimingBoard == Board!Spec

\* If the endpoint ends up in its running state for good, every call of
\* ConfigureLEDCalib ends: the retries are bounded, and the wait that follows
\* them sees the state it waits for.
CallEnds ==
  <>[](pdts_status % 16 = 8) =>
    (pc = "open" ~> pc \in {"idle", "synced", "configured"})

\* "Giving up on endpoint sync after 5 tries" (1036): the call that says so
\* ends.
GivesUpAfterFiveTries ==
  (pc = "waitRunning" /\ nTries = MaxTries) ~> (pc # "waitRunning")
=============================================================================
