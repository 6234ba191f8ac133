------------------------------ MODULE LedCalib ------------------------------
(***************************************************************************)
(* SSPLEDCalibModule and SSPLEDCalibWrapper: the conf, start and stop      *)
(* commands of one LED calibration module, down to the single register     *)
(* write, on a board that outlives the process.                            *)
(*                                                                         *)
(* conf contains ConfigureLEDCalib: its steps are those of PdtsSync, on    *)
(* the same variables.  Every register write may throw, before or after    *)
(* the board took the value, and the command then ends where it stands;    *)
(* the process may end at any point and be started again.                  *)
(*                                                                         *)
(* The application that hands out the commands is external: it allows conf *)
(* in INITIAL, start in CONFIGURED and stop in RUNNING, and changes state  *)
(* only when every module of it succeeded, so that a command this module   *)
(* carried out may be sent again.                                          *)
(***************************************************************************)
EXTENDS Naturals, Sequences

CONSTANTS Confs,          \* the configurations a conf command can carry
          LiteralNames,   \* the names that start with "Literal"
          StatusValues,   \* what the pdts_status register can read
          MaxFaults       \* bound on failed operations and ended processes

VARIABLES app,            \* state of the application (external)
          m_configured,   \* module: a conf has been carried out
          m_cfg,          \* wrapper: settings copied from the last valid conf
          m_run_marker,
          m_single_pulse,
          m_burst_mode,
          cmd,            \* command being executed, or "none"
          step,           \* the next operation of its handler
          counter,        \* loop index of the handler
          last,           \* history: the last command to end, and how
          bias,           \* board: bias register of each channel
          dac,            \* board: bias applied to each channel
          timing,         \* board: pulse timing register of each channel
          reg,            \* board: the other registers conf writes
          faults,         \* failures so far
          pdts_status, pdts_control, dsp_clock_control,     \* see PdtsSync
          pc, want, seen, nTries, lastDone

TargetOf(c) == [part |-> c.partition_number, addr |-> c.timing_address,
                iface |-> c.interface_type]

Sync == INSTANCE PdtsSync
          WITH Targets <- {TargetOf(c) : c \in {d \in Confs :
                                                  d.timing_address \in 0..255}}

syncVars  == <<pdts_status, pdts_control, dsp_clock_control,
               pc, want, seen, nTries, lastDone>>
pulseRegs == <<bias, dac, timing>>
wrapper   == <<m_cfg, m_run_marker, m_single_pulse, m_burst_mode>>
running   == <<cmd, step, counter, last>>
vars == <<app, m_configured, wrapper, running, pulseRegs, reg, faults, syncVars>>

(***************************************************************************)
(* Registers.  32-bit words are pairs of 16-bit halves.                    *)
(***************************************************************************)
Channels == 0..11                 \* index of a register in its block of 12
Word(hi, lo) == [hi |-> hi, lo |-> lo]
Zero    == Word(0, 0)
BiasOff == 262144                 \* 0x00040000

ConfRegs == {"module_id", "eventDataInterfaceSelect", "pdts_cmd_control_1",
             "pdts_cmd_delay", "pdts_cmd_control_2", "cal_count"}

Half  == 0..65535
Words == [hi : Half, lo : Half]

\* A literal entry: its name, how many values it has, the register the first of
\* them addresses, and the second.
Entries == [regname : STRING, size : Nat, reg : ConfRegs, val : Words]

\* What the schema lets a conf command carry.  Of the counts, which have 32
\* bits, only those whose width the code relies on are bounded here; the
\* partition has 16 bits at most (see PdtsSync).
ASSUME ConfsAssumption ==
  \A c \in Confs :
    /\ c.number_channels \in Nat
    /\ c.channel_mask \subseteq Nat
    /\ c.burst_count \in Nat /\ c.burst_count \div 65536 <= 65535
    /\ c.double_pulse_delay_ticks \in Nat
    /\ c.pulse1_width_ticks \in Nat
    /\ c.pulse2_width_ticks \in Nat
    /\ c.pulse_bias_percent_270nm \in Nat
    /\ c.pulse_bias_percent_367nm \in Nat
    /\ c.partition_number \in Half
    /\ c.timing_address \in Nat
    /\ c.interface_type \in Nat
    /\ c.module_id \in Nat
    /\ c.hardware_configuration \in Seq(Entries)

ASSUME BoundsAssumption == StatusValues \subseteq Nat /\ MaxFaults \in Nat

\* The blocks start at 0x40000340 and 0x800003C0; a 5 channel board has the
\* last five of each, from 0x4000035C and 0x800003DC.
Base(number_channels) == 12 - number_channels

\* validate_config.  A delay above 4095 and a burst count above 10000 are
\* logged as errors and accepted.
ValidConf(c) == /\ c.number_channels \in {5, 12}
                /\ c.channel_mask \subseteq Channels
                /\ c.pulse_mode \in {"single", "burst"}
                /\ c.pulse1_width_ticks <= 255
                /\ c.pulse2_width_ticks <= 255
                /\ c.pulse_bias_percent_270nm <= 100
                /\ c.pulse_bias_percent_367nm <= 100

On(channel) == channel \in m_cfg.channel_mask

BiasWord(channel) ==
  IF ~On(channel) THEN BiasOff
  ELSE BiasOff + (4095 * (IF channel < 6 THEN m_cfg.pulse_bias_percent_270nm
                                         ELSE m_cfg.pulse_bias_percent_367nm))
                 \div 100

\* The highest four bits: 0xF for single, 0x9 for burst.
ModeNibble == IF m_single_pulse THEN 15 ELSE IF m_burst_mode THEN 9 ELSE 0

\* Unsigned 32-bit sums: the delay is added from bit 16 on and carries.
TimingWord(channel) ==
  IF ~On(channel) THEN Word(ModeNibble * 4096, 0)
  ELSE Word((ModeNibble * 4096 + m_cfg.double_pulse_delay_ticks) % 65536,
            m_cfg.pulse1_width_ticks + m_cfg.pulse2_width_ticks * 256)
-----------------------------------------------------------------------------
NoConf == [number_channels |-> 12, channel_mask |-> Channels,
           pulse_mode |-> "default", interface_type |-> 1,
           hardware_configuration |-> <<>>]

ProcessStarts == /\ app' = "INITIAL"
                 /\ m_configured' = FALSE
                 /\ m_cfg' = NoConf
                 /\ m_run_marker' = FALSE
                 /\ m_single_pulse' = FALSE
                 /\ m_burst_mode' = FALSE
                 /\ cmd' = "none"
                 /\ step' = "none"
                 /\ counter' = 0
                 /\ last' = <<"none", "none">>

Init == /\ app = "INITIAL"
        /\ m_configured = FALSE
        /\ m_cfg = NoConf
        /\ m_run_marker = FALSE
        /\ m_single_pulse = FALSE
        /\ m_burst_mode = FALSE
        /\ cmd = "none"
        /\ step = "none"
        /\ counter = 0
        /\ last = <<"none", "none">>
        /\ bias = [c \in Channels |-> BiasOff]
        /\ dac = [c \in Channels |-> BiasOff]
        /\ timing = [c \in Channels |-> Zero]
        /\ reg = [r \in ConfRegs |-> Zero]
        /\ faults = 0
        /\ Sync!Init

Exit == [conf |-> "CONFIGURED", start |-> "RUNNING", stop |-> "CONFIGURED"]

\* A command ends.  The application moves on if its other modules succeed too.
Ends(c, result) == /\ cmd' = "none"
                   /\ step' = "none"
                   /\ counter' = 0
                   /\ last' = <<c, result>>
                   /\ app' \in IF result = "ok" THEN {app, Exit[c]} ELSE {app}

GoesTo(s, n) == /\ step' = s
                /\ counter' = n
                /\ UNCHANGED <<cmd, last, app>>

\* A register write throws.
Fault == /\ faults < MaxFaults
         /\ faults' = faults + 1
         /\ Ends(cmd, "failed")

\* conf throws after the synchronisation: a later conf starts it over, and finds
\* the board as this one left it.
\* Mutant: it puts the DSP back on the internal clock.
LeaveSyncInternal == /\ pc' = "idle"
                     /\ dsp_clock_control' = 48
                     /\ UNCHANGED <<pdts_status, pdts_control,
                                    want, seen, nTries, lastDone>>
LeaveSync == /\ pc' = "idle"
             /\ UNCHANGED <<pdts_status, pdts_control, dsp_clock_control,
                            want, seen, nTries, lastDone>>
-----------------------------------------------------------------------------
(***************************************************************************)
(* conf                                                                    *)
(***************************************************************************)
CanStart(s) == app = s /\ cmd = "none"

ConfAgain == /\ CanStart("INITIAL")
             /\ m_configured
             /\ Ends("conf", "ok")
             /\ UNCHANGED <<m_configured, wrapper, pulseRegs, reg, faults>>
             /\ UNCHANGED syncVars

\* validate_config overwrites the schema record before its checks; only a conf
\* that goes on reads that record, and it overwrites it again.
ConfRefused(c) == /\ CanStart("INITIAL")
                  /\ ~m_configured
                  /\ ~ValidConf(c)
                  /\ Ends("conf", "failed")
                  /\ UNCHANGED <<m_configured, wrapper, pulseRegs, reg, faults>>
                  /\ UNCHANGED syncVars

\* The settings are copied before the board's IP and timing address are looked
\* at.
ConfAddressRefused(c) ==
  /\ CanStart("INITIAL")
  /\ ~m_configured
  /\ ValidConf(c)
  /\ c.board_ip = "default" \/ c.timing_address > 255
  /\ m_cfg' = c
  /\ Ends("conf", "failed")
  /\ UNCHANGED <<m_configured, m_run_marker, m_single_pulse, m_burst_mode>>
  /\ UNCHANGED <<pulseRegs, reg, faults, syncVars>>

ConfBegins(c) == /\ CanStart("INITIAL")
                 /\ ~m_configured
                 /\ ValidConf(c)
                 /\ c.board_ip # "default"
                 /\ c.timing_address <= 255
                 /\ m_cfg' = c
                 /\ cmd' = "conf"
                 /\ step' = "sync"
                 /\ Sync!Configure(TargetOf(c))
                 /\ UNCHANGED <<app, m_configured, counter, last, faults>>
                 /\ UNCHANGED <<m_run_marker, m_single_pulse, m_burst_mode>>
                 /\ UNCHANGED <<pulseRegs, reg>>

\* ConfigureLEDCalib, one of its register operations.
ConfSyncs ==
  /\ step = "sync"
  /\ Sync!SyncStep
  /\ CASE pc' = "idle" /\ want.iface = 1 -> Fault
       [] pc' = "idle" /\ want.iface # 1 -> /\ Ends("conf", "failed")
                                            /\ UNCHANGED faults
       [] pc' = "synced" -> GoesTo("module_id", 0) /\ UNCHANGED faults
       [] OTHER -> GoesTo("sync", 0) /\ UNCHANGED faults
  /\ UNCHANGED <<m_configured, wrapper, pulseRegs, reg>>

\* The order of the operations that follow the synchronisation.
\* Mutant: the literal entries come before the settings of the pulse mode.
AfterStepLiteralsFirst ==
  [module_id |-> "interface", interface |-> "mode", mode |-> "literals",
   literals |-> "cmd_control_1", cmd_control_1 |-> "cmd_delay",
   cmd_delay |-> "cmd_control_2", cmd_control_2 |-> "pulser_mode",
   pulser_mode |-> "cal_count", cal_count |-> "done"]
AfterStep ==
  [module_id |-> "interface", interface |-> "mode", mode |-> "cmd_control_1",
   cmd_control_1 |-> "cmd_delay", cmd_delay |-> "cmd_control_2",
   cmd_control_2 |-> "pulser_mode", pulser_mode |-> "cal_count",
   cal_count |-> "literals", literals |-> "done"]

ConfGoesOn == GoesTo(AfterStep[step], 0)

\* The write of conf at step s, of value v to register r; it throws, or the
\* handler goes on.  The 16 equal pdts_cmd_delay writes are one.
ConfWrites(s, r, v) ==
  /\ cmd = "conf"
  /\ step = s
  /\ \/ /\ reg' = [reg EXCEPT ![r] = v]
        /\ ConfGoesOn
        /\ UNCHANGED <<faults, syncVars>>
     \/ /\ reg' \in {reg, [reg EXCEPT ![r] = v]}
        /\ Fault
        /\ LeaveSync
  /\ UNCHANGED <<m_configured, wrapper, pulseRegs>>

\* cal_count, by pulse mode; burst is looked at first.
CalCount == IF m_burst_mode THEN m_cfg.burst_count ELSE 1

\* A write by name goes under the register map's write mask: the low 12 bits of
\* module_id, the lowest bit of the interface selection.
LowBits(w, n, v) == Word(w.hi, w.lo - (w.lo % n) + (v % n))

ConfWritesRegister ==
  \/ ConfWrites("module_id", "module_id",
                LowBits(reg["module_id"], 4096, m_cfg.module_id))
  \/ ConfWrites("interface", "eventDataInterfaceSelect",
                LowBits(reg["eventDataInterfaceSelect"], 2,
                        m_cfg.interface_type))
  \/ ConfWrites("cmd_control_1", "pdts_cmd_control_1", Word(0, 512))
  \/ ConfWrites("cmd_delay", "pdts_cmd_delay", Word(3, 54))
  \/ ConfWrites("cmd_control_2", "pdts_cmd_control_2", Word(32768, 0))
  \/ ConfWrites("cal_count", "cal_count",
                Word(CalCount \div 65536, CalCount % 65536))

\* The mode flags are set here and cleared nowhere.
ConfSetsMode ==
  /\ cmd = "conf"
  /\ step = "mode"
  /\ m_single_pulse' = (m_single_pulse \/ m_cfg.pulse_mode = "single")
  /\ m_burst_mode' = (m_burst_mode \/ m_cfg.pulse_mode = "burst")
  /\ IF m_single_pulse' /\ m_burst_mode'
       THEN Ends("conf", "failed") /\ LeaveSync
       ELSE ConfGoesOn /\ UNCHANGED syncVars
  /\ UNCHANGED <<m_configured, m_cfg, m_run_marker, pulseRegs, reg, faults>>

\* The word a later test sees as the DSP clock selection (0x80000520).
\* Mutant: the lowest bit, which selects the endpoint's clock, is dropped.
PulserModeInternal == 16
PulserMode == 17

ConfWritesPulserMode ==
  /\ cmd = "conf"
  /\ step = "pulser_mode"
  /\ \/ /\ dsp_clock_control' = PulserMode
        /\ pc' = "configured"
        /\ lastDone' = want
        /\ ConfGoesOn
        /\ UNCHANGED faults
     \/ /\ dsp_clock_control' \in {dsp_clock_control, PulserMode}
        /\ pc' = "idle"
        /\ lastDone' = Sync!NoTarget
        /\ Fault
  /\ UNCHANGED <<pdts_status, pdts_control, want, seen, nTries>>
  /\ UNCHANGED <<m_configured, wrapper, pulseRegs, reg>>

\* manual_configure_device: only entries whose name starts with "Literal" and
\* that have values are written.  The second value is taken unchecked: of an
\* entry with a single value it is whatever lies behind it (Unknown).
Unknown == Word(65536, 0)
Merged  == Word(65536, 1)        \* a write under a mask
AnyWords == [hi : Half \cup {65536}, lo : Half]
Applies(e) == e.regname \in LiteralNames /\ e.size > 0
EntryWord(e) == IF e.size = 1 THEN Unknown
                ELSE IF e.size > 2 THEN Merged ELSE e.val

ConfWritesLiteral ==
  /\ cmd = "conf"
  /\ step = "literals"
  /\ counter < Len(m_cfg.hardware_configuration)
  /\ LET e == m_cfg.hardware_configuration[counter + 1]
         written == IF Applies(e) THEN [reg EXCEPT ![e.reg] = EntryWord(e)]
                                  ELSE reg
     IN  \/ /\ reg' = written
            /\ GoesTo("literals", counter + 1)
            /\ UNCHANGED <<faults, syncVars>>
         \/ /\ Applies(e)
            /\ reg' \in {reg, written}
            /\ Fault
            /\ LeaveSync
  /\ UNCHANGED <<m_configured, wrapper, pulseRegs>>

ConfLiteralsDone == /\ cmd = "conf"
                    /\ step = "literals"
                    /\ counter = Len(m_cfg.hardware_configuration)
                    /\ ConfGoesOn
                    /\ UNCHANGED <<m_configured, wrapper, pulseRegs, reg>>
                    /\ UNCHANGED <<faults, syncVars>>

ConfEnds == /\ cmd = "conf"
            /\ step = "done"
            /\ m_configured' = TRUE
            /\ Ends("conf", "ok")
            /\ UNCHANGED <<wrapper, pulseRegs, reg, faults, syncVars>>
-----------------------------------------------------------------------------
(***************************************************************************)
(* start and stop                                                          *)
(***************************************************************************)
StartAgain == /\ CanStart("CONFIGURED")
              /\ m_run_marker
              /\ Ends("start", "ok")
              /\ UNCHANGED <<m_configured, wrapper, pulseRegs, reg, faults>>
              /\ UNCHANGED syncVars

StartBegins == /\ CanStart("CONFIGURED")
               /\ ~m_run_marker
               /\ cmd' = "start"
               /\ step' = "bias"
               /\ UNCHANGED <<app, m_configured, wrapper, counter, last>>
               /\ UNCHANGED <<pulseRegs, reg, faults, syncVars>>

StopBegins == /\ CanStart("RUNNING")
              /\ cmd' = "stop"
              /\ step' = "bias"
              /\ UNCHANGED <<app, m_configured, wrapper, counter, last>>
              /\ UNCHANGED <<pulseRegs, reg, faults, syncVars>>

\* One write to a pulse register; goes says how the handler continues.
PulseWrite(old, new, goes) == \/ new /\ goes /\ UNCHANGED faults
                              \/ (old \/ new) /\ Fault

Unaffected == UNCHANGED <<m_configured, m_cfg, m_single_pulse, m_burst_mode,
                          reg, syncVars>>

SetBias(channel, v, goes) ==
  /\ PulseWrite(UNCHANGED bias, bias' = [bias EXCEPT ![channel] = v], goes)
  /\ UNCHANGED <<dac, timing, m_run_marker>>
  /\ Unaffected

SetTiming(channel, v, goes) ==
  /\ PulseWrite(UNCHANGED timing, timing' = [timing EXCEPT ![channel] = v], goes)
  /\ UNCHANGED <<bias, dac, m_run_marker>>
  /\ Unaffected

At(c, s) == cmd = c /\ step = s

\* A board of 12 channels takes the bias of channel 7 from channel 6: with 7
\* on, 6 gets the bias of 7 (the second half of the code's test always holds).
\* Mutant: only if channel 6 is on too.
SharesBiasIfBothOn(channel) == channel = 7 /\ On(7) /\ On(6)
SharesBias(channel) == channel = 7 /\ On(7)

\* Mutant: the loop index is not moved on.
NextChannelStuck(channel) == channel
NextChannel(channel) == channel + 1

StartWritesBias ==
  /\ At("start", "bias")
  /\ SetBias(Base(m_cfg.number_channels) + counter, BiasWord(counter),
             GoesTo(IF SharesBias(counter) THEN "shared_bias" ELSE "timing",
                    counter))

StartWritesSharedBias ==
  /\ At("start", "shared_bias")
  /\ SetBias(Base(m_cfg.number_channels) + counter - 1, BiasWord(counter),
             GoesTo("timing", counter))

\* Mutant: one channel too many.
StartLoopLong(n) == IF n < m_cfg.number_channels THEN "bias" ELSE "apply"
StartLoop(n) == IF n + 1 < m_cfg.number_channels THEN "bias" ELSE "apply"

StartWritesTiming ==
  /\ At("start", "timing")
  /\ SetTiming(Base(m_cfg.number_channels) + counter, TimingWord(counter),
               GoesTo(StartLoop(counter), NextChannel(counter)))

\* Applies the biases of all channels and sets the run marker.
StartApplies ==
  /\ At("start", "apply")
  /\ \/ /\ dac' = bias
        /\ m_run_marker' = TRUE
        /\ Ends("start", "ok")
        /\ UNCHANGED faults
     \/ /\ dac' \in {dac, bias}
        /\ Fault
        /\ UNCHANGED m_run_marker
  /\ UNCHANGED <<bias, timing>>
  /\ Unaffected

\* stop turns off five channels, from the first of a 5 channel board on.
\* Mutant: it ends one channel too early.
StopChannelsFour == 4
StopChannels == 5

StopWritesBias ==
  /\ At("stop", "bias")
  /\ SetBias(Base(5) + counter, BiasOff, GoesTo("timing", counter))

StopWritesTiming ==
  /\ At("stop", "timing")
  /\ SetTiming(Base(5) + counter, Zero,
               GoesTo(IF counter + 1 < StopChannels THEN "bias" ELSE "apply",
                      NextChannel(counter)))

\* Mutant: the run marker is left set.
MarkerAfterStopKept == m_run_marker
MarkerAfterStop == FALSE

StopApplies ==
  /\ At("stop", "apply")
  /\ \/ /\ dac' = bias
        /\ m_run_marker' = MarkerAfterStop
        /\ Ends("stop", "ok")
        /\ UNCHANGED faults
     \/ /\ dac' \in {dac, bias}
        /\ Fault
        /\ UNCHANGED m_run_marker
  /\ UNCHANGED <<bias, timing>>
  /\ Unaffected
-----------------------------------------------------------------------------
\* The process ends, in the middle of a command or between two, and another is
\* started on the same board.
Restart == /\ faults < MaxFaults
           /\ faults' = faults + 1
           /\ ProcessStarts
           /\ LeaveSync
           /\ UNCHANGED <<pulseRegs, reg>>

EndpointMoves == /\ Sync!EndpointMoves
                 /\ UNCHANGED <<app, m_configured, wrapper, running>>
                 /\ UNCHANGED <<pulseRegs, reg, faults>>

CommandArrives == \/ \E c \in Confs : \/ ConfRefused(c)
                                      \/ ConfAddressRefused(c)
                                      \/ ConfBegins(c)
                  \/ ConfAgain \/ StartAgain \/ StartBegins \/ StopBegins

HandlerStep == \/ ConfSyncs \/ ConfWritesRegister \/ ConfSetsMode
               \/ ConfWritesPulserMode \/ ConfWritesLiteral
               \/ ConfLiteralsDone \/ ConfEnds
               \/ StartWritesBias \/ StartWritesSharedBias
               \/ StartWritesTiming \/ StartApplies
               \/ StopWritesBias \/ StopWritesTiming \/ StopApplies

Next == CommandArrives \/ HandlerStep \/ Restart \/ EndpointMoves

Spec == Init /\ [][Next]_vars

\* The thread that executes commands keeps running; a failure never has to
\* happen.
FairSpec == Spec /\ WF_vars(HandlerStep /\ UNCHANGED faults)
-----------------------------------------------------------------------------
OwnTypeOK ==
  /\ app \in {"INITIAL", "CONFIGURED", "RUNNING"}
  /\ m_configured \in BOOLEAN
  /\ m_cfg \in Confs \cup {NoConf}
  /\ m_run_marker \in BOOLEAN
  /\ m_single_pulse \in BOOLEAN
  /\ m_burst_mode \in BOOLEAN
  /\ cmd \in {"none", "conf", "start", "stop"}
  /\ step \in {"none", "sync", "literals", "done", "bias", "shared_bias",
               "timing", "apply"} \cup DOMAIN AfterStep
  /\ counter \in 0..(IF step = "literals"
                       THEN Len(m_cfg.hardware_configuration) ELSE 12)
  /\ last \in {<<"none", "none">>}
              \cup ({"conf", "start", "stop"} \X {"ok", "failed"})
  /\ bias \in [Channels -> Nat]
  /\ dac \in [Channels -> Nat]
  /\ timing \in [Channels -> Words]
  /\ reg \in [ConfRegs -> AnyWords]
  /\ faults \in 0..MaxFaults

TypeOK == OwnTypeOK /\ Sync!TypeOK

Idle(command) == cmd = "none" /\ last = <<command, "ok">>

\* The channel behind register r of the board, counted as the mask counts.
ChannelAt(r) == r - Base(m_cfg.number_channels)
Lit(channel) == channel \in m_cfg.channel_mask
Percent(channel) == IF channel < 6 THEN m_cfg.pulse_bias_percent_270nm
                                   ELSE m_cfg.pulse_bias_percent_367nm

\* The highest bits of a timing word, if the delay of a lit channel leaves them
\* alone: validate_config only logs one that does not (376).
DelayFits == m_cfg.double_pulse_delay_ticks <= 4095
Trigger == IF m_cfg.pulse_mode = "single" THEN 15 ELSE 9

\* After a start that succeeded, however many starts and stops failed before it
\* and whatever an earlier process left on the board, the board pulses what the
\* conf asked for (SSPLEDCalibWrapper.cpp:184-224): the applied bias of each
\* channel in the mask, and of channel 6 when it feeds channel 7 (209-212), is
\* its percentage of 4095 and every other channel of the board has none; the
\* fields of a lit channel's timing word are the widths and, if the delay fits
\* into its own, the delay and the trigger of the pulse mode.
PulsesAsConfigured ==
  Idle("start") =>
    \A r \in Base(m_cfg.number_channels)..11 :
      LET c == ChannelAt(r)
          w == timing[r]
          fed == c = 6 /\ Lit(7)
          level == dac[r] - BiasOff
      IN  /\ IF Lit(c) \/ fed
               THEN /\ level * 100 <= 4095 * Percent(c)
                    /\ 4095 * Percent(c) < (level + 1) * 100
               ELSE level = 0
          /\ Lit(c) => /\ w.lo % 256 = m_cfg.pulse1_width_ticks
                       /\ w.lo \div 256 = m_cfg.pulse2_width_ticks
          /\ Lit(c) /\ DelayFits =>
               /\ w.hi % 4096 = m_cfg.double_pulse_delay_ticks
               /\ w.hi \div 4096 = Trigger
          /\ ~Lit(c) => w = Word(Trigger * 4096, 0)

\* After a stop that succeeded no channel is biased or triggered, whatever
\* failed before it ("Stop pulsing ... complete", 249).
StopEndsPulsing ==
  Idle("stop") => \A r \in Channels : dac[r] = BiasOff /\ timing[r] = Zero

\* The value conf should leave in register r: that of the last literal entry
\* for it ("applied last after any other parameters", 147-149) if that entry
\* has a value and no mask, and without an entry the one of the pulse mode.
LiteralsFor(r) == {i \in 1..Len(m_cfg.hardware_configuration) :
                     LET e == m_cfg.hardware_configuration[i]
                     IN  e.regname \in LiteralNames /\ e.size > 0 /\ e.reg = r}
ModeValue(r) == IF r # "cal_count" THEN 512
                ELSE IF m_cfg.pulse_mode = "burst" THEN m_cfg.burst_count ELSE 1
AskedFor(r, w) ==
  IF LiteralsFor(r) # {}
    THEN \E i \in LiteralsFor(r) :
           /\ \A j \in LiteralsFor(r) : j <= i
           /\ LET e == m_cfg.hardware_configuration[i]
              IN  e.size = 2 => w = e.val
    ELSE r \in {"cal_count", "pdts_cmd_control_1"}
           => w.hi * 65536 + w.lo = ModeValue(r)

\* A module that counts as configured holds the pulse mode of its settings in
\* its flags and on the board, with the literal entries over it, although the
\* flags, the settings and the board are all left half-way by a conf that
\* failed, and later confs are answered without being looked at.
ConfiguredAsAsked ==
  m_configured => /\ m_single_pulse = (m_cfg.pulse_mode = "single")
                  /\ m_burst_mode = (m_cfg.pulse_mode = "burst")
                  /\ \A r \in ConfRegs : AskedFor(r, reg[r])

\* A configured module has its board on the endpoint's clock, with its partition
\* and address, also after the write to the clock word that sets the pulser
\* mode (275, 304) and through every start and stop.
TimingKept == (cmd # "conf" /\ m_configured) =>
                /\ dsp_clock_control % 16 = 1
                /\ ~pdts_control.reset
                /\ pdts_control.addr = m_cfg.timing_address
                /\ pdts_control.part % 4 = m_cfg.partition_number % 4

\* Seen through the timing registers, the module does what PdtsSync specifies:
\* a conf that throws at any step behind the synchronisation (103-152), a restart,
\* a start or a stop leave clock, reset and settings as the next conf's
\* synchronisation, which may then be skipped, expects them.
ImplementsPdtsSync == Sync!Spec

\* Every command ends, if the endpoint ends up running for good.
CommandsEnd == <>[](pdts_status % 16 = 8) => [](cmd # "none" => <>(cmd = "none"))

\* The error of 129, "SOMEHOW ENDED UP WITH SEVERAL PULSE MODES SET ON",
\* cannot come up: validate_config lets a conf name one mode only.
OnePulseMode == ~(m_single_pulse /\ m_burst_mode)
=============================================================================
