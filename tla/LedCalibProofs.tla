--------------------------- MODULE LedCalibProofs ---------------------------
(***************************************************************************)
(* Theorems about LedCalib, for every set of configurations and statuses   *)
(* and any number of faults.                                               *)
(*                                                                         *)
(* What the commands promise is said of moments at which no command runs;  *)
(* the invariant says for each step of each command how far it has come.   *)
(* The part of conf that is PdtsSync is not looked into: LedCalib is shown *)
(* to implement it, and its theorems then hold of LedCalib's variables.    *)
(***************************************************************************)
EXTENDS LedCalib, Integers, TLAPS

SyncPoints == {"open", "readStatus", "readControl", "readClock",
               "selectInternal", "holdInReset", "readBack", "releaseReset",
               "selectExternal", "checkStatus", "waitRunning"}

BeforeMode  == {"sync", "module_id", "interface", "mode"}
BeforeClock == {"module_id", "interface", "mode", "cmd_control_1",
                "cmd_delay", "cmd_control_2", "pulser_mode"}
AfterClock  == {"cal_count", "literals", "done"}

\* Which command runs in which state of the application, and what is known of
\* the settings then.
CommandOrder ==
  /\ cmd = "none" => step = "none" /\ counter = 0
  /\ cmd = "conf" => /\ app = "INITIAL"
                     /\ ~m_configured
                     /\ step \in {"sync"} \cup BeforeClock \cup AfterClock
  /\ cmd = "start" => /\ app = "CONFIGURED"
                      /\ ~m_run_marker
                      /\ step \in {"bias", "shared_bias", "timing", "apply"}
  /\ cmd = "stop" => /\ app = "RUNNING"
                     /\ step \in {"bias", "timing", "apply"}
  /\ app # "INITIAL" => m_configured
  /\ app = "INITIAL" => ~m_run_marker
  /\ cmd = "conf" \/ m_configured => m_cfg \in Confs /\ ValidConf(m_cfg)

\* Where the synchronisation is.
SyncOrder ==
  /\ step = "sync" => pc \in SyncPoints
  /\ step \in BeforeClock => pc = "synced"
  /\ step \in AfterClock => pc = "configured"
  /\ m_configured => pc = "configured"
  /\ cmd # "conf" /\ ~m_configured => pc = "idle"
  /\ cmd = "conf" \/ m_configured => want = TargetOf(m_cfg)

\* What the literal entries 1 to n of the settings c leave in register r.
LiteralsIn(c, r, n) ==
  {i \in 1..n : LET e == c.hardware_configuration[i]
               IN  e.regname \in LiteralNames /\ e.size > 0 /\ e.reg = r}
ModeValueOf(c, r) == IF r # "cal_count" THEN 512
                     ELSE IF c.pulse_mode = "burst" THEN c.burst_count ELSE 1
AskedIn(c, r, n, w) ==
  IF LiteralsIn(c, r, n) # {}
    THEN \E i \in LiteralsIn(c, r, n) :
           /\ \A j \in LiteralsIn(c, r, n) : j <= i
           /\ c.hardware_configuration[i].size = 2
                => w = c.hardware_configuration[i].val
    ELSE r \in {"cal_count", "pdts_cmd_control_1"}
           => w.hi * 65536 + w.lo = ModeValueOf(c, r)
AllAsked(c, n, f) == \A r \in ConfRegs : AskedIn(c, r, n, f[r])

FlagsAsAsked == /\ m_single_pulse <=> m_cfg.pulse_mode = "single"
                /\ m_burst_mode <=> m_cfg.pulse_mode = "burst"

\* How far conf has come with flags and registers.
ConfOrder ==
  /\ m_configured \/ (cmd = "conf" /\ step \notin BeforeMode) => FlagsAsAsked
  /\ step \in {"cmd_delay", "cmd_control_2", "pulser_mode", "cal_count"}
       => reg["pdts_cmd_control_1"] = Word(0, 512)
  /\ step = "literals" => AllAsked(m_cfg, counter, reg)
  /\ m_configured \/ step = "done"
       => AllAsked(m_cfg, Len(m_cfg.hardware_configuration), reg)

\* The words that start means for channel k of a board with the settings c, and
\* which of them it has written once it has seen the first n channels.
BiasOf(c, k) ==
  IF k \notin c.channel_mask THEN BiasOff
  ELSE BiasOff + (4095 * (IF k < 6 THEN c.pulse_bias_percent_270nm
                                   ELSE c.pulse_bias_percent_367nm)) \div 100
TriggerOf(c) == IF c.pulse_mode = "single" THEN 15 ELSE 9
TimingOf(c, k) ==
  IF k \notin c.channel_mask THEN Word(TriggerOf(c) * 4096, 0)
  ELSE Word((TriggerOf(c) * 4096 + c.double_pulse_delay_ticks) % 65536,
            c.pulse1_width_ticks + c.pulse2_width_ticks * 256)

SharedBiasOf(c, k, n) ==
  IF k = 6 /\ n > 7 /\ 7 \in c.channel_mask THEN BiasOf(c, 7) ELSE BiasOf(c, k)
Biased(f, c, n) ==
  \A k \in 0..n-1 : f[Base(c.number_channels) + k] = SharedBiasOf(c, k, n)
Timed(t, c, n) ==
  \A k \in 0..n-1 : t[Base(c.number_channels) + k] = TimingOf(c, k)

\* How far start has come, and what it leaves behind.
StartProgress ==
  cmd = "start" =>
    /\ counter <= m_cfg.number_channels
    /\ step # "apply" => counter < m_cfg.number_channels
    /\ step = "bias" => Biased(bias, m_cfg, counter)
    /\ step = "shared_bias" =>
         /\ counter = 7
         /\ 7 \in m_cfg.channel_mask
         /\ Biased(bias, m_cfg, 7)
         /\ bias[Base(m_cfg.number_channels) + 7] = BiasOf(m_cfg, 7)
    /\ step = "timing" => Biased(bias, m_cfg, counter + 1)
    /\ step = "apply" => /\ counter = m_cfg.number_channels
                         /\ Biased(bias, m_cfg, counter)
    /\ Timed(timing, m_cfg, counter)

StartDone ==
  /\ Idle("start") => app # "INITIAL"
  /\ Idle("start") \/ (m_run_marker /\ app = "CONFIGURED")
       => /\ Biased(dac, m_cfg, m_cfg.number_channels)
          /\ Timed(timing, m_cfg, m_cfg.number_channels)

\* The first n of the five channels that stop turns off.
AllAt(f, n, v) == \A k \in 0..n-1 : f[7 + k] = v

\* How far stop has come, and what it leaves behind.
StopProgress ==
  cmd = "stop" =>
    /\ counter <= 5
    /\ step # "apply" => counter < 5
    /\ step = "bias" => AllAt(bias, counter, BiasOff)
    /\ step = "timing" => AllAt(bias, counter + 1, BiasOff)
    /\ step = "apply" => counter = 5 /\ AllAt(bias, 5, BiasOff)
    /\ AllAt(timing, counter, Zero)

StopDone == Idle("stop") => AllAt(dac, 5, BiasOff) /\ AllAt(timing, 5, Zero)

IInv == /\ OwnTypeOK /\ CommandOrder /\ SyncOrder /\ ConfOrder
        /\ StartProgress /\ StartDone /\ StopProgress /\ StopDone
-----------------------------------------------------------------------------
(***************************************************************************)
(* Settings and words.                                                     *)
(***************************************************************************)
\* The halves of a word, as the provers can count with them.
LEMMA HalfRange == Half \subseteq Nat /\ \A x \in Nat : x \in Half <=> x <= 65535
<1> DEFINE m == 65535
<1>1. m \in Nat /\ Half = 0..m
  BY DEF Half
<1> HIDE DEF m
<1>2. Half \subseteq Nat /\ \A x \in Nat : x \in Half <=> x <= m
  BY <1>1
<1> QED
  BY <1>2 DEF m

LEMMA WordType == \A x, y \in Half : Word(x, y) \in Words
BY DEF Word, Words

\* A board has 5 or 12 channels, and its last register is the last of a block.
LEMMA BoardSize ==
  ASSUME NEW c, ValidConf(c)
  PROVE  /\ c.number_channels \in {5, 12}
         /\ Base(c.number_channels) \in {0, 7}
         /\ Base(c.number_channels) + c.number_channels = 12
BY DEF ValidConf, Base

\* Quotient and remainder of a number.
LEMMA DivMod ==
  ASSUME NEW x \in Nat, NEW d \in Nat \ {0}
  PROVE  /\ x \div d \in Nat /\ x % d \in 0..d-1
         /\ x = (x \div d) * d + (x % d)
  BY SMT

\* The bias of a channel in the mask is its percentage of 4095, rounded down.
LEMMA BiasValue ==
  ASSUME NEW c \in Confs, NEW k \in 0..11
  PROVE  LET percent == IF k < 6 THEN c.pulse_bias_percent_270nm
                                 ELSE c.pulse_bias_percent_367nm
             level == BiasOf(c, k) - BiasOff
         IN  /\ BiasOf(c, k) \in Nat
             /\ k \notin c.channel_mask => level = 0
             /\ k \in c.channel_mask => /\ level * 100 <= 4095 * percent
                                        /\ 4095 * percent < (level + 1) * 100
<1> DEFINE percent == IF k < 6 THEN c.pulse_bias_percent_270nm
                               ELSE c.pulse_bias_percent_367nm
           level == (4095 * percent) \div 100
<1>1. percent \in Nat
  BY ConfsAssumption
<1>2. 4095 * percent \in Nat
  BY <1>1
<1>3. /\ level \in Nat
      /\ level * 100 <= 4095 * percent
      /\ 4095 * percent < (level + 1) * 100
  <2> DEFINE x == 4095 * percent
  <2>0. x \in Nat
    BY <1>2
  <2> HIDE DEF x
  <2>1. /\ x \div 100 \in Nat /\ x % 100 \in 0..99
        /\ x = (x \div 100) * 100 + (x % 100)
    BY <2>0, DivMod
  <2>2. /\ x \div 100 \in Nat
        /\ (x \div 100) * 100 <= x
        /\ x < (x \div 100 + 1) * 100
    BY <2>0, <2>1
  <2> QED
    BY <2>2 DEF x
<1>4. BiasOf(c, k) = IF k \notin c.channel_mask THEN BiasOff
                     ELSE BiasOff + level
  BY DEF BiasOf
<1> HIDE DEF percent, level
<1>5. /\ BiasOf(c, k) \in Nat
      /\ k \notin c.channel_mask => BiasOf(c, k) - BiasOff = 0
      /\ k \in c.channel_mask => BiasOf(c, k) - BiasOff = level
  BY <1>3, <1>4 DEF BiasOff
<1>6. k \in c.channel_mask
        => /\ (BiasOf(c, k) - BiasOff) * 100 <= 4095 * percent
           /\ 4095 * percent < (BiasOf(c, k) - BiasOff + 1) * 100
  BY <1>3, <1>5
<1> QED
  BY <1>5, <1>6 DEF percent

\* The fields of a timing word.
LEMMA TimingValue ==
  ASSUME NEW c \in Confs, ValidConf(c), NEW k
  PROVE  LET w == TimingOf(c, k)
         IN  /\ w \in Words
             /\ k \in c.channel_mask => /\ w.lo % 256 = c.pulse1_width_ticks
                                        /\ w.lo \div 256 = c.pulse2_width_ticks
             /\ k \in c.channel_mask /\ c.double_pulse_delay_ticks <= 4095
                  => /\ w.hi % 4096 = c.double_pulse_delay_ticks
                     /\ w.hi \div 4096 = TriggerOf(c)
             /\ k \notin c.channel_mask => w = Word(TriggerOf(c) * 4096, 0)
<1> DEFINE w == TimingOf(c, k)
           t == TriggerOf(c)
           d == c.double_pulse_delay_ticks
           p == c.pulse1_width_ticks
           q == c.pulse2_width_ticks
<1>1. t \in {9, 15}
  BY DEF TriggerOf
<1>2. d \in Nat /\ p \in 0..255 /\ q \in 0..255
  <2>1. d \in Nat /\ p \in Nat /\ q \in Nat
    BY ConfsAssumption
  <2>2. p <= 255 /\ q <= 255
    BY DEF ValidConf
  <2> QED
    BY <2>1, <2>2
<1>3. w = IF k \notin c.channel_mask THEN Word(t * 4096, 0)
          ELSE Word((t * 4096 + d) % 65536, p + q * 256)
  BY DEF TimingOf
<1> HIDE DEF w, t, d, p, q
<1>4. /\ (t * 4096 + d) % 65536 \in Half
      /\ t * 4096 \in Half
      /\ p + q * 256 \in Half
      /\ 0 \in Half
  <2>1. /\ (t * 4096 + d) % 65536 \in Nat
        /\ (t * 4096 + d) % 65536 <= 65535
    BY <1>1, <1>2
  <2>2. /\ t * 4096 \in Nat /\ t * 4096 <= 65535
        /\ p + q * 256 \in Nat /\ p + q * 256 <= 65535
    BY <1>1, <1>2
  <2> QED
    BY <2>1, <2>2, HalfRange
<1>5. (p + q * 256) % 256 = p /\ (p + q * 256) \div 256 = q
  BY <1>2
<1>6. ASSUME d <= 4095
      PROVE  /\ ((t * 4096 + d) % 65536) % 4096 = d
             /\ ((t * 4096 + d) % 65536) \div 4096 = t
  <2>1. (t * 4096 + d) % 65536 = t * 4096 + d
    BY <1>1, <1>2, <1>6
  <2>2. (t * 4096 + d) % 4096 = d /\ (t * 4096 + d) \div 4096 = t
    BY <1>1, <1>2, <1>6
  <2> QED
    BY <2>1, <2>2
<1>7. w \in Words
  BY <1>3, <1>4, WordType
<1>8. k \in c.channel_mask => /\ w.hi = (t * 4096 + d) % 65536
                              /\ w.lo = p + q * 256
  BY <1>3 DEF Word
<1> QED
  BY <1>3, <1>5, <1>6, <1>7, <1>8 DEF w, t, d, p, q

\* With the flags of the settings, start writes the words of the settings.
LEMMA WrittenWords ==
  ASSUME ValidConf(m_cfg), FlagsAsAsked, NEW k
  PROVE  BiasWord(k) = BiasOf(m_cfg, k) /\ TimingWord(k) = TimingOf(m_cfg, k)
<1>1. ModeNibble = TriggerOf(m_cfg)
  BY DEF ModeNibble, TriggerOf, FlagsAsAsked, ValidConf
<1>2. On(k) <=> k \in m_cfg.channel_mask
  BY DEF On
<1> QED
  BY <1>1, <1>2 DEF BiasWord, TimingWord, BiasOf, TimingOf
-----------------------------------------------------------------------------
(***************************************************************************)
(* The synchronisation, seen from the outside.                             *)
(***************************************************************************)
\* A register operation of ConfigureLEDCalib keeps the target, and leads to
\* another one, to the end of the synchronisation, or out of it.
LEMMA SyncStepPlaces ==
  ASSUME Sync!SyncStep
  PROVE  /\ want' = want
         /\ pc' \in SyncPoints \cup {"idle", "synced"}
<1>1. \A at, next, copy :
        Sync!Read(at, next, copy) => want' = want /\ pc' \in {next, "idle"}
  BY DEF Sync!Read, Sync!Throw
<1>2. \A at, next, value :
        Sync!WriteClock(at, next, value)
          => want' = want /\ pc' \in {next, "idle"}
  BY DEF Sync!WriteClock, Sync!Throw
<1>3. \A at, next, value :
        Sync!WriteControl(at, next, value)
          => want' = want /\ pc' \in {next, "idle"}
  BY DEF Sync!WriteControl, Sync!Throw
<1>4. \A s : Sync!AfterSync(s) \in {"synced", "waitRunning"}
  BY DEF Sync!AfterSync
<1>5. CASE Sync!RefuseInterface \/ Sync!OpenDevice
  BY <1>5 DEF Sync!RefuseInterface, Sync!OpenDevice, Sync!Throw, SyncPoints
<1>6. CASE \/ Sync!ReadStatus \/ Sync!ReadControl
           \/ Sync!ReadClock \/ Sync!ReadBack \/ Sync!WaitRunning
  BY <1>1, <1>4, <1>6
     DEF Sync!ReadStatus, Sync!ReadControl, Sync!ReadClock, Sync!ReadBack,
         Sync!WaitRunning, SyncPoints
<1>7. CASE Sync!SelectInternal \/ Sync!SelectExternal
  BY <1>2, <1>7 DEF Sync!SelectInternal, Sync!SelectExternal, SyncPoints
<1>8. CASE Sync!HoldInReset \/ Sync!ReleaseReset
  BY <1>3, <1>8 DEF Sync!HoldInReset, Sync!ReleaseReset, SyncPoints
<1>9. CASE Sync!CheckStatus
  BY <1>4, <1>9 DEF Sync!CheckStatus, Sync!Throw, SyncPoints
<1> QED
  BY <1>5, <1>6, <1>7, <1>8, <1>9 DEF Sync!SyncStep

\* The theorems of PdtsSync, for the targets that a conf of LedCalib carries.
Proofs == INSTANCE PdtsSyncProofs
          WITH Targets <- {TargetOf(c) : c \in {d \in Confs :
                                                  d.timing_address \in 0..255}}

\* Its module is the one that LedCalib is composed of.
LEMMA SameInit == Sync!Init <=> Proofs!Init
BY DEF Sync!Init, Proofs!Init, Sync!NoTarget, Proofs!NoTarget, Sync!Unread,
       Proofs!Unread

LEMMA SameNext == Sync!Next <=> Proofs!Next
BY DEF Sync!Next, Sync!Configure, Sync!SyncStep, Sync!SetPulserMode,
       Sync!Abandon, Sync!EndpointMoves, Sync!RefuseInterface,
       Sync!OpenDevice, Sync!ReadStatus, Sync!ReadControl, Sync!ReadClock,
       Sync!SelectInternal, Sync!HoldInReset, Sync!ReadBack,
       Sync!ReleaseReset, Sync!SelectExternal, Sync!CheckStatus,
       Sync!WaitRunning, Sync!Read, Sync!WriteClock, Sync!WriteControl,
       Sync!Throw, Sync!board, Sync!handler, Sync!Unread, Sync!NoTarget,
       Sync!AfterSync, Sync!Running, Sync!Locked, Sync!LooksSynced,
       Sync!OnExternalClock, Sync!ControlWord, Sync!TriesLeft, Sync!MaxTries,
       Sync!ClockInternal, Sync!ClockExternal, Sync!PulserMode,
       Proofs!Next, Proofs!Configure, Proofs!SyncStep, Proofs!SetPulserMode,
       Proofs!Abandon, Proofs!EndpointMoves, Proofs!RefuseInterface,
       Proofs!OpenDevice, Proofs!ReadStatus, Proofs!ReadControl,
       Proofs!ReadClock, Proofs!SelectInternal, Proofs!HoldInReset,
       Proofs!ReadBack, Proofs!ReleaseReset, Proofs!SelectExternal,
       Proofs!CheckStatus, Proofs!WaitRunning, Proofs!Read,
       Proofs!WriteClock, Proofs!WriteControl, Proofs!Throw, Proofs!board,
       Proofs!handler, Proofs!Unread, Proofs!NoTarget, Proofs!AfterSync,
       Proofs!Running, Proofs!Locked, Proofs!LooksSynced,
       Proofs!OnExternalClock, Proofs!ControlWord, Proofs!TriesLeft,
       Proofs!MaxTries, Proofs!ClockInternal, Proofs!ClockExternal,
       Proofs!PulserMode

LEMMA SameSpec == Sync!Spec <=> Proofs!Spec
<1>1. [Sync!Next]_Sync!vars <=> [Proofs!Next]_Proofs!vars
  BY SameNext
     DEF Sync!vars, Proofs!vars, Sync!board, Proofs!board, Sync!handler,
         Proofs!handler
<1> QED
  BY SameInit, <1>1, PTL DEF Sync!Spec, Proofs!Spec

\* What PdtsSync assumes of its targets and statuses holds of LedCalib's.
LEMMA SyncAssumptions == Proofs!TargetAssumption /\ Proofs!StatusAssumption
<1>1. Proofs!Partitions = Half /\ Proofs!Addresses = 0..255
  BY DEF Proofs!Partitions, Proofs!Addresses, Half
<1>2. ASSUME NEW c \in Confs, c.timing_address \in 0..255
      PROVE  TargetOf(c) \in [part : Half, addr : 0..255, iface : Nat]
  BY <1>2, ConfsAssumption DEF TargetOf
<1>3. Proofs!TargetAssumption
  BY <1>1, <1>2 DEF Proofs!TargetAssumption
<1>4. Proofs!StatusAssumption
  BY BoundsAssumption DEF Proofs!StatusAssumption
<1> QED
  BY <1>3, <1>4

\* So of every behaviour that LedCalib shows to PdtsSync its theorems hold.
LEMMA SyncTypes == Sync!Spec => []Sync!TypeOK
<1>1. Proofs!Spec => []Proofs!TypeOK
  BY SyncAssumptions, Proofs!TypeCorrect
<1>2. Proofs!ControlWords = Sync!ControlWords
  BY DEF Proofs!ControlWords, Sync!ControlWords, Proofs!Partitions,
         Sync!Partitions, Proofs!Addresses, Sync!Addresses
<1>3. /\ Proofs!NoTarget = Sync!NoTarget
      /\ Proofs!MaxTries = Sync!MaxTries
      /\ Proofs!ClockInternal = Sync!ClockInternal
      /\ Proofs!ClockExternal = Sync!ClockExternal
      /\ Proofs!PulserMode = Sync!PulserMode
  BY DEF Proofs!NoTarget, Sync!NoTarget, Proofs!MaxTries, Sync!MaxTries,
         Proofs!ClockInternal, Sync!ClockInternal, Proofs!ClockExternal,
         Sync!ClockExternal, Proofs!PulserMode, Sync!PulserMode
<1>4. Proofs!TypeOK => Sync!TypeOK
  BY <1>2, <1>3 DEF Proofs!TypeOK, Sync!TypeOK
<1> QED
  BY SameSpec, <1>1, <1>4, PTL

LEMMA SyncTarget == Sync!Spec => []Sync!SyncedToTarget
<1>1. Proofs!Spec => []Proofs!SyncedToTarget
  BY SyncAssumptions, Proofs!TargetReached
<1>2. Proofs!SyncedToTarget => Sync!SyncedToTarget
  BY DEF Proofs!SyncedToTarget, Sync!SyncedToTarget, Proofs!ControlMatches,
         Sync!ControlMatches, Proofs!DspExternal, Sync!DspExternal
<1> QED
  BY SameSpec, <1>1, <1>2, PTL
-----------------------------------------------------------------------------
(***************************************************************************)
(* What single writes make of the registers.                               *)
(***************************************************************************)
\* The words that conf writes are words, also under a mask or from behind the
\* values of an entry.
LEMMA LowBitsType ==
  ASSUME NEW w \in AnyWords, NEW n \in {2, 4096}, NEW v \in Nat
  PROVE  LowBits(w, n, v) \in AnyWords
<1> DEFINE l == w.lo - (w.lo % n) + (v % n)
<1>1. w.hi \in Half \cup {65536} /\ w.lo \in Half
  BY DEF AnyWords
<1>2. w.lo \in Nat /\ w.lo <= 65535
  <2> DEFINE y == w.lo
  <2>1. y \in Half
    BY <1>1
  <2> HIDE DEF y
  <2>2. y \in Nat /\ y <= 65535
    BY <2>1, HalfRange
  <2> QED
    BY <2>2 DEF y
<1>3. l \in Nat /\ l <= 65535
  <2> DEFINE x == w.lo
  <2>1. x \in Nat /\ x <= 65535
    BY <1>2
  <2> HIDE DEF x
  <2>2. CASE n = 2
    BY <2>1, <2>2 DEF x
  <2>3. CASE n = 4096
    BY <2>1, <2>3 DEF x
  <2> QED
    BY <2>2, <2>3
<1>4. l \in Half
  BY <1>3, HalfRange
<1>5. LowBits(w, n, v) = [hi |-> w.hi, lo |-> l]
  BY DEF LowBits, Word
<1> HIDE DEF l
<1> QED
  BY <1>1, <1>4, <1>5 DEF AnyWords

LEMMA MaskedWords ==
  \A w \in AnyWords, v \in Nat :
    LowBits(w, 4096, v) \in AnyWords /\ LowBits(w, 2, v) \in AnyWords
BY LowBitsType

LEMMA EntryWordType ==
  ASSUME NEW e \in Entries
  PROVE  EntryWord(e) \in AnyWords /\ e.reg \in ConfRegs
<1>1. 0 \in Half /\ 1 \in Half
  BY HalfRange
<1>2. e.val \in Words /\ e.reg \in ConfRegs
  BY DEF Entries
<1>3. e.val \in AnyWords
  BY <1>2 DEF Words, AnyWords
<1> QED
  BY <1>1, <1>2, <1>3 DEF EntryWord, Unknown, Merged, Word, AnyWords

\* The constants that conf writes, and the count of pulses, cut into halves.
LEMMA ConstantWords ==
  /\ Word(0, 512) \in AnyWords
  /\ Word(3, 54) \in AnyWords
  /\ Word(32768, 0) \in AnyWords
BY HalfRange DEF Word, AnyWords

\* A count that fits, the word of its halves, and what that word is worth.
Fits(n)   == n \div 65536 <= 65535
WordOf(n) == Word(n \div 65536, n % 65536)
Value(w)  == w.hi * 65536 + w.lo

LEMMA CountWord ==
  ASSUME NEW n \in Nat, Fits(n)
  PROVE  WordOf(n) \in AnyWords /\ Value(WordOf(n)) = n
<1> DEFINE d == 65536
           hi == n \div d
           lo == n % d
<1>1. /\ hi \in Nat /\ lo \in Nat /\ lo <= 65535
      /\ n = hi * 65536 + lo
  <2>1. d \in Nat \ {0}
    OBVIOUS
  <2> HIDE DEF d
  <2>2. hi \in Nat /\ lo \in 0..d-1 /\ n = hi * d + lo
    BY <2>1, DivMod
  <2> HIDE DEF hi, lo
  <2>3. lo \in Nat /\ lo <= d - 1
    BY <2>1, <2>2
  <2>4. hi \in Nat /\ n = hi * d + lo
    BY <2>2
  <2> QED
    BY <2>3, <2>4 DEF d
<1>2. hi <= 65535
  BY DEF Fits
<1>3. WordOf(n) = [hi |-> hi, lo |-> lo]
  BY DEF WordOf, Word
<1> HIDE DEF hi, lo
<1>4. hi \in Half /\ lo \in Half
  BY <1>1, <1>2, HalfRange
<1>5. WordOf(n) \in AnyWords
  BY <1>3, <1>4 DEF AnyWords
<1>6. Value(WordOf(n)) = hi * 65536 + lo
  BY <1>3 DEF Value
<1> QED
  BY <1>1, <1>5, <1>6

\* A literal entry: the registers are as asked for by one entry more.
LEMMA AskedNext ==
  ASSUME NEW c \in Confs, NEW n \in 0..Len(c.hardware_configuration) - 1,
         NEW f \in [ConfRegs -> AnyWords], AllAsked(c, n, f)
  PROVE  LET e == c.hardware_configuration[n + 1]
             written == IF Applies(e) THEN [f EXCEPT ![e.reg] = EntryWord(e)]
                                      ELSE f
         IN  written \in [ConfRegs -> AnyWords] /\ AllAsked(c, n + 1, written)
<1> DEFINE hc == c.hardware_configuration
           e == hc[n + 1]
           written == IF Applies(e) THEN [f EXCEPT ![e.reg] = EntryWord(e)]
                                    ELSE f
<1>1. hc \in Seq(Entries) /\ Len(hc) \in Nat /\ n \in Nat
  BY ConfsAssumption
<1>2. e \in Entries
  BY <1>1
<1>3. EntryWord(e) \in AnyWords /\ e.reg \in ConfRegs
  BY <1>2, EntryWordType
<1>4. written \in [ConfRegs -> AnyWords]
  BY <1>3
<1>5. ASSUME NEW r \in ConfRegs PROVE AskedIn(c, r, n + 1, written[r])
  <2>1. AskedIn(c, r, n, f[r])
    BY DEF AllAsked
  <2>2. CASE Applies(e) /\ e.reg = r
    <3>1. /\ n + 1 \in LiteralsIn(c, r, n + 1)
          /\ \A j \in LiteralsIn(c, r, n + 1) : j <= n + 1
      BY <1>1, <2>2 DEF LiteralsIn, Applies
    <3>2. e.size = 2 => written[r] = e.val
      <4>1. e.size = 2 => EntryWord(e) = e.val
        BY DEF EntryWord
      <4> QED
        BY <2>2, <4>1
    <3> HIDE DEF written
    <3> QED
      BY <3>1, <3>2 DEF AskedIn
  <2>3. CASE ~(Applies(e) /\ e.reg = r)
    <3>1. LiteralsIn(c, r, n + 1) = LiteralsIn(c, r, n)
      BY <1>1, <2>3 DEF LiteralsIn, Applies
    <3>2. written[r] = f[r]
      BY <1>3, <2>3
    <3> HIDE DEF written
    <3> QED
      BY <2>1, <3>1, <3>2 DEF AskedIn
  <2> QED
    BY <2>2, <2>3
<1> HIDE DEF written
<1>6. AllAsked(c, n + 1, written)
  BY <1>5 DEF AllAsked
<1> QED
  BY <1>4, <1>6 DEF written

\* Before the first entry the registers are as asked for by the pulse mode.
LEMMA AskedFirst ==
  ASSUME NEW c, NEW f,
         f["pdts_cmd_control_1"] = Word(0, 512),
         f["cal_count"].hi * 65536 + f["cal_count"].lo
           = ModeValueOf(c, "cal_count")
  PROVE  AllAsked(c, 0, f)
<1>1. \A r : LiteralsIn(c, r, 0) = {}
  BY DEF LiteralsIn
<1>2. Word(0, 512).hi * 65536 + Word(0, 512).lo = 512
  BY DEF Word
<1>3. ModeValueOf(c, "pdts_cmd_control_1") = 512
  BY DEF ModeValueOf
<1> QED
  BY <1>1, <1>2, <1>3 DEF AllAsked, AskedIn

\* One channel more has its bias; if it is the one that takes its bias from
\* channel 6, that of channel 6 is still to come.
LEMMA BiasedNext ==
  ASSUME NEW c, ValidConf(c), NEW n \in Nat, n < c.number_channels,
         NEW f \in [Channels -> Nat], Biased(f, c, n), NEW v, v = BiasOf(c, n)
  PROVE  LET g == [f EXCEPT ![Base(c.number_channels) + n] = v]
         IN  /\ Base(c.number_channels) + n \in Channels
             /\ Biased(g, c, n)
             /\ g[Base(c.number_channels) + n] = v
             /\ ~(n = 7 /\ 7 \in c.channel_mask) => Biased(g, c, n + 1)
<1> DEFINE b == Base(c.number_channels)
           g == [f EXCEPT ![b + n] = v]
<1>1. b \in Nat /\ c.number_channels \in Nat /\ b + c.number_channels = 12
  BY BoardSize
<1> HIDE DEF b
<1>2. b + n \in Channels
  BY <1>1 DEF Channels
<1>3. g[b + n] = v /\ \A k \in 0..n-1 : g[b + k] = f[b + k]
  BY <1>1, <1>2 DEF Channels
<1>4. \A k \in 0..n-1 : f[b + k] = SharedBiasOf(c, k, n)
  BY DEF Biased, b
<1> HIDE DEF g
<1>5. Biased(g, c, n)
  BY <1>3, <1>4 DEF Biased, b
<1>6. ASSUME ~(n = 7 /\ 7 \in c.channel_mask) PROVE Biased(g, c, n + 1)
  <2>1. ASSUME NEW k \in 0..n-1
        PROVE  SharedBiasOf(c, k, n + 1) = SharedBiasOf(c, k, n)
    BY <1>6 DEF SharedBiasOf
  <2>2. SharedBiasOf(c, n, n + 1) = BiasOf(c, n)
    BY DEF SharedBiasOf
  <2>3. ASSUME NEW k \in 0..(n+1)-1 PROVE g[b + k] = SharedBiasOf(c, k, n + 1)
    BY <1>3, <1>4, <2>1, <2>2
  <2> QED
    BY <2>3 DEF Biased, b
<1> QED
  BY <1>2, <1>3, <1>5, <1>6 DEF g, b

\* Channel 6 gets the bias of channel 7.
LEMMA BiasedShared ==
  ASSUME NEW c, ValidConf(c), 7 < c.number_channels, 7 \in c.channel_mask,
         NEW f \in [Channels -> Nat], Biased(f, c, 7),
         f[Base(c.number_channels) + 7] = BiasOf(c, 7)
  PROVE  /\ Base(c.number_channels) + 7 - 1 \in Channels
         /\ Biased([f EXCEPT ![Base(c.number_channels) + 7 - 1] = BiasOf(c, 7)],
                   c, 8)
<1> DEFINE g == [f EXCEPT ![6] = BiasOf(c, 7)]
<1>1. Base(c.number_channels) = 0
  BY BoardSize DEF Base
<1>2. \A k \in 0..6 : f[k] = SharedBiasOf(c, k, 7)
  BY <1>1 DEF Biased
<1>3. /\ g[6] = BiasOf(c, 7) /\ g[7] = BiasOf(c, 7)
      /\ \A k \in 0..5 : g[k] = f[k]
  BY <1>1 DEF Channels
<1>4. /\ \A k \in 0..5 : SharedBiasOf(c, k, 8) = SharedBiasOf(c, k, 7)
      /\ SharedBiasOf(c, 6, 8) = BiasOf(c, 7)
      /\ SharedBiasOf(c, 7, 8) = BiasOf(c, 7)
  BY DEF SharedBiasOf
<1> HIDE DEF g
<1>5. \A k \in 0..7 : g[k] = SharedBiasOf(c, k, 8)
  BY <1>2, <1>3, <1>4
<1>6. Biased(g, c, 8)
  BY <1>1, <1>5 DEF Biased
<1>7. Base(c.number_channels) + 7 - 1 = 6 /\ 6 \in Channels
  BY <1>1 DEF Channels
<1>8. [f EXCEPT ![Base(c.number_channels) + 7 - 1] = BiasOf(c, 7)] = g
  BY <1>7, Zenon DEF g
<1> QED
  BY <1>6, <1>7, <1>8, Zenon

LEMMA TimedNext ==
  ASSUME NEW c, ValidConf(c), NEW n \in Nat, n < c.number_channels,
         NEW t \in [Channels -> Words], Timed(t, c, n),
         NEW v, v = TimingOf(c, n)
  PROVE  /\ Base(c.number_channels) + n \in Channels
         /\ Timed([t EXCEPT ![Base(c.number_channels) + n] = v], c, n + 1)
<1> DEFINE b == Base(c.number_channels)
           u == [t EXCEPT ![b + n] = v]
<1>1. b \in Nat /\ c.number_channels \in Nat /\ b + c.number_channels = 12
  BY BoardSize
<1>4. \A k \in 0..n-1 : t[b + k] = TimingOf(c, k)
  BY DEF Timed
<1> HIDE DEF b
<1>2. b + n \in Channels
  BY <1>1 DEF Channels
<1>3. u[b + n] = v /\ \A k \in 0..n-1 : u[b + k] = t[b + k]
  BY <1>1, <1>2 DEF Channels
<1> HIDE DEF u
<1>5. \A k \in 0..(n+1)-1 : u[b + k] = TimingOf(c, k)
  BY <1>3, <1>4
<1> QED
  BY <1>2, <1>5 DEF Timed, u, b

LEMMA AllAtNext ==
  ASSUME NEW S, NEW f \in [Channels -> S], NEW n \in 0..4, NEW v \in S,
         AllAt(f, n, v)
  PROVE  /\ 7 + n \in Channels
         /\ AllAt([f EXCEPT ![7 + n] = v], n, v)
         /\ AllAt([f EXCEPT ![7 + n] = v], n + 1, v)
<1> DEFINE g == [f EXCEPT ![7 + n] = v]
<1>1. 7 + n \in Channels
  BY DEF Channels
<1>2. g[7 + n] = v /\ \A k \in 0..n-1 : g[7 + k] = f[7 + k]
  BY <1>1 DEF Channels
<1> HIDE DEF g
<1>3. \A k \in 0..(n+1)-1 : g[7 + k] = v
  BY <1>2 DEF AllAt
<1>4. AllAt(g, n, v) /\ AllAt(g, n + 1, v)
  BY <1>3 DEF AllAt
<1> QED
  BY <1>1, <1>4 DEF g
-----------------------------------------------------------------------------
(***************************************************************************)
(* The invariant.                                                          *)
(***************************************************************************)
\* A process that starts on a fresh board satisfies the invariant.
THEOREM Initially == Init => IInv
<1> SUFFICES ASSUME Init PROVE IInv
  OBVIOUS
<1>1. OwnTypeOK
  <2>1. 0 \in Half
    BY HalfRange
  <2>2. Zero \in Words /\ Zero \in AnyWords /\ BiasOff \in Nat
    BY <2>1 DEF Zero, Word, Words, AnyWords, BiasOff
  <2>3. 0 \in 0..MaxFaults
    BY BoundsAssumption
  <2>4. counter \in 0..(IF step = "literals"
                          THEN Len(m_cfg.hardware_configuration) ELSE 12)
    BY DEF Init
  <2>5. /\ bias \in [Channels -> Nat] /\ dac \in [Channels -> Nat]
        /\ timing \in [Channels -> Words] /\ reg \in [ConfRegs -> AnyWords]
    BY <2>2 DEF Init
  <2> QED
    BY <2>3, <2>4, <2>5 DEF Init, OwnTypeOK
<1>2. CommandOrder
  BY DEF Init, CommandOrder
<1>3. SyncOrder
  BY DEF Init, SyncOrder, Sync!Init, BeforeClock, AfterClock
<1>4. ConfOrder
  BY DEF Init, ConfOrder
<1>5. StartProgress /\ StartDone /\ StopProgress /\ StopDone
  BY DEF Init, StartProgress, StartDone, StopProgress, StopDone, Idle
<1> QED
  BY <1>1, <1>2, <1>3, <1>4, <1>5 DEF IInv

ConfSteps  == {"sync"} \cup BeforeClock \cup AfterClock
PulseSteps == {"bias", "shared_bias", "timing", "apply"}

\* What is known of the settings when a command needs them.
LEMMA KnownSettings ==
  ASSUME IInv, cmd # "none"
  PROVE  m_cfg \in Confs /\ ValidConf(m_cfg)
BY DEF IInv, CommandOrder, OwnTypeOK

\* A command that fails leaves the application where it is.  A conf gives up its
\* synchronisation; start and stop leave all but the pulse registers alone.
LEMMA CommandFails ==
  ASSUME IInv, cmd # "none",
         cmd' = "none", step' = "none", counter' = 0,
         last' = <<cmd, "failed">>, app' = app,
         UNCHANGED <<m_configured, m_cfg, m_run_marker>>,
         m_single_pulse' \in BOOLEAN, m_burst_mode' \in BOOLEAN,
         faults' \in 0..MaxFaults,
         bias' \in [Channels -> Nat], dac' \in [Channels -> Nat],
         timing' \in [Channels -> Words], reg' \in [ConfRegs -> AnyWords],
         cmd = "conf" => pc' = "idle",
         cmd # "conf" => UNCHANGED <<m_single_pulse, m_burst_mode, reg>>,
         cmd # "conf" => UNCHANGED <<pc, want>>
  PROVE  IInv'
<1>1. cmd \in {"conf", "start", "stop"}
  BY DEF IInv, OwnTypeOK
<1>2. OwnTypeOK'
  BY <1>1 DEF IInv, OwnTypeOK
<1>3. CommandOrder'
  BY DEF IInv, CommandOrder
<1>4. SyncOrder'
  BY <1>1 DEF IInv, CommandOrder, SyncOrder, BeforeClock, AfterClock
<1>5. ConfOrder'
  <2>1. CASE cmd = "conf"
    BY <2>1 DEF IInv, CommandOrder, ConfOrder
  <2>2. CASE cmd # "conf"
    BY <2>2 DEF IInv, ConfOrder, FlagsAsAsked
  <2> QED
    BY <2>1, <2>2
<1>6. StartProgress' /\ StopProgress'
  BY DEF StartProgress, StopProgress
<1>7. ~(Idle("start")') /\ ~(Idle("stop")')
  BY DEF Idle
<1>8. ~(m_run_marker' /\ app' = "CONFIGURED")
  BY <1>1 DEF IInv, CommandOrder
<1>9. StartDone' /\ StopDone'
  BY <1>7, <1>8 DEF StartDone, StopDone, Idle
<1> QED
  BY <1>2, <1>3, <1>4, <1>5, <1>6, <1>9 DEF IInv

\* A conf that goes on has the synchronisation and the registers to keep up.
LEMMA ConfGoes ==
  ASSUME IInv, cmd = "conf",
         UNCHANGED <<cmd, app, last, m_configured, m_cfg, m_run_marker>>,
         UNCHANGED <<bias, dac, timing, faults>>,
         m_single_pulse' \in BOOLEAN, m_burst_mode' \in BOOLEAN,
         reg' \in [ConfRegs -> AnyWords],
         step' \in ConfSteps,
         counter' \in 0..(IF step' = "literals"
                            THEN Len(m_cfg.hardware_configuration) ELSE 12),
         SyncOrder', ConfOrder'
  PROVE  IInv'
<1>1. OwnTypeOK'
  BY DEF IInv, OwnTypeOK, ConfSteps, BeforeClock, AfterClock, AfterStep
<1>2. CommandOrder'
  BY DEF IInv, CommandOrder, ConfSteps
<1>3. StartProgress' /\ StopProgress'
  BY DEF StartProgress, StopProgress
<1>4. ~(Idle("start")') /\ ~(Idle("stop")')
  BY DEF Idle
<1>5. app' = "INITIAL"
  BY DEF IInv, CommandOrder
<1>6. StartDone' /\ StopDone'
  BY <1>4, <1>5 DEF StartDone, StopDone, Idle
<1> QED
  BY <1>1, <1>2, <1>3, <1>6 DEF IInv

\* A start or stop that goes on has its loop to keep up.
LEMMA PulseGoes ==
  ASSUME IInv, cmd \in {"start", "stop"},
         UNCHANGED <<cmd, app, last, m_configured, m_cfg, m_run_marker>>,
         UNCHANGED <<m_single_pulse, m_burst_mode, reg, pc, want, faults, dac>>,
         bias' \in [Channels -> Nat], timing' \in [Channels -> Words],
         step' \in PulseSteps, step' = "shared_bias" => cmd = "start",
         counter' \in 0..12,
         StartProgress', StopProgress'
  PROVE  IInv'
<1>1. OwnTypeOK'
  BY DEF IInv, OwnTypeOK, PulseSteps
<1>2. CommandOrder'
  BY DEF IInv, CommandOrder, PulseSteps
<1>3. SyncOrder'
  BY DEF IInv, SyncOrder, PulseSteps, BeforeClock, AfterClock
<1>4. ConfOrder'
  BY DEF IInv, ConfOrder, FlagsAsAsked, PulseSteps
<1>5. ~(Idle("start")') /\ ~(Idle("stop")')
  BY DEF Idle
<1>6. ~(m_run_marker' /\ app' = "CONFIGURED")
  BY DEF IInv, CommandOrder
<1>7. StartDone' /\ StopDone'
  BY <1>5, <1>6 DEF StartDone, StopDone, Idle
<1> QED
  BY <1>1, <1>2, <1>3, <1>4, <1>7 DEF IInv

\* Between commands only a command or the end of the process changes anything
\* but the moves of the endpoint; a command that ends at once changes little.
LEMMA EndsAtOnce ==
  ASSUME IInv, cmd = "none",
         cmd' = "none", step' = "none", counter' = 0,
         UNCHANGED <<m_configured, m_run_marker, m_single_pulse, m_burst_mode>>,
         UNCHANGED <<bias, dac, timing, reg, faults, pc, want>>,
         m_configured => m_cfg' = m_cfg,
         m_cfg' \in Confs \cup {NoConf},
         \/ last' \in {"conf"} \X {"ok", "failed"}
         \/ last' = <<"start", "ok">> /\ app = "CONFIGURED" /\ m_run_marker,
         \/ app' = app
         \/ app = "INITIAL" /\ m_configured /\ app' = "CONFIGURED"
         \/ app = "CONFIGURED" /\ app' = "RUNNING" /\ m_run_marker
  PROVE  IInv'
<1>1. OwnTypeOK'
  BY DEF IInv, OwnTypeOK
<1>2. CommandOrder'
  BY DEF IInv, CommandOrder
<1>3. SyncOrder'
  BY DEF IInv, SyncOrder, BeforeClock, AfterClock
<1>4. ConfOrder'
  BY DEF IInv, ConfOrder, FlagsAsAsked
<1>5. StartProgress' /\ StopProgress'
  BY DEF StartProgress, StopProgress
<1>6. StartDone'
  <2>1. ASSUME Idle("start")'
        PROVE  app = "CONFIGURED" /\ m_run_marker
    BY <2>1 DEF Idle
  <2>2. ASSUME m_run_marker', app' = "CONFIGURED"
        PROVE  app = "CONFIGURED" /\ m_run_marker
    BY <2>2 DEF IInv, CommandOrder
  <2>3. ASSUME app = "CONFIGURED", m_run_marker
        PROVE  /\ Biased(dac, m_cfg, m_cfg.number_channels)'
               /\ Timed(timing, m_cfg, m_cfg.number_channels)'
               /\ app' # "INITIAL"
    BY <2>3 DEF IInv, StartDone, CommandOrder
  <2>4. ASSUME Idle("start")' PROVE app' # "INITIAL"
    BY <2>1, <2>3, <2>4
  <2> QED
    BY <2>1, <2>2, <2>3, <2>4 DEF StartDone
<1>7. StopDone'
  BY DEF StopDone, Idle
<1> QED
  BY <1>1, <1>2, <1>3, <1>4, <1>5, <1>6, <1>7 DEF IInv
-----------------------------------------------------------------------------
\* Commands that end at once, and commands that begin.
LEMMA CommandsKeep ==
  ASSUME IInv, CommandArrives
  PROVE  IInv'
<1>1. ASSUME NEW c \in Confs, ConfRefused(c) PROVE IInv'
  <2>1. m_cfg \in Confs \cup {NoConf}
    BY DEF IInv, OwnTypeOK
  <2> QED
    BY <1>1, <2>1, EndsAtOnce
       DEF ConfRefused, CanStart, Ends, wrapper, pulseRegs, syncVars, IInv,
           CommandOrder
<1>2. ASSUME NEW c \in Confs, ConfAddressRefused(c) PROVE IInv'
  BY <1>2, EndsAtOnce
     DEF ConfAddressRefused, CanStart, Ends, pulseRegs, syncVars, IInv,
         CommandOrder
<1>3. ASSUME NEW c \in Confs, ConfBegins(c) PROVE IInv'
  <2> USE <1>3 DEF ConfBegins, CanStart
  <2>1. /\ app = "INITIAL" /\ cmd = "none" /\ ~m_configured /\ ValidConf(c)
        /\ m_cfg' = c /\ cmd' = "conf" /\ step' = "sync"
        /\ pc' = "open" /\ want' = TargetOf(c)
        /\ UNCHANGED <<app, m_configured, counter, last, faults>>
        /\ UNCHANGED <<m_run_marker, m_single_pulse, m_burst_mode>>
        /\ UNCHANGED <<bias, dac, timing, reg>>
    BY DEF Sync!Configure, pulseRegs
  <2> USE <2>1
  <2>2. OwnTypeOK'
    BY DEF IInv, OwnTypeOK, CommandOrder
  <2>3. CommandOrder'
    BY DEF IInv, CommandOrder
  <2>4. SyncOrder'
    BY DEF SyncOrder, SyncPoints, BeforeClock, AfterClock
  <2>5. ConfOrder'
    BY DEF ConfOrder, BeforeMode
  <2>6. StartProgress' /\ StartDone' /\ StopProgress' /\ StopDone'
    BY DEF StartProgress, StartDone, StopProgress, StopDone, Idle
  <2> QED
    BY <2>2, <2>3, <2>4, <2>5, <2>6 DEF IInv
<1>4. CASE ConfAgain
  <2>1. m_cfg \in Confs \cup {NoConf}
    BY DEF IInv, OwnTypeOK
  <2>2. app' \in {app, "CONFIGURED"}
    BY <1>4 DEF ConfAgain, Ends, Exit
  <2> QED
    BY <1>4, <2>1, <2>2, EndsAtOnce
       DEF ConfAgain, CanStart, Ends, wrapper, pulseRegs, syncVars
<1>5. CASE StartAgain
  <2>1. m_cfg \in Confs \cup {NoConf}
    BY DEF IInv, OwnTypeOK
  <2>2. app' \in {app, "RUNNING"}
    BY <1>5 DEF StartAgain, Ends, Exit
  <2> QED
    BY <1>5, <2>1, <2>2, EndsAtOnce
       DEF StartAgain, CanStart, Ends, wrapper, pulseRegs, syncVars
<1>6. CASE StartBegins \/ StopBegins
  <2>1. /\ cmd = "none" /\ counter = 0
        /\ \/ app = "CONFIGURED" /\ cmd' = "start" /\ ~m_run_marker
           \/ app = "RUNNING" /\ cmd' = "stop"
        /\ step' = "bias"
        /\ UNCHANGED <<app, m_configured, m_cfg, counter, last, faults>>
        /\ UNCHANGED <<m_run_marker, m_single_pulse, m_burst_mode>>
        /\ UNCHANGED <<bias, dac, timing, reg, pc, want>>
    BY <1>6 DEF StartBegins, StopBegins, CanStart, wrapper, pulseRegs,
                syncVars, IInv, CommandOrder
  <2>2. OwnTypeOK'
    BY <2>1 DEF IInv, OwnTypeOK
  <2>3. CommandOrder'
    BY <2>1 DEF IInv, CommandOrder
  <2>4. SyncOrder'
    BY <2>1 DEF IInv, CommandOrder, SyncOrder, BeforeClock, AfterClock
  <2>5. ConfOrder'
    BY <2>1 DEF IInv, ConfOrder, FlagsAsAsked, CommandOrder
  <2>6. StartProgress'
    <3>1. ASSUME cmd' = "start" PROVE m_cfg.number_channels \in {5, 12}
      BY <2>1, <3>1, BoardSize DEF IInv, CommandOrder
    <3>2. Biased(bias', m_cfg, 0) /\ Timed(timing', m_cfg, 0)
      BY DEF Biased, Timed
    <3> QED
      BY <2>1, <3>1, <3>2 DEF StartProgress
  <2>7. StopProgress'
    <3>1. AllAt(bias', 0, BiasOff) /\ AllAt(timing', 0, Zero)
      BY DEF AllAt
    <3> QED
      BY <2>1, <3>1 DEF StopProgress
  <2>8. StartDone' /\ StopDone'
    BY <2>1 DEF StartDone, StopDone, Idle
  <2> QED
    BY <2>2, <2>3, <2>4, <2>5, <2>6, <2>7, <2>8 DEF IInv
<1> QED
  BY <1>1, <1>2, <1>3, <1>4, <1>5, <1>6 DEF CommandArrives

\* The steps of conf.  A write that throws ends it; of one that goes on, the
\* conjuncts about the synchronisation and the registers are left.
LEMMA ConfThrows ==
  ASSUME IInv, cmd = "conf", Fault, pc' = "idle",
         UNCHANGED <<m_configured, m_cfg, m_run_marker>>,
         UNCHANGED <<m_single_pulse, m_burst_mode, bias, dac, timing>>,
         reg' \in [ConfRegs -> AnyWords]
  PROVE  IInv'
<1>1. faults' \in 0..MaxFaults
  BY BoundsAssumption DEF Fault, IInv, OwnTypeOK
<1>2. /\ cmd' = "none" /\ step' = "none" /\ counter' = 0
      /\ last' = <<cmd, "failed">> /\ app' = app
  BY DEF Fault, Ends
<1>3. /\ m_single_pulse' \in BOOLEAN /\ m_burst_mode' \in BOOLEAN
      /\ bias' \in [Channels -> Nat] /\ dac' \in [Channels -> Nat]
      /\ timing' \in [Channels -> Words]
  BY DEF IInv, OwnTypeOK
<1> QED
  BY <1>1, <1>2, <1>3, CommandFails

\* Where a step of conf leads to.
LEMMA NextSteps ==
  /\ AfterStep["module_id"] = "interface" /\ AfterStep["interface"] = "mode"
  /\ AfterStep["mode"] = "cmd_control_1"
  /\ AfterStep["cmd_control_1"] = "cmd_delay"
  /\ AfterStep["cmd_delay"] = "cmd_control_2"
  /\ AfterStep["cmd_control_2"] = "pulser_mode"
  /\ AfterStep["pulser_mode"] = "cal_count"
  /\ AfterStep["cal_count"] = "literals"
  /\ AfterStep["literals"] = "done"
BY DEF AfterStep

LEMMA ConfSyncsKeeps ==
  ASSUME IInv, ConfSyncs
  PROVE  IInv'
<1>1. cmd = "conf" /\ app = "INITIAL" /\ ~m_configured
  BY DEF ConfSyncs, IInv, CommandOrder, OwnTypeOK, PulseSteps
<1>2. want' = want /\ pc' \in SyncPoints \cup {"idle", "synced"}
  BY SyncStepPlaces DEF ConfSyncs
<1>3. /\ UNCHANGED <<m_configured, m_cfg, m_run_marker>>
      /\ UNCHANGED <<m_single_pulse, m_burst_mode, bias, dac, timing, reg>>
  BY DEF ConfSyncs, wrapper, pulseRegs
<1>4. /\ m_single_pulse' \in BOOLEAN /\ m_burst_mode' \in BOOLEAN
      /\ bias' \in [Channels -> Nat] /\ dac' \in [Channels -> Nat]
      /\ timing' \in [Channels -> Words]
      /\ reg' \in [ConfRegs -> AnyWords] /\ faults \in 0..MaxFaults
  BY <1>3 DEF IInv, OwnTypeOK
<1>5. CASE pc' = "idle"
  <2>1. CASE Fault
    BY <1>1, <1>3, <1>4, <1>5, <2>1, ConfThrows
  <2>2. CASE Ends("conf", "failed") /\ UNCHANGED faults
    <3>1. /\ cmd' = "none" /\ step' = "none" /\ counter' = 0
          /\ last' = <<cmd, "failed">> /\ app' = app
      BY <1>1, <2>2 DEF Ends
    <3> QED
      BY <1>1, <1>3, <1>4, <1>5, <2>2, <3>1, CommandFails
  <2> QED
    BY <1>5, <2>1, <2>2 DEF ConfSyncs
<1>6. CASE pc' # "idle"
  <2>1. /\ UNCHANGED <<cmd, app, last, faults>>
        /\ step' = IF pc' = "synced" THEN "module_id" ELSE "sync"
        /\ counter' = 0
    BY <1>6 DEF ConfSyncs, GoesTo
  <2>2. SyncOrder'
    BY <1>1, <1>2, <1>3, <1>6, <2>1
       DEF IInv, SyncOrder, SyncPoints, BeforeClock, AfterClock
  <2>3. ConfOrder'
    BY <1>1, <1>3, <2>1 DEF ConfOrder, BeforeMode
  <2>4. step' \in ConfSteps
    BY <2>1 DEF ConfSteps, BeforeClock
  <2> QED
    BY <1>1, <1>3, <1>4, <2>1, <2>2, <2>3, <2>4, ConfGoes
<1> QED
  BY <1>5, <1>6

\* One of the writes to a register of conf.
LEMMA ConfWritesKeeps ==
  ASSUME IInv,
         NEW s \in {"module_id", "interface", "cmd_control_1", "cmd_delay",
                    "cmd_control_2", "cal_count"},
         NEW r \in ConfRegs, NEW v \in AnyWords, ConfWrites(s, r, v),
         s = "cmd_control_1" => r = "pdts_cmd_control_1" /\ v = Word(0, 512),
         s \notin {"cmd_control_1"} => r # "pdts_cmd_control_1",
         s = "cal_count" => AllAsked(m_cfg, 0, [reg EXCEPT ![r] = v])
  PROVE  IInv'
<1>1. /\ cmd = "conf" /\ step = s /\ app = "INITIAL" /\ ~m_configured
      /\ UNCHANGED <<m_configured, m_cfg, m_run_marker>>
      /\ UNCHANGED <<m_single_pulse, m_burst_mode, bias, dac, timing>>
  BY DEF ConfWrites, wrapper, pulseRegs, IInv, CommandOrder
<1>2. /\ reg \in [ConfRegs -> AnyWords]
      /\ m_single_pulse' \in BOOLEAN /\ m_burst_mode' \in BOOLEAN
  BY <1>1 DEF IInv, OwnTypeOK
<1>3. CASE /\ reg' \in {reg, [reg EXCEPT ![r] = v]}
           /\ Fault
           /\ LeaveSync
  <2>1. reg' \in [ConfRegs -> AnyWords] /\ pc' = "idle"
    BY <1>2, <1>3 DEF LeaveSync
  <2> QED
    BY <1>1, <1>3, <2>1, ConfThrows
<1>4. CASE /\ reg' = [reg EXCEPT ![r] = v]
           /\ ConfGoesOn
           /\ UNCHANGED <<faults, syncVars>>
  <2>1. /\ UNCHANGED <<cmd, app, last, faults, pc, want>>
        /\ step' = AfterStep[s]
        /\ counter' = 0
        /\ reg' = [reg EXCEPT ![r] = v]
        /\ reg' \in [ConfRegs -> AnyWords]
    BY <1>1, <1>2, <1>4 DEF ConfGoesOn, GoesTo, syncVars
  <2>2. step' \in ConfSteps
    BY <2>1, NextSteps DEF ConfSteps, BeforeClock, AfterClock
  <2>3. Len(m_cfg.hardware_configuration) \in Nat
    BY <1>1, KnownSettings, ConfsAssumption
  <2>4. SyncOrder'
    BY <1>1, <2>1, NextSteps DEF IInv, SyncOrder, BeforeClock, AfterClock
  <2>5. FlagsAsAsked /\ (step \notin BeforeMode) => FlagsAsAsked'
    BY <1>1 DEF FlagsAsAsked
  <2>6. step' \notin BeforeMode => step \notin BeforeMode \/ step = "mode"
    BY <1>1, <2>1, NextSteps DEF BeforeMode
  <2>7. step' \in {"cmd_delay", "cmd_control_2", "pulser_mode", "cal_count"}
          => reg'["pdts_cmd_control_1"] = Word(0, 512)
    <3>1. CASE s = "cmd_control_1"
      BY <1>2, <2>1, <3>1
    <3>2. CASE s \in {"cmd_delay", "cmd_control_2"}
      BY <1>1, <1>2, <2>1, <3>2 DEF IInv, ConfOrder, ConfRegs
    <3> QED
      BY <2>1, <3>1, <3>2, NextSteps
  <2>8. step' = "literals" => AllAsked(m_cfg', counter', reg')
    <3>1. step' = "literals" => s = "cal_count"
      BY <2>1, NextSteps
    <3>2. s = "cal_count" => AllAsked(m_cfg, 0, reg')
      BY <2>1
    <3> QED
      BY <1>1, <2>1, <3>1, <3>2
  <2>9. ConfOrder'
    BY <1>1, <2>1, <2>5, <2>6, <2>7, <2>8, NextSteps DEF IInv, ConfOrder
  <2> QED
    BY <1>1, <1>2, <2>1, <2>2, <2>3, <2>4, <2>9, ConfGoes
<1> QED
  BY <1>3, <1>4 DEF ConfWrites

LEMMA ConfWritesRegisterKeeps ==
  ASSUME IInv, ConfWritesRegister
  PROVE  IInv'
<1>1. cmd = "conf"
  BY DEF ConfWritesRegister, ConfWrites
<1>2. m_cfg \in Confs /\ ValidConf(m_cfg)
  BY <1>1, KnownSettings
<1>3. m_cfg.module_id \in Nat /\ m_cfg.interface_type \in Nat
  BY <1>2, ConfsAssumption
<1>4. \A r \in ConfRegs : reg[r] \in AnyWords
  BY DEF IInv, OwnTypeOK
<1>5. CASE ConfWrites("module_id", "module_id",
                      LowBits(reg["module_id"], 4096, m_cfg.module_id))
  <2>1. LowBits(reg["module_id"], 4096, m_cfg.module_id) \in AnyWords
    <3>1. reg["module_id"] \in AnyWords
      BY <1>4 DEF ConfRegs
    <3> QED
      BY <1>3, <3>1, MaskedWords, SMT
  <2> QED
    BY <1>5, <2>1, ConfWritesKeeps DEF ConfRegs
<1>6. CASE ConfWrites("interface", "eventDataInterfaceSelect",
                      LowBits(reg["eventDataInterfaceSelect"], 2,
                              m_cfg.interface_type))
  <2>1. LowBits(reg["eventDataInterfaceSelect"], 2, m_cfg.interface_type)
          \in AnyWords
    <3>1. reg["eventDataInterfaceSelect"] \in AnyWords
      BY <1>4 DEF ConfRegs
    <3> QED
      BY <1>3, <3>1, MaskedWords, SMT
  <2> QED
    BY <1>6, <2>1, ConfWritesKeeps DEF ConfRegs
<1>7. CASE ConfWrites("cmd_control_1", "pdts_cmd_control_1", Word(0, 512))
  BY <1>7, ConstantWords, ConfWritesKeeps DEF ConfRegs
<1>8. CASE ConfWrites("cmd_delay", "pdts_cmd_delay", Word(3, 54))
  BY <1>8, ConstantWords, ConfWritesKeeps DEF ConfRegs
<1>9. CASE ConfWrites("cmd_control_2", "pdts_cmd_control_2", Word(32768, 0))
  BY <1>9, ConstantWords, ConfWritesKeeps DEF ConfRegs
<1>10. CASE ConfWrites("cal_count", "cal_count",
                       Word(CalCount \div 65536, CalCount % 65536))
  <2> DEFINE w == Word(CalCount \div 65536, CalCount % 65536)
             f == [reg EXCEPT !["cal_count"] = w]
  <2>1. step = "cal_count"
    BY <1>10 DEF ConfWrites
  <2>2. FlagsAsAsked /\ reg["pdts_cmd_control_1"] = Word(0, 512)
    BY <1>1, <2>1 DEF IInv, ConfOrder, BeforeMode
  <2>3. /\ CalCount = ModeValueOf(m_cfg, "cal_count")
        /\ CalCount = m_cfg.burst_count \/ CalCount = 1
    BY <2>2 DEF CalCount, ModeValueOf, FlagsAsAsked
  <2>4. CalCount \in Nat /\ Fits(CalCount)
    <3>1. m_cfg.burst_count \in Nat /\ Fits(m_cfg.burst_count)
      BY <1>2, ConfsAssumption DEF Fits
    <3>2. 1 \in Nat /\ Fits(1)
      BY DEF Fits
    <3> QED
      BY <2>3, <3>1, <3>2
  <2>5. w \in AnyWords /\ w.hi * 65536 + w.lo = CalCount
    <3>1. WordOf(CalCount) \in AnyWords /\ Value(WordOf(CalCount)) = CalCount
      BY <2>4, CountWord
    <3>2. w = WordOf(CalCount)
      BY DEF WordOf
    <3> HIDE DEF w
    <3> QED
      BY <3>1, <3>2 DEF Value
  <2> HIDE DEF w
  <2>6. f["cal_count"] = w /\ f["pdts_cmd_control_1"] = Word(0, 512)
    BY <2>2 DEF IInv, OwnTypeOK, ConfRegs
  <2> HIDE DEF f
  <2>7. AllAsked(m_cfg, 0, f)
    BY <2>3, <2>5, <2>6, AskedFirst
  <2> QED
    BY <1>10, <2>5, <2>7, ConfWritesKeeps DEF ConfRegs, f, w
<1> QED
  BY <1>5, <1>6, <1>7, <1>8, <1>9, <1>10 DEF ConfWritesRegister

\* The mode flags: they were set for no other mode, or conf ends.
LEMMA ConfSetsModeKeeps ==
  ASSUME IInv, ConfSetsMode
  PROVE  IInv'
<1>1. /\ cmd = "conf" /\ step = "mode" /\ app = "INITIAL" /\ ~m_configured
      /\ UNCHANGED <<m_configured, m_cfg, m_run_marker>>
      /\ UNCHANGED <<bias, dac, timing, reg, faults>>
  BY DEF ConfSetsMode, pulseRegs, IInv, CommandOrder
<1>2. /\ m_single_pulse' = (m_single_pulse \/ m_cfg.pulse_mode = "single")
      /\ m_burst_mode' = (m_burst_mode \/ m_cfg.pulse_mode = "burst")
  BY DEF ConfSetsMode
<1>3. m_single_pulse' \in BOOLEAN /\ m_burst_mode' \in BOOLEAN
  BY <1>2
<1>4. /\ reg' \in [ConfRegs -> AnyWords] /\ timing' \in [Channels -> Words]
      /\ bias' \in [Channels -> Nat] /\ dac' \in [Channels -> Nat]
      /\ faults' \in 0..MaxFaults
  BY <1>1 DEF IInv, OwnTypeOK
<1>5. CASE m_single_pulse' /\ m_burst_mode'
  <2>1. /\ cmd' = "none" /\ step' = "none" /\ counter' = 0 /\ app' = app
        /\ last' = <<cmd, "failed">> /\ pc' = "idle"
    BY <1>1, <1>5 DEF ConfSetsMode, Ends, LeaveSync
  <2> QED
    BY <1>1, <1>3, <1>4, <2>1, CommandFails
<1>6. CASE ~(m_single_pulse' /\ m_burst_mode')
  <2>1. /\ UNCHANGED <<cmd, app, last, pc, want>>
        /\ step' = "cmd_control_1"
        /\ counter' = 0
    BY <1>1, <1>6, NextSteps DEF ConfSetsMode, ConfGoesOn, GoesTo, syncVars
  <2>2. ValidConf(m_cfg)
    BY <1>1, KnownSettings
  <2>3. FlagsAsAsked'
    BY <1>1, <1>2, <1>6, <2>2 DEF FlagsAsAsked, ValidConf
  <2>4. SyncOrder'
    BY <1>1, <2>1 DEF IInv, SyncOrder, BeforeClock, AfterClock
  <2>5. ConfOrder'
    BY <1>1, <2>1, <2>3 DEF ConfOrder
  <2>6. step' \in ConfSteps
    BY <2>1 DEF ConfSteps, BeforeClock
  <2> QED
    BY <1>1, <1>3, <1>4, <2>1, <2>4, <2>5, <2>6, ConfGoes
<1> QED
  BY <1>5, <1>6

LEMMA ConfWritesPulserModeKeeps ==
  ASSUME IInv, ConfWritesPulserMode
  PROVE  IInv'
<1>1. /\ cmd = "conf" /\ step = "pulser_mode"
      /\ app = "INITIAL" /\ ~m_configured
      /\ UNCHANGED <<m_configured, m_cfg, m_run_marker, want>>
      /\ UNCHANGED <<m_single_pulse, m_burst_mode, bias, dac, timing, reg>>
  BY DEF ConfWritesPulserMode, wrapper, pulseRegs, IInv, CommandOrder
<1>2. /\ reg' \in [ConfRegs -> AnyWords] /\ timing' \in [Channels -> Words]
      /\ m_single_pulse' \in BOOLEAN /\ m_burst_mode' \in BOOLEAN
  BY <1>1 DEF IInv, OwnTypeOK
<1>3. CASE pc' = "idle" /\ Fault
  BY <1>1, <1>2, <1>3, ConfThrows
<1>4. CASE pc' = "configured" /\ ConfGoesOn /\ UNCHANGED faults
  <2>1. /\ UNCHANGED <<cmd, app, last>>
        /\ step' = "cal_count"
        /\ counter' = 0
    BY <1>1, <1>4, NextSteps DEF ConfGoesOn, GoesTo
  <2>2. SyncOrder'
    BY <1>1, <1>4, <2>1 DEF IInv, SyncOrder, BeforeClock, AfterClock
  <2>3. ConfOrder'
    BY <1>1, <2>1 DEF IInv, ConfOrder, FlagsAsAsked, BeforeMode
  <2>4. step' \in ConfSteps
    BY <2>1 DEF ConfSteps, AfterClock
  <2> QED
    BY <1>1, <1>2, <1>4, <2>1, <2>2, <2>3, <2>4, ConfGoes
<1> QED
  BY <1>3, <1>4 DEF ConfWritesPulserMode

LEMMA ConfWritesLiteralKeeps ==
  ASSUME IInv, ConfWritesLiteral
  PROVE  IInv'
<1> DEFINE e == m_cfg.hardware_configuration[counter + 1]
           written == IF Applies(e) THEN [reg EXCEPT ![e.reg] = EntryWord(e)]
                                    ELSE reg
<1>1. /\ cmd = "conf" /\ step = "literals"
      /\ app = "INITIAL" /\ ~m_configured
      /\ counter < Len(m_cfg.hardware_configuration)
      /\ UNCHANGED <<m_configured, m_cfg, m_run_marker>>
      /\ UNCHANGED <<m_single_pulse, m_burst_mode, bias, dac, timing>>
  BY DEF ConfWritesLiteral, wrapper, pulseRegs, IInv, CommandOrder
<1>2. m_cfg \in Confs
  BY <1>1, KnownSettings
<1>3. Len(m_cfg.hardware_configuration) \in Nat
  BY <1>2, ConfsAssumption
<1>4. /\ counter \in Nat
      /\ counter \in 0..Len(m_cfg.hardware_configuration) - 1
  BY <1>1, <1>3 DEF IInv, OwnTypeOK
<1>5. /\ reg \in [ConfRegs -> AnyWords]
      /\ m_single_pulse' \in BOOLEAN /\ m_burst_mode' \in BOOLEAN
  BY <1>1 DEF IInv, OwnTypeOK
<1>6. AllAsked(m_cfg, counter, reg)
  BY <1>1 DEF IInv, ConfOrder
<1>7. /\ written \in [ConfRegs -> AnyWords]
      /\ AllAsked(m_cfg, counter + 1, written)
  BY <1>2, <1>4, <1>5, <1>6, AskedNext
<1>8. \/ /\ reg' = written
         /\ GoesTo("literals", counter + 1)
         /\ UNCHANGED <<faults, syncVars>>
      \/ /\ reg' \in {reg, written}
         /\ Fault
         /\ LeaveSync
  BY DEF ConfWritesLiteral
<1> HIDE DEF written
<1>9. CASE reg' \in {reg, written} /\ Fault /\ LeaveSync
  <2>1. reg' \in [ConfRegs -> AnyWords] /\ pc' = "idle"
    BY <1>5, <1>7, <1>9 DEF LeaveSync
  <2> QED
    BY <1>1, <1>9, <2>1, ConfThrows
<1>10. CASE /\ reg' = written
            /\ GoesTo("literals", counter + 1)
            /\ UNCHANGED <<faults, syncVars>>
  <2>1. /\ UNCHANGED <<cmd, app, last, faults, pc, want>>
        /\ step' = "literals"
        /\ counter' = counter + 1
        /\ reg' = written
        /\ reg' \in [ConfRegs -> AnyWords]
    BY <1>7, <1>10 DEF GoesTo, syncVars
  <2>2. counter' \in 0..Len(m_cfg.hardware_configuration)
    BY <1>1, <1>3, <1>4, <2>1
  <2>3. SyncOrder'
    BY <1>1, <2>1 DEF IInv, SyncOrder, BeforeClock, AfterClock
  <2>4. FlagsAsAsked'
    BY <1>1 DEF IInv, ConfOrder, FlagsAsAsked, BeforeMode
  <2>5. AllAsked(m_cfg', counter', reg')
    BY <1>1, <1>7, <2>1
  <2>6. ConfOrder'
    BY <1>1, <2>1, <2>4, <2>5 DEF ConfOrder
  <2>7. step' \in ConfSteps
    BY <2>1 DEF ConfSteps, AfterClock
  <2> QED
    BY <1>1, <1>5, <2>1, <2>2, <2>3, <2>6, <2>7, ConfGoes
<1> QED
  BY <1>8, <1>9, <1>10

LEMMA ConfLiteralsDoneKeeps ==
  ASSUME IInv, ConfLiteralsDone
  PROVE  IInv'
<1>1. /\ cmd = "conf" /\ step = "literals"
      /\ app = "INITIAL" /\ ~m_configured
      /\ counter = Len(m_cfg.hardware_configuration)
      /\ UNCHANGED <<m_configured, m_cfg, m_run_marker>>
      /\ UNCHANGED <<m_single_pulse, m_burst_mode, bias, dac, timing, reg>>
      /\ UNCHANGED <<faults, pc, want, cmd, app, last>>
      /\ step' = "done" /\ counter' = 0
  BY NextSteps DEF ConfLiteralsDone, ConfGoesOn, GoesTo, wrapper, pulseRegs,
                   syncVars, IInv, CommandOrder
<1>2. /\ reg' \in [ConfRegs -> AnyWords]
      /\ m_single_pulse' \in BOOLEAN /\ m_burst_mode' \in BOOLEAN
  BY <1>1 DEF IInv, OwnTypeOK
<1>3. SyncOrder'
  BY <1>1 DEF IInv, SyncOrder, BeforeClock, AfterClock
<1>4. FlagsAsAsked'
  BY <1>1 DEF IInv, ConfOrder, FlagsAsAsked, BeforeMode
<1>5. ConfOrder'
  BY <1>1, <1>4 DEF IInv, ConfOrder
<1>6. step' \in ConfSteps
  BY <1>1 DEF ConfSteps, AfterClock
<1> QED
  BY <1>1, <1>2, <1>3, <1>5, <1>6, ConfGoes

LEMMA ConfEndsKeeps ==
  ASSUME IInv, ConfEnds
  PROVE  IInv'
<1>1. /\ cmd = "conf" /\ step = "done" /\ app = "INITIAL" /\ ~m_run_marker
      /\ m_configured' = TRUE
      /\ cmd' = "none" /\ step' = "none" /\ counter' = 0
      /\ last' = <<"conf", "ok">>
      /\ app' \in {"INITIAL", "CONFIGURED"}
      /\ UNCHANGED <<m_cfg, m_run_marker, m_single_pulse, m_burst_mode>>
      /\ UNCHANGED <<bias, dac, timing, reg, faults, pc, want>>
  BY DEF ConfEnds, Ends, Exit, wrapper, pulseRegs, syncVars, IInv,
         CommandOrder
<1>2. OwnTypeOK'
  BY <1>1 DEF IInv, OwnTypeOK
<1>3. CommandOrder'
  BY <1>1 DEF IInv, CommandOrder
<1>4. SyncOrder'
  BY <1>1 DEF IInv, SyncOrder, BeforeClock, AfterClock
<1>5. ConfOrder'
  BY <1>1 DEF IInv, ConfOrder, FlagsAsAsked, BeforeMode
<1>6. StartProgress' /\ StartDone' /\ StopProgress' /\ StopDone'
  BY <1>1 DEF StartProgress, StartDone, StopProgress, StopDone, Idle
<1> QED
  BY <1>2, <1>3, <1>4, <1>5, <1>6, <1>1 DEF IInv

\* The steps of start and stop.  A write that throws ends the command; of one
\* that goes on, the conjunct about the loop is left.
LEMMA PulseThrows ==
  ASSUME IInv, cmd \in {"start", "stop"}, Fault,
         UNCHANGED m_run_marker, Unaffected,
         bias' \in [Channels -> Nat], dac' \in [Channels -> Nat],
         timing' \in [Channels -> Words]
  PROVE  IInv'
<1>1. faults' \in 0..MaxFaults
  BY BoundsAssumption DEF Fault, IInv, OwnTypeOK
<1>2. /\ cmd' = "none" /\ step' = "none" /\ counter' = 0
      /\ last' = <<cmd, "failed">> /\ app' = app
  BY DEF Fault, Ends
<1>3. /\ UNCHANGED <<m_configured, m_cfg, m_single_pulse, m_burst_mode>>
      /\ UNCHANGED <<reg, pc, want>>
  BY DEF Unaffected, syncVars
<1>4. /\ m_single_pulse' \in BOOLEAN /\ m_burst_mode' \in BOOLEAN
      /\ reg' \in [ConfRegs -> AnyWords]
  BY <1>3 DEF IInv, OwnTypeOK
<1> QED
  BY <1>1, <1>2, <1>3, <1>4, CommandFails

\* What start knows: the settings, and that channel counter is on the board.
LEMMA StartKnows ==
  ASSUME IInv, cmd = "start"
  PROVE  /\ m_cfg \in Confs /\ ValidConf(m_cfg) /\ FlagsAsAsked
         /\ m_cfg.number_channels \in 1..12 /\ counter \in 0..12
         /\ step # "apply" => /\ counter < m_cfg.number_channels
                              /\ counter \in 0..11
         /\ \A k \in 0..11 : BiasOf(m_cfg, k) \in Nat
         /\ \A k : TimingOf(m_cfg, k) \in Words
         /\ \A k : /\ BiasWord(k) = BiasOf(m_cfg, k)
                   /\ TimingWord(k) = TimingOf(m_cfg, k)
<1>1. m_cfg \in Confs /\ ValidConf(m_cfg)
  BY KnownSettings
<1>2. FlagsAsAsked
  BY DEF IInv, CommandOrder, ConfOrder
<1>3. m_cfg.number_channels \in 1..12
  BY <1>1, BoardSize
<1>4. counter \in 0..12
  BY DEF IInv, OwnTypeOK, CommandOrder
<1>5. step # "apply" => counter < m_cfg.number_channels
  BY DEF IInv, StartProgress
<1>6. \A k \in 0..11 : BiasOf(m_cfg, k) \in Nat
  BY <1>1, BiasValue
<1>7. \A k : TimingOf(m_cfg, k) \in Words
  BY <1>1, TimingValue
<1>8. \A k : BiasWord(k) = BiasOf(m_cfg, k) /\ TimingWord(k) = TimingOf(m_cfg, k)
  BY <1>1, <1>2, WrittenWords
<1> QED
  BY <1>1, <1>2, <1>3, <1>4, <1>5, <1>6, <1>7, <1>8

LEMMA StartWritesBiasKeeps ==
  ASSUME IInv, StartWritesBias
  PROVE  IInv'
<1> DEFINE b == Base(m_cfg.number_channels)
           v == BiasOf(m_cfg, counter)
           g == [bias EXCEPT ![b + counter] = v]
<1>1. /\ cmd = "start" /\ step = "bias"
      /\ UNCHANGED <<dac, timing, m_run_marker>> /\ Unaffected
  BY DEF StartWritesBias, At, SetBias
<1>2. /\ m_cfg \in Confs /\ ValidConf(m_cfg)
      /\ m_cfg.number_channels \in 1..12
      /\ counter < m_cfg.number_channels /\ counter \in 0..11
      /\ v \in Nat /\ BiasWord(counter) = v
  BY <1>1, StartKnows
<1>3. /\ bias \in [Channels -> Nat]
      /\ dac' \in [Channels -> Nat] /\ timing' \in [Channels -> Words]
  BY <1>1 DEF IInv, OwnTypeOK
<1>4. Biased(bias, m_cfg, counter) /\ Timed(timing, m_cfg, counter)
  BY <1>1 DEF IInv, StartProgress
<1>5. /\ Biased(g, m_cfg, counter)
      /\ g[b + counter] = v
      /\ ~(counter = 7 /\ 7 \in m_cfg.channel_mask)
           => Biased(g, m_cfg, counter + 1)
      /\ g \in [Channels -> Nat]
  <2>1. v = BiasOf(m_cfg, counter) /\ counter \in Nat
    BY <1>2
  <2> HIDE DEF v
  <2> QED
    BY <1>2, <1>3, <1>4, <2>1, BiasedNext
<1>6. \/ /\ bias' = g
         /\ GoesTo(IF SharesBias(counter) THEN "shared_bias" ELSE "timing",
                   counter)
         /\ UNCHANGED faults
      \/ bias' \in {bias, g} /\ Fault
  BY <1>2 DEF StartWritesBias, SetBias, PulseWrite
<1> HIDE DEF g, v, b
<1>7. CASE bias' \in {bias, g} /\ Fault
  <2>1. bias' \in [Channels -> Nat]
    BY <1>3, <1>5, <1>7
  <2> QED
    BY <1>1, <1>3, <1>7, <2>1, PulseThrows
<1>8. CASE /\ bias' = g
           /\ GoesTo(IF SharesBias(counter) THEN "shared_bias" ELSE "timing",
                     counter)
           /\ UNCHANGED faults
  <2>1. /\ UNCHANGED <<cmd, app, last, m_configured, m_cfg, m_run_marker>>
        /\ UNCHANGED <<m_single_pulse, m_burst_mode, reg, pc, want>>
        /\ UNCHANGED <<dac, timing, faults, counter>>
        /\ bias' = g
        /\ step' = IF counter = 7 /\ 7 \in m_cfg.channel_mask
                     THEN "shared_bias" ELSE "timing"
    BY <1>1, <1>8 DEF GoesTo, Unaffected, syncVars, SharesBias, On
  <2>2. StartProgress'
    <3>1. CASE counter = 7 /\ 7 \in m_cfg.channel_mask
      BY <1>2, <1>4, <1>5, <2>1, <3>1 DEF StartProgress, v, b
    <3>2. CASE ~(counter = 7 /\ 7 \in m_cfg.channel_mask)
      BY <1>2, <1>4, <1>5, <2>1, <3>2 DEF StartProgress
    <3> QED
      BY <3>1, <3>2
  <2>3. StopProgress'
    BY <1>1, <2>1 DEF StopProgress
  <2>4. step' \in PulseSteps
    BY <2>1 DEF PulseSteps
  <2> QED
    BY <1>1, <1>2, <1>3, <1>5, <2>1, <2>2, <2>3, <2>4, PulseGoes
<1> QED
  BY <1>6, <1>7, <1>8

LEMMA StartWritesSharedBiasKeeps ==
  ASSUME IInv, StartWritesSharedBias
  PROVE  IInv'
<1> DEFINE b == Base(m_cfg.number_channels)
           v == BiasOf(m_cfg, 7)
           g == [bias EXCEPT ![b + 7 - 1] = v]
<1>1. /\ cmd = "start" /\ step = "shared_bias"
      /\ UNCHANGED <<dac, timing, m_run_marker>> /\ Unaffected
  BY DEF StartWritesSharedBias, At, SetBias
<1>2. /\ counter = 7 /\ 7 \in m_cfg.channel_mask
      /\ Biased(bias, m_cfg, 7) /\ bias[b + 7] = v
      /\ Timed(timing, m_cfg, counter)
  BY <1>1 DEF IInv, StartProgress
<1>3. /\ m_cfg \in Confs /\ ValidConf(m_cfg)
      /\ counter < m_cfg.number_channels /\ m_cfg.number_channels \in 1..12
      /\ v \in Nat /\ BiasWord(counter) = v
  BY <1>1, <1>2, StartKnows
<1>4. /\ bias \in [Channels -> Nat]
      /\ dac' \in [Channels -> Nat] /\ timing' \in [Channels -> Words]
  BY <1>1 DEF IInv, OwnTypeOK
<1>5. Biased(g, m_cfg, 8) /\ g \in [Channels -> Nat]
  <2>1. Biased(g, m_cfg, 8)
    BY <1>2, <1>3, <1>4, BiasedShared
  <2> QED
    BY <1>3, <1>4, <2>1
<1>6. \/ /\ bias' = g
         /\ GoesTo("timing", counter)
         /\ UNCHANGED faults
      \/ bias' \in {bias, g} /\ Fault
  BY <1>2, <1>3 DEF StartWritesSharedBias, SetBias, PulseWrite
<1> HIDE DEF g, v, b
<1>7. CASE bias' \in {bias, g} /\ Fault
  <2>1. bias' \in [Channels -> Nat]
    BY <1>4, <1>5, <1>7
  <2> QED
    BY <1>1, <1>4, <1>7, <2>1, PulseThrows
<1>8. CASE bias' = g /\ GoesTo("timing", counter) /\ UNCHANGED faults
  <2>1. /\ UNCHANGED <<cmd, app, last, m_configured, m_cfg, m_run_marker>>
        /\ UNCHANGED <<m_single_pulse, m_burst_mode, reg, pc, want>>
        /\ UNCHANGED <<dac, timing, faults, counter>>
        /\ bias' = g
        /\ step' = "timing"
    BY <1>1, <1>8 DEF GoesTo, Unaffected, syncVars
  <2>2. StartProgress'
    BY <1>2, <1>3, <1>5, <2>1 DEF StartProgress
  <2>3. StopProgress'
    BY <1>1, <2>1 DEF StopProgress
  <2>4. step' \in PulseSteps /\ counter' \in 0..12
    BY <1>2, <2>1 DEF PulseSteps
  <2> QED
    BY <1>1, <1>4, <1>5, <2>1, <2>2, <2>3, <2>4, PulseGoes
<1> QED
  BY <1>6, <1>7, <1>8

LEMMA StartWritesTimingKeeps ==
  ASSUME IInv, StartWritesTiming
  PROVE  IInv'
<1> DEFINE b == Base(m_cfg.number_channels)
           v == TimingOf(m_cfg, counter)
           u == [timing EXCEPT ![b + counter] = v]
<1>1. /\ cmd = "start" /\ step = "timing"
      /\ UNCHANGED <<bias, dac, m_run_marker>> /\ Unaffected
  BY DEF StartWritesTiming, At, SetTiming
<1>2. /\ m_cfg \in Confs /\ ValidConf(m_cfg)
      /\ m_cfg.number_channels \in 1..12
      /\ counter < m_cfg.number_channels /\ counter \in 0..11
      /\ v \in Words /\ TimingWord(counter) = v
  BY <1>1, StartKnows
<1>3. /\ timing \in [Channels -> Words]
      /\ dac' \in [Channels -> Nat] /\ bias' \in [Channels -> Nat]
  BY <1>1 DEF IInv, OwnTypeOK
<1>4. Biased(bias, m_cfg, counter + 1) /\ Timed(timing, m_cfg, counter)
  BY <1>1 DEF IInv, StartProgress
<1>5. Timed(u, m_cfg, counter + 1) /\ u \in [Channels -> Words]
  <2>1. v = TimingOf(m_cfg, counter) /\ counter \in Nat
    BY <1>2
  <2> HIDE DEF v
  <2> QED
    BY <1>2, <1>3, <1>4, <2>1, TimedNext
<1>6. \/ /\ timing' = u
         /\ GoesTo(StartLoop(counter), counter + 1)
         /\ UNCHANGED faults
      \/ timing' \in {timing, u} /\ Fault
  BY <1>2 DEF StartWritesTiming, SetTiming, PulseWrite, NextChannel
<1> HIDE DEF u, v, b
<1>7. CASE timing' \in {timing, u} /\ Fault
  <2>1. timing' \in [Channels -> Words]
    BY <1>3, <1>5, <1>7
  <2> QED
    BY <1>1, <1>3, <1>7, <2>1, PulseThrows
<1>8. CASE /\ timing' = u
           /\ GoesTo(StartLoop(counter), counter + 1)
           /\ UNCHANGED faults
  <2>1. /\ UNCHANGED <<cmd, app, last, m_configured, m_cfg, m_run_marker>>
        /\ UNCHANGED <<m_single_pulse, m_burst_mode, reg, pc, want>>
        /\ UNCHANGED <<dac, bias, faults>>
        /\ timing' = u /\ counter' = counter + 1
        /\ step' = IF counter + 1 < m_cfg.number_channels
                     THEN "bias" ELSE "apply"
    BY <1>1, <1>8 DEF GoesTo, Unaffected, syncVars, StartLoop
  <2>2. /\ counter' <= m_cfg'.number_channels
        /\ step' = "bias" => counter' < m_cfg'.number_channels
        /\ step' = "apply" => counter' = m_cfg'.number_channels
        /\ step' \in {"bias", "apply"}
        /\ counter' \in 0..12
    BY <1>2, <2>1
  <2>3. Biased(bias', m_cfg', counter') /\ Timed(timing', m_cfg', counter')
    BY <1>4, <1>5, <2>1
  <2>4. StartProgress'
    BY <2>2, <2>3 DEF StartProgress
  <2>5. StopProgress'
    BY <1>1, <2>1 DEF StopProgress
  <2>6. step' \in PulseSteps
    BY <2>2 DEF PulseSteps
  <2> QED
    BY <1>1, <1>3, <1>5, <2>1, <2>2, <2>4, <2>5, <2>6, PulseGoes
<1> QED
  BY <1>6, <1>7, <1>8

LEMMA StartAppliesKeeps ==
  ASSUME IInv, StartApplies
  PROVE  IInv'
<1>1. /\ cmd = "start" /\ step = "apply"
      /\ UNCHANGED <<bias, timing>> /\ Unaffected
  BY DEF StartApplies, At
<1>2. /\ bias' \in [Channels -> Nat] /\ timing' \in [Channels -> Words]
      /\ \A d \in {dac, bias} : d \in [Channels -> Nat]
      /\ faults \in 0..MaxFaults
  BY <1>1 DEF IInv, OwnTypeOK
<1>3. CASE dac' \in {dac, bias} /\ Fault /\ UNCHANGED m_run_marker
  <2>1. dac' \in [Channels -> Nat]
    BY <1>2, <1>3
  <2> QED
    BY <1>1, <1>2, <1>3, <2>1, PulseThrows
<1>4. CASE /\ dac' = bias
           /\ m_run_marker' = TRUE
           /\ Ends("start", "ok")
           /\ UNCHANGED faults
  <2>1. /\ cmd' = "none" /\ step' = "none" /\ counter' = 0
        /\ last' = <<"start", "ok">>
        /\ app = "CONFIGURED" /\ app' \in {"CONFIGURED", "RUNNING"}
        /\ m_configured
        /\ UNCHANGED <<m_configured, m_cfg, m_single_pulse, m_burst_mode>>
        /\ UNCHANGED <<reg, pc, want>>
    BY <1>1, <1>4 DEF Ends, Exit, Unaffected, syncVars, IInv, CommandOrder
  <2>2. dac' \in [Channels -> Nat]
    BY <1>2, <1>4
  <2>3. OwnTypeOK'
    BY <1>2, <1>4, <2>1, <2>2 DEF IInv, OwnTypeOK
  <2>4. CommandOrder'
    BY <2>1 DEF IInv, CommandOrder
  <2>5. SyncOrder'
    BY <2>1 DEF IInv, SyncOrder, BeforeClock, AfterClock
  <2>6. ConfOrder'
    BY <2>1 DEF IInv, ConfOrder, FlagsAsAsked
  <2>7. StartProgress' /\ StopProgress'
    BY <2>1 DEF StartProgress, StopProgress
  <2>8. /\ Biased(dac', m_cfg', m_cfg'.number_channels)
        /\ Timed(timing', m_cfg', m_cfg'.number_channels)
    BY <1>1, <1>4, <2>1 DEF IInv, StartProgress
  <2>9. StartDone'
    BY <2>1, <2>8 DEF StartDone, Idle
  <2>10. StopDone'
    BY <2>1 DEF StopDone, Idle
  <2> QED
    BY <2>3, <2>4, <2>5, <2>6, <2>7, <2>9, <2>10 DEF IInv
<1> QED
  BY <1>3, <1>4 DEF StartApplies

LEMMA StopWritesBiasKeeps ==
  ASSUME IInv, StopWritesBias
  PROVE  IInv'
<1> DEFINE g == [bias EXCEPT ![7 + counter] = BiasOff]
<1>1. /\ cmd = "stop" /\ step = "bias"
      /\ UNCHANGED <<dac, timing, m_run_marker>> /\ Unaffected
  BY DEF StopWritesBias, At, SetBias
<1>2. counter \in 0..4
  BY <1>1 DEF IInv, OwnTypeOK, StopProgress
<1>3. /\ bias \in [Channels -> Nat]
      /\ dac' \in [Channels -> Nat] /\ timing' \in [Channels -> Words]
  BY <1>1 DEF IInv, OwnTypeOK
<1>4. AllAt(bias, counter, BiasOff) /\ AllAt(timing, counter, Zero)
  BY <1>1 DEF IInv, StopProgress
<1>5. AllAt(g, counter + 1, BiasOff) /\ g \in [Channels -> Nat]
  <2>1. BiasOff \in Nat
    BY DEF BiasOff
  <2> QED
    BY <1>2, <1>3, <1>4, <2>1, AllAtNext
<1>6. \/ bias' = g /\ GoesTo("timing", counter) /\ UNCHANGED faults
      \/ bias' \in {bias, g} /\ Fault
  BY DEF StopWritesBias, SetBias, PulseWrite, Base
<1> HIDE DEF g
<1>7. CASE bias' \in {bias, g} /\ Fault
  <2>1. bias' \in [Channels -> Nat]
    BY <1>3, <1>5, <1>7
  <2> QED
    BY <1>1, <1>3, <1>7, <2>1, PulseThrows
<1>8. CASE bias' = g /\ GoesTo("timing", counter) /\ UNCHANGED faults
  <2>1. /\ UNCHANGED <<cmd, app, last, m_configured, m_cfg, m_run_marker>>
        /\ UNCHANGED <<m_single_pulse, m_burst_mode, reg, pc, want>>
        /\ UNCHANGED <<dac, timing, faults, counter>>
        /\ bias' = g
        /\ step' = "timing"
    BY <1>1, <1>8 DEF GoesTo, Unaffected, syncVars
  <2>2. StopProgress'
    BY <1>2, <1>4, <1>5, <2>1 DEF StopProgress
  <2>3. StartProgress'
    BY <1>1, <2>1 DEF StartProgress
  <2>4. step' \in PulseSteps /\ counter' \in 0..12
    BY <1>2, <2>1 DEF PulseSteps
  <2> QED
    BY <1>1, <1>3, <1>5, <2>1, <2>2, <2>3, <2>4, PulseGoes
<1> QED
  BY <1>6, <1>7, <1>8

LEMMA StopWritesTimingKeeps ==
  ASSUME IInv, StopWritesTiming
  PROVE  IInv'
<1> DEFINE u == [timing EXCEPT ![7 + counter] = Zero]
<1>1. /\ cmd = "stop" /\ step = "timing"
      /\ UNCHANGED <<bias, dac, m_run_marker>> /\ Unaffected
  BY DEF StopWritesTiming, At, SetTiming
<1>2. counter \in 0..4
  BY <1>1 DEF IInv, OwnTypeOK, StopProgress
<1>3. /\ timing \in [Channels -> Words]
      /\ dac' \in [Channels -> Nat] /\ bias' \in [Channels -> Nat]
  BY <1>1 DEF IInv, OwnTypeOK
<1>4. AllAt(bias, counter + 1, BiasOff) /\ AllAt(timing, counter, Zero)
  BY <1>1 DEF IInv, StopProgress
<1>5. AllAt(u, counter + 1, Zero) /\ u \in [Channels -> Words]
  <2>1. Zero \in Words
    BY HalfRange DEF Zero, Word, Words
  <2> QED
    BY <1>2, <1>3, <1>4, <2>1, AllAtNext
<1>6. \/ /\ timing' = u
         /\ GoesTo(IF counter + 1 < 5 THEN "bias" ELSE "apply", counter + 1)
         /\ UNCHANGED faults
      \/ timing' \in {timing, u} /\ Fault
  BY DEF StopWritesTiming, SetTiming, PulseWrite, Base, NextChannel,
         StopChannels
<1> HIDE DEF u
<1>7. CASE timing' \in {timing, u} /\ Fault
  <2>1. timing' \in [Channels -> Words]
    BY <1>3, <1>5, <1>7
  <2> QED
    BY <1>1, <1>3, <1>7, <2>1, PulseThrows
<1>8. CASE /\ timing' = u
           /\ GoesTo(IF counter + 1 < 5 THEN "bias" ELSE "apply", counter + 1)
           /\ UNCHANGED faults
  <2>1. /\ UNCHANGED <<cmd, app, last, m_configured, m_cfg, m_run_marker>>
        /\ UNCHANGED <<m_single_pulse, m_burst_mode, reg, pc, want>>
        /\ UNCHANGED <<dac, bias, faults>>
        /\ timing' = u /\ counter' = counter + 1
        /\ step' = IF counter + 1 < 5 THEN "bias" ELSE "apply"
    BY <1>1, <1>8 DEF GoesTo, Unaffected, syncVars
  <2>2. /\ counter' <= 5 /\ counter' \in 0..12
        /\ step' = "bias" => counter' < 5
        /\ step' = "apply" => counter' = 5
        /\ step' \in {"bias", "apply"}
    BY <1>2, <2>1
  <2>3. AllAt(bias', counter', BiasOff) /\ AllAt(timing', counter', Zero)
    BY <1>4, <1>5, <2>1
  <2>4. StopProgress'
    BY <2>2, <2>3 DEF StopProgress
  <2>5. StartProgress'
    BY <1>1, <2>1 DEF StartProgress
  <2>6. step' \in PulseSteps
    BY <2>2 DEF PulseSteps
  <2> QED
    BY <1>1, <1>3, <1>5, <2>1, <2>2, <2>4, <2>5, <2>6, PulseGoes
<1> QED
  BY <1>6, <1>7, <1>8

LEMMA StopAppliesKeeps ==
  ASSUME IInv, StopApplies
  PROVE  IInv'
<1>1. /\ cmd = "stop" /\ step = "apply"
      /\ UNCHANGED <<bias, timing>> /\ Unaffected
  BY DEF StopApplies, At
<1>2. /\ bias' \in [Channels -> Nat] /\ timing' \in [Channels -> Words]
      /\ \A d \in {dac, bias} : d \in [Channels -> Nat]
      /\ faults \in 0..MaxFaults
  BY <1>1 DEF IInv, OwnTypeOK
<1>3. CASE dac' \in {dac, bias} /\ Fault /\ UNCHANGED m_run_marker
  <2>1. dac' \in [Channels -> Nat]
    BY <1>2, <1>3
  <2> QED
    BY <1>1, <1>2, <1>3, <2>1, PulseThrows
<1>4. CASE /\ dac' = bias
           /\ m_run_marker' = MarkerAfterStop
           /\ Ends("stop", "ok")
           /\ UNCHANGED faults
  <2>1. /\ cmd' = "none" /\ step' = "none" /\ counter' = 0
        /\ last' = <<"stop", "ok">>
        /\ app' \in {"CONFIGURED", "RUNNING"}
        /\ m_configured /\ m_run_marker' = FALSE
        /\ UNCHANGED <<m_configured, m_cfg, m_single_pulse, m_burst_mode>>
        /\ UNCHANGED <<reg, pc, want>>
    BY <1>1, <1>4 DEF Ends, Exit, Unaffected, syncVars, IInv, CommandOrder,
                      MarkerAfterStop
  <2>2. dac' \in [Channels -> Nat]
    BY <1>2, <1>4
  <2>3. OwnTypeOK'
    <3>1. /\ last' \in {"conf", "start", "stop"} \X {"ok", "failed"}
          /\ faults' \in 0..MaxFaults
          /\ counter' \in 0..12 /\ step' # "literals"
      BY <1>2, <1>4, <2>1
    <3>2. m_run_marker' \in BOOLEAN
      BY <1>4 DEF MarkerAfterStop
    <3> QED
      BY <1>2, <2>1, <2>2, <3>1, <3>2 DEF IInv, OwnTypeOK
  <2>4. CommandOrder'
    BY <2>1 DEF IInv, CommandOrder
  <2>5. SyncOrder'
    BY <2>1 DEF IInv, SyncOrder, BeforeClock, AfterClock
  <2>6. ConfOrder'
    BY <2>1 DEF IInv, ConfOrder, FlagsAsAsked
  <2>7. StartProgress' /\ StopProgress'
    BY <2>1 DEF StartProgress, StopProgress
  <2>8. AllAt(dac', 5, BiasOff) /\ AllAt(timing', 5, Zero)
    BY <1>1, <1>4 DEF IInv, StopProgress
  <2>9. StopDone'
    BY <2>8 DEF StopDone
  <2>10. StartDone'
    BY <2>1 DEF StartDone, Idle
  <2> QED
    BY <2>3, <2>4, <2>5, <2>6, <2>7, <2>9, <2>10 DEF IInv
<1> QED
  BY <1>3, <1>4 DEF StopApplies

\* The process ends at any point: what it knew is gone, the board is as it was.
LEMMA RestartKeeps ==
  ASSUME IInv, Restart
  PROVE  IInv'
<1> USE DEF Restart, ProcessStarts
<1>1. /\ faults' \in 0..MaxFaults
      /\ bias' \in [Channels -> Nat] /\ dac' \in [Channels -> Nat]
      /\ timing' \in [Channels -> Words] /\ reg' \in [ConfRegs -> AnyWords]
  BY BoundsAssumption DEF IInv, OwnTypeOK, pulseRegs
<1>2. OwnTypeOK'
  <2>1. /\ app' = "INITIAL" /\ m_configured' = FALSE /\ m_cfg' = NoConf
        /\ m_run_marker' = FALSE /\ m_single_pulse' = FALSE
        /\ m_burst_mode' = FALSE /\ cmd' = "none" /\ step' = "none"
        /\ counter' = 0 /\ last' = <<"none", "none">>
    OBVIOUS
  <2>2. counter' \in 0..12 /\ step' # "literals"
    BY <2>1
  <2> QED
    BY <1>1, <2>1, <2>2 DEF OwnTypeOK
<1>3. CommandOrder'
  BY DEF CommandOrder
<1>4. SyncOrder'
  BY DEF SyncOrder, BeforeClock, AfterClock, LeaveSync
<1>5. ConfOrder'
  BY DEF ConfOrder
<1>6. StartProgress' /\ StartDone' /\ StopProgress' /\ StopDone'
  BY DEF StartProgress, StartDone, StopProgress, StopDone, Idle
<1> QED
  BY <1>2, <1>3, <1>4, <1>5, <1>6 DEF IInv

LEMMA Unmoved ==
  ASSUME IInv, EndpointMoves \/ UNCHANGED vars
  PROVE  IInv'
<1>1. /\ UNCHANGED <<app, m_configured, wrapper, running, pulseRegs, reg>>
      /\ UNCHANGED <<faults, pc, want>>
  BY DEF EndpointMoves, Sync!EndpointMoves, Sync!handler, vars, syncVars
<1> USE <1>1 DEF wrapper, running, pulseRegs
<1>2. OwnTypeOK'
  BY DEF IInv, OwnTypeOK
<1>3. CommandOrder'
  BY DEF IInv, CommandOrder
<1>4. SyncOrder'
  BY DEF IInv, SyncOrder
<1>5. ConfOrder'
  BY DEF IInv, ConfOrder, FlagsAsAsked
<1>6. StartProgress' /\ StartDone' /\ StopProgress' /\ StopDone'
  BY DEF IInv, StartProgress, StartDone, StopProgress, StopDone, Idle
<1> QED
  BY <1>2, <1>3, <1>4, <1>5, <1>6 DEF IInv

\* Every operation of every command keeps the invariant, whether it goes on,
\* throws, or is never reached because the process ends.
THEOREM Inductive == IInv /\ [Next]_vars => IInv'
<1> SUFFICES ASSUME IInv, [Next]_vars PROVE IInv'
  OBVIOUS
<1>1. CASE CommandArrives
  BY <1>1, CommandsKeep
<1>2. CASE HandlerStep
  BY <1>2, ConfSyncsKeeps, ConfWritesRegisterKeeps, ConfSetsModeKeeps,
     ConfWritesPulserModeKeeps, ConfWritesLiteralKeeps,
     ConfLiteralsDoneKeeps, ConfEndsKeeps, StartWritesBiasKeeps,
     StartWritesSharedBiasKeeps, StartWritesTimingKeeps, StartAppliesKeeps,
     StopWritesBiasKeeps, StopWritesTimingKeeps, StopAppliesKeeps
     DEF HandlerStep
<1>3. CASE Restart
  BY <1>3, RestartKeeps
<1>4. CASE EndpointMoves \/ UNCHANGED vars
  BY <1>4, Unmoved
<1> QED
  BY <1>1, <1>2, <1>3, <1>4 DEF Next

\* So it holds at every moment of every behaviour.
THEOREM Invariance == Spec => []IInv
BY Initially, Inductive, PTL DEF Spec
-----------------------------------------------------------------------------
(***************************************************************************)
(* LedCalib implements PdtsSync.                                           *)
(***************************************************************************)
\* A step of the module is one of PdtsSync, or none of its business.
LEMMA StepsMap ==
  ASSUME IInv, [Next]_vars
  PROVE  [Sync!Next]_Sync!vars
<1> USE DEF Sync!vars, Sync!board, Sync!handler
<1>1. ASSUME UNCHANGED syncVars PROVE UNCHANGED Sync!vars
  BY <1>1 DEF syncVars
<1>2. ASSUME LeaveSync PROVE Sync!Abandon \/ UNCHANGED Sync!vars
  BY <1>2 DEF LeaveSync, Sync!Abandon, Sync!Throw
<1>3. ASSUME NEW c \in Confs, ConfBegins(c)
      PROVE  \E t \in {TargetOf(d) : d \in {e \in Confs :
                                              e.timing_address \in 0..255}} :
               Sync!Configure(t)
  <2>1. c.timing_address \in 0..255
    <3>1. c.timing_address \in Nat
      BY ConfsAssumption
    <3>2. c.timing_address <= 255
      BY <1>3 DEF ConfBegins
    <3> QED
      BY <3>1, <3>2
  <2> QED
    BY <1>3, <2>1 DEF ConfBegins
<1>4. CASE CommandArrives
  BY <1>1, <1>3, <1>4
     DEF CommandArrives, ConfRefused, ConfAddressRefused, ConfAgain,
         StartAgain, StartBegins, StopBegins, Sync!Next, syncVars
<1>5. CASE ConfSyncs
  BY <1>5 DEF ConfSyncs, Sync!Next
<1>6. CASE ConfWritesPulserMode
  <2>1. pc = "synced"
    BY <1>6 DEF ConfWritesPulserMode, IInv, SyncOrder, BeforeClock
  <2> QED
    BY <1>6, <2>1
       DEF ConfWritesPulserMode, Sync!SetPulserMode, Sync!Next, Sync!Throw,
           PulserMode, Sync!PulserMode
<1>7. ASSUME NEW s, NEW r, NEW v, ConfWrites(s, r, v)
      PROVE  LeaveSync \/ UNCHANGED syncVars
  BY <1>7 DEF ConfWrites
<1>8. CASE \/ ConfWritesRegister \/ ConfSetsMode \/ ConfWritesLiteral
           \/ ConfLiteralsDone \/ ConfEnds
  <2>1. LeaveSync \/ UNCHANGED syncVars
    BY <1>7, <1>8
       DEF ConfWritesRegister, ConfSetsMode, ConfWritesLiteral,
           ConfLiteralsDone, ConfEnds
  <2> QED
    BY <1>1, <1>2, <2>1 DEF Sync!Next
<1>9. CASE \/ StartWritesBias \/ StartWritesSharedBias \/ StartWritesTiming
           \/ StartApplies \/ StopWritesBias \/ StopWritesTiming \/ StopApplies
  <2>1. Unaffected
    BY <1>9 DEF StartWritesBias, StartWritesSharedBias, StartWritesTiming,
                StartApplies, StopWritesBias, StopWritesTiming, StopApplies,
                SetBias, SetTiming
  <2> QED
    BY <1>1, <2>1 DEF Unaffected
<1>10. CASE Restart
  BY <1>1, <1>2, <1>10 DEF Restart, Sync!Next
<1>11. CASE EndpointMoves
  BY <1>11 DEF EndpointMoves, Sync!Next
<1>12. CASE UNCHANGED vars
  BY <1>1, <1>12 DEF vars
<1> QED
  BY <1>4, <1>5, <1>6, <1>8, <1>9, <1>10, <1>11, <1>12 DEF Next, HandlerStep

\* Through everything the module does - whole conf commands, the write to the
\* clock word for the pulser mode, commands that fail, processes that end -, its
\* timing registers see nothing but what PdtsSync specifies: what holds of the
\* synchronisation alone holds of it inside the module.
THEOREM Refinement == Spec => ImplementsPdtsSync
<1>1. Init => Sync!Init
  BY DEF Init
<1>2. IInv /\ [Next]_vars => [Sync!Next]_Sync!vars
  BY StepsMap
<1> QED
  BY Invariance, <1>1, <1>2, PTL DEF Spec, ImplementsPdtsSync, Sync!Spec
-----------------------------------------------------------------------------
(***************************************************************************)
(* The properties.                                                         *)
(***************************************************************************)
\* Every variable keeps its type: in particular no bias or timing register gets
\* more than 32 bits and no loop of start, stop or conf runs past its end.
THEOREM TypeCorrect == Spec => []TypeOK
<1>1. IInv => OwnTypeOK
  BY DEF IInv
<1>2. Spec => Sync!Spec
  BY Refinement DEF ImplementsPdtsSync
<1> QED
  BY Invariance, SyncTypes, <1>1, <1>2, PTL DEF TypeOK

\* A start that succeeded pulses what conf asked for (SSPLEDCalibWrapper.cpp
\* 184-224), on a board of 5 or of 12 channels and for all settings that
\* validate_config lets through, however many commands failed before it.
LEMMA PulsesFromOrder == IInv => PulsesAsConfigured
<1> SUFFICES ASSUME IInv, Idle("start"),
                    NEW r \in Base(m_cfg.number_channels)..11
             PROVE  /\ IF Lit(ChannelAt(r)) \/ (ChannelAt(r) = 6 /\ Lit(7))
                         THEN /\ (dac[r] - BiasOff) * 100
                                   <= 4095 * Percent(ChannelAt(r))
                              /\ 4095 * Percent(ChannelAt(r))
                                   < ((dac[r] - BiasOff) + 1) * 100
                         ELSE dac[r] - BiasOff = 0
                    /\ Lit(ChannelAt(r)) =>
                         /\ timing[r].lo % 256 = m_cfg.pulse1_width_ticks
                         /\ timing[r].lo \div 256 = m_cfg.pulse2_width_ticks
                    /\ Lit(ChannelAt(r)) /\ DelayFits =>
                         /\ timing[r].hi % 4096 = m_cfg.double_pulse_delay_ticks
                         /\ timing[r].hi \div 4096 = Trigger
                    /\ ~Lit(ChannelAt(r)) => timing[r] = Word(Trigger * 4096, 0)
  BY DEF PulsesAsConfigured
<1> DEFINE N == m_cfg.number_channels
           b == Base(N)
           c == r - b
           level == dac[r] - BiasOff
           w == timing[r]
<1>1. m_cfg \in Confs /\ ValidConf(m_cfg)
  BY DEF IInv, StartDone, CommandOrder
<1>2. N \in {5, 12} /\ b \in {0, 7} /\ b + N = 12
  BY <1>1, BoardSize
<1>3. c \in 0..N-1 /\ c \in 0..11 /\ r = b + c
  BY <1>2
<1>4. /\ dac[r] = SharedBiasOf(m_cfg, c, N)
      /\ timing[r] = TimingOf(m_cfg, c)
  <2>1. /\ \A k \in 0..N-1 : dac[b + k] = SharedBiasOf(m_cfg, k, N)
        /\ \A k \in 0..N-1 : timing[b + k] = TimingOf(m_cfg, k)
    BY DEF IInv, StartDone, Biased, Timed
  <2> HIDE DEF N, b, c
  <2> QED
    BY <1>3, <2>1
<1>5. ChannelAt(r) = c
  BY DEF ChannelAt
<1>6. \A k : Lit(k) <=> k \in m_cfg.channel_mask
  BY DEF Lit
<1>7. c = 6 => N > 7
  BY <1>2, <1>3
<1> HIDE DEF N, b, c
<1>8. IF Lit(c) \/ (c = 6 /\ Lit(7))
        THEN /\ level * 100 <= 4095 * Percent(c)
             /\ 4095 * Percent(c) < (level + 1) * 100
        ELSE level = 0
  <2>1. CASE c = 6 /\ 7 \in m_cfg.channel_mask
    <3>1. dac[r] = BiasOf(m_cfg, 7)
      BY <1>4, <1>7, <2>1 DEF SharedBiasOf
    <3>2. /\ level * 100 <= 4095 * m_cfg.pulse_bias_percent_367nm
          /\ 4095 * m_cfg.pulse_bias_percent_367nm < (level + 1) * 100
      BY <1>1, <2>1, <3>1, BiasValue
    <3> QED
      BY <1>6, <2>1, <3>2 DEF Percent
  <2>2. CASE ~(c = 6 /\ 7 \in m_cfg.channel_mask)
    <3>1. dac[r] = BiasOf(m_cfg, c)
      BY <1>4, <2>2 DEF SharedBiasOf
    <3>2. /\ c \notin m_cfg.channel_mask => level = 0
          /\ c \in m_cfg.channel_mask => /\ level * 100 <= 4095 * Percent(c)
                                         /\ 4095 * Percent(c) < (level + 1) * 100
      BY <1>1, <1>3, <3>1, BiasValue DEF Percent
    <3> QED
      BY <1>6, <2>2, <3>2
  <2> QED
    BY <2>1, <2>2
<1>9. Trigger = TriggerOf(m_cfg)
  BY DEF Trigger, TriggerOf
<1>10. /\ Lit(c) => /\ w.lo % 256 = m_cfg.pulse1_width_ticks
                    /\ w.lo \div 256 = m_cfg.pulse2_width_ticks
       /\ Lit(c) /\ DelayFits =>
            /\ w.hi % 4096 = m_cfg.double_pulse_delay_ticks
            /\ w.hi \div 4096 = Trigger
       /\ ~Lit(c) => w = Word(Trigger * 4096, 0)
  BY <1>1, <1>4, <1>6, <1>9, TimingValue DEF DelayFits
<1> QED
  BY <1>5, <1>8, <1>10

\* After a start that succeeded the board pulses what the conf asked for, for
\* every set of configurations (SSPLEDCalibWrapper.cpp:155-233).
THEOREM PulsesRight == Spec => []PulsesAsConfigured
  BY Invariance, PulsesFromOrder, PTL

\* A module that counts as configured has its pulse mode in its flags and its
\* registers as its settings ask, the literal entries applied last (147-149),
\* for every list of them and whatever failed or ended before.
LEMMA AskedFromOrder == IInv => ConfiguredAsAsked
<1> SUFFICES ASSUME IInv, m_configured PROVE ConfiguredAsAsked
  BY DEF ConfiguredAsAsked
<1>1. /\ FlagsAsAsked
      /\ AllAsked(m_cfg, Len(m_cfg.hardware_configuration), reg)
  BY DEF IInv, ConfOrder
<1>2. /\ m_single_pulse = (m_cfg.pulse_mode = "single")
      /\ m_burst_mode = (m_cfg.pulse_mode = "burst")
  <2>1. m_single_pulse \in BOOLEAN /\ m_burst_mode \in BOOLEAN
    BY DEF IInv, OwnTypeOK
  <2> QED
    BY <1>1, <2>1 DEF FlagsAsAsked
<1>3. ASSUME NEW r \in ConfRegs PROVE AskedFor(r, reg[r])
  <2>1. AskedIn(m_cfg, r, Len(m_cfg.hardware_configuration), reg[r])
    BY <1>1 DEF AllAsked
  <2>2. LiteralsFor(r) = LiteralsIn(m_cfg, r, Len(m_cfg.hardware_configuration))
    BY DEF LiteralsFor, LiteralsIn
  <2>3. ModeValue(r) = ModeValueOf(m_cfg, r)
    BY DEF ModeValue, ModeValueOf
  <2> QED
    BY <2>1, <2>2, <2>3 DEF AskedFor, AskedIn
<1> QED
  BY <1>2, <1>3 DEF ConfiguredAsAsked

\* A configured module's flags and registers are those of its settings, with the
\* literal entries over them, for every set of configurations
\* (SSPLEDCalibWrapper.cpp:72-153, 316-346).
THEOREM ConfiguredRight == Spec => []ConfiguredAsAsked
  BY Invariance, AskedFromOrder, PTL

\* A configured module keeps its board on the endpoint's clock, with its
\* partition and address: what PdtsSync promises for the end of a
\* synchronisation nothing of the module's own takes back.
THEOREM TimingHeld == Spec => []TimingKept
<1>1. IInv /\ Sync!SyncedToTarget => TimingKept
  <2> SUFFICES ASSUME IInv, Sync!SyncedToTarget, m_configured
               PROVE  TimingKept
    BY DEF TimingKept
  <2>1. pc = "configured" /\ want = TargetOf(m_cfg)
    BY DEF IInv, SyncOrder
  <2> QED
    BY <2>1 DEF Sync!SyncedToTarget, Sync!ControlMatches, Sync!DspExternal,
                TargetOf, TimingKept
<1>2. Spec => Sync!Spec
  BY Refinement DEF ImplementsPdtsSync
<1> QED
  BY Invariance, SyncTarget, <1>1, <1>2, PTL

\* stop turns off the five channels of a 5 channel board, 7 to 11 of their
\* blocks, on every board and whatever failed before it (226-249).
THEOREM StopEndsFive ==
  Spec => [](Idle("stop") => \A r \in 7..11 : dac[r] = BiasOff /\ timing[r] = Zero)
<1>1. ASSUME IInv, Idle("stop"), NEW r \in 7..11
      PROVE  dac[r] = BiasOff /\ timing[r] = Zero
  <2>1. r - 7 \in 0..5-1 /\ r = 7 + (r - 7)
    OBVIOUS
  <2>2. AllAt(dac, 5, BiasOff) /\ AllAt(timing, 5, Zero)
    BY <1>1 DEF IInv, StopDone
  <2> QED
    BY <2>1, <2>2 DEF AllAt
<1>2. IInv => (Idle("stop")
                 => \A r \in 7..11 : dac[r] = BiasOff /\ timing[r] = Zero)
  BY <1>1
<1> QED
  BY Invariance, <1>2, PTL

\* If no conf takes the board for one of 12 channels, the other registers of the
\* blocks stay as the board came up.
Untouched == \A r \in 0..6 : /\ bias[r] = BiasOff /\ dac[r] = BiasOff
                             /\ timing[r] = Zero

LEMMA UntouchedKept ==
  ASSUME \A c \in Confs : c.number_channels # 12,
         IInv, Untouched, [Next]_vars
  PROVE  Untouched'
<1>1. /\ bias \in [Channels -> Nat] /\ timing \in [Channels -> Words]
      /\ \A r \in 0..6 : r \in Channels
  BY DEF IInv, OwnTypeOK, Channels
<1>2. ASSUME bias' = bias \/ \E k \in 7..11 : \E v : bias' = [bias EXCEPT ![k] = v],
             UNCHANGED <<dac, timing>>
      PROVE  Untouched'
  BY <1>1, <1>2 DEF Untouched
<1>3. ASSUME \/ timing' = timing
             \/ \E k \in 7..11 : \E v : timing' = [timing EXCEPT ![k] = v],
             UNCHANGED <<bias, dac>>
      PROVE  Untouched'
  BY <1>1, <1>3 DEF Untouched
<1>4. ASSUME dac' \in {dac, bias}, UNCHANGED <<bias, timing>>
      PROVE  Untouched'
  BY <1>4 DEF Untouched
<1>5. ASSUME cmd = "start", step # "apply"
      PROVE  /\ Base(m_cfg.number_channels) + counter \in 7..11
             /\ step # "shared_bias"
  <2>1. m_cfg.number_channels = 5 /\ counter \in 0..11 /\ counter < 5
    BY <1>5, StartKnows, BoardSize
  <2> QED
    BY <1>5, <2>1 DEF Base, IInv, StartProgress
<1>6. ASSUME cmd = "stop", step # "apply" PROVE Base(5) + counter \in 7..11
  <2>1. counter \in 0..4
    BY <1>6 DEF IInv, StopProgress, OwnTypeOK
  <2> QED
    BY <2>1 DEF Base
<1>7. CASE StartWritesBias \/ StartWritesSharedBias \/ StopWritesBias
  <2>1. /\ UNCHANGED <<dac, timing>>
        /\ bias' = bias \/ \E k \in 7..11 : \E v : bias' = [bias EXCEPT ![k] = v]
    BY <1>5, <1>6, <1>7
       DEF StartWritesBias, StartWritesSharedBias, StopWritesBias, At, SetBias,
           PulseWrite
  <2> QED
    BY <1>2, <2>1
<1>8. CASE StartWritesTiming \/ StopWritesTiming
  <2>1. /\ UNCHANGED <<bias, dac>>
        /\ \/ timing' = timing
           \/ \E k \in 7..11 : \E v : timing' = [timing EXCEPT ![k] = v]
    BY <1>5, <1>6, <1>8
       DEF StartWritesTiming, StopWritesTiming, At, SetTiming, PulseWrite
  <2> QED
    BY <1>3, <2>1
<1>9. CASE StartApplies \/ StopApplies
  BY <1>4, <1>9 DEF StartApplies, StopApplies
<1>10. CASE \/ CommandArrives \/ ConfSyncs \/ ConfWritesRegister
            \/ ConfSetsMode \/ ConfWritesPulserMode \/ ConfWritesLiteral
            \/ ConfLiteralsDone \/ ConfEnds
            \/ Restart \/ EndpointMoves \/ UNCHANGED vars
  <2>1. UNCHANGED <<bias, dac, timing>>
    BY <1>10
       DEF CommandArrives, ConfRefused, ConfAddressRefused, ConfBegins,
           ConfAgain, StartAgain, StartBegins, StopBegins, ConfSyncs,
           ConfWritesRegister, ConfWrites, ConfSetsMode, ConfWritesPulserMode,
           ConfWritesLiteral, ConfLiteralsDone, ConfEnds, Restart,
           EndpointMoves, vars, pulseRegs
  <2> QED
    BY <1>4, <2>1
<1> QED
  BY <1>7, <1>8, <1>9, <1>10 DEF Next, HandlerStep

\* After a stop that succeeded no channel is biased or triggered, if the board
\* is a 5 channel one.  (Of one of 12 the run LedCalibStop12 shows that it is
\* not so: seven channels go on.)
THEOREM StopEnds ==
  ASSUME \A c \in Confs : c.number_channels # 12
  PROVE  Spec => []StopEndsPulsing
<1>1. Init => Untouched
  BY DEF Init, Untouched, Channels
<1>2. IInv /\ Untouched /\ [Next]_vars => Untouched'
  BY UntouchedKept
<1>3. IInv /\ Untouched => StopEndsPulsing
  <2> SUFFICES ASSUME IInv, Untouched, Idle("stop"), NEW r \in Channels
               PROVE  dac[r] = BiasOff /\ timing[r] = Zero
    BY DEF StopEndsPulsing
  <2>1. CASE r \in 0..6
    BY <2>1 DEF Untouched
  <2>2. CASE r \in 7..11
    <3>1. r - 7 \in 0..5-1 /\ r = 7 + (r - 7)
      BY <2>2
    <3>2. AllAt(dac, 5, BiasOff) /\ AllAt(timing, 5, Zero)
      BY DEF IInv, StopDone
    <3> QED
      BY <3>1, <3>2 DEF AllAt
  <2> QED
    BY <2>1, <2>2 DEF Channels
<1> QED
  BY Invariance, <1>1, <1>2, <1>3, PTL DEF Spec
=============================================================================
