----------------------------- MODULE MCLedCalib -----------------------------
(***************************************************************************)
(* Small sets of configurations for LedCalib.                              *)
(***************************************************************************)
EXTENDS LedCalib

Conf5 ==
  [number_channels |-> 5, channel_mask |-> {0, 3}, pulse_mode |-> "single",
   double_pulse_delay_ticks |-> 4095, burst_count |-> 70000,
   pulse1_width_ticks |-> 255, pulse2_width_ticks |-> 3,
   pulse_bias_percent_270nm |-> 33, pulse_bias_percent_367nm |-> 100,
   board_ip |-> "10.73.137.81", partition_number |-> 1, timing_address |-> 32,
   interface_type |-> 1, module_id |-> 4103, hardware_configuration |-> <<>>]

Entry(name, n, r, v) == [regname |-> name, size |-> n, reg |-> r, val |-> v]

Conf5Burst == [Conf5 EXCEPT !.pulse_mode = "burst", !.channel_mask = {4},
                            !.double_pulse_delay_ticks = 0,
                            !.partition_number = 2]

Conf12 == [Conf5 EXCEPT !.number_channels = 12, !.channel_mask = {0, 7, 11},
                        !.pulse_mode = "burst"]

\* Entries over registers the mode writes, the last of two for one register, one
\* ignored, one without values, one whose second value does not exist, and one
\* under a mask.
ConfLiterals ==
  [Conf5 EXCEPT !.hardware_configuration =
     << Entry("Literal", 2, "cal_count", Word(0, 5)),
        Entry("Other", 2, "pdts_cmd_control_1", Word(0, 9)),
        Entry("Literal", 0, "pdts_cmd_control_1", Word(0, 9)),
        Entry("Literal", 1, "module_id", Zero),
        Entry("Literal", 3, "eventDataInterfaceSelect", Zero),
        Entry("Literals", 2, "cal_count", Word(0, 6)) >>]

MCLiteralNames == {"Literal", "Literals"}

\* Refused: by validate_config, by the address checks, by the interface check.
Refused == { [Conf5 EXCEPT !.number_channels = 8],
             [Conf5 EXCEPT !.pulse2_width_ticks = 256],
             [Conf5 EXCEPT !.board_ip = "default"],
             [Conf5 EXCEPT !.timing_address = 256],
             [Conf5 EXCEPT !.interface_type = 2] }

FiveChannels   == {ConfLiterals, Conf5Burst} \cup Refused
\* The second has a delay that carries into the trigger bits.
TwelveChannels == {Conf12, [Conf12 EXCEPT !.channel_mask = {6},
                                          !.pulse_mode = "single",
                                          !.double_pulse_delay_ticks = 4096]}
OnlyTwelve     == {Conf12}
BothModes      == {Conf5, Conf5Burst}

MCStatusValues == {0, 8}
=============================================================================
