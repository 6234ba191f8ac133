---------------------------- MODULE TimingBoard ----------------------------
(***************************************************************************)
(* What the timing half of an SSP board may be taken through, whoever      *)
(* drives it and wherever the driver stops: the DSP clock is switched to   *)
(* the internal oscillator before the timing endpoint is put in reset, the *)
(* endpoint gets another partition and address only while it is put in     *)
(* reset, and the DSP goes back to the endpoint's clock only once the      *)
(* endpoint is out of reset.  Nothing is said of when a step is taken: a   *)
(* driver that crashes or whose register write fails simply takes no more  *)
(* steps.  PdtsSync is shown to implement this specification.              *)
(***************************************************************************)
CONSTANT Settings        \* the [part, addr] pairs an endpoint can be given

VARIABLES source,        \* clock of the DSP: "internal" or "external"
          endpoint,      \* the timing endpoint: "reset" or "run"
          setting        \* partition and address of the endpoint

vars == <<source, endpoint, setting>>

Init == /\ source = "internal"
        /\ endpoint \in {"reset", "run"}
        /\ setting \in Settings

SwitchToInternal == /\ source' = "internal"
                    /\ UNCHANGED <<endpoint, setting>>

HoldInReset(s) == /\ source = "internal"
                  /\ endpoint' = "reset"
                  /\ setting' = s
                  /\ UNCHANGED source

ReleaseReset == /\ source = "internal"
                /\ endpoint = "reset"
                /\ endpoint' = "run"
                /\ UNCHANGED <<source, setting>>

SwitchToExternal == /\ endpoint = "run"
                    /\ source' = "external"
                    /\ UNCHANGED <<endpoint, setting>>

Next == \/ SwitchToInternal
        \/ \E s \in Settings : HoldInReset(s)
        \/ ReleaseReset
        \/ SwitchToExternal

Spec == Init /\ [][Next]_vars
=============================================================================
