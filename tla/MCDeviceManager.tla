-------------------------- MODULE MCDeviceManager --------------------------
(***************************************************************************)
(* Interfaces for DeviceManager: modules with boards, slow-control users.  *)
(* Three addresses are one for each of the two objects that live at a time *)
(* and one that is left free by, or behind, a refresh.                     *)
(***************************************************************************)
EXTENDS DeviceManager, TLC

CONSTANTS led1, led2, slow1, slow2, ip1, ip2, a1, a2, a3

OneModule  == led1 :> ip1 @@ slow1 :> Emulated @@ slow2 :> Emulated
TwoModules == led1 :> ip1 @@ led2 :> ip2

MCAddresses == {a1, a2, a3}
Anything    == MCAddresses \cup {None}
=============================================================================
