----------------------------- MODULE MCPdtsSync -----------------------------
(***************************************************************************)
(* Targets that differ in the partition only, in the address only, in a    *)
(* bit of the partition the code does not read back, and one with an       *)
(* interface it refuses; statuses that are not locked, locked, running,    *)
(* and running with an upper bit of the register set.                      *)
(***************************************************************************)
EXTENDS PdtsSync

MCTargets ==
  { [part |-> 1, addr |-> 32, iface |-> 1],
    [part |-> 2, addr |-> 32, iface |-> 1],
    [part |-> 1, addr |-> 43, iface |-> 1],
    [part |-> 5, addr |-> 32, iface |-> 1],
    [part |-> 1, addr |-> 32, iface |-> 0] }

MCStatusValues == {0, 6, 8, 24}

\* For the liveness runs: one target that can be skipped to, one that cannot.
LiveTargets ==
  { [part |-> 1, addr |-> 32, iface |-> 1],
    [part |-> 5, addr |-> 32, iface |-> 1] }

LiveStatusValues == {0, 6, 8}
=============================================================================
