--------------------------- MODULE MCEthernetLink ---------------------------
(***************************************************************************)
(* Registers of two bits: a register of which one bit can be read and      *)
(* written, followed by an array of two.  Index 1 of the register is       *)
(* outside of it and inside of the array.  All ones and all zeros are      *)
(* written, so that an old reply can be told from a new one; headers       *)
(* arrive in up to HeaderUnits pieces, so that some of them can be left.   *)
(***************************************************************************)
EXTENDS EthernetLink

CONSTANTS b1, b2

MCAllBits == {b1, b2}
MCRegisters == [scalar |-> Register(0, {b1}, {b1}, 1),
                vector |-> Register(1, {b1, b2}, {b1, b2}, 2)]
MCValues == {{}, {b1, b2}}
MCMasks == {{b1}, {b1, b2}}
MCNames == {"scalar", "vector", "unknown"}
MCIndices == 0..1
=============================================================================
