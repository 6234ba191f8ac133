------------------------------- MODULE RegMap -------------------------------
(***************************************************************************)
(* Register access: the requests that an EthernetDevice sends for a board, *)
(* the functions of DeviceInterface that send them, and the access by name *)
(* through the table of RegMap.                                            *)
(*                                                                         *)
(* A register is a set of bits.  Addresses count registers: one of them is *)
(* 0x4 in the code.  A call is known by the request it sends, and Invalid  *)
(* stands for std::invalid_argument, thrown before anything is sent.       *)
(***************************************************************************)
EXTENDS Integers, Sequences

CONSTANTS AllBits,      \* the bits of a register: 0xFFFFFFFF
          Registers,    \* the table: by name, what Register makes
          Invalid

Register(address, readMask, writeMask, size) ==
  [address |-> address, readMask |-> readMask, writeMask |-> writeMask,
   size |-> size, offset |-> 0]

ASSUME RowAssumption ==
  Registers \in [DOMAIN Registers ->
    [address : Nat, readMask : SUBSET AllBits, writeMask : SUBSET AllBits,
     size : Nat \ {0}, offset : {0}]]

\* No register of the table is part of another.
ASSUME TableAssumption ==
  \A m, n \in DOMAIN Registers :
    m # n => \/ Registers[m].address + Registers[m].size <= Registers[n].address
             \/ Registers[n].address + Registers[n].size <= Registers[m].address

(***************************************************************************)
(* Requests of EthernetDevice.  Only the array requests carry a size.      *)
(***************************************************************************)
Request(cmd, at, mask, reads, vals) ==
  [cmd |-> cmd, at |-> at, mask |-> mask, reads |-> reads, vals |-> vals]

DeviceRead(a)            == Request("read", a, AllBits, 1, <<>>)
DeviceReadMask(a, mask)  == Request("readMask", a, mask, 1, <<>>)
DeviceWrite(a, v)        == Request("write", a, AllBits, 0, <<v>>)
DeviceWriteMask(a, m, v) == Request("writeMask", a, m, 0, <<v>>)
DeviceSet(a, mask)       == DeviceWriteMask(a, mask, AllBits)
DeviceClear(a, mask)     == DeviceWriteMask(a, mask, {})
DeviceArrayRead(a, n)    == Request("arrayRead", a, AllBits, n, <<>>)
DeviceArrayWrite(a, vs)  == Request("arrayWrite", a, AllBits, 0, vs)

\* Words behind the header of the reply that is waited for: what was read, and
\* one for a masked write.
RepliedWords(r) == IF r.cmd = "writeMask" THEN 1 ELSE r.reads

(***************************************************************************)
(* DeviceInterface: by address, and by name.                               *)
(***************************************************************************)
\* Mutant: the mask is not looked at.
SetRegisterUnmasked(a, v, mask) == DeviceWrite(a, v)
SetRegister(a, v, mask) == IF mask = AllBits THEN DeviceWrite(a, v)
                                             ELSE DeviceWriteMask(a, mask, v)
ReadRegister(a, mask)   == IF mask = AllBits THEN DeviceRead(a)
                                             ELSE DeviceReadMask(a, mask)

\* Indexing makes a register from the address, the masks, the offset of the
\* array where the size belongs, and 1 as the offset.  No index is refused.
\* Mutant: the address stays that of the array.
ElementAtBase(reg, i) == [reg EXCEPT !.size = reg.offset, !.offset = 1]
Element(reg, i) == [reg EXCEPT !.address = @ + i, !.size = reg.offset,
                               !.offset = 1]

\* A register stands for its address, unless it is an array.
IfScalar(reg, request) == IF reg.size > 1 THEN Invalid ELSE request

\* A name that the table does not have is refused.
Lookup(name, request) == IF name \in DOMAIN Registers THEN request ELSE Invalid

SetRegisterByName(name, v) ==
  LET reg == Registers[name]
  IN  Lookup(name, IfScalar(reg, SetRegister(reg.address, v, reg.writeMask)))

ReadRegisterByName(name) ==
  LET reg == Registers[name]
  IN  Lookup(name, IfScalar(reg, ReadRegister(reg.address, reg.readMask)))

SetRegisterElementByName(name, i, v) ==
  LET e == Element(Registers[name], i)
  IN  Lookup(name, IfScalar(e, SetRegister(e.address, v, e.writeMask)))

ReadRegisterElementByName(name, i) ==
  LET e == Element(Registers[name], i)
  IN  Lookup(name, IfScalar(e, ReadRegister(e.address, e.readMask)))

\* Arrays go without the masks, from the address of element 0.
SetRegisterArrayByName(name, vs) ==
  LET reg == Registers[name]
  IN  Lookup(name, IF Len(vs) = reg.size
                     THEN DeviceArrayWrite(Element(reg, 0).address, vs)
                     ELSE Invalid)

\* Every element to one value.
FillRegisterArrayByName(name, v) ==
  Lookup(name,
         SetRegisterArrayByName(name, [i \in 1..Registers[name].size |-> v]))

ReadRegisterArrayByName(name) ==
  LET reg == Registers[name]
  IN  Lookup(name, DeviceArrayRead(Element(reg, 0).address, reg.size))
=============================================================================
