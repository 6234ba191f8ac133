--------------------------- MODULE DeviceManager ---------------------------
(***************************************************************************)
(* The DeviceManager singleton and the DeviceInterfaces of one process:    *)
(* who owns the device objects, and which object each interface points to. *)
(*                                                                         *)
(* The manager keeps Ethernet devices by IP address, and a list of         *)
(* emulated ones of which the program can only ask for the first.  Before  *)
(* it opens an Ethernet device it refreshes both, which destroys all that  *)
(* is in them: fHaveLookedForDevices is set nowhere.                       *)
(*                                                                         *)
(* An interface belongs to an LED calibration module, whose conf opens an  *)
(* Ethernet device and is carried out until it succeeded once, or to a     *)
(* user of the public slow-control calls, on the emulated device (over     *)
(* Ethernet OpenSlowControl would ask for address 0.0.0.0).  The module    *)
(* never calls Shutdown; a user may at any time, whether or not it has a   *)
(* device open.  The process makes its calls one after the other.          *)
(*                                                                         *)
(* A device is known by the address of its object, which is free for       *)
(* another once the object is destroyed.                                   *)
(***************************************************************************)
CONSTANTS Interfaces,
          Board,         \* of each interface: an IP address, or Emulated
          Emulated,
          Addresses,     \* where an object can be
          Garbage,       \* what an fDevice that nobody set can be
          None

ASSUME BoardAssumption == DOMAIN Board = Interfaces
ASSUME AddressAssumption == /\ None \notin Addresses
                            /\ Garbage \subseteq Addresses \cup {None}

Boards == {Board[i] : i \in Interfaces} \ {Emulated}

VARIABLES fEthernetDevices,   \* by board: the object, or None
          fEmulatedDevice,    \* the first of the emulated devices, or None
          isOpen,             \* objects whose flag is set
          connected,          \* objects that could be connected to their board
          fDevice,            \* of each interface
          fState,             \* of each interface
          holds,              \* history: interfaces that have opened their
                              \* device, and not shut it down nor lost it to a
                              \* refresh
          astray,             \* history: open objects that were closed by an
                              \* interface that did not hold them
          m_configured        \* interfaces whose module is configured

vars == <<fEthernetDevices, fEmulatedDevice, isOpen, connected,
          fDevice, fState, holds, astray, m_configured>>

\* The objects that live, which are those the manager keeps.
Objects(eth, emu) == ({eth[b] : b \in Boards} \cup {emu}) \ {None}
Kept == Objects(fEthernetDevices, fEmulatedDevice)
-----------------------------------------------------------------------------
\* No constructor sets fDevice.
Init == /\ fEthernetDevices = [b \in Boards |-> None]
        /\ fEmulatedDevice = None
        /\ isOpen = {}
        /\ connected = {}
        /\ fDevice \in [Interfaces -> Garbage]
        /\ fState = [i \in Interfaces |-> "kUninitialized"]
        /\ holds = {}
        /\ astray = {}
        /\ m_configured = {}

Initialize(i) ==
  /\ fState' = [fState EXCEPT ![i] = "kInitialized"]
  /\ UNCHANGED <<fEthernetDevices, fEmulatedDevice, isOpen, connected>>
  /\ UNCHANGED <<fDevice, holds, astray, m_configured>>

\* Mutants: every kind of device is looked for again; an open device is handed
\* out.
RefreshesForAny(b) == TRUE
Refreshes(b) == b # Emulated
AlreadyOpenNever(o, open) == FALSE
AlreadyOpen(o, open) == o \in open

\* RefreshDevices: whether a device is open is looked at, and makes no
\* difference.  Who held one of them holds a pointer to nothing.
Refreshed == [eth |-> [b \in Boards |-> None], emu |-> None, open |-> {},
              connected |-> {}, holds |-> {}, astray |-> {}]
AsIs == [eth |-> fEthernetDevices, emu |-> fEmulatedDevice, open |-> isOpen,
         connected |-> connected, holds |-> holds, astray |-> astray]
Lists(b) == IF Refreshes(b) THEN Refreshed ELSE AsIs

\* OpenDevice for interface i: refresh, make the object if there is none, refuse
\* it (EDeviceAlreadyOpen) if it is open, open it.  Only an emulated device sets
\* its flag.  An Ethernet device that cannot connect throws, and stays behind.
OpenDevice(i, b, returns) ==
  LET was   == Lists(b)
      found == IF b = Emulated THEN was.emu ELSE was.eth[b]
  IN  \E o \in IF found = None THEN Addresses \ Objects(was.eth, was.emu)
                                ELSE {found} :
        /\ ~AlreadyOpen(o, was.open)
        /\ IF b = Emulated
             THEN /\ fEthernetDevices' = was.eth
                  /\ fEmulatedDevice' = o
                  /\ isOpen' = was.open \cup {o}
                  /\ connected' = was.connected
             ELSE /\ fEthernetDevices' = [was.eth EXCEPT ![b] = o]
                  /\ fEmulatedDevice' = was.emu
                  /\ isOpen' = was.open
                  /\ connected' = was.connected \cup (IF returns THEN {o} ELSE {})
        /\ fDevice' = IF returns THEN [fDevice EXCEPT ![i] = o] ELSE fDevice
        /\ holds' = was.holds \cup (IF returns THEN {i} ELSE {})
        /\ astray' = was.astray

\* conf up to fDevice.  What follows on the board is PdtsSync: it may throw,
\* and then the next conf is carried out as well.
Configure(i) ==
  /\ fState[i] # "kUninitialized"
  /\ i \notin m_configured
  /\ \E returns \in BOOLEAN :
       /\ OpenDevice(i, Board[i], returns)
       /\ m_configured' \in IF returns THEN {m_configured, m_configured \cup {i}}
                                       ELSE {m_configured}
  /\ UNCHANGED fState

\* fState is not looked at.
OpenSlowControl(i) == /\ OpenDevice(i, Emulated, TRUE)
                      /\ UNCHANGED <<fState, m_configured>>

\* Close clears the flag of the device, whoever opened it.
\* Mutant: it does not.
ClosedNot(o) == isOpen
Closed(o) == isOpen \ {o}

\* Shutdown closes what fDevice points to, and keeps the pointer, so that a
\* second Shutdown closes it again.  If no object is there (a refresh destroyed
\* it, or nobody has set fDevice) this writes to memory of nobody ...
Shutdown(i) ==
  /\ isOpen' = Closed(fDevice[i])
  /\ fState' = [fState EXCEPT ![i] = "kUninitialized"]
  /\ holds' = holds \ {i}
  /\ astray' = IF i \notin holds THEN astray \cup (isOpen \cap {fDevice[i]})
                                 ELSE astray
  /\ UNCHANGED <<fEthernetDevices, fEmulatedDevice, connected>>
  /\ UNCHANGED <<fDevice, m_configured>>

\* ... or ends the process, and another is started.
ShutdownEndsProcess(i) ==
  /\ fDevice[i] \notin Kept
  /\ fEthernetDevices' = Refreshed.eth
  /\ fEmulatedDevice' = Refreshed.emu
  /\ isOpen' = {}
  /\ connected' = {}
  /\ fDevice' \in [Interfaces -> Garbage]
  /\ fState' = [x \in Interfaces |-> "kUninitialized"]
  /\ holds' = {}
  /\ astray' = {}
  /\ m_configured' = {}

Module(i) == Board[i] # Emulated /\ Configure(i)
User(i)   == /\ Board[i] = Emulated
             /\ OpenSlowControl(i) \/ Shutdown(i) \/ ShutdownEndsProcess(i)

Next == \E i \in Interfaces : Initialize(i) \/ Module(i) \/ User(i)

Spec == Init /\ [][Next]_vars
-----------------------------------------------------------------------------
\* The types, and: unless somebody else has closed it, the device list keeps its
\* emulated device open while, and only while, an interface holds it.
TypeOK ==
  LET pointers == Addresses \cup {None}
  IN  /\ fEthernetDevices \in [Boards -> pointers]
      /\ fEmulatedDevice \in pointers
      /\ isOpen \cup connected \cup astray \subseteq Kept
      /\ fDevice \in [Interfaces -> pointers]
      /\ fState \in [Interfaces -> {"kUninitialized", "kInitialized"}]
      /\ holds \subseteq Interfaces
      /\ \A i \in holds : fDevice[i] \in Kept
      /\ m_configured \subseteq Interfaces
      /\ fEmulatedDevice \notin astray \cup {None} =>
           (fEmulatedDevice \in isOpen
              <=> \E i \in holds : fDevice[i] = fEmulatedDevice)

\* A configured module still holds the object it writes to, which is the one kept
\* for its own board and connected, whatever opens failed before (213 throws with
\* the object in the map and an older pointer in the interface) and whatever
\* slow-control users opened and closed since (183: an emulated device is opened
\* without a refresh), with pointers of their own or old ones.  It holds of one
\* module per process.
ConfiguredModuleHasDevice ==
  \A i \in m_configured : /\ i \in holds
                          /\ fDevice[i] = fEthernetDevices[Board[i]]
                          /\ fDevice[i] \in connected

\* If two interfaces hold the same device, then it was closed by one that did not
\* hold it.  A device is refused while it is open (EDeviceAlreadyOpen, 208-210
\* and 223-225) and free again after a Shutdown ("Allows opening hardware in
\* another interface object if needed", DeviceInterface.hpp:78), also when a
\* refresh destroyed the list in between and another object is where the old one
\* was.
ExclusiveDevice ==
  \A i, j \in holds : i # j /\ fDevice[i] = fDevice[j] => fDevice[i] \in astray

\* A configured module does not lose its device: "Device manager refused request
\* to refresh device list due to ethernet devices still open"
\* (DeviceManager.cxx:61-62).
HeldDevicesKept == m_configured \subseteq holds
=============================================================================
