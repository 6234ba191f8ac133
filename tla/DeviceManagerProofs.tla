------------------------ MODULE DeviceManagerProofs ------------------------
(***************************************************************************)
(* Theorems about DeviceManager, for any interfaces, any boards, any       *)
(* addresses and any garbage.                                              *)
(***************************************************************************)
EXTENDS DeviceManager, TLAPS

IInv == TypeOK /\ ExclusiveDevice

\* A process begins with it, whatever its pointers are.
LEMMA InvInit == Init => IInv
  BY AddressAssumption DEF Init, IInv, TypeOK, ExclusiveDevice, Kept, Objects

\* What an open does to the emulated device: it makes one where no object is, or
\* takes the one kept.  Nobody holds it, unless it went astray.
LEMMA OpenEmulated ==
  ASSUME IInv, NEW i \in Interfaces, OpenDevice(i, Emulated, TRUE)
  PROVE  \E o \in Addresses :
           /\ o \notin astray => \A j \in holds : fDevice[j] # o
           /\ fEmulatedDevice # None => o = fEmulatedDevice
           /\ fEthernetDevices' = fEthernetDevices /\ fEmulatedDevice' = o
           /\ isOpen' = isOpen \cup {o} /\ connected' = connected
           /\ fDevice' = [fDevice EXCEPT ![i] = o]
           /\ holds' = holds \cup {i} /\ astray' = astray
<1>1. /\ Lists(Emulated) = AsIs
      /\ AsIs.eth = fEthernetDevices /\ AsIs.emu = fEmulatedDevice
      /\ AsIs.open = isOpen /\ AsIs.connected = connected
      /\ AsIs.holds = holds /\ AsIs.astray = astray
  BY DEF Lists, Refreshes, AsIs
<1>2. PICK o \in IF fEmulatedDevice = None THEN Addresses \ Kept
                                           ELSE {fEmulatedDevice} :
        /\ o \notin isOpen
        /\ fEthernetDevices' = fEthernetDevices /\ fEmulatedDevice' = o
        /\ isOpen' = isOpen \cup {o} /\ connected' = connected
        /\ fDevice' = [fDevice EXCEPT ![i] = o]
        /\ holds' = holds \cup {i} /\ astray' = astray
  BY <1>1 DEF OpenDevice, AlreadyOpen, Kept
<1>3. o \in Addresses
  BY <1>2 DEF IInv, TypeOK
<1>4. ASSUME o \notin astray PROVE \A j \in holds : fDevice[j] # o
  <2>1. CASE fEmulatedDevice = None
    <3>1. o \notin Kept
      BY <1>2, <2>1
    <3> QED
      BY <3>1 DEF IInv, TypeOK
  <2>2. CASE fEmulatedDevice # None
    BY <1>2, <1>4, <2>2 DEF IInv, TypeOK
  <2> QED
    BY <2>1, <2>2
<1> QED
  BY <1>2, <1>3, <1>4

\* What it does to an Ethernet device: a refresh, and a new object.
LEMMA OpenEthernet ==
  ASSUME IInv, NEW i \in Interfaces, Board[i] # Emulated, NEW returns \in BOOLEAN,
         OpenDevice(i, Board[i], returns)
  PROVE  \E o \in Addresses :
           /\ fEthernetDevices' = [[b \in Boards |-> None] EXCEPT ![Board[i]] = o]
           /\ fEmulatedDevice' = None
           /\ isOpen' = {} /\ astray' = {}
           /\ connected' = (IF returns THEN {o} ELSE {})
           /\ fDevice' = IF returns THEN [fDevice EXCEPT ![i] = o] ELSE fDevice
           /\ holds' = (IF returns THEN {i} ELSE {})
<1>1. Lists(Board[i]) = Refreshed /\ Board[i] \in Boards
  BY DEF Lists, Refreshes, Boards
<1>2. Refreshed.eth[Board[i]] = None
  BY <1>1 DEF Refreshed
<1> QED
  BY <1>1, <1>2 DEF OpenDevice, Refreshed

LEMMA InvStep == IInv /\ [Next]_vars => IInv'
<1> SUFFICES ASSUME IInv, [Next]_vars PROVE IInv'
  OBVIOUS
<1>0. None \notin Addresses /\ TypeOK /\ ExclusiveDevice
  BY AddressAssumption DEF IInv
<1>1. ASSUME NEW i \in Interfaces, Initialize(i) PROVE IInv'
  BY <1>1 DEF IInv, TypeOK, ExclusiveDevice, Initialize, Kept, Objects
<1>2. ASSUME NEW i \in Interfaces, OpenSlowControl(i) PROVE IInv'
  <2>1. PICK o \in Addresses :
           /\ o \notin astray => \A j \in holds : fDevice[j] # o
           /\ fEmulatedDevice # None => o = fEmulatedDevice
           /\ fEthernetDevices' = fEthernetDevices /\ fEmulatedDevice' = o
           /\ isOpen' = isOpen \cup {o} /\ connected' = connected
           /\ fDevice' = [fDevice EXCEPT ![i] = o]
           /\ holds' = holds \cup {i} /\ astray' = astray
    BY <1>2, OpenEmulated DEF OpenSlowControl
  <2>2. Kept' = Kept \cup {o}
    BY <1>0, <2>1 DEF Kept, Objects
  <2>3. TypeOK'
    <3>1. \A j \in holds' : fDevice'[j] \in Kept'
      BY <1>0, <2>1, <2>2 DEF TypeOK
    <3>2. fEmulatedDevice' \in isOpen'
          /\ \E j \in holds' : fDevice'[j] = fEmulatedDevice'
      BY <1>0, <2>1 DEF TypeOK
    <3>3. fDevice' \in [Interfaces -> Addresses \cup {None}]
          /\ holds' \subseteq Interfaces
      BY <1>0, <2>1 DEF TypeOK
    <3>4. isOpen' \cup connected' \cup astray' \subseteq Kept'
      BY <1>0, <2>1, <2>2 DEF TypeOK
    <3> QED
      BY <1>0, <1>2, <2>1, <3>1, <3>2, <3>3, <3>4 DEF TypeOK, OpenSlowControl
  <2>4. ExclusiveDevice'
    BY <1>0, <2>1 DEF ExclusiveDevice, TypeOK
  <2> QED
    BY <2>3, <2>4 DEF IInv
<1>3. ASSUME NEW i \in Interfaces, Module(i) PROVE IInv'
  <2>1. PICK returns \in BOOLEAN :
          /\ OpenDevice(i, Board[i], returns)
          /\ m_configured' \in IF returns THEN {m_configured, m_configured \cup {i}}
                                          ELSE {m_configured}
    BY <1>3 DEF Module, Configure
  <2>2. PICK o \in Addresses :
          /\ fEthernetDevices' = [[b \in Boards |-> None] EXCEPT ![Board[i]] = o]
          /\ fEmulatedDevice' = None
          /\ isOpen' = {} /\ astray' = {}
          /\ connected' = (IF returns THEN {o} ELSE {})
          /\ fDevice' = IF returns THEN [fDevice EXCEPT ![i] = o] ELSE fDevice
          /\ holds' = (IF returns THEN {i} ELSE {})
    BY <1>3, <2>1, OpenEthernet DEF Module
  <2>3. o \in Kept'
    BY <1>0, <1>3, <2>2 DEF Kept, Objects, Boards, Module
  <2>4. TypeOK'
    <3>1. fEthernetDevices' \in [Boards -> Addresses \cup {None}]
      BY <2>2
    <3>2. fDevice' \in [Interfaces -> Addresses \cup {None}]
      BY <1>0, <2>2 DEF TypeOK
    <3>3. \A j \in holds' : fDevice'[j] \in Kept'
      BY <1>0, <2>2, <2>3 DEF TypeOK
    <3>4. m_configured' \subseteq Interfaces /\ fState' = fState
      BY <1>0, <1>3, <2>1 DEF TypeOK, Module, Configure
    <3> QED
      BY <1>0, <2>2, <2>3, <3>1, <3>2, <3>3, <3>4 DEF TypeOK
  <2>5. ExclusiveDevice'
    BY <2>2 DEF ExclusiveDevice
  <2> QED
    BY <2>4, <2>5 DEF IInv
<1>4. ASSUME NEW i \in Interfaces, Shutdown(i) PROVE IInv'
  <2>1. /\ isOpen' = isOpen \ {fDevice[i]} /\ holds' = holds \ {i}
        /\ astray' = IF i \notin holds THEN astray \cup (isOpen \cap {fDevice[i]})
                                       ELSE astray
        /\ fEmulatedDevice' = fEmulatedDevice /\ fDevice' = fDevice
        /\ Kept' = Kept
    BY <1>4 DEF Shutdown, Closed, Kept, Objects
  <2>2. ExclusiveDevice'
    BY <1>0, <2>1 DEF ExclusiveDevice
  <2>3. ASSUME fEmulatedDevice \notin astray' \cup {None}
        PROVE  fEmulatedDevice \in isOpen'
                 <=> \E j \in holds' : fDevice[j] = fEmulatedDevice
    <3>1. (fEmulatedDevice \in isOpen)
            <=> \E j \in holds : fDevice[j] = fEmulatedDevice
      BY <1>0, <2>1, <2>3 DEF TypeOK
    <3>2. CASE fDevice[i] # fEmulatedDevice
      BY <2>1, <3>1, <3>2
    <3>3. CASE fDevice[i] = fEmulatedDevice /\ i \in holds
      <4>1. \A j \in holds : fDevice[j] = fEmulatedDevice => j = i
        BY <1>0, <2>1, <2>3, <3>3 DEF ExclusiveDevice
      <4> QED
        BY <2>1, <3>3, <4>1
    <3>4. CASE fDevice[i] = fEmulatedDevice /\ i \notin holds
      BY <2>1, <2>3, <3>1, <3>4
    <3> QED
      BY <3>2, <3>3, <3>4
  <2>4. isOpen' \cup connected' \cup astray' \subseteq Kept'
    BY <1>0, <1>4, <2>1 DEF TypeOK, Shutdown
  <2> QED
    BY <1>0, <1>4, <2>1, <2>2, <2>3, <2>4 DEF IInv, TypeOK, Shutdown
<1>5. ASSUME NEW i \in Interfaces, ShutdownEndsProcess(i) PROVE IInv'
  BY <1>5, AddressAssumption
     DEF ShutdownEndsProcess, Refreshed, IInv, TypeOK, ExclusiveDevice, Kept, Objects
<1>6. CASE UNCHANGED vars
  BY <1>6 DEF IInv, TypeOK, ExclusiveDevice, vars, Kept, Objects
<1> QED
  BY <1>1, <1>2, <1>3, <1>4, <1>5, <1>6 DEF Next, User

LEMMA Invariance == Spec => []IInv
  BY InvInit, InvStep, PTL DEF Spec

\* The manager's maps and the interfaces' pointers are well formed, only objects
\* that live are open or held, and the emulated device is marked open while, and
\* only while, somebody holds it, unless an interface that did not has closed it
\* (DeviceInterface::Shutdown asks nothing, 766-774).
THEOREM TypeCorrect == Spec => []TypeOK
<1>1. IInv => TypeOK
  BY DEF IInv
<1> QED
  BY Invariance, <1>1, PTL

\* A stray Shutdown is the only way for two interfaces to hold the same device
\* (DeviceManager.cxx:208-210, 223-225), however many there are, however often the
\* list was refreshed and wherever the objects made after that are.
THEOREM Exclusive == Spec => []ExclusiveDevice
<1>1. IInv => ExclusiveDevice
  BY DEF IInv
<1> QED
  BY Invariance, <1>1, PTL
-----------------------------------------------------------------------------
\* One LED calibration module per process; users of slow control are free.
OneModule == \A i, j \in Interfaces : Board[i] # Emulated /\ Board[j] # Emulated => i = j

OnlyModulesConfigured == \A i \in m_configured : i \in Interfaces /\ Board[i] # Emulated

\* The device of a configured module, through everything else.
LEMMA DeviceKept ==
  ASSUME OneModule, IInv, OnlyModulesConfigured, ConfiguredModuleHasDevice,
         [Next]_vars
  PROVE  OnlyModulesConfigured' /\ ConfiguredModuleHasDevice'
<1> USE DEF OnlyModulesConfigured, ConfiguredModuleHasDevice
<1>1. ASSUME NEW i \in Interfaces, Initialize(i)
      PROVE  OnlyModulesConfigured' /\ ConfiguredModuleHasDevice'
  BY <1>1 DEF Initialize
<1>2. ASSUME NEW i \in Interfaces, Board[i] = Emulated, OpenSlowControl(i)
      PROVE  OnlyModulesConfigured' /\ ConfiguredModuleHasDevice'
  <2>1. m_configured' = m_configured
    BY <1>2 DEF OpenSlowControl
  <2>2. PICK o : /\ fDevice' = [fDevice EXCEPT ![i] = o]
                 /\ fEthernetDevices' = fEthernetDevices
                 /\ connected' = connected
                 /\ holds' = holds \cup {i}
    BY <1>2, OpenEmulated DEF OpenSlowControl
  <2>3. \A j \in m_configured : j # i
    BY <1>2
  <2> QED
    BY <2>1, <2>2, <2>3 DEF IInv, TypeOK
<1>3. ASSUME NEW i \in Interfaces, Board[i] = Emulated, Shutdown(i)
      PROVE  OnlyModulesConfigured' /\ ConfiguredModuleHasDevice'
  BY <1>3 DEF Shutdown
<1>4. ASSUME NEW i \in Interfaces, ShutdownEndsProcess(i)
      PROVE  OnlyModulesConfigured' /\ ConfiguredModuleHasDevice'
  BY <1>4 DEF ShutdownEndsProcess
<1>5. ASSUME NEW i \in Interfaces, Module(i)
      PROVE  OnlyModulesConfigured' /\ ConfiguredModuleHasDevice'
  <2>1. Board[i] # Emulated /\ m_configured = {}
    BY <1>5 DEF Module, Configure, OneModule
  <2>2. Board[i] \in Boards
    BY <2>1 DEF Boards
  <2>3. PICK returns \in BOOLEAN :
          /\ OpenDevice(i, Board[i], returns)
          /\ m_configured' \in IF returns THEN {m_configured, m_configured \cup {i}}
                                          ELSE {m_configured}
    BY <1>5 DEF Module, Configure
  <2>4. CASE m_configured' = {}
    BY <2>4
  <2>5. CASE m_configured' = {i} /\ returns
    <3>1. PICK o \in Addresses :
            /\ fEthernetDevices' =
                 [[b \in Boards |-> None] EXCEPT ![Board[i]] = o]
            /\ connected' = {o}
            /\ fDevice' = [fDevice EXCEPT ![i] = o]
            /\ holds' = {i}
      BY <2>1, <2>3, <2>5, OpenEthernet
    <3> QED
      BY <2>1, <2>2, <2>5, <3>1 DEF IInv, TypeOK
  <2> QED
    BY <2>1, <2>3, <2>4, <2>5
<1>6. CASE UNCHANGED vars
  BY <1>6 DEF vars
<1> QED
  BY <1>1, <1>2, <1>3, <1>4, <1>5, <1>6 DEF Next, User

\* If a process has one LED calibration module, its configured module always
\* holds the connected device of its own board, whatever opens failed before
\* (DeviceManager.cxx:213) and whatever users of the emulated device open and shut
\* down.
THEOREM ModuleHasDevice == OneModule => (Spec => []ConfiguredModuleHasDevice)
<1> SUFFICES ASSUME OneModule PROVE Spec => []ConfiguredModuleHasDevice
  OBVIOUS
<1> DEFINE J == OnlyModulesConfigured /\ ConfiguredModuleHasDevice
<1>1. Init => J
  BY DEF Init, OnlyModulesConfigured, ConfiguredModuleHasDevice
<1>2. IInv /\ J /\ [Next]_vars => J'
  BY DeviceKept
<1> QED
  BY Invariance, <1>1, <1>2, PTL DEF Spec
=============================================================================
