# sspmodules: a verification project

TLA+ models of the SSP modules of DUNE-DAQ (`sspmodules`), the TLC runs that
check them, and theorems about them proved with TLAPS. The repository holds a
DAQ module that pulses the light-calibration LEDs of an SSP board, and the board
library (`src/src/anlBoard`) it drives the board with: timing synchronisation,
register operations over TCP, device ownership, and a data-taking path.

Line numbers below are those of the files under `src/`; short names stand for
`src/src/anlBoard/<name>` and `src/src/SSPLEDCalibWrapper.cpp` ("wrapper").

## 1. Inventory

| Part | State | Operations | Interacts with |
|---|---|---|---|
| **LED calibration module** (`SSPLEDCalibModule`, `SSPLEDCalibWrapper`) | `m_configured`, `m_run_marker`, `m_single_pulse`, `m_burst_mode`, the settings copied from the last conf | `init`, `conf` (validate, synchronise, configure, literal entries), `start` (pulse), `stop` | commands of the DAQ application; calls `DeviceInterface` |
| **Timing synchronisation** (`DeviceInterface::ConfigureLEDCalib`) | on the board: `pdts_status`, `pdts_control`, `dsp_clock_control`; local copies, try counter | one call per conf | register operations of the device; the endpoint moves by itself |
| **Data taking** (`DeviceInterface::Start`, `Stop`, `HardwareReadLoop`, `ReadEventFromDevice`) | `fState`, `fShouldStop`, `fDataThread`; data socket | start/stop a run, read thread | registers (comm socket), event stream (data socket) |
| **Triggers and fragments** (`ReadEvent`, `GetTriggerInfo`, `BuildFragment`) | `fTriggers`, `fPacketBuffer` | choose the events of a trigger, write the fragment, put later events back | unreachable in this commit: nothing fills `fTriggers` |
| **Register access by name** (`RegMap`, `SetRegisterByName` ...) | a constant table | address, size and masks of a name; indexing; requests of one register, an element or an array | every component that writes registers |
| **Timestamps** (`GetTimestamp`, `SetExternalTimestamp`) | `fFragmentTimestampOffset` | four 16-bit words to and from an `unsigned long` | the read thread and `BuildFragment` |
| **Ethernet device** (`EthernetDevice`) | two sockets | open, `SendReceive` with retries, purge, read/write/clear/set | TCP, the board |
| **Emulated device** (`EmulatedDevice`) | `fEmulatorThread`, `fEmulatorShouldStop`, a `SafeQueue`, `isOpen` | open, close, start/stop the emulator, purge | `SafeQueue` |
| **SafeQueue** | deque, mutex, condition variable | `push`, `pop`, `try_pop`, `size` | threads of the emulated device |
| **Device manager** (`DeviceManager`, singleton) | Ethernet devices by IP, list of emulated ones | `RefreshDevices`, `OpenDevice` | owns every device; interfaces keep raw pointers |
| Event packets, diagnostics | none, or pure | copies, formatting | - |
| Exceptions, issues, schema, build, USB (commented out) | none | declarations | - |

A conf travels module -> wrapper -> `DeviceInterface::ConfigureLEDCalib` ->
`DeviceManager::OpenDevice` -> `EthernetDevice`; `start` and `stop` write
registers straight through the interface. Everything runs on the application's
command thread, except the read thread of data taking and the emulator thread.

What is hard here:

* the **board outlives the process**: a conf that threw, or a process that
  ended, leaves registers, endpoint and clock half-way, and the next conf starts
  from there;
* the **endpoint's status changes at any time**, between any two register reads;
* **commands are sent again**: flags of the module decide whether a command is
  carried out or answered without a look at the board;
* **a reply is not matched with its request**; a short read is retried after a
  purge whose end is a matter of time;
* the **read thread** shares the state of the interface with Stop, and an
  exception in it ends the process;
* `push` **notifies outside the mutex**, and two kinds of waits share one
  condition variable;
* **names resolve to addresses, masks and sizes** in one place and to requests in
  another, and indexing makes a new register out of an old one by position of
  its arguments;
* a time is **cut into words and put together again**, with an `int` added and a
  division between;
* the manager **destroys devices** to which interfaces hold raw pointers.

What makes each part correct:

| Part | Properties |
|---|---|
| Timing | the DSP is never on the clock of an endpoint in reset; a conf that went through left the board on its target; a ready board is not reset; every call ends |
| LED calibration | a successful start pulses what the conf asked for, a successful stop ends it; a configured module's flags, registers and timing agree with its settings |
| Ethernet device | each operation is one atomic read or write; nothing of one is left for the next |
| Register access | a call by name touches the registers of its row and no other, within the masks |
| Timestamps | a time survives the words; what is sent is a third of the board's time plus the offset, in order |
| Fragments | exactly the events of the trigger's window; none of them is left for the next fragment |
| SafeQueue | a FIFO; no lost wake-up |
| Emulated device | a stop leaves no thread and no data; the purge does not wait on the thread; calls end |
| Device manager | a configured module has the connected device of its board; a device has one holder, unless a Shutdown closed the device of another |
| Data taking | whole events, in order, of this run; no wait cut off by Stop; calls end |

The full list of hazards, each at its line, is in `PROJECT.json`.

## 2. Modules

```
TimingBoard  <---refines---  PdtsSync  <---refines/composes---  LedCalib
RegisterBus  <---refines---  EthernetLink  ---extends--->  RegMap
Fifo         <---refines---  SafeQueue  <---composes---  EmulatedDevice
Timestamps   <---extends---  DataTaking  <---extends---  MCDataTaking ---evaluates---> Fragment
DeviceManager
```

`PdtsSync`, `LedCalib`, `EthernetLink`, `SafeQueue`, `EmulatedDevice`,
`DeviceManager` and `DataTaking` have their theorems in modules named `...Proofs`;
those about `Timestamps` and `Fragment` are in `EventProofs`.

**`TimingBoard`** (abstract): the order in which clock, reset and settings of a
board may change, from whatever point a driver stopped.

**`PdtsSync`**: `ConfigureLEDCalib` (DeviceInterface.cxx:920-1060), one register
operation per action; each read may throw, each write may throw before or after
the board took it. `Abandon` is the process ending, or the rest of the conf
throwing. `pdts_control` is kept as its fields. `SetPulserMode` stands for the
write of the wrapper to the word that the next conf tests as the clock
selection.

**`LedCalib`**: the three commands of module and wrapper. `conf` contains the
synchronisation by composition: `Sync == INSTANCE PdtsSync` on the same
variables, `ConfSyncs` takes `Sync!SyncStep`; the run checks that the timing
registers then behave as `Sync!Spec`. Bias and timing registers, the applied
bias (`dac`) and the registers of the mode are on the board and survive
`Restart`. 32-bit words are pairs of halves, sums wrap; `LowBits` is the write
mask of a write by name. `ConfsAssumption` says what a conf command can carry: the
types of the schema's fields, the partition with 16 bits (below), `burst_count` with
32; what else has a limit has it from `ValidConf`, a step of the handler.

**`RegMap`**: the requests of `EthernetDevice` (single, masked, array), the calls
of `DeviceInterface` that send them (`SetRegister`, `ReadRegister`, the seven calls
by name), and what the table does: look-up, indexing, conversion to an address. A
register is a set of bits, an address counts registers. The real table is a
constant of the module; a scan of its 134 named rows shows that each address is
that of the member of the same name and that no two rows overlap, which is
`TableAssumption`; `RowAssumption` says what a row is made of.

**`RegisterBus`** (abstract) and **`EthernetLink`**: a register operation on a
memory of registers, and `SendReceive` with its retries, `DevicePurge`, and a
connection that delivers replies in pieces or breaks. The requests are those of
`RegMap`, reads and writes, masked or not, of one register or of an array. The
client is the rest of the program: a conf opens a connection and makes any calls
of `RegMap`, its first exception (also `std::invalid_argument` of a name or an
array, `Refused`) ends it, and start and stop go on using the connection of the
conf that succeeded, for plain writes only, as the wrapper's do.

**`Fifo`** (abstract) and **`SafeQueue`**: one action per section under the
mutex, with the notification of `push` as an action of its own, spurious
wake-ups and timeouts. `purge` is `EmulatedDevice::DevicePurgeData`.

**`EmulatedDevice`**: the emulator thread and the user of the device, with the
buffer between them by composition (`Buffer == INSTANCE SafeQueue`, one producer,
one consumer). The user starts and stops the emulator by register writes, calls
`Stop` or `Shutdown`; `Refresh` is the device manager destroying the device. The
user's calls ask for the pointer that `Open` gave out and never for the flag, so
they may follow a Shutdown.

**`DeviceManager`**: the manager's maps, the objects, the `isOpen` flag (which
only an emulated device sets), and the pointers of the interfaces. A device is known
by the address of its object, which another may have once it is destroyed; an
interface begins with any pointer (`Garbage`), because no constructor sets one.
`Shutdown` has no guard, as in the code (DeviceInterface.cxx:766-774): it closes what
`fDevice` points to, held or not, and keeps the pointer. Where no object is, it
changes nothing here, or ends the process (`ShutdownEndsProcess`). Two histories
speak of ownership, which the code does not record: `holds`, who has opened a device
and neither shut it down nor lost it to a refresh, and `astray`, the open devices that
were closed by an interface that did not hold them.

**`DataTaking`**: `Start` and `Stop`, one register write per step with the order
of the code, the read thread, and the board's event stream as units (pattern
word, header, body) that move from the board's FIFO through the network to the
socket. An event carries the board's time; `Send` corrects it through
`Timestamps`, with the offset the process happened to find in
`fFragmentTimestampOffset`. A sink may fail (`SinkFails`).

**`Timestamps`**: `GetTimestamp` and `SetExternalTimestamp` over words of
`WordBase` values (2^16 in the code), with the wrap-around of `unsigned long` at
its fourth power.

**`Fragment`**: `ReadEvent`'s test and the choice of `BuildFragment`, which events go
into a fragment and which stay, as operators over the times in the buffer.

`PROJECT.json` maps every definition to the lines it stands for. The `MC*`
modules give the constants their small values. Definitions marked *Mutant*
just before another one are wrong versions of it, used to see that a property
can be broken; no specification uses them.

### Abstractions and assumptions

* The application's state machine is not in this repository. `LedCalib` lets it
  send conf in INITIAL, start in CONFIGURED and stop in RUNNING, and, because it
  moves on only if all its modules succeeded, lets it send a command again that
  this module carried out.
* Both purges end when the socket has been quiet for a second. The models assume
  that what was sent before has arrived by then (`Quiet`). The mutants
  `QuietAtOnce` show what depends on it. In the same way `DataTaking` assumes that
  words on their way take less than the ten seconds after which a wait throws,
  unless the network stalls, which counts as a fault.
* A request that is sent in part is dropped by the board (`SendEthernet`).
* The partition is at most 16 bits wide: nothing checks it, and a wider one
  would carry into the address field. Targets with a larger one are left out.
* Literal entries are taken to address registers other than the endpoint's, the
  clock's and the pulse registers. An entry with one value makes the code read
  behind it: the value written is `Unknown`, and no property relies on it.
* The 16 equal writes of `pdts_cmd_delay` are one step, as are the three
  register reads that are only logged (`ReadBack`).
* Calls on one manager or interface come one after the other: the application
  executes the commands of a module in one thread.
* Slow-control users call Initialize, OpenSlowControl and Shutdown on their interfaces
  in any order. The LED calibration module calls no Shutdown. A Shutdown on a pointer
  to nothing writes to memory that is nobody's, or ends the process; that it damages
  a third object there is left out. In `EmulatedDevice`, whose user is one, such a call
  is left out altogether.
* `LiteralNames` stands for the entry names that begin with "Literal" (wrapper 334).
* What the board does with `master_logic_control`, FIFO reset and DDR purge
  (`BoardTakes`) is external, modelled from how Start and Stop use them.

## 3. Runs

Runs that pass:

| Run | Bounds | Shows |
|---|---|---|
| `PdtsSync` | 5 targets: other partition, other address, a partition bit that is not read back, a refused interface; 4 statuses; failures and restarts unbounded | safety of the synchronisation; it implements `TimingBoard`; every call ends once the endpoint runs for good |
| `LedCalib5` | 5 channels; 7 confs: single and burst, literal entries of every length, 5 refused, each at another check; 2 failures or restarts | pulses as configured; stop ends them; settings, flags, registers and timing of a configured module agree; the composition implements `PdtsSync` |
| `LedCalib12` | 2 confs of 12 channels, around the pair 6 and 7 that shares a bias, one of them with a delay of 4096; 1 failure or restart | types; pulses as configured; every command ends |
| `EthernetLink` | registers of 2 bits, one of them half masked, followed by an array of 2; all calls by address with 2 masks, by 3 names (one unknown) and 2 indices; header in up to 3 pieces | implements `RegisterBus`; nothing left behind; calls by name stay inside; every operation ends |
| `SafeQueue` | 2 producers, 3 consumers of any calls, 2 items, 2 places | no lost wake-up; implements `Fifo`; sleepers are served |
| `EmulatedDevice` | events of 3 words, a buffer of two events | a stop leaves nothing behind; the purge never waits; calls end |
| `DeviceManager` | 1 module, 2 users of the emulated device, 3 addresses, uninitialised pointers of any value; calls unbounded | a configured module keeps its device; two interfaces hold the same one only after a Shutdown by one that did not hold it |
| `DataTaking` | 3 events 75 ticks apart, bodies of 1 or 2 units, words of 4 values (times up to 255), offsets 0 and -80; 1 failed write, stall or failed sink, after which the process is restarted. Before it, for every time and for buffers of up to 4 events in any order and all windows, the assumptions of `MCDataTaking` | whole events in order, none cut off, with their times; Start and Stop end; `GetTimestamp` inverts `SetExternalTimestamp`; fragments are windows |

Why the bounds are enough. In `PdtsSync` nothing is bounded but the values, and
each value stands for one outcome of a test in the code. Two faults in
`LedCalib5` give a failed command, a failed retry, and the command that finally
works on what both left; the properties speak of the last of them. Three consumers and two
producers allow a notification to reach a consumer that no longer needs it while
another sleeps and a third takes the element. Three pieces of a header allow one
or two to be left in the socket; index 1 of the single register is outside of it
and inside of the array, the only way past an end that the table offers; and retries are bounded by the code itself
(3). In `DataTaking` Starts and Stops are
unbounded; a body of two units is what a shift in the stream needs, and three
events are one in each of a run, a half-made run and the run after it. The offset
-80 takes the time of the first event below zero and not that of the second, and
the third event has a bit in the highest of the four words. Two objects live at a
time, so of three addresses one is always free: an object made after a refresh is where an
old one was, or is not. Two events of three words let a thread be
stopped, joined or purged at every point of an event with another one before it.

Deadlock is checked in all of them.

### Fairness

`FairSpec` of each module asks only that threads that can run do. In `PdtsSync`
and `LedCalib` the command's thread goes on, and a throw is never needed to make
progress, so a wait is not ended by a lucky failure. No fairness is put on the
endpoint, commands or restarts: `CallEnds` and `CommandsEnd` therefore have the
premise that the endpoint ends up running, which the code needs, because its
last loop (DeviceInterface.cxx:1049-1056) has no limit. In `EthernetLink` the
board answers and the network delivers (the socket calls block without limit).
In `SafeQueue` no wait has to end by itself; in `EmulatedDevice` the emulator
and its user run, and a Shutdown of a running emulator is not claimed to end,
because its purge may chase the thread. In `DataTaking` both threads run
and the board's data arrives.

### Disagreements between the code and what is said of it

Four runs check one property each that a comment, a message or the schema states
and the code does not keep. Each has a finding in `PROJECT.json`.

| Run | What TLC finds |
|---|---|
| `PdtsSyncGivesUp` | after "Giving up on endpoint sync after 5 tries" the call waits without limit |
| `LedCalibStop12` | a stop of a 12 channel board leaves its first seven channels pulsing |
| `LedCalibModes` | the mode flags are never cleared: a conf of the other mode after a failed one is refused until a restart |
| `DeviceManagerTwo` | the conf of a second module destroys the first one's device |

Met while modelling, without a run of their own:

* a delay above 4095 is only logged as an error (wrapper 376) and then carries
  into the trigger bits (204); `PulsesAsConfigured` claims delay and trigger of a
  channel only if the delay fits (`DelayFits`), its bias and widths always;
* the schema (jsonnet:32) spells the entry `literal`; the code applies only
  `Literal` and drops the other without an error;
* a Stop that throws behind the join (DeviceInterface.cxx:152-160) leaves
  `kRunning` without a thread: later Stops throw from `join`, Start is refused;
* with two failures, a Start that left the board making events and a Stop that
  left half an event in the socket, the next Start purges nothing, and its
  thread sends a header with the body of another event. `WholeEvents` and
  `NoEventCutOff` hold with one failure and are false with `MaxFaults = 2`;
* DeviceInterface.hpp:203-205 says that the read thread signals its errors;
  `set_exception` is called nowhere, and a network that stalls for ten seconds
  inside an event ends the process (701, 736), as `TimesOut` does;
* RegMap.hpp:55 says that indexing returns a register "with correct address offset
  and size 1"; it makes one of size 0 with offset 1, which is used only because the
  test for an array asks for a size above 1;
* an index at or beyond the end of a row is seen (RegMap.hpp:57-60, "beyond end of
  array", a message that is commented out) and not refused: the access goes to the
  register behind the row. `NamedAccessStaysInside` has the premise that the index is
  inside;
* Shutdown is to "Relinquish control of device" (DeviceInterface.hpp:77), and an
  "Attempt to open already open device!" (DeviceManager.cxx:224) is refused; but it
  closes whatever its pointer leads to and keeps the pointer. One interface opens and
  shuts down, a second opens, the first shuts down again and opens: it is not refused,
  and both have the device. One Shutdown is enough if a refresh comes in between: a
  holder whose device the refresh destroyed, and who then shuts down as it should, closes
  the device at the same address that another has opened. TLC finds the first as soon
  as `ExclusiveDevice` leaves out `astray`; that property says that nothing else leads
  there;
* the masks of several rows differ from the comment column beside them
  (RegMap.cxx 529, 555, 617, 628, 629); `fifo_control` and `dp_fpga_fw_build`
  (580, 581) can not be written by name, and `pdts_status` (626) reads as 0 by
  name, because those masks are 0; `vmon_value` and `imon_value` have nine
  members and eight under their name;
* accesses of arrays by name ignore the masks of the row;
* a masked write waits for a word behind the header of its reply
  (EthernetDevice.cxx:178-179), a plain one does not. After a third failure, which
  throws without a purge, a piece of a reply can be left; plain writes, the only
  ones that start and stop make, can not mistake it for the whole of theirs,
  a masked write could;
* `fFragmentTimestampOffset` is an `int` that nothing initialises
  (DeviceInterface.hpp:229); the log of HardwareReadLoop speaks of the time "after
  removing" the offset where the code adds it. Two runs may so stamp the same
  board time differently; `StampsTellTheTime` says so in its premise;
* `memcpy` at DeviceInterface.cxx:302 is given the number of words where it takes
  bytes: three quarters of the samples of an event are not copied;
* BuildFragment, which nothing reaches, advances an iterator it has just
  invalidated, and takes `begin()` of an empty buffer for an event;
* a "double" pulse mode is offered by the schema (jsonnet:66) and refused by
  `validate_config` (wrapper 366);
* a partition above 3 never looks synchronised, because two bits are read back:
  every conf takes the board through a reset (`NoNeedlessReset` says so in its
  premise);
* after five failed tries that end in `waitRunning`, the DSP stays on the
  external clock;
* a conf of a configured module is answered without a look at its contents;
* a broken connection makes every later start and stop fail until the process is
  restarted, as a configured module does not open its device again;
* DeviceInterface.hpp:74 says that Initialize calls Stop, which it does not;
* `OpenSlowControl` over Ethernet asks for address 0.0.0.0, and the emulated
  device is reached by slow control only;
* Close does not stop the emulator, a second start or a refresh of the device
  list while it runs destroys a joinable thread, which ends the process, and
  Start writes 0x41 where the emulated device waits for 0x1;
* nothing under `src/` calls `DeviceInterface::Start` and `Stop`: the module's
  own start and stop go to the wrapper's pulse registers. `DataTaking` therefore
  lets the two calls come in any order.

## 4. Theorems

`PdtsSyncProofs` proves, with `TargetAssumption` (partitions of 16 bits, addresses
of 8, any interface number) and `StatusAssumption` (statuses are naturals) as the
only assumptions, for every set of targets and statuses:

| Theorem | Statement |
|---|---|
| `TypeCorrect` | `Spec => []TypeOK`; in particular no call makes more than five attempts |
| `ClockSafe` | `Spec => []ClockFromReleasedEndpoint` |
| `TargetReached` | `Spec => []SyncedToTarget` |
| `ReadyBoardKept` | `Spec => []NoNeedlessReset` |
| `Refinement` | `Spec => ImplementsTimingBoard` |

The argument. Neither clock safety nor the target is inductive by itself: both
depend on where the handler is. `IInv` joins `TypeOK`,
`ClockFromReleasedEndpoint` and `HandlerOrder`, which says what the board looks
like at each step of the handler: on the internal clock from `holdInReset` to
`selectExternal`, with the target in the control word from `readBack` on, out of
reset from `selectExternal` on, and that the copy of the control word on which
the skip is decided is what the board still has (nothing but the handler writes
it). The status is not among these: it moves by itself. One lemma per group of
actions shows that `IInv` is kept; `TargetReached` reads off `HandlerOrder`.
`ReadyBoardKept` needs one more invariant, `Remembered`: while `lastDone` holds a
target, the board still is as that conf left it, because every write clears
`lastDone`; and where a first attempt begins, the copies are true and did not
look synchronised. Both together leave one reason for the attempt: the status
that was read was not a locked one. `Refinement` maps each step to a step of `TimingBoard` or a stutter; the
guards of the abstract steps (internal clock before reset, released before
external) follow from `HandlerOrder`.

`LedCalibProofs` proves, for every set of configurations that `ConfsAssumption`
allows, any statuses and any number of faults:

| Theorem | Statement |
|---|---|
| `TypeCorrect` | `Spec => []TypeOK`; registers keep their 32 bits, loops their bounds |
| `Refinement` | `Spec => ImplementsPdtsSync` |
| `TimingHeld` | `Spec => []TimingKept` |
| `ConfiguredRight` | `Spec => []ConfiguredAsAsked` |
| `PulsesRight` | `Spec => []PulsesAsConfigured` |
| `StopEndsFive` | after a stop that succeeded, registers 7 to 11 of both blocks, which are the channels of a 5 channel board, are off on every board |
| `StopEnds` | `Spec => []StopEndsPulsing`, if no conf is for 12 channels |

What the commands promise is said of moments when none runs, so the invariant
`IInv` says for every step of every command how far it has come. `CommandOrder`
ties commands to the state of the application, and `SyncOrder` the handler's
step to the synchronisation's `pc`. `ConfOrder` has the flags and the registers:
behind the mode switch the flags are those of the settings, although an earlier
conf may have left its own (`ConfSetsMode` throws then, which is why the code is
right and `OnePulseMode` still false); among the literals, registers are what the
first `counter` entries ask for. `StartProgress` says which bias and timing
registers start has written, with channel 6 fed by 7 from then on, and
`StopProgress` the same for stop. `StartDone` is needed beyond the moment of the end:
a start that is answered because the marker is set (`StartAgain`) changes nothing on
the board, so a marker that is set in CONFIGURED must mean that the board still
pulses these settings.

What happens within the synchronisation is not looked at again. `Refinement` maps
every step of the module to a step of `PdtsSync` or a stutter (a conf that throws
later is `Abandon`, the write to the clock word `SetPulserMode`), and the
theorems of `PdtsSyncProofs`, taken with the targets of the configurations, then
hold of the module's variables; `TimingHeld` is `TargetReached` read at
`pc = "configured"`. `StopEnds` needs that the registers 0 to 6 were never touched,
which is the case as long as only confs of 5 channels came; the run `LedCalibStop12`
shows that its premise is not an artefact, as the property is false without it.

`EventProofs` proves `TimestampRoundTrip`: whatever the number of values of
a word, every `unsigned long` survives `SetExternalTimestamp` and `GetTimestamp`.
TLC evaluates the same for words of 4 values (`RoundTrip`); the proof is what
covers 2^16. It rests on lemmas on quotients of quotients (`DivDiv`), from which
the four words are the digits of the number.

It also proves `FragmentIsTheWindow`: for every buffer, in any order of
time, and every trigger, `BuildFragment` writes exactly the events of the window
and keeps none of them. The lemma behind it is that the last event wanted
exists and nothing wanted comes after it; TLC evaluates the statement on short
buffers (`FragmentsAreWindows`).

`EthernetLinkProofs` proves `TypeCorrect`, `NothingLeft`
(`Spec => []NothingLeftBehind`), `Refinement` (`Spec => ImplementsRegisterBus`) and
`NamedInside` (`Spec => NamedAccessStaysInside`) for every table of registers, any values, masks, names and indices, and headers in
any number of pieces. The argument is about where the pieces of a reply are.
`ClientOrder` says who uses the connection and for what, `InboxOrder` that a request
is on its way only while its operation goes on, and `SendOrder` and `ReceiveOrder`
count what is in the socket and on its way. In a conf, and after a purge, it is
nothing when a request is sent, and exactly the reply, with the words of the
registers as they are, while it is waited for. On the connection that start and stop
use it may be less than a header, and together with the reply less than two: the
header that is read may belong to an earlier write, but then the board has
answered the later one already. All calls there are plain writes, whose reply has
no words, so no value can be wrong. Everything else follows from the sizes: a read
that returns has taken the whole reply. TLC checks `IInv` on the same instance.

`NamedInside` stands on the refinement: registers change only where `RegisterBus`
takes a request, and an answer appears only where it returns, so what is left to show
is what the request of a call by name is about. `NamedAbout` goes through the seven
functions of access by name: each sends a read or a write of some registers of the row
that begins where the call's elements do, of as many as it has elements, with the
row's mask unless it is of a whole array. The premise that the index is below the
size is needed, because an element is never refused.

`DataTakingProofs` proves `TypeCorrect`, `StampsCorrect`
(`Spec => StampsTellTheTime`), `InOrder` (`Spec => InOrderFromThisRun`) and, while
`MaxFaults <= 1`, `NothingCutOff` (`Spec => []NoEventCutOff`) and `EventsGoOutWhole`
(`Spec => []WholeEvents`). All but the last two hold for any number of faults, and
those two are false with two of them (section 3). They need the
assumptions of `Timestamps` and `DataTaking` (a word has values, bounds are naturals,
events are at least three ticks apart and their times fit into the words, offsets
are integers) and hold for any number of events. `IInv` joins three parts.
`TypeOK` carries that events in the stream are ones the board made, so that their
times fit. It is not inductive without `CallerOrder`: the last step of Stop sets
`kStopped`, and that no thread is left then follows from the join before the writes.
`SentStamp` remembers of the last event sent that its time is a third of the sum. The
step of `Send` then needs `TimestampRoundTrip` and that three ticks more are one
third more.

`InOrder` is about what is yet to be read, wherever it is: `Coming` is socket, wire and
FIFO one behind the other, so that `Transmits` and `Delivers` leave it as it is and the
board only appends to it. `StreamOrder` says that its events come in the order of
their numbers, a pattern word before anything else of its event, and that no pattern word
of an event sent before, or made before the last Stop, is left in it; once the reader
has found a pattern word nothing at all of those events is. Everything that is lost,
by a purge, a FIFO reset or a restart, is a piece of `Coming`, and a piece of a run in
order is in order (`PieceOrdered`, `LossKeeps`). A header that is not that of the
pattern word before it, which two faults can bring about, still belongs to a later
event: this is why the order survives what `WholeEvents` does not. `BoardStops`
gives the last step of Stop: behind its third write the board makes nothing and its
FIFO is empty, so that a quiet socket means that nothing of this run is to come.

That events are whole is also said of `Coming`: `StreamWhole` says that each pattern
word in it has its whole event behind it (`EventsWhole`), and that of an event the reader
has begun all the rest is to come. This does not hold in every state: the FIFO
reset in a Stop cuts events off, and a write that throws after it leaves the rest in the
socket. `MayBeCut` names these states: a Stop behind its third write, or one that
threw between the join and its end. There is no thread in them (`ThreadNotCut`), so
nothing is read. After the second no further call succeeds (every Stop finds no thread
to join, every Start a device that is not stopped); the first ends in a purge, and then
`BoardStops` says that `Coming` is empty. What is left is a Stop that throws on an
interface that is not running. There `FaultOrder` follows the one fault: while none
has happened, a board whose interface is neither running nor being started makes nothing
and has nothing to send, so this Stop finds nothing to cut. A second fault could find the
board that a failed Start has left acquiring, and this is where the theorems need their
premise. After a process that ended the same clause says that the fault is spent, and the
restart finds in the FIFO a stream that is still whole behind a piece of it that is lost.
The wait that throws `cutOff` needs a stream with nothing left and an event that is not
complete, which `StreamWhole` excludes (`StallWhole`).

`SafeQueueProofs` proves `TypeCorrect`, `WakeupNeverLost` and `Refinement` for any
finite sets of producers and consumers. `NoLostWakeup` is inductive on top of
`TypeOK`, and the proof is a count: push adds an element and a notification to
come; a notification is spent on a sleeper, who is then on its way, unless there
is none; a taker takes an element away; and who goes to sleep or gives up has found
the queue empty. `Counts` says how the number of consumers on their way changes.
`Refinement` needs of `TypeOK` only that a call has no result before it is over.

`EmulatedDeviceProofs` proves `TypeCorrect`, `StoppedEmpty`
(`Spec => []StoppedIsEmpty`) and `PurgeDoesNotWait` (`Spec => []PurgeNeverWaits`) for
events of any length and buffers of any size. The steps of the buffer are those of
`SafeQueue`, and one lemma for each says what it does to the buffer of one producer
and one consumer. `PurgeOrder` is the reason why nobody waits: only the user takes
words, so the word its purge has counted under one lock is still there when it pops
under the next. `StopOrder` says that from the join on there is no thread and, once the
purge has found the buffer empty, no word; a `Shutdown` of a running emulator promises
neither.

`DeviceManagerProofs` proves `TypeCorrect`, `Exclusive` and, for a process with one
LED calibration module (`OneModule`), `ModuleHasDevice`, from `AddressAssumption` (a
null pointer is no address) for any interfaces, boards, addresses and garbage. Type
correctness and exclusive ownership need each other. A device that has not gone astray
is handed out only if its flag is clear, which by `TypeOK` means that nobody holds it;
and the flag that a Shutdown clears is that of a device which, by `ExclusiveDevice`,
nobody else holds, or the device goes astray. That a new object is at no held address
needs that what is held is kept, which is why a refresh ends every holding. Without
`astray` the property is false (section 3). `ModuleHasDevice` does not depend
on it: what a stray Shutdown of a user closes is only a flag, and an Ethernet device
never sets its own. Without `OneModule` it is false, as `DeviceManagerTwo` shows.

Checked by TLC only: liveness and everything under fairness (`CallEnds`,
`CommandsEnd`, `OperationsEnd`, `SleepersServed`, `CallsEnd`).

## 5. Not modelled

* `GetTriggerInfo`: nothing calls it, and nothing else fills `fTriggers`, so no
  behaviour of the program contains it. The layout of a fragment (headers and
  sizes around the events) for the same reason; which events it has is `Fragment`.
* Sizes in bytes and words of the samples: an event has units, so the short copy
  (DeviceInterface.cxx:302) and a header whose length is below its own size (720)
  are below the model; the second ends like a stalled network.
* The 134 rows of the register table: a constant. `EthernetLink` takes a table of
  one single register and one array.
* What literal entries of a user's own set: any value of any register other than
  the ones that have a meaning here.
* Packet formatting and diagnostics; exceptions and issues (declarations); USB
  (commented out); schema and build.

## 6. Plan

Order of the work, most important behaviour first. Done: `TimingBoard`,
`PdtsSync` with its proofs, `LedCalib`, `RegisterBus` and `EthernetLink`, `Fifo`
and `SafeQueue` with theirs, `EmulatedDevice`, `DeviceManager`, `DataTaking`,
`Timestamps` and `Fragment` with theirs, `RegMap`.

Theorems about all of them, for every value of the constants; `LedCalib`,
`EmulatedDevice`, access by name and the order and wholeness of events in `DataTaking`
came last. Every invariant and every action property that a run checks is now a theorem,
some of them under premises that section 4 names.
