# UDAV in TLA+

UDAV is a Qt program for driving laboratory equipment: a server (`udavs`) loads drivers
and talks to the equipment, clients (`udavc`) connect over TCP, choose a driver, get its
user interface and exchange control and view signals with it; `udav` joins both in one
process. Below the drivers are device classes built on `QStateMachine` and a Modbus
library, `MODBUS4QT`. This directory holds TLA+ models of that code, what TLC checks of
them, and proofs that TLAPS checks. Paths are relative to `src/`; file names without a
directory are those of the component at hand.

`udav.pro` (lines 27-34) builds `core`, `driver`, `drivers`, `elvactech-lab`, `gui` and `udav`; the
subprojects `udavc` and `udavs` are commented out and their sources are written against an
earlier interface of the driver classes. They are the only networked part of the
repository and are modelled as they stand.

## Inventory

| component | source | state | operations | hard because | must be true |
|---|---|---|---|---|---|
| Packets and streams | `UDAV/core/core.h`, the read loops of both sockets | two byte streams, `nextBlockSize_` at each end | write a block, read a block, lose the place | nothing but the order of bytes separates packets | a reader stands on a packet boundary or the connection ends |
| ServerSideSocket | `UDAV/udavs/server_side_socket.*` | `isConnected_`, `allowedReplies_`, `driverImpl_`, `lastRequest_`, `lostPackets_`, check timer | `readDataFromClient_()`, `sendCheckConnection_()`, `socketDisconnected_()`, the driver's signals | three sources of packets on one stream, early returns, a peer that may vanish | phases in order, a driver whenever one is used, dead peers dropped, living ones kept |
| Client | `UDAV/udavc/client.*` | `connectionState_`, `allowedReplies_`, `lastRequest_`, metasignals, interface | `readDataFromServer_()`, requests, `controlSignalChanged()` | a modal dialog inside the read loop, a modal box before an error closes the connection, state that outlives a connection | set-up ends, or waits for the user, and means what the server means by it |
| ClientMainWindow | `UDAV/udavc/gui/client_main_window.cpp` | whether the panel is there, autoconnect | connect, disconnect, notice a close | callbacks while reading | as above |
| Server | `UDAV/udavs/server.*` | sessions, loaded drivers | accept, `getDriver()`, end a session | a session may end at any point of its set-up | nothing of a session outlives it |
| ScrewNutDrive | `UDAV/driver/devices/screw_nut_drive.*` | state machine with event queue, polling timer, `inited_`, `pos_`, `nextPos_` | `goHome`, `moveNegative`, `movePositive`, `moveTo`, `stop`, `checkMoving_` | events are posted now and processed later; calls to the controller fail | it stands still when it says so, knows where it is, arrives where it was sent |
| MultiAxeScrewNutDrive | `UDAV/driver/devices/multi_axe_screw_nut_drive.*` | the same for two axes | the same, for one axis or both | the same; two axes start by calls that fail one by one, finish at different times, and may still travel from the initialisation | moves go where they were last asked to, both axes arrive, nothing waits for ever |
| Valve | `UDAV/driver/devices/valve.*` | state machine, two timers, four installed functions | transitions on the owner's signals, polls | a check at the entry races the timer's; functions may be missing or fail | the end of a motion announced by the check and by the state, never more, and of no failed one; open and closed are what the equipment is |
| Driver layer | `UDAV/driver/driver_impl.*`, `drivers_manager.*`, `driver_interface.*` | loaded plugins, an implementation with its values | load, create | two plugins with one uuid, numbers that are cut | values are those of the driver |
| Modbus client | `MODBUS4QT/modbus4qt/client.cpp`, `tcp_client.cpp`, `rtu_client.cpp`, `abstract_device.cpp` | the connection, a transaction counter, silence flag and timers, buffers | every reading and writing function, `sendRequest_()` | timeouts and late answers, framing by silence, timers that cannot fire while a call blocks | an answer belongs to its request, its data are the slave's, damage is owned up to |
| UI reader | `UDAV/gui/equipment/equipment_ui_reader.*` | a token stream, nested loops, maps of signals and cells | one reading function for each element | each loop must leave the stream where its caller goes on | what is described is there, once, on its page |
| Control panel and cells | `UDAV/gui/equipment/equipment_control_panel.*`, `cells` | cells with values, enablers, windows of their own | `signalValueChanged()`, buttons with questions, edits | a nested event loop in a question, cells deleted with their window | knobs enabled as reported, edits start from the driver's values |
| Message windows | `UDAV/gui/message_window.*`, the slots of the main windows | windows by uuid, their timers | open, write, close after a delay, close by the user | late calls, several timers of one window, a modal box within `closeEvent()` | entries lead to windows that are open, a window told to close does |
| Combined application | `UDAV/udav/udav.cpp`, `UDAV/gui/udav_main_window.*` | connected equipment, tabs, main window | connect to equipment, edit settings, close, start again | windows that outlive the main window | as the two above |
| Settings | `UDAV/core/udav_settings.*`, `UDAV/gui/client_settings_dialog.*`, `UDAV/udavc/client_settings.*`, `UDAV/udavs/server_settings.*` | members, what is stored, widgets of the dialog | read, save, edit, apply | read and saved again at each start, conversions and defaults, widgets with limits | nothing changes but through the user |
| Modbus server, stub driver, `DriverProxy`, demos, `core.cpp` | see "Not modelled" | | | | |

How they interact: a client's TCP socket is accepted by `Server::incomingConnection()`, which
creates a `ServerSideSocket`; that socket asks the server for a driver implementation when
the client has selected one, connects the implementation's signals to its own slots, and
from `ConnectionEstablished` on passes control signals down and view signals up. In the
combined application the main window asks `DriversManager` for the implementation itself,
and gives its description and metasignals to a panel, which a reader fills with cells. A driver
implementation owns devices; a device posts events to its state machine from its own slots,
from a timer and from commands, and talks to a controller by synchronous calls, over a serial
line or Modbus. Everything at one end runs in one thread: what interleaves are event-loop
turns, nested event loops, streams and equipment.

The hazards are listed, each at its line, in `PROJECT.json`, with the properties that would
catch them going wrong.

## Modules

| module | models |
|---|---|
| `Wire` | the two streams, socket states, packet types, alignment of each reader |
| `ServerSideSocket` | the server's end: one action per case of the read loop, the check timer, the driver's signals, the end of the socket |
| `Client` | the client's end, with what the user may do in its window |
| `ConnectionProtocol` | the abstract specification of one connection: phases in order, one driver from the selection to the end |
| `Session` | composes the three first; fairness; the properties; the refinement mapping to `ConnectionProtocol` |
| `MCSession` | instances for TLC, with the symmetry of drivers |
| `SessionProofs`, `SessionInvariantProofs` | theorems about `Session`: types, the driver and the refinement; the invariants over the streams |
| `ScrewNutDrive`, `MCScrewNutDrive` | the drive: machine, queue, timer, commands, controller and motor; a screw of four steps, with positions that are no whole number of steps |
| `ScrewNutDriveProofs` | theorems about `ScrewNutDrive` |
| `MultiAxeDrive`, `MCMultiAxeDrive` | two axes under one controller that is given absolute positions; two axes of three steps |
| `MultiAxeDriveProofs` | theorems about `MultiAxeDrive` |
| `Valve`, `ValveProofs` | the valve: machine, two timers, installed functions, listeners; theorems |
| `ModbusData` | pure: the functions of the client, limits and buffers of bits and registers |
| `ModbusClient`, `MCModbusClient` | a call from its beginning to its return, over TCP and over a serial line, with the slave and the line; calls and limits for TLC |
| `ModbusClientProofs` | theorems about `ModbusClient`, and about the packing of `ModbusData` |
| `EquipmentUi` | the reader of descriptions, token by token, and the maps it leaves |
| `ControlPanel` | extends it: values, enabled knobs, buttons with questions, edits, windows of the panel |
| `MessageWindows` | message windows under their uuids, with their timers |
| `Drivers` | plugins, and what a driver implementation starts from |
| `Settings` | the settings of the three programs and the dialog of one |
| `Application`, `MCApplication` | composes the five last: the main window, its end, a restart; plugins and descriptions for TLC |
| `ApplicationProofs`, `RestorationProofs` | theorems about `Application`: windows, edits, settings; the reader of descriptions and the knobs |

### Session

State and code. `sConnected`, `sAllowed`, `sDriver`, `sLast`, `sLost`, `sTimer` are the members
`isConnected_`, `allowedReplies_`, `driverImpl_`, `lastRequest_`, `lostPackets_` and
`checkConnectionTimer_` of `ServerSideSocket`; `cConnected`, `cAllowed`, `cLast`, `cMeta`, `cUi`,
`cMode` those of `Client`; `cDialog` is the modal driver selection, `cBox` the box of `error_()`, `cPanel` whether the control
panel is there to send controls. `sNext` and `cNext` say what `nextBlockSize_` means to the bytes
that come: a boundary, a size left over from a block already consumed (server), or a place
that is lost (client). An action `Srv...` or `Cli...` is one case of a read loop with every
write it makes.

Abstractions.
- A packet is its type and the part of its payload that a handler branches on: a revision, a
  driver, whether a control is known, and whether it is of a type that is answered: one that is declared but not
  Boolean, Real or Integer gets no answer (`SrvUntypedControl`; `PanelControls` says which controls a panel may send).
- An error of the client's socket, a close of the server's included, opens a modal box (`client.cpp:188`, `ShowError`); the
  connection is closed when the user dismisses it (`UserDismisses`), of which no fairness is assumed. Until then the
  user does nothing else (`AtLeisure`).
- With `AutoConnect` a client selects its default driver if the list has it, and opens the dialog if not; a step of the
  model may do either, so that both are in every run.
- One connection at a time. Connecting and being accepted are one step, and a new
  connection begins when the old socket is gone; several sessions at a time are not modelled.
- A client that loses its place takes text for a block size (a string payload reads as a
  huge one) and recognises nothing any more; a server that reads a packet's header as a
  body finds type 0, `RequestConnection`, and refuses. It may have to wait for bytes first, so no
  fairness is assumed of that step.
- The driver is an environment: it may refuse to initialise the equipment and, once started, emit its
  signals at any time (`Unsolicited` names which).
- `Room` (constant `Capacity`) bounds what is in flight before *unprompted* packets wait: answers
  are never held back.

Bounds. Two drivers, two revisions, two connections, three lost checks and four packets in
flight are enough for each pair of sources to meet on a stream (a prompted window packet
and a check, values and an answer), for state to survive from one connection and driver to
the next, and for checks and their answers to overlap. TLC visits 2.1 million states.

Fairness is weak and on the event loops only: data that has arrived is read, a running timer
fires, a pending connection succeeds or fails, a close is carried out and noticed. Nothing is
assumed of the user, the driver or a dead link: the selection dialog and the error box may stay open for ever, and the
equipment may fail in `session_liveness` too. `SetupConcludes` and `CloseIsMutual` say what that leaves: a set-up ends in a connection, in a close, or in
front of the user, but for a dead link and for a selection that the server leaves unanswered (`SelectionDropped`, which run `equipment` is about); a close of the server's is
carried out, and the client has closed its end or shows the box. Qt's event loop serves every ready socket and
timer, which is what weak fairness says.

| run | question |
|---|---|
| `session_safety` | Are the session's invariants kept, and does the socket implement `ConnectionProtocol`, under every interleaving? |
| `session_liveness` | Do dead peers, misaligned streams, attempts and closes come to an end? |
| `reconnect` | Does `isConnected` mean what `client.h:45-52` says? (It does not.) |
| `equipment` | Is a selection always answered, as `client.cpp:903-908` says? (It is not when the equipment fails.) |
| `window` | Do window packets leave the rest undisturbed, as `client.cpp:247-253` says? (They do not.) |
| `control` | Is each control answered, as `server_side_socket.h:194-199` says? (Not after an unknown one.) |

What they show. As far as the model goes the set-up is sound: no handler dereferences a missing
driver, nothing sent by the client's own logic ever arrives out of turn, values emitted early
cannot reach a client that is not ready for them, both ends of an established connection mean
the same driver, and a peer that answers is not counted as silent. Four places where the code
does otherwise than its own comments say are recorded as findings, each with a run that
exhibits it. The safety properties are stated so that they hold *with* these behaviours: the
first session of a client is fine, the second is refused and starts over.

### ScrewNutDrive

State and code. `state` is the active state of `machine_`, `queue` its posted events, `timer` the
polling timer, `inited`, `pos`, `nextPos` the members of these names. Positions are in ticks, a
fraction of a step, so that the cut to whole steps in `stepsForDistance()` shows. `phys`, `dir`,
`left`, `homing` are the table and the controller.

- `draining`: `QStateMachine` processes events until its queue is empty, those posted by the slots it
  calls included; commands and polls come between two such runs, and what they post waits for the
  next. A slot on `movingDone()` may ask for the next move at once, inside the run.
- A call to the controller is obeyed, obeyed with its answer lost, or refused, for the calls in
  `Fallible`. `findHome` brings its own direction.
- Weak fairness on processing events and on the motor, and on a poll when what it waits for has come about (`Arrived`): the timer fires
  again and again, and a poll made then sees it or fails. Before that a poll may fail, but no fairness makes it: a
  controller may answer "not yet" for ever.
- Bounds: four steps of two ticks, targets below zero, on the limit, beyond it and between
  steps; three events queued, enough for a stop, a completion and a command to overlap.

`screw_nut_drive` checks the drive with every call fallible but `stopMoving` and `readPosition`: it stands
still when stopped, its position is true, it stays within the limit unless it has failed, no
state waits without a poll or an event to come, a completed move has arrived to the step, and
searches and moves end. The two excepted calls are those whose failure the code cannot
survive: `stop()` ignores the answer of `stopMoving()` (`screw_nut_drive.cpp:459`), and when `readPosition()`
fails the event posted for `stopped` is taken by no transition (line 476). `drive_init`, with the same controller, shows that
the initialisation, which ignores whether the motor started (line 279), can last for ever,
against lines 72-75.

### MultiAxeDrive

State and code. As in `ScrewNutDrive`, by axis: `pos`, `nextPos`, `stepsForMm`, `maxDistance` are the members of
these names, `phys` where an axis is and `goal` where the controller takes it. The controller
(PhytronMCC2, whose source is in an empty submodule) is given absolute positions and moves by
itself; the drive compares coordinates, to half a millimetre (`almostEqual`, line 251). Positions are kept in halves of a step, exactly
(a step is `1 / stepsForMm` millimetres, and a target need not be a whole number of steps), so that this
tolerance and the cut to whole steps show. A command to two axes has an outcome of
its own for each. What the code does and the properties allow for:

- `initStarted_()` posts its success and then sends the axes to their ends (line 337), without looking at
  the outcome: the drive is stopped, takes itself to be at zero, and accepts moves while its
  axes travel. `PositionKnown` excepts an axis whose goal is its end; `OnItsWay` does not.
- A move of one axis commands the other to its `nextPos_` too, which after a `stop()` is the target it did
  not reach.
- The result of the first `setRunFrequency` is overwritten (`ok =`, line 531), so the frequency is not
  part of the model; of a move's calls those count that carry the target.
- The states of the search for zero cannot be entered, and `isAtHome()` is called by nothing.

Bounds: two axes of three steps, resolutions of one and two steps per millimetre (one cuts targets, the
other does not), a step of zero excluded since the code divides by it, one maximal distance,
targets at both ends, two events queued: a completion and a stop overlap. Every call may be
refused or lose its answer. Weak fairness of events and axes, and of polls once both axes have arrived (`Arrived`); none of commands. 864 000 states.

`multi_axe`: invariants `TypeOK`, `NeverStranded` (a waiting state is polled or has its event queued), `OnItsWay` (each
axis moves to the target last accepted), `PositionKnown`; `ArrivesAtTarget` for both axes; `MotionEnds`.

### Valve

`state`, `queue`, `draining` as in the drives; `polling` are `closingTimer_` and `openingTimer_`, `installed` which of the four
functions there are; `flap` and `goal` the valve. The entry of `closing` calls `close_func_()`, drops its
result, starts the timer and checks at once; a check that succeeds posts the event, stops its
timer and emits; the state that follows emits the same signal once more at its entry (lines 49 and 55), so that every end is announced
twice. `reports` is history: how often the end of the last motion has been announced. Before the first motion, when nothing has been, the initial
state `closed` is a guess, and `RestTrue` does not speak of it. The assertion in the checks is the wrong way round (lines 141, 172): a debug build aborts
when the function is installed, a release build calls one that is not; both are in the model
(`debug`, state `dead`). The slots `close()` and `open()` are empty. The owner may ask at any time, and
a listener from inside a report (`Emitted`). The whole space is checked, no bound but that of the functions:
`AnnouncedTwice` (the end of a motion is announced by the one check that finds it, whose timer has stopped, and by the state that follows; never a third time, and never of a motion that
failed), `RestTrue`, `MotionEnds` under weak fairness of events, of the valve, and of a timer once the valve is where it waits for; a valve
that does not obey is polled for ever.

### Modbus client

`ModbusData` holds what needs no state: the request that each of the eight functions makes of a call, how
bits are packed into bytes, how much is put into the request and how much of it is sent, and what is read back. The code puts every value it is given into
a request of 252 bytes (`abstract_device.cpp:122-184`: the clearing of coils has no bound, the registers know the limit of the coils only) and cuts the quantity
only: from 124 registers or 1977 coils on it writes past the end. `Fits` says which calls do not, with `Room` for the 247 bytes behind the head; such a call leaves the client in the phase
"undefined", of which nothing is said. Bytes have two bits, limits are two or three and the room is six bytes in the instance, so that calls pass limits,
bits pass bytes, and calls just fit and just do not; constants in the code.

`ModbusClient` is one call after another of one client. `phase` is where the thread is: waiting for the silence
(`wait()`), connecting, writing, waiting for the answer, reading. `inSilence` is `inSilenceState_`, `young` and
`due` the single shots of `startSilence_()`: they fire between calls only, because a call blocks its
thread. `toSlave` and `inbox` are what is on its way; the slave serves late or never, a serial line loses
requests and answers and damages answers, a TCP connection may break and take both with it. `abandoned` is history:
an answer may be on its way whose call has returned.

- Answers come whole over TCP; a damaged frame on the serial line has a wrong checksum or is
  short, and its function code may have survived. Frames read together are one frame.
- Unit and protocol identifiers are not in the model: nothing compares them (line 463).
- An exception answer never is the code's own error: the test at line 471 is of the request's code, so every exception
  comes out as a mismatch. `connectToServer()` is called on a closed socket only; on a live one it would reset the identifiers.
- A call that runs out does so by fairness: each wait of a call has a timeout.

Bounds: three calls (a call given up, one that meets its answer, one after), eleven different first
calls, a slave with three cells in each table and at most two requests behind, identifiers to 3 so that they wrap. 809 000 states.

`modbus` shows: a call takes the answer of another request only if an earlier call was given up with its answer to come
(`AcceptedAnswers`), and over TCP the identifier, which is sent and not compared, would have told (`IdentifierTells`).
Damaged frames are taken like good ones, after `errorMessage()`: `AcceptedAnswers` is about the answers for which there was none, and says that these are whole.
What is returned is what the slave has (`DataTrue`, for calls that fit).
The silence of the line is kept but for one case, which `SilenceKept` excepts by name: a shot of an earlier silence fires in a later one
(`rtu_client.cpp:446`). `CallReturns`.

### The combined application

`EquipmentUi`. A description is a sequence of tokens, `pos` the place of the `QXmlStreamReader`, `frames` the stack of the nested
reading functions with the local variables (a draft of a cell) of each. Every turn of a loop is an action, with the tokens it
passes. Names, pictures and geometry are left out; so is the division of a circuit button's text position by its sizes (lines 301 and 309), which are 0 when the position comes without them. The fields are those that decide anything: signals,
conditions, questions. `Core::readIntFieldFromXML()` and `skipUnknownElement()` are not in the repository: external, passing one element. A `text` element hangs the
reader, since `readTextMessage_()` is commented out and reads nothing: the model stops there too, which is why no run demands that every description is read.

`ControlPanel`. Cells have a class, signal, value, range and whether they are enabled; `reported` is the history of numbers: a value that `toInt()` cannot read (`SignalUnreadable`) leaves a knob as it was. A Real is taken as the number it is rounded to. `signalValueChanged()` is the slot as
it stands, though nothing in `udav` is connected to it. A question of a button opens a nested event loop, in which everything but the user goes on. A closed control window is
deleted by Qt while `controlWindowsArray_`, `signal2ui_` and the enablers keep pointers to it: using one is the state `crashed`, which the code can reach (`addWindow_()`, line 181). `valueType` of a signal is not initialised: any type.

`MessageWindows`. `table` is `messageWindows_`, with the entries that `operator[]` adds; `timing` says that a repeating timer of the window runs. A window that may not close yet says so in a
modal box within its `closeEvent()` (`refusing`); until the user dismisses it, of which no fairness is assumed, the timers cannot close that window. `deleteMessageWindow_()` takes the null uuid for "no entry" and
leaves the entry of a window opened under it: the next message for it is undefined (`Dangling`, `MessageAstray`, the state `crashed`).

`Drivers`. Of two plugins with one uuid the later in `entryList()` wins. The maps of names have eight-bit keys, integer defaults sixteen bits.

`Settings`. `stored` is what `QSettings` holds, `settings` the members, `shown` the widgets. The conversions are the code's: numbers cut to sixteen
or eight bits, a port of 0 replaced, an empty path replaced by its default, the path for saving read only if the *other* path is there
(`udav_settings.cpp:151`), `pathToDrivers` only if the *number before it* was one (`server_settings.cpp:60`), an address that is none left null for one run.
`program` says whose settings they are. `Settled` names the settings for which no start and no untouched dialog makes a change.

`Application` joins them: `ConnectToServer` is `connectToServer_()` with the dialog, `CloseMain` and `EndOfMain` the end of the main window and of `main()`, which waits for the last window;
`StartAgain` a new process after an end or a crash, with nothing but what is stored. In `udavc` and `udavs` only the settings are modelled here.

Bounds: one piece of equipment at a time; six descriptions (every class of cell with groups, windows and unknown elements; edits; one without white space; one cut short; another document; none), ten plugins;
two windows under two uuids, one of them null, opened by two of the drivers only (`Talkative`); one widget worked before the dialog is left, in a program without drivers, so that settings and panels, which do not touch, do not multiply; three stores for each program. 363 000 states.
Fairness: the reader, a loop of the only thread, and the timers of windows, which fire and find a window that they may close; none of the user, who may leave any box open.

`application` shows: a proper description is restored cell by cell (`Restored`; `ProperDescriptions` says where an element may be (`Places`), that there is one `driver` around all and one condition
to a knob; improper are a layout directly followed by the end of its group, where line 687 passes a token too many, and numbers beyond sixteen bits); edits start from the driver's own values (`EditsStartTrue`); a knob is enabled exactly as its condition says (`EnabledAsReported`, for a signal that enables one knob); entries of the table lead to open windows, so that late messages never meet a deleted one
(`WindowsTracked`, but for the null uuid); a window that is to close by itself does, unless the user leaves the box open that refused to close it
(`WindowEnds`; with a delay of 0 nothing ever closes it, nor enables its button); `OnlyUserChanges`.

## Runs

| run | states | question |
|---|---|---|
| `session_safety` | 2.1 million | see Session |
| `session_liveness` | 11 500 | see Session |
| `reconnect`, `equipment`, `window`, `control` | until the violation | findings, see Session |
| `screw_nut_drive`, `drive_init` | | see ScrewNutDrive |
| `multi_axe` | 864 000 | Do two axes move, arrive and end as they were told last, whatever fails? |
| `valve` | whole space | Is the end of a motion announced by the check and the state only, and truly? |
| `modbus` | 809 000 | Which answers may a call take, and what do they mean? |
| `application` | 363 000 | Does the panel show what is described, do windows and settings survive late calls and restarts? |

Every property of a passing run has a mutant in `PROJECT.json`: an operator named `<Definition>_<Change>`, next to the
definition it would replace, with which TLC finds the property violated.

## Proofs

Every safety property that a passing run checks is proved for all values of the constants, and so is the refinement
of `ConnectionProtocol`. Each proof is of the same form: an
inductive invariant that implies the property, checked by TLC before it was proved; one lemma per handler; one step per conjunct it can disturb.

Assumptions on constants are named where the constants are declared, and say what kind of thing each is: natural
numbers, a null window that is none, sets of packets and of controls, `MaxLost` within eight bits, screws of two steps at least, resolutions and byte widths that are not 0
(`ResolutionsAssumption`, `BitsAssumption`: the code divides by them), calls that are calls of the eight functions with as many values as they say
(`CallsAssumption`), registers that have some value (`WordsAssumption`), a limit of registers within that of coils
(`WriteLimitsAssumption`, as `abstract_device.h:80-94` has it), plugins with the fields a plugin has
(`FilesAssumption`), numbers in a settings file that `QVariant` reads or says it cannot (`FoundAssumption`), choices within the ranges of the
dialog's spin boxes (`ChoicesAssumption`), descriptions that are sequences of tokens, of the shape the parser gives them (`TokensAssumption`), signals reported
that have sixteen bits (`ReportsAssumption`). No bound of the runs is used: queues, streams, numbers of connections and calls are
unlimited. Three assumptions are hypotheses of theorems, because the code depends on them: `Reliable` (drive), `ControlsDeclared` (edits) and as many
identifiers as calls (Modbus), below.

### Session

- `TypeCorrect`: the streams carry only packets their readers know, and `lostPackets_` stays within `connectLostAfterAttempts()`.
- `DriverIsAlive`. `DriverAlive` is not inductive: that the selection finds
  a driver rests on which sets `allowedReplies_` can be in each phase. `SetupInv` states those sets and is inductive
  (`SetupInvariant`).
- `SessionImplementsProtocol`: `Spec => Protocol!Spec` under the mapping `phase <- Phase`, `driver <- sDriver`.
  `SetupInv` makes `Phase` well defined; every step is a step of the abstract protocol or a stutter.
- `HandshakeIsInOrder`, `TelemetryIsAfterSetup`, `EstablishedAgree`, `RevisionsDoAgree`, `OnlySilenceIsCounted`, all from `SessionInv`
  (`SessionInvariantProofs`). What it adds to the types and `SetupInv` is about what is on the streams:
  - `TurnInv`: at most one packet in front of the client makes it answer (`Turns`), and while one does, or the dialog is open, the server
    waits for just that answer and nothing of the set-up is on its way to it. A set-up is therefore a ball thrown to and fro, although three sources write;
  - `OrderInv`: what is on its way to the server is allowed in order, until a packet of a gesture (`Soft`), which ends the set-up, hides the rest (`Spoiled`);
  - `TelemetryInv`: as long as a client is not connected the settings of the driver are in front of whatever is emitted early, and are still there if the server has a driver;
  - `AgreeInv`: metasignals and interface in front of the client are of the server's driver, and have been read, or come before the settings with which it is connected;
  - `RevisionInv`, `StreamsInv`: what the handshake carries is the client's revision; a client that has lost its place has nothing in front of it that counts.

  The steps are proved against summaries of what an end does to the streams (`Writes`, `Takes`, `Sends`, `Gets`), each handler
  being shown to be one of them; `OnlySilenceCounts` counts packets with `Count`, a cardinality, with lemmas on what a packet appended or taken adds.

### ScrewNutDrive

- `DriveTypeCorrect`; `NotStranded`, with no assumption on the controller: every event posted for
  a waiting state is taken by one of its transitions, and entering such a state starts the
  timer or posts one.
- `StandsStill` and `KnowsPosition`: `Reliable => (Spec => []...)`, where `Reliable` says that `stopMoving` and
  `readPosition` do not fail, which is also what the run assumes. The inductive invariant `RestInv` rests on two facts. The events posted for the
  active state come last in the queue, so a state is entered with none of its own
  waiting (`EntryStartsAfresh`): a completion or stop from an earlier move cannot end a later
  one. And an event that reports the end of a motion is queued only when the motor is idle
  (`ReportsTrue`).
- `MoveArrives` (`ArrivesAtTarget`) and `StaysOnScrew` (`WithinTravel`), under `Reliable` too. The state alone does not say whether a move is still good: a
  stop or a failure may be queued in front of its success. `ArriveInv` says that the table comes to rest within a step of the target
  (`Near`) unless the *first* event of the move is a stop or a failure; `TravelInv` that it comes to rest on the screw (`Bounded`) unless the
  drive has failed or its first event is a failure, and that no accepted target is beyond the end. `CutDistance` and `NearIsOn` are the arithmetic of whole steps.

### MultiAxeDrive

`MultiAxeTypeCorrect`, `MultiNeverStranded`, `MultiOnItsWay`, `MultiPositionKnown` and `MultiArrives`, for any set of axes and whatever calls fail; no `Reliable` is needed, since an axis is given
an absolute position and coordinates that could not be read are part of the state (`located`). `MultiInv` has the order of events as above and, by axis, where the controller takes it:
its target, or where it stands, unless the first event of the move is a failure (`ArriveInv`); where it stands if a stop is queued (`StopInv`); its end, or close to the position read, if stopped (`StillInv`).

### Valve

`ValveTypeCorrect`, `EndAnnouncedTwice` (`AnnouncedTwice`) and `RestIsTrue`. `QueueInv`: at most one event waits, and
the one that reports a motion has stopped its timer, which is why the check at the entry and those of the timer cannot both report. `ReportInv` counts: none while a check is to come, one with the event in the queue, two in the state that follows. `FlapInv` is about where the valve is taken: a motion that finds the valve at its target has it going there.

### Modbus client

- `ModbusTypeCorrect`; `ModbusSilenceKept`, from `SilenceInv`: until the time is over the flag is set and one shot runs, unless shots were left over.
- `ModbusAcceptedAnswers`, from `FlightInv`: as long as nothing was given up, at most one request or answer is in flight, and is that of the call that waits.
- `ModbusDataTrue`: `Truthful` says of each answer in flight that the values which its call would read from it are those of the slave's cells. It is about calls whose values fit the request, as `DataTrue` is. It rests on lemmas about `ModbusData`: bits packed into bytes
  of any width and read back are the same bits, and of coils and registers that are put into the request no limit cuts what is sent.
- `ModbusIdentifierTells`, under `Len(Calls) <= MaxTid`: identifiers in flight belong to earlier calls (`TidInv`). With more calls than identifiers one comes again, and the claim is false: 65536 requests in the code.

### Application

- `WindowsAreTracked`: the entries of `messageWindows_`, that of the null uuid excepted, lead to windows that are open, and no two of them to the same. It does not say that every open window has an
  entry: a second window under a uuid takes it from the first.
- `EditsAreStartedTrue`, under `ControlsDeclared`: drivers declare controls of the four types there are, Boolean ones with a default of 0 or 1 and times without one. For other declarations `fillDefaultValues_()` and the panel disagree.
  `EditInv` ties the panel to the implementation in use: its metasignals are those of that driver, and an untouched edit shows what it was made with.
- `SettingsAreKept` (`OnlyUserChanges`, an action property): `SavedInv` says that what is stored is what the members hold (`StoredTrue`), that each is of its kind and width (`SettingsOK`), and that a widget nobody worked shows the
  setting (`DialogOK`). A start then reads back what it is given; each conversion is a lemma.
- `DescriptionsAreRestored` (`Restored`) and `KnobsAreEnabledAsReported` (`EnabledAsReported`), for descriptions of any length and nesting, in
  `RestorationProofs`. `Restored` speaks of the end of the reading only, so that an invariant of the reading is needed, `RestoreInv`. In front of token `pos` of a proper description
  - the functions that run are the elements that are open there, from the outermost to the innermost, each with the page or layout that it fills (`StackOK`);
  - of each element that has ended (`Ended`) and stands for a cell there is one cell, on its sheet and with the signal its element names last
    (`CellsOK`); of each page that has ended an entry of `pages` or `windows` (`PagesOK`); the maps lead from cells to signals and back to a cell
    of the same signal (`MapsOK`); each entry of `uiEnbaler` is the condition of its knob (`EnablersOK`);
  - the function on top has read just the children of its element so far (`DraftOK`).

  This is not the whole truth: the reader of a page takes a second end that directly follows its own (line 687), and if a page ends directly before the end of
  `driver`, that end is the one it takes. The reader then looks for more pages behind the document; `OverOK` is that state, in which nothing is left but text.
  The lemmas that carry the argument are about depths alone, without recursion: where an element ends (`EndOf`), that nothing between its start and its end is at its depth, and
  that the parent of a token is the element open in front of it. For the knobs, `EnabledOK` is kept by every report and gesture, because `uiEnbaler` leads from a signal
  to one knob; a signal that enables two knobs leaves the earlier without an entry, and `EnabledAsReported` does not speak of it.

### Only model-checked

- Everything under fairness: `SetupConcludes`, `CloseIsMutual`, `LeftoverEnds`, `DeadPeerReaped`, `MotionEnds`, `CallReturns`, `WindowEnds`. The prover has no rules for `ENABLED`.
- What a definition computes over data of every length is proved only where it is said element by element (packing, positions of first events); a definition by recursion would need an induction that these provers cannot instantiate. The models have none.

## Not modelled

- The Modbus server. It does not serve: `abstract_tcp_server.cpp`, the only place with handlers of requests, is not part of
  `modbus4qt.pro` and its handlers are commented out; `Server::processIncomingRequest()` reads and answers nothing.
- The stub driver: a template whose handlers are empty or commented out (its `initEquipment_()` and `setControlSignal()` lack a return). `DriverProxy`: created by nothing. Drivers proper and `elvactech-lab`: submodules, empty.
- Several sessions of a server at a time: sessions share the list of drivers, which does not change, and the equipment, about whose use by two the code has no rule.
- Protocol files of the client, and their saving to a medium. `saveProtocolToDisk_()` removes the target before it
  copies (`client_main_window.cpp:385`): saving into the protocol's own folder loses the protocol.
- Painting, geometry, logging, translation and option parsing; `dataSendTimer_`, whose timeout is connected to nothing; `DriverSettings`; the
  setters of a serial port's parameters; `userDefinedFunction()`, which is commented out and has no return; the demonstration programs.
- Headers of packets in parts: `readDataFromClient_()` reads as soon as two of the four bytes are there (line 92), which is below the level of packets.

Seen while modelling, without a run of their own:
- no timer runs during the set-up, and the client never notices a dead link by itself;
  `DeadPeerReaped` is therefore about established connections only;
- the client reads a map after `DriverSettings` that the server does not write;
- `connectLostAfterAttempts` is cut to eight bits (`server_settings.cpp:53`);
- a `ReloadInterface` request is guarded by the state of the socket only (`client.cpp:845-849`), so a user may make it during the set-up;
- `inited_` is set when the initialisation is left for `failed` too, against its description in
  `device.h`; no command is accepted then, since all ask for another state as well;
- the motor is not stopped on entering `failed`; `moveNegative()` has no lower limit; the header
  describes `moveNegative()` and `movePositive()` with each other's direction;
- the driver dialog accepts an empty list and reads `items[-1]` (`select_driver_dialog.cpp:28`);
- the test for full screen is inverted (`equipment_control_panel.cpp:191`); cells emit `controlSignalChanged` to no slot, the reader's
  `connect()` names another signature; an edit that is reverted before it was ever accepted goes to 0;
- defaults of flags that are `true` are overwritten by the first reading; accepting the settings untouched forgets the driver that is not
  connected to automatically, and replaces a size that is not offered by 75.

## Plan

Every component with logic of its own is modelled, and every safety property that a passing run checks is proved. What could follow:

1. The refinement of a panel by `ControlPanel`: a map from signals to values that the cells show, whatever the order of reports and of the user's work.
2. The server with several sessions that use one piece of equipment, once the code has a rule for it.
3. The Modbus server, once it serves.
