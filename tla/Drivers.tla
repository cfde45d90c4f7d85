------------------------------ MODULE Drivers ------------------------------
(***************************************************************************)
(* UDAV/driver: the plugins that DriversManager loads, and what            *)
(* DriverInterface and DriverImpl make of the signals that a plugin        *)
(* declares. The plugins themselves are external.                          *)
(***************************************************************************)
EXTENDS Integers, Sequences

CONSTANTS
  Plugins,     \* the files that the drivers' directory may hold, by name
  Directories  \* what it may hold: sequences of names of files

VARIABLES
  files,       \* the files of the directory, in the order of entryList()
  impl         \* the DriverImpl that was created last, NoImpl before

\* A file: whether it is a library that holds a driver, the uuid of the driver, its
\* signals, the description of its user interface and whether createDriverImpl()
\* succeeds.
FilesAssumption ==
  /\ \A f \in DOMAIN Plugins :
       DOMAIN Plugins[f] = {"loads", "uuid", "signals", "ui", "creates"}
  /\ Directories \subseteq Seq(DOMAIN Plugins)
ASSUME FilesAssumption

Plugin(i) == Plugins[files[i]]
Loads(i) == Plugin(i).loads
LoadedUuids == {Plugin(i).uuid : i \in {j \in DOMAIN files : Loads(j)}}

\* drivers_ after the constructor: of two plugins with one uuid the later one.
Drivers ==
  [u \in LoadedUuids |->
     CHOOSE i \in DOMAIN files :
       /\ Loads(i) /\ Plugin(i).uuid = u
       /\ \A j \in DOMAIN files : Loads(j) /\ Plugin(j).uuid = u => j <= i]

\* availableDriversList()
AvailableDrivers == DOMAIN Drivers

\* qint16 of a number, as QVariant(qint16(defaultValue)) cuts it.
Int16(n) == ((n + 32768) % 65536) - 32768

\* fillDefaultValues_(): the value that a signal has before the equipment gives one.
\* A signal of the type Time gets an invalid QVariant, which converts to 0.
DefaultValue(m) ==
  CASE m.type = "Real" -> m.default
    [] m.type = "Integer" -> Int16(m.default)
    [] m.type = "Boolean" -> IF m.default = 0 THEN 0 ELSE 1
    [] m.type = "Time" -> 0

SignalsOf(signals, kind) == {s \in DOMAIN signals : signals[s].kind = kind}
Defaults(signals, kind) == [s \in SignalsOf(signals, kind) |-> DefaultValue(signals[s])]

\* initSignalNames_(): the maps of names have eight-bit keys; of the signals that are
\* cut to one key, the last keeps it.
NameKeys(signals, kind) == {s % 256 : s \in SignalsOf(signals, kind)}
SignalNames(signals, kind) ==
  [k \in NameKeys(signals, kind) |->
     CHOOSE s \in SignalsOf(signals, kind) :
       /\ s % 256 = k
       /\ \A t \in SignalsOf(signals, kind) : t % 256 = k => t <= s]

NoImpl == [file |-> 0]

\* A DriverImpl as its constructor leaves it: readTimer_ does not run, no device is
\* initialised.
NewImpl(i) ==
  [file |-> i,
   controlValues |-> Defaults(Plugin(i).signals, "Control"),
   viewValues |-> Defaults(Plugin(i).signals, "Observation"),
   controlNames |-> SignalNames(Plugin(i).signals, "Control"),
   viewNames |-> SignalNames(Plugin(i).signals, "Observation")]

\* createDriverImpl(): the plugin makes one, or the uuid is unknown or it cannot.
CreateDriverImpl(u) ==
  impl' = IF u \in DOMAIN Drivers /\ Plugin(Drivers[u]).creates
          THEN NewImpl(Drivers[u]) ELSE NoImpl

DriversInit == files \in Directories /\ impl = NoImpl

=============================================================================
