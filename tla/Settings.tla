------------------------------ MODULE Settings ------------------------------
(***************************************************************************)
(* The settings of a program, which it reads from QSettings when it starts *)
(* and saves: UdavSettings of the combined application                     *)
(* (UDAV/core/udav_settings.cpp) with the dialog that edits them           *)
(* (UDAV/gui/client_settings_dialog.cpp, client_settings_dialog.ui),       *)
(* ClientSettings (UDAV/udavc) and ServerSettings (UDAV/udavs), which      *)
(* nothing edits while the program runs.                                   *)
(***************************************************************************)
EXTENDS Integers, FiniteSets

CONSTANTS
  Flags,       \* the settings that are on or off; all but three are treated alike
  Paths,       \* what the user may type as a path, the empty text among them
  Seconds,     \* what he may choose as the protocol's interval
  Days,        \* what he may choose as the age at which protocols are deleted
  Addresses,   \* the texts that QHostAddress reads as an address
  EditsAtMost  \* bound: how many widgets he works before he applies or leaves

VARIABLES
  program,     \* whose settings they are: "udav", "udavc" or "udavs"
  stored,      \* what QSettings holds: the keys that were ever saved, with their values
  settings,    \* the members of the settings' class
  shown,       \* the widgets of the dialog, Closed if there is none
  edited       \* history: the widgets that changed through the user since the last saving

settingsVars == <<program, stored, settings, shown, edited>>

AllFlags == {"autoConnect", "writeProtocol", "startInFullScreenMode", "saveWindowsPos",
             "restoreWindowsPos", "showGrid", "showToolBarText", "showDebugPage",
             "showLogMessagesPage", "clearLogAtStart"}
FlagsAssumption ==
  {"autoConnect", "writeProtocol", "saveWindowsPos"} \subseteq Flags /\ Flags \subseteq AllFlags
ASSUME FlagsAssumption

\* The dialog's spin boxes reach so far, and the server's own machine has an address.
ChoicesAssumption ==
  /\ Seconds \subseteq Nat /\ \A n \in Seconds : n <= 10000
  /\ Days \subseteq Nat /\ \A n \in Days : n <= 365
  /\ "127.0.0.1" \in Addresses
ASSUME ChoicesAssumption

\* A driver's name and uuid are always set and read together.
ProtocolFields == {"protocolPath", "protocolSaveToPath", "protocolTimer",
                   "deleteProtocolFilesAfterDays"}
DialogKeys == Flags \cup ProtocolFields \cup {"toolBarButtonSize", "defaultDriver"}
UdavKeys == DialogKeys \cup {"logPath"}
ClientKeys == UdavKeys \cup {"serverAddress", "serverPort", "cacheFiles"}
ServerKeys == {"logPath", "port", "connectCheckingIterval", "connectLostAfterAttempts",
               "sendDataInterval", "pathToDrivers", "clearLogAtStart"}
\* The settings that are numbers, those of sixteen bits first.
Shorts == {"protocolTimer", "deleteProtocolFilesAfterDays", "connectCheckingIterval",
           "sendDataInterval"}
Numbers == Shorts \cup {"toolBarButtonSize", "serverPort", "port", "connectLostAfterAttempts"}
Keys == CASE program = "udav" -> UdavKeys
          [] program = "udavc" -> ClientKeys
          [] program = "udavs" -> ServerKeys

-----------------------------------------------------------------------------
(* UdavSettings, ClientSettings and ServerSettings                         *)

\* QSettings::value() and QVariant's conversions: what was never saved is no text, no
\* number and not set. A number that toInt() cannot read is Unreadable.
Unreadable == -1
Empty == ""
Text(s, k) == IF k \in DOMAIN s THEN s[k] ELSE Empty
IsInt(s, k) == k \in DOMAIN s /\ s[k] # Unreadable

\* The default of a flag is overwritten whether it was ever saved or not.
ReadFlag(s, k) == k \in DOMAIN s /\ s[k]
ReadPath(s, k, default) == IF Text(s, k) # Empty THEN s[k] ELSE default
\* Whether the path for saving is read depends on the other path.
ReadSaveToPath(s) ==
  IF Text(s, "protocolPath") # Empty THEN Text(s, "protocolSaveToPath") ELSE "/media"
\* Two of the numbers are cut to sixteen bits.
ReadShort(s, k, default) == IF IsInt(s, k) THEN s[k] % 65536 ELSE default
ReadSize(s) == IF IsInt(s, "toolBarButtonSize") THEN s["toolBarButtonSize"] ELSE 100

\* A port that is 0 in its sixteen bits is none.
ReadPort(s, k) == IF ReadShort(s, k, 0) # 0 THEN ReadShort(s, k, 0) ELSE 6178
\* QHostAddress::setAddress(): a text that is none leaves a null address, which is
\* saved as an empty text.
ReadAddress(s) ==
  IF Text(s, "serverAddress") = Empty THEN "127.0.0.1"
  ELSE IF Text(s, "serverAddress") \in Addresses THEN s["serverAddress"] ELSE Empty
\* The number of lost checks is cut to eight bits.
ReadAttempts(s) ==
  IF IsInt(s, "connectLostAfterAttempts") THEN s["connectLostAfterAttempts"] % 256 ELSE 3
\* Whether the path is read depends on the number that was read before it.
ReadPathToDrivers(s) ==
  IF IsInt(s, "sendDataInterval") THEN Text(s, "pathToDrivers") ELSE "/usr/local/lib/udav"

ReadUdav(s) ==
  [k \in UdavKeys |->
     CASE k \in Flags -> ReadFlag(s, k)
       [] k \in {"logPath", "protocolPath"} -> ReadPath(s, k, "./")
       [] k = "protocolSaveToPath" -> ReadSaveToPath(s)
       [] k = "protocolTimer" -> ReadShort(s, k, 0)
       [] k = "deleteProtocolFilesAfterDays" -> ReadShort(s, k, 10)
       [] k = "toolBarButtonSize" -> ReadSize(s)
       [] k = "defaultDriver" -> Text(s, k)]

ReadClient(s) ==
  [k \in ClientKeys |->
     CASE k = "serverAddress" -> ReadAddress(s)
       [] k = "serverPort" -> ReadPort(s, k)
       [] k = "cacheFiles" -> ReadFlag(s, k)
       [] k \in UdavKeys -> ReadUdav(s)[k]]

ReadServer(s) ==
  [k \in ServerKeys |->
     CASE k = "logPath" -> ReadPath(s, k, "/var/log/udav")
       [] k = "port" -> ReadPort(s, k)
       [] k = "connectCheckingIterval" -> ReadShort(s, k, 10)
       [] k = "connectLostAfterAttempts" -> ReadAttempts(s)
       [] k = "sendDataInterval" -> ReadShort(s, k, 15)
       [] k = "pathToDrivers" -> ReadPathToDrivers(s)
       [] k = "clearLogAtStart" -> ReadFlag(s, k)]

ReadSettings(p, s) ==
  CASE p = "udav" -> ReadUdav(s) [] p = "udavc" -> ReadClient(s) [] p = "udavs" -> ReadServer(s)

\* save(): every setting, so that the new ones of a newer program are there too.
Save(s, values) ==
  [k \in DOMAIN s \cup DOMAIN values |-> IF k \in DOMAIN values THEN values[k] ELSE s[k]]

\* writeGeometry_(): the place of a window that is closed. (What a restored place does
\* is left to the window system.)
WriteGeometry ==
  stored' = IF settings["saveWindowsPos"]
            THEN [k \in DOMAIN stored \cup {"geometry"} |->
                    IF k = "geometry" THEN "somewhere" ELSE stored[k]]
            ELSE stored

-----------------------------------------------------------------------------
(* ClientSettingsDialog                                                    *)

Closed == <<>>
Sizes == {100, 75, 50, 25}
SpinBox(n, max) == IF n > max THEN max ELSE n

\* readSettings() and enableUiItems_(): a size that is not offered is shown as medium;
\* without the automatic connection the list of drivers is emptied.
ReadIntoDialog(values) ==
  [k \in DialogKeys |->
     CASE k = "protocolTimer" -> SpinBox(values[k], 10000)
       [] k = "deleteProtocolFilesAfterDays" -> SpinBox(values[k], 365)
       [] k = "toolBarButtonSize" -> IF values[k] \in Sizes THEN values[k] ELSE 75
       [] k = "defaultDriver" -> IF values["autoConnect"] THEN values[k] ELSE Empty
       [] OTHER -> values[k]]

\* The dialog is modal.
EditSettings ==
  /\ shown = Closed
  /\ shown' = ReadIntoDialog(settings) /\ edited' = {}
  /\ UNCHANGED <<stored, settings>>

MayEdit == shown # Closed /\ Cardinality(edited) < EditsAtMost

\* A check box; on_autoConnectBox_stateChanged() empties the list of drivers, which
\* nothing fills again: on_loadDriversButton_clicked() is commented out.
ToggleFlag(k) ==
  /\ MayEdit
  /\ IF k = "autoConnect" /\ shown[k]
     THEN /\ shown' = [shown EXCEPT ![k] = FALSE, !["defaultDriver"] = Empty]
          /\ edited' = edited \cup {k, "defaultDriver"}
     ELSE /\ shown' = [shown EXCEPT ![k] = ~@]
          /\ edited' = edited \cup {k}
  /\ UNCHANGED <<stored, settings>>

\* The other widgets; on_writeProtocolCheckBox_stateChanged() enables those of the protocol.
Offers(k) ==
  CASE k \in {"protocolPath", "protocolSaveToPath"} -> Paths
    [] k = "protocolTimer" -> Seconds
    [] k = "deleteProtocolFilesAfterDays" -> Days
    [] k = "toolBarButtonSize" -> Sizes
    [] OTHER -> {}

EditField(k, v) ==
  /\ MayEdit
  /\ k \in ProtocolFields => shown["writeProtocol"]
  /\ shown' = [shown EXCEPT ![k] = v] /\ edited' = edited \cup {k}
  /\ UNCHANGED <<stored, settings>>

Written == [k \in Keys |-> IF k \in DialogKeys THEN shown[k] ELSE settings[k]]

\* Mutation: the settings are taken over and not saved.
WriteSettings_NotSaved == settings' = Written /\ stored' = stored

\* writeSettings()
WriteSettings == settings' = Written /\ stored' = Save(stored, Written)

Apply ==
  /\ shown # Closed /\ WriteSettings
  /\ edited' = {} /\ UNCHANGED shown

Accept ==
  /\ shown # Closed /\ WriteSettings
  /\ shown' = Closed /\ edited' = {}

Reject ==
  /\ shown # Closed
  /\ shown' = Closed /\ edited' = {}
  /\ UNCHANGED <<stored, settings>>

-----------------------------------------------------------------------------

\* The first program finds what an earlier version, or somebody by hand, has left.
SettingsInit(p, found) ==
  /\ program = p
  /\ settings = ReadSettings(p, found) /\ stored = Save(found, ReadSettings(p, found))
  /\ shown = Closed /\ edited = {}

\* A program that starts again finds what was saved last.
RestartSettings ==
  /\ settings' = ReadSettings(program, stored)
  /\ stored' = Save(stored, ReadSettings(program, stored))
  /\ shown' = Closed /\ edited' = {} /\ UNCHANGED program

DialogStep ==
  \/ \E k \in Flags : ToggleFlag(k)
  \/ \E k \in DialogKeys : \E v \in Offers(k) : EditField(k, v)
  \/ Apply \/ Accept \/ Reject

\* The settings that a start, or a dialog that nobody works, leaves as they are: paths
\* that are there, an address that is one, and, where there is the dialog, a size that
\* is offered, numbers that can be shown, and a driver while the automatic connection
\* is on.
Settled(k) ==
  CASE k \in {"logPath", "protocolPath", "serverAddress"} -> settings[k] # Empty
    [] k = "protocolSaveToPath" -> settings["protocolPath"] # Empty
    [] k = "protocolTimer" -> program = "udav" => settings[k] <= 10000
    [] k = "deleteProtocolFilesAfterDays" -> program = "udav" => settings[k] <= 365
    [] k = "toolBarButtonSize" -> program = "udav" => settings[k] \in Sizes
    [] k = "defaultDriver" -> program = "udav" => settings["autoConnect"]
    [] OTHER -> TRUE

=============================================================================
