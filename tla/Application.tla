---------------------------- MODULE Application ----------------------------
(***************************************************************************)
(* The combined application (UDAV/udav, UDAV/gui): UdavMainWindow connects *)
(* to equipment through a DriverImpl that DriversManager creates, shows a  *)
(* control panel that is built from the driver's description, shows        *)
(* message windows and edits the settings. Everything runs in the one GUI  *)
(* thread: while a panel is being built nothing else happens. A program    *)
(* that has ended, or crashed, may be started again. Of the programs udavc *)
(* and udavs only the settings are here (see Client, ServerSideSocket).    *)
(***************************************************************************)
EXTENDS ControlPanel, MessageWindows, Drivers, Settings

CONSTANTS
  Found,       \* what each program may find in QSettings when it starts first
  Talkative    \* bound: the drivers that open message windows

Programs == {"udav", "udavc", "udavs"}

\* Where a number is kept, QVariant finds one or says that there is none.
FoundAssumption ==
  /\ DOMAIN Found \subseteq Programs
  /\ \A p \in DOMAIN Found : \A found \in Found[p] :
       \A k \in DOMAIN found \cap Numbers : found[k] \in Int
ASSUME FoundAssumption

VARIABLES
  connectedEquipment,  \* connectedEquipment_: the files of the drivers in use
  tabs,                \* the panels in centralTabWidget_, behind the application's tab
  main                 \* the main window: "open", "closed", "deleted" at the end of main(),
                       \* "elsewhere" in udavc and udavs

mainVars == <<connectedEquipment, tabs, main>>
driverVars == <<files, impl>>
vars == <<panelVars, messageVars, driverVars, mainVars, settingsVars>>

TypeOK ==
  /\ MessageTypeOK
  /\ main \in {"open", "closed", "deleted", "elsewhere"}
  /\ tabs \in 0 .. 1 /\ Len(connectedEquipment) = tabs
  /\ crashed \in BOOLEAN /\ failed \in BOOLEAN
  /\ gone \subseteq ToSet(windows) /\ asking.cell \in DOMAIN cells \cup {NoCell}
  /\ DOMAIN ui2signal \subseteq DOMAIN cells
  /\ \A s \in DOMAIN signal2ui : signal2ui[s] \in DOMAIN cells \cup {NoCell}
  /\ \A s \in DOMAIN enablers : enablers[s].ui \in DOMAIN cells

-----------------------------------------------------------------------------

\* The reader keeps metasignals_ of the driver.
MetaSignals(i) ==
  [s \in DOMAIN Plugin(i).signals |->
     [min |-> Plugin(i).signals[s].min, max |-> Plugin(i).signals[s].max,
      default |-> Plugin(i).signals[s].default]]

\* onConnectedToEquipment_(): a panel in a tab of its own.
OnConnectedToEquipment(i) ==
  /\ RestoreUi(Plugin(i).ui, MetaSignals(i))
  /\ tabs' = tabs + 1

\* connectToServer_(): the dialog offers what availableDriversList() gives; with
\* nothing to choose from, its OK reads items[-1]. Bound: one piece of equipment.
ConnectToServer ==
  /\ main = "open" /\ UserIsFree /\ shown = Closed /\ tabs = 0
  /\ IF AvailableDrivers = {}
     THEN crashed' = TRUE /\ UNCHANGED <<readVars, impl, connectedEquipment, tabs>>
     ELSE \E u \in AvailableDrivers :
            /\ CreateDriverImpl(u)
            /\ IF impl' = NoImpl
               THEN UNCHANGED <<readVars, connectedEquipment, tabs>>
               ELSE /\ connectedEquipment' = Append(connectedEquipment, impl'.file)
                    /\ OnConnectedToEquipment(impl'.file)
            /\ UNCHANGED crashed
  /\ UNCHANGED <<reported, gone, asking, messageVars, files, main, settingsVars>>

\* editSettings_(), and what the user does in the dialog. Bound: there are no drivers.
SettingsNext ==
  /\ main = "open" /\ files = <<>>
  /\ EditSettings \/ DialogStep
  /\ UNCHANGED program
  /\ UNCHANGED <<panelVars, messageVars, driverVars, mainVars>>

\* closeEvent(): nothing is asked, the place is kept, and the other windows stay.
CloseMain ==
  /\ main = "open" /\ UserIsFree /\ refusing = NULL /\ shown = Closed
  /\ main' = "closed"
  /\ WriteGeometry
  /\ UNCHANGED <<panelVars, messageVars, driverVars, connectedEquipment, tabs, program,
                 settings, shown, edited>>

\* The last window is closed: exec() returns, and main() deletes the main window with
\* its panels.
EndOfMain ==
  /\ main = "closed" /\ asking = NoQuestion
  /\ ToSet(windows) \subseteq gone /\ \A w \in Windows : life[w] # "open"
  /\ main' = "deleted"
  /\ Destroy
  /\ UNCHANGED <<readVars, reported, gone, asking, messageVars, driverVars,
                 connectedEquipment, tabs, settingsVars>>

MainOf(p) == IF p = "udav" THEN "open" ELSE "elsewhere"

\* main() once more, after its end or a crash: nothing is left but the settings.
StartAgain ==
  /\ crashed \/ main \in {"deleted", "elsewhere"}
  /\ PanelAnew /\ MessagesAnew
  /\ connectedEquipment' = <<>> /\ tabs' = 0 /\ main' = MainOf(program)
  /\ impl' = NoImpl /\ UNCHANGED files
  /\ RestartSettings

Running == ~crashed /\ main # "deleted"

\* The cells of the main window's tabs are closed with it, those of windows are not.
Visible(c) == main = "open" \/ \E p \in ToSet(windows) : OnPage(c, p)

PanelNext ==
  /\ Running /\ tabs > 0
  /\ \/ PanelStep
     \/ /\ refusing = NULL
        /\ \/ \E c \in DOMAIN cells : Visible(c) /\ UserWorks(c)
           \/ \E p \in DOMAIN layouts : CloseControlWindow(p)
  /\ UNCHANGED <<messageVars, driverVars, mainVars, settingsVars>>

\* It is the equipment in use that opens windows and writes to them. A box is modal: as
\* long as it is shown, the user does nothing else.
MessageNext ==
  /\ Running /\ ~reading /\ \E i \in ToSet(connectedEquipment) : files[i] \in Talkative
  /\ MessageStep \/ (UserIsFree /\ \E w \in Windows : UserClosesMessage(w))
  /\ UNCHANGED <<panelVars, driverVars, mainVars, settingsVars>>

\* A message for a window that is no more.
MessageAstray ==
  /\ Running /\ ~reading /\ \E u \in Uuids : Dangling(u)
  /\ crashed' = TRUE
  /\ UNCHANGED <<readVars, reported, gone, asking, messageVars, driverVars, mainVars,
                 settingsVars>>

MainNext == Running /\ (ConnectToServer \/ SettingsNext \/ CloseMain \/ EndOfMain)

\* Bound: with drivers it is udav, and started for the first time.
Init ==
  /\ PanelInit /\ MessageInit /\ DriversInit
  /\ connectedEquipment = <<>> /\ tabs = 0
  /\ \E p \in DOMAIN Found : \E found \in Found[p] :
       /\ files # <<>> => p = "udav" /\ found = <<>>
       /\ SettingsInit(p, found) /\ main = MainOf(p)

Next == PanelNext \/ MessageNext \/ MessageAstray \/ MainNext \/ StartAgain

Spec == Init /\ [][Next]_vars

ReadNext == Running /\ Reads /\ UNCHANGED <<reported, gone, crashed, asking, messageVars,
                                            driverVars, mainVars, settingsVars>>

Timer(w) == /\ Running /\ ~reading /\ CloseWindow(w)
            /\ UNCHANGED <<panelVars, driverVars, mainVars, settingsVars>>

\* The reader is a loop of the GUI thread, and the timers of windows fire in its event
\* loop, that of a box included. The user owes nothing: no box need ever be dismissed.
Fairness == WF_vars(ReadNext) /\ \A w \in Windows : WF_vars(Timer(w))

FairSpec == Spec /\ Fairness

-----------------------------------------------------------------------------
(* What a description asks for, read off its tokens                        *)

Starts(d) == {i \in DOMAIN Tokens[d] : Tokens[d][i].type = "start"}

\* The element that each element is directly in, 0 outside.
Parents ==
  [d \in Descriptions |->
     [i \in Starts(d) |->
        Max({0} \cup {j \in Starts(d) : j < i /\ Depths[d][j] = Depths[d][i] - 1})]]

\* The last signal that an element names; a label and a group have none.
SignalOf(d, i) ==
  LET last == Max({0} \cup {j \in Starts(d) : /\ Tokens[d][j].name = "signalID"
                                             /\ Parents[d][j] = i})
  IN  IF last = 0 \/ Tokens[d][i].name \in {"textLabel", "group"} THEN 0
      ELSE Tokens[d][last].number

\* The elements that stand for a cell: those of a known class directly in a layout.
Items ==
  [d \in Descriptions |->
     {[at |-> i, on |-> Parents[d][i], signal |-> SignalOf(d, i)] :
        i \in {j \in Starts(d) :
                /\ Tokens[d][j].name \in CellClasses \cup {"group"}
                /\ Tokens[d][j].name = "circuitButton" => Tokens[d][j].mode # "unknown"
                /\ Parents[d][j] # 0 /\ Tokens[d][Parents[d][j]].name \in {"page", "layout"}}}]

PagesOf(d, separate) ==
  {i \in Starts(d) : Tokens[d][i].name = "page" /\ (Tokens[d][i].mode = "window") = separate}

\* The conditions that enable a knob: what its element asks for, if both are numbers.
Conditions ==
  [d \in Descriptions |->
     {[knob |-> Parents[d][j], signal |-> Tokens[d][j].number, value |-> Tokens[d][j].second] :
        j \in {i \in Starts(d) : Tokens[d][i].name = "enableIf"
                                   /\ Tokens[d][i].second # NotANumber}}]

\* What the elements that the reader looks for in certain places are directly in.
Places ==
  [page |-> {"driver"}, group |-> {"page", "layout"}, layout |-> {"group"},
   enableIf |-> {"knob"}]

SixteenBits(n) == n \in Nat /\ n < 65536

\* Every element ends, and there is one driver; pages, groups, layouts and conditions
\* are where the reader looks for them; an element has one condition at most; a layout
\* is not directly followed by the end of its group; signals and values have sixteen bits.
ProperDescriptions ==
  {d \in Descriptions :
     /\ \A i \in DOMAIN Tokens[d] : Depths[d][i] >= 0
     /\ Tokens[d] # <<>> /\ Depths[d][Len(Tokens[d])] = 0
     /\ \A i \in Starts(d) : Parents[d][i] = 0 <=> Tokens[d][i].name = "driver"
     /\ \A i, j \in Starts(d) : Parents[d][i] = 0 /\ Parents[d][j] = 0 => i = j
     /\ \A i \in Starts(d) :
          LET t == Tokens[d][i]
          IN  /\ t.name \in DOMAIN Places =>
                   Parents[d][i] # 0 /\ Tokens[d][Parents[d][i]].name \in Places[t.name]
              /\ t.name = "layout" => Tokens[d][EndOf(d, i) + 1].type # "end"
              /\ t.name = "signalID" => SixteenBits(t.number)
              /\ t.name = "enableIf" =>
                   /\ t.number = NotANumber \/ SixteenBits(t.number)
                   /\ t.second = NotANumber \/ SixteenBits(t.second)
                   /\ \A j \in Starts(d) :
                        Tokens[d][j].name = "enableIf" /\ Parents[d][j] = Parents[d][i] => j = i}
Proper == doc \in ProperDescriptions

-----------------------------------------------------------------------------
(* Safety                                                                  *)

\* When the reader (EquipmentUiReader::restore) is done with a proper description,
\* each of its cells has been made once, on the page it is written in and for the
\* signal it names, pages and windows are where they should be, and a signal that
\* only one cell has leads to this cell: no loop takes a token of another.
Restored ==
  ~reading /\ Proper =>
    /\ Len(cells) = Cardinality(Items[doc])
    /\ Items[doc] = {[at |-> cells[c].at, on |-> layouts[cells[c].layout].at,
                      signal |-> cells[c].signal] : c \in DOMAIN cells}
    /\ {layouts[p].at : p \in ToSet(pages)} = PagesOf(doc, FALSE)
    /\ {layouts[p].at : p \in ToSet(windows)} = PagesOf(doc, TRUE)
    /\ \A c \in DOMAIN ui2signal :
         (\A b \in DOMAIN ui2signal : ui2signal[b] = ui2signal[c] => b = c)
           => signal2ui[ui2signal[c]] = c

\* Until somebody touches it, an edit shows the value that the driver itself starts
\* from (DriverImpl::fillDefaultValues_), if that is in the declared range and an
\* integer of sixteen bits.
EditsStartTrue ==
  \A c \in DOMAIN cells :
    LET s == cells[c].signal
    IN  /\ cells[c].class = "valueEdit" /\ ~cells[c].touched
        /\ s \in DOMAIN impl.controlValues
        /\ meta[s].default = Clip(meta[s].default, meta[s])
        /\ meta[s].default = Int16(meta[s].default)
        => cells[c].value = impl.controlValues[s]

\* A knob that one signal enables, and no other knob is enabled by, is enabled exactly
\* if the number last reported of the signal is the one that the description names
\* (readKnob_ and signalValueChanged keep and look up the enablers).
EnabledAsReported ==
  ~reading /\ Proper =>
    \A e \in Conditions[doc] : \A c \in DOMAIN cells :
      /\ cells[c].at = e.knob /\ e.signal \in DOMAIN reported
      /\ \A o \in Conditions[doc] : o.signal = e.signal => o = e
      => cells[c].enabled = (reported[e.signal] = e.value)

\* An entry of messageWindows_ leads to a window that is there, and no two to the same:
\* a late message never goes to a window that a timer or the user has closed. Excepted
\* is the null uuid, whose entry outlives its window; and that a window is shown does
\* not mean that it has an entry, since a second one under its uuid takes it.
WindowsTracked ==
  /\ \A u \in DOMAIN table : table[u] # NULL /\ life[table[u]] # "open" => u = NullUuid
  /\ \A u, v \in DOMAIN table : table[u] # NULL /\ table[u] = table[v] => u = v

\* No step changes a setting but the saving of a widget that the user worked, restarts
\* after an end or a crash included: what the constructors of UdavSettings,
\* ClientSettings and ServerSettings read is what was saved, and a dialog that is
\* accepted untouched changes nothing. Excepted is what Settled names: the code reverts
\* an empty path, and with it the path for saving, and the dialog loses a driver that
\* is not connected to automatically.
OnlyUserChanges ==
  [][\A k \in Keys : settings'[k] # settings[k] => k \in edited \/ ~Settled(k)]_vars

-----------------------------------------------------------------------------
(* Liveness                                                                *)

\* A window that was told to close by itself after a delay does so, whatever other calls
\* come, unless it is told later to wait for the user (MessageWindow::closeWindow,
\* closeWindow_). As long as the user leaves the box open in which its closing was
\* refused before, it stays: the promise holds from when there is no such box.
WindowEnds ==
  \A w \in Windows :
    (life[w] = "open" /\ timing[w] /\ autoClose[w] /\ refusing # w)
      ~> (life[w] = "deleted" \/ ~autoClose[w] \/ crashed)

=============================================================================
