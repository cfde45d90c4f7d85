------------------------- MODULE ApplicationProofs -------------------------
(***************************************************************************)
(* What the combined application keeps to, proved for any drivers,         *)
(* descriptions, windows and settings: its message windows, the values its *)
(* edits start from, and the settings it saves.                            *)
(***************************************************************************)
EXTENDS Application, WellFoundedInduction, TLAPS

-----------------------------------------------------------------------------
(* Numbers.                                                                *)

\* Some number of a set of natural numbers is the least.
LEMMA Least ==
  ASSUME NEW T, T \subseteq Nat, T # {}
  PROVE  \E x \in T : \A y \in T : x <= y
<1>1. PICK x \in T : \A y \in T : ~(<<y, x>> \in OpToRel(<, Nat))
  BY NatLessThanWellFounded, WFMin
<1>2. \A y \in T : ~(y < x)
  BY <1>1 DEF OpToRel
<1> QED BY <1>2

\* Some number of a set that ends is the greatest.
LEMMA Greatest ==
  ASSUME NEW n \in Nat, NEW T, T \subseteq 0 .. n, T # {}
  PROVE  \E x \in T : \A y \in T : y <= x
<1> DEFINE U == {n - i : i \in T}
<1>1. U \subseteq Nat
  OBVIOUS
<1>2. U # {}
  OBVIOUS
<1>3. PICK u \in U : \A y \in U : u <= y
  BY <1>1, <1>2, Least
<1>4. PICK x \in T : u = n - x
  OBVIOUS
<1>5. \A y \in T : n - y \in U
  OBVIOUS
<1>6. \A y \in T : n - x <= n - y
  BY <1>3, <1>4, <1>5
<1>7. \A y \in T : y <= x
  BY <1>6
<1> QED BY <1>7

-----------------------------------------------------------------------------
(* The message windows.                                                    *)

\* An entry of messageWindows_ leads to a window that was opened, or to none.
TableOK ==
  /\ \A u \in DOMAIN table : table[u] \in Windows \cup {NULL}
  /\ \A u \in DOMAIN table : table[u] # NULL => life[table[u]] # "new"
  /\ life \in [Windows -> {"new", "open", "deleted"}]

MessageInv == TableOK /\ WindowsTracked

\* A window that opens was new, so that no other entry leads to it.
LEMMA Opening ==
  ASSUME MessageInv, NEW u, OpenMessageWindow(u)
  PROVE  MessageInv'
<1>1. PICK w \in Windows :
        /\ life[w] = "new"
        /\ life' = [life EXCEPT ![w] = "open"]
        /\ table' = [x \in DOMAIN table \cup {u} |-> IF x = u THEN w ELSE table[x]]
  BY DEF OpenMessageWindow
<1>2. TableOK'
  BY <1>1 DEF MessageInv, TableOK
<1>3. \A x \in DOMAIN table : table[x] # NULL => table[x] # w /\ table[x] \in Windows
  BY <1>1 DEF MessageInv, TableOK, WindowsTracked
<1>4. WindowsTracked'
  BY <1>1, <1>3 DEF MessageInv, TableOK, WindowsTracked
<1> QED BY <1>2, <1>4 DEF MessageInv

\* A window that is deleted takes its entry with it, unless its uuid is null.
LEMMA Deleting ==
  ASSUME MessageInv, NEW w, DeleteMessageWindow(w)
  PROVE  MessageInv'
<1>1. /\ life' = [life EXCEPT ![w] = "deleted"]
      /\ table' = [u \in {x \in DOMAIN table : table[x] = w => x = NullUuid} |-> table[u]]
  BY DEF DeleteMessageWindow, Deletes
<1>2. TableOK'
  BY <1>1 DEF MessageInv, TableOK
<1>3. WindowsTracked'
  BY <1>1 DEF MessageInv, TableOK, WindowsTracked
<1> QED BY <1>2, <1>3 DEF MessageInv

\* Looking a uuid up adds at most an entry without a window.
LEMMA LookingUp ==
  ASSUME MessageInv, NEW u, table' = WithLooked(u), UNCHANGED life
  PROVE  MessageInv'
<1>1. table' = [x \in DOMAIN table \cup {u} |-> IF x \in DOMAIN table THEN table[x] ELSE NULL]
  BY DEF WithLooked, Looked
<1>2. TableOK'
  BY <1>1 DEF MessageInv, TableOK
<1>3. WindowsTracked'
  BY <1>1 DEF MessageInv, TableOK, WindowsTracked
<1> QED BY <1>2, <1>3 DEF MessageInv

\* Every step of the windows, their timers and the user keeps the table true.
LEMMA MessageKept ==
  ASSUME MessageInv, [Next]_vars
  PROVE  MessageInv'
<1>1. CASE MessageStep
  <2>1. ASSUME NEW u \in Uuids, OpenMessageWindow(u) PROVE MessageInv'
    BY <2>1, Opening
  <2>2. ASSUME NEW u \in Uuids, WriteTextMessage2Window(u) PROVE MessageInv'
    BY <2>2, LookingUp DEF WriteTextMessage2Window
  <2>3. ASSUME NEW u \in Uuids, NEW delayed \in BOOLEAN, NEW auto \in BOOLEAN,
               CloseMessageWindow(u, delayed, auto)
        PROVE  MessageInv'
    BY <2>3, LookingUp DEF CloseMessageWindow
  <2>4. ASSUME NEW w \in Windows, CloseWindow(w) PROVE MessageInv'
    BY <2>4, Deleting DEF CloseWindow
  <2>5. CASE UserDismissesRefusal
    BY <2>5 DEF UserDismissesRefusal, MessageInv, TableOK, WindowsTracked
  <2> QED BY <1>1, <2>1, <2>2, <2>3, <2>4, <2>5 DEF MessageStep
<1>2. CASE \E w \in Windows : UserClosesMessage(w)
  <2>1. ASSUME NEW w \in Windows, ~canClose[w], UserClosesMessage(w) PROVE MessageInv'
    <3>1. CASE DeleteMessageWindow(w)
      BY <3>1, Deleting
    <3>2. CASE UNCHANGED <<table, life>>
      BY <3>2 DEF MessageInv, TableOK, WindowsTracked
    <3> QED BY <2>1, <3>1, <3>2 DEF UserClosesMessage
  <2>2. ASSUME NEW w \in Windows, canClose[w], UserClosesMessage(w) PROVE MessageInv'
    BY <2>2, Deleting DEF UserClosesMessage
  <2> QED BY <1>2, <2>1, <2>2
<1>3. CASE MessagesAnew
  BY <1>3 DEF MessagesAnew, MessageInv, TableOK, WindowsTracked
<1>4. CASE UNCHANGED messageVars
  BY <1>4 DEF messageVars, MessageInv, TableOK, WindowsTracked
<1>5. UNCHANGED vars => UNCHANGED messageVars
  BY DEF vars
<1>6. PanelNext \/ MessageAstray \/ MainNext => UNCHANGED messageVars
  BY DEF PanelNext, MessageAstray, MainNext, ConnectToServer, SettingsNext, CloseMain, EndOfMain
<1>7. MessageNext => MessageStep \/ \E w \in Windows : UserClosesMessage(w)
  BY DEF MessageNext
<1>8. StartAgain => MessagesAnew
  BY DEF StartAgain
<1> QED BY <1>1, <1>2, <1>3, <1>4, <1>5, <1>6, <1>7, <1>8 DEF Next

\* The entries of messageWindows_, that of the null uuid excepted, lead to windows that
\* are open, and no two entries to the same, whatever is opened, written to, closed by a
\* timer or by the user, and through a restart.
THEOREM WindowsAreTracked == Spec => []WindowsTracked
<1>1. Init => MessageInv
  BY DEF Init, MessageInit, MessageInv, TableOK, WindowsTracked
<1>2. MessageInv => WindowsTracked
  BY DEF MessageInv
<1> QED BY <1>1, <1>2, MessageKept, PTL DEF Spec

-----------------------------------------------------------------------------
(* The values that edits start from.                                       *)

\* What the drivers declare of a signal that is controlled: one of the types there
\* are, of a Boolean one FALSE or TRUE, and of a time no default, as it has none.
ControlsDeclared ==
  \A f \in DOMAIN Plugins : \A s \in SignalsOf(Plugins[f].signals, "Control") :
    LET m == Plugins[f].signals[s]
    IN  /\ m.type \in ValueTypes
        /\ m.type = "Boolean" => m.default \in {0, 1}
        /\ m.type = "Time" => m.default = 0

\* An edit that nobody touched shows what it was made with.
EditOK(r) ==
  /\ {"class", "signal", "value", "touched"} \subseteq DOMAIN r
  /\ r.class = "valueEdit" /\ ~r.touched => r.value = ValueAtFirst(r.signal)

EditsOK(cs) ==
  /\ \E S : cs \in Seq(S)
  /\ \A c \in DOMAIN cs : EditOK(cs[c])

\* The panel is that of the driver in use, and there is one only with a driver.
PanelOfDriver ==
  /\ tabs = 0 => cells = <<>>
  /\ tabs # 0 => /\ impl = NewImpl(impl.file) /\ impl.file \in DOMAIN files
                 /\ meta = MetaSignals(impl.file)

EditInv == /\ tabs \in Nat /\ files \in Directories
           /\ PanelOfDriver /\ EditsOK(cells)

\* A cell more, as its constructor and the reader make it.
LEMMA NewCellStarts ==
  ASSUME EditsOK(cells), NEW draft, NEW layout, NEW at
  PROVE  EditsOK(Append(cells, Cell(draft, layout, at)))
<1> DEFINE new == Cell(draft, layout, at)
<1>1. EditOK(new)
  BY DEF Cell, EditOK
<1> HIDE DEF new
<1>2. PICK S : cells \in Seq(S)
  BY DEF EditsOK
<1>3. cells \in Seq(S \cup {new})
  BY <1>2
<1>4. /\ Append(cells, new) \in Seq(S \cup {new})
      /\ \A c \in DOMAIN Append(cells, new) :
           Append(cells, new)[c] = IF c \in DOMAIN cells THEN cells[c] ELSE new
  BY <1>3
<1>5. \A c \in DOMAIN Append(cells, new) : EditOK(Append(cells, new)[c])
  BY <1>1, <1>4 DEF EditsOK
<1>6. EditsOK(Append(cells, new))
  BY <1>4, <1>5 DEF EditsOK
<1> QED BY <1>6 DEF new

\* A cell that changes into one that is as good.
LEMMA CellChanges ==
  ASSUME NEW cs, EditsOK(cs), NEW i, NEW r, i \in DOMAIN cs => EditOK(r)
  PROVE  EditsOK([cs EXCEPT ![i] = r])
<1>1. PICK S : cs \in Seq(S)
  BY DEF EditsOK
<1>2. [cs EXCEPT ![i] = r] \in Seq(S \cup {r})
  <2>1. cs \in Seq(S \cup {r})
    BY <1>1
  <2>2. CASE i \in DOMAIN cs
    BY <2>1, <2>2
  <2>3. CASE i \notin DOMAIN cs
    <3>1. [cs EXCEPT ![i] = r] = cs
      BY <2>1, <2>3
    <3> QED BY <3>1, <2>1
  <2> QED BY <2>2, <2>3
<1>3. \A c \in DOMAIN [cs EXCEPT ![i] = r] :
        [cs EXCEPT ![i] = r][c] = IF c = i THEN r ELSE cs[c]
  BY <1>1
<1>4. \A c \in DOMAIN [cs EXCEPT ![i] = r] : EditOK([cs EXCEPT ![i] = r][c])
  BY <1>3 DEF EditsOK
<1> QED BY <1>2, <1>4 DEF EditsOK

\* What enables a knob, shows a value or is worked by the user leaves an edit that
\* nobody touched as it was.
LEMMA CellWorked ==
  ASSUME NEW cs, EditsOK(cs), NEW i, NEW v
  PROVE  /\ EditsOK([cs EXCEPT ![i].enabled = v])
         /\ EditsOK([cs EXCEPT ![i].checked = v])
         /\ EditsOK([cs EXCEPT ![i].accepted = v])
         /\ EditsOK([cs EXCEPT ![i] = SetValue(cs[i], v)])
         /\ \A class : cs[i].class = class /\ Shows(class) # {}
                          => EditsOK([cs EXCEPT ![i] = Show(cs[i], v)])
<1>1. i \in DOMAIN cs => EditOK(cs[i])
  BY DEF EditsOK
<1>2. ASSUME i \in DOMAIN cs
      PROVE  /\ EditOK([cs[i] EXCEPT !.enabled = v])
             /\ EditOK([cs[i] EXCEPT !.checked = v])
             /\ EditOK([cs[i] EXCEPT !.accepted = v])
  BY <1>1, <1>2 DEF EditOK
<1>3. ASSUME i \in DOMAIN cs PROVE EditOK(SetValue(cs[i], v))
  BY <1>1, <1>3 DEF EditOK, SetValue
<1>4. ASSUME i \in DOMAIN cs, NEW class, cs[i].class = class, Shows(class) # {}
      PROVE  EditOK(Show(cs[i], v))
  <2>1. class \in Buttons \cup {"led", "lcd", "valueEdit"}
    BY <1>4 DEF Shows
  <2>2. CASE class \in Buttons
    <3>1. Show(cs[i], v) = [cs[i] EXCEPT !.checked = (v # 0)]
      <4>1. cs[i].class \in Buttons /\ cs[i].class \notin {"led", "lcd", "valueEdit"}
        BY <2>2, <1>4 DEF Buttons
      <4> QED BY <4>1 DEF Show, ShowOnButton
    <3> QED BY <3>1, <1>1, <1>4 DEF EditOK
  <2>3. CASE class = "led"
    <3>1. Show(cs[i], v) = [cs[i] EXCEPT !.value = IF v = 0 THEN 0 ELSE 1]
      BY <2>3, <1>4 DEF Show, ShowOnLed, Buttons
    <3> QED BY <3>1, <2>3, <1>1, <1>4 DEF EditOK
  <2>4. CASE class = "lcd"
    <3>1. Show(cs[i], v) = [cs[i] EXCEPT !.value = v]
      BY <2>4, <1>4 DEF Show, ShowOnLcd, Buttons
    <3> QED BY <3>1, <2>4, <1>1, <1>4 DEF EditOK
  <2>5. CASE class = "valueEdit"
    <3>1. Show(cs[i], v) = SetValue(cs[i], v)
      BY <2>5, <1>4 DEF Show, Buttons
    <3> QED BY <3>1, <1>3, <1>4
  <2> QED BY <2>1, <2>2, <2>3, <2>4, <2>5
<1> QED BY <1>2, <1>3, <1>4, CellChanges

\* The reader adds cells and changes none.
LEMMA ReadsAppend ==
  ASSUME Reads
  PROVE  /\ UNCHANGED meta
         /\ \/ UNCHANGED cells
            \/ \E draft, layout, at : cells' = Append(cells, Cell(draft, layout, at))
<1>1. ASSUME NEW class, NEW fields, ReadsCell(class, fields)
      PROVE  /\ UNCHANGED meta
             /\ \/ UNCHANGED cells
                \/ \E draft, layout, at : cells' = Append(cells, Cell(draft, layout, at))
  <2>1. CASE ReadField(class, fields)
    BY <2>1 DEF ReadField
  <2>2. CASE EndCell(class)
    BY <2>2 DEF EndCell
  <2> QED BY <1>1, <2>1, <2>2 DEF ReadsCell
<1>2. CASE \/ ReadCurcuitButton \/ ReadImage \/ ReadKnob \/ ReadLcd \/ ReadLed
           \/ ReadPushButton \/ ReadTextLabel \/ ReadValueEdit
  BY <1>1, <1>2 DEF ReadCurcuitButton, ReadImage, ReadKnob, ReadLcd, ReadLed, ReadPushButton,
     ReadTextLabel, ReadValueEdit
<1>3. CASE EndGroup
  BY <1>3 DEF EndGroup
<1>4. CASE ReadText \/ ReadLayout \/ EndLayout \/ ReadGroup \/ ReadDriver \/ EndDriver
           \/ ReadRoot \/ EndRestore
  BY <1>4 DEF ReadText, ReadLayout, EndLayout, ReadGroup, ReadDriver, EndDriver, ReadRoot,
     EndRestore, Skip
<1> QED BY <1>2, <1>3, <1>4 DEF Reads

\* What happens on a panel keeps the ranges, and the edits start true.
LEMMA PanelKept ==
  ASSUME EditsOK(cells), PanelNext
  PROVE  UNCHANGED meta /\ EditsOK(cells')
<1>1. CASE Reads
  BY <1>1, ReadsAppend, NewCellStarts
<1>2. ASSUME NEW id, NEW v, SignalValueChanged(id, v)
      PROVE  UNCHANGED meta /\ EditsOK(cells')
  <2> DEFINE cs == Enable(cells, id, v)
  <2>1. EditsOK(cs)
    BY CellWorked DEF Enable
  <2>2. /\ UNCHANGED meta
        /\ \/ cells' = cells \/ cells' = cs
           \/ \E type \in Shows(cs[Bound(id)].class) :
                cells' = [cs EXCEPT ![Bound(id)] = Show(cs[Bound(id)], v)]
    BY <1>2 DEF SignalValueChanged, readVars
  <2> HIDE DEF cs
  <2>3. CASE \E type \in Shows(cs[Bound(id)].class) :
               cells' = [cs EXCEPT ![Bound(id)] = Show(cs[Bound(id)], v)]
    <3>1. Shows(cs[Bound(id)].class) # {}
      BY <2>3
    <3>2. EditsOK([cs EXCEPT ![Bound(id)] = Show(cs[Bound(id)], v)])
      BY <2>1, <3>1, CellWorked
    <3> QED BY <2>2, <2>3, <3>2
  <2> QED BY <2>1, <2>2, <2>3
<1>3. ASSUME NEW p, CloseControlWindow(p) PROVE UNCHANGED <<meta, cells>>
  BY <1>3 DEF CloseControlWindow, readVars
<1>4. CASE Answer
  <2>1. /\ UNCHANGED meta
        /\ \/ cells' = [cells EXCEPT ![asking.cell].checked = asking.to]
           \/ UNCHANGED cells
    BY <1>4 DEF Answer, OnlyCells
  <2>2. EditsOK([cells EXCEPT ![asking.cell].checked = asking.to])
    BY CellWorked
  <2> QED BY <2>1, <2>2
<1>5. ASSUME NEW c, UserWorks(c)
      PROVE  UNCHANGED meta /\ EditsOK(cells')
  <2>1. CASE Toggle(c)
    <3>1. UNCHANGED meta /\ cells' = [cells EXCEPT ![c].checked = ~cells[c].checked]
      BY <2>1 DEF Toggle, OnlyCells
    <3>2. ASSUME NEW v, cells' = [cells EXCEPT ![c].checked = v] PROVE EditsOK(cells')
      BY <3>2, CellWorked
    <3> QED BY <3>1, <3>2
  <2>2. CASE Ask(c)
    BY <2>2 DEF Ask, OnlyCells
  <2>3. CASE AcceptValue(c)
    <3>1. UNCHANGED meta /\ cells' = [cells EXCEPT ![c].accepted = cells[c].value]
      BY <2>3 DEF AcceptValue, OnlyCells
    <3> QED BY <3>1, CellWorked
  <2>4. CASE RevertValue(c)
    <3>1. UNCHANGED meta /\ cells' = [cells EXCEPT ![c] = SetValue(cells[c], cells[c].accepted)]
      BY <2>4 DEF RevertValue, OnlyCells
    <3> QED BY <3>1, CellWorked
  <2>5. ASSUME NEW v, EnterValue(c, v) PROVE UNCHANGED meta /\ EditsOK(cells')
    <3>1. UNCHANGED meta /\ cells' = [cells EXCEPT ![c] = SetValue(cells[c], v)]
      BY <2>5 DEF EnterValue, OnlyCells
    <3> QED BY <3>1, CellWorked
  <2> QED BY <1>5, <2>1, <2>2, <2>3, <2>4, <2>5 DEF UserWorks
<1>6. ASSUME NEW id, SignalUnreadable(id)
      PROVE  UNCHANGED meta /\ EditsOK(cells')
  <2>1. /\ UNCHANGED meta
        /\ \/ cells' = cells
           \/ \E v : /\ Shows(cells[Bound(id)].class) # {}
                    /\ cells' = [cells EXCEPT ![Bound(id)] = Show(cells[Bound(id)], v)]
    BY <1>6 DEF SignalUnreadable, readVars
  <2>2. ASSUME NEW v, Shows(cells[Bound(id)].class) # {}
        PROVE  EditsOK([cells EXCEPT ![Bound(id)] = Show(cells[Bound(id)], v)])
    BY <2>2, CellWorked
  <2> QED BY <2>1, <2>2
<1> QED BY <1>1, <1>2, <1>3, <1>4, <1>5, <1>6 DEF PanelNext, PanelStep

\* Of the plugins with one uuid DriversManager knows the last.
LEMMA LastOfUuid ==
  ASSUME files \in Directories, NEW u \in LoadedUuids
  PROVE  /\ Drivers[u] \in DOMAIN files /\ Loads(Drivers[u]) /\ Plugin(Drivers[u]).uuid = u
         /\ \A j \in DOMAIN files : Loads(j) /\ Plugin(j).uuid = u => j <= Drivers[u]
<1> DEFINE T == {i \in DOMAIN files : Loads(i) /\ Plugin(i).uuid = u}
<1>1. files \in Seq(DOMAIN Plugins)
  BY FilesAssumption DEF FilesAssumption
<1>2. Len(files) \in Nat /\ T \subseteq 0 .. Len(files)
  BY <1>1
<1>3. T # {}
  BY DEF LoadedUuids
<1>4. \E x \in T : \A y \in T : y <= x
  BY <1>2, <1>3, Greatest
<1>5. \E i \in DOMAIN files :
        /\ Loads(i) /\ Plugin(i).uuid = u
        /\ \A j \in DOMAIN files : Loads(j) /\ Plugin(j).uuid = u => j <= i
  BY <1>4
<1> QED BY <1>5 DEF Drivers

\* Every step keeps the edits true and the panel that of the driver.
LEMMA EditsKept ==
  ASSUME EditInv, [Next]_vars
  PROVE  EditInv'
<1>1. ASSUME UNCHANGED <<meta, tabs, files, impl>>, EditsOK(cells'), tabs = 0 => cells' = cells
      PROVE  EditInv'
  <2>1. EditsOK(cells)'
    BY <1>1 DEF EditsOK, EditOK, ValueAtFirst, MetaOf, Clip
  <2>2. PanelOfDriver'
    BY <1>1 DEF EditInv, PanelOfDriver, NewImpl, MetaSignals, Plugin
  <2> QED BY <1>1, <2>1, <2>2 DEF EditInv
<1>2. CASE PanelNext
  <2>1. tabs > 0 /\ UNCHANGED <<tabs, files, impl>>
    BY <1>2 DEF PanelNext, mainVars, driverVars
  <2> QED BY <1>1, <1>2, <2>1, PanelKept DEF EditInv
<1>3. CASE ConnectToServer
  <2>1. tabs = 0 /\ UNCHANGED files /\ cells = <<>>
    BY <1>3 DEF ConnectToServer, EditInv, PanelOfDriver
  <2>2. EditsOK(<<>>)' /\ EditsOK(<<>>)
    <3>1. <<>> \in Seq({})
      OBVIOUS
    <3> QED BY <3>1 DEF EditsOK
  <2>3. CASE UNCHANGED <<readVars, impl, tabs>>
    BY <1>1, <2>1, <2>2, <2>3 DEF readVars
  <2>4. CASE impl' = NoImpl /\ UNCHANGED <<readVars, tabs>>
    BY <2>1, <2>2, <2>4 DEF readVars, EditInv, PanelOfDriver
  <2>5. ASSUME NEW u \in AvailableDrivers, CreateDriverImpl(u), impl' # NoImpl,
               OnConnectedToEquipment(impl'.file)
        PROVE  EditInv'
    <3>1. impl' = NewImpl(Drivers[u]) /\ Drivers[u] \in DOMAIN files
      <4>1. u \in LoadedUuids
        BY <2>5 DEF AvailableDrivers, Drivers
      <4>2. Drivers[u] \in DOMAIN files
        BY <4>1, LastOfUuid DEF EditInv
      <4> QED BY <2>5, <4>2 DEF CreateDriverImpl
    <3>2. impl'.file = Drivers[u]
      BY <3>1 DEF NewImpl
    <3>3. meta' = MetaSignals(Drivers[u]) /\ tabs' = 1 /\ cells' = <<>>
      BY <2>1, <2>5, <3>2 DEF OnConnectedToEquipment, RestoreUi
    <3> QED BY <2>1, <2>2, <3>1, <3>2, <3>3 DEF EditInv, PanelOfDriver, NewImpl, MetaSignals,
               Plugin
  <2> QED BY <1>3, <2>3, <2>4, <2>5 DEF ConnectToServer
<1>4. CASE StartAgain
  <2>1. cells' = <<>> /\ tabs' = 0 /\ UNCHANGED files
    BY <1>4 DEF StartAgain, PanelAnew
  <2>2. EditsOK(<<>>)'
    <3>1. <<>> \in Seq({})
      OBVIOUS
    <3> QED BY <3>1 DEF EditsOK
  <2> QED BY <2>1, <2>2 DEF EditInv, PanelOfDriver
<1>5. CASE \/ MessageNext \/ MessageAstray \/ SettingsNext \/ CloseMain \/ EndOfMain
           \/ UNCHANGED vars
  <2>1. UNCHANGED <<meta, cells, tabs, files, impl>>
    BY <1>5 DEF MessageNext, MessageAstray, SettingsNext, CloseMain, EndOfMain, vars, panelVars, readVars,
       driverVars, mainVars
  <2> QED BY <1>1, <2>1 DEF EditInv
<1> QED BY <1>2, <1>3, <1>4, <1>5 DEF Next, MainNext

\* Until somebody touches it an edit shows the value that the driver itself starts from,
\* in every session with any driver that declares its controls as such.
THEOREM EditsAreStartedTrue ==
  ASSUME ControlsDeclared
  PROVE  Spec => []EditsStartTrue
<1>1. Init => EditInv
  <2>1. <<>> \in Seq({})
    OBVIOUS
  <2> QED BY <2>1 DEF Init, PanelInit, DriversInit, EditInv, PanelOfDriver, EditsOK
<1>2. EditInv => EditsStartTrue
  <2> SUFFICES ASSUME EditInv, NEW c \in DOMAIN cells,
                      cells[c].class = "valueEdit", ~cells[c].touched,
                      cells[c].signal \in DOMAIN impl.controlValues,
                      meta[cells[c].signal].default
                        = Clip(meta[cells[c].signal].default, meta[cells[c].signal]),
                      meta[cells[c].signal].default = Int16(meta[cells[c].signal].default)
               PROVE  cells[c].value = impl.controlValues[cells[c].signal]
    BY DEF EditsStartTrue
  <2> DEFINE s == cells[c].signal
             declared == Plugin(impl.file).signals
  <2>1. impl = NewImpl(impl.file) /\ impl.file \in DOMAIN files /\ meta = MetaSignals(impl.file)
    <3>1. cells # <<>>
      OBVIOUS
    <3> QED BY <3>1 DEF EditInv, PanelOfDriver
  <2>2. impl.controlValues = Defaults(declared, "Control")
    BY <2>1 DEF NewImpl
  <2>3. s \in SignalsOf(declared, "Control") /\ impl.controlValues[s] = DefaultValue(declared[s])
    BY <2>2 DEF Defaults
  <2>4. s \in DOMAIN meta /\ meta[s].default = declared[s].default
    BY <2>1, <2>3 DEF MetaSignals, SignalsOf
  <2>5. cells[c].value = declared[s].default
    BY <2>4 DEF EditInv, EditsOK, EditOK, ValueAtFirst, MetaOf
  <2>6. files[impl.file] \in DOMAIN Plugins
    BY <2>1, FilesAssumption DEF EditInv, FilesAssumption
  <2>7. /\ declared[s].type \in ValueTypes
        /\ declared[s].type = "Boolean" => declared[s].default \in {0, 1}
        /\ declared[s].type = "Time" => declared[s].default = 0
    BY <2>3, <2>6 DEF ControlsDeclared, Plugin
  <2>8. Int16(declared[s].default) = declared[s].default
    BY <2>4
  <2>9. DefaultValue(declared[s]) = declared[s].default
    BY <2>7, <2>8 DEF DefaultValue, ValueTypes
  <2> QED BY <2>3, <2>5, <2>9
<1> QED BY <1>1, <1>2, EditsKept, PTL DEF Spec

-----------------------------------------------------------------------------
(* The settings.                                                           *)

Bools == Flags \cup {"clearLogAtStart", "cacheFiles"}

FlagsOK(v) == \A k \in Keys \cap Bools : v[k] \in BOOLEAN

\* A number of so many values.
Within(n, first, last) == n \in Int /\ first <= n /\ n <= last

\* The settings of the program, each of its kind: what was read is cut to its bits, a
\* port is never 0, and an address that is kept is one.
SettingsOK(v) ==
  /\ DOMAIN v = Keys
  /\ FlagsOK(v)
  /\ \A k \in Keys \cap Shorts : Within(v[k], 0, 65535)
  /\ "serverPort" \in Keys => Within(v["serverPort"], 1, 65535)
  /\ "port" \in Keys => Within(v["port"], 1, 65535)
  /\ "connectLostAfterAttempts" \in Keys => Within(v["connectLostAfterAttempts"], 0, 255)
  /\ "toolBarButtonSize" \in Keys => v["toolBarButtonSize"] # Unreadable
  /\ "serverAddress" \in Keys => v["serverAddress"] \in Addresses \cup {Empty}

\* QSettings holds every setting as it is.
StoredTrue == \A k \in Keys : k \in DOMAIN stored /\ stored[k] = settings[k]

\* What the widgets of the dialog can show: no driver without the automatic connection.
WidgetFlagsOK(w) == \A k \in Flags : w[k] \in BOOLEAN

WidgetsOK(w) ==
  /\ w = [k \in DialogKeys |-> w[k]]
  /\ WidgetFlagsOK(w)
  /\ Within(w["protocolTimer"], 0, 10000)
  /\ Within(w["deleteProtocolFilesAfterDays"], 0, 365)
  /\ w["toolBarButtonSize"] \in Sizes
  /\ w["autoConnect"] \/ w["defaultDriver"] = Empty

\* The dialog is that of udav, and where the user has worked nothing it shows the
\* settings.
DialogOK ==
  shown # Closed =>
    /\ program = "udav" /\ WidgetsOK(shown)
    /\ \A k \in DialogKeys \ edited : shown[k] = ReadIntoDialog(settings)[k]

SavedInv ==
  /\ program \in Programs
  /\ main = "open" => program = "udav"
  /\ SettingsOK(settings) /\ StoredTrue /\ DialogOK

\* A number is read within its bits.
LEMMA ShortRead ==
  ASSUME NEW s, NEW k, NEW default, Within(default, 0, 65535), k \in DOMAIN s => s[k] \in Int
  PROVE  Within(ReadShort(s, k, default), 0, 65535)
<1>1. CASE IsInt(s, k)
  <2>1. s[k] \in Int /\ ReadShort(s, k, default) = s[k] % 65536
    BY <1>1 DEF IsInt, ReadShort
  <2> QED BY <2>1 DEF Within
<1>2. CASE ~IsInt(s, k)
  BY <1>2 DEF ReadShort
<1> QED BY <1>1, <1>2

\* The port that is read is one.
LEMMA PortRead ==
  ASSUME NEW s, NEW k, k \in DOMAIN s => s[k] \in Int
  PROVE  Within(ReadPort(s, k), 1, 65535)
<1>1. Within(ReadShort(s, k, 0), 0, 65535)
  BY ShortRead DEF Within
<1> QED BY <1>1 DEF ReadPort, Within

\* A flag is read as one, whatever was found.
LEMMA FlagRead ==
  ASSUME NEW s, NEW k
  PROVE  ReadFlag(s, k) \in BOOLEAN
BY DEF ReadFlag

\* What UdavSettings reads.
LEMMA UdavRead ==
  ASSUME NEW s
  PROVE  /\ DOMAIN ReadUdav(s) = UdavKeys
         /\ \A k \in Flags : ReadUdav(s)[k] = ReadFlag(s, k)
         /\ ReadUdav(s)["logPath"] = ReadPath(s, "logPath", "./")
         /\ ReadUdav(s)["protocolPath"] = ReadPath(s, "protocolPath", "./")
         /\ ReadUdav(s)["protocolSaveToPath"] = ReadSaveToPath(s)
         /\ ReadUdav(s)["protocolTimer"] = ReadShort(s, "protocolTimer", 0)
         /\ ReadUdav(s)["deleteProtocolFilesAfterDays"]
              = ReadShort(s, "deleteProtocolFilesAfterDays", 10)
         /\ ReadUdav(s)["toolBarButtonSize"] = ReadSize(s)
         /\ ReadUdav(s)["defaultDriver"] = Text(s, "defaultDriver")
<1>1. Flags \subseteq AllFlags
  BY FlagsAssumption DEF FlagsAssumption
<1>2. {"logPath", "protocolPath", "protocolSaveToPath", "protocolTimer", "toolBarButtonSize",
       "deleteProtocolFilesAfterDays", "defaultDriver"} \cap Flags = {}
  BY <1>1 DEF AllFlags
<1>3. Flags \cup {"logPath", "protocolPath", "protocolSaveToPath", "protocolTimer",
       "toolBarButtonSize", "deleteProtocolFilesAfterDays", "defaultDriver"} = UdavKeys
  BY DEF UdavKeys, DialogKeys, ProtocolFields
<1>4. DOMAIN ReadUdav(s) = UdavKeys
  BY DEF ReadUdav
<1>5. \A k \in UdavKeys :
        ReadUdav(s)[k] =
          CASE k \in Flags -> ReadFlag(s, k)
            [] k \in {"logPath", "protocolPath"} -> ReadPath(s, k, "./")
            [] k = "protocolSaveToPath" -> ReadSaveToPath(s)
            [] k = "protocolTimer" -> ReadShort(s, k, 0)
            [] k = "deleteProtocolFilesAfterDays" -> ReadShort(s, k, 10)
            [] k = "toolBarButtonSize" -> ReadSize(s)
            [] k = "defaultDriver" -> Text(s, k)
  BY DEF ReadUdav
<1>6. \A k \in Flags : ReadUdav(s)[k] = ReadFlag(s, k)
  BY <1>2, <1>3, <1>5
<1>7. /\ ReadUdav(s)["logPath"] = ReadPath(s, "logPath", "./")
      /\ ReadUdav(s)["protocolPath"] = ReadPath(s, "protocolPath", "./")
      /\ ReadUdav(s)["protocolSaveToPath"] = ReadSaveToPath(s)
      /\ ReadUdav(s)["protocolTimer"] = ReadShort(s, "protocolTimer", 0)
  BY <1>2, <1>3, <1>5
<1>8. /\ ReadUdav(s)["deleteProtocolFilesAfterDays"]
           = ReadShort(s, "deleteProtocolFilesAfterDays", 10)
      /\ ReadUdav(s)["toolBarButtonSize"] = ReadSize(s)
      /\ ReadUdav(s)["defaultDriver"] = Text(s, "defaultDriver")
  BY <1>2, <1>3, <1>5
<1> QED BY <1>4, <1>6, <1>7, <1>8

\* What ClientSettings reads besides.
LEMMA ClientRead ==
  ASSUME NEW s
  PROVE  /\ DOMAIN ReadClient(s) = ClientKeys
         /\ \A k \in UdavKeys : ReadClient(s)[k] = ReadUdav(s)[k]
         /\ ReadClient(s)["serverAddress"] = ReadAddress(s)
         /\ ReadClient(s)["serverPort"] = ReadPort(s, "serverPort")
         /\ ReadClient(s)["cacheFiles"] = ReadFlag(s, "cacheFiles")
<1>1. Flags \subseteq AllFlags
  BY FlagsAssumption DEF FlagsAssumption
<1>2. {"serverAddress", "serverPort", "cacheFiles"} \cap UdavKeys = {}
  BY <1>1 DEF AllFlags, UdavKeys, DialogKeys, ProtocolFields
<1>3. UdavKeys \cup {"serverAddress", "serverPort", "cacheFiles"} = ClientKeys
  BY DEF ClientKeys
<1>4. DOMAIN ReadClient(s) = ClientKeys
  BY DEF ReadClient
<1>5. \A k \in ClientKeys :
        ReadClient(s)[k] =
          CASE k = "serverAddress" -> ReadAddress(s)
            [] k = "serverPort" -> ReadPort(s, k)
            [] k = "cacheFiles" -> ReadFlag(s, k)
            [] k \in UdavKeys -> ReadUdav(s)[k]
  BY DEF ReadClient
<1>6. \A k \in UdavKeys : ReadClient(s)[k] = ReadUdav(s)[k]
  BY <1>2, <1>3, <1>5
<1>7. /\ ReadClient(s)["serverAddress"] = ReadAddress(s)
      /\ ReadClient(s)["serverPort"] = ReadPort(s, "serverPort")
      /\ ReadClient(s)["cacheFiles"] = ReadFlag(s, "cacheFiles")
  BY <1>2, <1>3, <1>5
<1> QED BY <1>4, <1>6, <1>7

\* What ServerSettings reads.
LEMMA ServerRead ==
  ASSUME NEW s
  PROVE  /\ DOMAIN ReadServer(s) = ServerKeys
         /\ ReadServer(s)["logPath"] = ReadPath(s, "logPath", "/var/log/udav")
         /\ ReadServer(s)["port"] = ReadPort(s, "port")
         /\ ReadServer(s)["connectCheckingIterval"] = ReadShort(s, "connectCheckingIterval", 10)
         /\ ReadServer(s)["connectLostAfterAttempts"] = ReadAttempts(s)
         /\ ReadServer(s)["sendDataInterval"] = ReadShort(s, "sendDataInterval", 15)
         /\ ReadServer(s)["pathToDrivers"] = ReadPathToDrivers(s)
         /\ ReadServer(s)["clearLogAtStart"] = ReadFlag(s, "clearLogAtStart")
BY DEF ReadServer, ServerKeys

\* The settings that are read are each of their kind.
LEMMA ReadIsOK ==
  ASSUME program \in Programs, NEW s,
         \A k \in (Keys \cap DOMAIN s \cap Numbers) \ {"toolBarButtonSize"} : s[k] \in Int
  PROVE  SettingsOK(ReadSettings(program, s))
<1> DEFINE v == ReadSettings(program, s)
<1>f. Flags \subseteq AllFlags
  BY FlagsAssumption DEF FlagsAssumption
<1>1. CASE program = "udav"
  <2>1. Keys = UdavKeys /\ v = ReadUdav(s)
    BY <1>1 DEF Keys, ReadSettings
  <2> HIDE DEF v
  <2>2. DOMAIN v = Keys
    BY <2>1, UdavRead
  <2>3. FlagsOK(v)
    <3>1. Keys \cap Bools \subseteq Flags
      BY <2>1, <1>f DEF Bools, UdavKeys, DialogKeys, ProtocolFields
    <3> QED BY <3>1, <2>1, UdavRead, FlagRead DEF FlagsOK
  <2>4. \A k \in Keys \cap Shorts : Within(v[k], 0, 65535)
    <3>1. Keys \cap Shorts = {"protocolTimer", "deleteProtocolFilesAfterDays"}
      BY <2>1, <1>f DEF Shorts, UdavKeys, DialogKeys, ProtocolFields, AllFlags
    <3>2. /\ Within(ReadShort(s, "protocolTimer", 0), 0, 65535)
          /\ Within(ReadShort(s, "deleteProtocolFilesAfterDays", 10), 0, 65535)
      <4>1. Within(0, 0, 65535) /\ Within(10, 0, 65535)
        BY DEF Within
      <4> QED BY <4>1, <3>1, ShortRead DEF Numbers
    <3> QED BY <3>1, <3>2, <2>1, UdavRead
  <2>5. v["toolBarButtonSize"] # Unreadable
    BY <2>1, UdavRead DEF ReadSize, IsInt, Unreadable
  <2>6. /\ "serverPort" \notin Keys /\ "port" \notin Keys
        /\ "connectLostAfterAttempts" \notin Keys /\ "serverAddress" \notin Keys
    BY <2>1, <1>f DEF UdavKeys, DialogKeys, ProtocolFields, AllFlags
  <2>7. SettingsOK(v)
    BY <2>2, <2>3, <2>4, <2>5, <2>6 DEF SettingsOK
  <2> QED BY <2>7 DEF v
<1>2. CASE program = "udavc"
  <2>1. Keys = ClientKeys /\ v = ReadClient(s)
    BY <1>2 DEF Keys, ReadSettings
  <2> HIDE DEF v
  <2>u. /\ UdavKeys \subseteq Keys
        /\ \A k \in UdavKeys : v[k] = ReadUdav(s)[k]
    BY <2>1, ClientRead DEF ClientKeys
  <2>2. DOMAIN v = Keys
    BY <2>1, ClientRead
  <2>3. FlagsOK(v)
    <3>1. Keys \cap Bools \subseteq Flags \cup {"cacheFiles"}
      BY <2>1, <1>f DEF Bools, ClientKeys, UdavKeys, DialogKeys, ProtocolFields
    <3>2. Flags \subseteq UdavKeys
      BY DEF UdavKeys, DialogKeys
    <3> QED BY <3>1, <3>2, <2>1, <2>u, UdavRead, ClientRead, FlagRead DEF FlagsOK
  <2>4. \A k \in Keys \cap Shorts : Within(v[k], 0, 65535)
    <3>1. /\ Keys \cap Shorts = {"protocolTimer", "deleteProtocolFilesAfterDays"}
          /\ Keys \cap Shorts \subseteq UdavKeys
      BY <2>1, <1>f DEF Shorts, ClientKeys, UdavKeys, DialogKeys, ProtocolFields, AllFlags
    <3>2. /\ Within(ReadShort(s, "protocolTimer", 0), 0, 65535)
          /\ Within(ReadShort(s, "deleteProtocolFilesAfterDays", 10), 0, 65535)
      <4>1. Within(0, 0, 65535) /\ Within(10, 0, 65535)
        BY DEF Within
      <4> QED BY <4>1, <3>1, ShortRead DEF Numbers
    <3> QED BY <3>1, <3>2, <2>u, UdavRead
  <2>5. v["toolBarButtonSize"] # Unreadable
    <3>1. "toolBarButtonSize" \in UdavKeys
      BY DEF UdavKeys, DialogKeys
    <3> QED BY <3>1, <2>u, UdavRead DEF ReadSize, IsInt, Unreadable
  <2>6. Within(v["serverPort"], 1, 65535)
    <3>1. "serverPort" \in Keys \cap Numbers
      BY <2>1 DEF ClientKeys, Numbers
    <3> QED BY <3>1, <2>1, ClientRead, PortRead
  <2>7. v["serverAddress"] \in Addresses \cup {Empty}
    <3>1. "127.0.0.1" \in Addresses
      BY ChoicesAssumption DEF ChoicesAssumption
    <3>2. CASE Text(s, "serverAddress") \in Addresses
      <4>1. Text(s, "serverAddress") # Empty => Text(s, "serverAddress") = s["serverAddress"]
        BY DEF Text
      <4> QED BY <3>1, <3>2, <4>1, <2>1, ClientRead DEF ReadAddress
    <3>3. CASE Text(s, "serverAddress") \notin Addresses
      BY <3>1, <3>3, <2>1, ClientRead DEF ReadAddress
    <3> QED BY <3>2, <3>3
  <2>8. "port" \notin Keys /\ "connectLostAfterAttempts" \notin Keys
    BY <2>1, <1>f DEF ClientKeys, UdavKeys, DialogKeys, ProtocolFields, AllFlags
  <2>9. SettingsOK(v)
    BY <2>2, <2>3, <2>4, <2>5, <2>6, <2>7, <2>8 DEF SettingsOK
  <2> QED BY <2>9 DEF v
<1>3. CASE program = "udavs"
  <2>1. Keys = ServerKeys /\ v = ReadServer(s)
    BY <1>3 DEF Keys, ReadSettings
  <2> HIDE DEF v
  <2>2. DOMAIN v = Keys
    BY <2>1, ServerRead
  <2>3. FlagsOK(v)
    <3>1. Keys \cap Bools = {"clearLogAtStart"}
      BY <2>1, <1>f DEF Bools, ServerKeys, AllFlags
    <3> QED BY <3>1, <2>1, ServerRead, FlagRead DEF FlagsOK
  <2>4. \A k \in Keys \cap Shorts : Within(v[k], 0, 65535)
    <3>1. Keys \cap Shorts = {"connectCheckingIterval", "sendDataInterval"}
      BY <2>1 DEF Shorts, ServerKeys
    <3>2. /\ Within(ReadShort(s, "connectCheckingIterval", 10), 0, 65535)
          /\ Within(ReadShort(s, "sendDataInterval", 15), 0, 65535)
      <4>1. Within(10, 0, 65535) /\ Within(15, 0, 65535)
        BY DEF Within
      <4> QED BY <4>1, <3>1, ShortRead DEF Numbers
    <3> QED BY <3>1, <3>2, <2>1, ServerRead
  <2>5. Within(v["connectLostAfterAttempts"], 0, 255)
    <3>1. "connectLostAfterAttempts" \in Keys \cap Numbers
      BY <2>1 DEF ServerKeys, Numbers
    <3>2. CASE IsInt(s, "connectLostAfterAttempts")
      <4>1. s["connectLostAfterAttempts"] \in Int
            /\ v["connectLostAfterAttempts"] = s["connectLostAfterAttempts"] % 256
        BY <3>1, <3>2, <2>1, ServerRead DEF ReadAttempts, IsInt
      <4> QED BY <4>1 DEF Within
    <3>3. CASE ~IsInt(s, "connectLostAfterAttempts")
      BY <3>3, <2>1, ServerRead DEF ReadAttempts, Within
    <3> QED BY <3>2, <3>3
  <2>6. Within(v["port"], 1, 65535)
    <3>1. "port" \in Keys \cap Numbers
      BY <2>1 DEF ServerKeys, Numbers
    <3> QED BY <3>1, <2>1, ServerRead, PortRead
  <2>7. /\ "serverPort" \notin Keys /\ "toolBarButtonSize" \notin Keys
        /\ "serverAddress" \notin Keys
    BY <2>1 DEF ServerKeys
  <2>8. SettingsOK(v)
    BY <2>2, <2>3, <2>4, <2>5, <2>6, <2>7 DEF SettingsOK
  <2> QED BY <2>8 DEF v
<1> QED BY <1>1, <1>2, <1>3 DEF Programs

\* A number within its bits is read back as it was saved.
LEMMA ShortBack ==
  ASSUME NEW s, NEW k, NEW default, k \in DOMAIN s, Within(s[k], 0, 65535)
  PROVE  ReadShort(s, k, default) = s[k]
<1>1. s[k] \in Int /\ 0 <= s[k] /\ s[k] < 65536 /\ s[k] # -1
  BY DEF Within
<1>2. s[k] % 65536 = s[k]
  BY <1>1
<1>3. IsInt(s, k)
  BY <1>1 DEF IsInt, Unreadable
<1> QED BY <1>2, <1>3 DEF ReadShort

\* So is a port.
LEMMA PortBack ==
  ASSUME NEW s, NEW k, k \in DOMAIN s, Within(s[k], 1, 65535)
  PROVE  ReadPort(s, k) = s[k]
<1>1. Within(s[k], 0, 65535) /\ s[k] # 0
  BY DEF Within
<1> QED BY <1>1, ShortBack DEF ReadPort

\* So is a flag.
LEMMA FlagBack ==
  ASSUME NEW s, NEW k, k \in DOMAIN s, s[k] \in BOOLEAN
  PROVE  ReadFlag(s, k) = s[k]
BY DEF ReadFlag

\* What UdavSettings saved it reads back, but for an empty path, and with it the path
\* for saving.
LEMMA UdavBack ==
  ASSUME NEW k \in UdavKeys, UdavKeys \subseteq Keys, SettingsOK(settings), StoredTrue,
         k \in {"logPath", "protocolPath"} => settings[k] # Empty,
         k = "protocolSaveToPath" => settings["protocolPath"] # Empty
  PROVE  ReadUdav(stored)[k] = settings[k]
<1>f. Flags \subseteq AllFlags
  BY FlagsAssumption DEF FlagsAssumption
<1>s. \A q \in UdavKeys : q \in DOMAIN stored /\ stored[q] = settings[q] /\ q \in Keys
  BY DEF StoredTrue
<1>1. CASE k \in Flags
  <2>1. settings[k] \in BOOLEAN
    BY <1>1, <1>s DEF SettingsOK, FlagsOK, Bools
  <2> QED BY <1>1, <1>s, <2>1, FlagBack, UdavRead
<1>2. CASE k \in {"logPath", "protocolPath"}
  <2>1. Text(stored, k) = settings[k]
    BY <1>s DEF Text
  <2> QED BY <1>2, <1>s, <2>1, UdavRead DEF ReadPath
<1>3. CASE k = "protocolSaveToPath"
  <2>1. /\ Text(stored, "protocolPath") = settings["protocolPath"]
        /\ Text(stored, k) = settings[k]
    <3>1. "protocolPath" \in UdavKeys
      BY DEF UdavKeys, DialogKeys, ProtocolFields
    <3> QED BY <3>1, <1>s DEF Text
  <2> QED BY <1>3, <2>1, UdavRead DEF ReadSaveToPath
<1>4. CASE k \in {"protocolTimer", "deleteProtocolFilesAfterDays"}
  <2>1. k \in DOMAIN stored /\ Within(stored[k], 0, 65535)
    BY <1>4, <1>s DEF SettingsOK, Shorts
  <2>2. ReadShort(stored, k, 0) = settings[k] /\ ReadShort(stored, k, 10) = settings[k]
    BY <2>1, <1>s, ShortBack
  <2> QED BY <1>4, <2>2, UdavRead
<1>5. CASE k = "toolBarButtonSize"
  <2>1. k \in DOMAIN stored /\ stored[k] = settings[k] /\ settings[k] # Unreadable
    BY <1>5, <1>s DEF SettingsOK
  <2> QED BY <1>5, <2>1, UdavRead DEF ReadSize, IsInt
<1>6. CASE k = "defaultDriver"
  BY <1>6, <1>s, UdavRead DEF Text
<1> QED BY <1>1, <1>2, <1>3, <1>4, <1>5, <1>6 DEF UdavKeys, DialogKeys, ProtocolFields

\* What a program saved it reads back, as far as Settled goes.
LEMMA ReadBack ==
  ASSUME program \in Programs, SettingsOK(settings), StoredTrue, NEW k \in Keys, Settled(k)
  PROVE  ReadSettings(program, stored)[k] = settings[k]
<1>f. Flags \subseteq AllFlags
  BY FlagsAssumption DEF FlagsAssumption
<1>s. \A q \in Keys : q \in DOMAIN stored /\ stored[q] = settings[q]
  BY DEF StoredTrue
<1>p. /\ k \in {"logPath", "protocolPath", "serverAddress"} => settings[k] # Empty
      /\ k = "protocolSaveToPath" => settings["protocolPath"] # Empty
  BY DEF Settled
<1>1. CASE program = "udav"
  <2>1. Keys = UdavKeys /\ ReadSettings(program, stored) = ReadUdav(stored)
    BY <1>1 DEF Keys, ReadSettings
  <2> QED BY <2>1, <1>p, UdavBack
<1>2. CASE program = "udavc"
  <2>1. Keys = ClientKeys /\ ReadSettings(program, stored) = ReadClient(stored)
    BY <1>2 DEF Keys, ReadSettings
  <2>2. CASE k \in UdavKeys
    <3>1. UdavKeys \subseteq Keys
      BY <2>1 DEF ClientKeys
    <3> QED BY <3>1, <2>1, <2>2, <1>p, UdavBack, ClientRead
  <2>3. CASE k = "serverAddress"
    <3>1. stored[k] \in Addresses /\ Text(stored, k) = settings[k] /\ stored[k] = settings[k]
      BY <2>3, <1>s, <1>p DEF SettingsOK, Text
    <3> QED BY <3>1, <2>1, <2>3, <1>p, ClientRead DEF ReadAddress
  <2>4. CASE k = "serverPort"
    <3>1. k \in DOMAIN stored /\ Within(stored[k], 1, 65535) /\ stored[k] = settings[k]
      BY <2>4, <1>s DEF SettingsOK
    <3> QED BY <3>1, <2>1, <2>4, PortBack, ClientRead
  <2>5. CASE k = "cacheFiles"
    <3>1. k \in DOMAIN stored /\ settings[k] \in BOOLEAN /\ stored[k] = settings[k]
      BY <2>5, <1>s DEF SettingsOK, FlagsOK, Bools
    <3> QED BY <3>1, <2>1, <2>5, FlagBack, ClientRead
  <2> QED BY <2>1, <2>2, <2>3, <2>4, <2>5 DEF ClientKeys
<1>3. CASE program = "udavs"
  <2>1. Keys = ServerKeys /\ ReadSettings(program, stored) = ReadServer(stored)
    BY <1>3 DEF Keys, ReadSettings
  <2>2. CASE k = "logPath"
    <3>1. Text(stored, k) = settings[k] /\ stored[k] = settings[k]
      BY <1>s DEF Text
    <3> QED BY <3>1, <2>1, <2>2, <1>p, ServerRead DEF ReadPath
  <2>3. CASE k = "port"
    <3>1. k \in DOMAIN stored /\ Within(stored[k], 1, 65535) /\ stored[k] = settings[k]
      BY <2>3, <1>s DEF SettingsOK
    <3> QED BY <3>1, <2>1, <2>3, PortBack, ServerRead
  <2>4. CASE k \in {"connectCheckingIterval", "sendDataInterval"}
    <3>1. k \in DOMAIN stored /\ Within(stored[k], 0, 65535) /\ stored[k] = settings[k]
      BY <2>4, <1>s DEF SettingsOK, Shorts
    <3>2. ReadShort(stored, k, 10) = settings[k] /\ ReadShort(stored, k, 15) = settings[k]
      BY <3>1, ShortBack
    <3> QED BY <3>2, <2>1, <2>4, ServerRead
  <2>5. CASE k = "connectLostAfterAttempts"
    <3>1. k \in DOMAIN stored /\ Within(stored[k], 0, 255) /\ stored[k] = settings[k]
      BY <2>5, <1>s DEF SettingsOK
    <3>2. stored[k] \in Int /\ 0 <= stored[k] /\ stored[k] < 256 /\ stored[k] # -1
      BY <3>1 DEF Within
    <3>3. stored[k] % 256 = stored[k]
      BY <3>2
    <3>4. ReadAttempts(stored) = stored[k]
      BY <3>1, <3>2, <3>3, <2>5 DEF ReadAttempts, IsInt, Unreadable
    <3> QED BY <3>1, <3>4, <2>1, <2>5, ServerRead
  <2>6. CASE k = "pathToDrivers"
    <3>1. "sendDataInterval" \in Keys
      BY <2>1 DEF ServerKeys
    <3>2. /\ "sendDataInterval" \in DOMAIN stored
          /\ Within(stored["sendDataInterval"], 0, 65535)
      BY <3>1, <1>s DEF SettingsOK, Shorts
    <3>3. IsInt(stored, "sendDataInterval")
      BY <3>2 DEF IsInt, Unreadable, Within
    <3>4. Text(stored, k) = settings[k]
      BY <1>s DEF Text
    <3> QED BY <3>3, <3>4, <2>1, <2>6, ServerRead DEF ReadPathToDrivers
  <2>7. CASE k = "clearLogAtStart"
    <3>1. k \in DOMAIN stored /\ settings[k] \in BOOLEAN /\ stored[k] = settings[k]
      BY <2>7, <1>s DEF SettingsOK, FlagsOK, Bools
    <3> QED BY <3>1, <2>1, <2>7, FlagBack, ServerRead
  <2> QED BY <2>1, <2>2, <2>3, <2>4, <2>5, <2>6, <2>7 DEF ServerKeys
<1> QED BY <1>1, <1>2, <1>3 DEF Programs

\* The keys of the dialog that are no flags.
Others == ProtocolFields \cup {"toolBarButtonSize", "defaultDriver"}

\* The keys of the dialog are the flags and the others.
LEMMA KeysOfDialog ==
  /\ DialogKeys = Flags \cup Others /\ Flags \cap Others = {} /\ "autoConnect" \in Flags
  /\ Flags \cap Numbers = {}
<1>1. Flags \subseteq AllFlags /\ "autoConnect" \in Flags
  BY FlagsAssumption DEF FlagsAssumption
<1>2. Flags \cap Others = {}
  BY <1>1 DEF AllFlags, Others, ProtocolFields
<1>3. Flags \cap Numbers = {}
  BY <1>1 DEF AllFlags, Numbers, Shorts
<1> QED BY <1>1, <1>2, <1>3 DEF DialogKeys, Others

\* What the dialog shows of some settings.
LEMMA IntoDialog ==
  ASSUME NEW v
  PROVE  /\ ReadIntoDialog(v) = [k \in DialogKeys |-> ReadIntoDialog(v)[k]]
         /\ \A k \in Flags \cup {"protocolPath", "protocolSaveToPath"} :
              ReadIntoDialog(v)[k] = v[k]
         /\ ReadIntoDialog(v)["protocolTimer"] = SpinBox(v["protocolTimer"], 10000)
         /\ ReadIntoDialog(v)["deleteProtocolFilesAfterDays"]
              = SpinBox(v["deleteProtocolFilesAfterDays"], 365)
         /\ ReadIntoDialog(v)["toolBarButtonSize"]
              = (IF v["toolBarButtonSize"] \in Sizes THEN v["toolBarButtonSize"] ELSE 75)
         /\ ReadIntoDialog(v)["defaultDriver"]
              = (IF v["autoConnect"] THEN v["defaultDriver"] ELSE Empty)
<1>1. ReadIntoDialog(v) = [k \in DialogKeys |-> ReadIntoDialog(v)[k]]
  BY DEF ReadIntoDialog
<1>2. \A k \in DialogKeys :
        ReadIntoDialog(v)[k] =
          CASE k = "protocolTimer" -> SpinBox(v[k], 10000)
            [] k = "deleteProtocolFilesAfterDays" -> SpinBox(v[k], 365)
            [] k = "toolBarButtonSize" -> IF v[k] \in Sizes THEN v[k] ELSE 75
            [] k = "defaultDriver" -> IF v["autoConnect"] THEN v[k] ELSE Empty
            [] OTHER -> v[k]
  BY DEF ReadIntoDialog
<1>3. Others = {"protocolPath", "protocolSaveToPath", "protocolTimer",
                "deleteProtocolFilesAfterDays", "toolBarButtonSize", "defaultDriver"}
  BY DEF Others, ProtocolFields
<1>4. \A k \in Flags \cup {"protocolPath", "protocolSaveToPath"} : ReadIntoDialog(v)[k] = v[k]
  <2> SUFFICES ASSUME NEW k \in Flags \cup {"protocolPath", "protocolSaveToPath"}
               PROVE  ReadIntoDialog(v)[k] = v[k]
    OBVIOUS
  <2>1. /\ k \in DialogKeys /\ k # "protocolTimer" /\ k # "deleteProtocolFilesAfterDays"
        /\ k # "toolBarButtonSize" /\ k # "defaultDriver"
    BY <1>3, KeysOfDialog
  <2> QED BY <1>2, <2>1
<1>5. /\ ReadIntoDialog(v)["protocolTimer"] = SpinBox(v["protocolTimer"], 10000)
      /\ ReadIntoDialog(v)["deleteProtocolFilesAfterDays"]
           = SpinBox(v["deleteProtocolFilesAfterDays"], 365)
  BY <1>2, <1>3, KeysOfDialog
<1>6. /\ ReadIntoDialog(v)["toolBarButtonSize"]
           = (IF v["toolBarButtonSize"] \in Sizes THEN v["toolBarButtonSize"] ELSE 75)
      /\ ReadIntoDialog(v)["defaultDriver"]
           = (IF v["autoConnect"] THEN v["defaultDriver"] ELSE Empty)
  BY <1>2, <1>3, KeysOfDialog
<1> QED BY <1>1, <1>4, <1>5, <1>6

\* The dialog shows the settings of udav as its widgets can.
LEMMA SettingsShown ==
  ASSUME program = "udav", SettingsOK(settings)
  PROVE  WidgetsOK(ReadIntoDialog(settings))
<1> DEFINE w == ReadIntoDialog(settings)
<1>1. Flags \subseteq Keys /\ {"protocolTimer", "deleteProtocolFilesAfterDays"} \subseteq Keys
  BY KeysOfDialog DEF Keys, UdavKeys, Others, ProtocolFields
<1>2. w = [k \in DialogKeys |-> w[k]]
  BY IntoDialog
<1>3. WidgetFlagsOK(w)
  BY <1>1, IntoDialog DEF WidgetFlagsOK, SettingsOK, FlagsOK, Bools
<1>4. /\ Within(w["protocolTimer"], 0, 10000)
      /\ Within(w["deleteProtocolFilesAfterDays"], 0, 365)
  <2>1. /\ Within(settings["protocolTimer"], 0, 65535)
        /\ Within(settings["deleteProtocolFilesAfterDays"], 0, 65535)
    BY <1>1 DEF SettingsOK, Shorts
  <2>2. \A n, m : Within(n, 0, 65535) /\ Within(m, 0, 65535) => Within(SpinBox(n, m), 0, m)
    BY DEF Within, SpinBox
  <2>3. Within(10000, 0, 65535) /\ Within(365, 0, 65535)
    BY DEF Within
  <2> QED BY <2>1, <2>2, <2>3, IntoDialog
<1>5. w["toolBarButtonSize"] \in Sizes
  BY IntoDialog DEF Sizes
<1>6. w["autoConnect"] \/ w["defaultDriver"] = Empty
  BY IntoDialog, KeysOfDialog
<1> HIDE DEF w
<1>7. WidgetsOK(w)
  BY <1>2, <1>3, <1>4, <1>5, <1>6 DEF WidgetsOK
<1> QED BY <1>7 DEF w

\* What the widgets show is shown again when the dialog is filled with it.
LEMMA ShownAgain ==
  ASSUME NEW w, WidgetsOK(w), NEW v, \A k \in DialogKeys : v[k] = w[k], NEW k \in DialogKeys
  PROVE  ReadIntoDialog(v)[k] = w[k]
<1>1. \A n : \A m \in Int : Within(n, 0, m) => SpinBox(n, m) = n
  BY DEF Within, SpinBox
<1>2. /\ v["protocolTimer"] = w["protocolTimer"] /\ Within(w["protocolTimer"], 0, 10000)
      /\ v["deleteProtocolFilesAfterDays"] = w["deleteProtocolFilesAfterDays"]
      /\ Within(w["deleteProtocolFilesAfterDays"], 0, 365)
      /\ v["toolBarButtonSize"] = w["toolBarButtonSize"] /\ w["toolBarButtonSize"] \in Sizes
      /\ v["autoConnect"] = w["autoConnect"] /\ v["defaultDriver"] = w["defaultDriver"]
      /\ w["autoConnect"] \/ w["defaultDriver"] = Empty
  BY KeysOfDialog DEF WidgetsOK, Others, ProtocolFields
<1>3. CASE k \in Flags \cup {"protocolPath", "protocolSaveToPath"}
  BY <1>3, IntoDialog
<1>4. CASE k \in {"protocolTimer", "deleteProtocolFilesAfterDays"}
  BY <1>1, <1>2, <1>4, IntoDialog
<1>5. CASE k = "toolBarButtonSize"
  BY <1>2, <1>5, IntoDialog
<1>6. CASE k = "defaultDriver"
  BY <1>2, <1>6, IntoDialog
<1> QED BY <1>3, <1>4, <1>5, <1>6, KeysOfDialog DEF Others, ProtocolFields

\* The user works a check box.
LEMMA Toggled ==
  ASSUME DialogOK, shown # Closed, NEW k \in Flags, ToggleFlag(k)
  PROVE  /\ WidgetsOK(shown')
         /\ \A q \in DialogKeys \ edited' : shown'[q] = ReadIntoDialog(settings)[q]
<1>1. /\ WidgetsOK(shown) /\ \A q \in DialogKeys \ edited : shown[q] = ReadIntoDialog(settings)[q]
      /\ shown = [q \in DialogKeys |-> shown[q]]
  BY DEF DialogOK, WidgetsOK
<1>k. /\ k \in DialogKeys /\ k \notin Others /\ "defaultDriver" \in DialogKeys
      /\ {"protocolTimer", "deleteProtocolFilesAfterDays", "toolBarButtonSize",
          "defaultDriver"} \subseteq Others
      /\ "autoConnect" \in DialogKeys
  BY KeysOfDialog DEF Others, ProtocolFields
<1>2. CASE k = "autoConnect" /\ shown[k]
  <2>1. /\ shown' = [shown EXCEPT ![k] = FALSE, !["defaultDriver"] = Empty]
        /\ edited' = edited \cup {k, "defaultDriver"}
    BY <1>2 DEF ToggleFlag
  <2>2. shown' = [q \in DialogKeys |-> IF q = "defaultDriver" THEN Empty
                                       ELSE IF q = k THEN FALSE ELSE shown[q]]
    BY <1>1, <1>k, <2>1
  <2>3. WidgetFlagsOK(shown')
    <3>1. \A q \in Flags : shown[q] \in BOOLEAN
      BY <1>1 DEF WidgetFlagsOK, WidgetsOK
    <3>2. \A q \in Flags : shown'[q] = IF q = k THEN FALSE ELSE shown[q]
      BY <2>2, <1>k, KeysOfDialog
    <3>3. ASSUME NEW q \in Flags PROVE shown'[q] \in BOOLEAN
      <4>1. CASE q = k
        <5>1. shown'[q] = FALSE
          BY <4>1, <3>2
        <5> QED BY <5>1
      <4>2. CASE q # k
        <5>1. shown'[q] = shown[q]
          BY <4>2, <3>2
        <5> QED BY <5>1, <3>1
      <4> QED BY <4>1, <4>2
    <3> QED BY <3>3 DEF WidgetFlagsOK
  <2>4. /\ shown' = [q \in DialogKeys |-> shown'[q]]
        /\ shown'["protocolTimer"] = shown["protocolTimer"]
        /\ shown'["deleteProtocolFilesAfterDays"] = shown["deleteProtocolFilesAfterDays"]
        /\ shown'["toolBarButtonSize"] = shown["toolBarButtonSize"]
        /\ shown'["defaultDriver"] = Empty
    BY <2>2, <1>k, KeysOfDialog
  <2>5. WidgetsOK(shown')
    BY <1>1, <2>3, <2>4 DEF WidgetsOK
  <2>6. \A q \in DialogKeys \ edited' : shown'[q] = shown[q]
    BY <2>1, <2>2
  <2> QED BY <1>1, <2>1, <2>5, <2>6
<1>3. CASE ~(k = "autoConnect" /\ shown[k])
  <2>1. shown' = [shown EXCEPT ![k] = ~shown[k]] /\ edited' = edited \cup {k}
    BY <1>3 DEF ToggleFlag
  <2>2. shown' = [q \in DialogKeys |-> IF q = k THEN ~shown[k] ELSE shown[q]]
    BY <1>1, <1>k, <2>1
  <2>3. WidgetFlagsOK(shown')
    <3>1. \A q \in Flags : shown[q] \in BOOLEAN
      BY <1>1 DEF WidgetFlagsOK, WidgetsOK
    <3>2. \A q \in Flags : shown'[q] = IF q = k THEN ~shown[k] ELSE shown[q]
      BY <2>2, KeysOfDialog
    <3>3. ASSUME NEW q \in Flags PROVE shown'[q] \in BOOLEAN
      <4>1. CASE q = k
        <5>1. shown'[q] = ~shown[k]
          BY <4>1, <3>2
        <5>2. (~shown[k]) \in BOOLEAN
          OBVIOUS
        <5> QED BY <5>1, <5>2
      <4>2. CASE q # k
        <5>1. shown'[q] = shown[q]
          BY <4>2, <3>2
        <5> QED BY <5>1, <3>1
      <4> QED BY <4>1, <4>2
    <3> QED BY <3>3 DEF WidgetFlagsOK
  <2>4. /\ shown' = [q \in DialogKeys |-> shown'[q]]
        /\ shown'["protocolTimer"] = shown["protocolTimer"]
        /\ shown'["deleteProtocolFilesAfterDays"] = shown["deleteProtocolFilesAfterDays"]
        /\ shown'["toolBarButtonSize"] = shown["toolBarButtonSize"]
        /\ shown'["defaultDriver"] = shown["defaultDriver"]
    BY <2>2, <1>k, KeysOfDialog
  <2>5. shown'["autoConnect"] \/ shown'["defaultDriver"] = Empty
    <3>1. CASE k = "autoConnect"
      <4>1. shown'["autoConnect"] = ~shown["autoConnect"] /\ ~shown["autoConnect"]
        BY <1>3, <3>1, <2>2, <1>k
      <4> QED BY <4>1
    <3>2. CASE k # "autoConnect"
      <4>1. shown'["autoConnect"] = shown["autoConnect"]
        BY <3>2, <2>2, <1>k
      <4> QED BY <4>1, <2>4, <1>1 DEF WidgetsOK
    <3> QED BY <3>1, <3>2
  <2>6. WidgetsOK(shown')
    BY <1>1, <2>3, <2>4, <2>5 DEF WidgetsOK
  <2>7. \A q \in DialogKeys \ edited' : shown'[q] = shown[q]
    BY <2>1, <2>2
  <2> QED BY <1>1, <2>1, <2>6, <2>7
<1> QED BY <1>2, <1>3

\* The user works another widget, within what it offers.
LEMMA FieldEdited ==
  ASSUME DialogOK, shown # Closed, NEW k \in DialogKeys, NEW v \in Offers(k), EditField(k, v)
  PROVE  /\ WidgetsOK(shown')
         /\ \A q \in DialogKeys \ edited' : shown'[q] = ReadIntoDialog(settings)[q]
<1>1. /\ WidgetsOK(shown) /\ \A q \in DialogKeys \ edited : shown[q] = ReadIntoDialog(settings)[q]
      /\ shown = [q \in DialogKeys |-> shown[q]]
  BY DEF DialogOK, WidgetsOK
<1>2. shown' = [shown EXCEPT ![k] = v] /\ edited' = edited \cup {k}
  BY DEF EditField
<1>3. shown' = [q \in DialogKeys |-> IF q = k THEN v ELSE shown[q]]
  BY <1>1, <1>2
<1>k. /\ {"protocolTimer", "deleteProtocolFilesAfterDays", "toolBarButtonSize",
          "defaultDriver"} \subseteq DialogKeys
      /\ "autoConnect" \in DialogKeys
  BY KeysOfDialog DEF Others, ProtocolFields
<1>4. /\ k \notin Flags /\ k # "defaultDriver" /\ k # "autoConnect"
      /\ k = "protocolTimer" => Within(v, 0, 10000)
      /\ k = "deleteProtocolFilesAfterDays" => Within(v, 0, 365)
      /\ k = "toolBarButtonSize" => v \in Sizes
  <2>1. k \in {"protocolPath", "protocolSaveToPath", "protocolTimer",
               "deleteProtocolFilesAfterDays", "toolBarButtonSize"}
    <3>1. CASE k \notin {"protocolPath", "protocolSaveToPath", "protocolTimer",
                         "deleteProtocolFilesAfterDays", "toolBarButtonSize"}
      <4>1. Offers(k) = {}
        BY <3>1 DEF Offers
      <4> QED BY <4>1
    <3> QED BY <3>1
  <2>2. k \in Others /\ k \notin Flags /\ k # "defaultDriver" /\ k # "autoConnect"
    BY <2>1, KeysOfDialog DEF Others, ProtocolFields
  <2>3. k = "protocolTimer" => v \in Seconds
    BY DEF Offers
  <2>4. k = "deleteProtocolFilesAfterDays" => v \in Days
    BY DEF Offers
  <2>5. k = "toolBarButtonSize" => v \in Sizes
    BY DEF Offers
  <2>6. \A n \in Seconds : Within(n, 0, 10000)
    BY ChoicesAssumption DEF ChoicesAssumption, Within
  <2>7. \A n \in Days : Within(n, 0, 365)
    BY ChoicesAssumption DEF ChoicesAssumption, Within
  <2> QED BY <2>2, <2>3, <2>4, <2>5, <2>6, <2>7
<1>5. WidgetFlagsOK(shown')
  BY <1>1, <1>3, <1>4, KeysOfDialog DEF WidgetFlagsOK, WidgetsOK
<1>6. /\ shown' = [q \in DialogKeys |-> shown'[q]]
      /\ shown'["protocolTimer"] = shown["protocolTimer"] \/ k = "protocolTimer"
      /\ \/ shown'["deleteProtocolFilesAfterDays"] = shown["deleteProtocolFilesAfterDays"]
         \/ k = "deleteProtocolFilesAfterDays"
      /\ shown'["toolBarButtonSize"] = shown["toolBarButtonSize"] \/ k = "toolBarButtonSize"
      /\ shown'["defaultDriver"] = shown["defaultDriver"]
      /\ shown'["autoConnect"] = shown["autoConnect"]
      /\ shown'[k] = v
  BY <1>3, <1>4, <1>k
<1>7. /\ Within(shown'["protocolTimer"], 0, 10000)
      /\ Within(shown'["deleteProtocolFilesAfterDays"], 0, 365)
      /\ shown'["toolBarButtonSize"] \in Sizes
      /\ shown'["autoConnect"] \/ shown'["defaultDriver"] = Empty
  BY <1>1, <1>4, <1>6 DEF WidgetsOK
<1>8. WidgetsOK(shown')
  BY <1>5, <1>6, <1>7 DEF WidgetsOK
<1>9. \A q \in DialogKeys \ edited' : shown'[q] = shown[q]
  BY <1>2, <1>3
<1> QED BY <1>1, <1>2, <1>8, <1>9

\* What is written is each of its kind again.
LEMMA WrittenOK ==
  ASSUME program = "udav", SettingsOK(settings), WidgetsOK(shown)
  PROVE  SettingsOK(Written)
<1>1. /\ DOMAIN Written = Keys /\ DialogKeys \subseteq Keys /\ Keys = UdavKeys
      /\ \A k \in Keys : Written[k] = IF k \in DialogKeys THEN shown[k] ELSE settings[k]
  BY DEF Written, Keys, UdavKeys
<1>2. Keys = DialogKeys \cup {"logPath"}
  BY <1>1 DEF UdavKeys
<1>3. /\ "serverPort" \notin Keys /\ "port" \notin Keys
      /\ "connectLostAfterAttempts" \notin Keys /\ "serverAddress" \notin Keys
  <2>1. Flags \subseteq AllFlags
    BY FlagsAssumption DEF FlagsAssumption
  <2> QED BY <2>1, <1>2 DEF DialogKeys, ProtocolFields, AllFlags
<1>4. FlagsOK(Written)
  <2> SUFFICES ASSUME NEW k \in Keys \cap Bools PROVE Written[k] \in BOOLEAN
    BY DEF FlagsOK
  <2>1. k \in Flags
    BY <1>2 DEF Bools, DialogKeys, ProtocolFields
  <2>2. Written[k] = shown[k]
    BY <2>1, <1>1, KeysOfDialog
  <2>3. shown[k] \in BOOLEAN
    BY <2>1 DEF WidgetsOK, WidgetFlagsOK
  <2> QED BY <2>2, <2>3
<1>5. \A k \in Keys \cap Shorts : Within(Written[k], 0, 65535)
  <2> SUFFICES ASSUME NEW k \in Keys \cap Shorts PROVE Within(Written[k], 0, 65535)
    OBVIOUS
  <2>1. k \in {"protocolTimer", "deleteProtocolFilesAfterDays"}
    <3>1. k \notin Flags /\ k \in DialogKeys
      BY <1>2, KeysOfDialog DEF Numbers, Shorts
    <3> QED BY <3>1 DEF DialogKeys, ProtocolFields, Shorts
  <2>2. Written[k] = shown[k]
    BY <2>1, <1>1, KeysOfDialog DEF Others, ProtocolFields
  <2>3. Within(shown[k], 0, 10000) \/ Within(shown[k], 0, 365)
    BY <2>1 DEF WidgetsOK
  <2>4. \A n : Within(n, 0, 10000) \/ Within(n, 0, 365) => Within(n, 0, 65535)
    BY DEF Within
  <2> QED BY <2>2, <2>3, <2>4
<1>6. Written["toolBarButtonSize"] # Unreadable
  <2>1. Written["toolBarButtonSize"] = shown["toolBarButtonSize"]
    BY <1>1, KeysOfDialog DEF Others
  <2>2. shown["toolBarButtonSize"] \in Sizes
    BY DEF WidgetsOK
  <2> QED BY <2>1, <2>2 DEF Sizes, Unreadable
<1> QED BY <1>1, <1>3, <1>4, <1>5, <1>6 DEF SettingsOK

\* What nobody worked is written as it was, as far as Settled goes.
LEMMA WrittenSame ==
  ASSUME program = "udav", SettingsOK(settings), DialogOK, shown # Closed,
         NEW k \in Keys, k \notin edited, Settled(k)
  PROVE  Written[k] = settings[k]
<1>1. CASE k \notin DialogKeys
  BY <1>1 DEF Written
<1>2. CASE k \in DialogKeys
  <2>1. Written[k] = ReadIntoDialog(settings)[k]
    BY <1>2 DEF Written, DialogOK
  <2>2. CASE k \in Flags \cup {"protocolPath", "protocolSaveToPath"}
    BY <2>1, <2>2, IntoDialog
  <2>3. CASE k = "protocolTimer"
    <3>1. settings[k] <= 10000
      BY <2>3 DEF Settled
    <3>2. settings[k] \in Int
      BY <2>3 DEF SettingsOK, Shorts, Within
    <3>3. SpinBox(settings[k], 10000) = settings[k]
      BY <3>1, <3>2 DEF SpinBox
    <3> QED BY <3>3, <2>1, <2>3, IntoDialog
  <2>4. CASE k = "deleteProtocolFilesAfterDays"
    <3>1. settings[k] <= 365
      BY <2>4 DEF Settled
    <3>2. settings[k] \in Int
      BY <2>4 DEF SettingsOK, Shorts, Within
    <3>3. SpinBox(settings[k], 365) = settings[k]
      BY <3>1, <3>2 DEF SpinBox
    <3> QED BY <3>3, <2>1, <2>4, IntoDialog
  <2>5. CASE k = "toolBarButtonSize"
    <3>1. settings[k] \in Sizes
      BY <2>5 DEF Settled
    <3> QED BY <3>1, <2>1, <2>5, IntoDialog
  <2>6. CASE k = "defaultDriver"
    <3>1. settings["autoConnect"]
      BY <2>6 DEF Settled
    <3> QED BY <3>1, <2>1, <2>6, IntoDialog
  <2> QED BY <1>2, <2>2, <2>3, <2>4, <2>5, <2>6, KeysOfDialog DEF Others, ProtocolFields
<1> QED BY <1>1, <1>2

\* save() keeps every setting.
LEMMA Saved ==
  ASSUME NEW s, NEW v, DOMAIN v = Keys
  PROVE  \A k \in Keys : k \in DOMAIN Save(s, v) /\ Save(s, v)[k] = v[k]
BY DEF Save

\* The kinds of the settings do not depend on when they are looked at.
LEMMA SettingsLater ==
  ASSUME UNCHANGED program
  PROVE  /\ Keys' = Keys
         /\ SettingsOK(settings') => SettingsOK(settings)'
<1>1. Keys' = Keys
  BY DEF Keys
<1>2. FlagsOK(settings') => FlagsOK(settings)'
  BY <1>1 DEF FlagsOK
<1> QED BY <1>1, <1>2 DEF SettingsOK

\* What a step may do to the settings.
OnlyByUser == \A k \in Keys : settings'[k] # settings[k] => k \in edited \/ ~Settled(k)

\* The dialog opens with the settings as they are, and writes what it shows.
LEMMA DialogKeepsSaved ==
  ASSUME SavedInv, main = "open", UNCHANGED <<program, main>>, EditSettings \/ DialogStep
  PROVE  SavedInv' /\ OnlyByUser
<1>1. /\ program = "udav" /\ program \in Programs /\ SettingsOK(settings) /\ StoredTrue
      /\ DialogOK
  BY DEF SavedInv
<1>2. Keys' = Keys /\ (SettingsOK(settings') => SettingsOK(settings)')
  BY SettingsLater
<1>3. ASSUME UNCHANGED <<stored, settings>>, shown' # Closed => WidgetsOK(shown'),
             shown' # Closed =>
               \A k \in DialogKeys \ edited' : shown'[k] = ReadIntoDialog(settings)[k]
      PROVE  SavedInv' /\ OnlyByUser
  <2>1. SettingsOK(settings)' /\ StoredTrue'
    BY <1>1, <1>2, <1>3 DEF StoredTrue
  <2>2. DialogOK'
    <3>1. ReadIntoDialog(settings)' = ReadIntoDialog(settings)
      BY <1>3
    <3> QED BY <1>1, <1>3, <3>1 DEF DialogOK
  <2>3. OnlyByUser
    BY <1>3 DEF OnlyByUser
  <2> QED BY <1>1, <2>1, <2>2, <2>3 DEF SavedInv
<1>4. ASSUME shown # Closed, WriteSettings, shown' # Closed => UNCHANGED shown
      PROVE  SavedInv' /\ OnlyByUser
  <2>1. settings' = Written /\ stored' = Save(stored, Written) /\ WidgetsOK(shown)
    BY <1>1, <1>4 DEF WriteSettings, DialogOK
  <2>2. SettingsOK(settings)'
    <3>1. SettingsOK(Written)
      BY <1>1, <2>1, WrittenOK
    <3> QED BY <3>1, <2>1, <1>2
  <2>3. StoredTrue'
    <3>1. DOMAIN Written = Keys
      BY DEF Written
    <3>2. \A k \in Keys : k \in DOMAIN stored' /\ stored'[k] = settings'[k]
      BY <3>1, <2>1, Saved
    <3> QED BY <3>2, <1>2 DEF StoredTrue
  <2>4. DialogOK'
    <3>1. CASE shown' = Closed
      BY <3>1 DEF DialogOK
    <3>2. CASE shown' = shown
      <4>1. \A k \in DialogKeys : Written[k] = shown[k]
        BY <1>1 DEF Written, Keys, UdavKeys
      <4>2. \A k \in DialogKeys : ReadIntoDialog(Written)[k] = shown[k]
        BY <2>1, <4>1, ShownAgain
      <4>3. \A k \in DialogKeys : ReadIntoDialog(settings)'[k] = shown'[k]
        BY <2>1, <3>2, <4>2
      <4>4. WidgetsOK(shown)'
        BY <2>1, <3>2 DEF WidgetsOK, WidgetFlagsOK
      <4> QED BY <1>1, <4>3, <4>4 DEF DialogOK
    <3> QED BY <1>4, <3>1, <3>2
  <2>5. OnlyByUser
    <3> SUFFICES ASSUME NEW k \in Keys, k \notin edited, Settled(k)
                 PROVE  settings'[k] = settings[k]
      BY DEF OnlyByUser
    <3> QED BY <1>1, <1>4, <2>1, WrittenSame
  <2> QED BY <1>1, <2>2, <2>3, <2>4, <2>5 DEF SavedInv
<1>5. CASE EditSettings
  <2>1. /\ UNCHANGED <<stored, settings>> /\ edited' = {}
        /\ shown' = ReadIntoDialog(settings)
    BY <1>5 DEF EditSettings
  <2> QED BY <1>1, <1>3, <2>1, SettingsShown
<1>6. ASSUME NEW k \in Flags, ToggleFlag(k) PROVE SavedInv' /\ OnlyByUser
  <2>1. shown # Closed /\ UNCHANGED <<stored, settings>>
    BY <1>6 DEF ToggleFlag, MayEdit
  <2> QED BY <1>1, <1>3, <1>6, <2>1, Toggled
<1>7. ASSUME NEW k \in DialogKeys, NEW v \in Offers(k), EditField(k, v)
      PROVE  SavedInv' /\ OnlyByUser
  <2>1. shown # Closed /\ UNCHANGED <<stored, settings>>
    BY <1>7 DEF EditField, MayEdit
  <2> QED BY <1>1, <1>3, <1>7, <2>1, FieldEdited
<1>8. CASE Apply
  BY <1>4, <1>8 DEF Apply
<1>9. CASE Accept
  BY <1>4, <1>9 DEF Accept
<1>10. CASE Reject
  BY <1>3, <1>10 DEF Reject
<1> QED BY <1>5, <1>6, <1>7, <1>8, <1>9, <1>10 DEF DialogStep

\* Every step keeps what is saved, and changes no setting that the user has not.
LEMMA SavedKept ==
  ASSUME SavedInv, [Next]_vars
  PROVE  SavedInv' /\ OnlyByUser
<1>1. /\ program \in Programs /\ SettingsOK(settings) /\ StoredTrue /\ DialogOK
      /\ main = "open" => program = "udav"
  BY DEF SavedInv
<1>2. CASE UNCHANGED settingsVars /\ (main' = "open" => main = "open")
  <2>1. UNCHANGED <<program, stored, settings, shown, edited>>
    BY <1>2 DEF settingsVars
  <2>2. Keys' = Keys /\ SettingsOK(settings)'
    BY <1>1, <2>1, SettingsLater
  <2>3. StoredTrue'
    BY <1>1, <2>1, <2>2 DEF StoredTrue
  <2>4. ReadIntoDialog(settings)' = ReadIntoDialog(settings)
    BY <2>1
  <2>5. DialogOK'
    BY <1>1, <2>1, <2>4 DEF DialogOK, WidgetsOK, WidgetFlagsOK
  <2>6. OnlyByUser
    BY <2>1 DEF OnlyByUser
  <2> QED BY <1>1, <1>2, <2>1, <2>2, <2>3, <2>5, <2>6 DEF SavedInv
<1>3. CASE SettingsNext
  BY <1>3, DialogKeepsSaved DEF SettingsNext, mainVars
<1>4. CASE CloseMain
  <2>1. /\ UNCHANGED <<program, settings, shown, edited>> /\ main' = "closed" /\ main = "open"
        /\ WriteGeometry
    BY <1>4 DEF CloseMain
  <2>2. Keys' = Keys /\ SettingsOK(settings)'
    BY <1>1, <2>1, SettingsLater
  <2>3. \A k \in Keys : k \in DOMAIN stored' /\ stored'[k] = stored[k]
    <3>1. "geometry" \notin Keys
      <4>1. Flags \subseteq AllFlags /\ Keys = UdavKeys
        BY <1>1, <2>1, FlagsAssumption DEF FlagsAssumption, Keys
      <4> QED BY <4>1 DEF UdavKeys, DialogKeys, ProtocolFields, AllFlags
    <3>2. \A k \in Keys : k \in DOMAIN stored
      BY <1>1 DEF StoredTrue
    <3> QED BY <2>1, <3>1, <3>2 DEF WriteGeometry
  <2>4. StoredTrue'
    BY <1>1, <2>1, <2>2, <2>3 DEF StoredTrue
  <2>5. ReadIntoDialog(settings)' = ReadIntoDialog(settings)
    BY <2>1
  <2>6. DialogOK'
    BY <1>1, <2>1, <2>5 DEF DialogOK, WidgetsOK, WidgetFlagsOK
  <2>7. OnlyByUser
    BY <2>1 DEF OnlyByUser
  <2> QED BY <1>1, <2>1, <2>2, <2>4, <2>6, <2>7 DEF SavedInv
<1>5. CASE StartAgain
  <2> DEFINE v == ReadSettings(program, stored)
  <2>1. /\ settings' = v /\ stored' = Save(stored, v) /\ shown' = Closed /\ UNCHANGED program
        /\ main' = MainOf(program)
    BY <1>5 DEF StartAgain, RestartSettings
  <2>2. SettingsOK(v)
    <3>1. \A k \in (Keys \cap DOMAIN stored \cap Numbers) \ {"toolBarButtonSize"} :
            stored[k] \in Int
      <4> SUFFICES ASSUME NEW k \in Keys, k \in Numbers, k # "toolBarButtonSize"
                   PROVE  settings[k] \in Int
        BY <1>1 DEF StoredTrue
      <4> QED BY <1>1 DEF SettingsOK, Numbers, Within
    <3> QED BY <1>1, <3>1, ReadIsOK
  <2>3. Keys' = Keys /\ SettingsOK(settings)'
    BY <2>1, <2>2, SettingsLater
  <2>4. StoredTrue'
    <3>1. DOMAIN v = Keys
      BY <2>2 DEF SettingsOK
    <3>2. \A k \in Keys : k \in DOMAIN stored' /\ stored'[k] = settings'[k]
      BY <3>1, <2>1, Saved
    <3> QED BY <3>2, <2>3 DEF StoredTrue
  <2>5. DialogOK'
    BY <2>1 DEF DialogOK
  <2>6. OnlyByUser
    BY <1>1, <2>1, ReadBack DEF OnlyByUser
  <2>7. main' = "open" => program' = "udav"
    BY <2>1 DEF MainOf
  <2> QED BY <1>1, <2>1, <2>3, <2>4, <2>5, <2>6, <2>7 DEF SavedInv
<1>6. PanelNext \/ MessageNext \/ MessageAstray \/ ConnectToServer \/ EndOfMain \/ UNCHANGED vars
        => UNCHANGED settingsVars /\ (main' = "open" => main = "open")
  BY DEF PanelNext, MessageNext, MessageAstray, ConnectToServer, EndOfMain, vars, mainVars
<1> QED BY <1>2, <1>3, <1>4, <1>5, <1>6 DEF Next, MainNext

\* No step changes a setting but the saving of a widget that the user worked, whatever
\* was found in QSettings, through any dialogs, ends, crashes and restarts.
THEOREM SettingsAreKept == Spec => OnlyUserChanges
<1>1. Init => SavedInv
  <2> SUFFICES ASSUME Init PROVE SavedInv
    OBVIOUS
  <2>1. PICK p \in DOMAIN Found :
          \E found \in Found[p] : SettingsInit(p, found) /\ main = MainOf(p)
    BY DEF Init
  <2>p. PICK found \in Found[p] : SettingsInit(p, found) /\ main = MainOf(p)
    BY <2>1
  <2> DEFINE v == ReadSettings(program, found)
  <2>2. /\ program = p /\ program \in Programs
        /\ settings = v /\ stored = Save(found, v) /\ shown = Closed
    BY <2>p, FoundAssumption DEF SettingsInit, FoundAssumption
  <2>3. SettingsOK(v)
    <3>1. \A k \in DOMAIN found \cap Numbers : found[k] \in Int
      BY FoundAssumption DEF FoundAssumption
    <3> QED BY <2>2, <3>1, ReadIsOK
  <2>4. DOMAIN v = Keys
    BY <2>3 DEF SettingsOK
  <2>5. StoredTrue
    BY <2>2, <2>4, Saved DEF StoredTrue
  <2>6. main = "open" => program = "udav"
    BY <2>p, <2>2 DEF MainOf
  <2> QED BY <2>2, <2>3, <2>5, <2>6 DEF SavedInv, DialogOK
<1>2. SavedInv /\ [Next]_vars => SavedInv' /\ OnlyByUser
  BY SavedKept
<1>3. [OnlyByUser]_vars <=> [\A k \in Keys : settings'[k] # settings[k]
                               => k \in edited \/ ~Settled(k)]_vars
  BY DEF OnlyByUser
<1>4. Spec => [][OnlyByUser]_vars
  BY <1>1, <1>2, PTL DEF Spec
<1> QED BY <1>3, <1>4, PTL DEF OnlyUserChanges

=============================================================================
