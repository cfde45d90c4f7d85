---------------------------- MODULE ControlPanel ----------------------------
(***************************************************************************)
(* UDAV/gui/equipment/equipment_control_panel.cpp and the cells, once the  *)
(* description is read: values of signals shown by the cells, knobs that a *)
(* signal enables, buttons and edits that the user works, windows that the *)
(* user closes. signalValueChanged() is a public slot; whatever shows the  *)
(* panel calls it. What a cell emits goes nowhere: the reader connects     *)
(* controlSignalChanged(Drivers::SignalID, QVariant), and the cells have   *)
(* controlSignalChanged(udav_drivers::SignalID, QVariant).                 *)
(***************************************************************************)
EXTENDS EquipmentUi

CONSTANTS
  Reports      \* the signals that may be reported to the panel

\* A SignalID has sixteen bits.
ReportsAssumption == \A id \in Reports : id \in Nat /\ id < 65536
ASSUME ReportsAssumption

VARIABLES
  reported,    \* history: the number last reported of each signal
  gone,        \* the pages whose window the user closed; Qt has deleted them
  crashed,     \* a deleted cell was used
  asking       \* the question of a button that is open, and what a yes makes of it

panelVars == <<readVars, reported, gone, crashed, asking>>

\* A question is modal: the user does nothing else, the rest goes on.
NoQuestion == [cell |-> NoCell, to |-> FALSE]
UserIsFree == ~reading /\ asking = NoQuestion

\* What was on a page of its own window is deleted with the window;
\* controlWindowsArray_ and the maps keep their pointers.
OnPage(c, p) == LET at == layouts[p].at
                IN  at < cells[c].at /\ cells[c].at < EndOf(doc, at)
Deleted(c) == \E p \in gone : OnPage(c, p)

CloseControlWindow(p) ==
  /\ UserIsFree /\ p \in ToSet(windows) \ gone
  /\ gone' = gone \cup {p}
  /\ UNCHANGED <<readVars, reported, crashed, asking>>

-----------------------------------------------------------------------------
(* Values from the equipment                                               *)

ValueTypes == {"Boolean", "Integer", "Real", "Time"}

\* Mutation: a knob is never disabled again.
Enable_Only(cs, id, v) ==
  IF id \in DOMAIN enablers /\ enablers[id].value = v
  THEN [cs EXCEPT ![enablers[id].ui].enabled = TRUE] ELSE cs

\* The knob that the signal enables is enabled by one value and disabled by others.
Enable(cs, id, v) ==
  IF id \in DOMAIN enablers
  THEN [cs EXCEPT ![enablers[id].ui].enabled = (enablers[id].value = v)] ELSE cs

\* Each class of cell shows values of its own types and ignores the others.
Shows(class) ==
  CASE class \in Buttons \cup {"led"} -> {"Boolean"}
    [] class \in {"lcd", "valueEdit"} -> {"Integer", "Real"}
    [] OTHER -> {}

\* setChecked() of a button, which asks nothing.
ShowOnButton(cell, v) == [cell EXCEPT !.checked = (v # 0)]
\* setValue() of the others; the spin box of an edit keeps to its range.
ShowOnLed(cell, v) == [cell EXCEPT !.value = IF v = 0 THEN 0 ELSE 1]
ShowOnLcd(cell, v) == [cell EXCEPT !.value = v]
SetValue(cell, v) == [cell EXCEPT !.value = Clip(v, MetaOf(cell.signal)), !.touched = TRUE]

Show(cell, v) ==
  CASE cell.class \in Buttons -> ShowOnButton(cell, v)
    [] cell.class = "led" -> ShowOnLed(cell, v)
    [] cell.class = "lcd" -> ShowOnLcd(cell, v)
    [] cell.class = "valueEdit" -> SetValue(cell, v)

\* signal2ui_[signalId]: a signal without a cell gets a null one.
Bound(id) == IF id \in DOMAIN signal2ui THEN signal2ui[id] ELSE NoCell

\* The cells that signalValueChanged(id) touches.
Touches(id) ==
  (IF id \in DOMAIN enablers THEN {enablers[id].ui} ELSE {}) \cup ({Bound(id)} \ {NoCell})

\* signalValueChanged() with a value that toInt() makes v of (a Real is rounded).
\* valueType is never given a value, so it may be any.
SignalValueChanged(id, v) ==
  /\ ~reading /\ id \notin NullSignals
  /\ IF \E c \in Touches(id) : Deleted(c)
     THEN crashed' = TRUE /\ UNCHANGED <<readVars, reported>>
     ELSE /\ reported' = Put(reported, id, v)
          /\ signal2ui' = Put(signal2ui, id, Bound(id))
          /\ LET cs == Enable(cells, id, v)
             IN  \/ cells' = cs
                 \/ /\ Bound(id) # NoCell
                    /\ \E type \in Shows(cs[Bound(id)].class) :
                         cells' = [cs EXCEPT ![Bound(id)] = Show(@, v)]
          /\ UNCHANGED <<doc, pos, frames, failed, meta, layouts, pages, windows,
                         ui2signal, enablers, crashed>>
  /\ UNCHANGED <<gone, asking>>

\* signalValueChanged() with a value that is no number: knobs stay as they are, and only
\* toBool() makes something of it.
SignalUnreadable(id) ==
  /\ ~reading /\ id \notin NullSignals
  /\ IF Bound(id) # NoCell /\ Deleted(Bound(id))
     THEN crashed' = TRUE /\ UNCHANGED readVars
     ELSE /\ signal2ui' = Put(signal2ui, id, Bound(id))
          /\ \/ cells' = cells
             \/ /\ Bound(id) # NoCell /\ "Boolean" \in Shows(cells[Bound(id)].class)
                /\ \E v \in {0, 1} : cells' = [cells EXCEPT ![Bound(id)] = Show(@, v)]
          /\ UNCHANGED <<doc, pos, frames, failed, meta, layouts, pages, windows,
                         ui2signal, enablers, crashed>>
  /\ UNCHANGED <<reported, gone, asking>>

-----------------------------------------------------------------------------
(* The user                                                                *)

Usable(c, classes) ==
  UserIsFree /\ cells[c].class \in classes /\ cells[c].enabled /\ ~Deleted(c)

OnlyCells ==
  UNCHANGED <<doc, pos, frames, failed, meta, layouts, pages, windows, mapVars, reported,
              gone, crashed>>

\* nextCheckState(): a button without a question for its state is toggled.
Asks(c) == IF cells[c].checked THEN cells[c].offAsks ELSE cells[c].onAsks

Toggle(c) ==
  /\ Usable(c, Buttons) /\ ~Asks(c)
  /\ cells' = [cells EXCEPT ![c].checked = ~@]
  /\ OnlyCells /\ UNCHANGED asking

\* nextCheckState(): the question runs an event loop of its own, in which the
\* equipment may change the button.
Ask(c) ==
  /\ Usable(c, Buttons) /\ Asks(c)
  /\ asking' = [cell |-> c, to |-> ~cells[c].checked]
  /\ OnlyCells /\ UNCHANGED cells

Answer ==
  /\ asking # NoQuestion /\ ~reading
  /\ \/ cells' = [cells EXCEPT ![asking.cell].checked = asking.to]
     \/ UNCHANGED cells
  /\ asking' = NoQuestion
  /\ OnlyCells

\* The numeric pad of an edit, accepted.
EnterValue(c, v) ==
  /\ Usable(c, {"valueEdit"})
  /\ cells' = [cells EXCEPT ![c] = SetValue(@, v)]
  /\ OnlyCells /\ UNCHANGED asking

AcceptValue(c) ==
  /\ Usable(c, {"valueEdit"})
  /\ cells' = [cells EXCEPT ![c].accepted = cells[c].value]
  /\ OnlyCells /\ UNCHANGED asking

\* Back to the value accepted last, 0 before the first.
RevertValue(c) ==
  /\ Usable(c, {"valueEdit"})
  /\ cells' = [cells EXCEPT ![c] = SetValue(@, @.accepted)]
  /\ OnlyCells /\ UNCHANGED asking

\* removeWindows_() of the destructor closes and deletes every window of the array
\* once more.
Destroy == crashed' = (crashed \/ gone # {})

PanelInit ==
  /\ doc = NoText /\ pos = 1 /\ frames = <<>> /\ failed = FALSE /\ meta = <<>>
  /\ layouts = <<>> /\ cells = <<>> /\ pages = <<>> /\ windows = <<>>
  /\ ui2signal = <<>> /\ signal2ui = <<>> /\ enablers = <<>>
  /\ reported = <<>> /\ gone = {} /\ crashed = FALSE /\ asking = NoQuestion

\* A new process.
PanelAnew ==
  /\ doc' = NoText /\ pos' = 1 /\ frames' = <<>> /\ failed' = FALSE /\ meta' = <<>>
  /\ layouts' = <<>> /\ cells' = <<>> /\ pages' = <<>> /\ windows' = <<>>
  /\ ui2signal' = <<>> /\ signal2ui' = <<>> /\ enablers' = <<>>
  /\ reported' = <<>> /\ gone' = {} /\ crashed' = FALSE /\ asking' = NoQuestion

PanelStep ==
  \/ Reads /\ UNCHANGED <<reported, gone, crashed, asking>>
  \/ \E id \in Reports, v \in Values : SignalValueChanged(id, v)
  \/ \E id \in Reports : SignalUnreadable(id)
  \/ Answer

\* What the user does with a cell that can be seen.
UserWorks(c) ==
  \/ Toggle(c) \/ Ask(c) \/ AcceptValue(c) \/ RevertValue(c)
  \/ \E v \in Values : EnterValue(c, v)

=============================================================================
