---------------------------- MODULE EquipmentUi ----------------------------
(***************************************************************************)
(* UDAV/gui/equipment: the control panel of one piece of equipment         *)
(* (EquipmentControlPanel), the reader that builds its pages from the XML  *)
(* description of the driver (EquipmentUiReader) and the cells on them.    *)
(* The description is the sequence of tokens that QXmlStreamReader makes   *)
(* of it; the reader's functions are frames of a stack, and a step is one  *)
(* turn of the loop of the function on top.                                *)
(***************************************************************************)
EXTENDS Integers, Sequences, SequencesExt, FiniteSets

CONSTANTS
  Tokens,       \* what drivers may give as the description, by name: sequences of tokens
  Values        \* the values that a signal, or a user, gives

VARIABLES
  doc,         \* the description
  pos,         \* the token that the QXmlStreamReader is at; past the end: atEnd()
  frames,      \* the functions of EquipmentUiReader under way, the innermost last
  failed,      \* the QXmlStreamReader has an error
  meta,        \* metasignals_: the ranges and defaults of the driver's signals
  layouts,     \* the EquipmentControlPages that were created
  cells,       \* the cells that were created; a cell is known by its place here
  pages,       \* controlPagesArray_
  windows,     \* controlWindowsArray_
  ui2signal,   \* ui2signal_
  signal2ui,   \* signal2ui_
  enablers     \* uiEnbaler

mapVars == <<ui2signal, signal2ui, enablers>>
readVars == <<doc, pos, frames, failed, meta, layouts, cells, pages, windows, mapVars>>

NoCell == 0           \* a null AbstractUiCell*
NotANumber == -1      \* an attribute that toInt() cannot read
NullSignals == {0, 32768}            \* CS_Begin and VS_Begin
Put(f, k, v) == [x \in DOMAIN f \cup {k} |-> IF x = k THEN v ELSE f[x]]

-----------------------------------------------------------------------------
(* Tokens                                                                  *)

Token(type, name, mode, number, second) ==
  [type |-> type, name |-> name, mode |-> mode, number |-> number, second |-> second]

\* A cell has attributes and fields; a field holds text.
Element(name, mode) == Token("start", name, mode, 0, 0)
FieldStart(name, number) == Token("start", name, "none", number, 0)
EnableIf(signal, value) == Token("start", "enableIf", "none", signal, value)
End == Token("end", "none", "none", 0, 0)
Space == Token("text", "none", "none", 0, 0)

CellClasses == {"circuitButton", "image", "knob", "lcd", "led", "pushButton",
                "textLabel", "valueEdit"}

Descriptions == DOMAIN Tokens

\* A description is a sequence of tokens, and a driver may give none.
TokensAssumption ==
  /\ \A d \in Descriptions : Tokens[d] \in Seq(ToSet(Tokens[d]))
  /\ \E d \in Descriptions : Tokens[d] = <<>>
ASSUME TokensAssumption

NoText == CHOOSE d \in Descriptions : Tokens[d] = <<>>

AtEnd == failed \/ pos > Len(Tokens[doc])
Here == Tokens[doc][pos]
At(type) == ~AtEnd /\ Here.type = type
Name == Here.name

\* How many elements are open behind each token.
Depths ==
  [d \in Descriptions |->
     [i \in DOMAIN Tokens[d] |->
        LET Count(type) == Cardinality({k \in 1 .. i : Tokens[d][k].type = type})
        IN  Count("start") - Count("end")]]

\* The token that ends the element which starts at i; the last one if nothing does.
Ends ==
  [d \in Descriptions |->
     [i \in DOMAIN Tokens[d] |->
        Min({Len(Tokens[d])} \cup {j \in i .. Len(Tokens[d]) : Depths[d][j] < Depths[d][i]})]]
EndOf(d, i) == Ends[d][i]

\* Core::readIntFieldFromXML() and its like, and Core::skipUnknownElement(): the
\* element is read to its end, and the reader is left behind it.
PastElement == pos' = EndOf(doc, pos) + 1

-----------------------------------------------------------------------------
(* Frames                                                                  *)

NewCell(class) ==
  [class |-> class, signal |-> 0, ifOk |-> FALSE, ifSignal |-> 0, ifValue |-> 0,
   onAsks |-> FALSE, offAsks |-> FALSE]
NoDraft == NewCell("none")

\* layout: the page that the function adds to; at: the token of its element.
Frame(fn, at, layout, draft) ==
  [fn |-> fn, at |-> at, layout |-> layout, draft |-> draft]

reading == frames # <<>>
Top == Last(frames)
In(fn) == reading /\ Top.fn = fn
Return == Front(frames)
Call(fn, layout, draft) == Append(frames, Frame(fn, pos, layout, draft))

\* The innermost turn that every loop shares: a token that is no element.
ReadText ==
  /\ reading /\ At("text")
  /\ pos' = pos + 1
  /\ UNCHANGED <<doc, frames, failed, meta, layouts, pages, windows, mapVars, cells>>

Skip ==
  /\ PastElement
  /\ UNCHANGED <<doc, frames, failed, meta, layouts, pages, windows, mapVars, cells>>

-----------------------------------------------------------------------------
(* The cells                                                               *)

\* QDoubleSpinBox: a value is brought into the range; the range is 0 to 99.99 at first.
Clip(v, range) == IF v < range.min THEN range.min ELSE IF v > range.max THEN range.max ELSE v
FirstRange == [min |-> 0, max |-> 99]

\* metasignals_[signalId] of a signal that the driver has not is a MetaSignal().
MetaOf(s) == IF s \in DOMAIN meta THEN meta[s]
             ELSE [min |-> 0, max |-> 0, default |-> 0]

\* Mutation: the default goes in before the range.
ValueAtFirst_RangeLast(s) == Clip(Clip(MetaOf(s).default, FirstRange), MetaOf(s))

\* setRange() and setValue() of a new ValueEditUiCell.
ValueAtFirst(s) == Clip(MetaOf(s).default, MetaOf(s))

Buttons == {"pushButton", "circuitButton"}

\* A cell as its constructor and the reader's setters leave it. A button without a
\* signal is disabled. value is what the cell shows; accepted is value_ of an edit.
Cell(draft, layout, at) ==
  [class |-> draft.class, signal |-> draft.signal, layout |-> layout, at |-> at,
   enabled |-> ~(draft.class \in Buttons /\ draft.signal = 0),
   checked |-> FALSE,
   value |-> IF draft.class = "valueEdit" THEN ValueAtFirst(draft.signal) ELSE 0,
   accepted |-> 0, touched |-> FALSE,
   onAsks |-> draft.onAsks, offAsks |-> draft.offAsks]

\* readCurcuitButton_(): a button of an unknown class is not created.
Created(draft, at) ==
  draft.class = "circuitButton" => Tokens[doc][at].mode # "unknown"

\* One field goes into the draft. Whether enableIf is good is what the second of its
\* two conversions says.
WithField(draft, t) ==
  CASE t.name = "signalID" -> [draft EXCEPT !.signal = t.number % 65536]
    [] t.name = "onQuestion" -> [draft EXCEPT !.onAsks = (t.number = 1)]
    [] t.name = "offQuestion" -> [draft EXCEPT !.offAsks = (t.number = 1)]
    [] t.name = "enableIf" ->
         [draft EXCEPT !.ifOk = (t.second # NotANumber),
                       !.ifSignal = IF t.number = NotANumber THEN 0 ELSE t.number % 65536,
                       !.ifValue = IF t.second = NotANumber THEN 0 ELSE t.second]

\* The start of a field: it is read, or skipped if the function does not keep it.
ReadField(class, fields) ==
  /\ In(class) /\ At("start")
  /\ frames' = IF Name \in fields
               THEN Append(Return, [Top EXCEPT !.draft = WithField(Top.draft, Here)])
               ELSE frames
  /\ PastElement
  /\ UNCHANGED <<doc, failed, meta, layouts, pages, windows, mapVars, cells>>

\* readKnob_(): the last knob that a signal enables takes the place of the others. The
\* value that enables it is kept as a SignalID, which has sixteen bits.
Enabling(draft, c) ==
  IF draft.class = "knob" /\ draft.ifOk
  THEN Put(enablers, draft.ifSignal, [value |-> draft.ifValue % 65536, ui |-> c])
  ELSE enablers

\* The end of a cell's element: the cell is created and put on the page; all but a
\* label are put into the maps.
EndCell(class) ==
  /\ In(class)
  /\ \/ AtEnd /\ pos' = pos
     \/ At("end") /\ pos' = pos + 1
  /\ frames' = Return
  /\ IF ~Created(Top.draft, Top.at)
     THEN UNCHANGED <<cells, mapVars>>
     ELSE LET c == Len(cells) + 1
          IN  /\ cells' = Append(cells, Cell(Top.draft, Top.layout, Top.at))
              /\ IF class = "textLabel"
                 THEN UNCHANGED mapVars
                 ELSE /\ ui2signal' = Put(ui2signal, c, Top.draft.signal)
                      /\ signal2ui' = Put(signal2ui, Top.draft.signal, c)
                      /\ enablers' = Enabling(Top.draft, c)
  /\ UNCHANGED <<doc, failed, meta, layouts, pages, windows>>

\* A function that reads a cell, and the fields that it keeps.
ReadsCell(class, fields) == ReadField(class, fields) \/ EndCell(class)

\* Mutation: a field is read, and the reader is left at its end.
ReadKnob_StaysAtEnd ==
  \/ /\ In("knob") /\ At("start")
     /\ frames' = IF Name \in {"signalID", "enableIf"}
                  THEN Append(Return, [Top EXCEPT !.draft = WithField(Top.draft, Here)])
                  ELSE frames
     /\ pos' = EndOf(doc, pos)
     /\ UNCHANGED <<doc, failed, meta, layouts, pages, windows, mapVars, cells>>
  \/ EndCell("knob")

\* Sizes and the place of a text are left out, and with them the button whose text has
\* a place while its sizes are missing or zero: readCurcuitButton_() divides by them.
ReadCurcuitButton == ReadsCell("circuitButton", {"signalID", "onQuestion", "offQuestion"})
ReadImage == ReadsCell("image", {"signalID"})
ReadKnob == ReadsCell("knob", {"signalID", "enableIf"})
ReadLcd == ReadsCell("lcd", {"signalID"})
ReadLed == ReadsCell("led", {"signalID"})
ReadPushButton == ReadsCell("pushButton", {"signalID", "onQuestion", "offQuestion"})
ReadTextLabel == ReadsCell("textLabel", {})
ReadValueEdit == ReadsCell("valueEdit", {"signalID"})

-----------------------------------------------------------------------------
(* Groups, layouts and pages                                               *)

\* readLayout_(): a new page, and its loop.
OpensLayout(fn, mode) ==
  /\ layouts' = Append(layouts, [window |-> mode = "window", at |-> pos])
  /\ frames' = Call(fn, Len(layouts) + 1, NoDraft)
  /\ pos' = pos + 1

\* readLayout_() has nothing to do for the `text` element: readTextMessage_() returns
\* without reading, and the loop never gets past it.
ReadLayout ==
  /\ In("page") \/ In("layout")
  /\ At("start") /\ Name # "text"
  /\ IF Name \in CellClasses \cup {"group"}
     THEN /\ frames' = Call(Name, Top.layout, NewCell(Name))
          /\ pos' = pos + 1
          /\ UNCHANGED <<doc, failed, meta, layouts, pages, windows, mapVars, cells>>
     ELSE Skip

\* Behind the end of a layout, and behind the next token if that is an end too.
PastLayout(p) ==
  IF p + 1 <= Len(Tokens[doc]) /\ Tokens[doc][p + 1].type = "end" THEN p + 2 ELSE p + 1

\* readPage_(): addPage_() or addWindow_().
ReadPage(layout) ==
  /\ pages' = IF layouts[layout].window THEN pages ELSE Append(pages, layout)
  /\ windows' = IF layouts[layout].window THEN Append(windows, layout) ELSE windows

\* The end of a page, or of a group's layout, which goes to its group.
EndLayout ==
  /\ In("page") \/ In("layout")
  /\ \/ AtEnd /\ pos' = pos
     \/ At("end") /\ pos' = PastLayout(pos)
  /\ frames' = Return
  /\ IF Top.fn = "page" THEN ReadPage(Top.layout) ELSE UNCHANGED <<pages, windows>>
  /\ UNCHANGED <<doc, failed, meta, layouts, mapVars, cells>>

\* readGroup_(): its place and its layout.
ReadGroup ==
  /\ In("group") /\ At("start")
  /\ IF Name = "layout"
     THEN /\ OpensLayout("layout", "none")
          /\ UNCHANGED <<doc, failed, meta, pages, windows, mapVars, cells>>
     ELSE Skip

EndGroup ==
  /\ In("group")
  /\ \/ AtEnd /\ pos' = pos
     \/ At("end") /\ pos' = pos + 1
  /\ frames' = Return
  /\ cells' = Append(cells, Cell(Top.draft, Top.layout, Top.at))
  /\ UNCHANGED <<doc, failed, meta, layouts, pages, windows, mapVars>>

-----------------------------------------------------------------------------
(* restore()                                                               *)

\* The loop over the pages of a driver.
ReadDriver ==
  /\ In("driver") /\ At("start")
  /\ IF Name = "page"
     THEN /\ OpensLayout("page", Here.mode)
          /\ UNCHANGED <<doc, failed, meta, pages, windows, mapVars, cells>>
     ELSE Skip

EndDriver ==
  /\ In("driver")
  /\ \/ AtEnd /\ pos' = pos
     \/ At("end") /\ pos' = pos + 1
  /\ frames' = Return
  /\ UNCHANGED <<doc, failed, meta, layouts, pages, windows, mapVars, cells>>

\* The outer loop: a description of something else is an error.
ReadRoot ==
  /\ In("restore") /\ At("start")
  /\ IF Name = "driver"
     THEN frames' = Call("driver", 0, NoDraft) /\ pos' = pos + 1 /\ UNCHANGED failed
     ELSE failed' = TRUE /\ UNCHANGED <<frames, pos>>
  /\ UNCHANGED <<doc, meta, layouts, pages, windows, mapVars, cells>>

\* The reader is done. (A description that stops in the middle ends every loop, as an
\* error does; the message box that follows changes nothing.)
EndRestore ==
  /\ In("restore") /\ AtEnd
  /\ frames' = <<>>
  /\ UNCHANGED <<doc, pos, failed, meta, layouts, pages, windows, mapVars, cells>>

\* restoreUi(), as the panel's constructor calls it: nothing is there to remove. A
\* text without an element is an error of the parser.
RestoreUi(xml, signals) ==
  /\ doc' = xml /\ pos' = 1 /\ failed' = (Tokens[xml] = <<>>)
  /\ frames' = <<Frame("restore", 0, 0, NoDraft)>>
  /\ meta' = signals
  /\ signal2ui' = <<>> /\ ui2signal' = <<>>
  /\ UNCHANGED <<layouts, pages, windows, enablers, cells>>

Reads ==
  \/ ReadText
  \/ ReadCurcuitButton \/ ReadImage \/ ReadKnob \/ ReadLcd \/ ReadLed
  \/ ReadPushButton \/ ReadTextLabel \/ ReadValueEdit
  \/ ReadLayout
  \/ EndLayout
  \/ ReadGroup
  \/ EndGroup
  \/ ReadDriver
  \/ EndDriver
  \/ ReadRoot
  \/ EndRestore

=============================================================================
