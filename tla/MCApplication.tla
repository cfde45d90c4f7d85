--------------------------- MODULE MCApplication ---------------------------
(* Application with a few drivers: a description with every class of cell, *)
(* a compact one, one cut short, one of something else, one that is not    *)
(* there. Two plugins share a uuid; one cannot make its DriverImpl.        *)
EXTENDS Application

Elem(name, mode, fields) == <<Element(name, mode)>> \o fields \o <<End>>
Field(name, number) == <<FieldStart(name, number), End>>
Signal(number) == Field("signalID", number)
Enabled(signal, value) == <<EnableIf(signal, value), End>>

\* A page with a group that holds a knob, as a driver lays it out: with white space.
FirstPage ==
  Elem("page", "panel",
    <<Space>> \o Elem("pushButton", "none", Signal(1) \o Field("onQuestion", 1) \o <<Space>>)
    \o Elem("group", "none",
         Field("x", 2)
         \o Elem("layout", "none", Elem("knob", "none", Signal(2) \o Enabled(4, 1))
                                   \o Elem("note", "none", Field("x", 1)))
         \o <<Space>>)
    \o Elem("led", "none", Signal(32769)))

SecondPage ==
  Elem("page", "window",
    Elem("lcd", "none", Signal(4) \o Field("unit", 0))
    \o Elem("circuitButton", "unknown", Signal(5))
    \o Elem("textLabel", "none", Field("x", 1))
    \o Elem("knob", "none", Signal(6) \o Enabled(1, NotANumber)))

EditPage ==
  Elem("page", "panel",
    Elem("valueEdit", "none", Signal(1))
    \o Elem("circuitButton", "vent", Field("offQuestion", 1)))

Driver(content) == Elem("driver", "none", content)

Whole == Driver(<<Space>> \o FirstPage \o <<Space>> \o Elem("help", "none", <<>>) \o SecondPage)
Edits == Driver(EditPage \o <<Space>>)
Compact ==
  Driver(Elem("page", "panel",
    Elem("image", "none", Signal(1))
    \o Elem("group", "none", Elem("layout", "none", Elem("led", "none", Signal(1))))
    \o Elem("lcd", "none", Signal(2))))
CutShort == SubSeq(Whole, 1, 14)
SomethingElse == Elem("html", "none", <<Space>>)

Declared(default) ==
  [s \in {1, 2, 4, 32769} |->
     [kind |-> IF s = 32769 THEN "Observation" ELSE "Control",
      type |-> CASE s = 1 -> "Integer" [] s = 2 -> "Real" [] s = 4 -> "Boolean" [] OTHER -> "Time",
      min |-> 0, max |-> IF s = 4 THEN 1 ELSE 65535,
      default |-> IF s \in {1, 2} THEN default ELSE 1]]

File(uuid, ui, default, creates) ==
  [loads |-> TRUE, uuid |-> uuid, signals |-> Declared(default), ui |-> ui, creates |-> creates]
NoDriver == [loads |-> FALSE, uuid |-> "none", signals |-> <<>>, ui |-> "nothing", creates |-> FALSE]

MCTokens ==
  [nothing |-> <<>>, whole |-> Whole, edits |-> Edits, compact |-> Compact,
   cutShort |-> CutShort, somethingElse |-> SomethingElse]

MCPlugins ==
  [notes |-> NoDriver, old |-> File("one", "nothing", 0, TRUE),
   whole |-> File("one", "whole", 0, TRUE), small |-> File("two", "edits", 300, TRUE),
   large |-> File("three", "edits", 40000, TRUE),
   compact |-> File("four", "compact", 0, TRUE), cut |-> File("five", "cutShort", 0, TRUE),
   html |-> File("six", "somethingElse", 0, TRUE), bare |-> File("seven", "nothing", 0, TRUE),
   broken |-> File("eight", "whole", 0, FALSE)]

MCDirectories ==
  {<<>>, <<"notes", "old", "whole", "small", "large", "compact", "cut", "html", "bare",
           "broken">>}

MCFlags == {"autoConnect", "writeProtocol", "saveWindowsPos"}

\* A first start; an earlier version that saved less; a file that somebody has edited.
Edited ==
  [autoConnect |-> TRUE, defaultDriver |-> "one", protocolPath |-> "/p",
   protocolSaveToPath |-> "", protocolTimer |-> 65536 + 20000,
   deleteProtocolFilesAfterDays |-> Unreadable, logPath |-> "/log", saveWindowsPos |-> TRUE]

MCFound ==
  [udav |-> {<<>>, [protocolSaveToPath |-> "/data", toolBarButtonSize |-> 60], Edited},
   udavc |-> {<<>>, [serverAddress |-> "somewhere", serverPort |-> 65536, cacheFiles |-> TRUE],
              [serverAddress |-> "10.0.0.1", serverPort |-> 65537] @@ Edited},
   udavs |-> {<<>>, [pathToDrivers |-> "/drivers", connectLostAfterAttempts |-> 512],
              [logPath |-> "/log", port |-> Unreadable, sendDataInterval |-> 65536,
               connectCheckingIterval |-> 0, clearLogAtStart |-> TRUE]}]

MCAddresses == {"127.0.0.1", "10.0.0.1"}

=============================================================================
