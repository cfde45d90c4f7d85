--------------------------- MODULE MessageWindows ---------------------------
(***************************************************************************)
(* The message windows of a main window (UDAV/gui/udav_main_window.cpp,    *)
(* UDAV/gui/message_window.cpp; udavc/gui/client_main_window.cpp has the   *)
(* same slots): opened, written to and allowed to close from outside under *)
(* a uuid, closed by a timer or by the user.                               *)
(***************************************************************************)
EXTENDS Integers, FiniteSets

CONSTANTS
  Uuids,       \* the uuids that windows are opened under
  NullUuid,    \* the one that isNull(), which may be among them
  Windows,     \* the MessageWindow objects that may be created, in this order
  NULL

ASSUME NullAssumption == NULL \notin Windows

VARIABLES
  table,       \* messageWindows_: the window of a uuid, NULL if one was only looked up
  life,        \* whether a window is "new", "open" or "deleted"
  canClose,    \* canClose_ of each window
  autoClose,   \* autoClose_
  timing,      \* a closeTimer_ of the window runs (it repeats)
  refusing     \* the window in whose closeEvent() a box tells the user that closing is
               \* prohibited, NULL if none does

messageVars == <<table, life, canClose, autoClose, timing, refusing>>

MessageTypeOK ==
  /\ \A u \in DOMAIN table : u \in Uuids /\ table[u] \in Windows \cup {NULL}
  /\ life \in [Windows -> {"new", "open", "deleted"}]
  /\ canClose \in [Windows -> BOOLEAN] /\ autoClose \in [Windows -> BOOLEAN]
  /\ timing \in [Windows -> BOOLEAN]
  /\ refusing # NULL => refusing \in Windows /\ life[refusing] = "open"

\* QMap::operator[] of messageWindows_.
Looked(u) == IF u \in DOMAIN table THEN table[u] ELSE NULL
WithLooked(u) == [x \in DOMAIN table \cup {u} |-> Looked(x)]

\* The uuid leads to a window that is no more: a message for it is undefined behaviour.
Dangling(u) == Looked(u) # NULL /\ life[Looked(u)] # "open"

\* A new window takes the place of one that has the uuid already.
OpenMessageWindow(u) ==
  \E w \in Windows :
    /\ life[w] = "new" /\ \A v \in Windows : life[v] = "new" => w <= v
    /\ life' = [life EXCEPT ![w] = "open"]
    /\ table' = [x \in DOMAIN table \cup {u} |-> IF x = u THEN w ELSE table[x]]
    /\ UNCHANGED <<canClose, autoClose, timing, refusing>>

\* The window of the uuid shows one message more; what is shown is left out.
WriteTextMessage2Window(u) ==
  /\ ~Dangling(u)
  /\ table' = WithLooked(u)
  /\ UNCHANGED <<life, canClose, autoClose, timing, refusing>>

\* closeWindow(delay, autoClose): without a delay there is no timer, so neither the
\* window nor its button hears of it.
CloseMessageWindow(u, delayed, auto) ==
  LET w == Looked(u)
  IN  /\ ~Dangling(u)
      /\ table' = WithLooked(u)
      /\ IF w = NULL
         THEN UNCHANGED <<canClose, autoClose, timing>>
         ELSE /\ canClose' = [canClose EXCEPT ![w] = TRUE]
              /\ autoClose' = [autoClose EXCEPT ![w] = auto]
              /\ timing' = [timing EXCEPT ![w] = @ \/ delayed]
      /\ UNCHANGED <<life, refusing>>

\* The object is gone: nothing of it is left but that it was there.
Deletes(w) ==
  /\ life' = [life EXCEPT ![w] = "deleted"]
  /\ canClose' = [canClose EXCEPT ![w] = FALSE]
  /\ autoClose' = [autoClose EXCEPT ![w] = FALSE]
  /\ timing' = [timing EXCEPT ![w] = FALSE]
  /\ UNCHANGED refusing

\* Mutation: the window is deleted and its entry is left.
DeleteMessageWindow_EntryStays(w) == Deletes(w) /\ table' = table

\* deleteMessageWindow_(): the entry of the window goes, if it still has one, and
\* the window with its timers. The null uuid is taken for "has none", and its entry stays.
DeleteMessageWindow(w) ==
  /\ Deletes(w)
  /\ table' = [u \in {x \in DOMAIN table : table[x] = w => x = NullUuid} |-> table[u]]

\* Mutation: the timer closes the windows that are left to the user.
CloseWindow_Others(w) ==
  /\ life[w] = "open" /\ timing[w]
  /\ ~autoClose[w]
  /\ DeleteMessageWindow(w)

\* closeTimer_ of a window fires: closeWindow_(), and closeEvent() if it closes. If the
\* window is left to the user, closeButton_ is enabled and nothing else happens; and
\* nothing does in a window that is being closed already, as Qt sees it.
CloseWindow(w) ==
  /\ life[w] = "open" /\ timing[w]
  /\ autoClose[w] /\ refusing # w
  /\ DeleteMessageWindow(w)

\* The user closes a window by its frame (its button does the same). A window that may
\* not close yet says so in a modal box, whose event loop runs within closeEvent().
UserClosesMessage(w) ==
  /\ life[w] = "open" /\ refusing = NULL
  /\ \/ canClose[w] /\ DeleteMessageWindow(w)
     \/ ~canClose[w] /\ refusing' = w /\ UNCHANGED <<table, life, canClose, autoClose, timing>>

\* The user has read it. The window stays, whatever it has been told meanwhile.
UserDismissesRefusal ==
  /\ refusing # NULL
  /\ refusing' = NULL
  /\ UNCHANGED <<table, life, canClose, autoClose, timing>>

MessageInit ==
  /\ table = [u \in {} |-> NULL]
  /\ life = [w \in Windows |-> "new"]
  /\ canClose = [w \in Windows |-> FALSE] /\ autoClose = [w \in Windows |-> FALSE]
  /\ timing = [w \in Windows |-> FALSE] /\ refusing = NULL

\* A new process.
MessagesAnew ==
  /\ table' = [u \in {} |-> NULL]
  /\ life' = [w \in Windows |-> "new"]
  /\ canClose' = [w \in Windows |-> FALSE] /\ autoClose' = [w \in Windows |-> FALSE]
  /\ timing' = [w \in Windows |-> FALSE] /\ refusing' = NULL

MessageStep ==
  \/ \E u \in Uuids : OpenMessageWindow(u) \/ WriteTextMessage2Window(u)
  \/ \E u \in Uuids, delayed \in BOOLEAN, auto \in BOOLEAN :
       CloseMessageWindow(u, delayed, auto)
  \/ \E w \in Windows : CloseWindow(w)
  \/ UserDismissesRefusal

=============================================================================
