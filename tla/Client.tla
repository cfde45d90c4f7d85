------------------------------- MODULE Client -------------------------------
(***************************************************************************)
(* UDAV/udavc/client.cpp: the client's end of the connection, and the few  *)
(* rules by which ClientMainWindow lets the user drive it. One action per  *)
(* case of readDataFromServer_(), per user gesture and per socket signal.  *)
(***************************************************************************)
EXTENDS Wire

CONSTANTS
  MaxConnects,    \* bound: how often the user connects
  AutoConnect,    \* ClientSettings::autoConnect(); the default driver may be listed
  Modes,          \* kinds of connection the program asks for
  UserRequests,   \* packets the user makes the client send (UserPackets)
  PanelControls   \* the controls that the panels may hold (Controls)

ASSUME ModesAssumption == Modes \subseteq Kinds
ASSUME UserRequestsAssumption == UserRequests \subseteq UserPackets
ASSUME PanelControlsAssumption == PanelControls \subseteq Controls
ASSUME AutoConnectAssumption == AutoConnect \in BOOLEAN
ASSUME MaxConnectsAssumption == MaxConnects \in Nat

VARIABLES
  cLast,        \* lastRequest_
  cAllowed,     \* allowedReplies_
  cConnected,   \* connectionState_.isConnected
  cMode,        \* connectionMode_
  cMeta,        \* driver whose metaSignals_ were read, NoDriver before any
  cUi,          \* driver whose user interface was read
  cDialog,      \* the driver selection dialog is open, in the middle of a read
  cPanel,       \* the equipment control panel is shown
  cBox,         \* the message box of error_() is shown, before the connection is closed
  cRev,         \* RevisionNumber the client was built from
  connects      \* connections attempted so far

clientVars ==
  <<cLast, cAllowed, cConnected, cMode, cMeta, cUi, cDialog, cPanel, cBox, cRev, connects>>

\* What most handlers leave alone.
settledVars == <<cMode, cRev, connects, cBox>>

-----------------------------------------------------------------------------

ClientInit ==
  /\ cLast = "RequestConnection"     \* lastRequest_(0)
  /\ cAllowed = {}
  /\ cConnected = FALSE
  /\ cMode \in Modes
  /\ cMeta = NoDriver
  /\ cUi = NoDriver
  /\ cDialog = FALSE
  /\ cPanel = FALSE
  /\ cBox = FALSE
  /\ cRev \in Revisions
  /\ connects = 0

\* A whole block is there and the reader recognises it.
Incoming(t) ==
  /\ cTcp = "Connected"
  /\ cNext = "header"
  /\ ~cDialog
  /\ s2c # <<>>
  /\ Head(s2c).type = t

Consume == s2c' = Tail(s2c)

\* A case that returns without reading the payload: the rest of the stream is
\* misread from here on, so nothing that is in flight will be recognised.
LoseFraming == s2c' = <<>> /\ cNext' = "lost"

\* sendRefuseConnection_(): unlike the server's, it does not close the socket.
CliRefuse ==
  /\ ToServer(<<Pkt("RefuseConnection")>>)
  /\ cLast' = "RefuseConnection"

\* sendSelectedDriverUuid_()
SelectDriver(d) ==
  /\ ToServer(<<PktWith("SelectedDriver", d)>>)
  /\ cLast' = "SelectedDriver"
  /\ cAllowed' = {"MetaSignals", "RefuseConnection"}

\* closeConnection(), and connectionClosed() taken by disconnectedFromServer_()
CloseConnection ==
  /\ cTcp' = "Unconnected"
  /\ s2c' = <<>>
  /\ cPanel' = FALSE

\* error_(), up to its message box: the connection is closed when the user dismisses the
\* box, which keeps every other window of the program from him until then.
ShowError ==
  /\ ~cBox
  /\ cBox' = TRUE
  /\ s2c' = <<>>

\* The user is free to use the windows of the program.
AtLeisure == ~cDialog /\ ~cBox

Ends == <<sSock, link, sNext>>

-----------------------------------------------------------------------------
(* Connecting.                                                             *)

\* connectToServer(): the old socket of the server is gone by then.
CliConnect ==
  /\ cTcp = "Unconnected" /\ sSock = "none"
  /\ AtLeisure
  /\ connects < MaxConnects
  /\ connects' = connects + 1
  /\ cTcp' = "Connecting"
  /\ cMode' \in Modes
  /\ cNext' = "header"
  /\ link' = "up"
  /\ UNCHANGED <<c2s, s2c, sSock, sNext, cLast, cAllowed, cConnected, cMeta, cUi,
                 cDialog, cPanel, cBox, cRev>>

\* connected() -> requestConnection_(), while the server accepts the socket.
CliConnected ==
  /\ cTcp = "Connecting"
  /\ cTcp' = "Connected"
  /\ sSock' = "open"
  /\ c2s' = <<Pkt("RequestConnection")>>
  /\ cLast' = "RequestConnection"
  /\ cAllowed' = {"ConnectionOK", "RefuseConnection"}
  /\ UNCHANGED <<s2c, link, cNext, sNext, cConnected, cMeta, cUi, cDialog, cPanel>>
  /\ UNCHANGED settledVars

\* error(): nobody listens at the address.
CliConnectFails ==
  /\ cTcp = "Connecting"
  /\ cTcp' = "Unconnected"
  /\ ShowError
  /\ UNCHANGED <<c2s, cNext, cLast, cAllowed, cConnected, cMeta, cUi, cDialog, cPanel>>
  /\ UNCHANGED <<cMode, cRev, connects>> /\ UNCHANGED Ends

-----------------------------------------------------------------------------
(* readDataFromServer_() before connectionState_.isConnected.              *)

CliInitConnection ==
  /\ Incoming("ConnectionOK") /\ ~cConnected
  /\ IF cLast = "RequestConnection"
       THEN /\ Consume
            /\ ToServer(<<PktWith("HandShake", cRev)>>)
            /\ cLast' = "HandShake"
            /\ cAllowed' = {"HandShake", "RefuseConnection"}
            /\ UNCHANGED cNext
       ELSE LoseFraming /\ UNCHANGED <<c2s, cLast, cAllowed>>
  /\ UNCHANGED <<cTcp, cConnected, cMeta, cUi, cDialog, cPanel>>
  /\ UNCHANGED settledVars /\ UNCHANGED Ends

\* Mutation: the kind of connection is sent before the confirmation.
CliHandShake_KindFirst ==
  /\ Incoming("HandShake") /\ ~cConnected
  /\ cLast = "HandShake"
  /\ Consume
  /\ ToServer(<<Pkt(cMode), Pkt("ConnectionOK")>>)
  /\ cLast' = cMode
  /\ cAllowed' = {"DriversList", "RefuseConnection"}
  /\ UNCHANGED <<cTcp, cNext, cConnected, cMeta, cUi, cDialog, cPanel>>
  /\ UNCHANGED settledVars /\ UNCHANGED Ends

\* The kind of connection follows the confirmation at once.
CliHandShake ==
  /\ Incoming("HandShake") /\ ~cConnected
  /\ IF cLast = "HandShake"
       THEN /\ Consume
            /\ UNCHANGED cNext
            /\ IF Head(s2c).arg = cRev
                 THEN /\ ToServer(<<Pkt("ConnectionOK"), Pkt(cMode)>>)
                      /\ cLast' = cMode
                      /\ cAllowed' = {"DriversList", "RefuseConnection"}
                 ELSE CliRefuse /\ UNCHANGED cAllowed
       ELSE LoseFraming /\ UNCHANGED <<c2s, cLast, cAllowed>>
  /\ UNCHANGED <<cTcp, cConnected, cMeta, cUi, cDialog, cPanel>>
  /\ UNCHANGED settledVars /\ UNCHANGED Ends

\* The list is read whatever lastRequest_ is, then dropped unless the last thing
\* sent was the kind of connection. The user is asked unless the driver of the settings
\* is listed.
CliDriversList ==
  /\ Incoming("DriversList") /\ ~cConnected
  /\ cLast # "DriversListRequest"
  /\ Consume
  /\ \/ /\ cLast = "WithoutTicket" /\ AutoConnect
        /\ \E d \in Drivers : SelectDriver(d)
        /\ UNCHANGED cDialog
     \/ cDialog' = (cLast = "WithoutTicket") /\ UNCHANGED <<c2s, cLast, cAllowed>>
  /\ UNCHANGED <<cTcp, cNext, cConnected, cMeta, cUi, cPanel>>
  /\ UNCHANGED settledVars /\ UNCHANGED Ends

\* driversListReaded() is all that was wanted.
CliDriversListOnly ==
  /\ Incoming("DriversList") /\ ~cConnected
  /\ cLast = "DriversListRequest"
  /\ CloseConnection
  /\ UNCHANGED <<c2s, cNext, cLast, cAllowed, cConnected, cMeta, cUi, cDialog>>
  /\ UNCHANGED settledVars /\ UNCHANGED Ends

\* Mutation: metasignals read before are not cleared.
CliMetaSignals_KeepsOld ==
  /\ Incoming("MetaSignals") /\ ~cConnected
  /\ IF cLast = "SelectedDriver"
       THEN /\ Consume
            /\ cMeta' = IF cMeta = NoDriver THEN Head(s2c).arg ELSE cMeta
            /\ cAllowed' = {"UiDescription"}
            /\ UNCHANGED cNext
       ELSE LoseFraming /\ UNCHANGED <<cMeta, cAllowed>>
  /\ UNCHANGED <<c2s, cTcp, cLast, cConnected, cUi, cDialog, cPanel>>
  /\ UNCHANGED settledVars /\ UNCHANGED Ends

CliMetaSignals ==
  /\ Incoming("MetaSignals") /\ ~cConnected
  /\ IF cLast = "SelectedDriver"
       THEN /\ Consume
            /\ cMeta' = Head(s2c).arg
            /\ cAllowed' = {"UiDescription"}
            /\ UNCHANGED cNext
       ELSE LoseFraming /\ UNCHANGED <<cMeta, cAllowed>>
  /\ UNCHANGED <<c2s, cTcp, cLast, cConnected, cUi, cDialog, cPanel>>
  /\ UNCHANGED settledVars /\ UNCHANGED Ends

CliSetupUi ==
  /\ Incoming("UiDescription") /\ ~cConnected
  /\ IF cLast = "SelectedDriver"
       THEN /\ Consume
            /\ cUi' = Head(s2c).arg
            /\ cAllowed' = {"DriverSettings"}
            /\ UNCHANGED cNext
       ELSE LoseFraming /\ UNCHANGED <<cUi, cAllowed>>
  /\ UNCHANGED <<c2s, cTcp, cLast, cConnected, cMeta, cDialog, cPanel>>
  /\ UNCHANGED settledVars /\ UNCHANGED Ends

\* A map is read that the server does not write: when bytes of a later block
\* have arrived, they are taken for it.
CliDriverSettings ==
  /\ Incoming("DriverSettings") /\ ~cConnected
  /\ \/ Consume /\ UNCHANGED cNext
     \/ Len(s2c) > 1 /\ LoseFraming
  /\ ToServer(<<Pkt("ConnectionEstablished")>>)
  /\ cLast' = "ConnectionEstablished"
  /\ cConnected' = TRUE
  /\ cPanel' = TRUE
  /\ cAllowed' = {"ViewArray", "CheckConnection"}
  /\ UNCHANGED <<cTcp, cMeta, cUi, cDialog>>
  /\ UNCHANGED settledVars /\ UNCHANGED Ends

\* Packets read out of turn: shown or logged, then no case matches them.
CliSetupNotice ==
  /\ ~cConnected
  /\ \E t \in WindowPackets \cup {"RefuseConnection"} : Incoming(t)
  /\ Consume
  /\ UNCHANGED <<c2s, cTcp, cNext, cLast, cAllowed, cConnected, cMeta, cUi, cDialog, cPanel>>
  /\ UNCHANGED settledVars /\ UNCHANGED Ends

-----------------------------------------------------------------------------
(* The selection dialog: dlg.exec() inside the handler of DriversList.     *)

\* Accepted, perhaps with nothing selected (a null uuid).
UserSelects(d) ==
  /\ cDialog /\ ~cBox
  /\ cDialog' = FALSE
  /\ SelectDriver(d)
  /\ UNCHANGED <<s2c, cTcp, cNext, cConnected, cMeta, cUi, cPanel>>
  /\ UNCHANGED settledVars /\ UNCHANGED Ends

UserCancels ==
  /\ cDialog /\ ~cBox
  /\ cDialog' = FALSE
  /\ CliRefuse
  /\ UNCHANGED <<s2c, cTcp, cNext, cAllowed, cConnected, cMeta, cUi, cPanel>>
  /\ UNCHANGED settledVars /\ UNCHANGED Ends

-----------------------------------------------------------------------------
(* readDataFromServer_() once connectionState_.isConnected.                *)

CliCheckConnection ==
  /\ Incoming("CheckConnection") /\ cConnected
  /\ Consume
  /\ ToServer(<<Pkt("ConnectionOK")>>)
  /\ cLast' = "ConnectionOK"
  /\ UNCHANGED <<cTcp, cNext, cAllowed, cConnected, cMeta, cUi, cDialog, cPanel>>
  /\ UNCHANGED settledVars /\ UNCHANGED Ends

CliData ==
  /\ cConnected
  /\ \E t \in DataPackets : Incoming(t)
  /\ Consume
  /\ UNCHANGED <<c2s, cTcp, cNext, cLast, cAllowed, cConnected, cMeta, cUi, cDialog, cPanel>>
  /\ UNCHANGED settledVars /\ UNCHANGED Ends

CliReloadedUi ==
  /\ Incoming("UiDescription") /\ cConnected
  /\ Consume
  /\ cUi' = Head(s2c).arg
  /\ UNCHANGED <<c2s, cTcp, cNext, cLast, cAllowed, cConnected, cMeta, cDialog, cPanel>>
  /\ UNCHANGED settledVars /\ UNCHANGED Ends

\* The default case refuses the connection. Packets read out of turn have been
\* consumed by then; the payload of any other is still in the stream.
CliUnknownReply ==
  /\ cConnected
  /\ \E t \in ServerPackets \ (DataPackets \cup {"CheckConnection", "UiDescription"}) :
       /\ Incoming(t)
       /\ IF t \in WindowPackets \cup {"RefuseConnection"}
            THEN Consume /\ UNCHANGED cNext
            ELSE LoseFraming
  /\ CliRefuse
  /\ UNCHANGED <<cTcp, cAllowed, cConnected, cMeta, cUi, cDialog, cPanel>>
  /\ UNCHANGED settledVars /\ UNCHANGED Ends

-----------------------------------------------------------------------------
(* The user, and the socket.                                               *)

\* The replies a request announces to the reader.
Announced(t) ==
  CASE t = "FileRequest" -> {"ConnectionOK", "CheckConnection", "File", "ViewArray",
                             "ControlArray", "RefuseConnection"}
    [] t = "ReloadInterface" -> {"UiDescription"}
    [] t = "DriverSettings" -> {"ConnectionOK", "RefuseConnection"}

\* requestFileFromServer(), sendInterfaceReloadRequest(), sendDriverSettings():
\* isConnected() asks the socket, not connectionState_.
UserRequest(t) ==
  /\ cTcp = "Connected" /\ AtLeisure
  /\ Room
  /\ ToServer(<<Pkt(t)>>)
  /\ cLast' = t
  /\ cAllowed' = Announced(t)
  /\ UNCHANGED <<s2c, cTcp, cNext, cConnected, cMeta, cUi, cDialog, cPanel>>
  /\ UNCHANGED settledVars /\ UNCHANGED Ends

\* controlSignalChanged(), from a control of the panel: its signal is one the
\* driver declares, or not (a user interface may name any).
UserControl(a) ==
  /\ cTcp = "Connected" /\ AtLeisure /\ cPanel
  /\ Room
  /\ ToServer(<<PktWith("Control", a)>>)
  /\ cLast' = "Control"
  /\ cAllowed' = {"ViewArray", "SignalValue", "CommandOk", "CommandError", "RefuseConnection"}
  /\ UNCHANGED <<s2c, cTcp, cNext, cConnected, cMeta, cUi, cDialog, cPanel>>
  /\ UNCHANGED settledVars /\ UNCHANGED Ends

\* disconnectFromServer_()
UserDisconnects ==
  /\ cTcp = "Connected" /\ AtLeisure
  /\ CloseConnection
  /\ UNCHANGED <<c2s, cNext, cLast, cAllowed, cConnected, cMeta, cUi, cDialog>>
  /\ UNCHANGED settledVars /\ UNCHANGED Ends

\* The server's close reaches the client after everything written before it.
CliPeerClosed ==
  /\ cTcp = "Connected" /\ link = "up" /\ sSock = "none"
  /\ s2c = <<>> \/ cDialog
  /\ ShowError
  /\ UNCHANGED <<c2s, cTcp, cNext, cLast, cAllowed, cConnected, cMeta, cUi, cDialog, cPanel>>
  /\ UNCHANGED <<cMode, cRev, connects>> /\ UNCHANGED Ends

\* error(): the connection is reset, or the system gives up on a dead link.
CliLinkError ==
  /\ cTcp = "Connected"
  /\ link = "down" \/ sSock # "open"
  /\ ShowError
  /\ UNCHANGED <<c2s, cTcp, cNext, cLast, cAllowed, cConnected, cMeta, cUi, cDialog, cPanel>>
  /\ UNCHANGED <<cMode, cRev, connects>> /\ UNCHANGED Ends

\* The user dismisses the box, which he may leave there as long as he likes: the rest of
\* error_().
UserDismisses ==
  /\ cBox
  /\ cBox' = FALSE
  /\ CloseConnection
  /\ UNCHANGED <<c2s, cNext, cLast, cAllowed, cConnected, cMeta, cUi, cDialog>>
  /\ UNCHANGED <<cMode, cRev, connects>> /\ UNCHANGED Ends

-----------------------------------------------------------------------------

CliReads ==
  \/ CliInitConnection \/ CliHandShake \/ CliDriversList \/ CliDriversListOnly
  \/ CliMetaSignals \/ CliSetupUi \/ CliDriverSettings \/ CliSetupNotice
  \/ CliCheckConnection \/ CliData \/ CliReloadedUi \/ CliUnknownReply

UserNext ==
  \/ CliConnect
  \/ \E d \in Selections : UserSelects(d)
  \/ UserCancels
  \/ \E t \in UserRequests : UserRequest(t)
  \/ \E a \in PanelControls : UserControl(a)
  \/ UserDisconnects
  \/ UserDismisses

ClientNext ==
  \/ CliConnected
  \/ CliConnectFails
  \/ CliReads
  \/ UserNext
  \/ CliPeerClosed
  \/ CliLinkError

ClientTypeOK ==
  /\ cLast \in LastRequests
  /\ cAllowed \subseteq PacketTypes
  /\ cConnected \in BOOLEAN
  /\ cMode \in Kinds
  /\ cMeta \in Selections
  /\ cUi \in Selections
  /\ cDialog \in BOOLEAN
  /\ cPanel \in BOOLEAN
  /\ cBox \in BOOLEAN
  /\ cRev \in Revisions
  /\ connects \in 0..MaxConnects

=============================================================================
