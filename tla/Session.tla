------------------------------ MODULE Session ------------------------------
(***************************************************************************)
(* A client and the server's socket on one connection at a time: every     *)
(* interleaving of their handlers, of the user, of the timers, of the      *)
(* driver's signals and of a link that may die without telling anyone.     *)
(***************************************************************************)
EXTENDS ServerSideSocket, Client, FiniteSets

CONSTANT LinkMayFail   \* may the network between the peers die

ASSUME LinkAssumption == LinkMayFail \in BOOLEAN

vars == <<wireVars, serverVars, clientVars>>

Init == WireInit /\ ServerInit /\ ClientInit

ServerStep == ServerNext /\ UNCHANGED clientVars
ClientStep == ClientNext /\ UNCHANGED serverVars

\* A cable is pulled: what is in flight and all that is written later is lost.
LinkDies ==
  /\ LinkMayFail
  /\ link = "up" /\ cTcp = "Connected" /\ sSock = "open"
  /\ link' = "down"
  /\ c2s' = <<>> /\ s2c' = <<>>
  /\ UNCHANGED <<cTcp, sSock, cNext, sNext, serverVars, clientVars>>

Next == ServerStep \/ ClientStep \/ LinkDies

Spec == Init /\ [][Next]_vars

\* The event loops: data that has arrived is read, timers fire, closes are
\* carried out and shown to the user. Nothing is assumed of the user, who need not
\* dismiss what he is shown, of the driver, of a dead link, or of how many bytes a
\* misaligned server must wait for.
Fairness ==
  /\ WF_vars(SrvReads /\ UNCHANGED clientVars)
  /\ WF_vars(SrvCheckConnection /\ UNCHANGED clientVars)
  /\ WF_vars(SrvDisconnected /\ UNCHANGED clientVars)
  /\ WF_vars(SrvPeerClosed /\ UNCHANGED clientVars)
  /\ WF_vars((CliConnected \/ CliConnectFails) /\ UNCHANGED serverVars)
  /\ WF_vars(CliReads /\ UNCHANGED serverVars)
  /\ WF_vars(CliPeerClosed /\ UNCHANGED serverVars)

FairSpec == Spec /\ Fairness

-----------------------------------------------------------------------------
(* Safety.                                                                 *)

\* What the socket waits for, as readDataFromClient_() tells it from isConnected_,
\* driverImpl_ and allowedReplies_.
Phase ==
  CASE sSock = "none" -> "Down"
    [] sSock = "closing" -> "Closing"
    [] sSock = "open" /\ sConnected -> "Established"
    [] sSock = "open" /\ ~sConnected /\ sDriver # NoDriver -> "Ready"
    [] OTHER ->
         CASE "SelectedDriver" \in sAllowed -> "Selection"
           [] "WithoutTicket" \in sAllowed -> "Kind"
           [] "ConnectionOK" \in sAllowed -> "Confirm"
           [] "HandShake" \in sAllowed -> "HandShake"
           [] OTHER -> "Request"

\* Every variable stays within its type.
TypeOK == WireTypeOK /\ ServerTypeOK /\ ClientTypeOK

\* driverImpl_ is dereferenced without a test by ConnectionEstablished and by
\* every handler of the established mode. It is never NULL there.
DriverAlive ==
  (sSock = "open" /\ (sConnected \/ "ConnectionEstablished" \in sAllowed))
    => sDriver \in Drivers

\* What allowedReplies_ is for: but for a user's gesture, the next packet the
\* server meets is one it waits for. In particular no control signal reaches a
\* socket that would drop it, and none of the set-up reaches an established one.
HandshakeInOrder ==
  (sSock = "open" /\ sNext = "header" /\ c2s # <<>>)
    => Head(c2s).type \in
         UserPackets \cup {"RefuseConnection"} \cup
         (IF sConnected THEN {"ConnectionOK", "Control"} ELSE sAllowed \ {"Control"})

\* A client that is still setting up never meets a packet of regular exchange,
\* although the driver may emit some before it hears "connection established".
TelemetryAfterSetup ==
  (cTcp = "Connected" /\ ~cConnected /\ s2c # <<>>)
    => Head(s2c).type \notin DataPackets \cup {"CheckConnection"}

\* Both ends of an established connection mean the same driver.
EstablishedAgreement ==
  (sSock = "open" /\ sConnected /\ cTcp = "Connected")
    => cConnected /\ cMeta = sDriver /\ cUi = sDriver

\* A server gets past the handshake only with a client of its own revision.
RevisionsAgree ==
  (sSock = "open" /\ Phase \notin {"Request", "HandShake"}) => cRev = ServerRevision

Count(s, t) == Cardinality({i \in DOMAIN s : s[i].type = t})

\* lostPackets_ never counts a check that was answered: each one counted is
\* still on its way to the client, or its answer is on its way back. A peer
\* that answers is dropped only for being slow.
OnlySilenceCounts ==
  (sSock = "open" /\ sNext = "header" /\ link = "up"
     /\ cTcp = "Connected" /\ cNext = "header")
    => sLost <= Count(s2c, "CheckConnection") + Count(c2s, "ConnectionOK")

-----------------------------------------------------------------------------
(* The abstract protocol.                                                  *)

\* Which of its members distinguish the phases, and that the driver is there from
\* the selection on: the inductive form of DriverAlive.
SetupInv ==
  /\ cTcp = "Connecting" => sSock = "none"
  /\ sSock = "none" =>
       sAllowed = {"RequestConnection"} /\ ~sConnected /\ sDriver = NoDriver
  /\ sSock = "open" /\ sConnected => sDriver \in Drivers
  /\ sSock = "open" /\ ~sConnected =>
       \/ /\ sAllowed \in {{"RequestConnection"}, {"HandShake"}, Kinds,
                            {"ConnectionOK", "RefuseConnection"},
                            {"SelectedDriver", "RefuseConnection"}}
          /\ sDriver = NoDriver
       \/ /\ sAllowed = {"ConnectionEstablished", "RefuseConnection", "Control"}
          /\ sDriver \in Drivers

Protocol == INSTANCE ConnectionProtocol WITH phase <- Phase, driver <- sDriver

\* The socket goes through the phases of the header's description, in order,
\* with one driver from its selection to the end of the socket.
ImplementsProtocol == Protocol!Spec

-----------------------------------------------------------------------------
(* Liveness.                                                               *)

\* An established connection whose link died is given up, and its driver
\* released, after connectLostAfterAttempts() unanswered checks.
DeadPeerReaped ==
  (sTimer /\ link = "down") ~> (sSock = "none")

\* A server that lost its place in the stream does not stay there.
LeftoverEnds ==
  (sNext = "leftover") ~> (sSock = "none")

\* The equipment of the selected driver did not initialise: the server has taken the
\* selection and the client waits for an answer to it (SelectionAnswered).
SelectionDropped ==
  /\ sSock = "open" /\ sDriver = NoDriver /\ "SelectedDriver" \in sAllowed
  /\ cLast = "SelectedDriver" /\ c2s = <<>>

InSetup == cTcp # "Unconnected" /\ ~(cConnected /\ sConnected)

\* A set-up comes to an end, from wherever it stands: established at both ends, closed,
\* or waiting for the user, to choose a driver or to dismiss an error. All that may hold
\* it up is a dead link, and a selection that the server leaves unanswered.
SetupConcludes ==
  InSetup
    ~> \/ cConnected /\ sConnected
       \/ cTcp = "Unconnected" \/ cDialog \/ cBox
       \/ link = "down" \/ SelectionDropped

\* A close at one end is noticed at the other: the server's is carried out, and the
\* client has closed its end too or shows the user that the connection has ended.
CloseIsMutual ==
  /\ (sSock = "closing")
       ~> (sSock = "none" /\ (cTcp # "Connected" \/ cBox \/ link = "down"))
  /\ (cTcp = "Unconnected" /\ sSock = "open" /\ link = "up") ~> (sSock # "open")

-----------------------------------------------------------------------------
(* What comments of the code say and the code does not do.                 *)

\* client.h:45-52: isConnected tells that the initialisation of the connection is
\* over, "handshake and driver selection" included.
ConnectedMeansSelected ==
  (cConnected /\ cTcp = "Connected" /\ sSock = "open") => sDriver # NoDriver

\* client.cpp:903-908: once the uuid of the selected driver is sent, MetaSignals
\* or RefuseConnection is expected from the server.
SelectionAnswered ==
  (cTcp = "Connected" /\ cLast = "SelectedDriver" /\ cMeta = NoDriver)
    ~> (cMeta # NoDriver \/ cTcp # "Connected")

\* client.cpp:247-253: message window packets may come in any mode and are
\* handled out of turn "so as not to disturb the logic" of the rest.
WindowsDisturbNothing ==
  [][(s2c # <<>> /\ Head(s2c).type \in WindowPackets /\ s2c' = Tail(s2c))
       => cLast' = cLast]_vars

\* server_side_socket.h:194-199: the server answers each control signal of an
\* established connection with ControlOk or ControlError.
ControlsAnswered ==
  [][(/\ sConnected /\ sSock' # "none"
      /\ Len(c2s') < Len(c2s)
      /\ Head(c2s).type = "Control")
        => sLast' \in {"CommandOk", "CommandError"}]_vars

=============================================================================
