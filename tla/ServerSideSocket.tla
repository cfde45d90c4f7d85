-------------------------- MODULE ServerSideSocket --------------------------
(***************************************************************************)
(* UDAV/udavs/server_side_socket.cpp: the server's end of one connection.  *)
(* One action per case of readDataFromClient_(), per timer slot and per    *)
(* signal of the driver implementation. A handler runs to completion: the  *)
(* server is one Qt event loop. The driver implementation itself is        *)
(* external: it may refuse to initialise, refuse a command, and emit the   *)
(* packets of Unsolicited whenever it pleases.                             *)
(***************************************************************************)
EXTENDS Wire

CONSTANTS
  MaxLost,            \* ServerSettings::connectLostAfterAttempts()
  CheckEnabled,       \* is connectCheckingIterval() non-zero
  EquipmentMayFail,   \* may DriverImpl::initEquipment() return false
  Unsolicited         \* packets the driver emits without being asked

ASSUME MaxLostAssumption == MaxLost \in 0..255
ASSUME FlagsAssumption == CheckEnabled \in BOOLEAN /\ EquipmentMayFail \in BOOLEAN
ASSUME UnsolicitedAssumption ==
  Unsolicited \subseteq WindowPackets \cup {"SignalValue", "ViewArray", "ControlArray"}

VARIABLES
  sAllowed,     \* allowedReplies_
  sLast,        \* lastRequest_
  sConnected,   \* isConnected_
  sDriver,      \* the driver driverImpl_ belongs to, NoDriver when NULL
  sTimer,       \* connectionCheckTimer_ exists and runs
  sLost         \* lostPackets_

serverVars == <<sAllowed, sLast, sConnected, sDriver, sTimer, sLost>>

-----------------------------------------------------------------------------

\* Mutation: the driver implementation is not a child of the socket.
Constructed_KeepsDriver ==
  /\ sAllowed' = {"RequestConnection"}
  /\ sLast' = "Empty"
  /\ sConnected' = FALSE
  /\ UNCHANGED sDriver
  /\ sTimer' = FALSE
  /\ sLost' = 0
  /\ sNext' = "header"

\* The members as the constructor leaves them; they stand for "no socket"
\* too, so that nothing of one connection survives in the next.
Constructed ==
  /\ sAllowed' = {"RequestConnection"}
  /\ sLast' = "Empty"
  /\ sConnected' = FALSE
  /\ sDriver' = NoDriver
  /\ sTimer' = FALSE
  /\ sLost' = 0
  /\ sNext' = "header"

ServerInit ==
  /\ sAllowed = {"RequestConnection"}
  /\ sLast = "Empty"
  /\ sConnected = FALSE
  /\ sDriver = NoDriver
  /\ sTimer = FALSE
  /\ sLost = 0

\* Mutation: a packet from the client does not reset lostPackets_.
TakeRequest_KeepsCount(t) ==
  /\ sSock = "open" /\ sNext = "header"
  /\ c2s # <<>> /\ Head(c2s).type = t
  /\ c2s' = Tail(c2s)
  /\ UNCHANGED sLost

\* A whole block is there: it is taken off the stream, and the client has
\* shown that it is alive.
TakeRequest(t) ==
  /\ sSock = "open"
  /\ sNext = "header"
  /\ c2s # <<>>
  /\ Head(c2s).type = t
  /\ c2s' = Tail(c2s)
  /\ sLost' = 0

\* sendRefuseConnection_(): the refusal is written, then the socket is closed
\* and with it everything still unread.
Refuse(before) ==
  /\ ToClient(before \o <<Pkt("RefuseConnection")>>)
  /\ sLast' = "RefuseConnection"
  /\ sSock' = "closing"

unchangedFraming == UNCHANGED <<cTcp, link, cNext, sNext>>

-----------------------------------------------------------------------------
(* Connection set-up, in the order of the protocol.                        *)

SrvRequestConnection ==
  /\ ~sConnected
  /\ "RequestConnection" \in sAllowed
  /\ TakeRequest("RequestConnection")
  /\ ToClient(<<Pkt("ConnectionOK")>>)
  /\ sAllowed' = {"HandShake"}
  /\ UNCHANGED <<sSock, sLast, sConnected, sDriver, sTimer>>
  /\ unchangedFraming

\* Mutation: the verdict of checkHandShake_() is not acted upon.
SrvHandShake_AnyRevision ==
  /\ ~sConnected
  /\ "HandShake" \in sAllowed
  /\ TakeRequest("HandShake")
  /\ ToClient(<<PktWith("HandShake", ServerRevision)>>)
  /\ sLast' = "HandShake"
  /\ sAllowed' = {"ConnectionOK", "RefuseConnection"}
  /\ UNCHANGED <<sSock, sConnected, sDriver, sTimer>>
  /\ unchangedFraming

SrvHandShake ==
  /\ ~sConnected
  /\ "HandShake" \in sAllowed
  /\ sSock = "open" /\ sNext = "header" /\ c2s # <<>>
  /\ Head(c2s).type = "HandShake"
  /\ sLost' = 0
  /\ IF Head(c2s).arg = ServerRevision
       THEN /\ c2s' = Tail(c2s)
            /\ ToClient(<<PktWith("HandShake", ServerRevision)>>)
            /\ sLast' = "HandShake"
            /\ sAllowed' = {"ConnectionOK", "RefuseConnection"}
            /\ UNCHANGED sSock
       ELSE c2s' = <<>> /\ Refuse(<<>>) /\ UNCHANGED sAllowed
  /\ UNCHANGED <<sConnected, sDriver, sTimer>>
  /\ unchangedFraming

SrvConnectionOK ==
  /\ ~sConnected
  /\ "ConnectionOK" \in sAllowed
  /\ TakeRequest("ConnectionOK")
  /\ sAllowed' = IF sLast = "HandShake" THEN Kinds ELSE sAllowed
  /\ UNCHANGED <<s2c, sSock, sLast, sConnected, sDriver, sTimer>>
  /\ unchangedFraming

SrvConnectionKind ==
  /\ ~sConnected
  /\ \E k \in Kinds \cap sAllowed : TakeRequest(k)
  /\ ToClient(<<Pkt("DriversList")>>)
  /\ sLast' = "DriversList"
  /\ sAllowed' = {"SelectedDriver", "RefuseConnection"}
  /\ UNCHANGED <<sSock, sConnected, sDriver, sTimer>>
  /\ unchangedFraming

\* A window the driver opens while initEquipment() runs.
Prompts == {<<>>} \cup {<<Pkt(t)>> : t \in Unsolicited \cap WindowPackets}

\* Server::getDriver() knows no such driver.
SrvNoSuchDriver ==
  /\ sSock = "open" /\ sNext = "header" /\ ~sConnected
  /\ "SelectedDriver" \in sAllowed
  /\ c2s # <<>> /\ Head(c2s) = PktWith("SelectedDriver", NoDriver)
  /\ c2s' = <<>>
  /\ sLost' = 0
  /\ Refuse(<<>>)
  /\ UNCHANGED <<sAllowed, sConnected, sDriver, sTimer>>
  /\ unchangedFraming

\* Mutation: the handler goes on after the implementation was deleted.
SrvEquipmentFails_GoesOn ==
  /\ EquipmentMayFail /\ ~sConnected
  /\ "SelectedDriver" \in sAllowed
  /\ TakeRequest("SelectedDriver")
  /\ Head(c2s).arg \in Drivers
  /\ ToClient(<<Pkt("DriverSettings")>>)
  /\ sLast' = "DriverSettings"
  /\ sAllowed' = {"ConnectionEstablished", "RefuseConnection", "Control"}
  /\ UNCHANGED <<sSock, sConnected, sDriver, sTimer>>
  /\ unchangedFraming

\* initEquipment() returned false: the implementation is deleted.
SrvEquipmentFails ==
  /\ EquipmentMayFail
  /\ ~sConnected
  /\ "SelectedDriver" \in sAllowed
  /\ TakeRequest("SelectedDriver")
  /\ Head(c2s).arg \in Drivers
  /\ \E ws \in Prompts : ToClient(ws)
  /\ UNCHANGED <<sSock, sAllowed, sLast, sConnected, sDriver, sTimer>>
  /\ unchangedFraming

\* Mutation: the driver is started before it is described to the client.
SrvSelectedDriver_StartsFirst ==
  /\ ~sConnected
  /\ "SelectedDriver" \in sAllowed
  /\ TakeRequest("SelectedDriver")
  /\ Head(c2s).arg \in Drivers
  /\ sDriver' = Head(c2s).arg
  /\ ToClient(<<Pkt("ViewArray"), PktWith("MetaSignals", sDriver'),
                PktWith("UiDescription", sDriver'), Pkt("DriverSettings")>>)
  /\ sLast' = "DriverSettings"
  /\ sAllowed' = {"ConnectionEstablished", "RefuseConnection", "Control"}
  /\ UNCHANGED <<sSock, sConnected, sTimer>>
  /\ unchangedFraming

SrvSelectedDriver ==
  /\ ~sConnected
  /\ "SelectedDriver" \in sAllowed
  /\ TakeRequest("SelectedDriver")
  /\ Head(c2s).arg \in Drivers
  /\ sDriver' = Head(c2s).arg
  /\ \E ws \in Prompts :
       ToClient(ws \o <<PktWith("MetaSignals", sDriver'),
                        PktWith("UiDescription", sDriver'),
                        Pkt("DriverSettings")>>)
  /\ sLast' = "DriverSettings"
  /\ sAllowed' = {"ConnectionEstablished", "RefuseConnection", "Control"}
  /\ UNCHANGED <<sSock, sConnected, sTimer>>
  /\ unchangedFraming

\* Mutation: connectionCheckTimer_ is created and never started.
SrvEstablished_NoTimer ==
  /\ ~sConnected
  /\ "ConnectionEstablished" \in sAllowed
  /\ TakeRequest("ConnectionEstablished")
  /\ sTimer' = FALSE
  /\ ToClient(<<Pkt("ViewArray"), Pkt("ControlArray")>>)
  /\ sLast' = "ControlArray"
  /\ sConnected' = TRUE
  /\ sAllowed' = {}
  /\ UNCHANGED <<sSock, sDriver>>
  /\ unchangedFraming

SrvEstablished ==
  /\ ~sConnected
  /\ "ConnectionEstablished" \in sAllowed
  /\ TakeRequest("ConnectionEstablished")
  /\ sTimer' = CheckEnabled
  /\ ToClient(<<Pkt("ViewArray"), Pkt("ControlArray")>>)
  /\ sLast' = "ControlArray"
  /\ sConnected' = TRUE
  /\ sAllowed' = {}
  /\ UNCHANGED <<sSock, sDriver>>
  /\ unchangedFraming

\* Mutation: as the comment of allowedReplies_ has it, the packet is ignored.
SrvWrongRequest_Ignored ==
  /\ ~sConnected
  /\ \E t \in UserPackets \ sAllowed : TakeRequest(t)
  /\ UNCHANGED <<s2c, sSock, sAllowed, sLast, sConnected, sDriver, sTimer>>
  /\ unchangedFraming

\* A packet the set-up does not allow at this point. Only a user's gesture
\* sends one out of turn (HandshakeInOrder), and the switch has no case for it.
SrvWrongRequest ==
  /\ sSock = "open" /\ sNext = "header" /\ ~sConnected
  /\ c2s # <<>> /\ Head(c2s).type \in UserPackets \ sAllowed
  /\ c2s' = <<>>
  /\ sLost' = 0
  /\ Refuse(<<>>)
  /\ UNCHANGED <<sAllowed, sConnected, sDriver, sTimer>>
  /\ unchangedFraming

\* RefuseConnection from the client, in either mode.
SrvClientRefuses ==
  /\ sSock = "open" /\ sNext = "header"
  /\ c2s # <<>> /\ Head(c2s).type = "RefuseConnection"
  /\ c2s' = <<>>
  /\ sLost' = 0
  /\ sSock' = "closing"
  /\ UNCHANGED <<s2c, sAllowed, sLast, sConnected, sDriver, sTimer>>
  /\ unchangedFraming

-----------------------------------------------------------------------------
(* Regular exchange over an established connection.                        *)

\* The client confirmed the link, or sent settings: both are only logged.
SrvNoted ==
  /\ sConnected
  /\ \E t \in {"ConnectionOK", "DriverSettings"} : TakeRequest(t)
  /\ UNCHANGED <<s2c, sSock, sAllowed, sLast, sConnected, sDriver, sTimer>>
  /\ unchangedFraming

SrvFileRequest ==
  /\ sConnected
  /\ TakeRequest("FileRequest")
  /\ ToClient(<<Pkt("File")>>)
  /\ sLast' = "File"
  /\ sAllowed' = {"ConnectionOK", "Control", "RefuseConnection"}
  /\ UNCHANGED <<sSock, sConnected, sDriver, sTimer>>
  /\ unchangedFraming

SrvReloadInterface ==
  /\ sConnected
  /\ TakeRequest("ReloadInterface")
  /\ ToClient(<<PktWith("UiDescription", sDriver)>>)
  /\ sLast' = "UiDescription"
  /\ sAllowed' = {"ConnectionOK", "RefuseConnection"}
  /\ UNCHANGED <<sSock, sConnected, sDriver, sTimer>>
  /\ unchangedFraming

\* A control signal the driver has declared, Boolean, Real or Integer: it obeys or
\* reports an error.
SrvControl ==
  /\ sConnected
  /\ TakeRequest("Control")
  /\ Head(c2s).arg = "known"
  /\ \E answer \in {"CommandOk", "CommandError"} :
       ToClient(<<Pkt(answer)>>) /\ sLast' = answer
  /\ UNCHANGED <<sSock, sAllowed, sConnected, sDriver, sTimer>>
  /\ unchangedFraming

\* One that it has declared of another type: nobody is told anything.
SrvUntypedControl ==
  /\ sConnected
  /\ TakeRequest("Control")
  /\ Head(c2s).arg = "untyped"
  /\ UNCHANGED <<s2c, sSock, sAllowed, sLast, sConnected, sDriver, sTimer>>
  /\ unchangedFraming

\* An undeclared one: the handler returns past "nextBlockSize_ = 0".
SrvUnknownSignal ==
  /\ sConnected
  /\ TakeRequest("Control")
  /\ Head(c2s).arg = "unknown"
  /\ ToClient(<<Pkt("CommandError")>>)
  /\ sLast' = "CommandError"
  /\ sNext' = "leftover"
  /\ UNCHANGED <<sSock, sAllowed, sConnected, sDriver, sTimer, cTcp, link, cNext>>

\* The size of the consumed block is compared with the bytes of the blocks that
\* followed; once they are enough, the first byte of the next block's size is
\* taken for a packet type. It is 0, RequestConnection: a wrong request.
SrvReadLeftover ==
  /\ sSock = "open" /\ sNext = "leftover"
  /\ c2s # <<>>
  /\ c2s' = <<>>
  /\ sLost' = 0
  /\ Refuse(<<>>)
  /\ UNCHANGED <<sAllowed, sConnected, sDriver, sTimer>>
  /\ unchangedFraming

-----------------------------------------------------------------------------
(* Timers, the driver's signals, the end of the connection.                *)

\* Mutation: one more check than connectLostAfterAttempts() goes unanswered.
SrvCheckConnection_OneMore ==
  /\ sSock = "open" /\ sTimer
  /\ IF sLost > MaxLost
       THEN sSock' = "closing" /\ c2s' = <<>> /\ UNCHANGED <<s2c, sLast, sLost>>
       ELSE /\ sLost' = sLost + 1
            /\ sLast' = "CheckConnection"
            /\ ToClient(<<Pkt("CheckConnection")>>)
            /\ UNCHANGED <<sSock, c2s>>
  /\ UNCHANGED <<sAllowed, sConnected, sDriver, sTimer>>
  /\ unchangedFraming

\* Mutation: lostPackets_ is not counted up.
SrvCheckConnection_NoCount ==
  /\ sSock = "open" /\ sTimer
  /\ Room \/ sNext = "leftover" \/ sLost >= MaxLost
  /\ sLast' = "CheckConnection"
  /\ ToClient(<<Pkt("CheckConnection")>>)
  /\ UNCHANGED <<sSock, c2s, sLost, sAllowed, sConnected, sDriver, sTimer>>
  /\ unchangedFraming

\* sendCheckConnection_(). Bound: checks do not pile up between two readers
\* that are merely slow.
SrvCheckConnection ==
  /\ sSock = "open" /\ sTimer
  /\ Room \/ sNext = "leftover" \/ sLost >= MaxLost
  /\ IF sLost >= MaxLost
       THEN /\ sSock' = "closing"
            /\ c2s' = <<>>
            /\ UNCHANGED <<s2c, sLast, sLost>>
       ELSE /\ sLost' = sLost + 1
            /\ sLast' = "CheckConnection"
            /\ ToClient(<<Pkt("CheckConnection")>>)
            /\ UNCHANGED <<sSock, c2s>>
  /\ UNCHANGED <<sAllowed, sConnected, sDriver, sTimer>>
  /\ unchangedFraming

\* The slots connected to the driver implementation's signals.
SrvDriverEmits(t) ==
  /\ sSock = "open"
  /\ sDriver # NoDriver
  /\ Room
  /\ ToClient(<<Pkt(t)>>)
  /\ sLast' = IF t \in WindowPackets THEN sLast ELSE t
  /\ UNCHANGED <<c2s, sSock, sAllowed, sConnected, sDriver, sTimer, sLost>>
  /\ unchangedFraming

\* disconnected() and deleteLater() after a close() of ours: the session is
\* forgotten, the driver implementation dies with its parent.
SrvDisconnected ==
  /\ sSock = "closing"
  /\ sSock' = "none"
  /\ c2s' = <<>>
  /\ Constructed
  /\ UNCHANGED <<s2c, cTcp, link, cNext>>

\* Mutation: disconnected() is only taken care of in the established mode.
SrvPeerClosed_OnlyEstablished ==
  /\ sConnected
  /\ sSock = "open"
  /\ cTcp = "Unconnected" /\ link = "up"
  /\ c2s = <<>> \/ sNext = "leftover"
  /\ sSock' = "none"
  /\ c2s' = <<>>
  /\ Constructed
  /\ UNCHANGED <<s2c, cTcp, link, cNext>>

\* The same when the client closed first. Nothing is left that could be read.
SrvPeerClosed ==
  /\ sSock = "open"
  /\ cTcp = "Unconnected" /\ link = "up"
  /\ c2s = <<>> \/ sNext = "leftover"
  /\ sSock' = "none"
  /\ c2s' = <<>>
  /\ Constructed
  /\ UNCHANGED <<s2c, cTcp, link, cNext>>

-----------------------------------------------------------------------------

SrvReads ==
  \/ SrvRequestConnection \/ SrvHandShake \/ SrvConnectionOK \/ SrvConnectionKind
  \/ SrvNoSuchDriver \/ SrvEquipmentFails \/ SrvSelectedDriver \/ SrvEstablished
  \/ SrvWrongRequest \/ SrvClientRefuses
  \/ SrvNoted \/ SrvFileRequest \/ SrvReloadInterface \/ SrvControl
  \/ SrvUntypedControl \/ SrvUnknownSignal

ServerNext ==
  \/ SrvReads
  \/ SrvReadLeftover
  \/ SrvCheckConnection
  \/ \E t \in Unsolicited : SrvDriverEmits(t)
  \/ SrvDisconnected
  \/ SrvPeerClosed

ServerTypeOK ==
  /\ sAllowed \subseteq ClientPackets
  /\ sLast \in LastRequests
  /\ sConnected \in BOOLEAN
  /\ sDriver \in Selections
  /\ sTimer \in BOOLEAN
  /\ sLost \in 0..MaxLost

=============================================================================
