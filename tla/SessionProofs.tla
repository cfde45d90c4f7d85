--------------------------- MODULE SessionProofs ---------------------------
(***************************************************************************)
(* Theorems about Session, for every set of drivers and revisions, every   *)
(* setting of the server and every number of connections: types (what is   *)
(* in flight are packets with the payload their readers take from them,    *)
(* and lostPackets_ never exceeds connectLostAfterAttempts()), the phases  *)
(* of the set-up, and the implementation of ConnectionProtocol.            *)
(***************************************************************************)
EXTENDS Session, SequenceTheorems, TLAPS

(***************************************************************************)
(* Types.                                                                  *)
(***************************************************************************)

\* Packets without a payload that matters.
PlainFromServer == ServerPackets \ {"HandShake", "MetaSignals", "UiDescription"}
PlainFromClient == ClientPackets \ {"HandShake", "SelectedDriver", "Control"}

\* The packets a handler writes belong to the types of the streams.
LEMMA PacketTyping ==
  /\ \A t \in PlainFromServer : Pkt(t) \in ServerPacket
  /\ \A r \in Revisions : PktWith("HandShake", r) \in ServerPacket
  /\ \A d \in Selections : /\ PktWith("MetaSignals", d) \in ServerPacket
                           /\ PktWith("UiDescription", d) \in ServerPacket
  /\ \A t \in PlainFromClient : Pkt(t) \in ClientPacket
  /\ \A r \in Revisions : PktWith("HandShake", r) \in ClientPacket
  /\ \A d \in Selections : PktWith("SelectedDriver", d) \in ClientPacket
  /\ \A a \in Controls : PktWith("Control", a) \in ClientPacket
BY DEF PlainFromServer, PlainFromClient, Pkt, PktWith, ServerPacket, ClientPacket

\* Writes on either side keep the streams well typed.
LEMMA ToClientType ==
  ASSUME s2c \in Seq(ServerPacket), NEW ms \in Seq(ServerPacket), ToClient(ms)
  PROVE  s2c' \in Seq(ServerPacket)
BY DEF ToClient

\* The same of what the client writes.
LEMMA ToServerType ==
  ASSUME c2s \in Seq(ClientPacket), NEW ms \in Seq(ClientPacket), ToServer(ms)
  PROVE  c2s' \in Seq(ClientPacket)
BY DEF ToServer

\* What a reader takes off a stream, and what stays there.
LEMMA ReadType ==
  /\ c2s \in Seq(ClientPacket) /\ c2s # <<>> =>
       Head(c2s) \in ClientPacket /\ Tail(c2s) \in Seq(ClientPacket)
  /\ s2c \in Seq(ServerPacket) /\ s2c # <<>> =>
       Head(s2c) \in ServerPacket /\ Tail(s2c) \in Seq(ServerPacket)
OBVIOUS

\* A payload that a handler keeps or compares is of the kind its packet promises.
LEMMA PayloadType ==
  /\ \A p \in ClientPacket :
       /\ p.type \in ClientPackets
       /\ p.type = "HandShake" => p.arg \in Revisions
       /\ p.type = "SelectedDriver" => p.arg \in Selections
  /\ \A p \in ServerPacket :
       /\ p.type \in ServerPackets
       /\ p.type \in {"MetaSignals", "UiDescription"} => p.arg \in Selections
BY DEF ClientPacket, ServerPacket, ClientPackets, ServerPackets, Kinds, UserPackets,
       WindowPackets, DataPackets

\* The constructors' values are within the types.
LEMMA TypeInit == Init => TypeOK
<1> SUFFICES ASSUME Init PROVE TypeOK
  OBVIOUS
<1>1. WireTypeOK
  <2>1. <<>> \in Seq(ClientPacket) /\ <<>> \in Seq(ServerPacket)
    OBVIOUS
  <2> QED BY <2>1 DEF Init, WireInit, WireTypeOK, ClientFraming, ServerFraming
<1>2. ServerTypeOK
  <2>1. 0 \in 0..MaxLost
    BY MaxLostAssumption
  <2> QED BY <2>1 DEF Init, ServerInit, ServerTypeOK, Selections, ClientPackets, LastRequests
<1>3. ClientTypeOK
  <2>1. 0 \in 0..MaxConnects
    BY MaxConnectsAssumption
  <2>2. "RequestConnection" \in LastRequests
    BY DEF LastRequests, PacketTypes, ClientPackets
  <2> QED BY <2>1, <2>2, ModesAssumption DEF Init, ClientInit, ClientTypeOK, Selections
<1> QED BY <1>1, <1>2, <1>3 DEF TypeOK

\* One plain packet written by the server or by the client.
LEMMA OneToClient ==
  ASSUME s2c \in Seq(ServerPacket), NEW p \in ServerPacket, ToClient(<<p>>)
  PROVE  s2c' \in Seq(ServerPacket)
<1>1. <<p>> \in Seq(ServerPacket)
  OBVIOUS
<1> QED BY <1>1, ToClientType

\* One packet written by the client keeps its stream well typed.
LEMMA OneToServer ==
  ASSUME c2s \in Seq(ClientPacket), NEW p \in ClientPacket, ToServer(<<p>>)
  PROVE  c2s' \in Seq(ClientPacket)
<1>1. <<p>> \in Seq(ClientPacket)
  OBVIOUS
<1> QED BY <1>1, ToServerType

\* Two packets written by the client at once keep its stream well typed.
LEMMA TwoToServer ==
  ASSUME c2s \in Seq(ClientPacket), NEW p \in ClientPacket, NEW q \in ClientPacket,
         ToServer(<<p, q>>)
  PROVE  c2s' \in Seq(ClientPacket)
<1>1. <<p, q>> \in Seq(ClientPacket)
  OBVIOUS
<1> QED BY <1>1, ToServerType

\* The packets the server writes without a payload that matters.
LEMMA PlainServerPackets ==
  ASSUME NEW t \in {"ConnectionOK", "DriversList", "RefuseConnection", "File", "CommandOk",
                    "CommandError", "CheckConnection", "ViewArray", "ControlArray",
                    "SignalValue", "DriverSettings"} \cup WindowPackets
  PROVE  Pkt(t) \in ServerPacket /\ t \in LastRequests
<1>1. t \in PlainFromServer /\ t \in LastRequests
  BY DEF PlainFromServer, ServerPackets, WindowPackets, DataPackets, LastRequests, PacketTypes
<1> QED BY <1>1, PacketTyping

\* The refusal of the server, alone.
LEMMA RefuseType ==
  ASSUME TypeOK, Refuse(<<>>)
  PROVE  s2c' \in Seq(ServerPacket) /\ sLast' \in LastRequests /\ sSock' = "closing"
<1>1. Pkt("RefuseConnection") \in ServerPacket /\ "RefuseConnection" \in LastRequests
  BY PlainServerPackets
<1>2. ToClient(<<Pkt("RefuseConnection")>>)
  BY DEF Refuse
<1>3. s2c' \in Seq(ServerPacket)
  BY <1>1, <1>2, OneToClient DEF TypeOK, WireTypeOK
<1> QED BY <1>1, <1>3 DEF Refuse

\* The sets the server assigns to allowedReplies_.
LEMMA AllowedTyping ==
  /\ {} \subseteq ClientPackets /\ Kinds \subseteq ClientPackets
  /\ {"RequestConnection", "HandShake", "ConnectionOK", "SelectedDriver", "Control",
       "ConnectionEstablished", "RefuseConnection"} \subseteq ClientPackets
BY DEF ClientPackets, Kinds

\* A window opened while the equipment is being initialised.
LEMMA PromptsType == \A ws \in Prompts : ws \in Seq(ServerPacket)
<1> SUFFICES ASSUME NEW ws \in Prompts PROVE ws \in Seq(ServerPacket)
  OBVIOUS
<1>1. CASE ws = <<>>
  BY <1>1
<1>2. CASE ws # <<>>
  <2>1. PICK t \in Unsolicited \cap WindowPackets : ws = <<Pkt(t)>>
    BY <1>2 DEF Prompts
  <2>2. Pkt(t) \in ServerPacket
    BY PlainServerPackets
  <2> QED BY <2>1, <2>2
<1> QED BY <1>1, <1>2

\* Each case of readDataFromClient_() keeps the types.
LEMMA ServerReadsType ==
  ASSUME TypeOK, SrvReads, UNCHANGED clientVars
  PROVE  TypeOK'
<1> USE DEF TypeOK, WireTypeOK, ServerTypeOK, ClientTypeOK, clientVars, unchangedFraming
<1>0. 0 \in 0..MaxLost
  BY MaxLostAssumption
<1>1. CASE SrvRequestConnection
  <2>1. c2s' \in Seq(ClientPacket)
    BY <1>1, ReadType DEF SrvRequestConnection, TakeRequest
  <2>2. s2c' \in Seq(ServerPacket)
    BY <1>1, PlainServerPackets, OneToClient DEF SrvRequestConnection
  <2>3. sAllowed' \subseteq ClientPackets
    BY <1>1, AllowedTyping DEF SrvRequestConnection
  <2> QED BY <1>0, <1>1, <2>1, <2>2, <2>3 DEF SrvRequestConnection, TakeRequest
<1>2. CASE SrvHandShake
  <2>1. CASE Head(c2s).arg = ServerRevision
    <3>1. c2s' \in Seq(ClientPacket)
      BY <1>2, <2>1, ReadType DEF SrvHandShake
    <3>2. ToClient(<<PktWith("HandShake", ServerRevision)>>)
      BY <1>2, <2>1 DEF SrvHandShake
    <3>3. s2c' \in Seq(ServerPacket)
      BY <3>2, RevisionAssumption, PacketTyping, OneToClient
    <3>4. sAllowed' \subseteq ClientPackets /\ sLast' \in LastRequests
      BY <1>2, <2>1, AllowedTyping DEF SrvHandShake, LastRequests, PacketTypes, ClientPackets
    <3> QED BY <1>0, <1>2, <2>1, <3>1, <3>3, <3>4 DEF SrvHandShake
  <2>2. CASE Head(c2s).arg # ServerRevision
    <3>1. c2s' = <<>> /\ Refuse(<<>>) /\ UNCHANGED sAllowed
      BY <1>2, <2>2 DEF SrvHandShake
    <3> QED BY <1>0, <1>2, <3>1, RefuseType DEF SrvHandShake
  <2> QED BY <2>1, <2>2
<1>3. CASE SrvConnectionOK
  <2>1. c2s' \in Seq(ClientPacket)
    BY <1>3, ReadType DEF SrvConnectionOK, TakeRequest
  <2>2. sAllowed' \subseteq ClientPackets
    BY <1>3, AllowedTyping DEF SrvConnectionOK
  <2> QED BY <1>0, <1>3, <2>1, <2>2 DEF SrvConnectionOK, TakeRequest
<1>4. CASE SrvConnectionKind
  <2>1. c2s' \in Seq(ClientPacket)
    BY <1>4, ReadType DEF SrvConnectionKind, TakeRequest
  <2>2. s2c' \in Seq(ServerPacket) /\ sLast' \in LastRequests
    BY <1>4, PlainServerPackets, OneToClient DEF SrvConnectionKind
  <2>3. sAllowed' \subseteq ClientPackets
    BY <1>4, AllowedTyping DEF SrvConnectionKind
  <2> QED BY <1>0, <1>4, <2>1, <2>2, <2>3 DEF SrvConnectionKind, TakeRequest
<1>5. CASE SrvNoSuchDriver
  BY <1>0, <1>5, RefuseType DEF SrvNoSuchDriver
<1>6. CASE SrvEquipmentFails
  <2>1. c2s' \in Seq(ClientPacket)
    BY <1>6, ReadType DEF SrvEquipmentFails, TakeRequest
  <2>2. PICK ws \in Prompts : ToClient(ws)
    BY <1>6 DEF SrvEquipmentFails
  <2>3. s2c' \in Seq(ServerPacket)
    BY <2>2, PromptsType, ToClientType
  <2> QED BY <1>0, <1>6, <2>1, <2>3 DEF SrvEquipmentFails, TakeRequest
<1>7. CASE SrvSelectedDriver
  <2>1. c2s' \in Seq(ClientPacket)
    BY <1>7, ReadType DEF SrvSelectedDriver, TakeRequest
  <2>2. sDriver' \in Drivers
    BY <1>7 DEF SrvSelectedDriver
  <2> DEFINE description == <<PktWith("MetaSignals", sDriver'),
                              PktWith("UiDescription", sDriver'), Pkt("DriverSettings")>>
  <2>3. PICK ws \in Prompts : ToClient(ws \o description)
    BY <1>7 DEF SrvSelectedDriver
  <2>4. description \in Seq(ServerPacket)
    BY <2>2, PacketTyping, PlainServerPackets DEF Selections
  <2>5. ws \o description \in Seq(ServerPacket)
    <3> HIDE DEF description
    <3> QED BY <2>3, <2>4, PromptsType, ConcatProperties
  <2>6. s2c' \in Seq(ServerPacket)
    <3> HIDE DEF description
    <3> QED BY <2>3, <2>5, ToClientType
  <2>7. sAllowed' \subseteq ClientPackets /\ sLast' \in LastRequests
    BY <1>7, AllowedTyping, PlainServerPackets DEF SrvSelectedDriver
  <2> QED BY <1>0, <1>7, <2>1, <2>2, <2>6, <2>7
          DEF SrvSelectedDriver, TakeRequest, Selections
<1>8. CASE SrvEstablished
  <2>1. c2s' \in Seq(ClientPacket)
    BY <1>8, ReadType DEF SrvEstablished, TakeRequest
  <2>2. <<Pkt("ViewArray"), Pkt("ControlArray")>> \in Seq(ServerPacket)
    BY PlainServerPackets
  <2>3. s2c' \in Seq(ServerPacket)
    BY <1>8, <2>2, ToClientType DEF SrvEstablished
  <2>4. sAllowed' \subseteq ClientPackets /\ sLast' \in LastRequests /\ sTimer' \in BOOLEAN
    BY <1>8, AllowedTyping, PlainServerPackets, FlagsAssumption DEF SrvEstablished
  <2> QED BY <1>0, <1>8, <2>1, <2>3, <2>4 DEF SrvEstablished, TakeRequest
<1>9. CASE SrvWrongRequest
  BY <1>0, <1>9, RefuseType DEF SrvWrongRequest
<1>10. CASE SrvClientRefuses
  BY <1>0, <1>10 DEF SrvClientRefuses
<1>11. CASE SrvNoted
  <2>1. c2s' \in Seq(ClientPacket)
    BY <1>11, ReadType DEF SrvNoted, TakeRequest
  <2> QED BY <1>0, <1>11, <2>1 DEF SrvNoted, TakeRequest
<1>12. CASE SrvFileRequest
  <2>1. c2s' \in Seq(ClientPacket)
    BY <1>12, ReadType DEF SrvFileRequest, TakeRequest
  <2>2. s2c' \in Seq(ServerPacket) /\ sLast' \in LastRequests
    BY <1>12, PlainServerPackets, OneToClient DEF SrvFileRequest
  <2>3. sAllowed' \subseteq ClientPackets
    BY <1>12, AllowedTyping DEF SrvFileRequest
  <2> QED BY <1>0, <1>12, <2>1, <2>2, <2>3 DEF SrvFileRequest, TakeRequest
<1>13. CASE SrvReloadInterface
  <2>1. c2s' \in Seq(ClientPacket)
    BY <1>13, ReadType DEF SrvReloadInterface, TakeRequest
  <2>2. s2c' \in Seq(ServerPacket)
    BY <1>13, PacketTyping, OneToClient DEF SrvReloadInterface
  <2>3. sAllowed' \subseteq ClientPackets /\ sLast' \in LastRequests
    BY <1>13, AllowedTyping DEF SrvReloadInterface, LastRequests, PacketTypes, ServerPackets
  <2> QED BY <1>0, <1>13, <2>1, <2>2, <2>3 DEF SrvReloadInterface, TakeRequest
<1>14. CASE SrvControl
  <2>1. c2s' \in Seq(ClientPacket)
    BY <1>14, ReadType DEF SrvControl, TakeRequest
  <2>2. s2c' \in Seq(ServerPacket) /\ sLast' \in LastRequests
    BY <1>14, PlainServerPackets, OneToClient DEF SrvControl
  <2> QED BY <1>0, <1>14, <2>1, <2>2 DEF SrvControl, TakeRequest
<1>15. CASE SrvUnknownSignal
  <2>1. c2s' \in Seq(ClientPacket)
    BY <1>15, ReadType DEF SrvUnknownSignal, TakeRequest
  <2>2. s2c' \in Seq(ServerPacket) /\ sLast' \in LastRequests
    BY <1>15, PlainServerPackets, OneToClient DEF SrvUnknownSignal
  <2> QED BY <1>0, <1>15, <2>1, <2>2 DEF SrvUnknownSignal, TakeRequest, ServerFraming
<1>16. CASE SrvUntypedControl
  <2>1. c2s' \in Seq(ClientPacket)
    BY <1>16, ReadType DEF SrvUntypedControl, TakeRequest
  <2> QED BY <1>0, <1>16, <2>1 DEF SrvUntypedControl, TakeRequest
<1> QED BY <1>1, <1>2, <1>3, <1>4, <1>5, <1>6, <1>7, <1>8, <1>9, <1>10, <1>11, <1>12,
           <1>13, <1>14, <1>15, <1>16 DEF SrvReads

\* Every step of the server keeps the types.
LEMMA ServerType ==
  ASSUME TypeOK, ServerStep
  PROVE  TypeOK'
<1>1. CASE SrvReads
  BY <1>1, ServerReadsType DEF ServerStep
<1> USE DEF TypeOK, WireTypeOK, ServerTypeOK, ClientTypeOK, clientVars, unchangedFraming,
            ServerStep
<1>0. 0 \in 0..MaxLost
  BY MaxLostAssumption
<1>2. CASE SrvReadLeftover
  BY <1>0, <1>2, RefuseType DEF SrvReadLeftover
<1>3. CASE SrvCheckConnection
  <2>1. CASE sLost >= MaxLost
    BY <1>3, <2>1 DEF SrvCheckConnection
  <2>2. CASE ~(sLost >= MaxLost)
    <3>1. sLost + 1 \in 0..MaxLost
      BY <2>2, MaxLostAssumption
    <3>2. s2c' \in Seq(ServerPacket) /\ sLast' \in LastRequests
      BY <1>3, <2>2, PlainServerPackets, OneToClient DEF SrvCheckConnection
    <3> QED BY <1>3, <2>2, <3>1, <3>2 DEF SrvCheckConnection
  <2> QED BY <2>1, <2>2
<1>4. CASE \E t \in Unsolicited : SrvDriverEmits(t)
  <2>1. PICK t \in Unsolicited : SrvDriverEmits(t)
    BY <1>4
  <2>2. Pkt(t) \in ServerPacket /\ t \in LastRequests
    BY UnsolicitedAssumption, PlainServerPackets
  <2>3. s2c' \in Seq(ServerPacket)
    BY <2>1, <2>2, OneToClient DEF SrvDriverEmits
  <2> QED BY <2>1, <2>2, <2>3 DEF SrvDriverEmits
<1>5. CASE SrvDisconnected
  <2>1. c2s' \in Seq(ClientPacket)
    BY <1>5 DEF SrvDisconnected
  <2>2. /\ sAllowed' \subseteq ClientPackets /\ sLast' \in LastRequests
        /\ sDriver' \in Selections /\ sNext' \in ServerFraming
    BY <1>5, AllowedTyping
    DEF SrvDisconnected, Constructed, LastRequests, Selections, ServerFraming
  <2> QED BY <1>0, <1>5, <2>1, <2>2 DEF SrvDisconnected, Constructed
<1>6. CASE SrvPeerClosed
  <2>1. c2s' \in Seq(ClientPacket)
    BY <1>6 DEF SrvPeerClosed
  <2>2. /\ sAllowed' \subseteq ClientPackets /\ sLast' \in LastRequests
        /\ sDriver' \in Selections /\ sNext' \in ServerFraming
    BY <1>6, AllowedTyping
    DEF SrvPeerClosed, Constructed, LastRequests, Selections, ServerFraming
  <2> QED BY <1>0, <1>6, <2>1, <2>2 DEF SrvPeerClosed, Constructed
<1> QED BY <1>1, <1>2, <1>3, <1>4, <1>5, <1>6 DEF ServerNext

\* The plain packets of the client.
LEMMA PlainClientPackets ==
  ASSUME NEW t \in {"RequestConnection", "ConnectionOK", "ConnectionEstablished",
                    "RefuseConnection"} \cup Kinds \cup UserPackets
  PROVE  Pkt(t) \in ClientPacket /\ t \in LastRequests
<1>1. t \in PlainFromClient /\ t \in LastRequests
  BY DEF PlainFromClient, ClientPackets, LastRequests, PacketTypes, Kinds, UserPackets
<1> QED BY <1>1, PacketTyping

\* The packets whose type the client stores in lastRequest_.
LEMMA RequestNames ==
  {"HandShake", "SelectedDriver", "Control", "RequestConnection"} \subseteq LastRequests
BY DEF LastRequests, PacketTypes, ClientPackets

\* The sets the client assigns to allowedReplies_.
LEMMA AnnouncedTyping ==
  {"ConnectionOK", "CheckConnection", "File", "ViewArray", "ControlArray", "SignalValue",
   "RefuseConnection", "UiDescription", "MetaSignals", "DriverSettings", "DriversList",
   "HandShake", "CommandOk", "CommandError"} \subseteq PacketTypes
BY DEF PacketTypes, ServerPackets, DataPackets, WindowPackets

\* sendRefuseConnection_() and sendSelectedDriverUuid_() of the client.
LEMMA CliRefuseType ==
  ASSUME TypeOK, CliRefuse
  PROVE  c2s' \in Seq(ClientPacket) /\ cLast' \in LastRequests
BY PlainClientPackets, OneToServer DEF TypeOK, WireTypeOK, CliRefuse

\* sendSelectedDriverUuid_() of the client.
LEMMA SelectDriverType ==
  ASSUME TypeOK, NEW d \in Selections, SelectDriver(d)
  PROVE  /\ c2s' \in Seq(ClientPacket) /\ cLast' \in LastRequests
         /\ cAllowed' \subseteq PacketTypes
<1>1. c2s' \in Seq(ClientPacket)
  BY PacketTyping, OneToServer DEF TypeOK, WireTypeOK, SelectDriver
<1> QED BY <1>1, RequestNames, AnnouncedTyping DEF SelectDriver

\* What is taken off the stream, or given up with it.
LEMMA ConsumeType ==
  ASSUME TypeOK, s2c # <<>>
  PROVE  /\ Consume => s2c' \in Seq(ServerPacket)
         /\ LoseFraming => s2c' \in Seq(ServerPacket) /\ cNext' \in ClientFraming
<1>1. <<>> \in Seq(ServerPacket)
  OBVIOUS
<1>2. Consume => s2c' \in Seq(ServerPacket)
  BY ReadType DEF TypeOK, WireTypeOK, Consume
<1>3. LoseFraming => s2c' \in Seq(ServerPacket) /\ cNext' \in ClientFraming
  BY <1>1 DEF LoseFraming, ClientFraming
<1> QED BY <1>2, <1>3

\* A reader at work sees its packet.
LEMMA HeadType ==
  ASSUME TypeOK, s2c # <<>>
  PROVE  /\ Head(s2c).type \in ServerPackets
         /\ Head(s2c).type \in {"MetaSignals", "UiDescription"} => Head(s2c).arg \in Selections
BY ReadType, PayloadType DEF TypeOK, WireTypeOK

\* What the client leaves behind when it closes its socket.
LEMMA CloseType ==
  ASSUME CloseConnection
  PROVE  /\ s2c' \in Seq(ServerPacket)
         /\ cTcp' \in {"Unconnected", "Connecting", "Connected"}
         /\ cPanel' \in BOOLEAN
<1>1. <<>> \in Seq(ServerPacket)
  OBVIOUS
<1> QED BY <1>1 DEF CloseConnection

\* What it leaves behind when it shows an error.
LEMMA ErrorType ==
  ASSUME ShowError
  PROVE  s2c' \in Seq(ServerPacket) /\ cBox' \in BOOLEAN
<1>1. <<>> \in Seq(ServerPacket)
  OBVIOUS
<1> QED BY <1>1 DEF ShowError

\* The packets the client reads, whole or broken.
LEMMA ClientReadsType ==
  ASSUME TypeOK, CliReads, UNCHANGED serverVars
  PROVE  TypeOK'
<1> USE DEF TypeOK, WireTypeOK, ServerTypeOK, ClientTypeOK, serverVars, settledVars, Ends,
            Incoming
<1>1. CASE CliInitConnection
  <2>1. s2c' \in Seq(ServerPacket) /\ cNext' \in ClientFraming
    BY <1>1, ConsumeType DEF CliInitConnection
  <2>2. CASE cLast = "RequestConnection"
    <3>1. c2s' \in Seq(ClientPacket)
      BY <1>1, <2>2, PacketTyping, OneToServer DEF CliInitConnection
    <3>2. cLast' \in LastRequests /\ cAllowed' \subseteq PacketTypes
      BY <1>1, <2>2, RequestNames, AnnouncedTyping DEF CliInitConnection
    <3> QED BY <1>1, <2>1, <3>1, <3>2 DEF CliInitConnection
  <2>3. CASE cLast # "RequestConnection"
    BY <1>1, <2>1, <2>3 DEF CliInitConnection
  <2> QED BY <2>2, <2>3
<1>2. CASE CliHandShake
  <2>1. s2c' \in Seq(ServerPacket) /\ cNext' \in ClientFraming
    BY <1>2, ConsumeType DEF CliHandShake
  <2>2. CASE cLast = "HandShake" /\ Head(s2c).arg = cRev
    <3>1. /\ Pkt("ConnectionOK") \in ClientPacket
          /\ Pkt(cMode) \in ClientPacket /\ cMode \in LastRequests
      BY PlainClientPackets
    <3>2. c2s' \in Seq(ClientPacket) /\ cLast' \in LastRequests
      BY <1>2, <2>2, <3>1, TwoToServer DEF CliHandShake
    <3>3. cAllowed' \subseteq PacketTypes
      BY <1>2, <2>2, AnnouncedTyping DEF CliHandShake
    <3> QED BY <1>2, <2>1, <3>2, <3>3 DEF CliHandShake
  <2>3. CASE cLast = "HandShake" /\ Head(s2c).arg # cRev
    <3>1. CliRefuse /\ UNCHANGED cAllowed
      BY <1>2, <2>3 DEF CliHandShake
    <3> QED BY <1>2, <2>1, <3>1, CliRefuseType DEF CliHandShake
  <2>4. CASE cLast # "HandShake"
    BY <1>2, <2>1, <2>4 DEF CliHandShake
  <2> QED BY <2>2, <2>3, <2>4
<1>3. CASE CliDriversList
  <2>1. s2c' \in Seq(ServerPacket)
    BY <1>3, ConsumeType DEF CliDriversList
  <2>2. CASE (\E d \in Drivers : SelectDriver(d)) /\ UNCHANGED cDialog
    <3>1. PICK d \in Drivers : SelectDriver(d)
      BY <2>2
    <3>2. d \in Selections
      BY DEF Selections
    <3> QED BY <1>3, <2>1, <2>2, <3>1, <3>2, SelectDriverType DEF CliDriversList
  <2>3. CASE cDialog' = (cLast = "WithoutTicket") /\ UNCHANGED <<c2s, cLast, cAllowed>>
    BY <1>3, <2>1, <2>3 DEF CliDriversList
  <2> QED BY <1>3, <2>2, <2>3 DEF CliDriversList
<1>4. CASE CliDriversListOnly
  BY <1>4, CloseType DEF CliDriversListOnly
<1>5. CASE CliMetaSignals
  <2>1. s2c' \in Seq(ServerPacket) /\ cNext' \in ClientFraming
    BY <1>5, ConsumeType DEF CliMetaSignals
  <2>2. cMeta' \in Selections
    BY <1>5, HeadType DEF CliMetaSignals
  <2>3. cAllowed' \subseteq PacketTypes
    BY <1>5, AnnouncedTyping DEF CliMetaSignals
  <2> QED BY <1>5, <2>1, <2>2, <2>3 DEF CliMetaSignals
<1>6. CASE CliSetupUi
  <2>1. s2c' \in Seq(ServerPacket) /\ cNext' \in ClientFraming
    BY <1>6, ConsumeType DEF CliSetupUi
  <2>2. cUi' \in Selections
    BY <1>6, HeadType DEF CliSetupUi
  <2>3. cAllowed' \subseteq PacketTypes
    BY <1>6, AnnouncedTyping DEF CliSetupUi
  <2> QED BY <1>6, <2>1, <2>2, <2>3 DEF CliSetupUi
<1>7. CASE CliDriverSettings
  <2>1. s2c' \in Seq(ServerPacket) /\ cNext' \in ClientFraming
    BY <1>7, ConsumeType DEF CliDriverSettings
  <2>2. c2s' \in Seq(ClientPacket) /\ cLast' \in LastRequests
    BY <1>7, PlainClientPackets, OneToServer DEF CliDriverSettings
  <2>3. cAllowed' \subseteq PacketTypes
    BY <1>7, AnnouncedTyping DEF CliDriverSettings
  <2> QED BY <1>7, <2>1, <2>2, <2>3 DEF CliDriverSettings
<1>8. CASE CliSetupNotice
  <2>1. s2c' \in Seq(ServerPacket)
    BY <1>8, ConsumeType DEF CliSetupNotice
  <2> QED BY <1>8, <2>1 DEF CliSetupNotice
<1>9. CASE CliCheckConnection
  <2>1. s2c' \in Seq(ServerPacket)
    BY <1>9, ConsumeType DEF CliCheckConnection
  <2>2. c2s' \in Seq(ClientPacket) /\ cLast' \in LastRequests
    BY <1>9, PlainClientPackets, OneToServer DEF CliCheckConnection
  <2> QED BY <1>9, <2>1, <2>2 DEF CliCheckConnection
<1>10. CASE CliData
  <2>1. s2c' \in Seq(ServerPacket)
    BY <1>10, ConsumeType DEF CliData
  <2> QED BY <1>10, <2>1 DEF CliData
<1>11. CASE CliReloadedUi
  <2>1. s2c' \in Seq(ServerPacket)
    BY <1>11, ConsumeType DEF CliReloadedUi
  <2>2. cUi' \in Selections
    BY <1>11, HeadType DEF CliReloadedUi
  <2> QED BY <1>11, <2>1, <2>2 DEF CliReloadedUi
<1>12. CASE CliUnknownReply
  <2>1. s2c' \in Seq(ServerPacket) /\ cNext' \in ClientFraming
    BY <1>12, ConsumeType DEF CliUnknownReply
  <2>2. c2s' \in Seq(ClientPacket) /\ cLast' \in LastRequests
    BY <1>12, CliRefuseType DEF CliUnknownReply
  <2> QED BY <1>12, <2>1, <2>2 DEF CliUnknownReply
<1> QED BY <1>1, <1>2, <1>3, <1>4, <1>5, <1>6, <1>7, <1>8, <1>9, <1>10, <1>11, <1>12
        DEF CliReads

\* What the user does in the client's window.
LEMMA UserType ==
  ASSUME TypeOK, UserNext, UNCHANGED serverVars
  PROVE  TypeOK'
<1> USE DEF TypeOK, WireTypeOK, ServerTypeOK, ClientTypeOK, serverVars, settledVars, Ends
<1>1. CASE CliConnect
  <2>1. connects' \in 0..MaxConnects
    BY <1>1, MaxConnectsAssumption DEF CliConnect
  <2>2. cMode' \in Kinds
    BY <1>1, ModesAssumption DEF CliConnect
  <2> QED BY <1>1, <2>1, <2>2 DEF CliConnect, ClientFraming
<1>2. CASE \E d \in Selections : UserSelects(d)
  BY <1>2, SelectDriverType DEF UserSelects
<1>3. CASE UserCancels
  BY <1>3, CliRefuseType DEF UserCancels
<1>4. CASE \E t \in UserRequests : UserRequest(t)
  <2>1. PICK t \in UserRequests : UserRequest(t)
    BY <1>4
  <2>2. t \in UserPackets
    BY UserRequestsAssumption
  <2>3. c2s' \in Seq(ClientPacket) /\ cLast' \in LastRequests
    BY <2>1, <2>2, PlainClientPackets, OneToServer DEF UserRequest
  <2>4. cAllowed' \subseteq PacketTypes
    BY <2>1, <2>2, AnnouncedTyping DEF UserRequest, Announced, UserPackets
  <2> QED BY <2>1, <2>3, <2>4 DEF UserRequest
<1>5. CASE \E a \in PanelControls : UserControl(a)
  <2>1. PICK a \in Controls : UserControl(a)
    BY <1>5, PanelControlsAssumption
  <2>2. c2s' \in Seq(ClientPacket)
    BY <2>1, PacketTyping, OneToServer DEF UserControl
  <2>3. cLast' \in LastRequests /\ cAllowed' \subseteq PacketTypes
    BY <2>1, RequestNames, AnnouncedTyping DEF UserControl
  <2> QED BY <2>1, <2>2, <2>3 DEF UserControl
<1>6. CASE UserDisconnects
  BY <1>6, CloseType DEF UserDisconnects
<1>7. CASE UserDismisses
  BY <1>7, CloseType DEF UserDismisses
<1> QED BY <1>1, <1>2, <1>3, <1>4, <1>5, <1>6, <1>7 DEF UserNext

\* The client's steps.
LEMMA ClientType ==
  ASSUME TypeOK, ClientStep
  PROVE  TypeOK'
<1>1. CASE CliReads
  BY <1>1, ClientReadsType DEF ClientStep
<1>2. CASE UserNext
  BY <1>2, UserType DEF ClientStep
<1> USE DEF TypeOK, WireTypeOK, ServerTypeOK, ClientTypeOK, serverVars, settledVars, Ends,
            ClientStep
<1>3. CASE CliConnected
  <2>1. c2s' \in Seq(ClientPacket)
    <3>1. c2s' = <<Pkt("RequestConnection")>> /\ Pkt("RequestConnection") \in ClientPacket
      BY <1>3, PlainClientPackets DEF CliConnected
    <3> QED BY <3>1
  <2>2. cLast' \in LastRequests /\ cAllowed' \subseteq PacketTypes
    BY <1>3, RequestNames, AnnouncedTyping DEF CliConnected
  <2> QED BY <1>3, <2>1, <2>2 DEF CliConnected
<1>4. CASE CliConnectFails
  BY <1>4, ErrorType DEF CliConnectFails
<1>5. CASE CliPeerClosed
  BY <1>5, ErrorType DEF CliPeerClosed
<1>6. CASE CliLinkError
  BY <1>6, ErrorType DEF CliLinkError
<1> QED BY <1>1, <1>2, <1>3, <1>4, <1>5, <1>6 DEF ClientNext

\* The steps of the two programs, and the death of the link.
LEMMA TypeStep == TypeOK /\ [Next]_vars => TypeOK'
<1> SUFFICES ASSUME TypeOK, [Next]_vars PROVE TypeOK'
  OBVIOUS
<1>1. CASE LinkDies
  BY <1>1 DEF LinkDies, TypeOK, WireTypeOK, ServerTypeOK, ClientTypeOK, serverVars, clientVars
<1>2. CASE UNCHANGED vars
  BY <1>2 DEF vars, TypeOK, WireTypeOK, ServerTypeOK, ClientTypeOK, wireVars, serverVars,
              clientVars
<1> QED BY <1>1, <1>2, ServerType, ClientType DEF Next

\* The streams carry only packets their readers know, with the payload they
\* expect, and lostPackets_ stays within connectLostAfterAttempts() (so that a
\* quint8 cannot wrap), whatever the two programs and their users do.
THEOREM TypeCorrect == Spec => []TypeOK
BY TypeInit, TypeStep, PTL DEF Spec

(***************************************************************************)
(* The phases of the set-up.                                               *)
(***************************************************************************)

\* What SetupInv is about. The client's handlers leave it alone, except that a
\* connection brings a new socket into being.
setupVars == <<sSock, sAllowed, sConnected, sDriver>>

\* No handler of the client, and nothing the user does, touches the members the
\* server tells its phase from; a connection only brings a new socket into being.
LEMMA ClientKeepsSetup ==
  ASSUME ClientStep
  PROVE  \/ /\ UNCHANGED setupVars
            /\ cTcp' = "Connecting" => cTcp = "Connecting" \/ sSock = "none"
         \/ /\ cTcp = "Connecting" /\ cTcp' = "Connected" /\ sSock' = "open"
            /\ UNCHANGED <<sAllowed, sConnected, sDriver>>
<1> USE DEF ClientStep, serverVars, setupVars, Ends, CloseConnection
<1>1. CASE CliConnected
  BY <1>1 DEF CliConnected
<1>2. CASE CliConnectFails
  BY <1>2 DEF CliConnectFails
<1>3. CASE CliReads
  <2>1. CASE CliInitConnection  BY <2>1 DEF CliInitConnection
  <2>2. CASE CliHandShake       BY <2>2 DEF CliHandShake
  <2>3. CASE CliDriversList     BY <2>3 DEF CliDriversList
  <2>4. CASE CliDriversListOnly BY <2>4 DEF CliDriversListOnly
  <2>5. CASE CliMetaSignals     BY <2>5 DEF CliMetaSignals
  <2>6. CASE CliSetupUi         BY <2>6 DEF CliSetupUi
  <2>7. CASE CliDriverSettings  BY <2>7 DEF CliDriverSettings
  <2>8. CASE CliSetupNotice     BY <2>8 DEF CliSetupNotice
  <2>9. CASE CliCheckConnection BY <2>9 DEF CliCheckConnection
  <2>10. CASE CliData           BY <2>10 DEF CliData
  <2>11. CASE CliReloadedUi     BY <2>11 DEF CliReloadedUi
  <2>12. CASE CliUnknownReply   BY <2>12 DEF CliUnknownReply
  <2> QED BY <1>3, <2>1, <2>2, <2>3, <2>4, <2>5, <2>6, <2>7, <2>8, <2>9, <2>10,
             <2>11, <2>12 DEF CliReads
<1>4. CASE UserNext
  <2>1. CASE CliConnect  BY <2>1 DEF CliConnect
  <2>2. CASE \E d \in Selections : UserSelects(d)  BY <2>2 DEF UserSelects
  <2>3. CASE UserCancels  BY <2>3 DEF UserCancels
  <2>4. CASE \E t \in UserRequests : UserRequest(t)  BY <2>4 DEF UserRequest
  <2>5. CASE \E a \in PanelControls : UserControl(a)  BY <2>5 DEF UserControl
  <2>6. CASE UserDisconnects  BY <2>6 DEF UserDisconnects
  <2>7. CASE UserDismisses  BY <2>7 DEF UserDismisses
  <2> QED BY <1>4, <2>1, <2>2, <2>3, <2>4, <2>5, <2>6, <2>7 DEF UserNext
<1>5. CASE CliPeerClosed
  BY <1>5 DEF CliPeerClosed
<1>6. CASE CliLinkError
  BY <1>6 DEF CliLinkError
<1> QED BY <1>1, <1>2, <1>3, <1>4, <1>5, <1>6 DEF ClientNext

\* Before the first connection there is no socket and nothing is selected.
LEMMA SetupInvInit == Init => SetupInv
BY DEF Init, WireInit, ServerInit, SetupInv

\* SetupInv is inductive by itself.
LEMMA SetupInvStep == SetupInv /\ [Next]_vars => SetupInv'
<1> SUFFICES ASSUME SetupInv, [Next]_vars PROVE SetupInv'
  OBVIOUS
<1> USE DEF SetupInv
<1>1. CASE ServerStep
  <2> USE NoDriverAssumption DEF unchangedFraming, Refuse, TakeRequest
  <2>1. CASE SrvReads
    <3>1. CASE SrvRequestConnection  BY <3>1 DEF SrvRequestConnection
    <3>2. CASE SrvHandShake          BY <3>2 DEF SrvHandShake
    <3>3. CASE SrvConnectionOK       BY <3>3 DEF SrvConnectionOK, Kinds
    <3>4. CASE SrvConnectionKind     BY <3>4 DEF SrvConnectionKind, Kinds
    <3>5. CASE SrvNoSuchDriver       BY <3>5 DEF SrvNoSuchDriver
    <3>6. CASE SrvEquipmentFails     BY <3>6 DEF SrvEquipmentFails
    <3>7. CASE SrvSelectedDriver     BY <3>7 DEF SrvSelectedDriver
    <3>8. CASE SrvEstablished        BY <3>8 DEF SrvEstablished, Kinds
    <3>9. CASE SrvWrongRequest       BY <3>9 DEF SrvWrongRequest
    <3>10. CASE SrvClientRefuses     BY <3>10 DEF SrvClientRefuses
    <3>11. CASE SrvNoted             BY <3>11 DEF SrvNoted
    <3>12. CASE SrvFileRequest       BY <3>12 DEF SrvFileRequest
    <3>13. CASE SrvReloadInterface   BY <3>13 DEF SrvReloadInterface
    <3>14. CASE SrvControl           BY <3>14 DEF SrvControl
    <3>15. CASE SrvUnknownSignal     BY <3>15 DEF SrvUnknownSignal
    <3>16. CASE SrvUntypedControl    BY <3>16 DEF SrvUntypedControl
    <3> QED BY <2>1, <3>1, <3>2, <3>3, <3>4, <3>5, <3>6, <3>7, <3>8, <3>9, <3>10,
               <3>11, <3>12, <3>13, <3>14, <3>15, <3>16 DEF SrvReads
  <2>2. CASE SrvReadLeftover     BY <2>2 DEF SrvReadLeftover
  <2>3. CASE SrvCheckConnection  BY <2>3 DEF SrvCheckConnection
  <2>4. CASE \E t \in Unsolicited : SrvDriverEmits(t)  BY <2>4 DEF SrvDriverEmits
  <2>5. CASE SrvDisconnected     BY <2>5 DEF SrvDisconnected, Constructed
  <2>6. CASE SrvPeerClosed       BY <2>6 DEF SrvPeerClosed, Constructed
  <2> QED BY <1>1, <2>1, <2>2, <2>3, <2>4, <2>5, <2>6 DEF ServerStep, ServerNext
<1>2. CASE ClientStep
  BY <1>2, ClientKeepsSetup DEF setupVars
<1>3. CASE LinkDies
  BY <1>3 DEF LinkDies, serverVars
<1>4. CASE UNCHANGED vars
  BY <1>4 DEF vars, wireVars, serverVars
<1> HIDE DEF SetupInv
<1> QED BY <1>1, <1>2, <1>3, <1>4 DEF Next

\* Whatever the peers, the user, the driver and the link do, the socket's members
\* name its phase, and from the selection on there is a driver.
THEOREM SetupInvariant == Spec => []SetupInv
BY SetupInvInit, SetupInvStep, PTL DEF Spec

\* driverImpl_ is never dereferenced while it is NULL: not by a control signal,
\* a reload or the first telemetry of an established connection, whatever the
\* drivers, their equipment and the client do.
THEOREM DriverIsAlive == Spec => []DriverAlive
<1>1. SetupInv => DriverAlive
  BY DEF SetupInv, DriverAlive, Kinds
<1> QED BY <1>1, SetupInvariant, PTL

(***************************************************************************)
(* The refinement of ConnectionProtocol.                                   *)
(***************************************************************************)

\* The initial states map to the protocol's.
LEMMA ProtocolInit == Init => Protocol!Init
BY DEF Init, WireInit, ServerInit, Protocol!Init, Phase

\* Every step is a step of the protocol or leaves phase and driver alone. While
\* a socket is being set up, sAllowed is one of six sets and names the phase.
LEMMA ProtocolStep ==
  ASSUME SetupInv, [Next]_vars
  PROVE  [Protocol!Next]_(Protocol!vars)
<1> USE NoDriverAssumption DEF Protocol!vars
<1>1. CASE ServerStep
  <2> USE DEF unchangedFraming, Refuse, TakeRequest, Phase
  <2>1. CASE SrvReads
    <3>1. CASE SrvRequestConnection
      <4>1. Protocol!Advance
        BY <3>1 DEF SrvRequestConnection, SetupInv, Protocol!Advance, Kinds
      <4> QED BY <4>1 DEF Protocol!Next
    <3>2. CASE SrvHandShake
      <4>1. Protocol!Advance \/ Protocol!Close
        BY <3>2 DEF SrvHandShake, SetupInv, Protocol!Advance, Protocol!Close,
                    Protocol!Setup, Kinds
      <4> QED BY <4>1 DEF Protocol!Next
    <3>3. CASE SrvConnectionOK
      <4>1. Protocol!Advance \/ UNCHANGED <<Phase, sDriver>>
        BY <3>3 DEF SrvConnectionOK, SetupInv, Protocol!Advance, Kinds
      <4> QED BY <4>1 DEF Protocol!Next
    <3>4. CASE SrvConnectionKind
      <4>1. Protocol!Advance
        BY <3>4 DEF SrvConnectionKind, SetupInv, Protocol!Advance, Kinds
      <4> QED BY <4>1 DEF Protocol!Next
    <3>5. CASE SrvNoSuchDriver
      <4>1. Protocol!Close
        BY <3>5 DEF SrvNoSuchDriver, SetupInv, Protocol!Close, Protocol!Setup, Kinds
      <4> QED BY <4>1 DEF Protocol!Next
    <3>6. CASE SrvEquipmentFails
      BY <3>6 DEF SrvEquipmentFails
    <3>7. CASE SrvSelectedDriver
      <4>1. Protocol!Load
        BY <3>7 DEF SrvSelectedDriver, SetupInv, Protocol!Load, Kinds
      <4> QED BY <4>1 DEF Protocol!Next
    <3>8. CASE SrvEstablished
      <4>1. Protocol!Establish
        BY <3>8 DEF SrvEstablished, SetupInv, Protocol!Establish, Kinds
      <4> QED BY <4>1 DEF Protocol!Next
    <3>9. CASE SrvWrongRequest
      <4>1. Protocol!Close
        BY <3>9 DEF SrvWrongRequest, SetupInv, Protocol!Close, Protocol!Setup, Kinds
      <4> QED BY <4>1 DEF Protocol!Next
    <3>10. CASE SrvClientRefuses
      <4>1. Protocol!Close
        BY <3>10 DEF SrvClientRefuses, SetupInv, Protocol!Close, Protocol!Setup, Kinds
      <4> QED BY <4>1 DEF Protocol!Next
    <3>11. CASE SrvNoted            BY <3>11 DEF SrvNoted
    <3>12. CASE SrvFileRequest      BY <3>12 DEF SrvFileRequest
    <3>13. CASE SrvReloadInterface  BY <3>13 DEF SrvReloadInterface
    <3>14. CASE SrvControl          BY <3>14 DEF SrvControl
    <3>15. CASE SrvUnknownSignal    BY <3>15 DEF SrvUnknownSignal
    <3>16. CASE SrvUntypedControl   BY <3>16 DEF SrvUntypedControl
    <3> QED BY <2>1, <3>1, <3>2, <3>3, <3>4, <3>5, <3>6, <3>7, <3>8, <3>9, <3>10,
               <3>11, <3>12, <3>13, <3>14, <3>15, <3>16 DEF SrvReads
  <2>2. CASE SrvReadLeftover
    <3>1. Protocol!Close
      BY <2>2 DEF SrvReadLeftover, SetupInv, Protocol!Close, Protocol!Setup, Kinds
    <3> QED BY <3>1 DEF Protocol!Next
  <2>3. CASE SrvCheckConnection
    <3>1. Protocol!Close \/ UNCHANGED <<Phase, sDriver>>
      BY <2>3 DEF SrvCheckConnection, SetupInv, Protocol!Close, Protocol!Setup, Kinds
    <3> QED BY <3>1 DEF Protocol!Next
  <2>4. CASE \E t \in Unsolicited : SrvDriverEmits(t)
    BY <2>4 DEF SrvDriverEmits
  <2>5. CASE SrvDisconnected
    <3>1. Protocol!Release
      BY <2>5 DEF SrvDisconnected, Constructed, Protocol!Release
    <3> QED BY <3>1 DEF Protocol!Next
  <2>6. CASE SrvPeerClosed
    <3>1. Protocol!Release
      BY <2>6 DEF SrvPeerClosed, Constructed, Protocol!Release
    <3> QED BY <3>1 DEF Protocol!Next
  <2> QED BY <1>1, <2>1, <2>2, <2>3, <2>4, <2>5, <2>6 DEF ServerStep, ServerNext
<1>2. CASE ClientStep
  <2>1. CASE UNCHANGED setupVars
    BY <2>1 DEF setupVars, Phase
  <2>2. CASE /\ cTcp = "Connecting" /\ cTcp' = "Connected" /\ sSock' = "open"
             /\ UNCHANGED <<sAllowed, sConnected, sDriver>>
    <3>1. Protocol!Accept
      BY <2>2 DEF SetupInv, Phase, Protocol!Accept
    <3> QED BY <3>1 DEF Protocol!Next
  <2> QED BY <1>2, <2>1, <2>2, ClientKeepsSetup
<1>3. CASE LinkDies
  BY <1>3 DEF LinkDies, serverVars, Phase
<1>4. CASE UNCHANGED vars
  BY <1>4 DEF vars, wireVars, serverVars, Phase
<1> QED BY <1>1, <1>2, <1>3, <1>4 DEF Next

\* The socket implements the protocol that server_side_socket.h describes: its
\* phases in order, one driver from the selection to the end of the socket.
THEOREM SessionImplementsProtocol == Spec => ImplementsProtocol
<1>1. Spec => Protocol!Init /\ [][Protocol!Next]_(Protocol!vars)
  BY ProtocolInit, ProtocolStep, SetupInvariant, PTL DEF Spec
<1> QED BY <1>1 DEF ImplementsProtocol, Protocol!Spec

=============================================================================
