----------------------- MODULE SessionInvariantProofs -----------------------
(***************************************************************************)
(* The safety invariants of Session, for every set of drivers and          *)
(* revisions, every setting of the server, any number of packets in flight *)
(* and of connections. They rest on one another: the packets in flight     *)
(* tell what each end has done, and each end waits for the other but in    *)
(* the cases that are named.                                               *)
(***************************************************************************)
EXTENDS SessionProofs, FiniteSetTheorems

-----------------------------------------------------------------------------
(* Packets that are read and written.                                      *)

\* The first packet of a stream is read.
LEMMA TailOf ==
  ASSUME NEW S, NEW s \in Seq(S), s # <<>>
  PROVE  /\ Tail(s) \in Seq(S) /\ Len(Tail(s)) = Len(s) - 1 /\ Len(s) \in Nat /\ Len(s) >= 1
         /\ DOMAIN s = 1 .. Len(s) /\ DOMAIN Tail(s) = 1 .. Len(s) - 1
         /\ \A i \in DOMAIN Tail(s) : i + 1 \in DOMAIN s /\ Tail(s)[i] = s[i + 1]
         /\ 1 \in DOMAIN s /\ Head(s) = s[1] /\ Head(s) \in S
OBVIOUS

\* Packets are added to a stream.
LEMMA Added ==
  ASSUME NEW S, NEW s \in Seq(S), NEW m \in Seq(S)
  PROVE  /\ s \o m \in Seq(S)
         /\ \A i \in DOMAIN s : i \in DOMAIN (s \o m) /\ (s \o m)[i] = s[i]
         /\ \A i \in DOMAIN (s \o m) :
              \/ i \in DOMAIN s /\ (s \o m)[i] = s[i]
              \/ \E j \in DOMAIN m : i = Len(s) + j /\ (s \o m)[i] = m[j]
         /\ \A j \in DOMAIN m : Len(s) + j \in DOMAIN (s \o m) /\ (s \o m)[Len(s) + j] = m[j]
<1>1. /\ DOMAIN s = 1 .. Len(s) /\ DOMAIN m = 1 .. Len(m) /\ Len(s) \in Nat /\ Len(m) \in Nat
      /\ DOMAIN (s \o m) = 1 .. Len(s) + Len(m) /\ s \o m \in Seq(S)
      /\ \A i \in 1 .. Len(s) + Len(m) :
           (s \o m)[i] = IF i <= Len(s) THEN s[i] ELSE m[i - Len(s)]
  OBVIOUS
<1>2. ASSUME NEW i \in DOMAIN (s \o m)
      PROVE  \/ i \in DOMAIN s /\ (s \o m)[i] = s[i]
             \/ \E j \in DOMAIN m : i = Len(s) + j /\ (s \o m)[i] = m[j]
  <2>1. CASE i <= Len(s)
    BY <1>1, <2>1
  <2>2. CASE ~(i <= Len(s))
    <3>1. i - Len(s) \in DOMAIN m /\ i = Len(s) + (i - Len(s))
          /\ (s \o m)[i] = m[i - Len(s)]
      BY <1>1, <2>2
    <3> QED BY <3>1
  <2> QED BY <2>1, <2>2
<1>3. \A i \in DOMAIN s : i \in DOMAIN (s \o m) /\ (s \o m)[i] = s[i]
  BY <1>1
<1>4. \A j \in DOMAIN m : Len(s) + j \in DOMAIN (s \o m) /\ (s \o m)[Len(s) + j] = m[j]
  BY <1>1
<1> QED BY <1>1, <1>2, <1>3, <1>4

-----------------------------------------------------------------------------
(* What the two ends know of each other.                                   *)

\* Packets of the client that end a set-up: those of a gesture, and the refusal.
Soft == UserPackets \cup {"RefuseConnection"}
\* Packets of the client over an established connection.
Regular == Soft \cup {"ConnectionOK", "Control"}

\* Nothing of the set-up is read before the set-up ends.
Spoiled(s) == s = <<>> \/ Head(s).type \in Soft

\* What may follow a packet of the set-up before the server answers it.
Follows(s) ==
  CASE Head(s).type = "ConnectionOK" ->
         Tail(s) # <<>> /\ Head(Tail(s)).type \in Kinds /\ Spoiled(Tail(Tail(s)))
    [] Head(s).type = "ConnectionEstablished" ->
         \A i \in DOMAIN Tail(s) : Tail(s)[i].type \in Regular
    [] OTHER -> Spoiled(Tail(s))

\* The packets on their way to the server are those it waits for.
OrderInv ==
  sSock = "open" =>
    /\ sConnected => \A i \in DOMAIN c2s : c2s[i].type \in Regular
    /\ ~sConnected /\ ~Spoiled(c2s) => Head(c2s).type \in sAllowed \ {"Control"} /\ Follows(c2s)
    /\ ~sConnected /\ "ConnectionOK" \in sAllowed => sLast = "HandShake"

\* Only a client that is connected and reads has packets in front of it.
StreamsInv ==
  /\ s2c # <<>> => cTcp = "Connected" /\ link = "up" /\ cNext = "header"
  /\ cDialog => cTcp # "Connecting"
  /\ cPanel => cTcp = "Connected"
  /\ sTimer => sConnected
  /\ sSock = "none" => sLost = 0

\* The packets that make it the client's turn, and what the server then waits for.
Turns == {"ConnectionOK", "HandShake", "DriversList", "DriverSettings"}
AllowedAfter(t) ==
  CASE t = "ConnectionOK" -> {"HandShake"}
    [] t = "HandShake" -> {"ConnectionOK", "RefuseConnection"}
    [] t = "DriversList" -> {"SelectedDriver", "RefuseConnection"}
    [] t = "DriverSettings" -> {"ConnectionEstablished", "RefuseConnection", "Control"}
Waits(t) == ~sConnected /\ sAllowed = AllowedAfter(t) /\ Spoiled(c2s)

\* While it is the client's turn, by a packet or by the open dialog, the server waits;
\* the panel is there once the client has confirmed, checks are once the server knows.
TurnInv ==
  (sSock = "open" /\ cTcp = "Connected" /\ link = "up") =>
    /\ \A i \in DOMAIN s2c : s2c[i].type \in Turns =>
         /\ Waits(s2c[i].type) /\ ~cDialog
         /\ \A j \in DOMAIN s2c : s2c[j].type \in Turns => i = j
    /\ cDialog => Waits("DriversList")
    /\ cPanel => sConnected \/ (sAllowed = AllowedAfter("DriverSettings") /\ c2s # <<>>)
    /\ \A i \in DOMAIN s2c : s2c[i].type = "CheckConnection" => sConnected

\* Packets of regular exchange come after the settings of the driver, with which the
\* client is connected.
Late == DataPackets \cup {"CheckConnection"}
TelemetryInv ==
  (cTcp = "Connected" /\ ~cConnected) =>
    /\ \A i \in DOMAIN s2c : s2c[i].type \in Late =>
         \E j \in DOMAIN s2c : j < i /\ s2c[j].type = "DriverSettings"
    /\ (sSock = "open" /\ link = "up" /\ cNext = "header" /\ sDriver # NoDriver)
         => \E i \in DOMAIN s2c : s2c[i].type = "DriverSettings"

\* The client has read the description of the server's driver.
Agreed == cConnected /\ cMeta = sDriver /\ cUi = sDriver

AgreeInv ==
  (sSock = "open" /\ cTcp = "Connected") =>
    /\ sConnected => Agreed
    /\ c2s # <<>> /\ Head(c2s).type = "ConnectionEstablished" => Agreed
    /\ \A i \in DOMAIN s2c : s2c[i].type \in {"MetaSignals", "UiDescription"} =>
         s2c[i].arg = sDriver /\ sDriver # NoDriver
    /\ \A i \in DOMAIN s2c : s2c[i].type = "DriverSettings" /\ ~cConnected =>
         /\ cMeta = sDriver \/ \E j \in DOMAIN s2c : j < i /\ s2c[j].type = "MetaSignals"
         /\ cUi = sDriver \/ \E j \in DOMAIN s2c : j < i /\ s2c[j].type = "UiDescription"

\* No revision has been read yet.
Unshaken == ~sConnected /\ sAllowed \in {{"RequestConnection"}, {"HandShake"}}

\* The server knows the client's revision once it has read it.
RevisionInv ==
  sSock = "open" =>
    /\ ~Unshaken => cRev = ServerRevision
    /\ \A i \in DOMAIN c2s : c2s[i].type = "HandShake" => c2s[i].arg = cRev

-----------------------------------------------------------------------------
(* What a step of the server writes.                                       *)

\* It answers a packet of the set-up, and waits.
Answers(t) ==
  /\ sSock' = "open" /\ ~sConnected /\ ~sConnected' /\ sAllowed' = AllowedAfter(t)
  /\ c2s # <<>> /\ ~Spoiled(c2s) /\ c2s' = Tail(c2s)

Writes(m) ==
  /\ m \in Seq(ServerPacket) /\ ToClient(m)
  /\ \A i \in DOMAIN m :
       /\ m[i].type \in Late => sDriver # NoDriver
       /\ m[i].type = "CheckConnection" => sConnected /\ sConnected'
       /\ m[i].type \in {"MetaSignals", "UiDescription"} =>
            m[i].arg = sDriver' /\ sDriver' # NoDriver
       /\ m[i].type \in Turns =>
            Answers(m[i].type) /\ \A j \in DOMAIN m : m[j].type \in Turns => i = j
       /\ m[i].type = "DriverSettings" =>
            /\ \E j \in DOMAIN m : j < i /\ m[j].type = "MetaSignals"
            /\ \E j \in DOMAIN m : j < i /\ m[j].type = "UiDescription"
  /\ sDriver' # sDriver /\ sSock' = "open" =>
       \E i \in DOMAIN m : m[i].type = "DriverSettings"

\* Nothing is written.
LEMMA WritesNothing ==
  ASSUME s2c \in Seq(ServerPacket), UNCHANGED s2c, sDriver' = sDriver \/ sSock' # "open"
  PROVE  Writes(<<>>)
<1>1. s2c \o <<>> = s2c /\ <<>> \in Seq(ServerPacket) /\ DOMAIN <<>> = {}
  OBVIOUS
<1> QED BY <1>1 DEF Writes, ToClient

\* One packet is written.
LEMMA WritesOne ==
  ASSUME NEW p \in ServerPacket, ToClient(<<p>>), sDriver' = sDriver \/ sSock' # "open",
         p.type # "DriverSettings", p.type # "MetaSignals",
         p.type \in Late => sDriver # NoDriver,
         p.type = "CheckConnection" => sConnected /\ sConnected',
         p.type = "UiDescription" => p.arg = sDriver' /\ sDriver' # NoDriver,
         p.type \in Turns => Answers(p.type)
  PROVE  Writes(<<p>>)
<1> DEFINE m == <<p>>
<1>1. m \in Seq(ServerPacket) /\ DOMAIN m = {1} /\ m[1] = p /\ ToClient(m)
  OBVIOUS
<1> HIDE DEF m
<1>2. Writes(m)
  BY <1>1 DEF Writes
<1> QED BY <1>2 DEF m

\* Types of the packets the server writes, apart from each other.
LEMMA PacketKinds ==
  /\ \A t \in {"ConnectionOK", "HandShake", "DriversList", "RefuseConnection", "MetaSignals",
               "UiDescription", "DriverSettings"} \cup WindowPackets : t \notin Late
  /\ \A t \in WindowPackets \cup DataPackets \cup {"RefuseConnection", "CheckConnection"} :
       /\ t \notin Turns /\ t \notin {"MetaSignals", "UiDescription", "DriverSettings"}
  /\ \A t \in Turns \cup DataPackets \cup WindowPackets : t # "CheckConnection"
  /\ "RefuseConnection" # "CheckConnection"
  /\ "MetaSignals" \notin Turns /\ "UiDescription" \notin Turns
BY DEF Late, Turns, WindowPackets, DataPackets

\* Packets that are no answers.
LEMMA WritesPlain ==
  ASSUME NEW t \in WindowPackets \cup DataPackets \cup {"RefuseConnection", "CheckConnection"},
         ToClient(<<Pkt(t)>>), sDriver' = sDriver \/ sSock' # "open",
         t \in DataPackets => sDriver # NoDriver,
         t = "CheckConnection" => sConnected /\ sConnected' /\ sDriver # NoDriver
  PROVE  \E m : Writes(m)
<1>1. Pkt(t) \in ServerPacket /\ Pkt(t).type = t
  <2>1. t \in PlainFromServer
    BY DEF PlainFromServer, ServerPackets, WindowPackets, DataPackets
  <2> QED BY <2>1, PacketTyping DEF Pkt
<1>2. t \in Late => sDriver # NoDriver
  BY PacketKinds DEF Late
<1>3. Writes(<<Pkt(t)>>)
  BY <1>1, <1>2, PacketKinds, WritesOne
<1> QED BY <1>3

\* A refusal, or nothing, at the end of the socket.
LEMMA WritesRefusal ==
  ASSUME Refuse(<<>>)
  PROVE  (\E m : Writes(m)) /\ sSock' = "closing"
<1>1. <<>> \o <<Pkt("RefuseConnection")>> = <<Pkt("RefuseConnection")>>
  OBVIOUS
<1>2. ToClient(<<Pkt("RefuseConnection")>>) /\ sSock' = "closing"
  BY <1>1 DEF Refuse
<1>3. "RefuseConnection" \notin DataPackets
  BY DEF DataPackets
<1> QED BY <1>2, <1>3, WritesPlain

\* An answer of the set-up but the last.
LEMMA WritesAnswer ==
  ASSUME NEW t \in {"ConnectionOK", "DriversList"}, ToClient(<<Pkt(t)>>), Answers(t),
         UNCHANGED sDriver
  PROVE  \E m : Writes(m)
<1>1. Pkt(t) \in ServerPacket /\ Pkt(t).type = t
  <2>1. t \in PlainFromServer
    BY DEF PlainFromServer, ServerPackets, WindowPackets, DataPackets
  <2> QED BY <2>1, PacketTyping DEF Pkt
<1>2. Writes(<<Pkt(t)>>)
  BY <1>1, PacketKinds, WritesOne DEF Turns
<1> QED BY <1>2

\* The packets of a driver's description, after a window that its equipment opened.
LEMMA WritesDescription ==
  ASSUME NEW d \in Drivers, NEW ws \in Prompts, sDriver' = d, Answers("DriverSettings"),
         ToClient(ws \o <<PktWith("MetaSignals", d), PktWith("UiDescription", d),
                          Pkt("DriverSettings")>>)
  PROVE  \E m : Writes(m)
<1> DEFINE desc == <<PktWith("MetaSignals", d), PktWith("UiDescription", d),
                     Pkt("DriverSettings")>>
           m == ws \o desc
<1>1. /\ desc \in Seq(ServerPacket) /\ DOMAIN desc = {1, 2, 3}
      /\ desc[1].type = "MetaSignals" /\ desc[1].arg = d
      /\ desc[2].type = "UiDescription" /\ desc[2].arg = d
      /\ desc[3].type = "DriverSettings"
  <2>1. PktWith("MetaSignals", d) \in ServerPacket /\ PktWith("UiDescription", d) \in ServerPacket
    BY PacketTyping DEF Selections
  <2>2. Pkt("DriverSettings") \in ServerPacket
    BY PlainServerPackets
  <2> QED BY <2>1, <2>2 DEF Pkt, PktWith
<1>2. ws \in Seq(ServerPacket) /\ \A i \in DOMAIN ws : ws[i].type \in WindowPackets
  <2>1. ws \in Seq(ServerPacket)
    BY PromptsType
  <2>2. CASE ws = <<>>
    BY <2>1, <2>2
  <2>3. CASE ws # <<>>
    <3>1. PICK t \in Unsolicited \cap WindowPackets : ws = <<Pkt(t)>>
      BY <2>3 DEF Prompts
    <3> QED BY <2>1, <3>1 DEF Pkt
  <2> QED BY <2>2, <2>3
<1> HIDE DEF desc
<1>3. /\ m \in Seq(ServerPacket)
      /\ \A i \in DOMAIN m : \/ i \in DOMAIN ws /\ m[i].type \in WindowPackets
                             \/ \E j \in {1, 2, 3} : i = Len(ws) + j /\ m[i] = desc[j]
      /\ \A j \in {1, 2, 3} : Len(ws) + j \in DOMAIN m /\ m[Len(ws) + j] = desc[j]
      /\ Len(ws) \in Nat
  <2>1. /\ ws \o desc \in Seq(ServerPacket)
        /\ \A i \in DOMAIN (ws \o desc) :
             \/ i \in DOMAIN ws /\ (ws \o desc)[i] = ws[i]
             \/ \E j \in DOMAIN desc : i = Len(ws) + j /\ (ws \o desc)[i] = desc[j]
        /\ \A j \in DOMAIN desc :
             Len(ws) + j \in DOMAIN (ws \o desc) /\ (ws \o desc)[Len(ws) + j] = desc[j]
    BY <1>1, <1>2, Added
  <2>2. Len(ws) \in Nat
    BY <1>2
  <2> HIDE DEF m
  <2>3. m = ws \o desc
    BY DEF m
  <2> QED BY <2>1, <2>2, <2>3, <1>1, <1>2
<1>4. ToClient(m)
  BY DEF desc
<1> HIDE DEF m
<1>5. d # NoDriver
  BY NoDriverAssumption
<1>6. \A i \in DOMAIN m :
        \/ m[i].type \in WindowPackets
        \/ m[i].type = "MetaSignals" /\ m[i].arg = d
        \/ m[i].type = "UiDescription" /\ m[i].arg = d
        \/ m[i].type = "DriverSettings" /\ i = Len(ws) + 3
  BY <1>1, <1>3
<1>7. /\ Len(ws) + 1 \in DOMAIN m /\ m[Len(ws) + 1].type = "MetaSignals"
      /\ Len(ws) + 2 \in DOMAIN m /\ m[Len(ws) + 2].type = "UiDescription"
      /\ Len(ws) + 3 \in DOMAIN m /\ m[Len(ws) + 3].type = "DriverSettings"
      /\ Len(ws) + 1 < Len(ws) + 3 /\ Len(ws) + 2 < Len(ws) + 3
  BY <1>1, <1>3
<1>8. \A t \in WindowPackets : /\ t \notin Late /\ t \notin Turns /\ t # "CheckConnection"
                               /\ t # "MetaSignals" /\ t # "UiDescription"
                               /\ t # "DriverSettings"
  BY PacketKinds
<1>9. ASSUME NEW i \in DOMAIN m
      PROVE  /\ m[i].type \notin Late /\ m[i].type # "CheckConnection"
             /\ m[i].type \in {"MetaSignals", "UiDescription"} =>
                  m[i].arg = sDriver' /\ sDriver' # NoDriver
             /\ m[i].type \in Turns => m[i].type = "DriverSettings" /\ i = Len(ws) + 3
  BY <1>5, <1>6, <1>8, PacketKinds
<1>10. ASSUME NEW i \in DOMAIN m, m[i].type = "DriverSettings"
       PROVE  /\ \E j \in DOMAIN m : j < i /\ m[j].type = "MetaSignals"
              /\ \E j \in DOMAIN m : j < i /\ m[j].type = "UiDescription"
  <2>1. i = Len(ws) + 3
    BY <1>9, <1>10 DEF Turns
  <2> QED BY <1>7, <2>1
<1>11. ASSUME NEW i \in DOMAIN m, m[i].type \in Turns
       PROVE  Answers(m[i].type) /\ \A j \in DOMAIN m : m[j].type \in Turns => i = j
  BY <1>9, <1>11
<1>12. Writes(m)
  BY <1>3, <1>4, <1>7, <1>9, <1>10, <1>11 DEF Writes
<1> QED BY <1>12

\* Every step of the server writes so.
LEMMA ServerWrites ==
  ASSUME TypeOK, SetupInv, StreamsInv, ServerStep
  PROVE  \E m : Writes(m)
<1> USE DEF unchangedFraming
<1>t. s2c \in Seq(ServerPacket) /\ c2s \in Seq(ClientPacket)
  BY DEF TypeOK, WireTypeOK
<1>d. /\ sSock = "open" /\ sConnected => sDriver # NoDriver
      /\ sSock = "open" /\ ~sConnected /\ "ConnectionEstablished" \in sAllowed
           => sDriver # NoDriver
  BY NoDriverAssumption DEF SetupInv, Kinds
<1>s. \A t \in {"RequestConnection", "HandShake", "SelectedDriver"} \cup Kinds : t \notin Soft
  BY DEF Soft, UserPackets, Kinds
<1>1. CASE SrvRequestConnection
  <2>1. Answers("ConnectionOK")
    BY <1>1, <1>s DEF SrvRequestConnection, TakeRequest, Answers, Spoiled, AllowedAfter
  <2> QED BY <1>1, <2>1, WritesAnswer DEF SrvRequestConnection
<1>2. CASE SrvHandShake
  <2>1. CASE Head(c2s).arg = ServerRevision
    <3>1. Answers("HandShake")
      BY <1>2, <2>1, <1>s DEF SrvHandShake, Answers, Spoiled, AllowedAfter
    <3>2. /\ PktWith("HandShake", ServerRevision) \in ServerPacket
          /\ PktWith("HandShake", ServerRevision).type = "HandShake"
      BY PacketTyping, RevisionAssumption DEF PktWith
    <3>3. ToClient(<<PktWith("HandShake", ServerRevision)>>) /\ sDriver' = sDriver
      BY <1>2, <2>1 DEF SrvHandShake
    <3>4. Writes(<<PktWith("HandShake", ServerRevision)>>)
      BY <3>1, <3>2, <3>3, PacketKinds, WritesOne DEF Turns
    <3> QED BY <3>4
  <2>2. CASE Head(c2s).arg # ServerRevision
    BY <1>2, <2>2, WritesRefusal DEF SrvHandShake
  <2> QED BY <2>1, <2>2
<1>3. CASE SrvConnectionOK
  BY <1>3, <1>t, WritesNothing DEF SrvConnectionOK
<1>4. CASE SrvConnectionKind
  <2>1. Answers("DriversList")
    BY <1>4, <1>s DEF SrvConnectionKind, TakeRequest, Answers, Spoiled, AllowedAfter
  <2> QED BY <1>4, <2>1, WritesAnswer DEF SrvConnectionKind
<1>5. CASE SrvNoSuchDriver
  BY <1>5, WritesRefusal DEF SrvNoSuchDriver
<1>6. CASE SrvEquipmentFails
  <2>1. PICK ws \in Prompts : ToClient(ws)
    BY <1>6 DEF SrvEquipmentFails
  <2>2. sDriver' = sDriver
    BY <1>6 DEF SrvEquipmentFails
  <2>3. CASE ws = <<>>
    <3>1. s2c \o <<>> = s2c
      BY <1>t
    <3>2. s2c' = s2c
      BY <2>1, <2>3, <3>1 DEF ToClient
    <3> QED BY <3>2, <1>t, <2>2, WritesNothing
  <2>4. CASE ws # <<>>
    <3>1. PICK t \in Unsolicited \cap WindowPackets : ws = <<Pkt(t)>>
      BY <2>4 DEF Prompts
    <3>2. t \notin DataPackets /\ t # "CheckConnection"
      BY PacketKinds DEF WindowPackets, DataPackets
    <3> QED BY <3>1, <3>2, <2>1, <2>2, WritesPlain
  <2> QED BY <2>3, <2>4
<1>7. CASE SrvSelectedDriver
  <2>1. Answers("DriverSettings")
    BY <1>7, <1>s DEF SrvSelectedDriver, TakeRequest, Answers, Spoiled, AllowedAfter
  <2>2. sDriver' \in Drivers
    BY <1>7 DEF SrvSelectedDriver
  <2>3. PICK ws \in Prompts :
          ToClient(ws \o <<PktWith("MetaSignals", sDriver'), PktWith("UiDescription", sDriver'),
                           Pkt("DriverSettings")>>)
    BY <1>7 DEF SrvSelectedDriver
  <2> QED BY <2>1, <2>2, <2>3, WritesDescription
<1>8. CASE SrvEstablished
  <2>1. ToClient(<<Pkt("ViewArray"), Pkt("ControlArray")>>) /\ sDriver' = sDriver
        /\ sDriver # NoDriver
    BY <1>8, <1>d DEF SrvEstablished, TakeRequest
  <2> DEFINE m == <<Pkt("ViewArray"), Pkt("ControlArray")>>
  <2>2. /\ m \in Seq(ServerPacket)
        /\ \A i \in DOMAIN m : m[i].type \in DataPackets
    <3>1. Pkt("ViewArray") \in ServerPacket /\ Pkt("ControlArray") \in ServerPacket
      BY PlainServerPackets
    <3> QED BY <3>1 DEF Pkt, DataPackets
  <2> HIDE DEF m
  <2>3. ToClient(m)
    BY <2>1 DEF m
  <2>4. Writes(m)
    BY <2>1, <2>2, <2>3, PacketKinds DEF Writes
  <2> QED BY <2>4
<1>9. CASE SrvWrongRequest
  BY <1>9, WritesRefusal DEF SrvWrongRequest
<1>10. CASE SrvClientRefuses
  BY <1>10, <1>t, WritesNothing DEF SrvClientRefuses
<1>11. CASE SrvNoted
  BY <1>11, <1>t, WritesNothing DEF SrvNoted
<1>12. CASE SrvFileRequest
  <2>1. ToClient(<<Pkt("File")>>) /\ sDriver' = sDriver /\ sDriver # NoDriver
    BY <1>12, <1>d DEF SrvFileRequest, TakeRequest
  <2> QED BY <2>1, WritesPlain DEF DataPackets
<1>13. CASE SrvReloadInterface
  <2>1. /\ ToClient(<<PktWith("UiDescription", sDriver)>>) /\ sDriver' = sDriver
        /\ sDriver # NoDriver /\ sDriver \in Selections
    BY <1>13, <1>d DEF SrvReloadInterface, TakeRequest, TypeOK, ServerTypeOK
  <2>2. /\ PktWith("UiDescription", sDriver) \in ServerPacket
        /\ PktWith("UiDescription", sDriver).type = "UiDescription"
        /\ PktWith("UiDescription", sDriver).arg = sDriver
    BY <2>1, PacketTyping DEF PktWith
  <2>3. Writes(<<PktWith("UiDescription", sDriver)>>)
    BY <2>1, <2>2, PacketKinds, WritesOne
  <2> QED BY <2>3
<1>14. CASE SrvControl
  <2>1. PICK t \in {"CommandOk", "CommandError"} : ToClient(<<Pkt(t)>>)
    BY <1>14 DEF SrvControl
  <2>2. sDriver' = sDriver /\ sDriver # NoDriver
    BY <1>14, <1>d DEF SrvControl, TakeRequest
  <2> QED BY <2>1, <2>2, WritesPlain DEF DataPackets
<1>15. CASE SrvUnknownSignal
  <2>1. ToClient(<<Pkt("CommandError")>>) /\ sDriver' = sDriver /\ sDriver # NoDriver
    BY <1>15, <1>d DEF SrvUnknownSignal, TakeRequest
  <2> QED BY <2>1, WritesPlain DEF DataPackets
<1>22. CASE SrvUntypedControl
  BY <1>22, WritesNothing DEF SrvUntypedControl, TypeOK, WireTypeOK
<1>16. CASE SrvReadLeftover
  BY <1>16, WritesRefusal DEF SrvReadLeftover
<1>17. CASE SrvCheckConnection
  <2>1. sDriver' = sDriver /\ sConnected /\ sConnected' /\ sDriver # NoDriver
    BY <1>17, <1>d DEF SrvCheckConnection, StreamsInv
  <2>2. CASE sLost >= MaxLost
    BY <1>17, <2>1, <2>2, <1>t, WritesNothing DEF SrvCheckConnection
  <2>3. CASE ~(sLost >= MaxLost)
    <3>1. ToClient(<<Pkt("CheckConnection")>>)
      BY <1>17, <2>3 DEF SrvCheckConnection
    <3> QED BY <3>1, <2>1, WritesPlain, PacketKinds
  <2> QED BY <2>2, <2>3
<1>18. CASE \E t \in Unsolicited : SrvDriverEmits(t)
  <2>1. PICK t \in Unsolicited : SrvDriverEmits(t)
    BY <1>18
  <2>2. t \in WindowPackets \cup DataPackets /\ t # "CheckConnection"
    BY UnsolicitedAssumption, PacketKinds DEF DataPackets, WindowPackets
  <2>3. ToClient(<<Pkt(t)>>) /\ sDriver' = sDriver /\ sDriver # NoDriver
    BY <2>1 DEF SrvDriverEmits
  <2> QED BY <2>2, <2>3, WritesPlain
<1>19. CASE SrvDisconnected
  BY <1>19, <1>t, WritesNothing DEF SrvDisconnected
<1>20. CASE SrvPeerClosed
  BY <1>20, <1>t, WritesNothing DEF SrvPeerClosed
<1> QED BY <1>1, <1>2, <1>3, <1>4, <1>5, <1>6, <1>7, <1>8, <1>9, <1>10, <1>11, <1>12, <1>13,
           <1>14, <1>15, <1>16, <1>17, <1>18, <1>19, <1>20, <1>22 DEF ServerStep, ServerNext, SrvReads

-----------------------------------------------------------------------------
(* What a step of the server reads.                                        *)

\* It goes on with the set-up by a packet of type t.
Takes(t) ==
  \/ t = "RequestConnection" /\ ~sConnected' /\ sAllowed' = {"HandShake"} /\ UNCHANGED sDriver
  \/ /\ t = "HandShake" /\ ~sConnected' /\ sAllowed' = {"ConnectionOK", "RefuseConnection"}
     /\ sLast' = "HandShake" /\ UNCHANGED sDriver /\ Head(c2s).arg = ServerRevision
  \/ /\ t = "ConnectionOK" /\ ~sConnected' /\ "ConnectionOK" \in sAllowed
     /\ sAllowed' = (IF sLast = "HandShake" THEN Kinds ELSE sAllowed)
     /\ UNCHANGED <<sDriver, sLast>>
  \/ /\ t \in Kinds /\ ~sConnected' /\ sAllowed' = {"SelectedDriver", "RefuseConnection"}
     /\ UNCHANGED sDriver
  \/ /\ t = "SelectedDriver" /\ ~sConnected' /\ "SelectedDriver" \in sAllowed
     /\ \/ UNCHANGED <<sAllowed, sDriver>>
        \/ sAllowed' = {"ConnectionEstablished", "RefuseConnection", "Control"}
  \/ t = "ConnectionEstablished" /\ sConnected' /\ UNCHANGED sDriver

ServerReads ==
  \/ sSock' # "open"
  \/ /\ sSock = "open" /\ UNCHANGED <<c2s, sAllowed, sConnected, sDriver>>
     /\ sLast' = sLast \/ sConnected \/ sDriver # NoDriver
  \/ /\ sSock = "open" /\ sConnected /\ sConnected' /\ c2s # <<>> /\ c2s' = Tail(c2s)
     /\ UNCHANGED sDriver
  \/ /\ sSock = "open" /\ ~sConnected /\ c2s # <<>> /\ ~Spoiled(c2s) /\ c2s' = Tail(c2s)
     /\ Takes(Head(c2s).type)

\* Every step of the server reads so, and leaves the client and the line alone.
LEMMA ServerReadsSo ==
  ASSUME StreamsInv, ServerStep
  PROVE  ServerReads /\ UNCHANGED clientVars /\ UNCHANGED <<cTcp, link, cNext>>
<1> USE DEF unchangedFraming, ServerStep
<1>s. \A t \in {"RequestConnection", "HandShake", "ConnectionOK", "SelectedDriver",
                "ConnectionEstablished"} \cup Kinds : t \notin Soft
  BY DEF Soft, UserPackets, Kinds
<1>1. CASE SrvRequestConnection
  BY <1>1, <1>s DEF SrvRequestConnection, TakeRequest, ServerReads, Takes, Spoiled
<1>2. CASE SrvHandShake
  BY <1>2, <1>s DEF SrvHandShake, Refuse, ServerReads, Takes, Spoiled
<1>3. CASE SrvConnectionOK
  BY <1>3, <1>s DEF SrvConnectionOK, TakeRequest, ServerReads, Takes, Spoiled
<1>4. CASE SrvConnectionKind
  BY <1>4, <1>s DEF SrvConnectionKind, TakeRequest, ServerReads, Takes, Spoiled
<1>5. CASE SrvNoSuchDriver
  BY <1>5 DEF SrvNoSuchDriver, Refuse, ServerReads
<1>6. CASE SrvEquipmentFails
  BY <1>6, <1>s DEF SrvEquipmentFails, TakeRequest, ServerReads, Takes, Spoiled
<1>7. CASE SrvSelectedDriver
  BY <1>7, <1>s DEF SrvSelectedDriver, TakeRequest, ServerReads, Takes, Spoiled
<1>8. CASE SrvEstablished
  BY <1>8, <1>s DEF SrvEstablished, TakeRequest, ServerReads, Takes, Spoiled
<1>9. CASE SrvWrongRequest
  BY <1>9 DEF SrvWrongRequest, Refuse, ServerReads
<1>10. CASE SrvClientRefuses
  BY <1>10 DEF SrvClientRefuses, ServerReads
<1>11. CASE SrvNoted
  BY <1>11 DEF SrvNoted, TakeRequest, ServerReads
<1>12. CASE SrvFileRequest
  BY <1>12 DEF SrvFileRequest, TakeRequest, ServerReads
<1>13. CASE SrvReloadInterface
  BY <1>13 DEF SrvReloadInterface, TakeRequest, ServerReads
<1>14. CASE SrvControl
  BY <1>14 DEF SrvControl, TakeRequest, ServerReads
<1>15. CASE SrvUnknownSignal
  BY <1>15 DEF SrvUnknownSignal, TakeRequest, ServerReads
<1>22. CASE SrvUntypedControl
  BY <1>22 DEF SrvUntypedControl, TakeRequest, ServerReads
<1>16. CASE SrvReadLeftover
  BY <1>16 DEF SrvReadLeftover, Refuse, ServerReads
<1>17. CASE SrvCheckConnection
  BY <1>17 DEF SrvCheckConnection, ServerReads, StreamsInv
<1>18. CASE \E t \in Unsolicited : SrvDriverEmits(t)
  BY <1>18 DEF SrvDriverEmits, ServerReads
<1>19. CASE SrvDisconnected
  BY <1>19 DEF SrvDisconnected, Constructed, ServerReads
<1>20. CASE SrvPeerClosed
  BY <1>20 DEF SrvPeerClosed, Constructed, ServerReads
<1> QED BY <1>1, <1>2, <1>3, <1>4, <1>5, <1>6, <1>7, <1>8, <1>9, <1>10, <1>11, <1>12, <1>13,
           <1>14, <1>15, <1>16, <1>17, <1>18, <1>19, <1>20, <1>22 DEF ServerNext, SrvReads

\* The server reads on in order.
LEMMA ServerKeepsOrder ==
  ASSUME TypeOK, SetupInv, OrderInv, ServerReads
  PROVE  OrderInv'
<1>t. c2s \in Seq(ClientPacket)
  BY DEF TypeOK, WireTypeOK
<1>1. CASE sSock' # "open"
  BY <1>1 DEF OrderInv
<1>2. CASE /\ sSock = "open" /\ UNCHANGED <<c2s, sAllowed, sConnected, sDriver>>
           /\ sLast' = sLast \/ sConnected \/ sDriver # NoDriver
  <2>1. sDriver # NoDriver /\ ~sConnected => "ConnectionOK" \notin sAllowed
    BY <1>2 DEF SetupInv
  <2>2. Spoiled(c2s)' <=> Spoiled(c2s)
    BY <1>2 DEF Spoiled
  <2>3. Follows(c2s)' <=> Follows(c2s)
    BY <1>2 DEF Follows, Spoiled
  <2> QED BY <1>2, <2>1, <2>2, <2>3 DEF OrderInv
<1>3. CASE /\ sSock = "open" /\ sConnected /\ sConnected' /\ c2s # <<>> /\ c2s' = Tail(c2s)
           /\ UNCHANGED sDriver
  <2>1. \A i \in DOMAIN Tail(c2s) : i + 1 \in DOMAIN c2s /\ Tail(c2s)[i] = c2s[i + 1]
    BY <1>t, <1>3, TailOf
  <2> QED BY <1>3, <2>1 DEF OrderInv
<1>4. CASE /\ sSock = "open" /\ ~sConnected /\ c2s # <<>> /\ ~Spoiled(c2s) /\ c2s' = Tail(c2s)
           /\ Takes(Head(c2s).type)
  <2>1. Head(c2s).type \in sAllowed \ {"Control"} /\ Follows(c2s)
    BY <1>4 DEF OrderInv
  <2>2. CASE Head(c2s).type \notin {"ConnectionOK", "ConnectionEstablished"}
    <3>1. Spoiled(c2s')
      BY <1>4, <2>1, <2>2 DEF Follows
    <3>2. ~sConnected' /\ ("ConnectionOK" \in sAllowed' => sLast' = "HandShake")
      BY <1>4, <2>2 DEF Takes, SetupInv, Kinds
    <3> QED BY <3>1, <3>2 DEF OrderInv, Spoiled
  <2>3. CASE Head(c2s).type = "ConnectionOK"
    <3>1. ~sConnected' /\ sAllowed' = Kinds
      BY <1>4, <2>1, <2>3 DEF Takes, OrderInv, Kinds
    <3>2. c2s' # <<>> /\ Head(c2s').type \in Kinds /\ Spoiled(Tail(c2s'))
      BY <1>4, <2>1, <2>3 DEF Follows
    <3>3. Head(c2s').type # "ConnectionOK" /\ Head(c2s').type # "ConnectionEstablished"
          /\ Head(c2s').type # "Control" /\ "ConnectionOK" \notin Kinds
      BY <3>2 DEF Kinds
    <3>4. Follows(c2s')
      BY <3>2, <3>3 DEF Follows
    <3> QED BY <3>1, <3>2, <3>3, <3>4 DEF OrderInv, Follows, Spoiled
  <2>4. CASE Head(c2s).type = "ConnectionEstablished"
    <3>1. sConnected'
      BY <1>4, <2>4 DEF Takes, Kinds
    <3>2. \A i \in DOMAIN c2s' : c2s'[i].type \in Regular
      BY <1>4, <2>1, <2>4 DEF Follows
    <3> QED BY <3>1, <3>2 DEF OrderInv
  <2> QED BY <2>2, <2>3, <2>4
<1> QED BY <1>1, <1>2, <1>3, <1>4 DEF ServerReads

\* What is in front of the client after a step of the server.
LEMMA Written2Client ==
  ASSUME s2c \in Seq(ServerPacket), NEW m, Writes(m)
  PROVE  /\ \A i \in DOMAIN s2c : i \in DOMAIN s2c' /\ s2c'[i] = s2c[i]
         /\ \A i \in DOMAIN s2c' :
              \/ i \in DOMAIN s2c /\ s2c'[i] = s2c[i]
              \/ /\ \E j \in DOMAIN m : i = Len(s2c) + j /\ s2c'[i] = m[j]
                 /\ \A k \in DOMAIN s2c : k < i
                 /\ sSock = "open" /\ link = "up" /\ cTcp = "Connected" /\ cNext = "header"
         /\ s2c' = s2c \/ \A j \in DOMAIN m :
              Len(s2c) + j \in DOMAIN s2c' /\ s2c'[Len(s2c) + j] = m[j]
         /\ sSock = "open" /\ link = "up" /\ cTcp = "Connected" /\ cNext = "header" =>
              \A j \in DOMAIN m : Len(s2c) + j \in DOMAIN s2c' /\ s2c'[Len(s2c) + j] = m[j]
         /\ Len(s2c) \in Nat /\ DOMAIN m \subseteq Nat
<1>1. m \in Seq(ServerPacket) /\ ToClient(m)
  BY DEF Writes
<1>2. Len(s2c) \in Nat /\ DOMAIN s2c = 1 .. Len(s2c) /\ DOMAIN m = 1 .. Len(m) /\ Len(m) \in Nat
  BY <1>1
<1>3. CASE sSock = "open" /\ link = "up" /\ cTcp = "Connected" /\ cNext = "header"
  <2>1. s2c' = s2c \o m
    BY <1>1, <1>3 DEF ToClient
  <2>2. \A j \in DOMAIN m : \A k \in DOMAIN s2c : k < Len(s2c) + j
    BY <1>2
  <2>3. /\ \A i \in DOMAIN s2c : i \in DOMAIN (s2c \o m) /\ (s2c \o m)[i] = s2c[i]
        /\ \A i \in DOMAIN (s2c \o m) :
             \/ i \in DOMAIN s2c /\ (s2c \o m)[i] = s2c[i]
             \/ \E j \in DOMAIN m : i = Len(s2c) + j /\ (s2c \o m)[i] = m[j]
        /\ \A j \in DOMAIN m :
             Len(s2c) + j \in DOMAIN (s2c \o m) /\ (s2c \o m)[Len(s2c) + j] = m[j]
    BY <1>1, Added
  <2>4. \A i \in DOMAIN s2c' :
          \/ i \in DOMAIN s2c /\ s2c'[i] = s2c[i]
          \/ /\ \E j \in DOMAIN m : i = Len(s2c) + j /\ s2c'[i] = m[j]
             /\ \A k \in DOMAIN s2c : k < i
    BY <2>1, <2>2, <2>3
  <2>5. DOMAIN m \subseteq Nat
    BY <1>2
  <2> QED BY <1>2, <1>3, <2>1, <2>3, <2>4, <2>5
<1>4. CASE ~(sSock = "open" /\ link = "up" /\ cTcp = "Connected" /\ cNext = "header")
  <2>1. s2c' = s2c
    BY <1>1, <1>4 DEF ToClient
  <2> QED BY <1>2, <1>4, <2>1
<1> QED BY <1>3, <1>4

\* The server answers when it is its turn, and then waits.
LEMMA ServerKeepsTurn ==
  ASSUME TypeOK, SetupInv, OrderInv, TurnInv, ServerReads, NEW m, Writes(m),
         UNCHANGED <<cTcp, link, cDialog, cPanel>>
  PROVE  TurnInv'
<1> SUFFICES ASSUME sSock' = "open", cTcp' = "Connected", link' = "up"
             PROVE  /\ \A i \in DOMAIN s2c' : s2c'[i].type \in Turns =>
                         /\ Waits(s2c[i].type)' /\ ~cDialog'
                         /\ \A j \in DOMAIN s2c' : s2c'[j].type \in Turns => i = j
                    /\ cDialog' => Waits("DriversList")'
                    /\ cPanel' => \/ sConnected'
                                  \/ sAllowed' = AllowedAfter("DriverSettings") /\ c2s' # <<>>
                    /\ \A i \in DOMAIN s2c' : s2c'[i].type = "CheckConnection" => sConnected'
  BY DEF TurnInv
<1>t. c2s \in Seq(ClientPacket) /\ s2c \in Seq(ServerPacket)
  BY DEF TypeOK, WireTypeOK
<1>i. sSock = "open" /\ cTcp = "Connected" /\ link = "up"
  BY DEF ServerReads
<1>o. /\ \A i \in DOMAIN s2c : s2c[i].type \in Turns =>
           /\ Waits(s2c[i].type) /\ ~cDialog
           /\ \A j \in DOMAIN s2c : s2c[j].type \in Turns => i = j
      /\ cDialog => Waits("DriversList")
      /\ cPanel => sConnected \/ (sAllowed = AllowedAfter("DriverSettings") /\ c2s # <<>>)
      /\ \A i \in DOMAIN s2c : s2c[i].type = "CheckConnection" => sConnected
  BY <1>i DEF TurnInv
<1>m. \A j \in DOMAIN m :
        /\ m[j].type = "CheckConnection" => sConnected /\ sConnected'
        /\ m[j].type \in Turns =>
             Answers(m[j].type) /\ \A k \in DOMAIN m : m[k].type \in Turns => j = k
  BY DEF Writes
<1>w. /\ \A i \in DOMAIN s2c' :
           \/ i \in DOMAIN s2c /\ s2c'[i] = s2c[i]
           \/ \E j \in DOMAIN m : i = Len(s2c) + j /\ s2c'[i] = m[j]
      /\ Len(s2c) \in Nat /\ DOMAIN m \subseteq Nat
  BY <1>t, Written2Client
<1>1. CASE UNCHANGED <<c2s, sAllowed, sConnected>>
  <2>1. ~(c2s # <<>> /\ c2s' = Tail(c2s))
    BY <1>1, <1>t, TailOf
  <2>2. \A j \in DOMAIN m : m[j].type \notin Turns
    BY <2>1, <1>m DEF Answers
  <2>3. \A t \in Turns : Waits(t)' <=> Waits(t)
    BY <1>1 DEF Waits, Spoiled
  <2>4. ASSUME NEW i \in DOMAIN s2c', s2c'[i].type \in Turns
        PROVE  i \in DOMAIN s2c /\ s2c'[i] = s2c[i]
    BY <1>w, <2>2, <2>4
  <2>5. "DriversList" \in Turns
    BY DEF Turns
  <2>6. \A i \in DOMAIN s2c' : s2c'[i].type \in Turns =>
          /\ Waits(s2c[i].type)' /\ ~cDialog'
          /\ \A j \in DOMAIN s2c' : s2c'[j].type \in Turns => i = j
    <3> SUFFICES ASSUME NEW i \in DOMAIN s2c', s2c'[i].type \in Turns
                 PROVE  /\ Waits(s2c[i].type)' /\ ~cDialog'
                        /\ \A j \in DOMAIN s2c' : s2c'[j].type \in Turns => i = j
      OBVIOUS
    <3>1. i \in DOMAIN s2c /\ s2c'[i] = s2c[i]
      BY <2>4
    <3>2. Waits(s2c[i].type) /\ ~cDialog
      BY <3>1, <1>o
    <3>3. Waits(s2c[i].type)'
      BY <3>1, <3>2, <1>1 DEF Waits, Spoiled
    <3> QED BY <3>1, <3>2, <3>3, <1>o, <2>4
  <2>7. \A i \in DOMAIN s2c' : s2c'[i].type = "CheckConnection" => sConnected'
    BY <1>1, <1>m, <1>o, <1>w
  <2> QED BY <1>1, <1>o, <2>3, <2>5, <2>6, <2>7
<1>2. CASE sConnected /\ sConnected'
  <2>1. /\ \A i \in DOMAIN s2c : s2c[i].type \notin Turns
        /\ \A j \in DOMAIN m : m[j].type \notin Turns
        /\ ~cDialog
    BY <1>2, <1>m, <1>o DEF Waits, Answers
  <2> QED BY <1>2, <1>w, <2>1
<1>3. CASE /\ ~sConnected /\ c2s # <<>> /\ ~Spoiled(c2s) /\ c2s' = Tail(c2s)
           /\ Takes(Head(c2s).type)
  <2>1. /\ \A i \in DOMAIN s2c : s2c[i].type \notin Turns
        /\ ~cDialog /\ \A i \in DOMAIN s2c : s2c[i].type # "CheckConnection"
        /\ \A j \in DOMAIN m : m[j].type # "CheckConnection"
    BY <1>3, <1>m, <1>o DEF Waits
  <2>2. Head(c2s).type \in sAllowed \ {"Control"} /\ Follows(c2s)
    BY <1>3, <1>i DEF OrderInv
  <2>3. cPanel => sConnected'
    <3>1. ASSUME cPanel PROVE Head(c2s).type = "ConnectionEstablished"
      <4>1. sAllowed = {"ConnectionEstablished", "RefuseConnection", "Control"}
        BY <3>1, <1>3, <1>o DEF AllowedAfter
      <4>2. Head(c2s).type # "RefuseConnection"
        BY <1>3 DEF Spoiled, Soft
      <4> QED BY <4>1, <4>2, <2>2
    <3> QED BY <3>1, <1>3 DEF Takes, Kinds
  <2>4. ASSUME NEW t \in Turns, Answers(t) PROVE Waits(t)'
    <3>1. ~sConnected' /\ sAllowed' = AllowedAfter(t)
      BY <2>4 DEF Answers
    <3>2. Head(c2s).type # "ConnectionEstablished"
      BY <3>1, <1>3 DEF Takes, Kinds
    <3>3. Head(c2s).type # "ConnectionOK"
      <4>1. ASSUME Head(c2s).type = "ConnectionOK" PROVE sAllowed' = Kinds
        BY <4>1, <1>3, <1>i DEF Takes, OrderInv, Kinds
      <4>2. AllowedAfter(t) # Kinds
        BY DEF AllowedAfter, Turns, Kinds
      <4> QED BY <4>1, <4>2, <3>1
    <3>4. Spoiled(c2s')
      BY <2>2, <3>2, <3>3, <1>3 DEF Follows
    <3> QED BY <3>1, <3>4 DEF Waits, Spoiled
  <2>5. \A i \in DOMAIN s2c' : s2c'[i].type # "CheckConnection"
    BY <1>w, <2>1
  <2>6. \A i \in DOMAIN s2c' : s2c'[i].type \in Turns =>
          /\ Waits(s2c[i].type)' /\ ~cDialog'
          /\ \A j \in DOMAIN s2c' : s2c'[j].type \in Turns => i = j
    <3> SUFFICES ASSUME NEW i \in DOMAIN s2c', s2c'[i].type \in Turns
                 PROVE  /\ Waits(s2c[i].type)' /\ ~cDialog'
                        /\ \A j \in DOMAIN s2c' : s2c'[j].type \in Turns => i = j
      OBVIOUS
    <3>1. PICK k \in DOMAIN m : i = Len(s2c) + k /\ s2c'[i] = m[k]
      BY <1>w, <2>1
    <3>2. Waits(m[k].type)'
      BY <3>1, <1>m, <2>4
    <3>3. \A j \in DOMAIN s2c' : s2c'[j].type \in Turns => i = j
      BY <3>1, <1>w, <1>m, <2>1
    <3>4. Waits(s2c[i].type)'
      BY <3>1, <3>2 DEF Waits, Spoiled
    <3> QED BY <3>3, <3>4, <2>1
  <2> QED BY <2>1, <2>3, <2>5, <2>6
<1> QED BY <1>1, <1>2, <1>3 DEF ServerReads

\* Nothing of the regular exchange overtakes the driver's settings.
LEMMA ServerKeepsTelemetry ==
  ASSUME TypeOK, TelemetryInv, ServerReads, NEW m, Writes(m),
         UNCHANGED <<cTcp, link, cNext, cConnected>>
  PROVE  TelemetryInv'
<1> SUFFICES ASSUME cTcp = "Connected", ~cConnected
             PROVE  /\ \A i \in DOMAIN s2c' : s2c'[i].type \in Late =>
                         \E j \in DOMAIN s2c' : j < i /\ s2c'[j].type = "DriverSettings"
                    /\ (sSock' = "open" /\ link = "up" /\ cNext = "header"
                          /\ sDriver' # NoDriver)
                         => \E i \in DOMAIN s2c' : s2c'[i].type = "DriverSettings"
  BY DEF TelemetryInv
<1>t. s2c \in Seq(ServerPacket)
  BY DEF TypeOK, WireTypeOK
<1>o. /\ \A i \in DOMAIN s2c : s2c[i].type \in Late =>
           \E j \in DOMAIN s2c : j < i /\ s2c[j].type = "DriverSettings"
      /\ (sSock = "open" /\ link = "up" /\ cNext = "header" /\ sDriver # NoDriver)
           => \E i \in DOMAIN s2c : s2c[i].type = "DriverSettings"
  BY DEF TelemetryInv
<1>k. \A i \in DOMAIN s2c : i \in DOMAIN s2c' /\ s2c'[i] = s2c[i]
  BY <1>t, Written2Client
<1>1. ASSUME NEW i \in DOMAIN s2c', s2c'[i].type \in Late
      PROVE  \E j \in DOMAIN s2c' : j < i /\ s2c'[j].type = "DriverSettings"
  <2>1. CASE i \in DOMAIN s2c /\ s2c'[i] = s2c[i]
    BY <1>1, <1>k, <1>o, <2>1
  <2>2. CASE /\ \E j \in DOMAIN m : i = Len(s2c) + j /\ s2c'[i] = m[j]
             /\ \A k \in DOMAIN s2c : k < i
             /\ sSock = "open" /\ link = "up" /\ cTcp = "Connected" /\ cNext = "header"
    <3>1. sDriver # NoDriver
      BY <1>1, <2>2 DEF Writes
    <3> QED BY <1>k, <1>o, <2>2, <3>1
  <2> QED BY <1>t, <2>1, <2>2, Written2Client
<1>2. ASSUME sSock' = "open", link = "up", cNext = "header", sDriver' # NoDriver
      PROVE  \E i \in DOMAIN s2c' : s2c'[i].type = "DriverSettings"
  <2>1. sSock = "open"
    BY <1>2 DEF ServerReads
  <2>2. CASE sDriver' = sDriver
    BY <1>2, <1>k, <1>o, <2>1, <2>2
  <2>3. CASE sDriver' # sDriver
    <3>1. PICK k \in DOMAIN m : m[k].type = "DriverSettings"
      BY <1>2, <2>3 DEF Writes
    <3>2. Len(s2c) + k \in DOMAIN s2c' /\ s2c'[Len(s2c) + k] = m[k]
      BY <1>2, <1>t, <2>1, Written2Client
    <3> QED BY <3>1, <3>2
  <2> QED BY <2>2, <2>3
<1> QED BY <1>1, <1>2

\* The server describes the driver it has, once.
LEMMA ServerKeepsAgreement ==
  ASSUME TypeOK, SetupInv, StreamsInv, OrderInv, TurnInv, AgreeInv, ServerReads, NEW m, Writes(m),
         UNCHANGED <<cTcp, cConnected, cMeta, cUi>>
  PROVE  AgreeInv'
<1> SUFFICES ASSUME sSock' = "open", cTcp = "Connected"
             PROVE  /\ sConnected' => Agreed'
                    /\ c2s' # <<>> /\ Head(c2s').type = "ConnectionEstablished" => Agreed'
                    /\ \A i \in DOMAIN s2c' :
                         s2c'[i].type \in {"MetaSignals", "UiDescription"} =>
                           s2c'[i].arg = sDriver' /\ sDriver' # NoDriver
                    /\ \A i \in DOMAIN s2c' : s2c'[i].type = "DriverSettings" /\ ~cConnected =>
                         /\ \/ cMeta = sDriver'
                            \/ \E j \in DOMAIN s2c' : j < i /\ s2c'[j].type = "MetaSignals"
                         /\ \/ cUi = sDriver'
                            \/ \E j \in DOMAIN s2c' : j < i /\ s2c'[j].type = "UiDescription"
  BY DEF AgreeInv
<1>t. s2c \in Seq(ServerPacket) /\ c2s \in Seq(ClientPacket)
  BY DEF TypeOK, WireTypeOK
<1>i. sSock = "open"
  BY DEF ServerReads
<1>o. /\ sConnected => Agreed
      /\ c2s # <<>> /\ Head(c2s).type = "ConnectionEstablished" => Agreed
      /\ \A i \in DOMAIN s2c : s2c[i].type \in {"MetaSignals", "UiDescription"} =>
           s2c[i].arg = sDriver /\ sDriver # NoDriver
      /\ \A i \in DOMAIN s2c : s2c[i].type = "DriverSettings" /\ ~cConnected =>
           /\ cMeta = sDriver \/ \E j \in DOMAIN s2c : j < i /\ s2c[j].type = "MetaSignals"
           /\ cUi = sDriver \/ \E j \in DOMAIN s2c : j < i /\ s2c[j].type = "UiDescription"
  BY <1>i DEF AgreeInv
<1>k. \A i \in DOMAIN s2c : i \in DOMAIN s2c' /\ s2c'[i] = s2c[i]
  BY <1>t, Written2Client
<1>w. \A i \in DOMAIN s2c' :
        \/ i \in DOMAIN s2c /\ s2c'[i] = s2c[i]
        \/ /\ \E j \in DOMAIN m : i = Len(s2c) + j /\ s2c'[i] = m[j]
           /\ s2c' # s2c
  <2>1. \A i \in DOMAIN s2c' : i \notin DOMAIN s2c => s2c' # s2c
    OBVIOUS
  <2>2. \A i \in DOMAIN s2c' :
          \/ i \in DOMAIN s2c /\ s2c'[i] = s2c[i]
          \/ \E j \in DOMAIN m : i = Len(s2c) + j /\ s2c'[i] = m[j]
    BY <1>t, Written2Client
  <2> QED BY <2>1, <2>2
<1>n. \A j \in DOMAIN m :
        /\ m[j].type \in {"MetaSignals", "UiDescription"} =>
             m[j].arg = sDriver' /\ sDriver' # NoDriver
        /\ m[j].type = "DriverSettings" =>
             /\ \E k \in DOMAIN m : k < j /\ m[k].type = "MetaSignals"
             /\ \E k \in DOMAIN m : k < j /\ m[k].type = "UiDescription"
  BY DEF Writes
<1>1. \/ sDriver' = sDriver
      \/ /\ \A i \in DOMAIN s2c : s2c[i].type \notin {"MetaSignals", "UiDescription"}
         /\ \A i \in DOMAIN s2c : s2c[i].type # "DriverSettings"
         /\ ~sConnected' /\ ~(c2s' # <<>> /\ Head(c2s').type = "ConnectionEstablished")
  <2>1. CASE sDriver' # sDriver
    <3>1. /\ ~sConnected /\ c2s # <<>> /\ ~Spoiled(c2s) /\ c2s' = Tail(c2s)
          /\ Takes(Head(c2s).type)
      BY <2>1 DEF ServerReads
    <3>2. Head(c2s).type = "SelectedDriver" /\ "SelectedDriver" \in sAllowed /\ ~sConnected'
      BY <2>1, <3>1 DEF Takes
    <3>3. sDriver = NoDriver
      BY <1>i, <3>1, <3>2 DEF SetupInv
    <3>4. Spoiled(c2s')
      BY <1>i, <3>1, <3>2 DEF OrderInv, Follows
    <3>5. ~(c2s' # <<>> /\ Head(c2s').type = "ConnectionEstablished")
      BY <3>4 DEF Spoiled, Soft, UserPackets
    <3>6. \A i \in DOMAIN s2c : s2c[i].type # "DriverSettings"
      <4> SUFFICES ASSUME NEW i \in DOMAIN s2c, s2c[i].type = "DriverSettings"
                   PROVE  FALSE
        OBVIOUS
      <4>1. s2c # <<>>
        BY <1>t
      <4>2. link = "up"
        BY <4>1 DEF StreamsInv
      <4> QED BY <1>i, <4>2, <3>1 DEF TurnInv, Turns, Waits
    <3> QED BY <1>o, <3>2, <3>3, <3>5, <3>6
  <2> QED BY <2>1
<1>2. sConnected' => Agreed'
  <2>1. ASSUME sConnected', ~sConnected
        PROVE  c2s # <<>> /\ Head(c2s).type = "ConnectionEstablished" /\ sDriver' = sDriver
    BY <2>1 DEF ServerReads, Takes
  <2> QED BY <1>1, <1>o, <2>1 DEF Agreed
<1>3. c2s' # <<>> /\ Head(c2s').type = "ConnectionEstablished" => Agreed'
  <2> SUFFICES ASSUME c2s' # <<>>, Head(c2s').type = "ConnectionEstablished"
               PROVE  Agreed'
    OBVIOUS
  <2>1. sDriver' = sDriver
    BY <1>1
  <2>2. CASE sConnected
    BY <1>o, <2>1, <2>2 DEF Agreed
  <2>3. CASE ~sConnected /\ c2s' = c2s
    BY <1>o, <2>1, <2>3 DEF Agreed
  <2>4. CASE ~sConnected /\ c2s' # c2s
    <3>1. c2s # <<>> /\ ~Spoiled(c2s) /\ c2s' = Tail(c2s)
      BY <2>4 DEF ServerReads
    <3>2. Follows(c2s)
      BY <1>i, <2>4, <3>1 DEF OrderInv
    <3>3. ~Spoiled(c2s') /\ Head(c2s').type \notin Kinds
      BY DEF Spoiled, Soft, UserPackets, Kinds
    <3>4. Head(c2s).type = "ConnectionEstablished"
      BY <3>1, <3>2, <3>3 DEF Follows
    <3> QED BY <1>o, <2>1, <3>1, <3>4 DEF Agreed
  <2> QED BY <2>2, <2>3, <2>4
<1>4. ASSUME NEW i \in DOMAIN s2c', s2c'[i].type \in {"MetaSignals", "UiDescription"}
      PROVE  s2c'[i].arg = sDriver' /\ sDriver' # NoDriver
  BY <1>1, <1>4, <1>n, <1>o, <1>w
<1>5. ASSUME NEW i \in DOMAIN s2c', s2c'[i].type = "DriverSettings", ~cConnected
      PROVE  /\ cMeta = sDriver' \/ \E j \in DOMAIN s2c' : j < i /\ s2c'[j].type = "MetaSignals"
             /\ cUi = sDriver' \/ \E j \in DOMAIN s2c' : j < i /\ s2c'[j].type = "UiDescription"
  <2>1. CASE i \in DOMAIN s2c /\ s2c'[i] = s2c[i]
    BY <1>1, <1>5, <1>k, <1>o, <2>1
  <2>2. CASE (\E j \in DOMAIN m : i = Len(s2c) + j /\ s2c'[i] = m[j]) /\ s2c' # s2c
    <3>1. PICK j \in DOMAIN m : i = Len(s2c) + j /\ s2c'[i] = m[j]
      BY <2>2
    <3>2. /\ \A k \in DOMAIN m : Len(s2c) + k \in DOMAIN s2c' /\ s2c'[Len(s2c) + k] = m[k]
          /\ Len(s2c) \in Nat /\ DOMAIN m \subseteq Nat
      BY <1>t, <2>2, Written2Client
    <3>3. PICK k \in DOMAIN m : k < j /\ m[k].type = "MetaSignals"
      BY <1>5, <1>n, <3>1
    <3>4. PICK q \in DOMAIN m : q < j /\ m[q].type = "UiDescription"
      BY <1>5, <1>n, <3>1
    <3>5. Len(s2c) + k < i /\ Len(s2c) + q < i
      BY <3>1, <3>2, <3>3, <3>4
    <3> QED BY <3>2, <3>3, <3>4, <3>5
  <2> QED BY <1>w, <2>1, <2>2
<1> QED BY <1>2, <1>3, <1>4, <1>5

\* The server lets only its own revision past the handshake.
LEMMA ServerKeepsRevision ==
  ASSUME TypeOK, OrderInv, RevisionInv, ServerReads, UNCHANGED cRev
  PROVE  RevisionInv'
<1>t. c2s \in Seq(ClientPacket)
  BY DEF TypeOK, WireTypeOK
<1>1. CASE sSock' # "open"
  BY <1>1 DEF RevisionInv
<1>2. CASE sSock = "open" /\ UNCHANGED <<c2s, sAllowed, sConnected>>
  BY <1>2 DEF RevisionInv, Unshaken
<1>r. \/ sSock' # "open" \/ UNCHANGED <<c2s, sAllowed, sConnected>> \/ sConnected
      \/ ~Spoiled(c2s) /\ Takes(Head(c2s).type)
  BY DEF ServerReads
<1>3. CASE sSock = "open" /\ c2s # <<>> /\ c2s' = Tail(c2s)
  <2>1. \A i \in DOMAIN c2s' : c2s'[i].type = "HandShake" => c2s'[i].arg = cRev
    <3>1. \A i \in DOMAIN c2s' : i + 1 \in DOMAIN c2s /\ c2s'[i] = c2s[i + 1]
      BY <1>t, <1>3, TailOf
    <3> QED BY <1>3, <3>1 DEF RevisionInv
  <2>2. CASE sConnected
    BY <1>3, <2>1, <2>2 DEF RevisionInv, Unshaken
  <2>3. CASE ~sConnected /\ ~Spoiled(c2s) /\ Takes(Head(c2s).type) /\ ~Unshaken
    BY <1>3, <2>1, <2>3 DEF RevisionInv
  <2>4. CASE ~sConnected /\ ~Spoiled(c2s) /\ Takes(Head(c2s).type) /\ Unshaken
    <3>1. Head(c2s).type \in sAllowed
      BY <1>3, <2>4 DEF OrderInv
    <3>2. CASE Head(c2s).type = "HandShake"
      <4>1. Head(c2s).arg = cRev
        BY <1>t, <1>3, <3>2, TailOf DEF RevisionInv
      <4>2. Head(c2s).arg = ServerRevision
        BY <2>4, <3>2 DEF Takes, Kinds
      <4> QED BY <2>1, <4>1, <4>2 DEF RevisionInv
    <3>3. CASE Head(c2s).type = "RequestConnection"
      <4>1. Unshaken'
        BY <2>4, <3>3 DEF Takes, Kinds, Unshaken
      <4> QED BY <2>1, <4>1 DEF RevisionInv
    <3> QED BY <2>4, <3>1, <3>2, <3>3 DEF Unshaken
  <2> QED BY <1>1, <1>2, <1>3, <2>2, <2>3, <2>4, <1>r
<1> QED BY <1>1, <1>2, <1>3 DEF ServerReads

\* A timer runs only over an established connection, and counts for one socket.
LEMMA ServerTimer ==
  ASSUME StreamsInv, ServerStep
  PROVE  (sTimer' => sConnected') /\ (sSock' = "none" => sLost' = 0)
<1> USE DEF StreamsInv, Refuse, TakeRequest
<1>1. CASE SrvReads
  <2>1. CASE SrvRequestConnection  BY <2>1 DEF SrvRequestConnection
  <2>2. CASE SrvHandShake          BY <2>2 DEF SrvHandShake
  <2>3. CASE SrvConnectionOK       BY <2>3 DEF SrvConnectionOK
  <2>4. CASE SrvConnectionKind     BY <2>4 DEF SrvConnectionKind
  <2>5. CASE SrvNoSuchDriver       BY <2>5 DEF SrvNoSuchDriver
  <2>6. CASE SrvEquipmentFails     BY <2>6 DEF SrvEquipmentFails
  <2>7. CASE SrvSelectedDriver     BY <2>7 DEF SrvSelectedDriver
  <2>8. CASE SrvEstablished        BY <2>8 DEF SrvEstablished
  <2>9. CASE SrvWrongRequest       BY <2>9 DEF SrvWrongRequest
  <2>10. CASE SrvClientRefuses     BY <2>10 DEF SrvClientRefuses
  <2>11. CASE SrvNoted             BY <2>11 DEF SrvNoted
  <2>12. CASE SrvFileRequest       BY <2>12 DEF SrvFileRequest
  <2>13. CASE SrvReloadInterface   BY <2>13 DEF SrvReloadInterface
  <2>14. CASE SrvControl           BY <2>14 DEF SrvControl
  <2>15. CASE SrvUnknownSignal     BY <2>15 DEF SrvUnknownSignal
  <2>16. CASE SrvUntypedControl    BY <2>16 DEF SrvUntypedControl
  <2> QED BY <1>1, <2>1, <2>2, <2>3, <2>4, <2>5, <2>6, <2>7, <2>8, <2>9, <2>10,
             <2>11, <2>12, <2>13, <2>14, <2>15, <2>16 DEF SrvReads
<1>2. CASE SrvReadLeftover     BY <1>2 DEF SrvReadLeftover
<1>3. CASE SrvCheckConnection  BY <1>3 DEF SrvCheckConnection
<1>4. CASE \E t \in Unsolicited : SrvDriverEmits(t)  BY <1>4 DEF SrvDriverEmits
<1>5. CASE SrvDisconnected     BY <1>5 DEF SrvDisconnected, Constructed
<1>6. CASE SrvPeerClosed       BY <1>6 DEF SrvPeerClosed, Constructed
<1> QED BY <1>1, <1>2, <1>3, <1>4, <1>5, <1>6 DEF ServerStep, ServerNext

\* The server writes to a client that reads.
LEMMA ServerKeepsStreams ==
  ASSUME TypeOK, SetupInv, StreamsInv, ServerStep
  PROVE  StreamsInv'
<1>1. UNCHANGED clientVars /\ UNCHANGED <<cTcp, link, cNext>>
  BY ServerReadsSo
<1>2. PICK m : ToClient(m)
  BY ServerWrites DEF Writes
<1>3. s2c' = s2c \/ (cTcp = "Connected" /\ link = "up" /\ cNext = "header")
  BY <1>2 DEF ToClient
<1>4. (sTimer' => sConnected') /\ (sSock' = "none" => sLost' = 0)
  BY ServerTimer
<1> QED BY <1>1, <1>3, <1>4 DEF StreamsInv, clientVars

-----------------------------------------------------------------------------
(* What a step of the client reads and writes.                             *)

\* What the client writes on its turn.
Replies(t, m) ==
  \/ t = "ConnectionOK" /\ m = <<PktWith("HandShake", cRev)>>
  \/ t = "HandShake" /\ m = <<Pkt("ConnectionOK"), Pkt(cMode)>>
  \/ t = "DriversList" /\ \E d \in Selections : m = <<PktWith("SelectedDriver", d)>>
  \/ /\ t = "DriverSettings" /\ m = <<Pkt("ConnectionEstablished")>>
     /\ ~cConnected /\ cConnected' /\ UNCHANGED <<cMeta, cUi>>

\* It reads a packet of type t.
ReadsA(t) == s2c # <<>> /\ Head(s2c).type = t /\ s2c' # s2c

\* What it reads is recognised, and so will be what follows.
Consumes == s2c' = Tail(s2c) /\ cNext' = "header"

\* What it writes, and when.
Sends(m) ==
  \/ m = <<>>
  \/ \E t \in Soft : m = <<Pkt(t)>>
  \/ cPanel /\ \E a \in Controls : m = <<PktWith("Control", a)>>
  \/ ReadsA("CheckConnection") /\ m = <<Pkt("ConnectionOK")>>
  \/ \E t \in Turns : /\ ReadsA(t) \/ (t = "DriversList" /\ cDialog)
                      /\ Replies(t, m)

\* What becomes of the packets in front of it.
Gets ==
  \/ UNCHANGED <<s2c, cNext, cMeta, cUi, cConnected>>
  \/ /\ s2c # <<>> /\ s2c' # s2c /\ ~cDialog
     /\ Consumes \/ (s2c' = <<>> /\ cNext' = "lost")

\* It stays connected and sends m.
Stays(m) ==
  /\ cTcp = "Connected" /\ cTcp' = "Connected"
  /\ UNCHANGED <<sSock, link, sNext, cRev>>
  /\ ToServer(m) /\ Sends(m) /\ Gets
  /\ cDialog' => m = <<>> /\ ReadsA("DriversList")
  /\ cPanel' => cPanel \/ (ReadsA("DriverSettings") /\ m # <<>>)
  /\ cConnected' # cConnected => cConnected'
  /\ ReadsA("DriverSettings") /\ Consumes => cConnected'
  /\ cMeta' # cMeta => ~cConnected /\ ReadsA("MetaSignals") /\ cMeta' = Head(s2c).arg
  /\ cUi' # cUi => ReadsA("UiDescription") /\ cUi' = Head(s2c).arg
  /\ ReadsA("MetaSignals") /\ Consumes /\ ~cConnected => cMeta' = Head(s2c).arg
  /\ ReadsA("UiDescription") /\ Consumes /\ ~cConnected => cUi' = Head(s2c).arg
  /\ ReadsA("CheckConnection") /\ Consumes => m = <<Pkt("ConnectionOK")>>

\* It is not connected any more, or not yet.
Leaves ==
  /\ cTcp' # "Connected" /\ s2c' = <<>> /\ ~cPanel'
  /\ cDialog' => cTcp' # "Connecting"
  /\ UNCHANGED <<c2s, sSock, cRev>>

\* It shows an error, of a connection that has ended or of a dead link.
Errs ==
  /\ cTcp = "Connected" /\ s2c' = <<>>
  /\ link = "down" \/ sSock # "open"
  /\ UNCHANGED <<c2s, cTcp, sSock, link, cNext, cConnected, cMeta, cUi, cDialog, cPanel, cRev>>

\* It becomes connected.
Joins ==
  /\ cTcp = "Connecting" /\ cTcp' = "Connected" /\ sSock' = "open"
  /\ c2s' = <<Pkt("RequestConnection")>> /\ s2c' = <<>>
  /\ ~cDialog' /\ ~cPanel' /\ UNCHANGED cRev

\* A packet that is read leaves the stream.
LEMMA ReadingShortens ==
  ASSUME s2c \in Seq(ServerPacket), s2c # <<>>
  PROVE  /\ Consume => s2c' # s2c
         /\ LoseFraming => s2c' # s2c
<1>1. Tail(s2c) # s2c
  BY TailOf
<1> QED BY <1>1 DEF Consume, LoseFraming

\* Every handler of the client that reads does so.
LEMMA ClientReadsSo ==
  ASSUME TypeOK, CliReads, UNCHANGED serverVars
  PROVE  Leaves \/ \E m : Stays(m)
<1>t. s2c \in Seq(ServerPacket)
  BY DEF TypeOK, WireTypeOK
<1>e. ToServer(<<>>) <=> c2s' = c2s
  <2>1. c2s \o <<>> = c2s
    BY DEF TypeOK, WireTypeOK
  <2> QED BY <2>1 DEF ToServer
<1> USE DEF Incoming, settledVars, Ends, Consumes, Consume, LoseFraming, Gets, Sends, ReadsA
<1>1. CASE CliInitConnection
  <2>1. s2c # <<>> /\ s2c' # s2c
    BY <1>1, <1>t, ReadingShortens DEF CliInitConnection
  <2>2. CASE cLast = "RequestConnection"
    <3>1. Stays(<<PktWith("HandShake", cRev)>>)
      BY <1>1, <2>1, <2>2 DEF CliInitConnection, Stays, Replies, Turns
    <3> QED BY <3>1
  <2>3. CASE cLast # "RequestConnection"
    <3>1. Stays(<<>>)
      BY <1>1, <1>e, <2>1, <2>3 DEF CliInitConnection, Stays
    <3> QED BY <3>1
  <2> QED BY <2>2, <2>3
<1>2. CASE CliHandShake
  <2>1. s2c # <<>> /\ s2c' # s2c
    BY <1>2, <1>t, ReadingShortens DEF CliHandShake
  <2>2. CASE cLast = "HandShake" /\ Head(s2c).arg = cRev
    <3>1. Stays(<<Pkt("ConnectionOK"), Pkt(cMode)>>)
      BY <1>2, <2>1, <2>2 DEF CliHandShake, Stays, Replies, Turns
    <3> QED BY <3>1
  <2>3. CASE cLast = "HandShake" /\ Head(s2c).arg # cRev
    <3>1. Stays(<<Pkt("RefuseConnection")>>)
      BY <1>2, <2>1, <2>3 DEF CliHandShake, CliRefuse, Stays, Soft
    <3> QED BY <3>1
  <2>4. CASE cLast # "HandShake"
    <3>1. Stays(<<>>)
      BY <1>2, <1>e, <2>1, <2>4 DEF CliHandShake, Stays
    <3> QED BY <3>1
  <2> QED BY <2>2, <2>3, <2>4
<1>3. CASE CliDriversList
  <2>1. s2c # <<>> /\ s2c' # s2c
    BY <1>3, <1>t, ReadingShortens DEF CliDriversList
  <2>2. CASE (\E d \in Drivers : SelectDriver(d)) /\ UNCHANGED cDialog
    <3>1. PICK d \in Drivers : SelectDriver(d)
      BY <2>2
    <3>2. Stays(<<PktWith("SelectedDriver", d)>>)
      BY <1>3, <2>1, <2>2, <3>1
         DEF CliDriversList, SelectDriver, Stays, Replies, Turns, Selections
    <3> QED BY <3>2
  <2>3. CASE cDialog' = (cLast = "WithoutTicket") /\ UNCHANGED <<c2s, cLast, cAllowed>>
    <3>1. Stays(<<>>)
      BY <1>3, <1>e, <2>1, <2>3 DEF CliDriversList, Stays
    <3> QED BY <3>1
  <2> QED BY <1>3, <2>2, <2>3 DEF CliDriversList
<1>4. CASE CliDriversListOnly
  <2>1. Leaves
    BY <1>4 DEF CliDriversListOnly, CloseConnection, Leaves
  <2> QED BY <2>1
<1>5. CASE CliMetaSignals
  <2>1. s2c # <<>> /\ s2c' # s2c
    BY <1>5, <1>t, ReadingShortens DEF CliMetaSignals
  <2>2. Stays(<<>>)
    BY <1>5, <1>e, <2>1 DEF CliMetaSignals, Stays
  <2> QED BY <2>2
<1>6. CASE CliSetupUi
  <2>1. s2c # <<>> /\ s2c' # s2c
    BY <1>6, <1>t, ReadingShortens DEF CliSetupUi
  <2>2. Stays(<<>>)
    BY <1>6, <1>e, <2>1 DEF CliSetupUi, Stays
  <2> QED BY <2>2
<1>7. CASE CliDriverSettings
  <2>1. s2c # <<>> /\ s2c' # s2c
    BY <1>7, <1>t, ReadingShortens DEF CliDriverSettings
  <2>2. Stays(<<Pkt("ConnectionEstablished")>>)
    BY <1>7, <2>1 DEF CliDriverSettings, Stays, Replies, Turns
  <2> QED BY <2>2
<1>8. CASE CliSetupNotice
  <2>1. s2c # <<>> /\ s2c' # s2c /\ Head(s2c).type \in WindowPackets \cup {"RefuseConnection"}
    BY <1>8, <1>t, ReadingShortens DEF CliSetupNotice
  <2>2. Stays(<<>>)
    BY <1>8, <1>e, <2>1 DEF CliSetupNotice, Stays, WindowPackets
  <2> QED BY <2>2
<1>9. CASE CliCheckConnection
  <2>1. s2c # <<>> /\ s2c' # s2c
    BY <1>9, <1>t, ReadingShortens DEF CliCheckConnection
  <2>2. Stays(<<Pkt("ConnectionOK")>>)
    BY <1>9, <2>1 DEF CliCheckConnection, Stays
  <2> QED BY <2>2
<1>10. CASE CliData
  <2>1. s2c # <<>> /\ s2c' # s2c /\ Head(s2c).type \in DataPackets
    BY <1>10, <1>t, ReadingShortens DEF CliData
  <2>2. Stays(<<>>)
    BY <1>10, <1>e, <2>1 DEF CliData, Stays, DataPackets
  <2> QED BY <2>2
<1>11. CASE CliReloadedUi
  <2>1. s2c # <<>> /\ s2c' # s2c
    BY <1>11, <1>t, ReadingShortens DEF CliReloadedUi
  <2>2. Stays(<<>>)
    BY <1>11, <1>e, <2>1 DEF CliReloadedUi, Stays
  <2> QED BY <2>2
<1>12. CASE CliUnknownReply
  <2>1. PICK t \in ServerPackets \ (DataPackets \cup {"CheckConnection", "UiDescription"}) :
          /\ Incoming(t)
          /\ IF t \in WindowPackets \cup {"RefuseConnection"}
               THEN Consume /\ UNCHANGED cNext
               ELSE LoseFraming
    BY <1>12 DEF CliUnknownReply
  <2>2. s2c # <<>> /\ s2c' # s2c
    BY <2>1, <1>t, ReadingShortens
  <2>3. t \notin {"CheckConnection", "UiDescription"}
    OBVIOUS
  <2>4. Stays(<<Pkt("RefuseConnection")>>)
    BY <1>12, <2>1, <2>2, <2>3 DEF CliUnknownReply, CliRefuse, Stays, Soft
  <2> QED BY <2>4
<1> QED BY <1>1, <1>2, <1>3, <1>4, <1>5, <1>6, <1>7, <1>8, <1>9, <1>10, <1>11, <1>12
        DEF CliReads

\* The user writes what a gesture says.
LEMMA UserActsSo ==
  ASSUME TypeOK, StreamsInv, UserNext, UNCHANGED serverVars
  PROVE  Leaves \/ \E m : Stays(m)
<1> USE DEF settledVars, Ends, AtLeisure, Gets, Sends, ReadsA
<1>1. CASE CliConnect
  <2>1. Leaves
    BY <1>1 DEF CliConnect, Leaves, StreamsInv
  <2> QED BY <2>1
<1>2. CASE \E d \in Selections : UserSelects(d)
  <2>1. PICK d \in Selections : UserSelects(d)
    BY <1>2
  <2>2. CASE cTcp = "Connected"
    <3>1. Stays(<<PktWith("SelectedDriver", d)>>)
      BY <2>1, <2>2 DEF UserSelects, SelectDriver, Stays, Replies, Turns
    <3> QED BY <3>1
  <2>3. CASE cTcp # "Connected"
    <3>1. Leaves
      BY <2>1, <2>3 DEF UserSelects, SelectDriver, ToServer, Leaves, StreamsInv
    <3> QED BY <3>1
  <2> QED BY <2>2, <2>3
<1>3. CASE UserCancels
  <2>1. CASE cTcp = "Connected"
    <3>1. Stays(<<Pkt("RefuseConnection")>>)
      BY <1>3, <2>1 DEF UserCancels, CliRefuse, Stays, Soft
    <3> QED BY <3>1
  <2>2. CASE cTcp # "Connected"
    <3>1. Leaves
      BY <1>3, <2>2 DEF UserCancels, CliRefuse, ToServer, Leaves, StreamsInv
    <3> QED BY <3>1
  <2> QED BY <2>1, <2>2
<1>4. CASE \E t \in UserRequests : UserRequest(t)
  <2>1. PICK t \in UserRequests : UserRequest(t)
    BY <1>4
  <2>2. t \in Soft
    BY UserRequestsAssumption DEF Soft
  <2>3. Stays(<<Pkt(t)>>)
    BY <2>1, <2>2 DEF UserRequest, Stays
  <2> QED BY <2>3
<1>5. CASE \E a \in PanelControls : UserControl(a)
  <2>1. PICK a \in Controls : UserControl(a)
    BY <1>5, PanelControlsAssumption
  <2>2. Stays(<<PktWith("Control", a)>>)
    BY <2>1 DEF UserControl, Stays
  <2> QED BY <2>2
<1>6. CASE UserDisconnects
  <2>1. Leaves
    BY <1>6 DEF UserDisconnects, CloseConnection, Leaves
  <2> QED BY <2>1
<1>7. CASE UserDismisses
  <2>1. Leaves
    BY <1>7 DEF UserDismisses, CloseConnection, Leaves
  <2> QED BY <2>1
<1> QED BY <1>1, <1>2, <1>3, <1>4, <1>5, <1>6, <1>7 DEF UserNext

\* Every step of the client is of one of the four kinds.
LEMMA ClientActsSo ==
  ASSUME TypeOK, StreamsInv, ClientStep
  PROVE  Joins \/ Leaves \/ Errs \/ \E m : Stays(m)
<1> USE DEF settledVars, Ends, ClientStep, StreamsInv, CloseConnection, Leaves, ShowError, Errs
<1>1. CASE CliConnected
  <2>1. s2c = <<>> /\ ~cDialog /\ ~cPanel
    BY <1>1 DEF CliConnected
  <2>2. Joins
    BY <1>1, <2>1 DEF CliConnected, Joins
  <2> QED BY <2>2
<1>2. CASE CliConnectFails
  BY <1>2 DEF CliConnectFails
<1>3. CASE CliReads
  BY <1>3, ClientReadsSo
<1>4. CASE UserNext
  BY <1>4, UserActsSo
<1>5. CASE CliPeerClosed
  BY <1>5 DEF CliPeerClosed
<1>6. CASE CliLinkError
  BY <1>6 DEF CliLinkError
<1> QED BY <1>1, <1>2, <1>3, <1>4, <1>5, <1>6 DEF ClientNext

-----------------------------------------------------------------------------
(* The client keeps the invariants.                                        *)

\* The other end of the streams.
LEMMA ClientKeepsStreams ==
  ASSUME StreamsInv, UNCHANGED serverVars,
         Joins \/ Leaves \/ Errs \/ \E m : Stays(m)
  PROVE  StreamsInv'
<1> USE DEF StreamsInv, serverVars
<1>1. CASE Joins
  BY <1>1 DEF Joins
<1>2. CASE Leaves
  BY <1>2 DEF Leaves
<1>3. CASE \E m : Stays(m)
  BY <1>3 DEF Stays, Gets, Consumes
<1>4. CASE Errs
  BY <1>4 DEF Errs
<1> QED BY <1>1, <1>2, <1>3, <1>4

\* What is in front of the client after it has read: what was there, moved up.
LEMMA Kept ==
  ASSUME s2c \in Seq(ServerPacket), Gets
  PROVE  /\ \A i \in DOMAIN s2c' :
              \E k \in DOMAIN s2c : /\ s2c'[i] = s2c[k]
                                    /\ \/ s2c' = s2c /\ k = i
                                       \/ Consumes /\ s2c # <<>> /\ k = i + 1
         /\ Consumes /\ s2c # <<>> => \A k \in DOMAIN s2c :
              k # 1 => k - 1 \in DOMAIN s2c' /\ s2c'[k - 1] = s2c[k]
         /\ DOMAIN s2c \subseteq Nat /\ \A k \in DOMAIN s2c : k >= 1
         /\ s2c # <<>> => 1 \in DOMAIN s2c /\ Head(s2c) = s2c[1]
         /\ s2c # <<>> /\ Consumes => s2c' # s2c
<1>1. s2c # <<>> => /\ Tail(s2c) # s2c /\ 1 \in DOMAIN s2c /\ Head(s2c) = s2c[1]
                    /\ \A i \in DOMAIN Tail(s2c) : i + 1 \in DOMAIN s2c /\ Tail(s2c)[i] = s2c[i + 1]
                    /\ DOMAIN s2c = 1 .. Len(s2c) /\ DOMAIN Tail(s2c) = 1 .. Len(s2c) - 1
                    /\ Len(s2c) \in Nat
  BY TailOf
<1>2. DOMAIN s2c \subseteq Nat /\ \A k \in DOMAIN s2c : k >= 1
  OBVIOUS
<1>3. s2c # <<>> /\ Consumes => s2c' # s2c
  BY <1>1 DEF Consumes
<1>4. ASSUME Consumes, s2c # <<>>, NEW k \in DOMAIN s2c, k # 1
      PROVE  k - 1 \in DOMAIN s2c' /\ s2c'[k - 1] = s2c[k]
  <2>0. /\ DOMAIN s2c = 1 .. Len(s2c) /\ DOMAIN Tail(s2c) = 1 .. Len(s2c) - 1
        /\ Len(s2c) \in Nat
    BY <1>1, <1>4
  <2>1. k - 1 \in DOMAIN Tail(s2c) /\ (k - 1) + 1 = k
    BY <1>4, <2>0
  <2>2. Tail(s2c)[k - 1] = s2c[(k - 1) + 1]
    BY <1>1, <1>4, <2>1
  <2> QED BY <1>4, <2>1, <2>2 DEF Consumes
<1>5. ASSUME NEW i \in DOMAIN s2c'
      PROVE  \E k \in DOMAIN s2c : /\ s2c'[i] = s2c[k]
                                   /\ \/ s2c' = s2c /\ k = i
                                      \/ Consumes /\ s2c # <<>> /\ k = i + 1
  <2>1. CASE s2c' = s2c
    BY <2>1
  <2>2. CASE Consumes /\ s2c # <<>>
    BY <1>1, <2>2 DEF Consumes
  <2>3. CASE s2c' = <<>>
    BY <2>3
  <2> QED BY <2>1, <2>2, <2>3 DEF Gets
<1> QED BY <1>1, <1>2, <1>3, <1>4, <1>5

\* A soft packet behind others, or alone.
LEMMA SoftBehind ==
  ASSUME NEW s \in Seq(ClientPacket), NEW p \in ClientPacket
  PROVE  /\ s \o <<p>> # <<>>
         /\ s = <<>> => s \o <<p>> = <<p>> /\ Head(s \o <<p>>) = p /\ Tail(s \o <<p>>) = <<>>
         /\ s # <<>> => /\ Head(s \o <<p>>) = Head(s)
                        /\ Tail(s \o <<p>>) = Tail(s) \o <<p>>
                        /\ Tail(s) \in Seq(ClientPacket)
         /\ Spoiled(s) /\ (s # <<>> \/ p.type \in Soft) => Spoiled(s \o <<p>>)
<1>1. /\ s \o <<p>> # <<>>
      /\ s # <<>> => Head(s \o <<p>>) = Head(s) /\ Tail(s) \in Seq(ClientPacket)
  OBVIOUS
<1>3. ASSUME s = <<>>
      PROVE  s \o <<p>> = <<p>> /\ Head(s \o <<p>>) = p /\ Tail(s \o <<p>>) = <<>>
  <2>1. <<>> \o <<p>> = <<p>>
    OBVIOUS
  <2>2. Head(<<p>>) = p /\ Tail(<<p>>) = <<>>
    OBVIOUS
  <2> QED BY <1>3, <2>1, <2>2
<1>2. s # <<>> => Tail(s \o <<p>>) = Tail(s) \o <<p>>
  OBVIOUS
<1> QED BY <1>1, <1>2, <1>3 DEF Spoiled

\* It does not change what follows a packet of the set-up.
LEMMA SoftFollows ==
  ASSUME NEW s \in Seq(ClientPacket), s # <<>>, NEW p \in ClientPacket, Follows(s),
         \/ p.type \in Soft
         \/ Head(s).type = "ConnectionEstablished" /\ p.type \in Regular
  PROVE  Follows(s \o <<p>>)
<1>h. /\ Head(s \o <<p>>) = Head(s) /\ Tail(s \o <<p>>) = Tail(s) \o <<p>>
      /\ Tail(s) \in Seq(ClientPacket)
  BY SoftBehind
<1>1. CASE Head(s).type = "ConnectionOK"
  <2> DEFINE r == Tail(s)
  <2>1. r \in Seq(ClientPacket) /\ r # <<>> /\ Head(r).type \in Kinds /\ Spoiled(Tail(r))
    BY <1>h, <1>1 DEF Follows
  <2>2. p.type \in Soft
    BY <1>1
  <2> HIDE DEF r
  <2>3. /\ r \o <<p>> # <<>> /\ Head(r \o <<p>>) = Head(r)
        /\ Tail(r \o <<p>>) = Tail(r) \o <<p>> /\ Tail(r) \in Seq(ClientPacket)
    BY <2>1, SoftBehind
  <2>4. Spoiled(Tail(r) \o <<p>>)
    BY <2>1, <2>2, <2>3, SoftBehind
  <2>5. Tail(s \o <<p>>) = r \o <<p>>
    BY <1>h DEF r
  <2> QED BY <1>h, <1>1, <2>1, <2>3, <2>4, <2>5 DEF Follows
<1>2. CASE Head(s).type = "ConnectionEstablished"
  <2> DEFINE r == Tail(s)
  <2>1. r \in Seq(ClientPacket) /\ \A i \in DOMAIN r : r[i].type \in Regular
    BY <1>h, <1>2 DEF Follows
  <2>2. p.type \in Regular
    BY DEF Regular
  <2> HIDE DEF r
  <2>3. \A i \in DOMAIN (r \o <<p>>) : (r \o <<p>>)[i].type \in Regular
    BY <2>1, <2>2
  <2>4. Tail(s \o <<p>>) = r \o <<p>>
    BY <1>h DEF r
  <2> QED BY <1>h, <1>2, <2>3, <2>4 DEF Follows
<1>3. CASE Head(s).type \notin {"ConnectionOK", "ConnectionEstablished"}
  <2> DEFINE r == Tail(s)
  <2>1. r \in Seq(ClientPacket) /\ Spoiled(r) /\ p.type \in Soft
    BY <1>h, <1>3 DEF Follows
  <2> HIDE DEF r
  <2>2. Spoiled(r \o <<p>>)
    BY <2>1, SoftBehind
  <2>3. Tail(s \o <<p>>) = r \o <<p>>
    BY <1>h DEF r
  <2> QED BY <1>h, <1>3, <2>2, <2>3 DEF Follows
<1> QED BY <1>1, <1>2, <1>3

\* When the client has something to answer the server waits, and for that alone.
LEMMA TurnWaits ==
  ASSUME TypeOK, TurnInv, sSock = "open", cTcp = "Connected", link = "up",
         NEW t \in Turns, ReadsA(t) \/ (t = "DriversList" /\ cDialog)
  PROVE  /\ Waits(t)
         /\ \A i \in DOMAIN s2c : s2c[i].type \in Turns => i = 1 /\ ReadsA(t) /\ ~cDialog
<1>o. /\ \A i \in DOMAIN s2c : s2c[i].type \in Turns =>
           /\ Waits(s2c[i].type) /\ ~cDialog
           /\ \A j \in DOMAIN s2c : s2c[j].type \in Turns => i = j
      /\ cDialog => Waits("DriversList")
  BY DEF TurnInv
<1>t. s2c \in Seq(ServerPacket)
  BY DEF TypeOK, WireTypeOK
<1>1. CASE ReadsA(t)
  <2>1. 1 \in DOMAIN s2c /\ s2c[1].type = t
    BY <1>t, <1>1, TailOf DEF ReadsA
  <2> QED BY <1>o, <1>1, <2>1
<1>2. CASE t = "DriversList" /\ cDialog
  BY <1>o, <1>2
<1> QED BY <1>1, <1>2

\* Out of turn the client sends a single packet: a soft one, or one of an established
\* connection to a server that is there or has the confirmation before it.
SendsOne(m) ==
  \E p \in ClientPacket :
    /\ m = <<p>> /\ p.type \in Regular
    /\ \/ p.type \in Soft
       \/ sConnected \/ (sAllowed = AllowedAfter("DriverSettings") /\ c2s # <<>>)

\* It sends nothing, or so, or takes its turn.
LEMMA SendsSo ==
  ASSUME TypeOK, TurnInv, sSock = "open", cTcp = "Connected", link = "up", NEW m, Sends(m)
  PROVE  \/ m = <<>>
         \/ SendsOne(m)
         \/ \E t \in Turns : /\ ReadsA(t) \/ (t = "DriversList" /\ cDialog)
                             /\ Replies(t, m)
<1>t. s2c \in Seq(ServerPacket)
  BY DEF TypeOK, WireTypeOK
<1>1. CASE \E t \in Soft : m = <<Pkt(t)>>
  <2>1. PICK t \in Soft : m = <<Pkt(t)>>
    BY <1>1
  <2>2. Pkt(t) \in ClientPacket
    BY PlainClientPackets DEF Soft
  <2>3. Pkt(t).type \in Soft /\ Pkt(t).type \in Regular
    BY DEF Pkt, Regular
  <2> QED BY <2>1, <2>2, <2>3 DEF SendsOne
<1>2. CASE cPanel /\ \E a \in Controls : m = <<PktWith("Control", a)>>
  <2>1. PICK a \in Controls : m = <<PktWith("Control", a)>>
    BY <1>2
  <2>2. PktWith("Control", a) \in ClientPacket /\ PktWith("Control", a).type \in Regular
    BY DEF PktWith, Regular, ClientPacket
  <2>3. sConnected \/ (sAllowed = AllowedAfter("DriverSettings") /\ c2s # <<>>)
    BY <1>2 DEF TurnInv
  <2> QED BY <2>1, <2>2, <2>3 DEF SendsOne
<1>3. CASE ReadsA("CheckConnection") /\ m = <<Pkt("ConnectionOK")>>
  <2>1. Pkt("ConnectionOK") \in ClientPacket /\ Pkt("ConnectionOK").type \in Regular
    BY PlainClientPackets DEF Pkt, Regular
  <2>2. 1 \in DOMAIN s2c /\ s2c[1].type = "CheckConnection"
    BY <1>t, <1>3, TailOf DEF ReadsA
  <2>3. sConnected
    BY <2>2 DEF TurnInv
  <2> QED BY <1>3, <2>1, <2>3 DEF SendsOne
<1> QED BY <1>1, <1>2, <1>3 DEF Sends

\* What it sends on its turn are packets of the client.
LEMMA RepliesType ==
  ASSUME TypeOK, NEW t, NEW m, Replies(t, m)
  PROVE  m \in Seq(ClientPacket) /\ m # <<>>
<1>1. PktWith("HandShake", cRev) \in ClientPacket /\ Pkt("ConnectionOK") \in ClientPacket
      /\ Pkt(cMode) \in ClientPacket /\ Pkt("ConnectionEstablished") \in ClientPacket
      /\ \A d \in Selections : PktWith("SelectedDriver", d) \in ClientPacket
  BY PlainClientPackets DEF TypeOK, ClientTypeOK, PktWith, ClientPacket
<1>2. \A p, q \in ClientPacket : /\ <<p>> \in Seq(ClientPacket) /\ <<p>> # <<>>
                                 /\ <<p, q>> \in Seq(ClientPacket) /\ <<p, q>> # <<>>
  OBVIOUS
<1> QED BY <1>1, <1>2 DEF Replies

\* The client keeps the order of the set-up.
LEMMA ClientKeepsOrder ==
  ASSUME TypeOK, SetupInv, OrderInv, TurnInv, UNCHANGED serverVars, NEW m, Stays(m)
  PROVE  OrderInv'
<1> SUFFICES ASSUME sSock = "open"
             PROVE  /\ sConnected => \A i \in DOMAIN c2s' : c2s'[i].type \in Regular
                    /\ ~sConnected /\ ~Spoiled(c2s') =>
                         Head(c2s').type \in sAllowed \ {"Control"} /\ Follows(c2s')
                    /\ ~sConnected /\ "ConnectionOK" \in sAllowed => sLast = "HandShake"
  BY DEF OrderInv, Stays, serverVars
<1>o. /\ sConnected => \A i \in DOMAIN c2s : c2s[i].type \in Regular
      /\ ~sConnected /\ ~Spoiled(c2s) =>
           Head(c2s).type \in sAllowed \ {"Control"} /\ Follows(c2s)
      /\ ~sConnected /\ "ConnectionOK" \in sAllowed => sLast = "HandShake"
  BY DEF OrderInv
<1>t. c2s \in Seq(ClientPacket) /\ s2c \in Seq(ServerPacket)
  BY DEF TypeOK, WireTypeOK
<1>1. CASE c2s' = c2s
  BY <1>1, <1>o
<1>2. CASE link = "up" /\ c2s' = c2s \o m
  <2>0. cTcp = "Connected" /\ Sends(m)
    BY DEF Stays
  <2>1. CASE m = <<>>
    <3>1. c2s \o <<>> = c2s
      BY <1>t
    <3> QED BY <1>1, <1>2, <2>1, <3>1
  <2>2. CASE SendsOne(m)
    <3>1. PICK p \in ClientPacket :
            /\ m = <<p>> /\ p.type \in Regular
            /\ \/ p.type \in Soft
               \/ sConnected \/ (sAllowed = AllowedAfter("DriverSettings") /\ c2s # <<>>)
      BY <2>2 DEF SendsOne
    <3>2. c2s' = c2s \o <<p>>
      BY <1>2, <3>1
    <3>3. CASE sConnected
      <4>1. \A i \in DOMAIN (c2s \o <<p>>) : (c2s \o <<p>>)[i].type \in Regular
        BY <1>t, <1>o, <3>1, <3>3
      <4> QED BY <3>2, <3>3, <4>1
    <3>4. CASE ~sConnected /\ Spoiled(c2s)
      <4>1. Spoiled(c2s')
        BY <1>t, <3>1, <3>2, <3>4, SoftBehind
      <4> QED BY <1>o, <3>4, <4>1
    <3>5. CASE ~sConnected /\ ~Spoiled(c2s)
      <4>1. Head(c2s).type \in sAllowed \ {"Control"} /\ Follows(c2s) /\ c2s # <<>>
            /\ Head(c2s).type \notin Soft
        BY <1>o, <3>5 DEF Spoiled
      <4>2. p.type \in Soft \/ Head(c2s).type = "ConnectionEstablished"
        BY <3>1, <3>5, <4>1 DEF AllowedAfter, Soft
      <4>3. Follows(c2s') /\ Head(c2s') = Head(c2s)
        BY <1>t, <3>1, <3>2, <4>1, <4>2, SoftFollows, SoftBehind
      <4> QED BY <1>o, <3>5, <4>1, <4>3
    <3> QED BY <3>3, <3>4, <3>5
  <2>3. ASSUME NEW t \in Turns, ReadsA(t) \/ (t = "DriversList" /\ cDialog), Replies(t, m)
        PROVE  /\ ~sConnected
               /\ ~Spoiled(c2s') =>
                    Head(c2s').type \in sAllowed \ {"Control"} /\ Follows(c2s')
    <3>1. Waits(t)
      BY <1>2, <2>0, <2>3, TurnWaits
    <3>2. CASE c2s # <<>>
      <4>1. m \in Seq(ClientPacket)
        BY <2>3, RepliesType
      <4>2. c2s' # <<>> /\ Head(c2s') = Head(c2s)
        BY <1>t, <1>2, <3>2, <4>1
      <4> QED BY <3>1, <3>2, <4>2 DEF Waits, Spoiled
    <3>3. CASE c2s = <<>>
      <4>1. c2s' = m
        <5>1. <<>> \o m = m
          BY <2>3 DEF Replies
        <5> QED BY <1>2, <3>3, <5>1
      <4>2. CASE t = "ConnectionOK" /\ m = <<PktWith("HandShake", cRev)>>
        <5>1. Head(m) = PktWith("HandShake", cRev) /\ Tail(m) = <<>>
          BY <4>2
        <5>2. Head(c2s').type = "HandShake" /\ Tail(c2s') = <<>>
          BY <4>1, <5>1 DEF PktWith
        <5> QED BY <3>1, <4>2, <5>2 DEF Waits, AllowedAfter, Follows, Spoiled
      <4>3. CASE t = "HandShake" /\ m = <<Pkt("ConnectionOK"), Pkt(cMode)>>
        <5>1. Head(m) = Pkt("ConnectionOK") /\ Tail(m) = <<Pkt(cMode)>>
          BY <4>3
        <5>2. Tail(m) # <<>> /\ Head(Tail(m)) = Pkt(cMode) /\ Tail(Tail(m)) = <<>>
          <6>1. /\ <<Pkt(cMode)>> # <<>> /\ Head(<<Pkt(cMode)>>) = Pkt(cMode)
                /\ Tail(<<Pkt(cMode)>>) = <<>>
            OBVIOUS
          <6> QED BY <5>1, <6>1
        <5>3. Head(c2s').type = "ConnectionOK" /\ Tail(c2s') # <<>>
              /\ Head(Tail(c2s')).type \in Kinds /\ Tail(Tail(c2s')) = <<>>
          BY <4>1, <5>1, <5>2 DEF Pkt, TypeOK, ClientTypeOK
        <5> QED BY <3>1, <4>3, <5>3 DEF Waits, AllowedAfter, Follows, Spoiled
      <4>4. CASE t = "DriversList" /\ \E d \in Selections : m = <<PktWith("SelectedDriver", d)>>
        <5>1. PICK d \in Selections : m = <<PktWith("SelectedDriver", d)>>
          BY <4>4
        <5>2. Head(m) = PktWith("SelectedDriver", d) /\ Tail(m) = <<>>
          BY <5>1
        <5>3. Head(c2s').type = "SelectedDriver" /\ Tail(c2s') = <<>>
          BY <4>1, <5>2 DEF PktWith
        <5> QED BY <3>1, <4>4, <5>3 DEF Waits, AllowedAfter, Follows, Spoiled
      <4>5. CASE t = "DriverSettings" /\ m = <<Pkt("ConnectionEstablished")>>
        <5>1. Head(m) = Pkt("ConnectionEstablished") /\ Tail(m) = <<>>
          BY <4>5
        <5>2. Head(c2s').type = "ConnectionEstablished" /\ Tail(c2s') = <<>>
          BY <4>1, <5>1 DEF Pkt
        <5> QED BY <3>1, <4>5, <5>2 DEF Waits, AllowedAfter, Follows, Spoiled
      <4> QED BY <2>3, <4>2, <4>3, <4>4, <4>5 DEF Replies
    <3> QED BY <3>2, <3>3
  <2> QED BY <1>2, <1>o, <2>0, <2>1, <2>2, <2>3, SendsSo
<1> QED BY <1>1, <1>2 DEF Stays, ToServer

\* The client answers on its turn, and is not asked again before.
LEMMA ClientKeepsTurn ==
  ASSUME TypeOK, TurnInv, UNCHANGED serverVars, NEW m, Stays(m)
  PROVE  TurnInv'
<1> SUFFICES ASSUME sSock = "open", cTcp = "Connected", link = "up"
             PROVE  /\ \A i \in DOMAIN s2c' : s2c'[i].type \in Turns =>
                         /\ Waits(s2c[i].type)' /\ ~cDialog'
                         /\ \A j \in DOMAIN s2c' : s2c'[j].type \in Turns => i = j
                    /\ cDialog' => Waits("DriversList")'
                    /\ cPanel' => \/ sConnected'
                                  \/ sAllowed' = AllowedAfter("DriverSettings") /\ c2s' # <<>>
                    /\ \A i \in DOMAIN s2c' : s2c'[i].type = "CheckConnection" => sConnected'
  BY DEF TurnInv, Stays
<1>t. c2s \in Seq(ClientPacket) /\ s2c \in Seq(ServerPacket)
  BY DEF TypeOK, WireTypeOK
<1>o. /\ \A i \in DOMAIN s2c : s2c[i].type \in Turns =>
           /\ Waits(s2c[i].type) /\ ~cDialog
           /\ \A j \in DOMAIN s2c : s2c[j].type \in Turns => i = j
      /\ cPanel => sConnected \/ (sAllowed = AllowedAfter("DriverSettings") /\ c2s # <<>>)
      /\ \A i \in DOMAIN s2c : s2c[i].type = "CheckConnection" => sConnected
  BY DEF TurnInv
<1>u. UNCHANGED <<sConnected, sAllowed>>
  BY DEF serverVars
<1>c. c2s' = c2s \o m /\ Sends(m) /\ Gets
  BY DEF Stays, ToServer
<1>m. \/ m = <<>>
      \/ SendsOne(m)
      \/ \E t \in Turns : (ReadsA(t) \/ (t = "DriversList" /\ cDialog)) /\ Replies(t, m)
  BY <1>c, SendsSo
<1>q. m \in Seq(ClientPacket)
  <2>1. <<>> \in Seq(ClientPacket) /\ \A p \in ClientPacket : <<p>> \in Seq(ClientPacket)
    OBVIOUS
  <2> QED BY <1>m, <2>1, RepliesType DEF SendsOne
<1>n. c2s # <<>> \/ m # <<>> => c2s' # <<>>
  BY <1>t, <1>c, <1>q
<1>s. ASSUME ~sConnected, Spoiled(c2s), m = <<>> \/ SendsOne(m)
      PROVE  Spoiled(c2s')
  <2>1. CASE m = <<>>
    <3>1. c2s \o <<>> = c2s
      BY <1>t
    <3> QED BY <1>c, <1>s, <2>1, <3>1
  <2>2. CASE SendsOne(m)
    <3>1. PICK p \in ClientPacket : m = <<p>> /\ (p.type \in Soft \/ c2s # <<>>)
      BY <1>s, <2>2 DEF SendsOne
    <3>2. Spoiled(c2s \o <<p>>)
      BY <1>t, <1>s, <3>1, SoftBehind
    <3> QED BY <1>c, <3>1, <3>2
  <2> QED BY <1>s, <2>1, <2>2
<1>k. /\ \A i \in DOMAIN s2c' :
           \E k \in DOMAIN s2c : /\ s2c'[i] = s2c[k]
                                 /\ \/ s2c' = s2c /\ k = i
                                    \/ Consumes /\ s2c # <<>> /\ k = i + 1
      /\ DOMAIN s2c \subseteq Nat /\ \A k \in DOMAIN s2c : k >= 1
      /\ s2c # <<>> /\ Consumes => s2c' # s2c
  BY <1>t, <1>c, Kept
<1>d. \A i \in DOMAIN s2c' : i \in Nat /\ i >= 1
  <2>1. s2c' = s2c \/ s2c' = Tail(s2c) \/ s2c' = <<>>
    BY <1>c DEF Gets, Consumes
  <2>2. s2c # <<>> => Tail(s2c) \in Seq(ServerPacket)
    BY <1>t
  <2> QED BY <1>t, <1>c, <2>1, <2>2 DEF Gets
<1>1. ASSUME NEW i \in DOMAIN s2c', s2c'[i].type \in Turns
      PROVE  /\ Waits(s2c[i].type)' /\ ~cDialog'
             /\ \A j \in DOMAIN s2c' : s2c'[j].type \in Turns => i = j
  <2>1. PICK k \in DOMAIN s2c : /\ s2c'[i] = s2c[k]
                                /\ \/ s2c' = s2c /\ k = i
                                   \/ Consumes /\ s2c # <<>> /\ k = i + 1
    BY <1>k
  <2>2. Waits(s2c[k].type) /\ ~cDialog /\ \A j \in DOMAIN s2c : s2c[j].type \in Turns => k = j
    BY <1>1, <1>o, <2>1
  <2>3. \A t \in Turns : ~(ReadsA(t) \/ (t = "DriversList" /\ cDialog))
    <3> SUFFICES ASSUME NEW t \in Turns, ReadsA(t) \/ (t = "DriversList" /\ cDialog)
                 PROVE  FALSE
      OBVIOUS
    <3>1. k = 1 /\ ReadsA(t)
      BY <1>1, <2>1, TurnWaits
    <3> QED BY <1>d, <2>1, <3>1 DEF ReadsA
  <2>4. m = <<>> \/ SendsOne(m)
    BY <1>m, <2>3
  <2>5. Spoiled(c2s')
    BY <1>s, <2>2, <2>4 DEF Waits
  <2>6. Waits(s2c[i].type)'
    BY <1>u, <2>1, <2>2, <2>5 DEF Waits, Spoiled
  <2>7. ~cDialog'
    BY <2>3 DEF Stays, Turns
  <2>8. ASSUME NEW j \in DOMAIN s2c', s2c'[j].type \in Turns PROVE i = j
    <3>1. PICK q \in DOMAIN s2c : /\ s2c'[j] = s2c[q]
                                  /\ \/ s2c' = s2c /\ q = j
                                     \/ Consumes /\ s2c # <<>> /\ q = j + 1
      BY <1>k
    <3>2. k = q
      BY <2>2, <2>8, <3>1
    <3> QED BY <1>d, <1>k, <2>1, <3>1, <3>2
  <2> QED BY <2>6, <2>7, <2>8
<1>2. cDialog' => Waits("DriversList")'
  <2> SUFFICES ASSUME cDialog' PROVE Waits("DriversList")'
    OBVIOUS
  <2>1. m = <<>> /\ ReadsA("DriversList") /\ "DriversList" \in Turns
    BY DEF Stays, Turns
  <2>2. Waits("DriversList")
    BY <2>1, TurnWaits
  <2>3. Spoiled(c2s')
    BY <1>s, <2>1, <2>2 DEF Waits
  <2> QED BY <1>u, <2>2, <2>3 DEF Waits, Spoiled
<1>3. cPanel' => sConnected' \/ (sAllowed' = AllowedAfter("DriverSettings") /\ c2s' # <<>>)
  <2> SUFFICES ASSUME cPanel'
               PROVE  sConnected \/ (sAllowed = AllowedAfter("DriverSettings") /\ c2s' # <<>>)
    BY <1>u
  <2>1. CASE cPanel
    BY <1>n, <1>o, <2>1
  <2>2. CASE ReadsA("DriverSettings") /\ m # <<>>
    <3>1. Waits("DriverSettings")
      BY <2>2, TurnWaits DEF Turns
    <3> QED BY <1>n, <2>2, <3>1 DEF Waits
  <2> QED BY <2>1, <2>2 DEF Stays
<1>4. \A i \in DOMAIN s2c' : s2c'[i].type = "CheckConnection" => sConnected'
  BY <1>k, <1>o, <1>u
<1> QED BY <1>1, <1>2, <1>3, <1>4

\* The client reads in order, and is connected once it has read the settings.
LEMMA ClientKeepsTelemetry ==
  ASSUME TypeOK, StreamsInv, TelemetryInv, UNCHANGED serverVars, NEW m, Stays(m)
  PROVE  TelemetryInv'
<1> SUFFICES ASSUME ~cConnected'
             PROVE  /\ \A i \in DOMAIN s2c' : s2c'[i].type \in Late =>
                         \E j \in DOMAIN s2c' : j < i /\ s2c'[j].type = "DriverSettings"
                    /\ (sSock = "open" /\ link = "up" /\ cNext' = "header"
                          /\ sDriver # NoDriver)
                         => \E i \in DOMAIN s2c' : s2c'[i].type = "DriverSettings"
  BY DEF TelemetryInv, Stays, serverVars
<1>t. s2c \in Seq(ServerPacket)
  BY DEF TypeOK, WireTypeOK
<1>c. Gets /\ ~cConnected /\ (ReadsA("DriverSettings") => ~Consumes) /\ cTcp = "Connected"
  BY DEF Stays, Consumes
<1>o. /\ \A i \in DOMAIN s2c : s2c[i].type \in Late =>
           \E j \in DOMAIN s2c : j < i /\ s2c[j].type = "DriverSettings"
      /\ (sSock = "open" /\ link = "up" /\ cNext = "header" /\ sDriver # NoDriver)
           => \E i \in DOMAIN s2c : s2c[i].type = "DriverSettings"
  BY <1>c DEF TelemetryInv
<1>1. CASE UNCHANGED <<s2c, cNext>>
  BY <1>1, <1>o
<1>2. CASE s2c' = <<>> /\ cNext' = "lost"
  BY <1>2
<1>3. CASE Consumes /\ s2c # <<>> /\ s2c' # s2c
  <2>k. /\ \A i \in DOMAIN s2c' : \E k \in DOMAIN s2c : s2c'[i] = s2c[k] /\ k = i + 1
        /\ \A k \in DOMAIN s2c : k # 1 => k - 1 \in DOMAIN s2c' /\ s2c'[k - 1] = s2c[k]
        /\ DOMAIN s2c \subseteq Nat /\ \A k \in DOMAIN s2c : k >= 1
        /\ Head(s2c) = s2c[1]
    <3>1. \A i \in DOMAIN s2c' : \E k \in DOMAIN s2c : s2c'[i] = s2c[k] /\ k = i + 1
      BY <1>t, <1>c, <1>3, Kept
    <3> QED BY <1>t, <1>c, <1>3, <3>1, Kept
  <2>d. \A i \in DOMAIN s2c' : i \in Nat
    <3>1. Tail(s2c) \in Seq(ServerPacket)
      BY <1>t, <1>3
    <3> QED BY <1>3, <3>1 DEF Consumes
  <2>h. s2c[1].type # "DriverSettings"
    BY <1>3, <1>c, <2>k DEF ReadsA
  <2>1. ASSUME NEW i \in DOMAIN s2c', s2c'[i].type \in Late
        PROVE  \E j \in DOMAIN s2c' : j < i /\ s2c'[j].type = "DriverSettings"
    <3>1. i + 1 \in DOMAIN s2c /\ s2c'[i] = s2c[i + 1]
      BY <2>k
    <3>2. PICK j \in DOMAIN s2c : j < i + 1 /\ s2c[j].type = "DriverSettings"
      BY <1>o, <2>1, <3>1
    <3>3. j # 1
      BY <2>h, <3>2
    <3>4. j - 1 \in DOMAIN s2c' /\ s2c'[j - 1] = s2c[j] /\ j \in Nat /\ i \in Nat
      BY <2>d, <2>k, <3>3
    <3>5. j - 1 < i
      BY <3>2, <3>4
    <3> QED BY <3>2, <3>4, <3>5
  <2>2. ASSUME sSock = "open", link = "up", sDriver # NoDriver
        PROVE  \E i \in DOMAIN s2c' : s2c'[i].type = "DriverSettings"
    <3>1. cNext = "header"
      BY <1>3 DEF StreamsInv
    <3>2. PICK k \in DOMAIN s2c : s2c[k].type = "DriverSettings"
      BY <1>o, <2>2, <3>1
    <3> QED BY <2>h, <2>k, <3>2
  <2> QED BY <2>1, <2>2
<1> QED BY <1>1, <1>2, <1>3, <1>c DEF Gets

\* The client holds the description of the server's driver when it says it is ready.
LEMMA ClientKeepsAgreement ==
  ASSUME TypeOK, StreamsInv, TurnInv, AgreeInv, UNCHANGED serverVars, NEW m, Stays(m)
  PROVE  AgreeInv'
<1> SUFFICES ASSUME sSock = "open"
             PROVE  /\ sConnected => Agreed'
                    /\ c2s' # <<>> /\ Head(c2s').type = "ConnectionEstablished" => Agreed'
                    /\ \A i \in DOMAIN s2c' :
                         s2c'[i].type \in {"MetaSignals", "UiDescription"} =>
                           s2c'[i].arg = sDriver /\ sDriver # NoDriver
                    /\ \A i \in DOMAIN s2c' : s2c'[i].type = "DriverSettings" /\ ~cConnected' =>
                         /\ \/ cMeta' = sDriver
                            \/ \E j \in DOMAIN s2c' : j < i /\ s2c'[j].type = "MetaSignals"
                         /\ \/ cUi' = sDriver
                            \/ \E j \in DOMAIN s2c' : j < i /\ s2c'[j].type = "UiDescription"
  BY DEF AgreeInv, Stays, serverVars
<1>t. s2c \in Seq(ServerPacket) /\ c2s \in Seq(ClientPacket)
  BY DEF TypeOK, WireTypeOK
<1>u. UNCHANGED <<sDriver, sConnected>>
  BY DEF serverVars
<1>c. cTcp = "Connected" /\ Gets /\ Sends(m) /\ ToServer(m)
  BY DEF Stays
<1>o. /\ sConnected => Agreed
      /\ c2s # <<>> /\ Head(c2s).type = "ConnectionEstablished" => Agreed
      /\ \A i \in DOMAIN s2c : s2c[i].type \in {"MetaSignals", "UiDescription"} =>
           s2c[i].arg = sDriver /\ sDriver # NoDriver
      /\ \A i \in DOMAIN s2c : s2c[i].type = "DriverSettings" /\ ~cConnected =>
           /\ cMeta = sDriver \/ \E j \in DOMAIN s2c : j < i /\ s2c[j].type = "MetaSignals"
           /\ cUi = sDriver \/ \E j \in DOMAIN s2c : j < i /\ s2c[j].type = "UiDescription"
  BY <1>c DEF AgreeInv
<1>k. /\ \A i \in DOMAIN s2c' :
           \E k \in DOMAIN s2c : /\ s2c'[i] = s2c[k]
                                 /\ \/ s2c' = s2c /\ k = i
                                    \/ Consumes /\ s2c # <<>> /\ k = i + 1
      /\ Consumes /\ s2c # <<>> => \A k \in DOMAIN s2c :
           k # 1 => k - 1 \in DOMAIN s2c' /\ s2c'[k - 1] = s2c[k]
      /\ DOMAIN s2c \subseteq Nat /\ \A k \in DOMAIN s2c : k >= 1
      /\ s2c # <<>> => 1 \in DOMAIN s2c /\ Head(s2c) = s2c[1]
      /\ s2c # <<>> /\ Consumes => s2c' # s2c
  BY <1>t, <1>c, Kept
<1>a. Agreed => Agreed'
  <2> SUFFICES ASSUME Agreed PROVE Agreed'
    OBVIOUS
  <2>1. cConnected' /\ cMeta' = cMeta
    BY DEF Stays, Agreed
  <2>2. cUi' = cUi \/ cUi' = sDriver
    <3>1. CASE ReadsA("UiDescription") /\ cUi' = Head(s2c).arg
      <4>1. 1 \in DOMAIN s2c /\ s2c[1].type = "UiDescription" /\ cUi' = s2c[1].arg
        BY <1>k, <3>1 DEF ReadsA
      <4> QED BY <1>o, <4>1
    <3> QED BY <3>1 DEF Stays
  <2> QED BY <1>u, <2>1, <2>2 DEF Agreed
<1>1. sConnected => Agreed'
  BY <1>a, <1>o
<1>2. c2s' # <<>> /\ Head(c2s').type = "ConnectionEstablished" => Agreed'
  <2> SUFFICES ASSUME c2s' # <<>>, Head(c2s').type = "ConnectionEstablished" PROVE Agreed'
    OBVIOUS
  <2>1. CASE c2s' = c2s
    BY <1>a, <1>o, <2>1
  <2>2. CASE link = "up" /\ c2s' = c2s \o m
    <3>m. \/ m = <<>>
          \/ SendsOne(m)
          \/ \E t \in Turns : (ReadsA(t) \/ (t = "DriversList" /\ cDialog)) /\ Replies(t, m)
      BY <1>c, <2>2, SendsSo
    <3>1. CASE m = <<>>
      <4>1. c2s \o <<>> = c2s
        BY <1>t
      <4> QED BY <2>1, <2>2, <3>1, <4>1
    <3>2. CASE c2s # <<>>
      <4>1. m \in Seq(ClientPacket)
        <5>1. <<>> \in Seq(ClientPacket) /\ \A p \in ClientPacket : <<p>> \in Seq(ClientPacket)
          OBVIOUS
        <5> QED BY <3>m, <5>1, RepliesType DEF SendsOne
      <4>2. Head(c2s \o m) = Head(c2s)
        BY <1>t, <3>2, <4>1
      <4> QED BY <1>a, <1>o, <2>2, <3>2, <4>2
    <3>3. CASE c2s = <<>> /\ SendsOne(m)
      <4>1. PICK p \in ClientPacket : m = <<p>> /\ p.type \in Regular
        BY <3>3 DEF SendsOne
      <4>2. <<>> \o <<p>> = <<p>> /\ Head(<<p>>) = p
        OBVIOUS
      <4>3. Head(c2s').type \in Regular
        BY <2>2, <3>3, <4>1, <4>2
      <4> QED BY <4>3 DEF Regular, Soft, UserPackets
    <3>4. ASSUME c2s = <<>>, NEW t \in Turns, Replies(t, m),
                 ReadsA(t) \/ (t = "DriversList" /\ cDialog)
          PROVE  Agreed'
      <4>1. c2s' = m
        <5>1. <<>> \o m = m
          BY <3>4 DEF Replies
        <5> QED BY <2>2, <3>4, <5>1
      <4>2. t = "DriverSettings"
        <5>1. /\ \A x : Head(<<x>>) = x
              /\ \A x, y : Head(<<x, y>>) = x
          OBVIOUS
        <5> QED BY <3>4, <4>1, <5>1 DEF Replies, Pkt, PktWith
      <4>3. ~cConnected /\ cConnected' /\ UNCHANGED <<cMeta, cUi>>
        BY <3>4, <4>2 DEF Replies
      <4>4. 1 \in DOMAIN s2c /\ s2c[1].type = "DriverSettings"
        BY <1>k, <3>4, <4>2 DEF ReadsA
      <4>5. \A j \in DOMAIN s2c : ~(j < 1)
        BY <1>k
      <4>6. cMeta = sDriver /\ cUi = sDriver
        BY <1>o, <4>3, <4>4, <4>5
      <4> QED BY <1>u, <4>3, <4>6 DEF Agreed
    <3> QED BY <3>m, <3>1, <3>2, <3>3, <3>4
  <2> QED BY <1>c, <2>1, <2>2 DEF ToServer
<1>3. \A i \in DOMAIN s2c' : s2c'[i].type \in {"MetaSignals", "UiDescription"} =>
        s2c'[i].arg = sDriver /\ sDriver # NoDriver
  BY <1>k, <1>o
<1>4. ASSUME NEW i \in DOMAIN s2c', s2c'[i].type = "DriverSettings", ~cConnected'
      PROVE  /\ \/ cMeta' = sDriver
                \/ \E j \in DOMAIN s2c' : j < i /\ s2c'[j].type = "MetaSignals"
             /\ \/ cUi' = sDriver
                \/ \E j \in DOMAIN s2c' : j < i /\ s2c'[j].type = "UiDescription"
  <2>1. PICK k \in DOMAIN s2c : /\ s2c'[i] = s2c[k]
                                /\ \/ s2c' = s2c /\ k = i
                                   \/ Consumes /\ s2c # <<>> /\ k = i + 1
    BY <1>k
  <2>2. ~cConnected
    BY <1>4 DEF Stays
  <2>3. /\ cMeta = sDriver \/ \E j \in DOMAIN s2c : j < k /\ s2c[j].type = "MetaSignals"
        /\ cUi = sDriver \/ \E j \in DOMAIN s2c : j < k /\ s2c[j].type = "UiDescription"
    BY <1>4, <1>o, <2>1, <2>2
  <2>m. cMeta' = cMeta \/ cMeta' = sDriver
    <3>1. CASE ReadsA("MetaSignals") /\ cMeta' = Head(s2c).arg
      <4>1. 1 \in DOMAIN s2c /\ s2c[1].type = "MetaSignals" /\ cMeta' = s2c[1].arg
        BY <1>k, <3>1 DEF ReadsA
      <4> QED BY <1>o, <4>1
    <3> QED BY <3>1 DEF Stays
  <2>u. cUi' = cUi \/ cUi' = sDriver
    <3>1. CASE ReadsA("UiDescription") /\ cUi' = Head(s2c).arg
      <4>1. 1 \in DOMAIN s2c /\ s2c[1].type = "UiDescription" /\ cUi' = s2c[1].arg
        BY <1>k, <3>1 DEF ReadsA
      <4> QED BY <1>o, <4>1
    <3> QED BY <3>1 DEF Stays
  <2>4. CASE s2c' = s2c /\ k = i
    BY <2>3, <2>4, <2>m, <2>u
  <2>5. CASE Consumes /\ s2c # <<>> /\ k = i + 1
    <3>i. i \in Nat
      <4>1. Tail(s2c) \in Seq(ServerPacket)
        BY <1>t, <2>5
      <4> QED BY <2>5, <4>1 DEF Consumes
    <3>1. ASSUME NEW j \in DOMAIN s2c, j < k, j # 1
          PROVE  j - 1 \in DOMAIN s2c' /\ s2c'[j - 1] = s2c[j] /\ j - 1 < i
      <4>1. j - 1 \in DOMAIN s2c' /\ s2c'[j - 1] = s2c[j] /\ j \in Nat
        BY <1>k, <2>5, <3>1
      <4> QED BY <2>5, <3>1, <3>i, <4>1
    <3>2. s2c[1].type = "MetaSignals" => cMeta' = sDriver
      <4> SUFFICES ASSUME s2c[1].type = "MetaSignals" PROVE cMeta' = sDriver
        OBVIOUS
      <4>1. ReadsA("MetaSignals") /\ Consumes
        BY <1>k, <2>5 DEF ReadsA
      <4>2. cMeta' = Head(s2c).arg
        BY <2>2, <4>1 DEF Stays
      <4> QED BY <1>k, <1>o, <2>5, <4>2
    <3>3. s2c[1].type = "UiDescription" => cUi' = sDriver
      <4> SUFFICES ASSUME s2c[1].type = "UiDescription" PROVE cUi' = sDriver
        OBVIOUS
      <4>1. ReadsA("UiDescription") /\ Consumes
        BY <1>k, <2>5 DEF ReadsA
      <4>2. cUi' = Head(s2c).arg
        BY <2>2, <4>1 DEF Stays
      <4> QED BY <1>k, <1>o, <2>5, <4>2
    <3>4. cMeta' = sDriver \/ \E j \in DOMAIN s2c' : j < i /\ s2c'[j].type = "MetaSignals"
      BY <2>3, <2>m, <3>1, <3>2
    <3>5. cUi' = sDriver \/ \E j \in DOMAIN s2c' : j < i /\ s2c'[j].type = "UiDescription"
      BY <2>3, <2>u, <3>1, <3>3
    <3> QED BY <3>4, <3>5
  <2> QED BY <2>1, <2>4, <2>5
<1> QED BY <1>1, <1>2, <1>3, <1>4

\* The client tells its revision.
LEMMA ClientKeepsRevision ==
  ASSUME TypeOK, TurnInv, RevisionInv, UNCHANGED serverVars, NEW m, Stays(m)
  PROVE  RevisionInv'
<1> SUFFICES ASSUME sSock = "open"
             PROVE  /\ ~Unshaken => cRev = ServerRevision
                    /\ \A i \in DOMAIN c2s' : c2s'[i].type = "HandShake" => c2s'[i].arg = cRev
  BY DEF RevisionInv, Stays, serverVars, Unshaken
<1>t. c2s \in Seq(ClientPacket)
  BY DEF TypeOK, WireTypeOK
<1>o. /\ ~Unshaken => cRev = ServerRevision
      /\ \A i \in DOMAIN c2s : c2s[i].type = "HandShake" => c2s[i].arg = cRev
  BY DEF RevisionInv
<1>1. CASE c2s' = c2s
  BY <1>1, <1>o
<1>2. CASE link = "up" /\ c2s' = c2s \o m
  <2>m. \/ m = <<>>
        \/ SendsOne(m)
        \/ \E t \in Turns : (ReadsA(t) \/ (t = "DriversList" /\ cDialog)) /\ Replies(t, m)
    BY <1>2, SendsSo DEF Stays
  <2>1. m \in Seq(ClientPacket)
    <3>1. <<>> \in Seq(ClientPacket) /\ \A p \in ClientPacket : <<p>> \in Seq(ClientPacket)
      OBVIOUS
    <3> QED BY <2>m, <3>1, RepliesType DEF SendsOne
  <2>2. \A j \in DOMAIN m : m[j].type = "HandShake" => m[j].arg = cRev
    <3>1. CASE m = <<>>
      BY <3>1
    <3>2. CASE SendsOne(m)
      <4>1. PICK p \in ClientPacket : m = <<p>> /\ p.type \in Regular
        BY <3>2 DEF SendsOne
      <4> QED BY <4>1 DEF Regular, Soft, UserPackets
    <3>3. ASSUME NEW t \in Turns, Replies(t, m)
          PROVE  \A j \in DOMAIN m : m[j].type = "HandShake" => m[j].arg = cRev
      <4>1. CASE m = <<PktWith("HandShake", cRev)>>
        BY <4>1 DEF PktWith
      <4>2. CASE m = <<Pkt("ConnectionOK"), Pkt(cMode)>>
        <5>1. cMode # "HandShake"
          BY DEF TypeOK, ClientTypeOK, Kinds
        <5> QED BY <4>2, <5>1 DEF Pkt
      <4>3. CASE \E d \in Selections : m = <<PktWith("SelectedDriver", d)>>
        BY <4>3 DEF PktWith
      <4>4. CASE m = <<Pkt("ConnectionEstablished")>>
        BY <4>4 DEF Pkt
      <4> QED BY <3>3, <4>1, <4>2, <4>3, <4>4 DEF Replies
    <3> QED BY <2>m, <3>1, <3>2, <3>3
  <2>3. \A i \in DOMAIN (c2s \o m) :
          \/ i \in DOMAIN c2s /\ (c2s \o m)[i] = c2s[i]
          \/ \E j \in DOMAIN m : i = Len(c2s) + j /\ (c2s \o m)[i] = m[j]
    BY <1>t, <2>1, Added
  <2> QED BY <1>2, <1>o, <2>2, <2>3
<1> QED BY <1>1, <1>2 DEF Stays, ToServer

-----------------------------------------------------------------------------
(* Checks and their answers.                                               *)

\* How many packets of a type there are.
LEMMA Counted ==
  ASSUME NEW S, NEW s \in Seq(S), NEW t
  PROVE  IsFiniteSet({i \in DOMAIN s : s[i].type = t}) /\ Count(s, t) \in Nat
<1>1. IsFiniteSet(DOMAIN s)
  <2>1. DOMAIN s = 1 .. Len(s) /\ 1 \in Int /\ Len(s) \in Int
    OBVIOUS
  <2>2. IsFiniteSet(1 .. Len(s))
    BY <2>1, FS_Interval
  <2> QED BY <2>1, <2>2
<1>2. {i \in DOMAIN s : s[i].type = t} \in SUBSET (DOMAIN s)
  OBVIOUS
<1>3. IsFiniteSet({i \in DOMAIN s : s[i].type = t})
  BY <1>1, <1>2, FS_Subset
<1> QED BY <1>3, FS_CardinalityType DEF Count

\* A packet that is read counts no more.
LEMMA CountTail ==
  ASSUME NEW S, NEW s \in Seq(S), s # <<>>, NEW t
  PROVE  /\ Count(s, t) <= Count(Tail(s), t) + 1
         /\ Head(s).type # t => Count(s, t) <= Count(Tail(s), t)
<1> DEFINE A == {i \in DOMAIN Tail(s) : Tail(s)[i].type = t}
           B == {i \in DOMAIN s : s[i].type = t}
           C == B \ {1}
           f == [k \in C |-> k - 1]
<1>t. /\ Tail(s) \in Seq(S) /\ Len(s) \in Nat
      /\ DOMAIN s = 1 .. Len(s) /\ DOMAIN Tail(s) = 1 .. Len(s) - 1
      /\ \A i \in DOMAIN Tail(s) : i + 1 \in DOMAIN s /\ Tail(s)[i] = s[i + 1]
      /\ Head(s) = s[1]
  BY TailOf
<1>1. /\ IsFiniteSet(A) /\ Count(Tail(s), t) = Cardinality(A) /\ Cardinality(A) \in Nat
      /\ IsFiniteSet(B) /\ Count(s, t) = Cardinality(B) /\ Cardinality(B) \in Nat
  BY <1>t, Counted DEF Count
<1>2. \A k \in C : k \in Nat /\ k - 1 \in A
  <2> SUFFICES ASSUME NEW k \in C PROVE k \in Nat /\ k - 1 \in A
    OBVIOUS
  <2>1. k \in 1 .. Len(s) /\ k # 1 /\ s[k].type = t
    BY <1>t
  <2>2. k - 1 \in DOMAIN Tail(s) /\ (k - 1) + 1 = k
    BY <1>t, <2>1
  <2>3. Tail(s)[k - 1] = s[(k - 1) + 1]
    BY <1>t, <2>2
  <2> QED BY <2>1, <2>2, <2>3
<1>3. f \in Injection(C, A)
  <2>1. f \in [C -> A]
    BY <1>2
  <2>2. \A k, l \in C : f[k] = f[l] => k = l
    BY <1>2
  <2> QED BY <2>1, <2>2 DEF Injection, IsInjective
<1>4. /\ IsFiniteSet(C) /\ Cardinality(C) \in Nat
      /\ Cardinality(C) = IF 1 \in B THEN Cardinality(B) - 1 ELSE Cardinality(B)
  BY <1>1, FS_RemoveElement, FS_CardinalityType
<1> HIDE DEF f, C
<1>5. Cardinality(C) <= Cardinality(A)
  BY <1>1, <1>3, FS_Injection
<1>6. Head(s).type # t => 1 \notin B
  BY <1>t
<1> HIDE DEF A, B
<1> QED BY <1>1, <1>4, <1>5, <1>6

\* Packets that are written do count.
LEMMA CountAdded ==
  ASSUME NEW S, NEW s \in Seq(S), NEW m \in Seq(S), NEW t
  PROVE  /\ Count(s, t) <= Count(s \o m, t)
         /\ (\E j \in DOMAIN m : m[j].type = t) => Count(s, t) + 1 <= Count(s \o m, t)
<1> DEFINE r == s \o m
<1>t. /\ r \in Seq(S)
      /\ \A i \in DOMAIN s : i \in DOMAIN r /\ r[i] = s[i]
      /\ \A j \in DOMAIN m : Len(s) + j \in DOMAIN r /\ r[Len(s) + j] = m[j]
      /\ \A j \in DOMAIN m : Len(s) + j \notin DOMAIN s
  <2>1. \A j \in DOMAIN m : Len(s) + j \notin DOMAIN s
    OBVIOUS
  <2> QED BY <2>1, Added
<1> HIDE DEF r
<1> DEFINE A == {i \in DOMAIN s : s[i].type = t}
           B == {i \in DOMAIN r : r[i].type = t}
<1>1. /\ IsFiniteSet(A) /\ Count(s, t) = Cardinality(A) /\ Cardinality(A) \in Nat
      /\ IsFiniteSet(B) /\ Count(r, t) = Cardinality(B) /\ Cardinality(B) \in Nat
  BY <1>t, Counted DEF Count
<1>2. A \in SUBSET B
  BY <1>t
<1>3. Cardinality(A) <= Cardinality(B)
  BY <1>1, <1>2, FS_Subset
<1>4. ASSUME NEW j \in DOMAIN m, m[j].type = t
      PROVE  Cardinality(A) + 1 <= Cardinality(B)
  <2>1. Len(s) + j \in B /\ Len(s) + j \notin A
    BY <1>t, <1>4
  <2>2. /\ IsFiniteSet(A \cup {Len(s) + j})
        /\ Cardinality(A \cup {Len(s) + j}) = Cardinality(A) + 1
    BY <1>1, <2>1, FS_AddElement
  <2>3. A \cup {Len(s) + j} \in SUBSET B
    BY <1>2, <2>1
  <2>4. Cardinality(A \cup {Len(s) + j}) <= Cardinality(B)
    BY <1>1, <2>3, FS_Subset
  <2> QED BY <2>2, <2>4
<1> HIDE DEF A, B
<1>5. r = s \o m
  BY DEF r
<1> QED BY <1>1, <1>3, <1>4, <1>5

\* Either the count is given up, or nothing is read; then a check is sent for each
\* that is counted.
LEMMA ServerCounts ==
  ASSUME ServerStep, sSock' = "open"
  PROVE  \/ sLost' = 0
         \/ /\ UNCHANGED <<c2s, sNext, sSock>>
            /\ \/ UNCHANGED sLost
               \/ sLost' = sLost + 1 /\ ToClient(<<Pkt("CheckConnection")>>)
<1> USE DEF Refuse, TakeRequest, unchangedFraming
<1>1. CASE SrvReads
  <2>1. CASE SrvRequestConnection  BY <2>1 DEF SrvRequestConnection
  <2>2. CASE SrvHandShake          BY <2>2 DEF SrvHandShake
  <2>3. CASE SrvConnectionOK       BY <2>3 DEF SrvConnectionOK
  <2>4. CASE SrvConnectionKind     BY <2>4 DEF SrvConnectionKind
  <2>5. CASE SrvNoSuchDriver       BY <2>5 DEF SrvNoSuchDriver
  <2>6. CASE SrvEquipmentFails     BY <2>6 DEF SrvEquipmentFails
  <2>7. CASE SrvSelectedDriver     BY <2>7 DEF SrvSelectedDriver
  <2>8. CASE SrvEstablished        BY <2>8 DEF SrvEstablished
  <2>9. CASE SrvWrongRequest       BY <2>9 DEF SrvWrongRequest
  <2>10. CASE SrvClientRefuses     BY <2>10 DEF SrvClientRefuses
  <2>11. CASE SrvNoted             BY <2>11 DEF SrvNoted
  <2>12. CASE SrvFileRequest       BY <2>12 DEF SrvFileRequest
  <2>13. CASE SrvReloadInterface   BY <2>13 DEF SrvReloadInterface
  <2>14. CASE SrvControl           BY <2>14 DEF SrvControl
  <2>15. CASE SrvUnknownSignal     BY <2>15 DEF SrvUnknownSignal
  <2>16. CASE SrvUntypedControl    BY <2>16 DEF SrvUntypedControl
  <2> QED BY <1>1, <2>1, <2>2, <2>3, <2>4, <2>5, <2>6, <2>7, <2>8, <2>9, <2>10,
             <2>11, <2>12, <2>13, <2>14, <2>15, <2>16 DEF SrvReads
<1>2. CASE SrvReadLeftover     BY <1>2 DEF SrvReadLeftover
<1>3. CASE SrvCheckConnection  BY <1>3 DEF SrvCheckConnection
<1>4. CASE \E t \in Unsolicited : SrvDriverEmits(t)  BY <1>4 DEF SrvDriverEmits
<1>5. CASE SrvDisconnected     BY <1>5 DEF SrvDisconnected
<1>6. CASE SrvPeerClosed       BY <1>6 DEF SrvPeerClosed
<1> QED BY <1>1, <1>2, <1>3, <1>4, <1>5, <1>6 DEF ServerStep, ServerNext

\* What is counted has been sent.
LEMMA ServerKeepsCount ==
  ASSUME TypeOK, SetupInv, StreamsInv, OnlySilenceCounts, ServerStep
  PROVE  OnlySilenceCounts'
<1> DEFINE checks == Count(s2c, "CheckConnection")
           answers == Count(c2s, "ConnectionOK")
<1> SUFFICES ASSUME sSock' = "open", sNext' = "header", link' = "up",
                    cTcp' = "Connected", cNext' = "header"
             PROVE  sLost' <= checks' + answers'
  BY DEF OnlySilenceCounts
<1>t. /\ s2c \in Seq(ServerPacket) /\ c2s \in Seq(ClientPacket)
      /\ s2c' \in Seq(ServerPacket) /\ c2s' \in Seq(ClientPacket)
      /\ sLost \in Nat
  BY ServerType DEF TypeOK, WireTypeOK, ServerTypeOK
<1>c. checks' \in Nat /\ answers' \in Nat /\ checks \in Nat /\ answers \in Nat
  <2>1. Count(s2c', "CheckConnection") \in Nat /\ Count(c2s', "ConnectionOK") \in Nat
        /\ Count(s2c, "CheckConnection") \in Nat /\ Count(c2s, "ConnectionOK") \in Nat
    BY <1>t, Counted
  <2> QED BY <2>1
<1>1. CASE sLost' = 0
  BY <1>1, <1>c
<1>2. CASE UNCHANGED <<c2s, sNext, sSock>>
  <2>1. UNCHANGED <<cTcp, link, cNext>>
    BY ServerReadsSo
  <2>2. sLost <= checks + answers
    BY <1>2, <2>1 DEF OnlySilenceCounts
  <2>3. answers' = answers
    BY <1>2
  <2>4. PICK m : m \in Seq(ServerPacket) /\ ToClient(m)
    BY ServerWrites DEF Writes
  <2>5. s2c' = s2c \o m
    BY <1>2, <2>1, <2>4 DEF ToClient
  <2>6. Count(s2c, "CheckConnection") <= Count(s2c \o m, "CheckConnection")
    BY <1>t, <2>4, CountAdded
  <2>7. checks <= checks'
    BY <2>5, <2>6
  <2>8. CASE UNCHANGED sLost
    BY <1>c, <1>t, <2>2, <2>3, <2>7, <2>8
  <2>9. CASE sLost' = sLost + 1 /\ ToClient(<<Pkt("CheckConnection")>>)
    <3>1. s2c' = s2c \o <<Pkt("CheckConnection")>>
      BY <1>2, <2>1, <2>9 DEF ToClient
    <3>2. /\ <<Pkt("CheckConnection")>> \in Seq(ServerPacket)
          /\ \E j \in DOMAIN <<Pkt("CheckConnection")>> :
               <<Pkt("CheckConnection")>>[j].type = "CheckConnection"
      <4>1. Pkt("CheckConnection") \in ServerPacket
        BY PlainServerPackets
      <4>2. \A p \in ServerPacket : <<p>> \in Seq(ServerPacket) /\ 1 \in DOMAIN <<p>>
                                    /\ <<p>>[1] = p
        OBVIOUS
      <4>3. Pkt("CheckConnection").type = "CheckConnection"
        BY DEF Pkt
      <4> QED BY <4>1, <4>2, <4>3
    <3>3. checks + 1 <= checks'
      BY <1>t, <3>1, <3>2, CountAdded
    <3> QED BY <1>c, <1>t, <2>2, <2>3, <2>9, <3>3
  <2> QED BY <1>2, <2>8, <2>9, <1>1, ServerCounts
<1> HIDE DEF checks, answers
<1> QED BY <1>1, <1>2, ServerCounts

\* A check that is read is answered.
LEMMA ClientKeepsCount ==
  ASSUME TypeOK, StreamsInv, TurnInv, OnlySilenceCounts, ClientStep,
         UNCHANGED serverVars, NEW m, Stays(m)
  PROVE  OnlySilenceCounts'
<1> DEFINE checks == Count(s2c, "CheckConnection")
           answers == Count(c2s, "ConnectionOK")
<1> SUFFICES ASSUME sSock' = "open", sNext' = "header", link' = "up",
                    cTcp' = "Connected", cNext' = "header"
             PROVE  sLost' <= checks' + answers'
  BY DEF OnlySilenceCounts
<1>t. /\ s2c \in Seq(ServerPacket) /\ c2s \in Seq(ClientPacket)
      /\ s2c' \in Seq(ServerPacket) /\ c2s' \in Seq(ClientPacket)
      /\ sLost \in Nat
  BY ClientType DEF TypeOK, WireTypeOK, ServerTypeOK
<1>c. checks' \in Nat /\ answers' \in Nat /\ checks \in Nat /\ answers \in Nat
  <2>1. Count(s2c', "CheckConnection") \in Nat /\ Count(c2s', "ConnectionOK") \in Nat
        /\ Count(s2c, "CheckConnection") \in Nat /\ Count(c2s, "ConnectionOK") \in Nat
    BY <1>t, Counted
  <2> QED BY <2>1
<1>u. sSock = "open" /\ link = "up" /\ cTcp = "Connected" /\ sNext = "header"
  BY DEF Stays
<1>g. Gets /\ Sends(m) /\ c2s' = c2s \o m /\ sLost' = sLost
  BY <1>u DEF Stays, ToServer, serverVars
<1>l. sLost' = sLost /\ sLost \in Nat
  BY <1>g, <1>t
<1>m. m \in Seq(ClientPacket)
  <2>1. \/ m = <<>>
        \/ SendsOne(m)
        \/ \E t \in Turns : (ReadsA(t) \/ (t = "DriversList" /\ cDialog)) /\ Replies(t, m)
    BY <1>g, <1>u, SendsSo
  <2>2. <<>> \in Seq(ClientPacket) /\ \A p \in ClientPacket : <<p>> \in Seq(ClientPacket)
    OBVIOUS
  <2> QED BY <2>1, <2>2, RepliesType DEF SendsOne
<1>a. answers <= answers'
  <2>1. Count(c2s, "ConnectionOK") <= Count(c2s \o m, "ConnectionOK")
    BY <1>t, <1>m, CountAdded
  <2> QED BY <1>g, <2>1
<1>1. CASE UNCHANGED <<s2c, cNext>>
  <2>1. sLost <= checks + answers /\ checks' = checks
    BY <1>1, <1>u DEF OnlySilenceCounts
  <2> QED BY <1>a, <1>c, <1>l, <2>1
<1>2. CASE Consumes /\ s2c # <<>> /\ s2c' # s2c /\ cNext = "header"
  <2>1. sLost <= checks + answers
    BY <1>2, <1>u DEF OnlySilenceCounts
  <2>2. s2c' = Tail(s2c)
    BY <1>2 DEF Consumes
  <2>3. CASE Head(s2c).type # "CheckConnection"
    <3>1. Count(s2c, "CheckConnection") <= Count(Tail(s2c), "CheckConnection")
      BY <1>2, <1>t, <2>3, CountTail
    <3>2. checks <= checks'
      BY <2>2, <3>1
    <3> QED BY <1>a, <1>c, <1>l, <2>1, <3>2
  <2>4. CASE Head(s2c).type = "CheckConnection"
    <3>1. Count(s2c, "CheckConnection") <= Count(Tail(s2c), "CheckConnection") + 1
      BY <1>2, <1>t, CountTail
    <3>2. checks <= checks' + 1
      BY <2>2, <3>1
    <3>3. m = <<Pkt("ConnectionOK")>>
      BY <1>2, <2>4 DEF Stays, ReadsA
    <3>4. \E j \in DOMAIN m : m[j].type = "ConnectionOK"
      <4>1. \A p : 1 \in DOMAIN <<p>> /\ <<p>>[1] = p
        OBVIOUS
      <4> QED BY <3>3, <4>1 DEF Pkt
    <3>5. Count(c2s, "ConnectionOK") + 1 <= Count(c2s \o m, "ConnectionOK")
      BY <1>t, <1>m, <3>4, CountAdded
    <3>6. answers + 1 <= answers'
      BY <1>g, <3>5
    <3> QED BY <1>c, <1>l, <2>1, <3>2, <3>6
  <2> QED BY <2>3, <2>4
<1>3. Gets => UNCHANGED <<s2c, cNext>> \/ (s2c # <<>> /\ s2c' # s2c /\ Consumes /\ cNext = "header")
  BY DEF Gets, StreamsInv
<1> QED BY <1>1, <1>2, <1>3, <1>g

-----------------------------------------------------------------------------
(* The theorems.                                                           *)

\* The inductive invariant.
SessionInv ==
  /\ TypeOK /\ SetupInv
  /\ StreamsInv /\ OrderInv /\ TurnInv /\ TelemetryInv /\ AgreeInv /\ RevisionInv
  /\ OnlySilenceCounts

\* Nothing has happened yet.
LEMMA SessionInvInit == Init => SessionInv
<1> SUFFICES ASSUME Init PROVE SessionInv
  OBVIOUS
<1>1. TypeOK /\ SetupInv
  BY TypeInit, SetupInvInit
<1>2. StreamsInv
  BY DEF Init, WireInit, ServerInit, ClientInit, StreamsInv
<1>3. sSock = "none" /\ cTcp = "Unconnected"
  BY DEF Init, WireInit
<1> QED BY <1>1, <1>2, <1>3 DEF SessionInv, OrderInv, TurnInv, TelemetryInv, AgreeInv,
           RevisionInv, OnlySilenceCounts

\* The server keeps it.
LEMMA ServerKeeps ==
  ASSUME SessionInv, ServerStep
  PROVE  /\ StreamsInv' /\ OrderInv' /\ TurnInv' /\ TelemetryInv' /\ AgreeInv' /\ RevisionInv'
         /\ OnlySilenceCounts'
<1> USE DEF SessionInv
<1>1. ServerReads /\ UNCHANGED clientVars /\ UNCHANGED <<cTcp, link, cNext>>
  BY ServerReadsSo
<1>2. PICK m : Writes(m)
  BY ServerWrites
<1>3. UNCHANGED <<cConnected, cMeta, cUi, cDialog, cPanel, cRev>>
  BY <1>1 DEF clientVars
<1>4. StreamsInv' /\ OrderInv' /\ RevisionInv' /\ OnlySilenceCounts'
  BY <1>1, <1>3, ServerKeepsStreams, ServerKeepsOrder, ServerKeepsRevision, ServerKeepsCount
<1>5. TurnInv'
  BY <1>1, <1>2, <1>3, ServerKeepsTurn
<1>6. TelemetryInv'
  BY <1>1, <1>2, <1>3, ServerKeepsTelemetry
<1>7. AgreeInv'
  BY <1>1, <1>2, <1>3, ServerKeepsAgreement
<1> QED BY <1>4, <1>5, <1>6, <1>7

\* A client that connects meets a new socket.
LEMMA JoiningKeeps ==
  ASSUME SessionInv, Joins, UNCHANGED serverVars
  PROVE  /\ OrderInv' /\ TurnInv' /\ TelemetryInv' /\ AgreeInv' /\ RevisionInv'
         /\ OnlySilenceCounts'
<1>1. /\ sAllowed' = {"RequestConnection"} /\ ~sConnected' /\ sDriver' = NoDriver /\ sLost' = 0
  BY DEF SessionInv, SetupInv, StreamsInv, Joins, serverVars
<1>2. s2c' = <<>> /\ c2s' = <<Pkt("RequestConnection")>> /\ ~cDialog' /\ ~cPanel'
  BY DEF Joins
<1>3. /\ c2s' # <<>> /\ Head(c2s').type = "RequestConnection" /\ Tail(c2s') = <<>>
      /\ \A i \in DOMAIN c2s' : c2s'[i].type = "RequestConnection"
  <2>1. /\ \A p : <<p>> # <<>> /\ Head(<<p>>) = p /\ Tail(<<p>>) = <<>>
        /\ \A p : \A i \in DOMAIN <<p>> : <<p>>[i] = p
    OBVIOUS
  <2> QED BY <1>2, <2>1 DEF Pkt
<1>4. DOMAIN s2c' = {}
  BY <1>2
<1>5. OrderInv'
  <2>1. Follows(c2s)'
    BY <1>3 DEF Follows, Spoiled
  <2> QED BY <1>1, <1>3, <2>1 DEF OrderInv
<1>6. TurnInv' /\ TelemetryInv'
  BY <1>1, <1>2, <1>4 DEF TurnInv, TelemetryInv
<1>7. AgreeInv' /\ RevisionInv'
  BY <1>1, <1>3, <1>4 DEF AgreeInv, RevisionInv, Unshaken
<1>8. OnlySilenceCounts'
  <2>1. s2c' \in Seq(ServerPacket) /\ c2s' \in Seq(ClientPacket)
    <3>1. Pkt("RequestConnection") \in ClientPacket
      BY PlainClientPackets
    <3>2. <<>> \in Seq(ServerPacket) /\ \A p \in ClientPacket : <<p>> \in Seq(ClientPacket)
      OBVIOUS
    <3> QED BY <1>2, <3>1, <3>2
  <2>2. Count(s2c', "CheckConnection") \in Nat /\ Count(c2s', "ConnectionOK") \in Nat
    BY <2>1, Counted
  <2> QED BY <1>1, <2>2 DEF OnlySilenceCounts
<1> QED BY <1>5, <1>6, <1>7, <1>8

\* The client keeps it.
LEMMA ClientKeeps ==
  ASSUME SessionInv, ClientStep
  PROVE  /\ StreamsInv' /\ OrderInv' /\ TurnInv' /\ TelemetryInv' /\ AgreeInv' /\ RevisionInv'
         /\ OnlySilenceCounts'
<1>i. /\ TypeOK /\ SetupInv /\ StreamsInv /\ OrderInv /\ TurnInv /\ TelemetryInv /\ AgreeInv
      /\ RevisionInv /\ OnlySilenceCounts
  BY DEF SessionInv
<1>u. UNCHANGED serverVars
  BY DEF ClientStep
<1>1. Joins \/ Leaves \/ Errs \/ \E m : Stays(m)
  BY <1>i, ClientActsSo
<1>2. StreamsInv'
  BY <1>i, <1>u, <1>1, ClientKeepsStreams
<1>3. CASE Joins
  BY <1>2, <1>3, <1>u, JoiningKeeps
<1>4. CASE Leaves
  <2>1. cTcp' # "Connected" /\ UNCHANGED <<c2s, sSock, cRev>>
    BY <1>4 DEF Leaves
  <2>2. OrderInv'
    BY <1>i, <1>u, <2>1 DEF OrderInv, Spoiled, Follows, serverVars
  <2>3. RevisionInv'
    BY <1>i, <1>u, <2>1 DEF RevisionInv, Unshaken, serverVars
  <2> QED BY <1>2, <2>1, <2>2, <2>3 DEF TurnInv, TelemetryInv, AgreeInv, OnlySilenceCounts
<1>5. CASE \E m : Stays(m)
  <2>1. PICK m : Stays(m)
    BY <1>5
  <2>2. OrderInv' /\ TurnInv' /\ TelemetryInv' /\ AgreeInv' /\ RevisionInv'
    BY <1>i, <1>u, <2>1, ClientKeepsOrder, ClientKeepsTurn, ClientKeepsTelemetry,
       ClientKeepsAgreement, ClientKeepsRevision
  <2>3. OnlySilenceCounts'
    BY <1>i, <1>u, <2>1, ClientKeepsCount
  <2> QED BY <1>2, <2>2, <2>3
<1>6. CASE Errs
  <2>1. /\ s2c' = <<>> /\ DOMAIN s2c' = {}
        /\ link = "down" \/ sSock # "open"
        /\ UNCHANGED <<c2s, cTcp, sSock, link, cConnected, cMeta, cUi, cRev>>
        /\ UNCHANGED <<sAllowed, sConnected, sDriver, sLast>>
    BY <1>6, <1>u DEF Errs, serverVars
  <2>2. OrderInv'
    BY <1>i, <2>1 DEF OrderInv, Spoiled, Follows
  <2>3. TurnInv' /\ TelemetryInv' /\ OnlySilenceCounts'
    BY <2>1 DEF TurnInv, TelemetryInv, OnlySilenceCounts
  <2>4. AgreeInv' /\ RevisionInv'
    BY <1>i, <2>1 DEF AgreeInv, Agreed, RevisionInv, Unshaken
  <2> QED BY <1>2, <2>2, <2>3, <2>4
<1> QED BY <1>1, <1>3, <1>4, <1>5, <1>6

\* Every step keeps it.
LEMMA SessionInvStep == SessionInv /\ [Next]_vars => SessionInv'
<1> SUFFICES ASSUME SessionInv, [Next]_vars PROVE SessionInv'
  OBVIOUS
<1>0. TypeOK' /\ SetupInv'
  BY TypeStep, SetupInvStep DEF SessionInv
<1>1. CASE ServerStep
  BY <1>0, <1>1, ServerKeeps DEF SessionInv
<1>2. CASE ClientStep
  BY <1>0, <1>2, ClientKeeps DEF SessionInv
<1>3. CASE LinkDies
  <2>1. /\ c2s' = <<>> /\ s2c' = <<>> /\ link' = "down"
        /\ UNCHANGED <<cTcp, sSock, cNext, sAllowed, sLast, sConnected, sDriver, sTimer, sLost,
                       cConnected, cMeta, cUi, cDialog, cPanel, cRev>>
    BY <1>3 DEF LinkDies, serverVars, clientVars
  <2>2. StreamsInv' /\ OrderInv'
    BY <2>1 DEF SessionInv, StreamsInv, OrderInv, Spoiled
  <2>3. TurnInv' /\ TelemetryInv' /\ OnlySilenceCounts'
    BY <2>1 DEF TurnInv, TelemetryInv, OnlySilenceCounts
  <2>4. AgreeInv' /\ RevisionInv'
    BY <2>1 DEF SessionInv, AgreeInv, Agreed, RevisionInv, Unshaken
  <2> QED BY <1>0, <2>2, <2>3, <2>4 DEF SessionInv
<1>4. CASE UNCHANGED vars
  <2> USE <1>4 DEF vars, wireVars, serverVars, clientVars, SessionInv
  <2>1. StreamsInv' /\ OrderInv'
    BY DEF StreamsInv, OrderInv, Spoiled, Follows
  <2>2. TurnInv' /\ TelemetryInv'
    BY DEF TurnInv, TelemetryInv, Waits, Spoiled
  <2>3. AgreeInv' /\ RevisionInv' /\ OnlySilenceCounts'
    BY DEF AgreeInv, Agreed, RevisionInv, Unshaken, OnlySilenceCounts
  <2> QED BY <1>0, <2>1, <2>2, <2>3
<1> QED BY <1>1, <1>2, <1>3, <1>4 DEF Next

\* In every state of every run the packets in flight agree with what each end has done.
LEMMA SessionInvariant == Spec => []SessionInv
BY SessionInvInit, SessionInvStep, PTL DEF Spec

\* Every packet that reaches the socket is one it waits for, but for a user's gesture: the
\* two ends never lose each other in the set-up, whatever the driver, the user and the
\* connections before it did.
THEOREM HandshakeIsInOrder == Spec => []HandshakeInOrder
<1>1. SessionInv => HandshakeInOrder
  <2> SUFFICES ASSUME SessionInv, sSock = "open", c2s # <<>>
               PROVE  Head(c2s).type \in
                        UserPackets \cup {"RefuseConnection"} \cup
                        (IF sConnected THEN {"ConnectionOK", "Control"} ELSE sAllowed \ {"Control"})
    BY DEF HandshakeInOrder
  <2>1. 1 \in DOMAIN c2s /\ Head(c2s) = c2s[1]
    BY TailOf DEF SessionInv, TypeOK, WireTypeOK
  <2> QED BY <2>1 DEF SessionInv, OrderInv, Spoiled, Regular, Soft
<1> QED BY <1>1, SessionInvariant, PTL

\* A client that is still setting up never meets telemetry or a check, although the driver
\* may emit before it hears that the connection is established.
THEOREM TelemetryIsAfterSetup == Spec => []TelemetryAfterSetup
<1>1. SessionInv => TelemetryAfterSetup
  <2> SUFFICES ASSUME SessionInv, cTcp = "Connected", ~cConnected, s2c # <<>>,
                      Head(s2c).type \in Late
               PROVE  FALSE
    BY DEF TelemetryAfterSetup, Late
  <2>1. s2c \in Seq(ServerPacket)
    BY DEF SessionInv, TypeOK, WireTypeOK
  <2>2. 1 \in DOMAIN s2c /\ Head(s2c) = s2c[1] /\ \A j \in DOMAIN s2c : ~(j < 1)
    BY <2>1, TailOf
  <2> QED BY <2>2 DEF SessionInv, TelemetryInv
<1> QED BY <1>1, SessionInvariant, PTL

\* Both ends of an established connection mean the same driver.
THEOREM EstablishedAgree == Spec => []EstablishedAgreement
<1>1. SessionInv => EstablishedAgreement
  BY DEF SessionInv, AgreeInv, Agreed, EstablishedAgreement
<1> QED BY <1>1, SessionInvariant, PTL

\* The server goes beyond the handshake only with a client of its own revision.
THEOREM RevisionsDoAgree == Spec => []RevisionsAgree
<1>1. SessionInv => RevisionsAgree
  BY DEF SessionInv, SetupInv, RevisionInv, Unshaken, RevisionsAgree, Phase, Kinds
<1> QED BY <1>1, SessionInvariant, PTL

\* lostPackets_ never counts a check that was answered: a peer that answers is dropped only
\* for being slow, whatever else the connection carries.
THEOREM OnlySilenceIsCounted == Spec => []OnlySilenceCounts
<1>1. SessionInv => OnlySilenceCounts
  BY DEF SessionInv
<1> QED BY <1>1, SessionInvariant, PTL

=============================================================================
