-------------------------------- MODULE Wire --------------------------------
(***************************************************************************)
(* The TCP connection between one udavc client and the ServerSideSocket    *)
(* that serves it: two FIFO streams of packets, the state of the two       *)
(* sockets, and how far each reader is aligned with the packet boundaries. *)
(* Packet types are the constants of core/core.h; of a payload only what a *)
(* handler branches on is kept.                                            *)
(***************************************************************************)
EXTENDS Naturals, Sequences

CONSTANTS
  Drivers,          \* uuids of the drivers the server has loaded
  NoDriver,         \* no driver implementation (NULL), no selection
  Revisions,        \* program revisions a client may have been built from
  ServerRevision,   \* RevisionNumber of the server program
  Capacity          \* bound: packets in flight before unprompted sends wait

ASSUME NoDriverAssumption == NoDriver \notin Drivers
ASSUME RevisionAssumption == ServerRevision \in Revisions
ASSUME CapacityAssumption == Capacity \in Nat

VARIABLES
  c2s,    \* packets written by the client and not yet read by the server
  s2c,    \* packets written by the server and not yet read by the client
  cTcp,   \* QTcpSocket state of the client
  sSock,  \* the server's socket: absent, open, or closed with data to flush
  link,   \* "down": the peers no longer hear each other, nobody was told
  cNext,  \* the client's nextBlockSize_ against the packet boundaries
  sNext   \* the server's nextBlockSize_ against the packet boundaries

wireVars == <<c2s, s2c, cTcp, sSock, link, cNext, sNext>>

-----------------------------------------------------------------------------

\* Kinds of connection a client asks for (ConnectionType in core.h).
Kinds == {"WithoutTicket", "DriversListRequest"}

\* Packets a user's gesture makes the client write, whatever the phase.
UserPackets == {"FileRequest", "ReloadInterface", "DriverSettings"}

ClientPackets ==
  Kinds \cup UserPackets \cup
  {"RequestConnection", "HandShake", "ConnectionOK", "SelectedDriver",
   "ConnectionEstablished", "Control", "RefuseConnection"}

\* Message window packets: the client reads them out of turn.
WindowPackets == {"OpenMessageWindow", "TextMessage2Window", "CloseMessageWindow"}

\* Packets of regular data exchange: answers and signal values.
DataPackets ==
  {"CommandOk", "CommandError", "File", "SignalValue", "ViewArray", "ControlArray"}

ServerPackets ==
  WindowPackets \cup DataPackets \cup
  {"ConnectionOK", "HandShake", "DriversList", "MetaSignals", "UiDescription",
   "DriverSettings", "CheckConnection", "RefuseConnection"}

PacketTypes == ClientPackets \cup ServerPackets

\* lastRequest_ before anything was sent (PacketType::Empty).
LastRequests == PacketTypes \cup {"Empty"}

Selections == Drivers \cup {NoDriver}

\* What the handler of a control makes of its signal: one of metaSignals() of a type that
\* it treats, one of another type (Time), or none of metaSignals().
Controls == {"known", "untyped", "unknown"}

\* A packet and the part of its payload that a handler looks at.
ClientPacket ==
  [type : {"HandShake"}, arg : Revisions]
  \cup [type : {"SelectedDriver"}, arg : Selections]
  \cup [type : {"Control"}, arg : Controls]
  \cup [type : ClientPackets \ {"HandShake", "SelectedDriver", "Control"}, arg : {"none"}]

ServerPacket ==
  [type : {"HandShake"}, arg : Revisions]
  \cup [type : {"MetaSignals", "UiDescription"}, arg : Selections]
  \cup [type : ServerPackets \ {"HandShake", "MetaSignals", "UiDescription"}, arg : {"none"}]

\* Room for one more packet that nobody asked for.
Room == Len(c2s) + Len(s2c) < Capacity

Pkt(t) == [type |-> t, arg |-> "none"]
PktWith(t, a) == [type |-> t, arg |-> a]

\* Where a reader stands. "header": at a packet boundary. "lost": payload bytes
\* will be taken for a block size and no packet is recognised any more.
\* "leftover": nextBlockSize_ still holds the size of the block just consumed,
\* so the next block's header will be taken for the body of a packet.
ClientFraming == {"header", "lost"}
ServerFraming == {"header", "leftover"}

-----------------------------------------------------------------------------

\* QTcpSocket::write() on either side. Bytes reach a reader that exists, is
\* reachable and still recognises packets; nobody ever parses the others.
ToClient(ms) ==
  s2c' = IF sSock = "open" /\ link = "up" /\ cTcp = "Connected" /\ cNext = "header"
           THEN s2c \o ms ELSE s2c

ToServer(ms) ==
  c2s' = IF cTcp = "Connected" /\ link = "up" /\ sSock = "open"
           THEN c2s \o ms ELSE c2s

WireTypeOK ==
  /\ c2s \in Seq(ClientPacket)
  /\ s2c \in Seq(ServerPacket)
  /\ cTcp \in {"Unconnected", "Connecting", "Connected"}
  /\ sSock \in {"none", "open", "closing"}
  /\ link \in {"up", "down"}
  /\ cNext \in ClientFraming
  /\ sNext \in ServerFraming

WireInit ==
  /\ c2s = <<>>
  /\ s2c = <<>>
  /\ cTcp = "Unconnected"
  /\ sSock = "none"
  /\ link = "up"
  /\ cNext = "header"
  /\ sNext = "header"

=============================================================================
