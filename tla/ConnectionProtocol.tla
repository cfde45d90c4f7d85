------------------------- MODULE ConnectionProtocol -------------------------
(***************************************************************************)
(* What server_side_socket.h (the comment of readDataFromClient_()) says   *)
(* of one connection, and nothing of how packets make it so: the phases    *)
(* follow each other, a driver implementation is created by the selection, *)
(* is there for as long as the connection is, and is never exchanged.      *)
(***************************************************************************)
CONSTANTS Drivers, NoDriver

VARIABLES
  phase,    \* what the server waits for
  driver    \* the driver at work for this connection

vars == <<phase, driver>>

Setup == {"Request", "HandShake", "Confirm", "Kind", "Selection", "Ready"}
Phases == Setup \cup {"Down", "Established", "Closing"}

Init == phase = "Down" /\ driver = NoDriver

\* A client's socket is accepted.
Accept == phase = "Down" /\ phase' = "Request" /\ UNCHANGED driver

\* Steps 1 to 4 of the initialisation: request, handshake, confirmation, kind.
Advance ==
  /\ \/ phase = "Request" /\ phase' = "HandShake"
     \/ phase = "HandShake" /\ phase' = "Confirm"
     \/ phase = "Confirm" /\ phase' = "Kind"
     \/ phase = "Kind" /\ phase' = "Selection"
  /\ UNCHANGED driver

\* Step 5: the selected driver is loaded.
Load ==
  /\ phase = "Selection" /\ phase' = "Ready"
  /\ driver' \in Drivers

Establish == phase = "Ready" /\ phase' = "Established" /\ UNCHANGED driver

\* Either side refuses, in any phase.
Close == phase \in Setup \cup {"Established"} /\ phase' = "Closing" /\ UNCHANGED driver

\* The socket is gone, and the driver implementation with it.
Release == phase # "Down" /\ phase' = "Down" /\ driver' = NoDriver

Next == Accept \/ Advance \/ Load \/ Establish \/ Close \/ Release

Spec == Init /\ [][Next]_vars

=============================================================================
