-------------------------- MODULE MCMultiAxeDrive --------------------------
(* MultiAxeDrive with two short axes, the end of each out of the way of    *)
(* the positions asked for.                                                *)
EXTENDS MultiAxeDrive

MCEnd == [a \in Axes |-> 3]

=============================================================================
