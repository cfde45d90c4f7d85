----------------------------- MODULE MCSession -----------------------------
(* Session on small instances: the drivers are interchangeable.            *)
EXTENDS Session, TLC

DriverSymmetry == Permutations(Drivers)

=============================================================================
