-------------------------- MODULE MCScrewNutDrive --------------------------
(* ScrewNutDrive on a short screw; positions may be negative, which a .cfg *)
(* cannot write.                                                           *)
EXTENDS ScrewNutDrive

MCCoords == {-2, 0, 3, 8, 9}
MCDistances == {1, 5}
MCLowest == -4

=============================================================================
