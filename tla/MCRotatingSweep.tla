--------------------------- MODULE MCRotatingSweep ---------------------------
(***************************************************************************)
(* Small instances of RotatingSweep.                                       *)
(***************************************************************************)
EXTENDS RotatingSweep

CONSTANTS p1, p2
=============================================================================
