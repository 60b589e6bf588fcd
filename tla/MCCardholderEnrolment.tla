----------------------- MODULE MCCardholderEnrolment -----------------------
(***************************************************************************)
(* A small instance of CardholderEnrolment.                                *)
(***************************************************************************)
EXTENDS CardholderEnrolment

CONSTANTS c1, c2, l1, l2
=============================================================================
