--------------------------- MODULE MCCardIssuance ---------------------------
(***************************************************************************)
(* Small instances of CardIssuance.                                        *)
(***************************************************************************)
EXTENDS CardIssuance, TLC

CONSTANTS o1, o2, w1, a1, b1

ObserverSymmetry == Permutations(Observers)
=============================================================================
