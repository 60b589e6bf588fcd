-------------------------- MODULE MCCardOperations --------------------------
(***************************************************************************)
(* Small instances of CardOperations.                                      *)
(***************************************************************************)
EXTENDS CardOperations, TLC

CONSTANTS c1, c2

\* One call blocks the card, the other unblocks it.
BlockAndUnblock == [c \in Calls |-> IF c = c1 THEN "ON_HOLD" ELSE "ACTIVE"]

ObserverSymmetry == Permutations(Observers)
=============================================================================
