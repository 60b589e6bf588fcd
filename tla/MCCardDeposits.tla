--------------------------- MODULE MCCardDeposits ---------------------------
(***************************************************************************)
(* Small instances of CardDeposits, and mutants of its definitions.        *)
(***************************************************************************)
EXTENDS CardDeposits, TLC

\* Every call of a run carries the same idempotency key.
OneKey == [c \in Calls |-> CHOOSE r \in RequestIds : TRUE]

ObserverSymmetry == Permutations(Observers)
=============================================================================
