----------------------------- MODULE MCPayments -----------------------------
(***************************************************************************)
(* Small instances of Payments.                                            *)
(***************************************************************************)
EXTENDS Payments, TLC

CONSTANTS c1, c2, c3, r1, r2, k1, k2

\* c1 goes to the direct gateway; c2 and c3 use one requestId at the hosted one.
TwoAtOneKey == [c \in Calls |-> IF c = c1 THEN r1 ELSE r2]

CallbackSymmetry == Permutations(Callbacks)
=============================================================================
