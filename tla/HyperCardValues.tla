-------------------------- MODULE HyperCardValues --------------------------
(***************************************************************************)
(* What HyperCard's answers are made of, and how a field is read           *)
(* (hypercard-coercion.util). A field is a natural number when it can be   *)
(* read as one, and says why not when it cannot. Amounts are in units of   *)
(* the eighth place; all amounts with more places are one, Finer. null is  *)
(* -1 among numbers.                                                       *)
(***************************************************************************)
EXTENDS Integers

null == -1
Absent == -1   \* the row has no such field
Blank == -2    \* it is there and empty
Garbled == -3  \* it is there and is not a number
Finer == -4    \* an amount with more than eight places
\* What a field may hold.
Fields == Nat \cup {Absent, Blank, Garbled, Finer}

normaliseHyperCardInteger(raw) == IF raw >= 0 THEN raw ELSE null
normaliseHyperCardAmount(raw) == IF raw >= 0 \/ raw = Finer THEN raw ELSE null
isZeroHyperCardAmount(amount) == amount = 0
=============================================================================
