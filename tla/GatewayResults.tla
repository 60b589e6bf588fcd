--------------------------- MODULE GatewayResults ---------------------------
(***************************************************************************)
(* One payment at a gateway and the money that arrives for it              *)
(* (sunpay.adapter, mlt.adapter, and their mappers of statuses and         *)
(* amounts). What is asked for is a decimal string; at SunPay it becomes a *)
(* JSON number, the payer sends what it likes, and the callback names both *)
(* figures as numbers again. MLT sells at the signed price or not at all.  *)
(* How callbacks race, fail and repeat is the subject of Payments.         *)
(*                                                                         *)
(* Amounts are in units of the last place of a decimal string. A number    *)
(* names the multiples of Spacing only, as a double of that size does.     *)
(***************************************************************************)
EXTENDS Integers, FiniteSets

CONSTANTS
  Payments,    \* what partners ask for
  LastAmount,  \* bound: the most a payer sends
  Spacing,     \* between the numbers a double can name
  Illegible    \* the numbers whose text has an exponent, or over eighteen places

ASSUME AmountsAssumption ==
  Payments \subseteq Nat /\ LastAmount \in Nat /\ Spacing \in Nat \ {0} /\ Illegible \subseteq Nat

VARIABLES
  gateway,   \* "SUNPAY" or "MLT"
  price,     \* amount of the payment_transaction
  order,     \* the amount of the gateway's order, NoAmount before there is one
  received,  \* what the payer has sent in all
  paid,      \* the status of the payment_transaction
  basis      \* the callback that settled it, or NoCallback

gatewayVars == <<gateway, price, order, received, paid, basis>>

NoAmount == -1
NoCallback == [word |-> "none"]

GatewayInit ==
  /\ gateway \in {"SUNPAY", "MLT"} /\ price \in Payments
  /\ order = NoAmount /\ received = 0
  /\ paid = "PENDING" /\ basis = NoCallback

-----------------------------------------------------------------------------
(* Amounts. *)

\* A double is the nearest there is to what is written.
jsonNumber(a) == ((a + Spacing \div 2) \div Spacing) * Spacing

\* The text of a number, read again as a decimal.
toScaledBigInt(number) == IF number \in Illegible THEN NoAmount ELSE number

isSunPayAmountSufficient(expected, actual) ==
  expected # NoAmount /\ actual # NoAmount /\ actual >= expected

\* Mutant: the nearest number will do.
toNearestAmount(a) == IF jsonNumber(a) > 0 THEN jsonNumber(a) ELSE NoAmount
\* The number that is the amount exactly, or none: the check goes both ways.
toSunPayAmount(a) ==
  LET asNumber == toScaledBigInt(jsonNumber(a))
  IN  IF asNumber > 0 /\ isSunPayAmountSufficient(a, asNumber) /\ isSunPayAmountSufficient(asNumber, a)
      THEN jsonNumber(a)
      ELSE NoAmount

-----------------------------------------------------------------------------
(* The order. *)

\* An amount that cannot be told is refused before the gateway is asked. The
\* gateway may open the order and its answer be lost.
initiateSunPay ==
  /\ gateway = "SUNPAY" /\ order = NoAmount /\ toSunPayAmount(price) # NoAmount
  /\ order' = toSunPayAmount(price)
  /\ UNCHANGED <<gateway, price, received, paid, basis>>

\* The form carries the string itself.
initiateMlt ==
  /\ gateway = "MLT" /\ order = NoAmount
  /\ order' = price
  /\ UNCHANGED <<gateway, price, received, paid, basis>>

Pay ==
  /\ order # NoAmount
  /\ \E total \in received + 1 .. LastAmount :
       /\ gateway = "MLT" => received = 0 /\ total = order
       /\ received' = total
  /\ UNCHANGED <<gateway, price, order, paid, basis>>

-----------------------------------------------------------------------------
(* The callback. *)

Vocabulary ==
  [SUNPAY |-> {"SUCCESS", "FAIL", "OTHER"}, MLT |-> {"PAID", "REJECT", "FAILED", "CANCEL", "ERROR", "OTHER"}]

StatedFigures == {"amount", "actual_payment_amount"}
GatewayCallbacks ==
  [word : UNION {Vocabulary[g] : g \in DOMAIN Vocabulary}, signatureValid : BOOLEAN,
   names : {"ours", "another", "nothing"}, states : SUBSET StatedFigures]

\* What a signature that verifies stands for. SunPay signs the whole body, and
\* says success of its own orders when money has come. At MLT it covers the fields
\* the callback names: those of the form do not tell the outcome, so that one of
\* any word may verify once the form is out.
Signs(c) ==
  /\ order # NoAmount /\ c.word \in Vocabulary[gateway]
  /\ c.word = "SUCCESS" => received > 0

mapSunPayWebhookStatus(word) ==
  CASE word = "SUCCESS" -> "PAID" [] word = "FAIL" -> "FAILED" [] OTHER -> "ERROR"
mapMltCardStatus(word) ==
  CASE word = "PAID"   -> "PAID"      [] word = "REJECT" -> "REJECTED"
    [] word = "FAILED" -> "FAILED"    [] word = "CANCEL" -> "CANCELLED"
    [] OTHER -> "ERROR"

\* A success is an error when both figures are there and the second falls short.
Underpaid(c) ==
  c.states = StatedFigures
  /\ ~isSunPayAmountSufficient(toScaledBigInt(jsonNumber(order)), toScaledBigInt(jsonNumber(received)))

verifySunPayResult(c) ==
  IF mapSunPayWebhookStatus(c.word) = "PAID" /\ Underpaid(c) THEN "ERROR" ELSE mapSunPayWebhookStatus(c.word)
verifyMltResult(c) == mapMltCardStatus(c.word)
verifyResult(c) == IF gateway = "MLT" THEN verifyMltResult(c) ELSE verifySunPayResult(c)

\* Our reference, where each gateway puts it.
extractRequestId(c) == IF c.names = "nothing" THEN "null" ELSE c.names

\* A callback settles a pending payment that it names, under a signature that
\* verifies; every other is logged and acknowledged.
applyResultToLedger(c) ==
  /\ extractRequestId(c) = "ours" /\ c.signatureValid /\ paid = "PENDING"
  /\ paid' = verifyResult(c) /\ basis' = c
  /\ UNCHANGED <<gateway, price, order, received>>

GatewayNext ==
  \/ initiateSunPay \/ initiateMlt \/ Pay
  \/ \E c \in GatewayCallbacks : (c.signatureValid => Signs(c)) /\ applyResultToLedger(c)

-----------------------------------------------------------------------------
\* What the partner is told is paid at SunPay has arrived, not less than the
\* partner asked for, whatever was ordered, sent and reported in between, as far
\* as a number can tell, unless a success leaves a figure out. At MLT nothing
\* here follows about the money: the outcome is the word of the callback, and paid
\* only if that word is PAID.
PaidIsCovered ==
  paid = "PAID" =>
    IF gateway = "SUNPAY"
      THEN received >= price \/ jsonNumber(received) >= price \/ basis.states # StatedFigures
      ELSE basis.word = "PAID"
=============================================================================
