---------------------------- MODULE PaymentLedger ----------------------------
(***************************************************************************)
(* What a partner is promised of a payment: it is opened, settles once and *)
(* for all, and is announced at most once, as what it settled as.          *)
(***************************************************************************)
CONSTANTS Payments, Final

VARIABLES status, announced

LedgerVars == <<status, announced>>

Init ==
  /\ status = [p \in Payments |-> "none"]
  /\ announced = [p \in Payments |-> <<>>]

Open(p) ==
  /\ status[p] = "none"
  /\ status' = [status EXCEPT ![p] = "PENDING"]
  /\ UNCHANGED announced

SettleAs(p, s) ==
  /\ status[p] = "PENDING"
  /\ status' = [status EXCEPT ![p] = s]
  /\ UNCHANGED announced

Announce(p) ==
  /\ status[p] \in Final /\ announced[p] = <<>>
  /\ announced' = [announced EXCEPT ![p] = <<status[p]>>]
  /\ UNCHANGED status

Next == \E p \in Payments : Open(p) \/ (\E s \in Final : SettleAs(p, s)) \/ Announce(p)

Spec == Init /\ [][Next]_LedgerVars
=============================================================================
