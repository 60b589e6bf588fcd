------------------------- MODULE MCProviderReadings -------------------------
(***************************************************************************)
(* What the issuer may list of a product, and the prices it may answer.    *)
(***************************************************************************)
EXTENDS ProviderReadings

MCRow == [card_type_id |-> 1, card_type |-> 1, card_org |-> 2, card_sub_type |-> Absent, apply_type |-> 2,
  activate_type |-> 2, card_coin |-> 7, card_fee |-> 0, annual_fee |-> 0, recharge_fee |-> 3,
  min_single_recharge_amount |-> 100, max_single_recharge_amount |-> 300, max_recharge_amount |-> Garbled,
  need_first_recharge |-> Blank, min_first_recharge_amount |-> Absent, card_detail_obtain_way |-> 8,
  status |-> Absent, can_recharge |-> 1, support_business |-> {}]
MCProductRows ==
  {[MCRow EXCEPT !.card_fee = f, !.min_first_recharge_amount = m] : f \in {0, 150, Finer}, m \in {Absent, 200, Finer}}
  \cup {[MCRow EXCEPT !.need_first_recharge = 1, !.min_first_recharge_amount = 200],
        [MCRow EXCEPT !.max_single_recharge_amount = Finer], [MCRow EXCEPT !.can_recharge = 0], [MCRow EXCEPT !.apply_type = 1],
        [MCRow EXCEPT !.card_type = 2], [MCRow EXCEPT !.card_coin = 8]}
MCPrices ==
  {[pay_coin |-> c, currency_amount |-> 100, recharge_amount |-> a, recharge_fee_amount |-> 2] :
     c \in {"null", "USDT"}, a \in {0, 100, 101, 250, Finer}}
  \cup {[pay_coin |-> "OTHER", currency_amount |-> 100, recharge_amount |-> 100, recharge_fee_amount |-> 2]}

MCBalances == {<<5, 5>>, <<5, 8>>, <<8, 8>>}
=============================================================================
