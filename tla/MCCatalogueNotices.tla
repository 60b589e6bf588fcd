------------------------ MODULE MCCatalogueNotices ------------------------
(***************************************************************************)
(* A small instance of CatalogueNotices: the listing has nothing in it     *)
(* that can be understood at first, then it has a product, the product     *)
(* again at another price, one of an unknown network and one that takes no *)
(* deposits.                                                               *)
(***************************************************************************)
EXTENDS CatalogueNotices

CONSTANTS h1, refresh, q1, q2

MCRow == [card_type_id |-> 1, card_type |-> 1, card_org |-> 2, card_sub_type |-> Absent, apply_type |-> 1,
  activate_type |-> 2, card_coin |-> 7, card_fee |-> 5, annual_fee |-> 0, recharge_fee |-> 3,
  min_single_recharge_amount |-> 0, max_single_recharge_amount |-> 9, max_recharge_amount |-> Garbled,
  need_first_recharge |-> Blank, min_first_recharge_amount |-> Absent, card_detail_obtain_way |-> 8,
  status |-> Absent, can_recharge |-> 1, support_business |-> {1, 2, 7}]

MCListing ==
  [v \in 0 .. 1 |->
     IF v = 0 THEN <<[MCRow EXCEPT !.card_org = 9]>>
     ELSE <<[MCRow EXCEPT !.card_org = 9], MCRow, [MCRow EXCEPT !.card_fee = 6],
            [MCRow EXCEPT !.card_type_id = 2, !.activate_type = 1, !.can_recharge = 0]>>]
=============================================================================
