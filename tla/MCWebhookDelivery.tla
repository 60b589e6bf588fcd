------------------------- MODULE MCWebhookDelivery -------------------------
(***************************************************************************)
(* A small instance of WebhookDelivery.                                    *)
(***************************************************************************)
EXTENDS WebhookDelivery

CONSTANTS p1, p2
=============================================================================
