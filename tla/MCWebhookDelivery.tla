-------------------------- MODULE MCWebhookDelivery --------------------------
(* The events and subscriptions a .cfg of WebhookDelivery names. *)
EXTENDS WebhookDelivery

CONSTANTS e1, e2, e3, e4, s1, s2

=============================================================================
