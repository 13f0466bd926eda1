-------------------------- MODULE MCWebhookDelivery --------------------------
(* An instance of WebhookDelivery for TLC. *)
EXTENDS WebhookDelivery

CONSTANT d1
=============================================================================
