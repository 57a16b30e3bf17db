-------------------------- MODULE MCWebhookDelivery --------------------------
(* Instances of WebhookDelivery for TLC.                                   *)
EXTENDS WebhookDelivery

(* The two that the documentation describes.                               *)
Deployed == {<<"memory", "sqlite">>, <<"redis", "postgres">>}
=============================================================================
