-------------------------- MODULE MCWebhookDelivery --------------------------
(* An endpoint that may fail, with two callbacks, and a healthy one; or four  *)
(* callbacks to the same endpoint.                                            *)
EXTENDS WebhookDelivery

OfCallback == [c1 |-> "slow", c2 |-> "slow", c3 |-> "fine"]
OfSlow == [c \in {"c1", "c2", "c3", "c4"} |-> "slow"]
=============================================================================
