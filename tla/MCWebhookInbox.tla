---------------------------- MODULE MCWebhookInbox ----------------------------
(* Instances of WebhookInbox for TLC.                                      *)
EXTENDS WebhookInbox, TLC

Symmetry == Permutations(Deliveries)
=============================================================================
