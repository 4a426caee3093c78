---------------------------- MODULE MCWebhookOutbox ----------------------------
(* Instances of WebhookOutbox for TLC.                                      *)
EXTENDS WebhookOutbox, TLC

Symmetry == Permutations(Events)
=============================================================================
