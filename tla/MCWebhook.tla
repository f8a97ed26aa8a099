----------------------------- MODULE MCWebhook -----------------------------
(***************************************************************************)
(* TLC instance of Webhook.                                                *)
(***************************************************************************)
EXTENDS Webhook
=============================================================================
