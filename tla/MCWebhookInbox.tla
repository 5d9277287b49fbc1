--------------------------- MODULE MCWebhookInbox ---------------------------
(* The instance of WebhookInbox for TLC gives each constant its value in   *)
(* its cfg.                                                                *)
EXTENDS WebhookInbox
=============================================================================
