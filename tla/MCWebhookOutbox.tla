--------------------------- MODULE MCWebhookOutbox ---------------------------
(* A small instance of WebhookOutbox; the constants are set in the .cfg    *)
(* file.                                                                   *)
EXTENDS WebhookOutbox
=============================================================================
