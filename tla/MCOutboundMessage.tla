--------------------------- MODULE MCOutboundMessage ---------------------------
(* Small instances of OutboundMessage: one message that may be an SMS or an  *)
(* email; the constants are set in the .cfg files.                           *)
EXTENDS OutboundMessage
=============================================================================
