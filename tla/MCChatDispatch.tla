---------------------------- MODULE MCChatDispatch ----------------------------
(* Small instances of ChatDispatch; the constants are set in the .cfg files. *)
EXTENDS ChatDispatch, TLC
=============================================================================
