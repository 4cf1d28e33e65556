---------------------------- MODULE MCChatReplies ----------------------------
(* Small instances of ChatReplies; the constants are set in the .cfg file. *)
EXTENDS ChatReplies, TLC
=============================================================================
