---------------------------- MODULE MCYjsDocuments ----------------------------
(* Small instances of YjsDocuments; the constants are set in the .cfg files. *)
EXTENDS YjsDocuments, TLC
=============================================================================
