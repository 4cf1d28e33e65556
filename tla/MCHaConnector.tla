--------------------------- MODULE MCHaConnector ---------------------------
(* A small instance of HaConnector; the constants are set in the .cfg file. *)
EXTENDS HaConnector
=============================================================================
