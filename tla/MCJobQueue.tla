------------------------------ MODULE MCJobQueue ------------------------------
(* Small instances of JobQueue; the constants are set in the .cfg files.    *)
EXTENDS JobQueue
=============================================================================
