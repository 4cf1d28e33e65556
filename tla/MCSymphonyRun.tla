--------------------------- MODULE MCSymphonyRun ---------------------------
EXTENDS SymphonyRun, TLC

\* Runs and orchestrators are interchangeable in every formula.
Perms == Permutations(Run) \cup Permutations(Orchestrator)

\* The run that has a single row asks for every state there is.
AllStates == RunState
=============================================================================
