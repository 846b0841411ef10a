------------------------ MODULE MCSimulationUpdates ------------------------
(***************************************************************************)
(* A small instance of simulation subscriptions, for safety and liveness.  *)
(***************************************************************************)
EXTENDS SimulationUpdates
=============================================================================
