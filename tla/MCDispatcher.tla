---------------------------- MODULE MCDispatcher ----------------------------
(***************************************************************************)
(* Small instances of the dispatcher: MCDispatcher.cfg for safety,         *)
(* MCDispatcherLive.cfg for liveness.  MCDispatcherLateAck.cfg and           *)
(* MCDispatcherCancelled.cfg ask for what the documentation says of a late *)
(* acknowledgement and of a cancelled call.                                *)
(***************************************************************************)
EXTENDS Dispatcher, TLC

Symmetry == Permutations(Calls)
=============================================================================
