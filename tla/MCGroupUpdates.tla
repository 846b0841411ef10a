--------------------------- MODULE MCGroupUpdates ---------------------------
(***************************************************************************)
(* Small instances of group subscriptions: MCGroupUpdates.cfg for safety,  *)
(* MCGroupUpdatesLive.cfg for liveness (without symmetry).                 *)
(***************************************************************************)
EXTENDS GroupUpdates

Symmetry == Permutations(UnitIds) \cup Permutations(GroupIds)
              \cup Permutations(Subscribers)
=============================================================================
