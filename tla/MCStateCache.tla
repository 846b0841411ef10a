---------------------------- MODULE MCStateCache ----------------------------
(***************************************************************************)
(* A small instance of the state cache: units that move among groups, a    *)
(* side that changes, a simulation, a location, and resets.                *)
(***************************************************************************)
EXTENDS Queries

\* Units, groups and simulation states are interchangeable.
Symmetry ==
  Permutations(UnitIds) \cup Permutations(GroupIds)
    \cup Permutations(SimulationStates)

OneLocation == [id : {"l1"}, owner : ValidSides]
=============================================================================
