-------------------------- MODULE MCCommandService --------------------------
(***************************************************************************)
(* Small instances of the command service: MCCommandService.cfg for        *)
(* safety, MCCommandServiceLive.cfg for liveness, MCCommandUnknownGroup.cfg*)
(* for what a comment promises of the lookup.  The requests: a move of a   *)
(* group that comes and goes, one without a position, and a support by a   *)
(* group that the engine never has.                                        *)
(***************************************************************************)
EXTENDS CommandService

CONSTANTS g1, g2, t1

Move(g, t) == [kind |-> "move", group_id |-> g, position |-> t]

Support(supporter, supported) ==
  [kind |-> "support", supporter_group_id |-> supporter,
   supported_group_id |-> supported, support_type |-> g2]

OneGroup == {g1}
TwoNames == {g1, g2}
OneRequest == {Move(g1, t1)}
SomeRequests == {Move(g1, t1), Move(g1, Unset), Support(g2, g1)}
=============================================================================
