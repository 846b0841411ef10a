------------------------------ MODULE Commands ------------------------------
(***************************************************************************)
(* Commands as clients send them and as they are decoded: Command,         *)
(* from_proto and group_id of src/commands.rs, on the generated messages   *)
(* of src/gen/minerva/v1/minerva.v1.rs.  A domain command has the fields   *)
(* of its message, all required ones present.                              *)
(***************************************************************************)
CONSTANTS
  Strings, Empty,    \* nonempty strings, and ""
  CommandTargets,
  Waypoints,         \* nonempty lists of targets; the empty one is <<>>
  Unset              \* a field or a oneof that is absent

ASSUME CommandsAssumption ==
  /\ Empty \notin Strings /\ Unset \notin Strings
  /\ Unset \notin CommandTargets /\ Empty \notin CommandTargets
  /\ <<>> \notin Strings \cup CommandTargets \cup Waypoints \cup {Empty, Unset}
  /\ Unset \notin Waypoints /\ Empty \notin Waypoints

Text == Strings \cup {Empty}
Position == CommandTargets \cup {Unset}

\* Move and SearchAndDestroy have the same fields.
MoveCommand ==
  [kind : {"move", "search_and_destroy"}, group_id : Text, position : Position]

DefendZoneCommand ==
  [kind : {"defend_zone"}, group_id : Text, zone_id : Text, position : Position]

PatrolCommand ==
  [kind : {"patrol"}, group_id : Text, waypoints : Waypoints \cup {<<>>},
   loop : BOOLEAN]

SupportCommand ==
  [kind : {"support"}, supporter_group_id : Text, supported_group_id : Text,
   support_type : Text]

Message ==
  MoveCommand \cup DefendZoneCommand \cup PatrolCommand \cup SupportCommand

\* The oneof of a request may be unset.
SendCommandRequest == Message \cup {Unset}

-----------------------------------------------------------------------------
\* The fields that from_proto requires; of several that are missing it names
\* the first, which the status message alone tells.
Required(m) ==
  CASE m.kind \in {"move", "search_and_destroy"} -> {"group_id", "position"}
    [] m.kind = "defend_zone" -> {"zone_id", "group_id"}
    [] m.kind = "patrol" -> {"waypoints", "group_id"}
    [] m.kind = "support" ->
         {"supported_group_id", "support_type", "supporter_group_id"}

Missing(value) == value \in {Unset, Empty, <<>>}

\* from_proto succeeds: the command is then the message.
Decodes(request) ==
  request # Unset /\ \A field \in Required(request) : ~Missing(request[field])

(* Mutants *)
SupportedGroup(command) ==
  IF command.kind = "support" THEN command.supported_group_id
  ELSE command.group_id

\* group_id: the group that is to act, which of a support is the supporter.
GroupIdOf(command) ==
  IF command.kind = "support" THEN command.supporter_group_id
  ELSE command.group_id
=============================================================================
