--------------------------------- MODULE Api ---------------------------------
(***************************************************************************)
(* The generated gRPC code (src/gen/minerva/v1/minerva.v1.tonic.rs), client*)
(* and server, and which services a server has (serve_on of src/server.rs).*)
(* A client's method sends its request to a path; the router of tonic picks*)
(* the service, and the service's `call` the handler, by that path.        *)
(***************************************************************************)

Path(service, method) == <<service, method>>

\* A method of a client, and a path of a server.
Sends(method, path) == [method |-> method, path |-> path]
Unary(path, handler) == [path |-> path, handler |-> handler, streams |-> FALSE]
Streaming(path, handler) == [path |-> path, handler |-> handler, streams |-> TRUE]

-----------------------------------------------------------------------------
(* The methods of the generated clients *)

CommandClient ==
  {Sends("send_command", Path("CommandService", "SendCommand"))}

UnitClient ==
  {Sends("get_unit", Path("UnitService", "GetUnit")),
   Sends("list_units", Path("UnitService", "ListUnits"))}

GroupClient ==
  {Sends("list_groups", Path("GroupService", "ListGroups")),
   Sends("get_group", Path("GroupService", "GetGroup")),
   Sends("subscribe_group_updates", Path("GroupService", "SubscribeGroupUpdates"))}

LocationClient ==
  {Sends("list_locations", Path("LocationService", "ListLocations"))}

SimulationClient ==
  {Sends("get_simulation_info", Path("SimulationService", "GetSimulationInfo")),
   Sends("subscribe_simulation_updates",
         Path("SimulationService", "SubscribeSimulationUpdates"))}

Client ==
  CommandClient \cup UnitClient \cup GroupClient \cup LocationClient
    \cup SimulationClient

-----------------------------------------------------------------------------
(* What each generated server matches a path with *)

CommandServer ==
  {Unary(Path("CommandService", "SendCommand"), "send_command")}

UnitServer ==
  {Unary(Path("UnitService", "GetUnit"), "get_unit"),
   Unary(Path("UnitService", "ListUnits"), "list_units")}

GroupServer ==
  {Unary(Path("GroupService", "ListGroups"), "list_groups"),
   Unary(Path("GroupService", "GetGroup"), "get_group"),
   Streaming(Path("GroupService", "SubscribeGroupUpdates"), "subscribe_group_updates")}

LocationServer ==
  {Unary(Path("LocationService", "ListLocations"), "list_locations")}

SimulationServer ==
  {Unary(Path("SimulationService", "GetSimulationInfo"), "get_simulation_info"),
   Streaming(Path("SimulationService", "SubscribeSimulationUpdates"),
             "subscribe_simulation_updates")}

(* Mutants *)
LocationsForgotten ==
  CommandServer \cup GroupServer \cup SimulationServer \cup UnitServer

\* The services added to the server.
Server ==
  CommandServer \cup GroupServer \cup LocationServer \cup SimulationServer
    \cup UnitServer

\* What answers a path: that no service has it, or no method of the service, is
\* an answer too.
Unimplemented(path) == Unary(path, "unimplemented")

Routes(path) ==
  IF \E r \in Server : r.path = path THEN {r \in Server : r.path = path}
  ELSE {Unimplemented(path)}
=============================================================================
