----------------------------- MODULE StateCache -----------------------------
(***************************************************************************)
(* The in-memory snapshot of the simulation (src/state.rs): written by the *)
(* engine thread, read by the gRPC services, its changes broadcast to the  *)
(* subscribers.                                                            *)
(*                                                                         *)
(* A write runs under the write lock: it changes the maps, then sends its  *)
(* events one at a time before it lets go of the lock.  Nobody sees the    *)
(* maps in between, so one step changes them and fixes the events and      *)
(* their numbers; every send is a step of its own, which a receiver may    *)
(* overtake.  groupUpdates and simulationUpdates hold every event of the   *)
(* channel, groupTail and simulationTail count those already sent: the     *)
(* write lock is held exactly while some event is still to be sent.        *)
(*                                                                         *)
(* A HashMap is a total function into None or the entry.                   *)
(*                                                                         *)
(* The operators under "Mutants" headings are no part of Spec: each is the *)
(* plausible bug that makes some property below fail.                      *)
(***************************************************************************)
EXTENDS Naturals, SequencesExt

CONSTANTS
  UnitIds, GroupIds,
  UnitData,          \* what a proto::Unit holds beside id and group_id
  Sides,             \* the i32 values a proto::Group's side field takes
  ValidSides,        \* those that decode to a proto::Side
  GroupData,         \* what a proto::Group holds beside id, side and units
  SimulationInfos, SimulationStates,
  Locations,         \* records [id, owner]
  None,              \* Option::None and the absent HashMap entry
  MaxSequence        \* bound on the sequence counter

Unit == [group : GroupIds, data : UnitData]
Group == [side : Sides, data : GroupData]
Joined == [side : Sides, data : GroupData,
           units : UNION {[us -> Unit] : us \in SUBSET UnitIds}]

ASSUME StateCacheAssumption ==
  /\ IsFiniteSet(UnitIds) /\ IsFiniteSet(GroupIds)
  /\ ValidSides \subseteq Sides
  /\ None \notin Unit /\ None \notin Group /\ None \notin Joined
  /\ \A us \in SUBSET UnitIds : us # None
  /\ None \notin GroupIds /\ None \notin Sides
  /\ None \notin SimulationStates
  /\ MaxSequence \in Nat

VARIABLES
  units, groups, members,                  \* Inner's three maps
  simulation_info, simulation_state, locations,
  sequence,                                \* Inner's event counter
  groupUpdates, groupTail,                 \* channel of GroupEvents
  simulationUpdates, simulationTail        \* channel of SimulationEvents

simulationVars == <<simulation_info, simulation_state, locations>>
cacheVars == <<units, groups, members, simulationVars, sequence, groupUpdates,
               groupTail, simulationUpdates, simulationTail>>

GroupEvent == [sequence : Nat, id : GroupIds, group : Joined \cup {None}]
SimulationEvent == [sequence : Nat, state : SimulationStates \cup {None}]

TypeOK ==
  /\ units \in [UnitIds -> Unit \cup {None}]
  /\ groups \in [GroupIds -> Group \cup {None}]
  /\ members \in [GroupIds -> {None} \cup SUBSET UnitIds]
  /\ simulation_info \in SimulationInfos \cup {None}
  /\ simulation_state \in SimulationStates \cup {None}
  /\ locations \subseteq Locations
  /\ sequence \in Nat
  /\ groupUpdates \in Seq(GroupEvent)
  /\ groupTail \in 0..Len(groupUpdates)
  /\ simulationUpdates \in Seq(SimulationEvent)
  /\ simulationTail \in 0..Len(simulationUpdates)

-----------------------------------------------------------------------------
(* Reads *)

MemberIds(g) == IF members[g] = None THEN {} ELSE members[g]

MemberUnits(g) ==
  [u \in {v \in MemberIds(g) : units[v] # None} |-> units[u]]

(* Mutants *)
JoinForgotten(g) == groups[g]

\* get_group: the stored fields joined with the members, None if not cached.
JoinedGroup(g) ==
  IF groups[g] = None THEN None
  ELSE [side |-> groups[g].side, data |-> groups[g].data,
        units |-> MemberUnits(g)]

\* A request's side filter is None or a decoded side.
MatchesSide(side, filter) ==
  filter = None \/ (side \in ValidSides /\ side = filter)

ListGroups(filter) ==
  [g \in {h \in GroupIds : /\ groups[h] # None
                           /\ MatchesSide(groups[h].side, filter)}
     |-> JoinedGroup(g)]

UnitSide(u) ==
  LET g == units[u].group
  IN  IF groups[g] = None \/ groups[g].side \notin ValidSides
      THEN None ELSE groups[g].side

ListUnits(filter, group) ==
  {u \in UnitIds : /\ units[u] # None
                   /\ group \in {None, units[u].group}
                   /\ filter \in {None, UnitSide(u)}}

-----------------------------------------------------------------------------
(* Events *)

WriteLocked ==
  \/ groupTail < Len(groupUpdates)
  \/ simulationTail < Len(simulationUpdates)

Removal(g) == [id |-> g, group |-> None]

(* Mutants *)
EmitStale(g) ==
  IF JoinedGroup(g)' = JoinedGroup(g) THEN <<>>
  ELSE <<[id |-> g, group |-> JoinedGroup(g)]>>
EmitAlways(g) ==
  IF JoinedGroup(g)' = None THEN <<>>
  ELSE <<[id |-> g, group |-> JoinedGroup(g)']>>

\* emit_if_changed, in a step that changes the maps: the primed value is the
\* joined group after the write, the unprimed one its `before`; g must be rigid.
EmitIfChanged(g) ==
  IF JoinedGroup(g)' = JoinedGroup(g) THEN <<>>
  ELSE <<[id |-> g, group |-> JoinedGroup(g)']>>

\* next_sequence for each event: the counter goes on from n.
Numbered(n, es) ==
  [i \in DOMAIN es |-> [sequence |-> n + i, id |-> es[i].id,
                        group |-> es[i].group]]

PublishGroups(es) ==
  /\ groupUpdates' = groupUpdates \o Numbered(sequence, es)
  /\ sequence' = sequence + Len(es)
  /\ UNCHANGED <<groupTail, simulationUpdates, simulationTail>>

(* Mutants *)
PublishPreviousState(n, st) ==
  /\ simulationUpdates' =
       Append(simulationUpdates, [sequence |-> n, state |-> simulation_state])
  /\ sequence' = n

\* A SimulationEvent numbered n.
PublishSimulation(n, st) ==
  /\ simulationUpdates' =
       Append(simulationUpdates, [sequence |-> n, state |-> st])
  /\ sequence' = n

(* Mutants *)
\* Without the lock, whichever event is first takes the channel's next place.
SendOvertaken ==
  \E i \in groupTail+1..Len(groupUpdates) :
    /\ groupUpdates' = [groupUpdates EXCEPT ![groupTail+1] = groupUpdates[i],
                                           ![i] = groupUpdates[groupTail+1]]
    /\ groupTail' = groupTail + 1
    /\ UNCHANGED <<units, groups, members, simulationVars, sequence,
                   simulationUpdates, simulationTail>>

\* The next event, in the order in which they were numbered: the lock is held.
SendGroupUpdate ==
  /\ groupTail < Len(groupUpdates)
  /\ groupTail' = groupTail + 1
  /\ UNCHANGED <<units, groups, members, simulationVars, sequence,
                 groupUpdates, simulationUpdates, simulationTail>>

\* clear() is the only write with events on both channels: groups first.
SendSimulationUpdate ==
  /\ groupTail = Len(groupUpdates)
  /\ simulationTail < Len(simulationUpdates)
  /\ simulationTail' = simulationTail + 1
  /\ UNCHANGED <<units, groups, members, simulationVars, sequence,
                 groupUpdates, groupTail, simulationUpdates>>

-----------------------------------------------------------------------------
(* Writes *)

(* Mutants *)
UnlinkForgotten(entry, leaving) == entry
UnlinkKeepsEmptySet(entry, leaving) ==
  IF entry = None THEN None ELSE entry \ leaving

\* A member set after unlink_member of each unit of `leaving`: an entry that
\* becomes empty is dropped.
Unlink(entry, leaving) ==
  IF entry = None \/ entry \subseteq leaving THEN None ELSE entry \ leaving

UpsertUnit(u, g, d) ==
  \E old \in GroupIds :
    /\ old = IF units[u] = None THEN g ELSE units[u].group
    /\ units' = [units EXCEPT ![u] = [group |-> g, data |-> d]]
    /\ members' = [h \in GroupIds |->
         IF h = g THEN MemberIds(g) \cup {u}
         ELSE IF h = old THEN Unlink(members[h], {u})
         ELSE members[h]]
    /\ UNCHANGED <<groups, simulationVars>>
    /\ PublishGroups(EmitIfChanged(g) \o
                     (IF old # g THEN EmitIfChanged(old) ELSE <<>>))

\* Removing an unknown unit changes nothing.
RemoveUnit(u) ==
  /\ units[u] # None
  /\ units' = [units EXCEPT ![u] = None]
  /\ \E g \in GroupIds :
       /\ g = units[u].group
       /\ members' = [members EXCEPT ![g] = Unlink(@, {u})]
       /\ UNCHANGED <<groups, simulationVars>>
       /\ PublishGroups(EmitIfChanged(g))

(* Mutants *)
SideChangeUntold(g, side) == <<>>

\* replace_group_fields: the removal that a change of side sends first.
SideChange(g, side) ==
  IF groups[g] # None /\ groups[g].side # side THEN <<Removal(g)>> ELSE <<>>

UpsertGroup(g, side, d) ==
  /\ groups' = [groups EXCEPT ![g] = [side |-> side, data |-> d]]
  /\ UNCHANGED <<units, members, simulationVars>>
  /\ PublishGroups(SideChange(g, side) \o EmitIfChanged(g))

\* `us` maps the listed unit ids to their data; of a unit listed twice the
\* last occurrence counts.  `others` are the groups that lose a unit to g;
\* their events follow in the arbitrary order of a HashMap.
UpsertGroupWithUnits(g, side, d, us) ==
  LET listed == DOMAIN us
      dropped == MemberIds(g) \ listed
      from(h) == {u \in listed : units[u] # None /\ units[u].group = h}
      others == {h \in GroupIds \ {g} : from(h) # {}}
  IN  /\ units' = [u \in UnitIds |->
           IF u \in listed THEN [group |-> g, data |-> us[u]]
           ELSE IF u \in dropped THEN None ELSE units[u]]
      /\ members' = [h \in GroupIds |->
           IF h = g THEN listed
           ELSE IF h \in others THEN Unlink(members[h], from(h))
           ELSE members[h]]
      /\ groups' = [groups EXCEPT ![g] = [side |-> side, data |-> d]]
      /\ UNCHANGED simulationVars
      /\ \E order \in SetToSeqs({h \in others :
                                   JoinedGroup(h)' # JoinedGroup(h)}) :
           PublishGroups(SideChange(g, side) \o EmitIfChanged(g) \o
             [i \in DOMAIN order |->
                [id |-> order[i], group |-> JoinedGroup(order[i])']])

\* Removing an unknown group changes nothing, whatever units name it.
RemoveGroup(g) ==
  /\ groups[g] # None
  /\ groups' = [groups EXCEPT ![g] = None]
  /\ members' = [members EXCEPT ![g] = None]
  /\ units' = [u \in UnitIds |-> IF u \in MemberIds(g) THEN None ELSE units[u]]
  /\ UNCHANGED simulationVars
  /\ PublishGroups(<<Removal(g)>>)

SetSimulationInfo(info) ==
  /\ simulation_info' = info
  /\ UNCHANGED <<units, groups, members, simulation_state, locations, sequence,
                 groupUpdates, groupTail, simulationUpdates, simulationTail>>

SetSimulationState(st) ==
  /\ simulation_state' = st
  /\ PublishSimulation(sequence + 1, st)
  /\ UNCHANGED <<units, groups, members, simulation_info, locations,
                 groupUpdates, groupTail, simulationTail>>

SetLocations(ls) ==
  /\ locations' = ls
  /\ UNCHANGED <<units, groups, members, simulation_info, simulation_state,
                 sequence, groupUpdates, groupTail, simulationUpdates,
                 simulationTail>>

(* Mutants *)
RestartedSequence == 0

\* The counter that clear() carries over into the new Inner.
KeptSequence == sequence

\* Everything but the sequence counter is reset; every cached group is
\* removed on the channel, in a HashMap's order, then the simulation state.
Clear ==
  /\ units' = [u \in UnitIds |-> None]
  /\ groups' = [g \in GroupIds |-> None]
  /\ members' = [g \in GroupIds |-> None]
  /\ simulation_info' = None /\ simulation_state' = None /\ locations' = {}
  /\ \E order \in SetToSeqs({g \in GroupIds : groups[g] # None}) :
       /\ groupUpdates' = groupUpdates \o
            Numbered(KeptSequence, [i \in DOMAIN order |-> Removal(order[i])])
       /\ PublishSimulation(KeptSequence + Len(order) + 1, None)
  /\ UNCHANGED <<groupTail, simulationTail>>

-----------------------------------------------------------------------------
Init ==
  /\ units = [u \in UnitIds |-> None]
  /\ groups = [g \in GroupIds |-> None]
  /\ members = [g \in GroupIds |-> None]
  /\ simulation_info = None /\ simulation_state = None /\ locations = {}
  /\ sequence = 0
  /\ groupUpdates = <<>> /\ groupTail = 0
  /\ simulationUpdates = <<>> /\ simulationTail = 0

\* A write takes the lock, and stays within the bound on the counter.
Write ==
  /\ ~WriteLocked
  /\ \/ \E u \in UnitIds, g \in GroupIds, d \in UnitData : UpsertUnit(u, g, d)
     \/ \E u \in UnitIds : RemoveUnit(u)
     \/ \E g \in GroupIds, s \in Sides, d \in GroupData : UpsertGroup(g, s, d)
     \/ \E g \in GroupIds, s \in Sides, d \in GroupData, ids \in SUBSET UnitIds :
          \E us \in [ids -> UnitData] : UpsertGroupWithUnits(g, s, d, us)
     \/ \E g \in GroupIds : RemoveGroup(g)
     \/ \E i \in SimulationInfos : SetSimulationInfo(i)
     \/ \E st \in SimulationStates : SetSimulationState(st)
     \/ \E ls \in SUBSET Locations : SetLocations(ls)
     \/ Clear
  /\ sequence' <= MaxSequence

Next == Write \/ SendGroupUpdate \/ SendSimulationUpdate

Spec == Init /\ [][Next]_cacheVars

-----------------------------------------------------------------------------
(* Properties *)

\* The member index and the units' group_id say the same: a unit is a member
\* of exactly the group it names, and no member is unknown (state.rs:46-52).
IndexAgrees ==
  \A u \in UnitIds, g \in GroupIds :
    u \in MemberIds(g) <=> units[u] # None /\ units[u].group = g

\* An empty member set is kept only for a group that is cached, which
\* upsert_group_with_units may store without units: emptied groups that nobody
\* cached leave nothing behind (state.rs:85-87).
NoLeakedMemberSet ==
  \A g \in GroupIds : members[g] = {} => groups[g] # None

\* The last event of `es` about g carries v.
TellsLast(es, g, v) ==
  \E i \in DOMAIN es : /\ es[i].id = g /\ es[i].group = v
                       /\ \A j \in DOMAIN es : j > i => es[j].id # g

Silent(es, g) == \A i \in DOMAIN es : es[i].id # g

\* What a subscriber that heard every event of `es` knows of g.
Tells(es, g, v) == TellsLast(es, g, v) \/ (Silent(es, g) /\ v = None)

\* No change is left untold: the last event about a group carries its current
\* joined value, whichever writes, moves, side changes and resets led there.
EventsTellCache ==
  \A g \in GroupIds : Tells(groupUpdates, g, JoinedGroup(g))

\* The same of the simulation channel: its last event is the current state.
SimulationEventsTellState ==
  simulation_state = IF simulationUpdates = <<>> THEN None
                     ELSE Last(simulationUpdates).state

\* i and j are successive events about one group.
Successive(i, j) ==
  /\ i < j /\ groupUpdates[i].id = groupUpdates[j].id
  /\ \A k \in i+1..j-1 : groupUpdates[k].id # groupUpdates[i].id

\* No event is spurious: it differs from the group's previous event, and no
\* group is removed that was not there (state.rs:289-296).
NoRedundantEvent ==
  \A j \in DOMAIN groupUpdates :
    /\ \A i \in 1..j-1 :
         Successive(i, j) => groupUpdates[i].group # groupUpdates[j].group
    /\ groupUpdates[j].group = None => \E i \in 1..j-1 : Successive(i, j)

\* A group never changes sides between two upserts without a removal, which a
\* subscriber filtered to the old side needs (state.rs:192-194).
SideChangeAnnounced ==
  \A j \in DOMAIN groupUpdates : \A i \in 1..j-1 :
    /\ Successive(i, j)
    /\ groupUpdates[i].group # None /\ groupUpdates[j].group # None
    => groupUpdates[i].group.side = groupUpdates[j].group.side

\* Every unit of a broadcast group names that group (proto Group.units).
EventUnitsBelong ==
  \A i \in DOMAIN groupUpdates :
    groupUpdates[i].group # None =>
      \A u \in DOMAIN groupUpdates[i].group.units :
        groupUpdates[i].group.units[u].group = groupUpdates[i].id

\* Numbers grow along each channel, no number is used twice, and none is ahead
\* of the counter a snapshot reads, across resets too (state.rs:357-359).
SequenceOrdered ==
  LET Numbers(es) == {es[i].sequence : i \in DOMAIN es}
      Increasing(es) == \A j \in DOMAIN es : \A i \in 1..j-1 :
                          es[i].sequence < es[j].sequence
  IN  /\ Increasing(groupUpdates) /\ Increasing(simulationUpdates)
      /\ Numbers(groupUpdates) \cap Numbers(simulationUpdates) = {}
      /\ Numbers(groupUpdates) \cup Numbers(simulationUpdates) = 1..sequence
=============================================================================
