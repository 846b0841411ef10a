------------------------------ MODULE Queries ------------------------------
(***************************************************************************)
(* The unary reads of the unit, group, location and simulation services    *)
(* (src/services/): what each replies to a request that reaches the cache  *)
(* now.  A request's side is any i32; a reply is [ok |-> body] or          *)
(* [error |-> status].                                                     *)
(***************************************************************************)
EXTENDS StateCache

Ok(body) == [ok |-> body]
Error(status) == [error |-> status]

\* parse_side, then the body for the decoded side, which is the side itself.
ParseSide(side, body) ==
  IF side \in ValidSides \cup {None} THEN Ok(body)
  ELSE Error("invalid_argument")

GetUnitReply(u) ==
  IF units[u] = None THEN Error("not_found") ELSE Ok(units[u])

ListUnitsReply(side, group) ==
  ParseSide(side, ListUnits(side, group))

GetGroupReply(g) ==
  IF JoinedGroup(g) = None THEN Error("not_found") ELSE Ok(JoinedGroup(g))

ListGroupsReply(side) == ParseSide(side, ListGroups(side))

ListLocations(filter) == {l \in locations : MatchesSide(l.owner, filter)}
ListLocationsReply(side) == ParseSide(side, ListLocations(side))

GetSimulationInfoReply ==
  IF simulation_info = None THEN Error("unavailable") ELSE Ok(simulation_info)

-----------------------------------------------------------------------------
(* Properties *)

\* What the services say of one moment agrees, although one scans the units,
\* one joins them through the index and one looks them up: the groups listed
\* for a side are those that can be got and have it; their units, and no
\* others, are listed for that side and for their group and can be got.
RepliesAgree ==
  \A side \in ValidSides :
    LET all == ListGroupsReply(None).ok
        listed == ListGroupsReply(side).ok
        unitsOf(gs) == UNION {DOMAIN gs[g].units : g \in DOMAIN gs}
    IN  /\ DOMAIN all = {g \in GroupIds : "ok" \in DOMAIN GetGroupReply(g)}
        /\ DOMAIN listed = {g \in DOMAIN all : all[g].side = side}
        /\ \A g \in DOMAIN all :
             /\ all[g] = GetGroupReply(g).ok
             /\ DOMAIN all[g].units = ListUnitsReply(None, g).ok
             /\ \A u \in DOMAIN all[g].units :
                  GetUnitReply(u) = Ok(all[g].units[u])
        /\ ListUnitsReply(side, None).ok = unitsOf(listed)
        /\ \A u \in ListUnitsReply(None, None).ok \ unitsOf(all) :
             "error" \in DOMAIN GetGroupReply(GetUnitReply(u).ok.group)
=============================================================================
