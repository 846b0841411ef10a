--------------------------- MODULE QueriesProofs ---------------------------
(***************************************************************************)
(* Proof that the unary reads of one moment agree with each other, for     *)
(* every set of units, groups and sides: they rest on the index agreeing   *)
(* with the units.                                                         *)
(***************************************************************************)
EXTENDS Queries, StateCacheProofs

\* The group that a cached unit names holds it, if that group is cached.
LEMMA UnitsOfGroup ==
  ASSUME MapsOK, NEW g \in GroupIds
  PROVE  /\ DOMAIN MemberUnits(g) =
              {u \in UnitIds : units[u] # None /\ units[u].group = g}
         /\ \A u \in DOMAIN MemberUnits(g) : MemberUnits(g)[u] = units[u]
<1>1. \A u \in MemberIds(g) : u \in UnitIds
  BY MemberIdsType DEF MapsOK
<1> QED BY <1>1 DEF MemberUnits, MapsOK, IndexAgrees

LEMMA CachedUnit ==
  ASSUME MapsOK, NEW u \in UnitIds, units[u] # None
  PROVE  units[u] \in Unit /\ units[u].group \in GroupIds
BY DEF MapsOK, MapsTypeOK, Unit

\* Joining keeps the fields of a group and its units.
LEMMA JoinedIs ==
  ASSUME MapsOK, NEW g \in GroupIds
  PROVE  /\ JoinedGroup(g) = None <=> groups[g] = None
         /\ groups[g] # None => /\ JoinedGroup(g).side = groups[g].side
                                /\ JoinedGroup(g).units = MemberUnits(g)
BY JoinedFields DEF MapsOK, JoinedFieldsOK, JoinedGroup

LEMMA RepliesFollow == MapsOK => RepliesAgree
<1> SUFFICES ASSUME MapsOK PROVE RepliesAgree
  OBVIOUS
<1>0. /\ None \notin ValidSides
      /\ \A h \in GroupIds : h # None
      /\ None \notin Sides
  BY StateCacheAssumption
<1> SUFFICES ASSUME NEW side \in ValidSides
    PROVE  LET all == ListGroupsReply(None).ok
               listed == ListGroupsReply(side).ok
               unitsOf(gs) == UNION {DOMAIN gs[g].units : g \in DOMAIN gs}
           IN  /\ DOMAIN all = {g \in GroupIds : "ok" \in DOMAIN GetGroupReply(g)}
               /\ DOMAIN listed = {g \in DOMAIN all : all[g].side = side}
               /\ \A g \in DOMAIN all :
                    /\ all[g] = GetGroupReply(g).ok
                    /\ DOMAIN all[g].units = ListUnitsReply(None, g).ok
                    /\ \A u \in DOMAIN all[g].units :
                         GetUnitReply(u) = Ok(all[g].units[u])
               /\ ListUnitsReply(side, None).ok = unitsOf(listed)
               /\ \A u \in ListUnitsReply(None, None).ok \ unitsOf(all) :
                    "error" \in DOMAIN GetGroupReply(GetUnitReply(u).ok.group)
  BY DEF RepliesAgree
<1> DEFINE all == ListGroupsReply(None).ok
           listed == ListGroupsReply(side).ok
           unitsOf(gs) == UNION {DOMAIN gs[g].units : g \in DOMAIN gs}
           cached == {g \in GroupIds : groups[g] # None}
<1>1. /\ all = ListGroups(None) /\ listed = ListGroups(side)
      /\ \A g : ListUnitsReply(None, g).ok = ListUnits(None, g)
      /\ \A g : ListUnitsReply(side, g).ok = ListUnits(side, g)
  BY DEF ListGroupsReply, ListUnitsReply, ParseSide, Ok
<1>2. /\ DOMAIN all = cached /\ \A g \in cached : all[g] = JoinedGroup(g)
      /\ DOMAIN listed = {g \in cached : groups[g].side = side}
      /\ \A g \in DOMAIN listed : listed[g] = JoinedGroup(g)
  BY <1>0, <1>1 DEF ListGroups, MatchesSide
<1> HIDE DEF all, listed
<1>3. \A g \in cached : /\ JoinedGroup(g) # None
                        /\ JoinedGroup(g).side = groups[g].side
                        /\ JoinedGroup(g).units = MemberUnits(g)
  BY JoinedIs
<1>4. \A g \in GroupIds :
        /\ g \in cached => GetGroupReply(g) = Ok(JoinedGroup(g))
        /\ g \notin cached => GetGroupReply(g) = Error("not_found")
  BY JoinedIs DEF GetGroupReply
<1>5. /\ \A x : DOMAIN Ok(x) = {"ok"} /\ Ok(x).ok = x
      /\ \A x : DOMAIN Error(x) = {"error"}
  BY DEF Ok, Error
<1>6. DOMAIN all = {g \in GroupIds : "ok" \in DOMAIN GetGroupReply(g)}
  BY <1>2, <1>4, <1>5
<1>7. DOMAIN listed = {g \in DOMAIN all : all[g].side = side}
  BY <1>2, <1>3
<1>8. ASSUME NEW g \in DOMAIN all
      PROVE  /\ all[g] = GetGroupReply(g).ok
             /\ DOMAIN all[g].units = ListUnitsReply(None, g).ok
             /\ \A u \in DOMAIN all[g].units :
                  GetUnitReply(u) = Ok(all[g].units[u])
  <2>1. g \in GroupIds /\ g \in cached
    BY <1>2
  <2>2. all[g].units = MemberUnits(g)
    BY <2>1, <1>2, <1>3
  <2>3. ListUnitsReply(None, g).ok =
          {u \in UnitIds : units[u] # None /\ units[u].group = g}
    BY <2>1, <1>0, <1>1 DEF ListUnits
  <2>4. \A u \in DOMAIN MemberUnits(g) :
          units[u] # None /\ MemberUnits(g)[u] = units[u]
    BY <2>1, UnitsOfGroup
  <2>5. all[g] = GetGroupReply(g).ok
    BY <2>1, <1>2, <1>4, <1>5
  <2> QED BY <2>1, <2>2, <2>3, <2>4, <2>5, UnitsOfGroup DEF GetUnitReply
<1>9. ListUnitsReply(side, None).ok = unitsOf(listed)
  <2>1. ListUnitsReply(side, None).ok =
          {u \in UnitIds : units[u] # None /\ side = UnitSide(u)}
    BY <1>0, <1>1 DEF ListUnits
  <2>2. \A u \in UnitIds : units[u] # None =>
          (side = UnitSide(u) <=> units[u].group \in DOMAIN listed)
    BY <1>0, <1>2, CachedUnit DEF UnitSide
  <2>3. ASSUME NEW g \in DOMAIN listed
        PROVE  DOMAIN listed[g].units =
                 {u \in UnitIds : units[u] # None /\ units[u].group = g}
    <3>1. g \in GroupIds /\ listed[g].units = MemberUnits(g)
      BY <1>2, <1>3
    <3> QED BY <3>1, UnitsOfGroup
  <2> HIDE DEF cached
  <2> QED BY <2>1, <2>2, <2>3
<1>10. ASSUME NEW u \in ListUnitsReply(None, None).ok \ unitsOf(all)
       PROVE  "error" \in DOMAIN GetGroupReply(GetUnitReply(u).ok.group)
  <2>1. u \in UnitIds /\ units[u] # None
    BY <1>1 DEF ListUnits
  <2>2. GetUnitReply(u).ok = units[u] /\ units[u].group \in GroupIds
    BY <2>1, <1>5, CachedUnit DEF GetUnitReply
  <2>3. units[u].group \notin cached
    <3> SUFFICES ASSUME units[u].group \in cached PROVE FALSE
      OBVIOUS
    <3>1. PICK g \in cached : g = units[u].group
      OBVIOUS
    <3>2. all[g].units = MemberUnits(g)
      BY <1>2, <1>3
    <3>3. u \in DOMAIN MemberUnits(g)
      BY <2>1, <3>1, UnitsOfGroup
    <3> QED BY <3>1, <3>2, <3>3, <1>2
  <2> QED BY <2>2, <2>3, <1>4, <1>5
<1> QED BY <1>6, <1>7, <1>8, <1>9, <1>10 DEF all, listed

\* Whatever the engine wrote, the replies to requests of one moment agree, so
\* a client that combines them sees one state of the simulation.
THEOREM RepliesCorrect == Spec => []RepliesAgree
<1>1. IInv => RepliesAgree
  BY RepliesFollow DEF IInv, TypeOK, MapsOK, MapsTypeOK
<1> QED BY InitIInv, NextIInv, <1>1, PTL DEF Spec
=============================================================================
