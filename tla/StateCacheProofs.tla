-------------------------- MODULE StateCacheProofs --------------------------
(***************************************************************************)
(* Proofs about the state cache, for every set of units, groups and        *)
(* values: the membership index never disagrees with the units, and the    *)
(* broadcast channel always ends on what the cache holds.                  *)
(***************************************************************************)
EXTENDS StateCache, TLAPS, SequenceTheorems, FiniteSetTheorems

-----------------------------------------------------------------------------
(* What a concatenation of events tells about a group. *)

LEMMA ConcatTells ==
  ASSUME NEW S, NEW a \in Seq(S), NEW b \in Seq(S), NEW g, NEW v
  PROVE  /\ TellsLast(b, g, v) => TellsLast(a \o b, g, v)
         /\ TellsLast(a, g, v) /\ Silent(b, g) => TellsLast(a \o b, g, v)
         /\ Silent(a, g) /\ Silent(b, g) => Silent(a \o b, g)
<1> DEFINE ab == a \o b
<1>1. /\ DOMAIN a = 1..Len(a) /\ DOMAIN b = 1..Len(b)
      /\ Len(a) \in Nat /\ Len(b) \in Nat
  BY LenProperties
<1>2. /\ DOMAIN ab = 1..Len(a) + Len(b)
      /\ \A i \in 1..Len(a) + Len(b) :
           ab[i] = IF i <= Len(a) THEN a[i] ELSE b[i - Len(a)]
  BY ConcatProperties, LenProperties
<1> HIDE DEF ab
<1>3. ASSUME TellsLast(b, g, v) PROVE TellsLast(ab, g, v)
  <2>1. PICK i \in DOMAIN b : /\ b[i].id = g /\ b[i].group = v
                              /\ \A j \in DOMAIN b : j > i => b[j].id # g
    BY <1>3 DEF TellsLast
  <2>2. /\ Len(a) + i \in DOMAIN ab /\ ab[Len(a) + i] = b[i]
    BY <2>1, <1>1, <1>2
  <2>3. ASSUME NEW j \in DOMAIN ab, j > Len(a) + i PROVE ab[j].id # g
    <3>1. /\ j - Len(a) \in DOMAIN b /\ j - Len(a) > i /\ ab[j] = b[j - Len(a)]
      BY <2>1, <2>3, <1>1, <1>2
    <3> QED BY <3>1, <2>1
  <2> QED BY <2>1, <2>2, <2>3 DEF TellsLast
<1>4. ASSUME TellsLast(a, g, v), Silent(b, g) PROVE TellsLast(ab, g, v)
  <2>1. PICK i \in DOMAIN a : /\ a[i].id = g /\ a[i].group = v
                              /\ \A j \in DOMAIN a : j > i => a[j].id # g
    BY <1>4 DEF TellsLast
  <2>2. i \in DOMAIN ab /\ ab[i] = a[i]
    BY <2>1, <1>1, <1>2
  <2>3. ASSUME NEW j \in DOMAIN ab, j > i PROVE ab[j].id # g
    <3>1. CASE j <= Len(a)
      BY <3>1, <2>1, <2>3, <1>1, <1>2
    <3>2. CASE j > Len(a)
      <4>1. j - Len(a) \in DOMAIN b /\ ab[j] = b[j - Len(a)]
        BY <3>2, <2>3, <1>1, <1>2
      <4> QED BY <4>1, <1>4 DEF Silent
    <3> QED BY <3>1, <3>2, <1>1, <1>2
  <2> QED BY <2>1, <2>2, <2>3 DEF TellsLast
<1>5. ASSUME Silent(a, g), Silent(b, g) PROVE Silent(ab, g)
  <2>1. ASSUME NEW j \in DOMAIN ab PROVE ab[j].id # g
    <3>1. CASE j <= Len(a)
      BY <3>1, <2>1, <1>5, <1>1, <1>2 DEF Silent
    <3>2. CASE j > Len(a)
      <4>1. j - Len(a) \in DOMAIN b /\ ab[j] = b[j - Len(a)]
        BY <3>2, <2>1, <1>1, <1>2
      <4> QED BY <4>1, <1>5 DEF Silent
    <3> QED BY <3>1, <3>2, <1>1, <1>2
  <2> QED BY <2>1 DEF Silent
<1> QED BY <1>3, <1>4, <1>5 DEF ab

\* Events that tell about g, while its joined view goes from v to w, no more
\* than there is to tell: nothing if they are the same, otherwise w, and before
\* it a removal if the two are of different sides.
Once(es, g, v, w) ==
  \E i \in DOMAIN es :
    /\ es[i].id = g /\ es[i].group = w
    /\ \A k \in DOMAIN es : k # i => es[k].id # g
    /\ v # w
    /\ v # None /\ w # None => v.side = w.side

Twice(es, g, v, w) ==
  \E i, j \in DOMAIN es :
    /\ i < j
    /\ es[i].id = g /\ es[i].group = None
    /\ es[j].id = g /\ es[j].group = w
    /\ \A k \in DOMAIN es : k # i /\ k # j => es[k].id # g
    /\ v # None /\ w # None

Accounts(es, g, v, w) ==
  (Silent(es, g) /\ v = w) \/ Once(es, g, v, w) \/ Twice(es, g, v, w)

LEMMA AccountsTells ==
  ASSUME NEW S, NEW es \in Seq(S), NEW g, NEW v, NEW w, Accounts(es, g, v, w)
  PROVE  TellsLast(es, g, w) \/ (Silent(es, g) /\ v = w)
<1>1. DOMAIN es = 1..Len(es) /\ Len(es) \in Nat
  BY LenProperties
<1>2. CASE Once(es, g, v, w)
  BY <1>1, <1>2 DEF Once, TellsLast
<1>3. CASE Twice(es, g, v, w)
  BY <1>1, <1>3 DEF Twice, TellsLast
<1> QED BY <1>2, <1>3 DEF Accounts

LEMMA ConcatAccounts ==
  ASSUME NEW S, NEW a \in Seq(S), NEW b \in Seq(S), NEW g, NEW v, NEW w
  PROVE  /\ Accounts(a, g, v, w) /\ Silent(b, g) => Accounts(a \o b, g, v, w)
         /\ Silent(a, g) /\ Accounts(b, g, v, w) => Accounts(a \o b, g, v, w)
<1> DEFINE ab == a \o b
<1>1. /\ DOMAIN a = 1..Len(a) /\ DOMAIN b = 1..Len(b)
      /\ Len(a) \in Nat /\ Len(b) \in Nat
  BY LenProperties
<1>2. /\ DOMAIN ab = 1..Len(a) + Len(b)
      /\ \A i \in 1..Len(a) + Len(b) :
           ab[i] = IF i <= Len(a) THEN a[i] ELSE b[i - Len(a)]
  BY ConcatProperties, LenProperties
<1> HIDE DEF ab
<1>3. ASSUME Accounts(a, g, v, w), Silent(b, g) PROVE Accounts(ab, g, v, w)
  <2>1. \A i \in DOMAIN a : i \in DOMAIN ab /\ ab[i] = a[i]
    BY <1>1, <1>2
  <2>2. \A k \in DOMAIN ab : k \in DOMAIN a \/ ab[k].id # g
    BY <1>1, <1>2, <1>3 DEF Silent
  <2>3. CASE Silent(a, g) /\ v = w
    BY <2>1, <2>2, <2>3 DEF Accounts, Silent
  <2>4. CASE Once(a, g, v, w)
    BY <2>1, <2>2, <2>4 DEF Accounts, Once
  <2>5. CASE Twice(a, g, v, w)
    BY <2>1, <2>2, <2>5 DEF Accounts, Twice
  <2> QED BY <1>3, <2>3, <2>4, <2>5 DEF Accounts
<1>4. ASSUME Silent(a, g), Accounts(b, g, v, w) PROVE Accounts(ab, g, v, w)
  <2>1. \A i \in DOMAIN b : Len(a) + i \in DOMAIN ab /\ ab[Len(a) + i] = b[i]
    BY <1>1, <1>2
  <2>2. \A k \in DOMAIN ab : k - Len(a) \in DOMAIN b \/ ab[k].id # g
    BY <1>1, <1>2, <1>4 DEF Silent
  <2>3. \A k \in DOMAIN ab : k - Len(a) \in DOMAIN b => ab[k] = b[k - Len(a)]
    BY <1>1, <1>2
  <2>4. CASE Silent(b, g) /\ v = w
    BY <2>2, <2>3, <2>4 DEF Accounts, Silent
  <2>5. CASE Once(b, g, v, w)
    <3>1. PICK i \in DOMAIN b :
            /\ b[i].id = g /\ b[i].group = w
            /\ \A k \in DOMAIN b : k # i => b[k].id # g
            /\ v # w
            /\ v # None /\ w # None => v.side = w.side
      BY <2>5 DEF Once
    <3>2. \A k \in DOMAIN ab : k # Len(a) + i => ab[k].id # g
      BY <3>1, <2>2, <2>3, <1>1, <1>2
    <3> QED BY <3>1, <3>2, <2>1 DEF Accounts, Once
  <2>6. CASE Twice(b, g, v, w)
    <3>1. PICK i, j \in DOMAIN b :
            /\ i < j
            /\ b[i].id = g /\ b[i].group = None
            /\ b[j].id = g /\ b[j].group = w
            /\ \A k \in DOMAIN b : k # i /\ k # j => b[k].id # g
            /\ v # None /\ w # None
      BY <2>6 DEF Twice
    <3>2. \A k \in DOMAIN ab :
            k # Len(a) + i /\ k # Len(a) + j => ab[k].id # g
      BY <3>1, <2>2, <2>3, <1>1, <1>2
    <3>3. Len(a) + i < Len(a) + j
      BY <3>1, <1>1
    <3> QED BY <3>1, <3>2, <3>3, <2>1 DEF Accounts, Twice
  <2> QED BY <1>4, <2>4, <2>5, <2>6 DEF Accounts
<1> QED BY <1>3, <1>4 DEF ab

\* An enumeration of a finite set hits every element, and hits it once.
LEMMA EnumerationCovers ==
  ASSUME NEW S, IsFiniteSet(S), NEW order \in SetToSeqs(S)
  PROVE  /\ order \in Seq(S)
         /\ Len(order) \in Nat /\ DOMAIN order = 1..Len(order)
         /\ \A x \in S : \E i \in DOMAIN order : order[i] = x
         /\ \A i, j \in DOMAIN order : i # j => order[i] # order[j]
<1> DEFINE n == Cardinality(S)
<1>1. n \in Nat
  BY FS_CardinalityType
<1>2. /\ order \in [1..n -> S]
      /\ \A i, j \in 1..n : i # j => order[i] # order[j]
  BY DEF SetToSeqs
<1>3. order \in Seq(S) /\ Len(order) = n
  BY <1>1, <1>2
<1>4. order \in Injection(1..n, S)
  BY <1>2 DEF Injection, IsInjective
<1>5. Cardinality(1..n) = n
  BY <1>1, FS_Interval
<1>6. order \in Surjection(1..n, S)
  BY <1>4, <1>5, FS_Injection
<1>7. \A x \in S : \E i \in 1..n : order[i] = x
  BY <1>6 DEF Surjection
<1> QED BY <1>1, <1>2, <1>3, <1>7, LenProperties

-----------------------------------------------------------------------------
(* The joined view and the events of one write. *)

\* The types of the three maps, the part of TypeOK the joined view rests on.
MapsTypeOK ==
  /\ units \in [UnitIds -> Unit \cup {None}]
  /\ groups \in [GroupIds -> Group \cup {None}]
  /\ members \in [GroupIds -> {None} \cup SUBSET UnitIds]

\* What a write hands to PublishGroups: an event but for its number.
Notice == [id : GroupIds, group : Joined \cup {None}]

\* The notices of a write tell every group whose joined view it changes, and
\* say nothing else.
Covers(es) ==
  /\ es \in Seq(Notice)
  /\ \A g \in GroupIds : Accounts(es, g, JoinedGroup(g), JoinedGroup(g)')

\* The channel grows by exactly such notices, and a reset adds one event to
\* the other channel.
GroupsTold ==
  \E es :
    /\ Covers(es)
    /\ groupUpdates' = groupUpdates \o Numbered(sequence, es)
    /\ UNCHANGED <<groupTail, simulationTail>>
    /\ \/ sequence' = sequence + Len(es) /\ UNCHANGED simulationUpdates
       \/ PublishSimulation(sequence + Len(es) + 1, None)

LEMMA MemberIdsType ==
  MapsTypeOK => \A g \in GroupIds : MemberIds(g) \subseteq UnitIds
BY DEF MapsTypeOK, MemberIds

JoinedTypeOK == \A g \in GroupIds : JoinedGroup(g) \in Joined \cup {None}

LEMMA JoinedGroupType == MapsTypeOK => JoinedTypeOK
<1> SUFFICES ASSUME MapsTypeOK, NEW g \in GroupIds
             PROVE  JoinedGroup(g) \in Joined \cup {None}
  BY DEF JoinedTypeOK
<1>1. CASE groups[g] = None
  BY <1>1 DEF JoinedGroup
<1>2. CASE groups[g] # None
  <2> DEFINE us == {v \in MemberIds(g) : units[v] # None}
  <2>1. us \in SUBSET UnitIds
    BY MemberIdsType
  <2>2. MemberUnits(g) \in [us -> Unit]
    BY <2>1 DEF MemberUnits, MapsTypeOK
  <2>3. groups[g] \in [side : Sides, data : GroupData]
    BY <1>2 DEF MapsTypeOK, Group
  <2>4. MemberUnits(g) \in UNION {[vs -> Unit] : vs \in SUBSET UnitIds}
    BY <2>1, <2>2
  <2> QED BY <1>2, <2>3, <2>4 DEF JoinedGroup, Joined
<1> QED BY <1>1, <1>2

\* The same of the maps after a step.
LEMMA JoinedGroupTypeNext == MapsTypeOK' => JoinedTypeOK'
BY JoinedGroupType, PTL

\* A group that is cached has a joined view, of the same side.
JoinedFieldsOK ==
  \A g \in GroupIds :
    /\ JoinedGroup(g) = None <=> groups[g] = None
    /\ groups[g] # None => JoinedGroup(g).side = groups[g].side

LEMMA JoinedFields == MapsTypeOK => JoinedFieldsOK
<1> SUFFICES ASSUME MapsTypeOK, NEW g \in GroupIds, groups[g] # None
             PROVE  JoinedGroup(g) # None /\ JoinedGroup(g).side = groups[g].side
  BY DEF JoinedFieldsOK, JoinedGroup
<1> DEFINE joined == [side |-> groups[g].side, data |-> groups[g].data,
                      units |-> MemberUnits(g)]
<1>1. JoinedGroup(g) = joined
  BY DEF JoinedGroup
<1>2. joined \in Joined
  <2>1. groups[g] \in [side : Sides, data : GroupData]
    BY DEF MapsTypeOK, Group
  <2> DEFINE us == {v \in MemberIds(g) : units[v] # None}
  <2>2. us \in SUBSET UnitIds
    BY MemberIdsType
  <2>3. MemberUnits(g) \in [us -> Unit]
    BY <2>2 DEF MemberUnits, MapsTypeOK
  <2>4. MemberUnits(g) \in UNION {[vs -> Unit] : vs \in SUBSET UnitIds}
    BY <2>2, <2>3
  <2> QED BY <2>1, <2>4 DEF Joined
<1>3. joined.side = groups[g].side
  OBVIOUS
<1> HIDE DEF joined
<1> QED BY <1>1, <1>2, <1>3, StateCacheAssumption

LEMMA JoinedFieldsNext == MapsTypeOK' => JoinedFieldsOK'
BY JoinedFields, PTL

\* The group keeps its side, if it is cached before and after.
SideKept(g) ==
  groups[g] # None /\ groups'[g] # None => groups'[g].side = groups[g].side

LEMMA EmitIfChangedTells ==
  ASSUME MapsTypeOK, MapsTypeOK', NEW g \in GroupIds
  PROVE  /\ EmitIfChanged(g) \in Seq(Notice)
         /\ SideKept(g) =>
              Accounts(EmitIfChanged(g), g, JoinedGroup(g), JoinedGroup(g)')
         /\ \A h \in GroupIds \ {g} : Silent(EmitIfChanged(g), h)
<1>1. JoinedGroup(g)' \in Joined \cup {None}
  BY JoinedGroupTypeNext DEF JoinedTypeOK
<1>2. CASE JoinedGroup(g)' = JoinedGroup(g)
  BY <1>2 DEF EmitIfChanged, Silent, Accounts
<1>3. CASE JoinedGroup(g)' # JoinedGroup(g)
  <2> DEFINE n == [id |-> g, group |-> JoinedGroup(g)']
  <2>1. EmitIfChanged(g) = <<n>>
    BY <1>3 DEF EmitIfChanged
  <2>2. n \in Notice
    BY <1>1 DEF Notice
  <2>3. n.id = g /\ n.group = JoinedGroup(g)'
    OBVIOUS
  <2> HIDE DEF n
  <2>4. DOMAIN <<n>> = {1} /\ <<n>>[1] = n
    OBVIOUS
  <2>5. SideKept(g) => Accounts(<<n>>, g, JoinedGroup(g), JoinedGroup(g)')
    <3>1. SideKept(g) => \/ JoinedGroup(g) = None \/ JoinedGroup(g)' = None
                         \/ JoinedGroup(g).side = JoinedGroup(g)'.side
      BY JoinedFields, JoinedFieldsNext DEF JoinedFieldsOK, SideKept
    <3> QED BY <1>3, <2>3, <2>4, <3>1 DEF Accounts, Once
  <2>6. \A h \in GroupIds \ {g} : Silent(<<n>>, h)
    BY <2>3, <2>4 DEF Silent
  <2> QED BY <2>1, <2>2, <2>5, <2>6
<1> QED BY <1>2, <1>3

\* A step that touches neither the fields nor a member of a group leaves its
\* joined view alone.
LEMMA UntouchedGroup ==
  ASSUME NEW g \in GroupIds,
         groups'[g] = groups[g], MemberIds(g)' = MemberIds(g),
         \A u \in MemberIds(g) : units'[u] = units[u]
  PROVE  JoinedGroup(g)' = JoinedGroup(g)
<1>1. {v \in MemberIds(g)' : units'[v] # None}
        = {v \in MemberIds(g) : units[v] # None}
  OBVIOUS
<1>2. MemberUnits(g)' = MemberUnits(g)
  BY <1>1 DEF MemberUnits
<1> QED BY <1>2 DEF JoinedGroup

\* The set an entry of the index stands for.
Members(entry) == IF entry = None THEN {} ELSE entry

LEMMA UnlinkType ==
  ASSUME NEW entry \in {None} \cup SUBSET UnitIds, NEW leaving
  PROVE  /\ Unlink(entry, leaving) \in {None} \cup SUBSET UnitIds
         /\ Unlink(entry, leaving) # {}
         /\ Members(Unlink(entry, leaving)) = Members(entry) \ leaving
<1>0. None # {}
  BY StateCacheAssumption
<1>1. CASE entry = None
  BY <1>0, <1>1 DEF Unlink, Members
<1>2. CASE entry # None /\ entry \subseteq leaving
  BY <1>0, <1>2 DEF Unlink, Members
<1>3. CASE entry # None /\ ~(entry \subseteq leaving)
  <2>1. entry \in SUBSET UnitIds
    BY <1>3
  <2>2. entry \ leaving \in SUBSET UnitIds
    BY <2>1
  <2>3. entry \ leaving # None
    BY <2>2, StateCacheAssumption
  <2> QED BY <1>3, <2>2, <2>3 DEF Unlink, Members
<1> QED BY <1>1, <1>2, <1>3

-----------------------------------------------------------------------------
(* Each write keeps the index in step with the units and tells its changes. *)

\* The invariant of the maps that a write relies on and restores.
MapsOK == MapsTypeOK /\ IndexAgrees /\ NoLeakedMemberSet

LEMMA UpsertUnitTells ==
  ASSUME MapsOK, NEW u \in UnitIds, NEW g \in GroupIds, NEW d \in UnitData,
         UpsertUnit(u, g, d)
  PROVE  MapsOK' /\ GroupsTold
<1> USE DEF MapsOK
<1>1. PICK old \in GroupIds :
        /\ old = IF units[u] = None THEN g ELSE units[u].group
        /\ units' = [units EXCEPT ![u] = [group |-> g, data |-> d]]
        /\ members' = [h \in GroupIds |->
             IF h = g THEN MemberIds(g) \cup {u}
             ELSE IF h = old THEN Unlink(members[h], {u})
             ELSE members[h]]
        /\ UNCHANGED <<groups, simulationVars>>
        /\ PublishGroups(EmitIfChanged(g) \o
                         (IF old # g THEN EmitIfChanged(old) ELSE <<>>))
  BY DEF UpsertUnit
<1>2. [group |-> g, data |-> d] \in Unit /\ [group |-> g, data |-> d] # None
  BY StateCacheAssumption DEF Unit
<1>3. MapsTypeOK'
  <2>1. units' \in [UnitIds -> Unit \cup {None}]
    BY <1>1, <1>2 DEF MapsTypeOK
  <2>2. groups' \in [GroupIds -> Group \cup {None}]
    BY <1>1 DEF MapsTypeOK
  <2>3. MemberIds(g) \cup {u} \in SUBSET UnitIds
    BY MemberIdsType
  <2>4. \A h \in GroupIds : members[h] \in {None} \cup SUBSET UnitIds
    BY DEF MapsTypeOK
  <2>5. members' \in [GroupIds -> {None} \cup SUBSET UnitIds]
    BY <1>1, <2>3, <2>4, UnlinkType
  <2> QED BY <2>1, <2>2, <2>5 DEF MapsTypeOK
<1>4. \A h \in GroupIds :
        MemberIds(h)' = IF h = g THEN MemberIds(g) \cup {u}
                        ELSE MemberIds(h) \ {u}
  <2> SUFFICES ASSUME NEW h \in GroupIds
               PROVE  MemberIds(h)' = IF h = g THEN MemberIds(g) \cup {u}
                                      ELSE MemberIds(h) \ {u}
    OBVIOUS
  <2>1. CASE h = g
    <3>1. MemberIds(g) \cup {u} \in SUBSET UnitIds
      BY MemberIdsType
    <3> QED BY <2>1, <1>1, <3>1, StateCacheAssumption DEF MemberIds
  <2>2. CASE h # g /\ h = old
    <3>1. members[h] \in {None} \cup SUBSET UnitIds
      BY DEF MapsTypeOK
    <3>2. members'[h] = Unlink(members[h], {u})
      BY <2>2, <1>1
    <3>3. Members(Unlink(members[h], {u})) = Members(members[h]) \ {u}
      BY <3>1, UnlinkType
    <3> QED BY <2>2, <3>2, <3>3 DEF MemberIds, Members
  <2>3. CASE h # g /\ h # old
    <3>1. u \notin MemberIds(h)
      BY <2>3, <1>1 DEF IndexAgrees
    <3>2. members'[h] = members[h]
      BY <2>3, <1>1
    <3> QED BY <2>3, <3>1, <3>2 DEF MemberIds
  <2> QED BY <2>1, <2>2, <2>3
<1>5. IndexAgrees'
  <2>1. \A v \in UnitIds : units'[v] =
          IF v = u THEN [group |-> g, data |-> d] ELSE units[v]
    BY <1>1 DEF MapsTypeOK
  <2>2. [group |-> g, data |-> d].group = g
    OBVIOUS
  <2>3. ASSUME NEW v \in UnitIds, NEW h \in GroupIds
        PROVE  v \in MemberIds(h)' <=> units'[v] # None /\ units'[v].group = h
    <3>1. CASE v = u
      BY <3>1, <1>2, <1>4, <2>1, <2>2
    <3>2. CASE v # u
      BY <3>2, <1>4, <2>1 DEF IndexAgrees
    <3> QED BY <3>1, <3>2
  <2> QED BY <2>3 DEF IndexAgrees
<1>6. \A h \in GroupIds \ {g, old} : JoinedGroup(h)' = JoinedGroup(h)
  <2> SUFFICES ASSUME NEW h \in GroupIds \ {g, old}
               PROVE  JoinedGroup(h)' = JoinedGroup(h)
    OBVIOUS
  <2>1. u \notin MemberIds(h)
    BY <1>1 DEF IndexAgrees
  <2>2. MemberIds(h)' = MemberIds(h)
    BY <1>4, <2>1
  <2>3. \A v \in MemberIds(h) : units'[v] = units[v]
    BY <1>1, <2>1, MemberIdsType DEF MapsTypeOK
  <2>4. groups'[h] = groups[h]
    BY <1>1
  <2> QED BY <2>2, <2>3, <2>4, UntouchedGroup
<1>7. GroupsTold
  <2> DEFINE a == EmitIfChanged(g)
             b == IF old # g THEN EmitIfChanged(old) ELSE <<>>
  <2>1. /\ a \in Seq(Notice)
        /\ Accounts(a, g, JoinedGroup(g), JoinedGroup(g)')
        /\ \A h \in GroupIds \ {g} : Silent(a, h)
    BY <1>1, <1>3, EmitIfChangedTells DEF SideKept
  <2>2. /\ b \in Seq(Notice)
        /\ old # g => Accounts(b, old, JoinedGroup(old), JoinedGroup(old)')
        /\ \A h \in GroupIds : h # old \/ old = g => Silent(b, h)
    <3>1. CASE old = g
      BY <3>1 DEF Silent
    <3>2. CASE old # g
      BY <3>2, <1>1, <1>3, EmitIfChangedTells DEF SideKept
    <3> QED BY <3>1, <3>2
  <2>3. PublishGroups(a \o b)
    BY <1>1
  <2> HIDE DEF a, b
  <2>4. Covers(a \o b)
    <3>1. a \o b \in Seq(Notice)
      BY <2>1, <2>2
    <3>2. ASSUME NEW h \in GroupIds
          PROVE  Accounts(a \o b, h, JoinedGroup(h), JoinedGroup(h)')
      <4>1. CASE h = g
        BY <4>1, <2>1, <2>2, ConcatAccounts
      <4>2. CASE h # g /\ h = old
        BY <4>2, <2>1, <2>2, ConcatAccounts
      <4>3. CASE h # g /\ h # old
        <5>1. Accounts(b, h, JoinedGroup(h), JoinedGroup(h)')
          BY <4>3, <1>6, <2>2 DEF Accounts
        <5> QED BY <4>3, <5>1, <2>1, <2>2, ConcatAccounts
      <4> QED BY <4>1, <4>2, <4>3
    <3> QED BY <3>1, <3>2 DEF Covers
  <2> QED BY <2>3, <2>4 DEF GroupsTold, PublishGroups
<1>8. NoLeakedMemberSet'
  <2>1. \A h \in GroupIds : /\ groups'[h] = groups[h]
                            /\ members[h] \in {None} \cup SUBSET UnitIds
    BY <1>1 DEF MapsTypeOK
  <2> QED BY <1>1, <2>1, UnlinkType DEF NoLeakedMemberSet
<1> QED BY <1>3, <1>5, <1>7, <1>8

LEMMA RemoveUnitTells ==
  ASSUME MapsOK, NEW u \in UnitIds, RemoveUnit(u)
  PROVE  MapsOK' /\ GroupsTold
<1> USE DEF MapsOK
<1>1. PICK g \in GroupIds :
        /\ units[u] # None /\ g = units[u].group
        /\ units' = [units EXCEPT ![u] = None]
        /\ members' = [members EXCEPT ![g] = Unlink(@, {u})]
        /\ UNCHANGED <<groups, simulationVars>>
        /\ PublishGroups(EmitIfChanged(g))
  BY DEF RemoveUnit
<1>2. members[g] \in {None} \cup SUBSET UnitIds
  BY DEF MapsTypeOK
<1>3. MapsTypeOK'
  <2>1. Unlink(members[g], {u}) \in {None} \cup SUBSET UnitIds
    BY <1>2, UnlinkType
  <2> QED BY <1>1, <2>1 DEF MapsTypeOK
<1>4. \A h \in GroupIds : MemberIds(h)' = MemberIds(h) \ {u}
  <2> SUFFICES ASSUME NEW h \in GroupIds
               PROVE  MemberIds(h)' = MemberIds(h) \ {u}
    OBVIOUS
  <2>1. CASE h = g
    <3>1. members'[h] = Unlink(members[g], {u})
      BY <2>1, <1>1 DEF MapsTypeOK
    <3> QED BY <2>1, <3>1, <1>2, UnlinkType DEF MemberIds, Members
  <2>2. CASE h # g
    <3>1. u \notin MemberIds(h) /\ members'[h] = members[h]
      BY <2>2, <1>1 DEF IndexAgrees, MapsTypeOK
    <3> QED BY <3>1 DEF MemberIds
  <2> QED BY <2>1, <2>2
<1>5. \A v \in UnitIds : units'[v] = IF v = u THEN None ELSE units[v]
  BY <1>1 DEF MapsTypeOK
<1>6. IndexAgrees'
  BY <1>4, <1>5 DEF IndexAgrees
<1>7. \A h \in GroupIds \ {g} : JoinedGroup(h)' = JoinedGroup(h)
  <2> SUFFICES ASSUME NEW h \in GroupIds \ {g}
               PROVE  JoinedGroup(h)' = JoinedGroup(h)
    OBVIOUS
  <2>1. u \notin MemberIds(h)
    BY <1>1 DEF IndexAgrees
  <2>2. MemberIds(h)' = MemberIds(h)
    BY <1>4, <2>1
  <2>3. \A v \in MemberIds(h) : units'[v] = units[v]
    BY <1>5, <2>1, MemberIdsType
  <2>4. groups'[h] = groups[h]
    BY <1>1
  <2> QED BY <2>2, <2>3, <2>4, UntouchedGroup
<1>8. Covers(EmitIfChanged(g))
  <2>1. SideKept(g)
    BY <1>1 DEF SideKept
  <2> QED BY <2>1, <1>3, <1>7, EmitIfChangedTells DEF Covers, Accounts
<1>9. NoLeakedMemberSet'
  BY <1>1, <1>2, UnlinkType DEF NoLeakedMemberSet, MapsTypeOK
<1> QED BY <1>1, <1>3, <1>6, <1>8, <1>9 DEF GroupsTold, PublishGroups

\* A change of side is told in two events, a removal first.
LEMMA SideChangeTells ==
  ASSUME MapsTypeOK, MapsTypeOK', NEW g \in GroupIds, NEW side,
         groups'[g] # None, groups'[g].side = side
  PROVE  LET es == SideChange(g, side) \o EmitIfChanged(g)
         IN  /\ es \in Seq(Notice)
             /\ Accounts(es, g, JoinedGroup(g), JoinedGroup(g)')
             /\ \A h \in GroupIds \ {g} : Silent(es, h)
<1> DEFINE a == SideChange(g, side)
           b == EmitIfChanged(g)
<1>1. /\ b \in Seq(Notice)
      /\ SideKept(g) => Accounts(b, g, JoinedGroup(g), JoinedGroup(g)')
      /\ \A h \in GroupIds \ {g} : Silent(b, h)
  BY EmitIfChangedTells
<1>2. CASE ~(groups[g] # None /\ groups[g].side # side)
  <2>1. a = <<>> /\ SideKept(g)
    BY <1>2 DEF SideChange, SideKept
  <2>2. a \in Seq(Notice) /\ \A h \in GroupIds : Silent(a, h)
    BY <2>1 DEF Silent
  <2> HIDE DEF a, b
  <2>3. /\ a \o b \in Seq(Notice)
        /\ Accounts(a \o b, g, JoinedGroup(g), JoinedGroup(g)')
        /\ \A h \in GroupIds \ {g} : Silent(a \o b, h)
    BY <1>1, <2>1, <2>2, ConcatAccounts, ConcatTells
  <2> QED BY <2>3 DEF a, b
<1>3. CASE groups[g] # None /\ groups[g].side # side
  <2> DEFINE n == [id |-> g, group |-> JoinedGroup(g)']
             r == Removal(g)
  <2>1. /\ JoinedGroup(g) # None /\ JoinedGroup(g)' # None
        /\ JoinedGroup(g).side # JoinedGroup(g)'.side
    BY <1>3, JoinedFields, JoinedFieldsNext DEF JoinedFieldsOK
  <2>2. JoinedGroup(g)' # JoinedGroup(g)
    BY <2>1
  <2>3. r \in Notice /\ r.id = g /\ r.group = None
    BY DEF Removal, Notice
  <2>4. n \in Notice /\ n.id = g /\ n.group = JoinedGroup(g)'
    BY JoinedGroupTypeNext DEF Notice, JoinedTypeOK
  <2>5. SideChange(g, side) \o EmitIfChanged(g) = <<r>> \o <<n>>
    BY <1>3, <2>2 DEF SideChange, EmitIfChanged
  <2> HIDE DEF n, r
  <2> DEFINE es == <<r>> \o <<n>>
  <2>6. /\ es \in Seq(Notice) /\ Len(es) = 2
        /\ es[1] = r /\ es[2] = n
    BY <2>3, <2>4
  <2>7. DOMAIN es = {1, 2}
    BY <2>6, LenProperties
  <2> HIDE DEF es
  <2>8. Twice(es, g, JoinedGroup(g), JoinedGroup(g)')
    BY <2>1, <2>3, <2>4, <2>6, <2>7 DEF Twice
  <2>9. \A h \in GroupIds \ {g} : Silent(es, h)
    BY <2>3, <2>4, <2>6, <2>7 DEF Silent
  <2> QED BY <2>5, <2>6, <2>8, <2>9 DEF Accounts, es
<1> QED BY <1>2, <1>3

LEMMA UpsertGroupTells ==
  ASSUME MapsOK, NEW g \in GroupIds, NEW s \in Sides, NEW d \in GroupData,
         UpsertGroup(g, s, d)
  PROVE  MapsOK' /\ GroupsTold
<1> USE DEF MapsOK
<1>1. /\ groups' = [groups EXCEPT ![g] = [side |-> s, data |-> d]]
      /\ UNCHANGED <<units, members>>
      /\ PublishGroups(SideChange(g, s) \o EmitIfChanged(g))
  BY DEF UpsertGroup
<1>2. [side |-> s, data |-> d] \in Group /\ [side |-> s, data |-> d] # None
  BY StateCacheAssumption DEF Group
<1>3. MapsTypeOK'
  BY <1>1, <1>2 DEF MapsTypeOK
<1>4. IndexAgrees'
  BY <1>1 DEF IndexAgrees, MemberIds
<1>5. groups'[g] = [side |-> s, data |-> d]
  BY <1>1 DEF MapsTypeOK
<1>6. \A h \in GroupIds \ {g} : JoinedGroup(h)' = JoinedGroup(h)
  BY <1>1, UntouchedGroup DEF MapsTypeOK, MemberIds
<1>7. Covers(SideChange(g, s) \o EmitIfChanged(g))
  BY <1>2, <1>3, <1>5, <1>6, SideChangeTells DEF Covers, Accounts
<1>8. NoLeakedMemberSet'
  BY <1>1, <1>2 DEF NoLeakedMemberSet, MapsTypeOK
<1> QED BY <1>1, <1>3, <1>4, <1>7, <1>8 DEF GroupsTold, PublishGroups

LEMMA RemoveGroupTells ==
  ASSUME MapsOK, NEW g \in GroupIds, RemoveGroup(g)
  PROVE  MapsOK' /\ GroupsTold
<1> USE DEF MapsOK
<1>1. /\ groups' = [groups EXCEPT ![g] = None]
      /\ members' = [members EXCEPT ![g] = None]
      /\ units' = [u \in UnitIds |->
                     IF u \in MemberIds(g) THEN None ELSE units[u]]
      /\ PublishGroups(<<Removal(g)>>)
  BY DEF RemoveGroup
<1>2. MapsTypeOK'
  BY <1>1 DEF MapsTypeOK
<1>3. \A h \in GroupIds :
        MemberIds(h)' = IF h = g THEN {} ELSE MemberIds(h)
  BY <1>1 DEF MemberIds, MapsTypeOK
<1>4. IndexAgrees'
  BY <1>1, <1>3 DEF IndexAgrees
<1>5. \A h \in GroupIds \ {g} : JoinedGroup(h)' = JoinedGroup(h)
  <2> SUFFICES ASSUME NEW h \in GroupIds \ {g}
               PROVE  JoinedGroup(h)' = JoinedGroup(h)
    OBVIOUS
  <2>1. groups'[h] = groups[h] /\ MemberIds(h)' = MemberIds(h)
    BY <1>1, <1>3 DEF MapsTypeOK
  <2>2. \A v \in MemberIds(h) : units'[v] = units[v]
    BY <1>1, MemberIdsType DEF IndexAgrees
  <2> QED BY <2>1, <2>2, UntouchedGroup
<1>6. JoinedGroup(g) # None /\ JoinedGroup(g)' = None
  <2>1. groups[g] # None /\ groups'[g] = None
    BY <1>1 DEF RemoveGroup, MapsTypeOK
  <2> QED BY <2>1, <1>2, JoinedFields, JoinedFieldsNext DEF JoinedFieldsOK
<1>7. Covers(<<Removal(g)>>)
  <2>1. Removal(g) \in Notice /\ Removal(g).id = g /\ Removal(g).group = None
    BY DEF Removal, Notice
  <2>2. Accounts(<<Removal(g)>>, g, JoinedGroup(g), JoinedGroup(g)')
    BY <2>1, <1>6 DEF Accounts, Once
  <2>3. \A h \in GroupIds \ {g} : Silent(<<Removal(g)>>, h)
    BY <2>1 DEF Silent
  <2> QED BY <2>1, <2>2, <2>3, <1>5 DEF Covers, Accounts
<1>8. NoLeakedMemberSet'
  BY <1>1, StateCacheAssumption DEF NoLeakedMemberSet, MapsTypeOK
<1> QED BY <1>1, <1>2, <1>4, <1>7, <1>8 DEF GroupsTold, PublishGroups

LEMMA ClearTells ==
  ASSUME MapsOK, Clear
  PROVE  MapsOK' /\ GroupsTold
<1> DEFINE cached == {g \in GroupIds : groups[g] # None}
<1>1. PICK order \in SetToSeqs(cached) :
        /\ groupUpdates' = groupUpdates \o
             Numbered(sequence, [i \in DOMAIN order |-> Removal(order[i])])
        /\ PublishSimulation(sequence + Len(order) + 1, None)
        /\ UNCHANGED <<groupTail, simulationTail>>
  BY DEF Clear, KeptSequence
<1>2. /\ units' = [u \in UnitIds |-> None]
      /\ groups' = [g \in GroupIds |-> None]
      /\ members' = [g \in GroupIds |-> None]
  BY DEF Clear
<1>3. MapsOK'
  BY <1>2, StateCacheAssumption
     DEF MapsOK, MapsTypeOK, IndexAgrees, NoLeakedMemberSet, MemberIds
<1>4. IsFiniteSet(cached)
  BY StateCacheAssumption, FS_Subset
<1>5. /\ order \in Seq(cached)
      /\ Len(order) \in Nat /\ DOMAIN order = 1..Len(order)
      /\ \A g \in cached : \E i \in DOMAIN order : order[i] = g
      /\ \A i, j \in DOMAIN order : i # j => order[i] # order[j]
  BY <1>4, EnumerationCovers
<1> DEFINE es == [i \in DOMAIN order |-> Removal(order[i])]
<1>6. /\ es \in Seq(Notice) /\ DOMAIN es = DOMAIN order
      /\ \A i \in DOMAIN es : es[i].id = order[i] /\ es[i].group = None
  <2>1. \A i \in 1..Len(order) : order[i] \in GroupIds
    BY <1>5
  <2> QED BY <1>5, <2>1 DEF Removal, Notice
<1>7. \A g \in GroupIds : JoinedGroup(g)' = None
  BY <1>2 DEF JoinedGroup
<1>8. Covers(es)
  <2> HIDE DEF es
  <2>1. ASSUME NEW g \in cached PROVE Accounts(es, g, JoinedGroup(g), None)
    <3>1. PICK i \in DOMAIN es : order[i] = g
      BY <1>5, <1>6
    <3>2. \A j \in DOMAIN es : j # i => es[j].id # g
      BY <1>5, <1>6, <3>1
    <3>3. JoinedGroup(g) # None
      BY JoinedFields DEF JoinedFieldsOK, MapsOK
    <3> QED BY <1>6, <3>1, <3>2, <3>3 DEF Accounts, Once
  <2>2. ASSUME NEW g \in GroupIds \ cached
        PROVE  Silent(es, g) /\ JoinedGroup(g) = None
    <3>1. \A i \in DOMAIN es : order[i] \in cached
      BY <1>5, <1>6
    <3> QED BY <1>6, <3>1 DEF Silent, JoinedGroup
  <2> QED BY <1>6, <1>7, <2>1, <2>2 DEF Covers, Accounts
<1>9. Len(es) = Len(order)
  BY <1>5
<1> QED BY <1>1, <1>3, <1>8, <1>9 DEF GroupsTold

LEMMA UpsertGroupWithUnitsTells ==
  ASSUME MapsOK, NEW g \in GroupIds, NEW s \in Sides, NEW d \in GroupData,
         NEW ids \in SUBSET UnitIds, NEW us \in [ids -> UnitData],
         UpsertGroupWithUnits(g, s, d, us)
  PROVE  MapsOK' /\ GroupsTold
<1> USE DEF MapsOK
<1> DEFINE dropped == MemberIds(g) \ ids
           from(h) == {u \in ids : units[u] # None /\ units[u].group = h}
           others == {h \in GroupIds \ {g} : from(h) # {}}
           told == {h \in others : JoinedGroup(h)' # JoinedGroup(h)}
<1>1. DOMAIN us = ids
  OBVIOUS
<1>2. /\ units' = [u \in UnitIds |->
           IF u \in ids THEN [group |-> g, data |-> us[u]]
           ELSE IF u \in dropped THEN None ELSE units[u]]
      /\ members' = [h \in GroupIds |->
           IF h = g THEN ids
           ELSE IF h \in others THEN Unlink(members[h], from(h))
           ELSE members[h]]
      /\ groups' = [groups EXCEPT ![g] = [side |-> s, data |-> d]]
  BY <1>1 DEF UpsertGroupWithUnits
<1>3. PICK order \in SetToSeqs(told) :
        PublishGroups(SideChange(g, s) \o EmitIfChanged(g) \o
          [i \in DOMAIN order |->
             [id |-> order[i], group |-> JoinedGroup(order[i])']])
  BY <1>1 DEF UpsertGroupWithUnits
<1>4. \A u \in ids : /\ [group |-> g, data |-> us[u]] \in Unit
                     /\ [group |-> g, data |-> us[u]] # None
  BY StateCacheAssumption DEF Unit
<1>5. [side |-> s, data |-> d] \in Group /\ [side |-> s, data |-> d] # None
  BY StateCacheAssumption DEF Group
<1>6. MapsTypeOK'
  <2>1. units' \in [UnitIds -> Unit \cup {None}]
    BY <1>2, <1>4 DEF MapsTypeOK
  <2>2. groups' \in [GroupIds -> Group \cup {None}]
    BY <1>2, <1>5 DEF MapsTypeOK
  <2>3. \A h \in GroupIds : members[h] \in {None} \cup SUBSET UnitIds
    BY DEF MapsTypeOK
  <2>4. members' \in [GroupIds -> {None} \cup SUBSET UnitIds]
    <3>1. \A h \in GroupIds :
            Unlink(members[h], from(h)) \in {None} \cup SUBSET UnitIds
      BY <2>3, UnlinkType
    <3> HIDE DEF from, others
    <3> QED BY <1>2, <2>3, <3>1
  <2> QED BY <2>1, <2>2, <2>4 DEF MapsTypeOK
<1>7. \A h \in GroupIds :
        MemberIds(h)' = IF h = g THEN ids ELSE MemberIds(h) \ ids
  <2> SUFFICES ASSUME NEW h \in GroupIds
               PROVE  MemberIds(h)' = IF h = g THEN ids ELSE MemberIds(h) \ ids
    OBVIOUS
  <2>1. CASE h = g
    BY <2>1, <1>2, StateCacheAssumption DEF MemberIds
  <2>2. CASE h # g
    <3>1. MemberIds(h) \cap ids = from(h)
      BY MemberIdsType DEF IndexAgrees
    <3>2. CASE h \in others
      <4>1. members[h] \in {None} \cup SUBSET UnitIds
        BY DEF MapsTypeOK
      <4>2. MemberIds(h)' = MemberIds(h) \ from(h)
        BY <2>2, <3>2, <1>2, <4>1, UnlinkType DEF MemberIds, Members
      <4> QED BY <2>2, <3>1, <4>2
    <3>3. CASE h \notin others
      <4>1. MemberIds(h) \cap ids = {}
        BY <2>2, <3>1, <3>3
      <4>2. MemberIds(h)' = MemberIds(h)
        BY <2>2, <3>3, <1>2 DEF MemberIds
      <4> QED BY <2>2, <4>1, <4>2
    <3> QED BY <3>2, <3>3
  <2> QED BY <2>1, <2>2
<1>8. IndexAgrees'
  <2>1. ASSUME NEW u \in UnitIds, NEW h \in GroupIds
        PROVE  u \in MemberIds(h)' <=> units'[u] # None /\ units'[u].group = h
    <3>1. CASE u \in ids
      <4>1. units'[u] = [group |-> g, data |-> us[u]]
        BY <3>1, <1>2
      <4> QED BY <3>1, <4>1, <1>4, <1>7
    <3>2. CASE u \notin ids /\ u \in MemberIds(g)
      <4>1. units'[u] = None
        BY <3>2, <1>2
      <4> QED BY <3>2, <4>1, <1>7 DEF IndexAgrees
    <3>3. CASE u \notin ids /\ u \notin MemberIds(g)
      <4>1. units'[u] = units[u]
        BY <3>3, <1>2
      <4> QED BY <3>3, <4>1, <1>7 DEF IndexAgrees
    <3> QED BY <3>1, <3>2, <3>3
  <2> QED BY <2>1 DEF IndexAgrees
<1>9. \A h \in GroupIds \ ({g} \cup others) : JoinedGroup(h)' = JoinedGroup(h)
  <2> SUFFICES ASSUME NEW h \in GroupIds \ ({g} \cup others)
               PROVE  JoinedGroup(h)' = JoinedGroup(h)
    OBVIOUS
  <2>1. MemberIds(h) \cap ids = {}
    BY MemberIdsType DEF IndexAgrees
  <2>2. MemberIds(h)' = MemberIds(h)
    BY <1>7, <2>1
  <2>3. \A v \in MemberIds(h) : units'[v] = units[v]
    BY <1>2, <2>1, MemberIdsType DEF IndexAgrees
  <2>4. groups'[h] = groups[h]
    BY <1>2 DEF MapsTypeOK
  <2> QED BY <2>2, <2>3, <2>4, UntouchedGroup
<1>10. IsFiniteSet(told)
  BY StateCacheAssumption, FS_Subset
<1>11. /\ order \in Seq(told)
       /\ Len(order) \in Nat /\ DOMAIN order = 1..Len(order)
       /\ \A h \in told : \E i \in DOMAIN order : order[i] = h
       /\ \A i, j \in DOMAIN order : i # j => order[i] # order[j]
  BY <1>10, EnumerationCovers
<1>12. told \subseteq GroupIds \ {g}
  OBVIOUS
<1>13. /\ \A h \in told : JoinedGroup(h)' # JoinedGroup(h) /\ SideKept(h)
       /\ \A h \in GroupIds : h # g /\ h \notin told =>
            JoinedGroup(h)' = JoinedGroup(h)
  BY <1>2, <1>9 DEF SideKept, MapsTypeOK
<1> DEFINE a == SideChange(g, s) \o EmitIfChanged(g)
           b == [i \in DOMAIN order |->
                   [id |-> order[i], group |-> JoinedGroup(order[i])']]
<1> HIDE DEF told
<1>14. /\ a \in Seq(Notice)
       /\ Accounts(a, g, JoinedGroup(g), JoinedGroup(g)')
       /\ \A h \in GroupIds \ {g} : Silent(a, h)
  <2>1. groups'[g] = [side |-> s, data |-> d]
    BY <1>2 DEF MapsTypeOK
  <2> QED BY <1>5, <1>6, <2>1, SideChangeTells
<1>15. /\ b \in Seq(Notice)
       /\ \A h \in told : Accounts(b, h, JoinedGroup(h), JoinedGroup(h)')
       /\ \A h \in GroupIds \ told : Silent(b, h)
  <2>1. \A i \in 1..Len(order) : order[i] \in told
    BY <1>11
  <2>2. \A h \in GroupIds : JoinedGroup(h)' \in Joined \cup {None}
    BY <1>6, JoinedGroupTypeNext DEF JoinedTypeOK
  <2>3. \A i \in 1..Len(order) :
          [id |-> order[i], group |-> JoinedGroup(order[i])'] \in Notice
    BY <2>1, <2>2, <1>12 DEF Notice
  <2>4. /\ b \in Seq(Notice) /\ DOMAIN b = 1..Len(order)
        /\ \A i \in 1..Len(order) :
             b[i].id = order[i] /\ b[i].group = JoinedGroup(order[i])'
    BY <1>11, <2>3
  <2> HIDE DEF b
  <2>5. ASSUME NEW h \in told
        PROVE  Accounts(b, h, JoinedGroup(h), JoinedGroup(h)')
    <3>1. PICK i \in 1..Len(order) : order[i] = h
      BY <1>11
    <3>2. \/ JoinedGroup(h) = None \/ JoinedGroup(h)' = None
          \/ JoinedGroup(h).side = JoinedGroup(h)'.side
      BY <1>6, <1>12, <1>13, JoinedFields, JoinedFieldsNext
      DEF JoinedFieldsOK, SideKept
    <3>3. JoinedGroup(h)' # JoinedGroup(h)
      BY <1>13
    <3> QED BY <1>11, <2>4, <3>1, <3>2, <3>3 DEF Accounts, Once
  <2>6. ASSUME NEW h \in GroupIds \ told PROVE Silent(b, h)
    BY <2>1, <2>4 DEF Silent
  <2> QED BY <2>4, <2>5, <2>6
<1>16. PublishGroups(a \o b)
  BY <1>3
<1> HIDE DEF a, b
<1>17. Covers(a \o b)
  <2>1. a \o b \in Seq(Notice)
    BY <1>14, <1>15
  <2>2. ASSUME NEW h \in GroupIds
        PROVE  Accounts(a \o b, h, JoinedGroup(h), JoinedGroup(h)')
    <3>1. CASE h = g
      BY <3>1, <1>12, <1>14, <1>15, ConcatAccounts
    <3>2. CASE h \in told
      BY <3>2, <1>12, <1>14, <1>15, ConcatAccounts
    <3>3. CASE h # g /\ h \notin told
      <4>1. Accounts(b, h, JoinedGroup(h), JoinedGroup(h)')
        BY <3>3, <1>13, <1>15 DEF Accounts
      <4> QED BY <3>3, <4>1, <1>14, <1>15, ConcatAccounts
    <3> QED BY <3>1, <3>2, <3>3
  <2> QED BY <2>1, <2>2 DEF Covers
<1>18. NoLeakedMemberSet'
  <2>1. groups'[g] # None
    BY <1>2, <1>5 DEF MapsTypeOK
  <2>2. \A h \in GroupIds : /\ members[h] \in {None} \cup SUBSET UnitIds
                            /\ h # g => groups'[h] = groups[h]
    BY <1>2 DEF MapsTypeOK
  <2>3. \A h \in GroupIds : Unlink(members[h], from(h)) # {}
    BY <2>2, UnlinkType
  <2> HIDE DEF from, others
  <2>4. ASSUME NEW h \in GroupIds, h # g, members'[h] = {}
        PROVE  members[h] = {} /\ groups'[h] = groups[h]
    BY <2>2, <2>3, <2>4, <1>2
  <2> QED BY <2>1, <2>4 DEF NoLeakedMemberSet
<1> QED BY <1>6, <1>8, <1>16, <1>17, <1>18 DEF GroupsTold, PublishGroups

-----------------------------------------------------------------------------
(* The inductive invariant. *)

IInv == TypeOK /\ IndexAgrees /\ NoLeakedMemberSet /\ EventsTellCache

LEMMA NumberedType ==
  ASSUME NEW n \in Nat, NEW es \in Seq(Notice)
  PROVE  /\ Numbered(n, es) \in Seq(GroupEvent)
         /\ Len(Numbered(n, es)) = Len(es)
         /\ \A i \in 1..Len(es) :
              /\ Numbered(n, es)[i].sequence = n + i
              /\ Numbered(n, es)[i].id = es[i].id
              /\ Numbered(n, es)[i].group = es[i].group
<1>1. DOMAIN es = 1..Len(es) /\ Len(es) \in Nat
  BY LenProperties
<1>2. ASSUME NEW i \in 1..Len(es)
      PROVE  /\ es[i].id \in GroupIds /\ es[i].group \in Joined \cup {None}
             /\ n + i \in Nat
  <2>1. es[i] \in Notice
    BY ElementOfSeq
  <2> QED BY <2>1 DEF Notice
<1>3. \A i \in 1..Len(es) :
        [sequence |-> n + i, id |-> es[i].id, group |-> es[i].group]
          \in GroupEvent
  BY <1>2 DEF GroupEvent
<1>4. Numbered(n, es) = [i \in 1..Len(es) |->
        [sequence |-> n + i, id |-> es[i].id, group |-> es[i].group]]
  BY <1>1 DEF Numbered
<1> QED BY <1>1, <1>3, <1>4

\* A write that leaves the groups and their channel alone.
GroupsUntouched ==
  /\ UNCHANGED <<units, groups, members, groupUpdates, groupTail,
                 simulationTail>>
  /\ \/ UNCHANGED <<sequence, simulationUpdates>>
     \/ \E st \in SimulationStates : PublishSimulation(sequence + 1, st)

\* A write either tells its changes or leaves the groups alone.
LEMMA WriteTells ==
  ASSUME TypeOK, IndexAgrees, NoLeakedMemberSet, Write
  PROVE  /\ MapsOK'
         /\ GroupsTold \/ GroupsUntouched
<1>1. MapsOK
  BY DEF TypeOK, MapsOK, MapsTypeOK
<1>2. CASE GroupsUntouched
  BY <1>1, <1>2 DEF GroupsUntouched, MapsOK, MapsTypeOK, IndexAgrees,
                    NoLeakedMemberSet, MemberIds
<1>3. CASE \E u \in UnitIds, g \in GroupIds, d \in UnitData : UpsertUnit(u, g, d)
  BY <1>1, <1>3, UpsertUnitTells
<1>4. CASE \E u \in UnitIds : RemoveUnit(u)
  BY <1>1, <1>4, RemoveUnitTells
<1>5. CASE \E g \in GroupIds, s \in Sides, d \in GroupData : UpsertGroup(g, s, d)
  BY <1>1, <1>5, UpsertGroupTells
<1>6. CASE \E g \in GroupIds, s \in Sides, d \in GroupData, ids \in SUBSET UnitIds :
             \E us \in [ids -> UnitData] : UpsertGroupWithUnits(g, s, d, us)
  BY <1>1, <1>6, UpsertGroupWithUnitsTells
<1>7. CASE \E g \in GroupIds : RemoveGroup(g)
  BY <1>1, <1>7, RemoveGroupTells
<1>8. CASE \E i \in SimulationInfos : SetSimulationInfo(i)
  BY <1>2, <1>8 DEF SetSimulationInfo, GroupsUntouched
<1>9. CASE \E st \in SimulationStates : SetSimulationState(st)
  BY <1>2, <1>9 DEF SetSimulationState, GroupsUntouched
<1>10. CASE \E ls \in SUBSET Locations : SetLocations(ls)
  BY <1>2, <1>10 DEF SetLocations, GroupsUntouched
<1>11. CASE Clear
  BY <1>1, <1>11, ClearTells
<1> QED BY <1>3, <1>4, <1>5, <1>6, <1>7, <1>8, <1>9, <1>10, <1>11 DEF Write

LEMMA ToldTells ==
  ASSUME TypeOK, EventsTellCache, GroupsTold
  PROVE  EventsTellCache'
<1>1. PICK es :
        Covers(es) /\ groupUpdates' = groupUpdates \o Numbered(sequence, es)
  BY DEF GroupsTold
<1> DEFINE ns == Numbered(sequence, es)
<1>2. groupUpdates \in Seq(GroupEvent) /\ sequence \in Nat
  BY DEF TypeOK
<1>3. es \in Seq(Notice)
  BY <1>1 DEF Covers
<1>4. /\ ns \in Seq(GroupEvent) /\ Len(ns) = Len(es)
      /\ \A i \in 1..Len(es) : ns[i].id = es[i].id /\ ns[i].group = es[i].group
  BY <1>2, <1>3, NumberedType
<1>5. DOMAIN ns = 1..Len(es) /\ DOMAIN es = 1..Len(es)
  BY <1>3, <1>4, LenProperties
<1> HIDE DEF ns
<1>6. ASSUME NEW g \in GroupIds
      PROVE  Tells(groupUpdates \o ns, g, JoinedGroup(g)')
  <2>1. CASE TellsLast(es, g, JoinedGroup(g)')
    <3>1. TellsLast(ns, g, JoinedGroup(g)')
      BY <2>1, <1>4, <1>5 DEF TellsLast
    <3> QED BY <3>1, <1>2, <1>4, ConcatTells DEF Tells
  <2>2. CASE Silent(es, g) /\ JoinedGroup(g)' = JoinedGroup(g)
    <3>1. Silent(ns, g)
      BY <2>2, <1>4, <1>5 DEF Silent
    <3>2. Tells(groupUpdates, g, JoinedGroup(g))
      BY DEF EventsTellCache
    <3> QED BY <2>2, <3>1, <3>2, <1>2, <1>4, ConcatTells DEF Tells
  <2> QED BY <2>1, <2>2, <1>1, <1>3, AccountsTells DEF Covers
<1> QED BY <1>1, <1>6 DEF EventsTellCache, ns

\* A step that changes neither the maps nor the channel.
LEMMA NothingToTell ==
  ASSUME IndexAgrees, NoLeakedMemberSet, EventsTellCache,
         UNCHANGED <<units, groups, members, groupUpdates>>
  PROVE  IndexAgrees' /\ NoLeakedMemberSet' /\ EventsTellCache'
<1>1. \A g \in GroupIds : MemberIds(g)' = MemberIds(g)
  BY DEF MemberIds
<1>2. \A g \in GroupIds : JoinedGroup(g)' = JoinedGroup(g)
  BY <1>1, UntouchedGroup
<1>3. IndexAgrees'
  BY <1>1 DEF IndexAgrees
<1>4. EventsTellCache'
  BY <1>2 DEF EventsTellCache
<1>5. NoLeakedMemberSet'
  BY DEF NoLeakedMemberSet
<1> QED BY <1>3, <1>4, <1>5

LEMMA InitIInv == Init => IInv
<1> SUFFICES ASSUME Init PROVE IInv
  OBVIOUS
<1>1. TypeOK
  BY DEF Init, TypeOK
<1>2. IndexAgrees /\ NoLeakedMemberSet
  BY StateCacheAssumption DEF Init, IndexAgrees, NoLeakedMemberSet, MemberIds
<1>3. EventsTellCache
  BY DEF Init, EventsTellCache, Tells, Silent, JoinedGroup
<1> QED BY <1>1, <1>2, <1>3 DEF IInv

LEMMA WriteSimulationType ==
  ASSUME TypeOK, Write
  PROVE  /\ simulation_info' \in SimulationInfos \cup {None}
         /\ simulation_state' \in SimulationStates \cup {None}
         /\ locations' \subseteq Locations
<1> USE DEF TypeOK, simulationVars
<1>1. CASE \/ \E u \in UnitIds, g \in GroupIds, d \in UnitData : UpsertUnit(u, g, d)
           \/ \E u \in UnitIds : RemoveUnit(u)
           \/ \E g \in GroupIds, s \in Sides, d \in GroupData : UpsertGroup(g, s, d)
           \/ \E g \in GroupIds, s \in Sides, d \in GroupData, ids \in SUBSET UnitIds :
                \E us \in [ids -> UnitData] : UpsertGroupWithUnits(g, s, d, us)
           \/ \E g \in GroupIds : RemoveGroup(g)
  <2>1. UNCHANGED simulationVars
    BY <1>1 DEF UpsertUnit, RemoveUnit, UpsertGroup, UpsertGroupWithUnits,
                RemoveGroup
  <2> QED BY <2>1
<1>2. CASE \E i \in SimulationInfos : SetSimulationInfo(i)
  BY <1>2 DEF SetSimulationInfo
<1>3. CASE \E st \in SimulationStates : SetSimulationState(st)
  BY <1>3 DEF SetSimulationState
<1>4. CASE \E ls \in SUBSET Locations : SetLocations(ls)
  BY <1>4 DEF SetLocations
<1>5. CASE Clear
  BY <1>5 DEF Clear
<1> QED BY <1>1, <1>2, <1>3, <1>4, <1>5 DEF Write

LEMMA PublishSimulationType ==
  ASSUME TypeOK, NEW n \in Nat, NEW st \in SimulationStates \cup {None},
         PublishSimulation(n, st)
  PROVE  /\ sequence' = n
         /\ simulationUpdates' \in Seq(SimulationEvent)
         /\ Len(simulationUpdates') = Len(simulationUpdates) + 1
<1>1. [sequence |-> n, state |-> st] \in SimulationEvent
  BY DEF SimulationEvent
<1> QED BY <1>1 DEF PublishSimulation, TypeOK

LEMMA WriteType == TypeOK /\ IndexAgrees /\ NoLeakedMemberSet /\ Write => TypeOK'
<1> SUFFICES ASSUME TypeOK, IndexAgrees, NoLeakedMemberSet, Write PROVE TypeOK'
  OBVIOUS
<1>1. MapsOK' /\ (GroupsTold \/ GroupsUntouched)
  BY WriteTells
<1>2. /\ sequence' \in Nat
      /\ groupUpdates' \in Seq(GroupEvent)
      /\ groupTail' \in 0..Len(groupUpdates')
      /\ simulationUpdates' \in Seq(SimulationEvent)
      /\ simulationTail' \in 0..Len(simulationUpdates')
  <2>1. CASE GroupsTold
    <3>1. PICK es :
            /\ Covers(es)
            /\ groupUpdates' = groupUpdates \o Numbered(sequence, es)
            /\ UNCHANGED <<groupTail, simulationTail>>
            /\ \/ /\ sequence' = sequence + Len(es)
                  /\ UNCHANGED simulationUpdates
               \/ PublishSimulation(sequence + Len(es) + 1, None)
      BY <2>1 DEF GroupsTold
    <3>2. /\ Numbered(sequence, es) \in Seq(GroupEvent)
          /\ Len(Numbered(sequence, es)) = Len(es) /\ Len(es) \in Nat
      BY <3>1, NumberedType, LenProperties DEF Covers, TypeOK
    <3>3. /\ groupUpdates' \in Seq(GroupEvent)
          /\ Len(groupUpdates') = Len(groupUpdates) + Len(es)
      <4> DEFINE ns == Numbered(sequence, es)
      <4>1. groupUpdates \in Seq(GroupEvent) /\ groupUpdates' = groupUpdates \o ns
        BY <3>1 DEF TypeOK
      <4>2. ns \in Seq(GroupEvent) /\ Len(ns) = Len(es)
        BY <3>2
      <4> HIDE DEF ns
      <4>3. /\ groupUpdates \o ns \in Seq(GroupEvent)
            /\ Len(groupUpdates \o ns) = Len(groupUpdates) + Len(ns)
        BY <4>1, <4>2, ConcatProperties
      <4> QED BY <4>1, <4>2, <4>3
    <3>4. /\ sequence' \in Nat
          /\ simulationUpdates' \in Seq(SimulationEvent)
          /\ simulationTail' \in 0..Len(simulationUpdates')
      BY <3>1, <3>2, PublishSimulationType DEF TypeOK
    <3>5. groupTail' \in 0..Len(groupUpdates')
      BY <3>1, <3>2, <3>3 DEF TypeOK
    <3> QED BY <3>3, <3>4, <3>5
  <2>2. CASE GroupsUntouched
    <3>1. /\ sequence' \in Nat
          /\ simulationUpdates' \in Seq(SimulationEvent)
          /\ simulationTail' \in 0..Len(simulationUpdates')
      BY <2>2, PublishSimulationType DEF GroupsUntouched, TypeOK
    <3> QED BY <2>2, <3>1 DEF GroupsUntouched, TypeOK
  <2> QED BY <1>1, <2>1, <2>2
<1> QED BY <1>1, <1>2, WriteSimulationType DEF MapsOK, MapsTypeOK, TypeOK

LEMMA NextIInv == IInv /\ [Next]_cacheVars => IInv'
<1> SUFFICES ASSUME IInv, [Next]_cacheVars PROVE IInv'
  OBVIOUS
<1> USE DEF IInv
<1>1. CASE Write
  <2>1. TypeOK' /\ IndexAgrees' /\ NoLeakedMemberSet'
    BY <1>1, WriteType, WriteTells DEF MapsOK
  <2>2. CASE GroupsTold
    BY <2>1, <2>2, ToldTells
  <2>3. CASE GroupsUntouched
    BY <2>1, <2>3, NothingToTell DEF GroupsUntouched
  <2> QED BY <1>1, <2>2, <2>3, WriteTells
<1>2. CASE SendGroupUpdate
  <2>1. TypeOK'
    BY <1>2 DEF SendGroupUpdate, TypeOK, simulationVars
  <2>2. IndexAgrees' /\ NoLeakedMemberSet' /\ EventsTellCache'
    BY <1>2, NothingToTell DEF SendGroupUpdate
  <2> QED BY <2>1, <2>2
<1>3. CASE SendSimulationUpdate
  <2>1. TypeOK'
    BY <1>3 DEF SendSimulationUpdate, TypeOK, simulationVars
  <2>2. IndexAgrees' /\ NoLeakedMemberSet' /\ EventsTellCache'
    BY <1>3, NothingToTell DEF SendSimulationUpdate
  <2> QED BY <2>1, <2>2
<1>4. CASE UNCHANGED cacheVars
  <2>1. TypeOK'
    BY <1>4 DEF cacheVars, TypeOK, simulationVars
  <2>2. IndexAgrees' /\ NoLeakedMemberSet' /\ EventsTellCache'
    BY <1>4, NothingToTell DEF cacheVars
  <2> QED BY <2>1, <2>2
<1> QED BY <1>1, <1>2, <1>3, <1>4 DEF Next

-----------------------------------------------------------------------------
\* Every map, counter and channel keeps its type.
THEOREM TypeCorrect == Spec => []TypeOK
<1>1. IInv => TypeOK
  BY DEF IInv
<1> QED BY InitIInv, NextIInv, <1>1, PTL DEF Spec

\* The membership index agrees with the units after every write, so joining
\* through it never shows a unit in two groups, in none, or after its removal.
THEOREM IndexCorrect == Spec => []IndexAgrees
<1>1. IInv => IndexAgrees
  BY DEF IInv
<1> QED BY InitIInv, NextIInv, <1>1, PTL DEF Spec

\* Whatever moves and removals empty a member set, it stays in the index only
\* while its group is cached.
THEOREM NoMemberSetLeaks == Spec => []NoLeakedMemberSet
<1>1. IInv => NoLeakedMemberSet
  BY DEF IInv
<1> QED BY InitIInv, NextIInv, <1>1, PTL DEF Spec

\* The last event about each group carries its current joined value: no write
\* changes what readers see of a group without telling the subscribers.
THEOREM BroadcastCorrect == Spec => []EventsTellCache
<1>1. IInv => EventsTellCache
  BY DEF IInv
<1> QED BY InitIInv, NextIInv, <1>1, PTL DEF Spec
=============================================================================
