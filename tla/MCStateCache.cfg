SPECIFICATION Spec
CONSTANTS
  UnitIds = {u1, u2}
  GroupIds = {g1, g2, g3}
  UnitData = {d1}
  Sides = {blufor, undecodable}
  ValidSides = {blufor}
  GroupData = {f1}
  SimulationInfos = {i1}
  SimulationStates = {st1, st2}
  Locations <- OneLocation
  None = None
  MaxSequence = 4
SYMMETRY Symmetry
INVARIANTS
  TypeOK
  IndexAgrees
  NoLeakedMemberSet
  RepliesAgree
  EventsTellCache
  NoRedundantEvent
  SideChangeAnnounced
  EventUnitsBelong
  SequenceOrdered
  SimulationEventsTellState
