SPECIFICATION ServiceSpec
CONSTANTS
  g1 = g1
  g2 = g2
  t1 = t1
  UnitIds = {}
  GroupIds <- OneGroup
  UnitData = {d1}
  Sides = {blufor}
  ValidSides = {blufor}
  GroupData = {f1}
  SimulationInfos = {}
  SimulationStates = {}
  Locations = {}
  None = None
  MaxSequence = 3
  Strings <- TwoNames
  Empty = Empty
  Unset = Unset
  CommandTargets = {t1}
  Waypoints = {}
  Calls = {c1}
  SyncAcked = {}
  Requests <- OneRequest
PROPERTIES
  DispatchedGroupKnown
