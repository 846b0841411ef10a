SPECIFICATION FairSpec
CONSTANTS
  UnitIds = {}
  GroupIds = {g1, g2}
  UnitData = {d1}
  Sides = {blufor, opfor}
  ValidSides = {blufor}
  GroupData = {f1}
  SimulationInfos = {}
  SimulationStates = {}
  Locations = {}
  None = None
  MaxSequence = 3
  Subscribers = {s1}
  BroadcastCapacity = 1
  QueueCapacity = 1
  Aborted = Aborted
CHECK_DEADLOCK FALSE
PROPERTIES
  LagIsTold
  TaskEnds
  CatchesUp
