SPECIFICATION GroupUpdatesSpec
CONSTANTS
  UnitIds = {}
  GroupIds = {g1, g2}
  UnitData = {d1}
  Sides = {blufor, opfor}
  ValidSides = {blufor}
  GroupData = {f1}
  SimulationInfos = {}
  SimulationStates = {}
  Locations = {}
  None = None
  MaxSequence = 4
  Subscribers = {s1}
  BroadcastCapacity = 2
  QueueCapacity = 1
  Aborted = Aborted
SYMMETRY Symmetry
CHECK_DEADLOCK FALSE
INVARIANTS
  SubscriberTypeOK
  NothingMissed
  FilterRespected
PROPERTIES
  FollowsFeed
