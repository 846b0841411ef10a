SPECIFICATION FairSpec
CONSTANTS
  UnitIds = {}
  GroupIds = {g1}
  UnitData = {d1}
  Sides = {blufor}
  ValidSides = {blufor}
  GroupData = {f1}
  SimulationInfos = {}
  SimulationStates = {st1, st2}
  Locations = {}
  None = None
  MaxSequence = 4
  Subscribers = {s1}
  BroadcastCapacity = 2
  QueueCapacity = 1
  Aborted = Aborted
CHECK_DEADLOCK FALSE
INVARIANTS
  NothingMissed
PROPERTIES
  FollowsFeed
  CatchesUp
  LagIsTold
  TaskEnds
