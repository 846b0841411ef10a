SPECIFICATION FairSpec
CONSTANTS
  Calls = {c1, c2}
  SyncAcked = {c1}
  None = None
CHECK_DEADLOCK FALSE
PROPERTIES
  SendEnds
