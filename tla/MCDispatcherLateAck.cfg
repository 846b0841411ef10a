SPECIFICATION Spec
CONSTANTS
  Calls = {c1, c2}
  SyncAcked = {}
  None = None
PROPERTIES
  LateAckRefused
