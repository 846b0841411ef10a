SPECIFICATION FairSpec
CONSTANTS
  Connections = {k1, k2}
  Called <- AllMethods
CHECK_DEADLOCK FALSE
INVARIANTS
  ServerTypeOK
  StoppedIsStopped
  OwnHandler
PROPERTIES
  GraceHonoured
  CallsReturn
