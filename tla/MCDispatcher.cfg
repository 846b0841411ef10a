SPECIFICATION Spec
CONSTANTS
  Calls = {c1, c2, c3}
  SyncAcked = {}
  None = None
SYMMETRY Symmetry
CHECK_DEADLOCK FALSE
INVARIANTS
  TypeOK
  NoLeak
  CancelledWasDispatched
  AckAgrees
PROPERTIES
  ImplementsContract
  ResetAnswersAll
