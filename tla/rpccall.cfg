SPECIFICATION Spec
CONSTANTS
  Call = {k1}
  NoCall = NoCall
  Task = {t1, t2}
  NoTask = NoTask
  MaxRid = 2
  MaxFaults = 2
CHECK_DEADLOCK FALSE
INVARIANTS
  RegisteredIsCurrent
  WaitingIsReachable
PROPERTIES
  CallsEnd
