SPECIFICATION Spec
CONSTANTS
  t1 = t1
  t2 = t2
  t3 = t3
  Task = {t1, t2, t3}
  Signal = Signal
  None = None
  MaxChanges = 1
CHECK_DEADLOCK FALSE
INVARIANTS
  CacheIsLatest
  HandlerSawIt
PROPERTIES
  ChangeIsNoticed
