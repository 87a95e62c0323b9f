SPECIFICATION Spec
CONSTANTS
  t1 = t1
  t2 = t2
  Task = {t1, t2}
  Signal = Signal
  None = None
  MaxChanges = 1
CHECK_DEADLOCK FALSE
INVARIANTS
  AlwaysLatest
