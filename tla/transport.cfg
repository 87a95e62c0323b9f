SPECIFICATION MCSpec
CONSTANTS
  codes = codes
  invalid = invalid
  reset = reset
  Message <- MCMessage
  Data <- MCData
  Sort <- MCSort
  Reset = reset
  Transports = {"tcp", "unix", "tty", "ws"}
  ShortSize = 1
  CrcSize = 2
  MaxConns = 2
  MaxSent = 3
  MaxFaults = 1
  Call = {c1, c2}
  Login = login
  Reconnects = 2
  Restores = {TRUE, FALSE}
  MaxLosses = 1
  MaxResets = 1
  MaxFailures = 1
  MaxCancels = 1
CHECK_DEADLOCK FALSE
INVARIANTS
  LossBounded
  LoginIsCurrent
PROPERTIES
  WholeAndInOrder
  EndIsNoticed
  CallsEnd
