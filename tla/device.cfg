SPECIFICATION MCSpec
CONSTANTS
  Page = 2
  MaxWrite = 2
  Zero = Zero
  None = None
  FlagSets = {{}, {"APPEND"}, {"R_BUFFERED", "W_BUFFERED"}, {"APPEND", "R_BUFFERED", "W_BUFFERED"}}
  Providers = {{"write"}, {"append"}, {"write", "truncate", "append"}}
  MaxOps = 3
  MaxData = 3
  MaxLength = 2
  MaxFaults = 1
  MaxOthers = 1
  Node = {n1, n2}
  Address = {a1, a2}
  NoAddress = NoAddress
  Questions = 2
  MaxLosses = 2
  MaxAttempts = 2
  MaxDiscovers = 1
CHECK_DEADLOCK FALSE
INVARIANTS
  OwnersDiffer
PROPERTIES
  LocalFile
