SPECIFICATION Spec
CONSTANTS
  Page = 2
  MaxWrite = 2
  Zero = Zero
  None = None
  FlagSets = {{"W_BUFFERED"}}
  Providers = {{"write", "truncate"}}
  MaxOps = 3
  MaxData = 3
  MaxLength = 2
  MaxFaults = 0
  MaxOthers = 0
CHECK_DEADLOCK FALSE
PROPERTIES
  AlwaysLocal
