SPECIFICATION Spec
CONSTANTS
  Client = {c1, c2}
  NoClient = NoClient
  NoRole = NoRole
  Device = Device
  Rival = Rival
  Beside = Beside
  User = User
  Role = {Rival, User}
  Node <- MCNode
  Path <- MCPath
  CurrentClient <- MCCurrentClient
  ReservedNode <- MCReservedNode
  RI <- MCRI
  MaxId = 3
  QueueMax = 1
  MaxPending = 1
  MaxAsked = 0
  PeerCallerIds = {}
  StartsWith <- SameName
  RoleMounts <- MCRoleMounts
  RoleSubs <- MCRoleSubs
  AccessLevel <- MCAccessLevel
  Matches <- MCMatches
CHECK_DEADLOCK FALSE
INVARIANTS
  TablesAreTrue
  MountsDisjoint
PROPERTIES
  OnlyOwnerUnsubscribes
  EofUnregisters
  LsmodTracksTree
