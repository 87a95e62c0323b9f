SPECIFICATION Spec
CONSTANTS
  Client = {c1, c2}
  NoClient = NoClient
  NoRole = NoRole
  Device = Device
  Rival = Rival
  Beside = Beside
  User = User
  Role = {Device, User}
  Node <- MCNode
  Path <- MCPathRouting
  CurrentClient <- MCCurrentClient
  ReservedNode <- MCReservedNode
  RI = {}
  MaxId = 3
  QueueMax = 1
  MaxPending = 0
  MaxAsked = 1
  PeerCallerIds <- BehindBroker
  StartsWith <- SameName
  RoleMounts <- MCRoleMounts
  RoleSubs <- MCRoleSubs
  AccessLevel <- MCAccessLevel
  Matches <- MCMatches
SYMMETRY Symmetry
CHECK_DEADLOCK FALSE
INVARIANTS
  TablesAreTrue
  ResponseReachesAsker
