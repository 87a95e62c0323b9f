SPECIFICATION Spec
CONSTANTS
  Types <- MCTypes
  Values <- MCValues
  Descriptions <- MCDescriptions
  Logins <- MCLogins
  Urls <- MCUrls
  Patterns <- MCPatterns
  Paths <- MCPaths
  Packable <- MCPackable
  Journeys <- MCJourneys
  Signals <- MCSignals
  Entries <- MCEntries
  Rights <- MCRights
  Visits <- MCVisits
  Me <- MCMe
  Lower <- MCLower
  Forty <- MCForty
CHECK_DEADLOCK FALSE
INVARIANTS
  TypeTextSurvives
  InflationIsSound
  DescriptionSurvives
  LoginIsExact
  UrlSurvives
  PatternsAreSound
  PackIsExact
  MessagesArrive
  MountIsFree
  AccessHasReason
  TreeIsTold
