SPECIFICATION Spec
CONSTANTS
  peer1 = peer1
  peer2 = peer2
  r1 = r1
  r2 = r2
  Peer = {peer1, peer2}
  RI = {r1, r2}
  Relevant <- MCRelevant
  Period = 1
  Lease = 2
  MaxLogins = 2
INVARIANTS LeasesAreKept
PROPERTIES SubsReachBrokers
