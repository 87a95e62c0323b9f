SPECIFICATION Spec
CONSTANTS
  Handler = {h1, h2}
  Reply = {r1}
  Caller = {k1}
  Idle = Idle
  IdleMax = 2
  MaxPermits = 4
CHECK_DEADLOCK FALSE
INVARIANTS
  PermitsCoverWork
  WaitingIsQueued
PROPERTIES
  SendsAreServed
