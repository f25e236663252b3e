SPECIFICATION FairSpec
CONSTANTS
  r1 = r1
  r2 = r2
  r3 = r3
  Requests = {r1, r2, r3}
  failThreshold = 2
  cooldown = 2
  MaxTrips = 3
  MaxSteps = 1
INVARIANTS
  ClosedBelowThreshold
  TripAccounting
PROPERTIES
  OpenUntilCooled
  OpenIsProbed
  Recovers
