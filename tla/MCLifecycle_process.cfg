SPECIFICATION FairSpec
CONSTANTS
  r1 = r1
  r2 = r2
  p1 = p1
  l1 = l1
  Restarts = {r1, r2}
  Patches = {p1}
  Reloads = {l1}
  Disabled = {0}
  Unscheduled = {2}
  FileMissing = TRUE
  MaxBoots = 2
  MaxCrashes = 1
  MaxRequests = 2
INVARIANTS AcceptedKept ScheduledOnce PanicExplained
PROPERTIES AccessKept BackInService
