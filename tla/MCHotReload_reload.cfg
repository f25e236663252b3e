SPECIFICATION FairSpec
CONSTANTS
  q1 = q1
  q2 = q2
  p1 = p1
  l1 = l1
  NoThread = NoThread
  Threads = {q1, q2, p1, l1}
  Queries = {q1, q2}
  Statuses = {}
  Patches = {p1}
  BadPatches = {p1}
  Reloads = {l1}
  DiskFails = TRUE
  Upstreams = 1
PROPERTY EveryoneReturns
INVARIANT AppliedWhenQuiet
