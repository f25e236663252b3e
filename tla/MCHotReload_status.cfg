SPECIFICATION FairSpec
CONSTANTS
  q1 = q1
  s1 = s1
  p1 = p1
  NoThread = NoThread
  Threads = {q1, s1, p1}
  Queries = {q1}
  Statuses = {s1}
  Patches = {p1}
  BadPatches = {}
  Reloads = {}
  DiskFails = TRUE
  Upstreams = 1
PROPERTY EveryoneReturns
CHECK_DEADLOCK FALSE
