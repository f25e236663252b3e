SPECIFICATION FairSpec
CONSTANTS
  j1 = j1
  j2 = j2
  Jobs = {j1, j2}
  Targets <- TwoTargets
  Settings <- SomeSettings
  Chunks = 2
  maxHistoryEntries = 2
  MaxCrashes = 1
INVARIANTS WholeDownload RestartAgrees HonestHistory CleanEnd
PROPERTY EveryUpdateEnds
