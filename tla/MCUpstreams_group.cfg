SPECIFICATION FairSpec
CONSTANTS
  a1 = a1
  a2 = a2
  g1 = g1
  g2 = g2
  Addresses = {a1, a2}
  InitialServers <- MCInitial
  Configs <- MCConfigs
  Groups = {g1, g2}
  Concurrencies = {0, 3}
  Latencies = {1, 2}
  Failures = {"timeout"}
  latencyBufferSize = 2
  Percentiles = {50, 95}
  MaxUpdates = 1
  MaxAsks = 3
  failThreshold = 1
  cooldown = 1
INVARIANTS FastestAnswer OwnRequests WindowStatistics ReportIncludesProbe
PROPERTIES EveryGroupReturns
