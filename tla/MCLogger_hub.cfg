SPECIFICATION FairSpec
CONSTANTS
  s1 = s1
  s2 = s2
  Streams = {s1, s2}
  Writers = 2
  QueueCap = 2
  StreamCap = 2
  maxSize = 1
  OpenFails = TRUE
  RenameFails = TRUE
  MaxEntries = 3
INVARIANTS Accounted OfferedOnce PanicNeedsRace KeepsNewest
PROPERTIES CloseReturns
CHECK_DEADLOCK FALSE
