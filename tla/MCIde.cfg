\* IDE driver with a controller that never reports an error
CONSTANTS
  b1 = b1
  b2 = b2
  b3 = b3
  v1 = v1
  v2 = v2
  NoBuf = NoBuf
  Bufs <- MCBufs
  Vals <- MCVals
  DiskErrors = FALSE
SPECIFICATION FairSpec
INVARIANTS
  TypeOK
  DiskServesHead
  QueueMatchesSleepers
  ValidIsSynced
PROPERTIES
  RequestCompletes
