SPECIFICATION Spec
CONSTANTS
  whole = whole
  blend = blend
  spare = spare
  Files <- MCFiles
  Archive <- MCArchive
  MayFail <- MCMayFail
  HeapSizes <- MCHeapSizes
  Orders <- MCOrders
  Device4 = TRUE
  Alignment = 2
  BatchSize = 1
  QueueCapacity = 4
INVARIANTS
  TypeOK
  NothingFails
  ShownSettled
PROPERTY
  SetLoads
