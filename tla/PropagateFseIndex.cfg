SPECIFICATION Spec
CONSTANTS
  NumStreams = 5
  BlockSize = 2
  Repeat = 2
  Inputs <- MCInputs
  Resident = 2
INVARIANTS
  TypeOK
  StoredIndicesSequential
  WalkSkipsOnlyUnnamed
PROPERTIES
  AllBlocksEnd
CHECK_DEADLOCK FALSE
