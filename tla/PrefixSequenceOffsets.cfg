SPECIFICATION Spec
CONSTANTS
  NumStreams = 5
  BlockSize = 2
  Firsts = 1
  Inputs <- MCInputs
  Resident = 3
INVARIANTS
  TypeOK
  FullWordsSequential
  WalkComposesSequentially
  StoredOffsetsSequential
PROPERTIES
  AllBlocksEnd
CHECK_DEADLOCK FALSE
