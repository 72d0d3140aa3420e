SPECIFICATION Safety
CONSTANTS
  NumBlocks = 4
  WaveSize = 2
  RleTables = 1
  LiteralsPerGroup = 3
  NumFrames = 2
  Inputs <- MCInputs
  None = None
  Repeat = Repeat
INVARIANTS
  TypeOK
  HuffmanSlotsDisjoint
  LiteralRangesDisjoint
  LiteralsDecodedOnceWithTheirTable
  FseTablesDisjoint
  SequenceStreamsInOrder
CHECK_DEADLOCK FALSE
