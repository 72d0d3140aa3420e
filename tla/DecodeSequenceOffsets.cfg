SPECIFICATION DecodeSpec
CONSTANTS
  NumStreams = 3
  MaxLength = 2
  MaxTotal = 4
  CodedInputs <- MCInputs
INVARIANTS
  DecodeTypeOK
  SymbolsTrackHistory
  FinalOffsetsCorrect
  DistancesCorrect
CHECK_DEADLOCK FALSE
