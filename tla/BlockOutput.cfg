SPECIFICATION Spec
CONSTANTS
  LaneCount = 4
  Inputs <- MCInputs
CHECK_DEADLOCK FALSE
INVARIANTS
  TypeOK
  BytesSequential
  FramesComplete
