SPECIFICATION Spec
CONSTANTS
  Requests <- MCRequests
  Callers <- FrameInfoCallers
  GivenCounts <- MCGivenCounts
  MinCount <- MCMinCount
  BlockBytes = 4
  SeqBytes = 4
  ReuseMemory = {}
  MaxRequests = 2
INVARIANT PredicationGuardsShortMemory
