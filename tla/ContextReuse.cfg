SPECIFICATION Spec
CONSTANTS
  Requests <- MCRequests
  Callers <- ReadbackCallers
  GivenCounts <- MCGivenCounts
  MinCount <- MCMinCount
  BlockBytes = 4
  SeqBytes = 4
  ReuseMemory = {"internal"}
  MaxRequests = 2
INVARIANT ReadbackAllocatesEnough
