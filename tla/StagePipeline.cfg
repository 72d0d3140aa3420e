SPECIFICATION Spec
CONSTANTS
  Requests <- MCRequests
  Callers <- MCCallers
  GivenCounts <- MCGivenCounts
  MinCount <- MCMinCount
  BlockBytes = 4
  SeqBytes = 4
  ReuseMemory = {"external"}
  MaxRequests = 2
INVARIANTS
  TypeOK
  NoOverrun
  DecodesWhatWasParsed
  RefusedOnlyWhenShort
  SizedByThisRequest
  BuffersPlaced
