\* Documents read to their end in chunks of any size.
SPECIFICATION FairSpec
CONSTANTS
  Documents <- MCDocuments
  MaxChars = {1, 4, 8}
  MaxBytes = 7
  MaxReads = 7
  None = None
CHECK_DEADLOCK FALSE
INVARIANTS TypeOK CutIsBest
PROPERTIES EveryReadReturns StreamsTheText
