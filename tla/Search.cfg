\* Searches for one or two hits over two batches of folders.
SPECIFICATION SearchSpec
CONSTANTS
  Items = {i1, i2, i3, bad}
  Unsafe = {bad}
  Batches = 2
  Limits = {1, 2}
  Wanteds = {2, 3}
  PageSize = 2
  PageBudget = 2
  Retries = 0
  MaxChanges = 1
  None = None
  Failed = Failed
SYMMETRY ItemSymmetry
CHECK_DEADLOCK FALSE
INVARIANTS SearchTypeOK SilenceIsEvidence TopHits TruncatedTellsTruth
