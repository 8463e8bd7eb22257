\* Listings of up to three items, whole and bounded, while the items change.
SPECIFICATION FairSpec
CONSTANTS
  Items = {i1, i2, i3}
  PageSize = 2
  PageBudget = 3
  Wanteds = {0, 1, 2}
  Retries = 2
  MaxChanges = 2
  None = None
  Failed = Failed
CHECK_DEADLOCK FALSE
INVARIANTS TypeOK WholeOrRaised FlagsAreTrue
PROPERTIES WalkEnds
