\* A folder of up to five items, paged through while it changes.
SPECIFICATION Spec
CONSTANTS
  Items = {i1, i2, i3, i4, shortcut}
  Unsafe = {shortcut}
  Limits = {1, 2}
  MaxChanges = 3
  MaxPages = 4
  None = None
SYMMETRY ItemSymmetry
CHECK_DEADLOCK FALSE
INVARIANTS TypeOK SkippedAtMostLeft RepeatedAtMostCame StaleMeansTwoLeft
