\* Two documents read in chunks, edited and moved, over a cache of one text.
SPECIFICATION Spec
CONSTANTS
  f = f
  Tasks = {r1, r2}
  long = long
  scan = scan
  Docs = {long, scan}
  Folders = {f}
  TTL = 1
  Length <- MCLength
  Oversized <- MCOversized
  Offsets = {0, 1, 2}
  CacheSize = 1
  MaxChanges = 2
  MaxCalls = 5
  None = None
  Malformed = Malformed
SYMMETRY TaskSymmetry
CHECK_DEADLOCK FALSE
INVARIANTS TypeOK NeverStale ServedWithinWindow WholeUnlessEdited
