\* Two calls in flight over a cold map; a folder is created between them.
SPECIFICATION Spec
CONSTANTS
  Tasks = {r1, r2}
  Items = {root, a, b, doc}
  Folders = {root, a, b}
  Shortcuts = {}
  Undownloadable = {}
  Root = root
  Locations = {here, away}
  Ops = {"initialize", "get_metadata"}
  Targets = {doc}
  Reinitializes = FALSE
  TTL = 1
  Starts <- MCStarts
  Moves <- MCMoves
  MaxTime = 2
  MaxChanges = 2
  MaxCalls = 3
  None = None
  root = root
  a = a
  b = b
  doc = doc
  here = here
  away = away
SYMMETRY TaskSymmetry
CHECK_DEADLOCK FALSE
INVARIANT EveryDenialIsTrue
