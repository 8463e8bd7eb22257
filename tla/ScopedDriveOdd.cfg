\* The window open for a tick (TTL 1), and anything may become of the items: calls
\* share a map, take each other's, queue twice, fail and are cancelled; each returns.
SPECIFICATION FairSpec
CONSTANTS
  Tasks = {r1, r2}
  Items = {root, a, doc}
  Folders = {root, a}
  Shortcuts = {}
  Undownloadable = {}
  Root = root
  Locations = {here, away}
  Ops = {"initialize", "authorize_document", "folder_paths", "search"}
  Targets = {doc, root}
  Reinitializes = FALSE
  TTL = 1
  Starts <- SmallStarts
  Moves <- OddMoves
  MaxTime = 1
  MaxChanges = 1
  MaxCalls = 4
  None = None
  root = root
  a = a
  b = b
  doc = doc
  here = here
  away = away
CHECK_DEADLOCK FALSE
INVARIANTS BoundedStaleness
PROPERTIES EveryCallReturns
