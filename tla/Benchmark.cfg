\* Two benchmarks over up to two cases, reports and baselines in two places.
CONSTANTS
  Cases = {c1, c2}
  Paths = {p1, p2}
  Bounds = {b1, b2}
  Latencies = {5, 8}
  Metrics = {"read"}
  Allowed = 40
  MaxRuns = 2
  MaxEdits = 1
  None = None
  Torn = Torn
SPECIFICATION Spec
SYMMETRY Symmetry
CHECK_DEADLOCK FALSE
INVARIANTS
  TypeOK
  NothingSlipsBy
  ExitSaysRegression
  SuccessiveReportsMatch
