SPECIFICATION Spec
CONSTANTS
  a = a
  b = b
  r1 = r1
  r2 = r2
  Share = 2
  OffsetBp = 50
  MinRebalance = 150
  WireDigits = 2
  MaxDigits = 4
  Symbol = {a}
  Run = {r1, r2}
  DryRun = {}
  Lots = 1
  MaxPositions = 1
  MaxDayOrders = 3
  MaxFlattens = 2
  Losses = {"post", "row", "rowreply", "final", "patch"}
  Drained = TRUE
  Overlap = TRUE
INVARIANTS
  NoOrderTwice
  CleanMeansMatch
  FlatStaysFlat
SYMMETRY Symmetric
CHECK_DEADLOCK FALSE
