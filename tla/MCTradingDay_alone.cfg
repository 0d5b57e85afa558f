SPECIFICATION Spec
CONSTANTS
  a = a
  b = b
  r1 = r1
  r2 = r2
  Share = 2
  OffsetBp = 50
  MinRebalance = 150
  WireDigits = 2
  MaxDigits = 4
  Symbol = {a, b}
  Run = {r1, r2}
  DryRun = {}
  Lots = 1
  MaxPositions = 2
  MaxDayOrders = 3
  MaxFlattens = 0
  Losses = {"crash", "row", "acct"}
  Drained = FALSE
  Overlap = FALSE
INVARIANTS
  DayOrdersBounded
  BatchFunded
  OneCompleteRow
SYMMETRY Symmetric
CHECK_DEADLOCK FALSE
