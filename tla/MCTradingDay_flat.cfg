SPECIFICATION Spec
CONSTANTS
  a = a
  b = b
  r1 = r1
  r2 = r2
  Share = 2
  OffsetBp = 50
  MinRebalance = 150
  WireDigits = 2
  MaxDigits = 4
  Symbol = {a}
  Run = {r1}
  DryRun = {}
  Lots = 2
  MaxPositions = 2
  MaxDayOrders = 4
  MaxFlattens = 1
  Losses = {}
  Drained = FALSE
  Overlap = TRUE
INVARIANT FlatStaysFlat
CHECK_DEADLOCK FALSE
