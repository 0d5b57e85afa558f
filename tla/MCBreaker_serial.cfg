SPECIFICATION BreakerSpec
CONSTANTS
  r1 = r1
  r2 = r2
  Run = {r1, r2}
  MaxEquity = 6
  MaxDrawdown = 20
  Haircut = 50
  WarnZ = 1
  HaltZ = 2
  MddTolerance = 125
  WindowDays = 2
  NoNumber = NoNumber
  Overlap = FALSE
INVARIANTS
  PeakOnFile
  DrawdownStops
