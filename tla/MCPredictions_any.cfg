SPECIFICATION Spec
CONSTANTS
  v = v
  w = w
  Missing = Missing
  Workspace = {v, w}
  First0 = v
  TestEnd = 1
  ConfirmDays = 2
  MaxLag = 2
  Keep = 1
  Absent = Absent
  Bad = Bad
  Artifacts <- MCArtifacts
  Symbol = {1, 2, 3}
  Topk = 2
  NDrop = 1
  FirstDay = 1
  LastDay = 3
  ConfirmIr <- MCConfirmIr
  MaxDay = 5
  MaxRuns = 3
  MaxHands = 1
  MaxAlive = 2
  IrMargin = 105
  MddTolerance = 125
  MinIc = 0
  ConfirmMargin = 100
  MinOverlap = 2
  AllowFirst = FALSE
INVARIANTS
  GatedIsFaithful
  NeverInTurns
PROPERTY CheckedIsTraded
CHECK_DEADLOCK FALSE
