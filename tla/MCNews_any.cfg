SPECIFICATION Spec
CONSTANTS
  a = a
  b = b
  Ticker = {a, b}
  Listed = {a}
  MaxDay = 5
  TradingDays = {1, 2, 4, 5}
  FirstDay = 2
  Article <- MCArticle
  Refetch = FALSE
INVARIANTS
  CheckpointCovers
  CountsExact
  Gapless
CHECK_DEADLOCK FALSE
