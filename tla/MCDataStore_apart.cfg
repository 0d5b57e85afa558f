SPECIFICATION FairSpec
CONSTANTS
  a = a
  b = b
  c = c
  g = g
  one = one
  two = two
  pit = pit
  alpha = alpha
  beta = beta
  gold = gold
  dollar = dollar
  Ticker = {a, b, c, g}
  MaxDay = 7
  Base = {a, b}
  Thread = {one, two}
  Nightly = Nightly
  Operator = Operator
  Pit = pit
  UniverseOf <- MCNames
  Request <- MCRequest
  Prints <- MCPrints
  Disordered = {b}
  Prompt = {a, c, g}
  FirstDay = 4
  ExitDay = 3
  Exited = a
  MarketHistory = 200
  Overlap = FALSE
  MaxCrashes = 1
  Evaluation = {1, 2, 4, 5, 7}
  AdvWindow = 2
  MinAdv = 2
  MinPrice = 1
  MarketField = {gold, dollar}
  StartOverride <- MCStartOverride
  CoverageMin = 60
  NoStart = NoStart
  Outage = Outage
  None = None
  Partial = Partial
INVARIANTS
  NeverPartial
  CopyRemains
  SpansFollow
  ExtendFits
  ConfirmedIsBuilt
PROPERTIES
  ImplementsStores
  CatchesUp
CHECK_DEADLOCK FALSE
