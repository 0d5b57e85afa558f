SPECIFICATION FairSpec
CONSTANTS
  p1 = p1
  p2 = p2
  p3 = p3
  d1 = d1
  d2 = d2
  None = None
  KeepSnapshots = 2
  Stock = Stock
  NoHash = NoHash
  Pipe = {p1, p2}
  Droplet = {d1, d2}
  Losses = {"crash", "fetch", "delete", "ssh"}
  TickMayStall = FALSE
INVARIANTS
  KnownDroplet
  OneWorker
  CompletedIsOwn
PROPERTIES
  BillingStops
CHECK_DEADLOCK FALSE
