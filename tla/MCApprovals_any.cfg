SPECIFICATION FairSpec
CONSTANTS
  order = order
  transfer = transfer
  one = one
  None = None
  Request = {order, transfer}
  Listener = {one}
  HonoursExclude = FALSE
  MaxFaults = 1
  MaxClicks = 1
  MaxRestarts = 1
INVARIANTS
  OnePending
  ToldIsTrue
PROPERTIES
  EventuallyShown
  Forgotten
CHECK_DEADLOCK FALSE
