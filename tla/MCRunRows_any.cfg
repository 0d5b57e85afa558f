SPECIFICATION FairSpec
CONSTANTS
  t1 = t1
  t2 = t2
  h1 = h1
  h2 = h2
  h3 = h3
  None = None
  Thread = {t1, t2}
  Handler = {h1, h2, h3}
  ThreadOf <- MCThreadOf
  MaxLaunches = 2
  MaxRestarts = 1
  MaxMisses = 1
  TickMayStall = FALSE
  Grace = 2
  Symbol <- MCSymbol
  Loads <- MCLoads
  InstructionMax = 5
  DigestMax = 9
  DigestRows = 2
  DirectiveMax = 2
  ColumnMax = 4
  ChunkMax = 2
  ChunksMax = 2
INVARIANTS
  WorkingRunIsRecorded
PROPERTIES
  FinalRowStable
  ReaperSparesLive
  CancelSparesOthers
  DeadRunResolved
