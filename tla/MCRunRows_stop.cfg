SPECIFICATION Spec
CONSTANTS
  t1 = t1
  t2 = t2
  h1 = h1
  h2 = h2
  h3 = h3
  None = None
  Thread = {t1, t2}
  Handler = {h1, h2, h3}
  ThreadOf <- MCThreadOf
  MaxLaunches = 3
  MaxRestarts = 0
  MaxMisses = 0
  TickMayStall = TRUE
  Grace = 3
  Symbol <- MCSymbol
  Loads <- MCLoads
  InstructionMax = 5
  DigestMax = 9
  DigestRows = 2
  DirectiveMax = 2
  ColumnMax = 4
  ChunkMax = 2
  ChunksMax = 2
PROPERTY StopOnlyOwnUnit
