SPECIFICATION ApartSpec
CONSTANTS
  v = v
  w = w
  x = x
  auto = auto
  cli = cli
  chat = chat
  undo = undo
  sweep = sweep
  None = None
  Workspace = {v, w}
  Gate = {auto}
  Cli = {cli}
  Chat = {chat}
  Undo = {undo}
  Sweeper = sweep
  Sota = {}
  Kept = 2
  MaxHistory = 4
SYMMETRY Alike
INVARIANTS
  PromotedCanRefresh
PROPERTY ImplementsRegister
