SPECIFICATION ApartSpec
CONSTANTS
  v = v
  w = w
  x = x
  auto = auto
  cli = cli
  chat = chat
  undo = undo
  sweep = sweep
  None = None
  Workspace = {v, w}
  Gate = {}
  Cli = {cli}
  Chat = {chat}
  Undo = {undo}
  Sweeper = sweep
  Sota = {}
  Kept = 3
  MaxHistory = 4
INVARIANT SomewhereToRollBack
