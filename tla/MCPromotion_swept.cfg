SPECIFICATION Spec
CONSTANTS
  v = v
  w = w
  x = x
  auto = auto
  cli = cli
  chat = chat
  undo = undo
  sweep = sweep
  None = None
  Workspace = {v, w}
  Gate = {}
  Cli = {}
  Chat = {chat}
  Undo = {undo}
  Sweeper = sweep
  Sota = {}
  Kept = 2
  MaxHistory = 3
INVARIANT PromotedOnDisk
