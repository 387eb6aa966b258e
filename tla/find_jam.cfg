SPECIFICATION Spec
CONSTANTS
  Swaps = {s1, s2}
  NoSwap = NoSwap
  Handlers = {h1}
  Reconcilers = {r1}
  Main = Main
  CmdCap = 1
  UpdCap = 1
  MaxChanges = 1
  MaxTracks = 2
  MaxDrops = 0
  MaxRevivals = 0
INVARIANT NeverJams
CHECK_DEADLOCK FALSE
