SPECIFICATION FairSpec
CONSTANTS
  Swaps = {s1}
  NoSwap = NoSwap
  Handlers = {h1, h2}
  Reconcilers = {r1}
  Main = Main
  CmdCap = 1
  UpdCap = 1
  MaxChanges = 1
  MaxTracks = 1
  MaxDrops = 1
  MaxRevivals = 1
INVARIANTS TypeOK TrackedIsSubscribed
PROPERTIES StatusIsHandled OnlyJamStopsShutdown
CHECK_DEADLOCK FALSE
