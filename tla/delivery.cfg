SPECIFICATION FairSpec
CONSTANTS
  None = None
  SourceId = 42161
  Pin <- PinOf
  SourceTokens <- Tokens
  SolanaMint <- Mint
  Feeds <- AllFeeds
  Requests <- AllRequests
  Pollers = {tick, refresh}
  Tick = tick
  Burns = {10}
  Fees = {0, 1}
  MaxMoves = 1
  MaxStops = 2
INVARIANTS TypeOK AcceptedIsClaimable PinnedSource AmountIsDelivered CompletedOnce
PROPERTIES NotAToken OneRoutePerChain DeliveryTraceable CompletedArrives LandedCompletes
CHECK_DEADLOCK FALSE
