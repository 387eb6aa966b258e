SPECIFICATION Spec
CONSTANTS
  Bps = 10000
  MinSlippage = 10
  MaxSlippage = 500
  SatsFactor = 10
  FeeDenom = 10000
  BufferBps = 2
  LegacyFeeBps = 3
  MaxU64 = 100000
  MaxU128 = 2000000000
  Unit = 1000
  Venues = {1, 2}
  MaxSearch = 3
  Markets <- LegacyMarkets
  Routes = {"legacy"}
  Targets = {3001, 12003}
  Invoices = {1601, 3203}
  Slippages = {100}
  MaxAttempts = 1
  MaxMoves = 1
  Allowances = {0, 9000}
INVARIANT NoQuietUnderDelivery
CHECK_DEADLOCK FALSE
