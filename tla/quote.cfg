SPECIFICATION Spec
CONSTANTS
  Bps = 10000
  MinSlippage = 10
  MaxSlippage = 500
  SatsFactor = 10
  FeeDenom = 10000
  BufferBps = 2
  LegacyFeeBps = 3
  MaxU64 = 100000
  MaxU128 = 2000000000
  Unit = 1000
  Venues = {1, 2}
  MaxSearch = 3
  Markets <- AllMarkets
  Routes = {"direct", "cctp", "native", "legacy"}
  Targets = {3001, 12003}
  Invoices = {1601, 3203}
  Slippages = {5, 10, 100}
  MaxAttempts = 2
  MaxMoves = 2
  Allowances = {0, 9000}
INVARIANTS TypeOK FloorIsMet HonestAnswerAccepted SearchIsLeast
PROPERTIES QuietMarketClaims SubmittedIsExecutable
CHECK_DEADLOCK FALSE
