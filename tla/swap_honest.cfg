SPECIFICATION Spec
CONSTANTS
  BridgeKinds <- DirectAndCctp
  MaxClaimRetries = 2
  Margin = 1
  Timeout = 1
  MaxHeight = 2
  MaxSubmits = 2
  MaxStoreFaults = 1
  MaxCrashes = 1
  HonestBoltz = TRUE
  SponsorFinal = TRUE
  OtherInstances = TRUE
  RpcLag = TRUE
  LostResponses = TRUE
  ProbeSupported = TRUE
INVARIANTS TypeOK CompletionIsDelivery RefundVerdict
PROPERTIES NoRegress ClaimSeenNotFailed ImplementsReverseSwap
CHECK_DEADLOCK FALSE
