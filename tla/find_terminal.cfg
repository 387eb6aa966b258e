SPECIFICATION Spec
CONSTANTS
  BridgeKinds <- CctpOnly
  MaxClaimRetries = 2
  Margin = 1
  Timeout = 1
  MaxHeight = 2
  MaxSubmits = 1
  MaxStoreFaults = 0
  MaxCrashes = 0
  HonestBoltz = TRUE
  SponsorFinal = TRUE
  OtherInstances = FALSE
  RpcLag = FALSE
  LostResponses = FALSE
  ProbeSupported = TRUE
INVARIANT ClaimedNeverFailed
CHECK_DEADLOCK FALSE
