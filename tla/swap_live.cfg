SPECIFICATION FairSpec
CONSTANTS
  BridgeKinds <- BridgedOnly
  MaxClaimRetries = 2
  Margin = 1
  Timeout = 1
  MaxHeight = 2
  MaxSubmits = 1
  MaxStoreFaults = 0
  MaxCrashes = 0
  HonestBoltz = TRUE
  SponsorFinal = FALSE
  OtherInstances = TRUE
  RpcLag = TRUE
  LostResponses = FALSE
  ProbeSupported = TRUE
PROPERTIES SpentIsResolved
CHECK_DEADLOCK FALSE
