SPECIFICATION Spec
CONSTANTS
  BridgeKinds <- DirectAndCctp
  MaxClaimRetries = 2
  Margin = 1
  Timeout = 1
  MaxHeight = 2
  MaxSubmits = 2
  MaxStoreFaults = 1
  MaxCrashes = 1
  HonestBoltz = FALSE
  SponsorFinal = FALSE
  OtherInstances = TRUE
  RpcLag = TRUE
  LostResponses = FALSE
  ProbeSupported = TRUE
INVARIANTS RevealNeedsLockup EvidenceIsOfWinner BroadcastIsRecoverable
PROPERTIES ReceiptIsClaim TickNeverClaims
CHECK_DEADLOCK FALSE
