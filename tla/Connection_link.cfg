SPECIFICATION FairSpec
CONSTANTS
  PairingEnabled = TRUE
  SettleWindow = TRUE
  BootHold = TRUE
  DataWatch = TRUE
  ReadyWatch = TRUE
  RecycleLimit = 2
  MaxDiscoveryRetries = 2
  StallCycles = 3
INVARIANTS HoldsKeepLinkDown SubscribedOnce
PROPERTIES SuspendedStaysDown HeldFaultSurvives
PROPERTIES DeafIsRecycled NeverReadyIsNamed Reconnects SuspensionFrees
