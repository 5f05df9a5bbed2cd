SPECIFICATION FairSpec
CONSTANTS
  p1 = p1
  p2 = p2
  p3 = p3
  Pods <- OneAndIdle
  SyncPods <- OnePod
  DryRunPods <- None
  Sku <- MCSku
  Configs <- OneVersion
  Features <- Mistyped
  PaidFeatureSuffix = "_paid"
  Registered <- MistypedRegistered
PROPERTIES
  SyncEnds
