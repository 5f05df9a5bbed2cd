SPECIFICATION Spec
CONSTANTS
  p1 = p1
  p2 = p2
  p3 = p3
  Pods <- OnePod
  SyncPods <- OnePod
  DryRunPods <- None
  Sku <- MCSku
  Configs <- Losing
  Features <- MCFeatures
  PaidFeatureSuffix = "_paid"
  Registered <- MCStale
INVARIANTS
  EnsuresMappings
