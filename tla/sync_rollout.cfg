SPECIFICATION Spec
CONSTANTS
  p1 = p1
  p2 = p2
  p3 = p3
  Pods <- ThreePods
  SyncPods <- ThreePods
  DryRunPods <- Third
  Sku <- MCSku
  Configs <- Changing
  Features <- MCFeatures
  PaidFeatureSuffix = "_paid"
  Registered <- MCRegistered
SYMMETRY Symmetry
INVARIANTS
  TypeOK
  PaidIsPartOfBase
  DoneMeansInSync
  SettledMeansEntitled
PROPERTIES
  StaysInSync
  KeepsSyncContract
