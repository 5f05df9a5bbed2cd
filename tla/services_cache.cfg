SPECIFICATION Spec
CONSTANTS
  o1 = o1
  h1 = h1
  h2 = h2
  Handlers <- TwoHandlers
  Orgs <- OneOrg
  ValidOrgs <- OneOrg
  BundleInfo <- MCBundleInfo
  Features <- MCFeatures
  PaidFeatureSuffix = "_paid"
  EntitleAll = "false"
  Requests <- MCRequests
  Holdings <- MCHoldings
  FailureCodes <- MCFailures
  CacheDuration = 1
  CacheMaxSize = 0
  ClientTimeout = 1
SYMMETRY Symmetry
INVARIANTS
  TypeOK
  ServicesInv
  FailClosed
  UndegradedIsASnapshot
  LiveWhenForced
  FailuresAreSignalled
PROPERTIES
  KeepsContract
