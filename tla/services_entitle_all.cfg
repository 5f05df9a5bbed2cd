SPECIFICATION Spec
CONSTANTS
  o1 = o1
  h1 = h1
  h2 = h2
  Handlers <- TwoHandlers
  Orgs <- OneOrg
  ValidOrgs <- OneOrg
  BundleInfo <- MCBundleInfo
  Features <- MCFeatures
  PaidFeatureSuffix = "_paid"
  EntitleAll = "true"
  Requests <- MCFiltered
  Holdings <- MCHoldingsTwo
  FailureCodes <- MCFailures
  CacheDuration = 1
  CacheMaxSize = 1
  ClientTimeout = 0
INVARIANTS
  EntitleAllMocksIT
