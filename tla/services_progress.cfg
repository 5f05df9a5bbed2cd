SPECIFICATION FairSpec
CONSTANTS
  o1 = o1
  h1 = h1
  h2 = h2
  Handlers <- TwoHandlers
  Orgs <- OneOrg
  ValidOrgs <- OneOrg
  BundleInfo <- MCBundleInfo
  Features <- MCFeatures
  PaidFeatureSuffix = "_paid"
  EntitleAll = "false"
  Requests <- PlainOnly
  Holdings <- MCHoldingsTwo
  FailureCodes <- MCFailures
  CacheDuration = 1
  CacheMaxSize = 1
  ClientTimeout = 1
PROPERTIES
  EveryRequestEnds
