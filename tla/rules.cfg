SPECIFICATION Spec
CONSTANTS
  BundleInfo <- MCBundleInfo
  Features <- MCFeatures
  PaidFeatureSuffix = "_paid"
  EntitleAll = FALSE
  Callers <- MCCallers
  Filters <- MCFilters
INVARIANTS
  QueryIsEnough
  FiltersOnlySelect
PROPERTIES
  MoreFeaturesNeverHurt
