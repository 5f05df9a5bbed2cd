SPECIFICATION FairSpec
CONSTANTS
  Environments <- MCEnvironments
  TrueTexts <- MCTrueTexts
  MaxVersion = 3
  Handlers = {h1, h2}
  Codes = {42, 200, 451}
  Writable = {200, 451}
  ClientTimeout = 1
INVARIANTS
  TypeOK
  ServesWithItsKey
  SeatsOnlyIfEnabled
  VerdictIsTheServices
  RecordedAsSent
PROPERTIES
  ServesInTheEnd
  EveryScreeningEnds
