SPECIFICATION Spec
CONSTANTS
  o1 = o1
  bad = bad
  a1 = a1
  a2 = a2
  u1 = u1
  s1 = s1
  h1 = h1
  h2 = h2
  Handlers = {h1, h2}
  Orgs <- MCOrgs
  NoOrg = NoOrg
  AmsOrgs <- MCAmsOrgs
  WellFormed <- MCWellFormed
  Users = {u1}
  Ids = {s1}
  Requests <- MCRequests
  AmsErrors <- MCAmsErrors
  CacheTTL = 1
  MaxCall = 0
SYMMETRY Symmetry
INVARIANTS
  TypeOK
  AssignedToMember
  StatusTells
  ErrorsAreCounted
PROPERTIES
  OwnOrgOnly
  KeepsSeatsContract
