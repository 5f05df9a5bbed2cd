SPECIFICATION Spec
CONSTANTS
  wisdom = wisdom
  otherPlan = otherPlan
  a1 = a1
  a2 = a2
  u1 = u1
  u2 = u2
  Absent = Absent
  Blank = Blank
  Subs <- MCSubs
  Attr <- MCAttr
  Plan = wisdom
  AmsOrg = a1
  Statuses <- MCStatuses
  Requests <- MCRequests
  DefaultLimit = 2
  MaxInt = 7
  AmsErrors = {403}
INVARIANTS
  TypeOK
  OnlyMatching
  LinksAreNeighbours
  NoneSkipped
  ShortPageIsTheLast
  NoneTwice
