CONSTANTS
  a1 = a1  a2 = a2  a3 = a3
  u1 = u1  u2 = u2
  NoAsset = NoAsset
  Nobody = Nobody
  User = {u1, u2}
  OwnerOf <- MCOwner
  Declared <- MCDeclared
  Actual <- MCFalseActual
  Asset = {a1, a2, a3}
  Request = {1, 2}
  UserQuota = 2
  SiteQuota = 2
  UserConcurrent = 1
  SiteConcurrent = 1
SPECIFICATION FairSpec
INVARIANTS TypeOK BudgetsHold
PROPERTIES RequestsAreAnswered
CHECK_DEADLOCK FALSE
