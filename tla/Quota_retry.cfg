CONSTANTS
  a1 = a1  a2 = a2  a3 = a3
  u1 = u1  u2 = u2
  NoAsset = NoAsset
  Nobody = Nobody
  User = {u1, u2}
  OwnerOf <- MCOwner
  Declared <- MCDeclared
  Actual <- MCActual
  Asset = {a3}
  Request = {1}
  UserQuota = 1
  SiteQuota = 0
  UserConcurrent = 0
  SiteConcurrent = 0
SPECIFICATION Spec
PROPERTIES RefusalKeepsFinished
CHECK_DEADLOCK FALSE
