CONSTANTS
  a1 = a1  a2 = a2
  w1 = w1  w2 = w2
  e1 = e1  e2 = e2
  h = h  other = other  k = k
  NoAsset = NoAsset
  NoWorker = NoWorker
  Hash = {h, other}
  Key = {k}
  ShaOf <- MCSha
  KeyOf <- MCKey
  Lease = 1
  Retention = 1
  ClaimTimeout = 1
  Asset = {a1}
  Imported = {}
  Entity = {e1}
  Worker = {w1}
  MaxClock = 3
  FaultsUntil = 1
SPECIFICATION FairSpec
PROPERTIES DeletionCompletes ExpiredUploadLeaves 
