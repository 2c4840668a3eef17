CONSTANTS
  a1 = a1  a2 = a2
  w1 = w1  e1 = e1
  r1 = r1  r2 = r2
  h = h  k = k
  NoAsset = NoAsset
  NoWorker = NoWorker
  Hash = {h}
  Key = {k}
  ShaOf <- MCSha
  KeyOf <- MCKey
  Imported = {}
  Lease = 1
  Retention = 1
  ClaimTimeout = 1
  Entity = {e1}
  Worker = {w1}
  Asset = {a1, a2}
  Request = {r1}
  Kind = {"complete", "stream", "verify"}
  MaxClock = 2
  FaultsUntil = 0
SPECIFICATION FlowFairSpec
INVARIANTS FlowTypeOK CompleteHasBytes
PROPERTIES PublishedStays RetryingOwnerPublishes
