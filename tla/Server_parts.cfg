CONSTANTS
  Call = {c1, c2, c3}
  Attempts = 2
  Threshold = 2
  OpenFor = 2
  Probes = 2
  Token = {t1, t2}
  Caller = {r1, r2}
  MaxEntries = 1
  TTL = 2
  Latency = 1
  Horizon = 4
  ExpiryOf <- ExpiryOfToken
  Kid = {k1, k2}
  NoKid = NoKid
  Verifying = {v1, v2}
  Audited = {a1, a2, a3}
  QueueSize = 1
  Row = {1, 2, 3}
  Batch = 2
  AbortN = 2
  MaxUpsets = 3
SPECIFICATION ServerSpec
INVARIANTS ServerTypeOK ProbesBounded KeysOutliveOutage RowsAccounted OutageBarsNothing
PROPERTIES Recovers RevocationWindow MissingIsBarred
