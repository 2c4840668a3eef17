CONSTANTS
  k1 = k1  k2 = k2
  b1 = b1  b2 = b2
  s1 = s1  s2 = s2
  Key = {k1, k2}
  Bytes = {b1, b2}
  Sweeper = {s1, s2}
  NoKey = NoKey
  NoBytes = NoBytes
  Retention = 2
  DueLimit = 1
  MaxFaults = 2
SPECIFICATION SceneSpec
INVARIANTS TypeOK MoverAlone QuarantinedIsThere
PROPERTIES SweepKeepsBytes 
