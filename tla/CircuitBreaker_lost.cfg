CONSTANTS
  Call = {c1, c2, c3}
  Attempts = 2
  Threshold = 2
  OpenFor = 2
  Probes = 1
SYMMETRY Callers
SPECIFICATION Spec
INVARIANTS ProbeNotLost
