SPECIFICATION Spec
CONSTANTS
  r1 = r1
  r2 = r2
  a1 = a1
  a2 = a2
  a3 = a3
  e1 = e1
  e2 = e2
  Authorization = {a1, a2, a3}
  Endpoint = {e1, e2}
  Plan <- PairAndOne
  b0 = b0
  b1 = b1
  Batch = {b0, b1}
  NoBatch = NoBatch
  Interval = 1
  Runner = {r1, r2}
  Pasts <- AnyPast
  MaxTime = 2
  MaxStarts = 2
  MaxExecutions = 2
  MaxIncidents = 1
SYMMETRY RunnerSymmetry
INVARIANTS
  TypeOK
  BoundOnce
  ManifestSettled
  SealAgrees
CHECK_DEADLOCK FALSE
