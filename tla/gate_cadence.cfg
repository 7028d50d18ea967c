SPECIFICATION ReissueSpec
CONSTANTS
  e1 = e1
  e2 = e2
  o1 = o1
  a1 = a1
  a2 = a2
  s1 = s1
  t1 = t1
  t2 = t2
  Authorization = {a1}
  Source = {s1}
  Target = {t1}
  SourceOf <- OneSource
  TargetOf <- SharedTarget
  Executor = {e1,e2}
  Operator = {o1}
  MaxAttempts = 1
  Interval = {1, 3}
  MinInterval = 1
  ApprovedFrom = 0
  EffectiveFrom = {0}
  Skew = 1
  MaxTime = 3
  MaxCommits = 4
SYMMETRY RunSymmetry
INVARIANTS
  CadenceRespected
CHECK_DEADLOCK FALSE
