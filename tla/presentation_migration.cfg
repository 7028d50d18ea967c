SPECIFICATION RaceSpec
CONSTANTS
  r1 = r1
  r2 = r2
  c1 = c1
  c2 = c2
  v1 = v1
  v2 = v2
  p1 = p1
  p2 = p2
  o1 = o1
  o2 = o2
  o3 = o3
  x1 = x1
  x2 = x2
  none = none
  Run = {r1, r2}
  Candidate = {c1, c2}
  Excludable = {c2}
  Sov = {v1, v2}
  Position = {p1, p2}
  Opportunity = {o1, o2, o3}
  Content = {x1, x2}
  NoOpportunity = none
  SovOf <- Sovs
  PositionOf <- Positions
  SovsOf <- Bindings
  CoverOf <- Bindings
  ContentOf <- Contents
  Assessments <- TheAssessments
  Unsupported = {o3}
  Histories <- Branches
  MaxHead = 3
  MaxRevision = 2
  MaxRecall <- Recalls
  MaxCommands = 3
INVARIANTS
  BlockedCanMigrate
CHECK_DEADLOCK FALSE
