SPECIFICATION Spec
CONSTANTS
  x1 = x1
  x2 = x2
  x3 = x3
  s1 = s1
  s2 = s2
  u1 = u1
  u2 = u2
  o1 = o1
  Run = {x1, x2, x3}
  Scope = {s1, s2}
  ScopeOf <- Scopes
  Organization = {o1}
  Url = {u1, u2}
  ExactUrls <- Targets
  Day = 1
  Cooldown = 1
  Runtime = 1
  MaxRequests = 2
  MaxOrganizations = 1
  MaxEndpoints = 2
  RetryLimit = 0
  Root = {p1, p2}
  NoRun = NoRun
  Pasts <- AnyPast
  MaxTime = 3
  MaxCommits = 4
  MaxIncidents = 1
SYMMETRY RootSymmetry
INVARIANTS
  TypeOK
  OneUnresolved
  SentOnce
  RevokedSilent
  BacksOff
PROPERTIES
  TakesTurns
CHECK_DEADLOCK FALSE
