SPECIFICATION Spec
CONSTANTS
  l1 = l1
  l2 = l2
  l3 = l3
  v1 = v1
  v2 = v2
  m1 = m1
  m2 = m2
  m3 = m3
  empty = empty
  closed = closed
  other = other
  broken = broken
  Locator = {l1, l2, l3}
  Vacancy = {v1, v2}
  Page = {m1, m2, m3, empty, closed, other, broken}
  Kind <- KindOf
  VacanciesOf <- Listed
  NoPage = NoPage
  Endpoints <- Plans
  Pasts <- Known
  MaxPages = 3
  Budget = 4
  RetryLimit = 1
INVARIANTS
  TypeOK
  Bounded
  TargetsComplete
  StopExplained
CHECK_DEADLOCK FALSE
