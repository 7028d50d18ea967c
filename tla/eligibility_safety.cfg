SPECIFICATION Spec
CONSTANTS
  bachelor = bachelor
  master = master
  vague = vague
  claim = claim
  year = year
  otherYear = otherYear
  future = future
  passed = passed
  failed = failed
  fresh = fresh
  freshAgain = freshAgain
  copy = copy
  enrolled = enrolled
  sample = sample
  Evidence = {bachelor, master, vague, claim, year, otherYear, future, passed, failed, fresh, freshAgain, copy, enrolled, sample}
  Item <- Items
  Cases <- TheCases
  MaxRevision = 2
  MaxAssessments = 2
INVARIANTS
  TypeOK
  DefiniteExactly
  VerdictOfEvidence
  RestsOnDocuments
  AnswersStand
CHECK_DEADLOCK FALSE
