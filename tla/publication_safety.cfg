SPECIFICATION FairSpec
CONSTANTS
  w1 = w1
  w2 = w2
  w3 = w3
  c1 = c1
  c2 = c2
  c3 = c3
  Writer = {w1, w2, w3}
  Sha = {c1, c2, c3}
  BasePath = {root}
  Build = {b1}
  Descends <- Fork
  NoRelease = NoRelease
  NoWriter = NoWriter
INVARIANTS
  TypeOK
  PointerComplete
PROPERTIES
  PointerMoves
  LockSettles
CHECK_DEADLOCK FALSE
