CONSTANTS
  a = a
  b = b
  o1 = o1
  o2 = o2
  wb = wb
  w1 = w1
  w2 = w2
  Targets = {a, b}
  Sources = {o1, o2, wb}
  NoSource = NoSource
  Ozon = {o1, o2}
  InitialSource <- MCInitial
  NoTarget = NoTarget
  Direct = {o1, wb}
  Workers = {w1, w2}
  Tokens = {1, 2, 3, 4}
  NoToken = 0
  MaxAsks = 2
  MaxMishaps = 1
SPECIFICATION FairSpec
INVARIANTS
  RemovedIsLeftAlone
  CheckedOnItsSource
PROPERTIES
  KeepsBeingChecked

CONSTRAINT FewTroubles
