SPECIFICATION Spec
CONSTANTS
  w1 = w1 w2 = w2 e1 = e1 e2 = e2
  b1 = b1 b2 = b2 b3 = b3 b4 = b4 b5 = b5 s1 = s1 s2 = s2 s3 = s3
  None = None
  Workers = {w1, w2}
  Endpoints = {e1, e2} Mutating = {e2}
  Bugs = {b1, b2, b3, b4, b5} Sites = {s1, s2, s3}
  BugsOf <- MCBugsOf SiteOf <- MCSiteOf
  Patchable = {b1, b2, b3}
  MaxRequests = 4
CHECK_DEADLOCK FALSE
INVARIANTS TypeOK GuardsStay ReplayAnswersOnce
