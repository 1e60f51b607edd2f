SPECIFICATION Spec
CONSTANTS
  t1 = t1 t2 = t2 e1 = e1 e2 = e2 g1 = g1 g2 = g2
  guardable = guardable hopeless = hopeless caught = caught second = second
  None = None Unknown = Unknown
  Threads = {t1, t2}
  Traced = {t1}
  Pooled = FALSE
  Endpoints = {e1, e2}
  Bugs = {guardable, hopeless, caught, second}
  BugsOf <- MCBugsOf
  Funcs = {g1, g2} FuncOf <- MCFuncOf
  Patchable = {guardable, caught, second}
  Effective = {guardable, caught}
  Timeouts = {hopeless}
  Caught = {caught}
  Methods = {"GET", "DELETE"}
  MaxRequests = 3
INVARIANTS TypeOK MutatingOnce Answered 
CHECK_DEADLOCK FALSE
