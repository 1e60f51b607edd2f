SPECIFICATION FairSpec
CONSTANTS
  f1 = f1 f2 = f2 c1 = c1 c2 = c2 c3 = c3
  None = None Unread = Unread
  Incidents = {i1, i2} Flushers = {k1, k2} Commands = {d1, d2}
  Crashes = {c1, c2} FuncOf <- MCTwoFuncOf GuardOf <- MCTwoGuardOf
  OnRecord = {}
  Funcs = {f1, f2} Sensitive = {f2}
  Routing = {"CRITICAL"}
  Threshold = 2 Window = 2
  MaxClock = 2
CHECK_DEADLOCK FALSE
INVARIANTS TypeOK EscalationExact AlertedOnce
PROPERTY AlertsArrive
