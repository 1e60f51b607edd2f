SPECIFICATION Spec
CONSTANTS
  f1 = f1 f2 = f2 f3 = f3 n1 = n1 n2 = n2 l1 = l1 l2 = l2 s1 = s1 s2 = s2
  p1 = p1 p2 = p2 t1 = t1 t2 = t2 t3 = t3
  None = None Torn = Torn Absent = Absent
  Procs = {p1, p2}
  Workers = {t1, t2, t3}
  ProcOf <- MCProcOf
  Funcs = {f1, f2, f3}
  Internal = {f3}
  Sources = {s1, s2} Source <- MCSource
  Names = {n1, n2} Name <- MCName
  Files = {l1, l2} File <- MCFile
  Matching <- MCMatching
  Kin <- MCKin
  KeyExists = FALSE
  MaxSaves = 2 MaxLoads = 1 MaxRollbacks = 1 MaxCrashes = 1
SYMMETRY ThreadsAlike
INVARIANTS TypeOK CleanSaveLoads RollbackErases
PROPERTIES ImplementsCache
CHECK_DEADLOCK FALSE
