SPECIFICATION Spec
CONSTANTS
  t1 = t1 t2 = t2 t3 = t3 f1 = f1 f2 = f2 k1 = k1 k2 = k2
  None = None
  Threads = {t1, t2, t3}
  Funcs = {f1}
  Keys = {k1}
  KeyOf <- JustF
  MaxPatches = 3
INVARIANTS TypeOK SourceOnlyInShadow SwapLeavesNoTrace
