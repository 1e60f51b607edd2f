CONSTANTS
  b1 = b1
  b2 = b2
  b3 = b3
  b4 = b4
  b5 = b5
  main1 = main1
  lib1 = lib1
  inner1 = inner1
  Bugs = {b1, b2, b3, b4}
  Patchable = {b1, b2, b4}
  Funcs = {main1, lib1}
  FuncOf <- MCFuncOf
  Imported = {lib1}
  Nested = {}
  Ineffective = {b2}
  Retries = 1
  MaxAgain = 1
  MaxRestarts = 3
  NoBug = NoBug
SPECIFICATION FairSpec
CHECK_DEADLOCK FALSE
INVARIANTS RLTypeOK NoRecurrence GivesUpExactly
PROPERTY WatchEnds
