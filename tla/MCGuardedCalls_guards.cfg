SPECIFICATION Spec
CHECK_DEADLOCK FALSE
CONSTANTS
  Sources <- MCSources
  IntTexts <- MCIntTexts
  DigitTexts <- MCDigitTexts
  Files <- MCFiles
  MaxCalls = 4
  MaxPatches = 3
INVARIANTS StackFits GuardStops CallsPreserved

