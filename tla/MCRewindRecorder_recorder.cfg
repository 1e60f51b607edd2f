CONSTANTS
  Threads = {w1, w2}
  w1 = w1
  w2 = w2
  r1 = r1
  r2 = r2
  Buffers = {r1, r2}
  Functions = {1, 2, 3}
  SafeName <- MCSafeName
  Containing <- MCContaining
  MaxFrames = 2
  MaxAge = 1
  LastN = 1
  TicksPerSecond = 2
  MaxTicks = 2
  MaxEvents = 3
  MaxDumps = 2
  Nothing = Nothing
  Torn = Torn
SYMMETRY Symmetric
SPECIFICATION RRSpec
INVARIANTS RRTypeOK DumpIsNewest LoadIsLatest
CHECK_DEADLOCK FALSE
