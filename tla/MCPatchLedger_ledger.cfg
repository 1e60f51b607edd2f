\* One process at a time: an engine with two threads, or a command.
SPECIFICATION Spec
CONSTANTS
  engine = engine
  command = command
  e1 = e1
  e2 = e2
  c1 = c1
  k1 = k1
  k2 = k2
  k3 = k3
  q1 = q1
  q2 = q2
  Procs = {engine, command}
  Threads = {e1, e2, c1}
  ProcOf <- MCProcOf
  Commands = {command}
  Kinds = {k1, k2, k3}
  Patches = {q1, q2}
  PatchOf <- MCPatchOf
  Unserializable = {k3}
  Alone = TRUE
  None = None
  Torn = Torn
  MaxStarts = 3
  MaxEvents = 4
INVARIANTS
  FilesExact
  TracingKept
PROPERTY ImplementsHistory
CHECK_DEADLOCK FALSE
