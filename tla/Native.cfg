SPECIFICATION MCSpec
CONSTANTS
  Locals = {s1, s2}
  Addresses = {1, 2}
  MaxLen = 2
  Threads = {t1, t2}
  Nobody = Nobody
  MaxCompiles = 3
  MaxRestarts = 1
  MaxRuntimes = 4
  MaxDepth = 4
  MaxObjects = 4
  MaxInside = 3
  Listeners = FALSE
INVARIANTS
  EveryTypeOK
  Owned
  ResultIsRight
  NothingLeft
  OneCompiler
  PerfMapIsOurs
  CancelledWhenReplaced
  RunsAlive
  NewIsOwn
PROPERTIES
  CompileReturns
CHECK_DEADLOCK FALSE
