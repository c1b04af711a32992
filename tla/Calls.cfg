SPECIFICATION Spec
CONSTANTS
  Runtimes = {r1, r2}
  MaxCalls = 3
  MaxFailures = 3
  MaxDepth = 4
  Defaults = 1
SYMMETRY Symmetry
INVARIANTS
  TypeOK
  OwnMessage
  NoGhostMessage
CHECK_DEADLOCK FALSE
