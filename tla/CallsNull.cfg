SPECIFICATION Spec
CONSTANTS
  Runtimes = {r1}
  MaxCalls = 3
  MaxFailures = 3
  MaxDepth = 5
  Defaults = 1
SYMMETRY Symmetry
INVARIANT NoNullSuccess
CHECK_DEADLOCK FALSE
