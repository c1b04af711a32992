SPECIFICATION Spec
CONSTANTS
  Coros = {c1, c2}
  States = {s1}
  Signals = {tick}
  Listener = Listener
  None = None
  DropHooks = TRUE
  Fuel = 1
  MaxDepth = 4
INVARIANTS
  DetachBeforeHandlers
CHECK_DEADLOCK FALSE
