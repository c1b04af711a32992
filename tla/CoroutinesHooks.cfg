SPECIFICATION Spec
CONSTANTS
  Coros = {c1, c2}
  States = {s1, s2}
  Signals = {tick}
  Listener = Listener
  None = None
  DropHooks = TRUE
  Fuel = 1
  MaxDepth = 4
SYMMETRY Symmetry
INVARIANTS
  NoLostWakeup
  NoStaleResume
  OneActivation
CHECK_DEADLOCK FALSE
