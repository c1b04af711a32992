SPECIFICATION Spec
CONSTANTS
  Instances = {i1}
  States = {1, 2, 3, 4, 5, 6, 7, 8}
  None = None
  Hooks = {"static", "accessor"}
  MaxBuilds = 3
  Fuel = 1
  MaxDepth = 3
SYMMETRY Symmetry
VIEW View
INVARIANTS
  StaticsSurvive
  DispatchSettled
CHECK_DEADLOCK FALSE
