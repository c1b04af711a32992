SPECIFICATION Spec
CONSTANTS
  Instances = {i1}
  States = {1, 2, 3, 4, 5, 6, 7, 8}
  None = None
  Hooks = {"retired"}
  MaxBuilds = 2
  Fuel = 2
  MaxDepth = 2
SYMMETRY Symmetry
VIEW View
INVARIANT StaticsSurvive
CHECK_DEADLOCK FALSE
