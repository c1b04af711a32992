SPECIFICATION Spec
CONSTANTS
  Instances = {i1, i2}
  States = {1, 2, 3, 4, 5, 6, 7, 8}
  None = None
  Hooks = {}
  MaxBuilds = 2
  Fuel = 1
  MaxDepth = 3
SYMMETRY Symmetry
VIEW View
INVARIANTS
  TypeOK
  IndicesFit
  MembersSurvive
  StaticsSurvive
CHECK_DEADLOCK FALSE
