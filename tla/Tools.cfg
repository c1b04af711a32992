SPECIFICATION MCSpec
CONSTANTS
  Lines <- MCLines
  MaxLines = 3
  MaxEdits = 2
  Files = {"A", "B", "C"}
  Paths = {"a", "b", "c", "alias"}
  FileOf <- MCFileOf
  Limit = 3
  Initializers <- MCInitializers
  Constants <- MCConstants
  Functions = 3
  MaxUses = 2
  LineOf <- MCLineOf
  MaxHeight = 3
INVARIANTS
  EveryTypeOK
  CachesAreRight
  InheritanceIsRight
  DefaultIsNearest
  ReceiversExact
  StopsWhereAsked
  StackIsTrue
CHECK_DEADLOCK FALSE
