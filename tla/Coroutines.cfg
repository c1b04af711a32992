SPECIFICATION FairSpec
CONSTANTS
  Coros = {c1, c2}
  States = {s1}
  Signals = {tick}
  Listener = Listener
  None = None
  DropHooks = FALSE
  Fuel = 1
  MaxDepth = 6
INVARIANTS
  TypeOK
  CompletedOnce
  NothingLeftBehind
  Reachable
  NoLostWakeup
  NoStaleResume
  OneActivation
  CancellationSealed
PROPERTIES
  OutcomeFinal
  ClaimsHonoured
  Implements
CHECK_DEADLOCK FALSE
