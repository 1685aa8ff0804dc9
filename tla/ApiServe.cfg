SPECIFICATION Spec
CONSTANTS
  Conns = {c1, c2}
  Hasty = {c2}
  MaxFrames = 2
  None = None
INVARIANTS ContextIsSafe
PROPERTIES ServesEachOnce CommandsAreAnswered ServerStops
CHECK_DEADLOCK FALSE
