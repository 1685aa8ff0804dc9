SPECIFICATION Spec
CONSTANTS
  Workers = {w1, w2}
  Values = {short, long, bad}
  Valid = {short, long}
  Master = long
  None = None
  Interrupted = {"main"}
  MaxOrders = 2
  MaxRestarts = 1
INVARIANTS CheckedValuesOnly ObserversFollow
PROPERTIES PollerStops
CHECK_DEADLOCK FALSE
