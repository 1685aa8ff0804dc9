SPECIFICATION Spec
CONSTANTS
  d1 = d1  t1 = t1
  Ids = {d1}
  Topics = {t1}
  Workers = {w1}
  Installed <- OneInstalled
  None = None
  Stop = Stop
  MaxOrders = 1
  MaxQueue = 1
  Rounds = {"syncer"}
  MaxFaults = 0
INVARIANT DispatcherSurvives
