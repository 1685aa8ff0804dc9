SPECIFICATION Spec
CONSTANTS
  d1 = d1  t1 = t1
  Ids = {d1, d2}
  Topics = {t1, t2}
  Workers = {w1, w2}
  Installed <- OneInstalled
  None = None
  Stop = Stop
  MaxOrders = 3
  MaxQueue = 0
  Rounds = {"poller"}
  MaxFaults = 1
INVARIANTS LoadedDevicesAreHeard NoStraySubscriber BrokerFollowsSubscribers
PROPERTY KeepsTable
SYMMETRY Commands
