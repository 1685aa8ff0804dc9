CONSTANTS
  c1 = c1
  c2 = c2
  Clients = {c1, c2}
  Commander = c1
  Orders <- TimedOrders
  NoThread = NoThread
  Kind = "mqtt"
  Losses = {"request"}
  Plans = {"OFFLOAD"}
  MaxTimeout = 1
  MaxQueue = 1
  MaxRestarts = 0

SPECIFICATION FairSpec
INVARIANTS
  SettledStateMatchesRelay
PROPERTIES
  ActsAtOnce
  AutoEndsOnPurpose
  TimedManualEnds
  ManualComesToRest
  CommandsEnd
