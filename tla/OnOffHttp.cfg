CONSTANTS
  c1 = c1
  Clients = {}
  Commander = c1
  Orders <- AnyOrders
  NoThread = NoThread
  Kind = "http"
  Losses = {"request", "event"}
  Plans = {"ON", "OFF", "UNCHANGED"}
  MaxTimeout = 0
  MaxQueue = 1
  MaxRestarts = 1

SPECIFICATION FairSpec
PROPERTIES
  AutoModeConverges
  BeliefRecovers
