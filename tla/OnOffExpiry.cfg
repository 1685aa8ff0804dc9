CONSTANTS
  c1 = c1
  Clients = {c1}
  Commander = c1
  Orders <- AnyOrders
  NoThread = NoThread
  Kind = "http"
  Losses = {}
  Plans = {"UNCHANGED"}
  MaxTimeout = 1
  MaxQueue = 1
  MaxRestarts = 0

SPECIFICATION Spec
PROPERTIES
  ExpiryOnlyOfTimedManual
