SPECIFICATION Spec
CONSTANTS
  Kinds = {"timerange", "hws", "temperature", "cmv"}
  Start = 5
  MaxTime = 12
  Forced <- EarlyForce
  Offload <- MidOffload
  Remainder <- LateRemainder
  MinOn = 2
  MaxOn = 3
  MinOff = 1
  MinOnTime = 3
  MinOnForLast = 3
  Retention = 5
  MaxDisturbances = 2
INVARIANTS OnTimeIsCounted RemainderIsMade MaxOnIsObserved
PROPERTIES MinOnIsKept
CHECK_DEADLOCK FALSE
