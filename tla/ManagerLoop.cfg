CONSTANTS
  N = 2
  Expected <- MCExpected
  Loads <- MCLoads
  Wirings = {{}, {1, 2}}
  Concurrent = FALSE
  Wants = {"ON", "OFF", "OFFLOAD", "UNCHANGED", "SKIP"}
  Weathers <- MCWeathers
  Outcomes <- MCOutcomes
  Import = 1
  Export = 0
  OffloadMax = 4
  Cooldown = 2
  Base = 0
  BatteryMax = 4
  Metered = TRUE

SPECIFICATION FairSpec
INVARIANT
  DecisionsAreRight
PROPERTIES
  CooldownIsObserved
  ScheduleIsApplied
  
  PriorityIsServed
  BatteryStaysWithinMax
