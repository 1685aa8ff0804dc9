CONSTANTS
  Levels = {0, 1, 2, 3}
  Configs <- MCConfigs
  MinGridTime = 0
  Cooldown = 0

SPECIFICATION FairSpec
INVARIANTS
  BandsFollowCharge
PROPERTIES
  LowBatteryIsSpared
  ChargedBatteryIsUsed
  ChargeIsTaken
  OutageUsesBattery
  ManualSourceStays
