SPECIFICATION Spec
CONSTANTS
  MaxTime = 4
  DayOf <- PairsOfQuarters
  DateOf <- OwnDates
  MaxDays = 1
  MaxEnergy = 3
  MaxEnds = 2
  MaxResets = 1
INVARIANTS NothingTwice 
PROPERTIES RowsNeverShrink
CHECK_DEADLOCK FALSE
