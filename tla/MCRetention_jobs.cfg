SPECIFICATION FairSpec
CONSTANTS
  MaxTime = 5
  MaxRestarts = 1
  DayLength = 2
  RawDays = 1
  SummaryDays = 2
  Window = 1
INVARIANTS TypeOK CacheIsTrue
PROPERTIES RawKept RollupsKept MinutesAreStored
