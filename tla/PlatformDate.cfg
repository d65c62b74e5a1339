SPECIFICATION FairSpec
CONSTANTS
  Screens = {form, header}
  Window = 1
  DayLength = 2
  Horizon = 3
  MaxAhead = 2
  MaxZone = 1
INVARIANTS TypeOK ResolvedIsNeverAhead OnlyAnEnabledRowGoverns ReadsAreShared
PROPERTY EveryScreenIsAnswered
