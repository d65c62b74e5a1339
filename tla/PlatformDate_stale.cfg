SPECIFICATION Spec
CONSTANTS
  Screens = {form, header}
  Window = 1
  DayLength = 2
  Horizon = 4
  MaxAhead = 2
  MaxZone = 1
INVARIANT AnswersAreFresh
