SPECIFICATION Spec
CONSTANTS
  IdleTimeout = 6
  WarningTime = 2
  Throttle = 2
  MaxModals = 3
INVARIANTS TypeOK UnattendedSessionEnds
PROPERTIES OnlyTheIdleAreWarned WarningHasItsTimer
