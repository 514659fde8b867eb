SPECIFICATION Spec
CONSTANTS
  Hour = 1
  Day = 24
  Offset = 9
  MaxPeriod = 2160
  ResolutionLimit = 2160
  YearSpan = 1000000
  MaxPoints = 500
  MaxAlerts = 100
  MaxShown = 4
  MaxCalls = 2
  Measured <- MCMeasured
  None = None
  Worlds <- MCWorlds
  Asked <- MCAsked
  SuppliedPeriods <- MCSupplied
  Proposals <- MCProposals
INVARIANTS
  ResolvedPeriodsAreAccepted
  OnlyAskedPeriodsAreQueried
  PeriodsAreCalendar
  AnswersRestOnTools
  FallbackSucceeds
CHECK_DEADLOCK FALSE
