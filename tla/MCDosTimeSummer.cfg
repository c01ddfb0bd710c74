SPECIFICATION Spec

CONSTANTS
  DaysBefore <- ThreeMonths
  DayLength = 4
  Hour = 2
  Summer = {2}
  LastYear = 1
  DosYear = 1
  YearWord = 4
  LastMtime = 50
  Dates <- SomeDates
  Steps = {3, 20}
  MaxLate = 2

PROPERTY
  TimeShown
