SPECIFICATION SchedulingSpec
CONSTANTS
  Names = {n1, n2}
  MaxJobs = 2
  MaxRuns = 2
  SecondsPerMinute = 2
  MinutesPerHour = 2
  HoursPerDay = 3
  DaysPerWeek = 2
  MonthsPerYear = 2
  DaysPerMonth = 3
  FirstDay <- MCFirstDay
  Skipped <- MCSkipped
  Twice <- MCTwice
  Expressions <- MCExpressions
  MaxYears = 2
  StartMonths = 2
INVARIANTS
  ArmedIffScheduled
  SkipNeverOverlaps
  UniqueNamesNoOrphans
  NextRunIsLeast
PROPERTIES
  RunsOnlyWhenScheduled
  Returns
CHECK_DEADLOCK FALSE
