CONSTANTS
  None = None
  NoRow = NoRow
  a1 = a1
  a2 = a2
  Apps = {a1}
  Schedules = {s1}
  Defs = {3}
  AppOf <- OneApp
  PeriodOf <- Intervals
  Enabled <- AllButZero
  Malformed <- Nines
  RefreshInterval = 2
  MaxSleep = 3
  MaxAge = 7
  MaxEdits = 1
  MaxFailures = 0
  MaxCrashes = 0
SPECIFICATION FairSpec
PROPERTY EveryScheduleRuns
