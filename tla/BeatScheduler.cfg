CONSTANTS
  None = None
  NoRow = NoRow
  a1 = a1
  a2 = a2
  Apps = {a1, a2}
  Schedules = {s1, s2}
  Defs = {0, 1, 2, 9}
  AppOf <- TwoApps
  PeriodOf <- Intervals
  Enabled <- AllButZero
  Malformed <- Nines
  RefreshInterval = 3
  MaxSleep = 2
  MaxAge = 6
  MaxEdits = 2
  MaxFailures = 1
  MaxCrashes = 1
SPECIFICATION FairSpec
INVARIANTS
  TypeOK
  NoDoubleRun
  PolledInTime
PROPERTY EveryScheduleRuns
