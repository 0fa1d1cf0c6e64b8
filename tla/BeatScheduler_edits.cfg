CONSTANTS
  None = None
  NoRow = NoRow
  a1 = a1
  a2 = a2
  Apps = {a1}
  Schedules = {s1}
  Defs = {0, 1, 3, 9}
  AppOf <- OneApp
  PeriodOf <- Intervals
  Enabled <- AllButZero
  Malformed <- Nines
  RefreshInterval = 2
  MaxSleep = 2
  MaxAge = 5
  MaxEdits = 2
  MaxFailures = 0
  MaxCrashes = 0
SPECIFICATION Spec
INVARIANT EditsSurvive
