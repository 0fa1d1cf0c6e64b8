CONSTANTS
  None = None
  NoRow = NoRow
  TaskIds = {t1, t2, t3}
  Nodes = {t1, t2, t3}
  Values = {}
  MaxTime = 0
  Reports = {"RETRY"}
  Outcomes = {"SUCCESS"}
  Visits = 2
  MaxRuns = 1
  MaxFailures = 1
SPECIFICATION FairSpec
PROPERTY EveryTaskBackfilled
