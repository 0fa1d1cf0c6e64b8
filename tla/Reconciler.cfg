CONSTANTS
  None = None
  NoRow = NoRow
  TaskIds = {t1, t2, t3}
  Nodes = {t1, t2, t3}
  Values = {}
  MaxTime = 0
  Reports = {"RETRY"}
  Outcomes = {"SUCCESS", "FAILURE"}
  Visits = 2
  MaxRuns = 1
  MaxFailures = 1
  NoWorker = NoWorker
  Hosts = {h1}
  Sizes = {}
  Loads = {1}
  MaxClock = 3
  Retention = 2
  Threshold = 1
  MaxDelay = 1
  MaxQueue = 1
  MaxPending = 2
SPECIFICATION ReconcilerSpec
INVARIANTS
  OutcomesHappened
  DeadShownOffline
  HeartbeatIsLogged
PROPERTY Backfilled
