SPECIFICATION WebSpec
CONSTANTS
  None = None
  NoRow = NoRow
  t1 = t1
  t2 = t2
  t3 = t3
  t4 = t4
  g1 = g1
  w1 = w1
  w2 = w2
  TaskIds = {t1, t2, t3, t4}
  Nodes <- MCNodes
  Values <- MCValues
  MaxTime = 2
  Collate <- MCCollate
  RowId <- MCRowId
  Incoming <- MCIncoming
  Lists <- MCLists
  PageSize = 2
  Retention = 1
  CleanupInterval = 1
  MaxDelay = 1
  MaxStores = 4
  Hour = 1
  Day = 2
  Week = 2
  Tabs = {"A", "B"}
  Paths = {"p", "q", "s"}
  SafePaths = {"p", "q"}
  Accounts = {"ann", "bob"}
  Profile <- MCProfile
  RawConfigs <- MCRawConfigs
  MaxStarts = 3
  AppNames <- MCAppNames
  Brokers = {"redis", ""}
  BrokerOf <- MCBrokerOf
  CountsConsumers = {""}
  TasksOf <- MCTasksOf
  TaskQueues <- MCTaskQueues
  TaskQueue <- MCTaskQueue
  Queues = {"celery", "prio"}
  Workers = {w1, w2}
  AppOf <- MCAppOf
  Consumes <- MCConsumes
  Submissions <- MCSubmissions
  PoolRestarts = {"A"}
  MaxMessages = 1
  MaxPool = 2
  GraphEvents <- MCGraphEvents
  GraphEdges <- MCGraphEdges
  GraphRetention = 1
  MaxGraphLog = 2
  BeatApps = {"A", "B", "D"}
  DjangoApps = {"D"}
  Names = {"n"}
  Keys = {"1"}
  Users = {"u", "v"}
  MaxRequests = 3
  MaxCallFailures = 1
  GraphIds = {t1, t2, t3, t4}
  FailedTask = t1
  Possible <- MCRelations
INVARIANTS
  WebTypeOK
  PagingMissesNothing
  ShownWithinRetention
  PagesAgree
  SignedInWasAllowed
  LandsWhereAsked
  PollsInTurn
  GraphShowsStored
  MovesKeepSchedules
  RetriesAllOnce
  NearestFirst
PROPERTY RetryEnds
