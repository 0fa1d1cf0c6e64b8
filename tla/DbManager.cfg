CONSTANTS
  None = None
  c1 = c1
  c2 = c2
  Clients = {c1, c2}
  Conns = {k1, k2, k3}
  MaxInflight = 2
  MaxCalls = 2
  MaxCrashes = 1
  Workloads <- MCWorkloads
  NoRow = NoRow
  t1 = t1
  t2 = t2
  v1 = v1
  TaskIds = {t1, t2}
  Nodes <- AllNodes
  Values = {v1}
  MaxTime = 2
  Retention = 1
  MaxLog = 2
  Incoming <- Events
  Announced <- AnnouncedEdges
SPECIFICATION ManagerSpec
INVARIANTS
  TypeOK
  LockAndPermits
  InSync
  ResultsAreTrue
  AckedInOrder
  StampsMatchState
  AgeIsLogged
  EdgesFollowEvents
  LinksAreFound
PROPERTIES
  EveryCallReturns
  NoRegression
  ImplementsLifecycle
CHECK_DEADLOCK FALSE
