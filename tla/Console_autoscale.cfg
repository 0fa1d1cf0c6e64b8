SPECIFICATION HistorySpec
CONSTANTS
  None = None
  AppNames <- MCAppNames
  Brokers = {"redis"}
  BrokerOf <- MCBrokerOf
  CountsConsumers = {}
  TasksOf <- MCTasksOf
  TaskQueues <- MCTaskQueues
  TaskQueue <- MCTaskQueue
  Queues = {"celery"}
  Workers = {w1}
  AppOf <- MCAppOf
  Consumes <- MCConsumes
  Submissions <- MCSubmissions
  PoolRestarts = {"A"}
  MaxMessages = 1
  MaxPool = 2
PROPERTY AutoscaleAtPoolSize
