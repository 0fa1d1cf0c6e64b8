CONSTANTS
  None = None
  t1 = t1
  t2 = t2
  w1 = w1
  w2 = w2
  Tasks = {t1, t2}
  Workers = {w1, w2}
  WorkersOf <- OneEach
  Exporters = {otel}
  QueueSize = 1
  LoadsOf <- SecondSpeaks
  MaxReceived <- FirstTwice
SPECIFICATION FairSpec
INVARIANTS
  TypeOK
  GaugesMatchTrackers
  NothingLeaks
PROPERTY ListenerGoesOn
CHECK_DEADLOCK FALSE
