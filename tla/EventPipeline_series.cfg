CONSTANTS
  None = None
  t1 = t1
  t2 = t2
  w1 = w1
  w2 = w2
  Tasks = {t2}
  Workers = {w1, w2}
  WorkersOf <- OneEach
  Exporters = {prometheus}
  QueueSize = 2
  LoadsOf <- SecondSpeaks
  MaxReceived <- Once
SPECIFICATION Spec
INVARIANT NoneShownPrefetched
CHECK_DEADLOCK FALSE
