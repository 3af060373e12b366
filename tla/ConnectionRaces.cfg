CONSTANTS
  publisher = publisher
  Watchers = {g1, g2, g3}
  Consumer = consumer
  Callers = {consumer, publisher}
  Limit <- MCLimit
  DialAttempts = 2
  MaxFaults = 2
CHECK_DEADLOCK FALSE
SPECIFICATION FairConnection
INVARIANTS ConnectionTypeOK OneWatcher UnlockedReadIsSafe AttemptsCostLosses
PROPERTIES ConnIsStable CallsReturn ConsumerReturns CloseReturns
