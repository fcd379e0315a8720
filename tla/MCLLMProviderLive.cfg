SPECIFICATION FairSpec
CONSTANTS
  Threads = {t1, t2}
  t1 = t1
  t2 = t2
  NoThread = NoThread
  Never = Never
  Rpm = 1
  MinDelay = 1
  Window = 4
  Threshold = 1
  BreakerTimeout = 4
  Asks = 2
  Retries = 2
  RlDelay = 1
  BackoffCap = 1
  Backoff <- MCBackoff
  Runs = 1
  Epoch = 1
  MaxTime = 1
PROPERTIES
  RunsEnd
