SPECIFICATION Spec
CONSTANTS
  Threads = {t1, t2}
  t1 = t1
  t2 = t2
  NoThread = NoThread
  Never = Never
  Rpm = 2
  MinDelay = 1
  Window = 3
  Threshold = 2
  BreakerTimeout = 3
  Asks = 2
  Retries = 2
  RlDelay = 1
  BackoffCap = 3
  Backoff <- MCBackoff
  Runs = 1
  Epoch = 1
  MaxTime = 3
INVARIANTS
  UsageIsOwn
