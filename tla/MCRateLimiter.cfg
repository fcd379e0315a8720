SPECIFICATION MCSpec
CONSTANTS
  Threads = {t1, t2, t3}
  NoThread = NoThread
  Rpm = 2
  MinDelay = 1
  Window = 3
  Epoch = 3
  MaxTime = 12
  MaxGrants = 6
  t1 = t1
  t2 = t2
  t3 = t3
SYMMETRY Symmetric
CONSTRAINT GrantBound
INVARIANTS
  LockDiscipline
  DequeBounded
PROPERTIES
  KeepsPromise
