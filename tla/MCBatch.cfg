SPECIFICATION FairSpec
CONSTANTS
  Count = 3
  Parallelisms = {1, 2}
  i1 = i1
  i2 = i2
  i3 = i3
  Imports = {i1, i2, i3}
  Reports <- MCReports
  ImportLimit = 2
  SharedLimit = 1
INVARIANTS
  BatchTypeOK
  EverySampleOnce
  HeardIsResult
  CorrelationExact
PROPERTIES
  KeepsPromise
  BatchEnds
