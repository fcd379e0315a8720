SPECIFICATION MCSpec
CONSTANTS
  RecursionLimit = 25
  Inputs <- MCInputs
  q1 = q1
  NoFile = NoFile
  Files = {q1}
  Levels <- MCLevels
  Cells <- MCCells
  Passes = 2
  MaxLines = 2
  MaxSources = 3
  QlogFiles <- MCQlogFiles
  flood = flood
  normal = normal
  Labels = {flood, normal, list}
  Unhashable = {list}
  list = list
  Confidences = {0, 9980, 10000, 12500}
  ClassifierVotes = 5
  Functions = {"f1", "f2"}
  MaxFunctions = 4
  Timeouts = {5, 20, 39}
  client = client
  other = other
  server = server
  Sockets = {client, other, server}
  Ends = {"e1", "e2", "e443"}
  QuicEnds = {"e443"}
  FlowLimit = 3
  MaxPackets = 5
INVARIANTS
  PipelineTypeOK
  InPlanOrder
  EndsInReport
  NothingStale
  FusionDelivers
  SlicesTypeOK
  LinesInTheirLevel
  FilesInTheirLevel
  SalvageExact
  AllOrNothing
  MajorityWins
  UnsureNotCertain
  SearchSeesAll
  CleanIsOnDisk
  ResultAgrees
  TimeoutIsTrue
  FlowsAreConversations
  StatisticsOfConnections
