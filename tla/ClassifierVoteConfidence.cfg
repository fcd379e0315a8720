SPECIFICATION VoteSpec
CONSTANTS
  Labels = {flood, normal, list}
  Unhashable = {list}
  list = list
  flood = flood
  normal = normal
  Confidences = {0, 9980, 10000, 12500}
  ClassifierVotes = 5
INVARIANTS
  ConfidenceAsDocumented
