SPECIFICATION QlogSpec
CONSTANTS
  MaxSources = 2
  QlogFiles <- MCQlogFiles
INVARIANTS
  OnlyMalformedLost
