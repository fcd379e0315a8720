SPECIFICATION SlicesSpec
CONSTANTS
  q1 = q1
  NoFile = NoFile
  Files = {q1}
  Levels <- MCLevels
  Cells <- MCCells
  Passes = 1
  MaxLines = 3
INVARIANTS
  ContinuationsFollow
