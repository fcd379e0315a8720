SPECIFICATION Spec
CONSTANTS
  so = so
  dylib = dylib
  other = other
  Samples = {so, dylib, other}
  Stem <- MCStem
  Universal = {so, dylib}
  Parallelisms = {1, 2}
  Agents <- MCAgents
SYMMETRY MCSymmetry
INVARIANTS
  BackendsTypeOK
  
  JvmBeforeUse
  ThinFilesAccounted
  ViewsAccounted
