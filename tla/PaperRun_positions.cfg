\* Three runs: buy A; settle A and queue B; settle B and look at A.
CONSTANTS
  A = A
  B = B
  Symbols = {A, B}
  MaxRuns = 3
  AfterClose = {1, 2}
SPECIFICATION Spec
SYMMETRY SymbolSymmetry
INVARIANTS
  PositionAwareAnalysis
CHECK_DEADLOCK FALSE
