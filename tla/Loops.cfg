\* Two positions, two iterations of the monitor over two market sessions with
\* restarts, and two daily runs over two symbols; no symmetry, for the sake of
\* the liveness properties.
CONSTANTS
  A = A
  B = B
  Symbols = {A, B}
  MaxRuns = 3
  MaxSessions = 2
  AfterClose = {1, 2}
SPECIFICATION LoopFairSpec
INVARIANTS
  LoopTypeOK
  OneActionPerCrossing
  CompletedMeansDecided
  LatestAccountShowsAllFills
PROPERTIES
  IterationEnds
  RunEnds
\* After the last iteration nothing happens any more.
CHECK_DEADLOCK FALSE
