\* Two runs after close, whose orders wait for the next open, and a third one
\* during the day: the first buys, the second settles and queues more, the third
\* settles on top of holdings and executes at once.
CONSTANTS
  A = A
  B = B
  Symbols = {A, B}
  MaxRuns = 3
  AfterClose = {1, 2}
SPECIFICATION Spec
SYMMETRY SymbolSymmetry
INVARIANTS
  TypeOK
  LatestAccountShowsAllFills
  NothingRipeAfterSettlement
  VisiblePositionsAreHeld
  OutcomeAccountsForAll
  ExecutedOrReported
PROPERTIES
  LedgerIsAppendOnly
\* After the last run nothing happens any more.
CHECK_DEADLOCK FALSE
