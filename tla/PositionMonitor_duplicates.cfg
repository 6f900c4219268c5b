\* An iteration fails between proposal and decision; the next one passes over.
SPECIFICATION Spec
CONSTANTS
  Symbols = {A, B}
  MaxRuns = 3
  MaxSessions = 1
INVARIANTS
  DuplicatesWereDecided
CHECK_DEADLOCK FALSE
