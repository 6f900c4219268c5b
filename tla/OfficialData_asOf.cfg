SPECIFICATION OfficialSpec
CONSTANTS
  Securities = {"A", "B", "C"}
  SectorOf <- MCSectorOf
  Benchmark = "bench"
  Volatility = "vix"
  NoIndex = "no_index"
  IndexFiles <- MCIndexFiles
  MicroFiles <- MCMicroFiles
  BadFiles = {"malformed"}
  ReturnDays = 1
  LongReturnDays = 2
  DeliveryDays = 2
  SnapshotSets <- MCSnapshotSets
  Return20 <- MCReturn20
  DecisionDays = {2, 3, 4}
  MaxImports = 3
INVARIANTS
  AsOfSeesOnlyPublished
CHECK_DEADLOCK FALSE
