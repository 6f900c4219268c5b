SPECIFICATION StoresSpec
CONSTANTS
  Sources = {"s1", "s2"}
  Keys = {"alpha", "alphaNew", "beta", "gamma"}
  NoCode = "-"
  CodeOf <- MCCodeOf
  Pages <- MCPages
  MinRows = 2
  MaxSyncs = 2
  Tokens = {"t1", "t2", "t3"}
  Masters <- MCMasters
  LastTradingDay = 3
  LookbackDays = 1
  MaxRetries = 1
  Answers <- MCAnswers
  MaxTries = 2
  Instruments <- MCInstruments
  Inside <- MCInside
  NoName = ""
  Files <- MCFiles
  Times = {1, 2}
  MaxFiles = 4
  Securities = {"A", "B", "C"}
  SectorOf <- MCSectorOf
  Benchmark = "bench"
  Volatility = "vix"
  NoIndex = "no_index"
  IndexFiles <- MCIndexFiles
  MicroFiles <- MCMicroFiles
  BadFiles = {"malformed"}
  ReturnDays = 1
  LongReturnDays = 2
  DeliveryDays = 2
  SnapshotSets <- MCSnapshotSets
  Return20 <- MCReturn20
  DecisionDays = {2, 3, 4}
  MaxImports = 3
  Edges = {"peer", "segment"}
  FileOf <- MCFileOf
  ExpectedSign <- MCExpectedSign
  SourceDays <- MCSourceDays
  LastDay = 4
  Windows = {2, 3}
  MinSample = 2
  Comovement <- MCComovement
  StrongAt = 2
  AutoPromote = TRUE
  ReviewsDuringJob = FALSE
  Ids = {"local-paper", "client-a"}
  DefaultProfile = "local-paper"
  DefaultCorpus = 10
  Corpora = {10, 20}
  Cost = 3
  Overlap = FALSE
  MaxOrders = 3
INVARIANTS
  StoresTypeOK
  SymbolsAreHalalOnAPage
  ImportedBarsAreFinal
  ListedCompanySpeaksForItself
  StrongerNeverScoresLower
  OfficialScoreIgnoresToday
  BetterNeverScoresLower
  InferredNeedsPromotion
  TradingRestsOnCorpus
PROPERTIES
  PastSignalsStand
CHECK_DEADLOCK FALSE
