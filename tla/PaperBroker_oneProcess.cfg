SPECIFICATION ScenarioSpec
CONSTANTS
  A = A
  B = B
  buy = buy
  more = more
  exit = exit
  reduce = reduce
  Symbols = {A, B}
  Decisions = {buy, more, exit, reduce}
  Days = {1, 2, 3}
  Runs = {"r1", "r2", "m"}
  Actors = {"loop"}
  SymbolOf <- MCSymbolOf
  ActionOf <- MCActionOf
  ApprovedQty <- MCApprovedQty
  RunOf <- MCRunOf
  Open <- MCOpen
  Close <- MCClose
  StartingCorpus = 100
  ThreadedCash = {150}
  Policies = {"immediate", "next_open"}
  Operations = {"place", "settle", "cancel"}
  MonitorRuns = {"m"}
  RouteLength = 2
  Pauses = {2, 5}
  MaxTime = 20
  Patient = TRUE
  RateDenominator = 100
  SlippageBps = 5
  BrokerageBps = 10
  ExchangeTxnBps = 1
  TaxLevyBps = 1
  PartialFillThreshold = 2
  FirstFillPct = 30
INVARIANTS
  TypeOK
  OrderFillsAgree
  NextOpenFillAtFirstOpen
  SellsCovered
  LatestAccountCurrent
  QueuedOrdersKeepCash
PROPERTIES
  FillsAreFinal
  LeavesQueueOnce
  ImplementsLedger
CHECK_DEADLOCK FALSE
