SPECIFICATION ScenarioSpec
CONSTANTS
  A = A
  B = B
  buy = buy
  more = more
  exit = exit
  reduce = reduce
  Symbols = {A}
  Decisions = {buy}
  Days = {1, 2}
  Runs = {"r1"}
  Actors = {"loop"}
  SymbolOf <- MCSymbolOf
  ActionOf <- MCActionOf
  ApprovedQty <- MCApprovedQty
  RunOf <- MCRunOf
  Open <- MCOpen
  Close <- MCClose
  StartingCorpus = 60
  ThreadedCash = {}
  Policies = {"immediate"}
  Operations = {"place"}
  MonitorRuns = {}
  RouteLength = 1
  Pauses = {5}
  MaxTime = 5
  Patient = TRUE
  RateDenominator = 100
  SlippageBps = 5
  BrokerageBps = 10
  ExchangeTxnBps = 1
  TaxLevyBps = 1
  PartialFillThreshold = 2
  FirstFillPct = 30
INVARIANTS
  CashFloor
CHECK_DEADLOCK FALSE
