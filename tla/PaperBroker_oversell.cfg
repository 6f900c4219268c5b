SPECIFICATION ScenarioSpec
CONSTANTS
  A = A
  B = B
  buy = buy
  more = more
  exit = exit
  reduce = reduce
  Symbols = {A}
  Decisions = {buy, exit, reduce}
  Days = {1, 2}
  Runs = {"r1", "r2", "m"}
  Actors = {"loop", "monitor"}
  SymbolOf <- MCSymbolOf
  ActionOf <- MCActionOf
  ApprovedQty <- MCApprovedQty
  RunOf <- MCRunOf
  Open <- MCOpen
  Close <- MCClose
  StartingCorpus = 100
  ThreadedCash = {}
  Policies = {"immediate", "next_open"}
  Operations = {"place", "settle"}
  MonitorRuns = {"m"}
  RouteLength = 1
  Pauses = {5}
  MaxTime = 20
  Patient = TRUE
  RateDenominator = 100
  SlippageBps = 5
  BrokerageBps = 10
  ExchangeTxnBps = 1
  TaxLevyBps = 1
  PartialFillThreshold = 2
  FirstFillPct = 30
INVARIANTS
  SellsCovered
CHECK_DEADLOCK FALSE
