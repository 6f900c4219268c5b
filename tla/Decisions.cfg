SPECIFICATION DecisionsSpec
CONSTANTS
  Stocks <- MCStocks
  Sleeves <- MCSleeves
  Price <- MCPrice
  VolatilityPct <- MCVolatility
  SectorOf <- MCSector
  ClusterOf <- MCCluster
  StartingNav = 5000
  Policy <- MCPolicy
  Position <- MCPosition
  StrategyRank <- MCStrategyRank
  BasketRank <- MCBasketRank
  BuyTargetPct = 45
  SleeveOf <- MCSleeveOf
  CoreUniverse = {"a"}
  Inputs <- MCInputs
  Modes = {"plan", "policy", "fallback"}
  TraderScore <- MCTraderScore
  CoreScore <- MCCoreScore
  PctQuanta = 10000
  Universe <- MCUniverse
  CandidateRank <- MCCandidateRank
  Volatility <- MCBasketVolatility
  BasketSector <- MCBasketSector
  CompanyEdges <- MCCompanyEdges
  BasketPolicy <- MCBasketPolicy
  BasketInputs <- MCBasketInputs
  Whole = 1000
  MaxReviews = 2
  Names <- MCNames
  Quote <- MCQuote
  RiskPolicy <- MCRiskPolicy
  Categories <- MCCategories
  ExposureKeys <- MCExposureKeys
  Correlated <- MCCorrelated
  RunInputs <- MCRunInputs
  Portfolios <- MCPortfolios
  RiskWhole = 1000
  MaxRiskRuns = 1
  Provider = "lmstudio"
  Roster <- MCRoster
  Findings <- MCFindings
  BoundBy <- MCBoundBy
  RiskNotes <- MCRiskNotes
  ReportDrafts <- MCReportDrafts
  ScoreDrafts <- MCScoreDrafts
  TradeDrafts <- MCTradeDrafts
  Holdings <- MCSymbolHoldings
  MaxShare = 100
  MinShare = 20
  One = 200
  MaxAdjust = 20
  Symbols = {1, 2, 3}
  FastWindow = 1
  SlowWindow = 3
  ReturnWindow = 2
  MinScore = 0
  MinReturn <- MCMinReturn
  GraphWeight = 35
  MinGraphConfidence = 20
  RequireGraphSignal = FALSE
  Candles <- MCCandles
  SignalTables <- MCSignalTables
  StrategyTypes = {"moving_average_crossover", "graph_aware_score", "blended_score"}
  InitialCapital = 100000
  Lookback = 2
  RebalanceEvery = 1
  MaxOpen = 2
  Breadth = 3
  SlippageBps = 100
  CostBps = 50
INVARIANTS
  DecisionsTypeOK
  PlanIsFunded
  EntryCapsKept
  ExecutionFollowsAllocation
  BasketKeepsItsShape
  ApprovalsFollowLimits
  ModelStaysWithinRules
  
CHECK_DEADLOCK FALSE
