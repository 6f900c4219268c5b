SPECIFICATION AllocationSpec
CONSTANTS
  Stocks <- MCStocks
  Sleeves <- MCSleeves
  Price <- MCPrice
  VolatilityPct <- MCVolatility
  SectorOf <- MCSector
  ClusterOf <- MCCluster
  StartingNav = 5000
  Policy <- MCPolicy
  Position <- MCPosition
  StrategyRank <- MCStrategyRank
  BasketRank <- MCBasketRank
  BuyTargetPct = 45
  SleeveOf <- MCSleeveOf
  CoreUniverse = {"a"}
  Inputs <- MCInputs
  Modes = {"plan"}
  TraderScore <- MCTraderScore
  CoreScore <- MCCoreScore
  PctQuanta = 10000
INVARIANTS
  FreedCashIsBacked
CHECK_DEADLOCK FALSE
