------------------------------ MODULE MCRunAllocation ------------------------------
(* Three stocks: a of the core universe and b of the experimental sleeve share a *)
(* sector, c is of another one.                                                   *)
EXTENDS RunAllocationProperties

MCStocks == {"a", "b", "c"}
MCSleeves == {"core", "active", "diversifying", "experimental"}
Per(x, y, z) == [s \in MCStocks |-> CASE s = "a" -> x [] s = "b" -> y [] s = "c" -> z]

MCPrice == Per(200, 410, 130)
MCVolatility == Per(75, 100, 90)
MCSector == Per("energy", "energy", "tech")
MCCluster == Per("none", "ports", "ports")
MCPosition == Per(1, 2, 3)
MCStrategyRank == Per(2, 1, 3)
MCBasketRank == Per(1, 2, 3)
MCSleeveOf == Per("active", "experimental", "active")
MCTraderScore == Per(78, 90, 90)
MCCoreScore == 88

MCPolicy ==
  [weight |-> [core |-> 20, active |-> 55, diversifying |-> 10, experimental |-> 5],
   stopLoss |-> 6, rejectBelow |-> 60, normalFrom |-> 75, strongFrom |-> 85,
   sectorPenalty |-> 10, clusterPenalty |-> 8, normalRisk |-> 2, strongRisk |-> 3,
   governors |-> {[above |-> 15, action |-> "reduce", keep |-> 50],
                  [above |-> 40, action |-> "freeze", keep |-> 100]},
   sleeveReduceAbove |-> 6, sleeveReduceBy |-> 50, sleeveFreezeAbove |-> 10,
   openRisk |-> 6, totalRisk |-> 8, experimentalRisk |-> 1,
   stockCap |-> 40, hardStockCap |-> 45, sectorCap |-> 55, clusterCap |-> 70, maxOpen |-> 3,
   cashBuffer |-> 10, hardReserve |-> 5, haircut |-> 80, buffer |-> 5, sellCost |-> 1,
   minNotional |-> 150, minDrift |-> 2, driftPct |-> 20, softBorrowing |-> TRUE,
   lenders |-> <<"experimental", "core">>, borrowers |-> <<"active">>, borrowCap |-> 15,
   fallbackMaxOpen |-> 1, fallbackStockCap |-> 30]

MCProposed ==
  {p \in [MCStocks -> Actions \cup {"none"}] :
     p["b"] \in {"none", "BUY", "REDUCE"} /\ p["c"] \in {"none", "BUY"}}

MCHoldings ==
  {Per(0, 0, 0), Per(3, 0, 0), Per(20, 0, 0), Per(3, 5, 0), Per(20, 5, 0), Per(0, 0, 25),
   Per(0, 5, 25)}

MCInputs ==
  {[held |-> h, cash |-> c, unpriced |-> {}, proposed |-> p, weight |-> Per(w, 0, 0),
    monthly |-> m, strength |-> Per(x, "fine", x)] :
     h \in MCHoldings, c \in {1013, 8000}, p \in MCProposed,
     w \in {0, 20}, m \in BOOLEAN, x \in {"fine", "exit"}}
=============================================================================
