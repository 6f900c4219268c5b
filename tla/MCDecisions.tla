-------------------------------- MODULE MCDecisions --------------------------------
(* Those who decide, each on an instance of its own: the research and the     *)
(* trader of a symbol, the review of the core basket, the allocation of the   *)
(* run, the risk review with the final approval, and the backtest a strategy  *)
(* is judged by.  A behaviour is one of them at work.                         *)
EXTENDS MCRunAllocation, CoreBasketProperties, RiskApprovalProperties, Research,
        BacktestProperties

(* The debate: three analysts, every way an answer of the model is bound.    *)
MCRoster == <<"technical", "news", "graph">>
MCFindings == [a \in {"technical", "news", "graph"} |->
                 {[score |-> 0 - 120, confidence |-> 40], [score |-> 60, confidence |-> 80],
                  [score |-> 200, confidence |-> 60]}]
MCBoundBy == [technical |-> "rules", news |-> "answer", graph |-> "no_model"]
MCRiskNotes == [technical |-> 2, news |-> 1, graph |-> 2]
MCReportDrafts == {[score |-> 0 - 160, confidence |-> 70], [score |-> 100, confidence |-> 30],
                   [score |-> 300, confidence |-> 50]}
MCScoreDrafts == {0 - 200, 10, 200, 250}
MCTradeDrafts == [action : {"BUY", "HOLD", "NO_TRADE", "REDUCE", "EXIT", "SELL"},
                  target : {0, 10, 150}]
MCSymbolHoldings == {[share |-> 0, price |-> "even"], [share |-> 40, price |-> "even"],
               [share |-> 120, price |-> "even"], [share |-> 40, price |-> "loss"],
               [share |-> 120, price |-> "gain"]}

(* The core basket: four stocks of two sectors, of which three fit in; the   *)
(* graph joins three of them into a cluster that cuts across the sectors, two *)
(* by way of the third.                                                      *)
MCUniverse == {"k", "l", "m", "n"}
Of(k, l, m, n) ==
  [s \in MCUniverse |-> CASE s = "k" -> k [] s = "l" -> l [] s = "m" -> m [] s = "n" -> n]

MCCandidateRank == Of(2, 1, 4, 3)
MCBasketVolatility == Of(2, 3, 5, 4)
MCBasketSector == Of("energy", "tech", "energy", "tech")
MCCompanyEdges == {<<"m", "l">>, <<"m", "n">>}
MCBasketPolicy ==
  [sleeve |-> 397, stockCap |-> 150, hardStockCap |-> 160, sectorCap |-> 240, clusterCap |-> 175,
   minNotional |-> 5, driftPct |-> 20, preferredMax |-> 3]
MCHeldWeights == {Of(0, 0, 0, 0), Of(151, 89, 0, 150), Of(0, 300, 140, 0), Of(153, 0, 87, 152)}
MCBasketInputs ==
  [severe : {{}, {"k"}}, short : {{}, {"m"}, {"l", "m"}}, stale : {{}, {"n"}},
   held : MCHeldWeights, nav : {100, 900}, month : {1, 2}]

(* The risk review: three symbols; x and y are of one industry, x shares a   *)
(* dependency with each of the others, y and z are correlated.               *)
MCNames == {"x", "y", "z"}
Each(x, y, z) == [s \in MCNames |-> CASE s = "x" -> x [] s = "y" -> y [] s = "z" -> z]

MCQuote == Each(7, 10, 13)
MCRiskPolicy ==
  [maxPosition |-> 300, maxOpen |-> 2, dailyLoss |-> 3,
   limit |-> [basic_industry |-> 450, dependency |-> 380, correlated_cluster |-> 400]]
MCCategories == <<"basic_industry", "dependency", "correlated_cluster">>
MCExposureKeys ==
  [basic_industry |-> Each({"power"}, {"power"}, {"metal"}),
   dependency |-> Each({"coal", "rail"}, {"rail"}, {"coal"})]
MCCorrelated == Each({}, {"z"}, {"y"})

MCPortfolios ==
  {[held |-> Each(0, 0, 0), cash |-> 1000], [held |-> Each(13, 0, 9), cash |-> 800],
   [held |-> Each(0, 21, 0), cash |-> 790], [held |-> Each(20, 20, 20), cash |-> 400]}

Aim(a, t) == [action |-> a, target |-> t]
Nothing == [severe |-> {}, inactive |-> {}, stale |-> {}, kill |-> FALSE, loss |-> 0]
Circumstances ==
  {Nothing, [Nothing EXCEPT !.severe = {"x"}], [Nothing EXCEPT !.inactive = {"y"}],
   [Nothing EXCEPT !.stale = {"z"}], [Nothing EXCEPT !.kill = TRUE], [Nothing EXCEPT !.loss = 5]}
MCProposals ==
  [x : {Aim("BUY", 150), Aim("BUY", 350), Aim("EXIT", 0)},
   y : {Aim("BUY", 250), Aim("HOLD", 0), Aim("EXIT", 0), Aim("NO_TRADE", 0)},
   z : {Aim("BUY", 350), Aim("REDUCE", 0)}]
MCRunInputs ==
  {[proposed |-> [s \in MCNames |-> p[s]], severe |-> c.severe, inactive |-> c.inactive,
    stale |-> c.stale, kill |-> c.kill, loss |-> c.loss] : p \in MCProposals, c \in Circumstances}

(* The backtest.  Symbol 1 rises and turns, 2 dips and recovers, 3 stays     *)
(* flat; the last days differ from table to table, some first in a close.      *)
LOCAL Day(open, close) == [open |-> 100 * open, close |-> 100 * close]
LOCAL Opening(closes) == [i \in 1..3 |-> Day(closes[i], closes[i])]
LOCAL Tails ==
  { <<Day(115, 121), Day(120, 90), Day(92, 80), Day(80, 99), Day(101, 130)>>,
    <<Day(115, 121), Day(120, 90), Day(92, 140), Day(139, 100), Day(90, 80)>>,
    <<Day(90, 70), Day(70, 103), Day(101, 111), Day(112, 119), Day(120, 97)>>,
    <<Day(90, 70), Day(70, 103), Day(101, 180), Day(112, 119), Day(120, 97)>> }
MCCandles ==
  {[s \in {1, 2, 3} |->
      CASE s = 1 -> Opening(<<100, 104, 110>>) \o a
        [] s = 2 -> Opening(<<100, 103, 105>>) \o b
        [] OTHER -> [i \in 1..8 |-> Day(33, 33 + (i % 2))]] : a, b \in Tails}
  \cup {[s \in {1, 2, 3} |-> Opening(<<100, 104, 110>>)]}
MCSignalTables ==
  {[s \in {1, 2, 3} |-> [i \in 1..8 |-> NoSignal]],
   [s \in {1, 2, 3} |-> [i \in 1..8 |->
      CASE s = 1 -> [score |-> 0 - 200, confidence |-> 80]
        [] s = 2 /\ i % 2 = 0 -> [score |-> 300, confidence |-> 80]
        [] s = 3 -> [score |-> 500, confidence |-> 10 + 40 * (i % 2)]
        [] OTHER -> NoSignal]]}

MCMinReturn == 0 - 100

-----------------------------------------------------------------------------
VARIABLE part     \* the decider at work

decisionsVars ==
  <<part, allocationVars, basketVars, riskVars, researchVars, backtestVars>>

DecisionsInit ==
  /\ part \in {"research", "allocation", "basket", "approval", "backtest"}
  /\ AllocationInit /\ BasketInit /\ RiskInit /\ ResearchInit /\ BacktestInit
  /\ part # "approval" => money = 1000

DecisionsNext ==
  \/ /\ part = "research" /\ ResearchNext
     /\ UNCHANGED <<part, allocationVars, basketVars, riskVars, backtestVars>>
  \/ /\ part = "allocation" /\ AllocationNext
     /\ UNCHANGED <<part, basketVars, riskVars, researchVars, backtestVars>>
  \/ /\ part = "basket" /\ BasketNext
     /\ UNCHANGED <<part, allocationVars, riskVars, researchVars, backtestVars>>
  \/ /\ part = "approval" /\ RiskNext
     /\ UNCHANGED <<part, allocationVars, basketVars, researchVars, backtestVars>>
  \/ /\ part = "backtest" /\ BacktestNext
     /\ UNCHANGED <<part, allocationVars, basketVars, riskVars, researchVars>>

DecisionsSpec == DecisionsInit /\ [][DecisionsNext]_decisionsVars

(* Every variable has its type. *)
DecisionsTypeOK ==
  /\ AllocationTypeOK /\ BasketTypeOK /\ RiskTypeOK
  /\ ResearchTypeOK /\ BacktestTypeOK
====================================================================================
