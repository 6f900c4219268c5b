------------------------------ MODULE CoreBasket ------------------------------
(***************************************************************************)
(* The review of the core basket (portfolio/core_shariah_basket.py): the   *)
(* sleeve's share of the portfolio is poured over the best ranked stocks   *)
(* in inverse proportion to their volatility, round after round, until it  *)
(* is used up or every stock is at its cap; caps of sectors and clusters   *)
(* scale groups down, targets too small to trade are dropped, and a gate   *)
(* decides whether the difference to what is held is traded.  The gate     *)
(* remembers the last review that traded, whatever became of its trades.   *)
(* Weights are counted in the steps they are rounded to; Whole is 100 %.   *)
(***************************************************************************)
EXTENDS Decimals, FiniteSets, FiniteSetsExt, Graphs

CONSTANTS
  Universe,         \* stocks of the core universe
  CandidateRank,       \* CandidateRank[s]: by rank score, 1 is best
  Volatility,       \* Volatility[s]: realized volatility, in steps above zero
  BasketSector,     \* sector of each stock, "none" if the graph names none
  CompanyEdges,     \* pairs of stocks with an active edge between them
  BasketPolicy,     \* [sleeve, stockCap, hardStockCap, sectorCap, clusterCap: weights,
                    \*  minNotional: amount, driftPct: percent, preferredMax: number of stocks]
  BasketInputs,     \* what reviews find: [severe, short, stale: stocks,
                    \*  held: weights, nav, month]
  Whole,
  MaxReviews        \* bound on the number of reviews

(* _candidate_score floors the volatility above zero; the policy is         *)
(* validated when it is loaded; positions are long, and the value of the    *)
(* portfolio is positive.                                                   *)
ASSUME BasketAssumption ==
  /\ IsFiniteSet(Universe) /\ Volatility \in [Universe -> Nat \ {0}]
  /\ {BasketPolicy.sleeve, BasketPolicy.stockCap, BasketPolicy.hardStockCap,
      BasketPolicy.sectorCap, BasketPolicy.clusterCap, BasketPolicy.minNotional} \subseteq Nat
  /\ Whole \in Nat
  /\ \A in \in BasketInputs :
       in.held \in [Universe -> Nat] /\ in.nav \in Nat \ {0} /\ in.month \in Nat

VARIABLES
  basketStage,      \* "idle", "rounds", "sectors", "clusters", "tiny", "decide"
  found,            \* the input of the review
  chosen,           \* stocks that have a target
  weights,          \* target weight of each stock
  remaining,        \* weight not yet poured
  uncapped,         \* stocks below their cap
  lastMonth,        \* month of the latest review that let trades through, 0 if none
  trades,           \* approved difference of each stock
  reviews           \* number of reviews begun

basketVars ==
  <<basketStage, found, chosen, weights, remaining, uncapped, lastMonth, trades, reviews>>

WeightOf(S, f) == SumOver(f, S)
Smallest(a, b) == IF a < b THEN a ELSE b
Magnitude(n) == IF n < 0 THEN 0 - n ELSE n
NoWeights == [s \in Universe |-> 0]

(* Proportional to 1 / volatility. *)
InverseVolatility == [s \in Universe |-> ProductOver(Volatility, Universe \ {s})]

BasketInit ==
  /\ basketStage = "idle"
  /\ found = [severe |-> {}, short |-> {}, stale |-> {}, held |-> NoWeights, nav |-> 1,
              month |-> 0]
  /\ chosen = {} /\ weights = NoWeights /\ remaining = 0 /\ uncapped = {}
  /\ lastMonth = 0 /\ trades = NoWeights /\ reviews = 0

(* _connected_components over the active edges; a stock on its own is in no *)
(* cluster.                                                                 *)
ConnectedComponent(s) ==
  LET graph == [node |-> Universe, edge |-> CompanyEdges \cup {<<e[2], e[1]>> : e \in CompanyEdges}]
  IN  {t \in Universe : ConnectionsIn(graph)[s, t]}
BasketCluster ==
  [s \in Universe |-> IF ConnectedComponent(s) = {s} THEN "none"
                      ELSE CHOOSE t \in ConnectedComponent(s) : TRUE]

(* A stock with a severe event, a short history or an old last candle is    *)
(* not scored.                                                              *)
Scorable(in) == Universe \ (in.severe \cup in.short \cup in.stale)

(* _select_diversified: the best candidates, no more than preferred. *)
Selected(C) ==
  {s \in C : Cardinality({t \in C : CandidateRank[t] < CandidateRank[s]}) < BasketPolicy.preferredMax}

BeginReview(in) ==
  /\ reviews < MaxReviews
  /\ in.month >= found.month
  /\ found' = in
  /\ chosen' = Selected(Scorable(in)) /\ uncapped' = chosen'
  /\ weights' = NoWeights /\ trades' = NoWeights
  /\ remaining' = BasketPolicy.sleeve
  /\ basketStage' = "rounds"
  /\ reviews' = reviews + 1
  /\ UNCHANGED lastMonth

StockCap == Smallest(BasketPolicy.stockCap, BasketPolicy.hardStockCap)

RoomLeft(s) == StockCap - weights[s]

(* One round: every stock below its cap gets its part of what remains.      *)
PourRound ==
  LET total == WeightOf(uncapped, InverseVolatility)
      part == [s \in uncapped |->
                 Smallest(RoundHalfEven(remaining * InverseVolatility[s], total), RoomLeft(s))]
      poured == WeightOf(uncapped, part)
  IN  /\ basketStage = "rounds" /\ remaining > 0 /\ uncapped # {}
      /\ weights' = [s \in Universe |-> IF s \in uncapped THEN weights[s] + part[s] ELSE weights[s]]
      /\ remaining' = remaining - poured
      /\ uncapped' = {s \in uncapped : weights'[s] < StockCap}
      /\ basketStage' = IF poured <= 0 THEN "sectors" ELSE "rounds"
      /\ UNCHANGED <<found, chosen, lastMonth, trades, reviews>>

StopPouring ==
  /\ basketStage = "rounds" /\ (remaining <= 0 \/ uncapped = {})
  /\ basketStage' = "sectors"
  /\ UNCHANGED <<found, chosen, weights, remaining, uncapped, lastMonth, trades, reviews>>

GroupOf(s, groupOf) == {t \in chosen : groupOf[t] = groupOf[s]}

(* Mutant: a group is scaled only if one of its stocks is above the cap. *)
ScaledIfOneExceeds(s, groupOf, cap) ==
  LET total == WeightOf(GroupOf(s, groupOf), weights)
  IN  IF groupOf[s] = "none" \/ weights[s] <= cap THEN weights[s]
      ELSE RoundHalfEven(weights[s] * cap, total)

Scaled(s, groupOf, cap) ==
  LET total == WeightOf(GroupOf(s, groupOf), weights)
  IN  IF groupOf[s] = "none" \/ total <= cap THEN weights[s]
      ELSE RoundHalfEven(weights[s] * cap, total)

(* _apply_group_caps *)
CapGroups(stage, next, groupOf, cap) ==
  /\ basketStage = stage
  /\ weights' = [s \in Universe |-> IF s \in chosen THEN Scaled(s, groupOf, cap) ELSE 0]
  /\ basketStage' = next
  /\ UNCHANGED <<found, chosen, remaining, uncapped, lastMonth, trades, reviews>>

CapSectors == CapGroups("sectors", "clusters", BasketSector, BasketPolicy.sectorCap)
CapClusters == CapGroups("clusters", "tiny", BasketCluster, BasketPolicy.clusterCap)

BelowMinimum(weight) == found.nav * weight < BasketPolicy.minNotional * Whole

DropTinyTargets ==
  /\ basketStage = "tiny"
  /\ chosen' = {s \in chosen : ~BelowMinimum(weights[s])}
  /\ weights' = [s \in Universe |-> IF s \in chosen' THEN weights[s] ELSE 0]
  /\ basketStage' = "decide"
  /\ UNCHANGED <<found, remaining, uncapped, lastMonth, trades, reviews>>

(* The drift of the sleeve counts only the stocks that have a target.       *)
SleeveDrift == Magnitude(WeightOf(chosen, weights) - WeightOf(chosen, found.held))

(* What the artifacts of earlier runs say: whether trades have passed the   *)
(* gate in this month, whatever became of them.                             *)
PassedThisMonth == lastMonth = found.month

(* _rebalance_decision *)
GateOpens ==
  \/ ~PassedThisMonth
  \/ SleeveDrift > RoundHalfEven(BasketPolicy.sleeve * BasketPolicy.driftPct, 100)
  \/ found.nav * SleeveDrift > BasketPolicy.minNotional * Whole

ReviewedStocks == chosen \cup {s \in Universe : found.held[s] > 0}

(* _rebalance_decisions, and the artifact the next review finds the month in. *)
DecideTrades ==
  LET drift(s) == weights[s] - found.held[s]
  IN  /\ basketStage = "decide"
      /\ trades' = [s \in Universe |->
                      IF GateOpens /\ s \in ReviewedStocks /\ ~BelowMinimum(Magnitude(drift(s)))
                      THEN drift(s) ELSE 0]
      /\ lastMonth' = IF GateOpens THEN found.month ELSE lastMonth
      /\ basketStage' = "idle"
      /\ UNCHANGED <<found, chosen, weights, remaining, uncapped, reviews>>

BasketNext ==
  \/ basketStage = "idle" /\ \E in \in BasketInputs : BeginReview(in)
  \/ PourRound \/ StopPouring \/ CapSectors \/ CapClusters \/ DropTinyTargets \/ DecideTrades

BasketSpec == BasketInit /\ [][BasketNext]_basketVars
=============================================================================
