-------------------------- MODULE CoreBasketProperties --------------------------
(* What a review of the core basket must achieve.                           *)
EXTENDS CoreBasket

(* Every variable has its type. *)
BasketTypeOK ==
  /\ basketStage \in {"idle", "rounds", "sectors", "clusters", "tiny", "decide"}
  /\ chosen \subseteq Universe /\ uncapped \subseteq Universe
  /\ weights \in [Universe -> Nat] /\ trades \in [Universe -> Int]
  /\ remaining \in Int /\ lastMonth \in Nat

(* The rounds distribute the whole sleeve or fill every stock to its cap,   *)
(* up to half a step for each stock, never pass a cap, and never give a     *)
(* stock less than a more volatile one.                                     *)
SleeveIsPouredOut ==
  basketStage = "sectors" =>
    LET poured == WeightOf(chosen, weights) IN
    /\ \A s \in chosen : weights[s] <= StockCap
    /\ 2 * poured <= 2 * BasketPolicy.sleeve + Cardinality(chosen)
    /\ \/ \A s \in chosen : weights[s] = StockCap
       \/ 2 * poured >= 2 * BasketPolicy.sleeve - Cardinality(chosen)
    /\ \A s, t \in chosen : Volatility[s] <= Volatility[t] => weights[s] >= weights[t]

(* When a review lets its trades through, the portfolio they lead to keeps  *)
(* the caps of its sectors and clusters, also for stocks that are held and  *)
(* no longer chosen: only rounding and differences too small to trade can   *)
(* exceed them.                                                             *)
TradesRestoreCaps ==
  basketStage = "idle" /\ reviews > 0 /\ lastMonth = found.month
    /\ (\E s \in Universe : trades[s] # 0) =>
      \A groupOf \in {BasketSector, BasketCluster} : \A s \in Universe :
        LET group == {t \in Universe : groupOf[t] = groupOf[s]}
            after == [t \in Universe |-> found.held[t] + trades[t]]
            slack == [t \in Universe |-> 1 + (BasketPolicy.minNotional * Whole) \div found.nav]
            cap == IF groupOf = BasketSector THEN BasketPolicy.sectorCap ELSE BasketPolicy.clusterCap
        IN  groupOf[s] # "none" =>
              WeightOf(group, after) <= cap + WeightOf(group, slack)

(* A review of the core basket pours the sleeve out and trades back inside  *)
(* the caps (core_shariah_basket.py).                                       *)
BasketKeepsItsShape == SleeveIsPouredOut /\ TradesRestoreCaps
=============================================================================
