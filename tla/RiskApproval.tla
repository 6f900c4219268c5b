------------------------------ MODULE RiskApproval ------------------------------
(***************************************************************************)
(* The last two gates of a run: the hard rules of the risk engine with the *)
(* graph concentration checks (risk/engine.py, risk/graph_concentration.py *)
(* and risk/review_service.py), and the portfolio manager, who turns an    *)
(* approved share of the portfolio into a quantity                         *)
(* (agents/portfolio_manager.py).  Proposals were made on the positions of *)
(* an earlier moment; the monitor may sell in between.  Shares of the      *)
(* portfolio are counted in the steps they are rounded to, Whole is 100 %. *)
(* The personas of the risk committee only comment and are left out.       *)
(***************************************************************************)
EXTENDS Decimals, Sequences, FiniteSets, SequencesExt, FiniteSetsExt

CONSTANTS
  Names,            \* symbols
  Quote,            \* Quote[s]: latest close
  RiskPolicy,       \* [maxPosition: weight, maxOpen: number, dailyLoss: percent,
                    \*  limit: weight for each category]
  Categories,       \* graph categories in the order they are checked
  ExposureKeys,     \* ExposureKeys[c][s]: graph nodes of category c that s is exposed to
  Correlated,       \* Correlated[s]: companies with a correlated edge to s
  RunInputs,        \* what runs find: [proposed, severe, inactive, stale, kill, loss]
  Portfolios,       \* [held: shares, cash]: the portfolio before the first run
  RiskWhole,
  MaxRiskRuns       \* bound on the number of runs

VARIABLES
  riskStage,        \* "idle" or "finalising"
  runInput,         \* the input of the run in progress, or of the last one
  held,             \* shares held
  money,            \* cash
  seen,             \* shares held when the proposals were made
  review,           \* risk review of each symbol
  decision,         \* final decision of each symbol
  riskRuns

(* Prices are positive; every graph category is checked (_policies); a      *)
(* proposal aims at no less than nothing, an EXIT at nothing (the trader's  *)
(* _target_for_action).                                                     *)
ASSUME RiskAssumption ==
  /\ IsFiniteSet(Names) /\ Quote \in [Names -> Nat \ {0}]
  /\ RiskWhole \in Nat \ {0} /\ RiskPolicy.maxPosition \in Nat
  /\ Categories \in Seq(Range(Categories))
  /\ "correlated_cluster" \notin DOMAIN ExposureKeys
  /\ Range(Categories) = DOMAIN ExposureKeys \cup {"correlated_cluster"}
  /\ \A c \in Range(Categories) : RiskPolicy.limit[c] \in Nat
  /\ \A c \in DOMAIN ExposureKeys, s \in Names : IsFiniteSet(ExposureKeys[c][s])
  /\ \A s \in Names : Correlated[s] \subseteq Names
  /\ \A p \in Portfolios : p.held \in [Names -> Nat] /\ p.cash \in Nat
  /\ \A in \in RunInputs, s \in Names :
       /\ in.proposed[s].action \in {"BUY", "HOLD", "NO_TRADE", "REDUCE", "EXIT"}
       /\ in.proposed[s].target \in Nat
       /\ in.proposed[s].action \in {"EXIT", "NO_TRADE"} => in.proposed[s].target = 0

riskVars == <<riskStage, runInput, held, money, seen, review, decision, riskRuns>>

NoReview == [status |-> "none", approved |-> 0]
NoDecision == [action |-> "NO_TRADE", status |-> "none", quantity |-> 0]
NoRunInput == [proposed |-> [s \in Names |-> [action |-> "NO_TRADE", target |-> 0]],
               severe |-> {}, inactive |-> {}, stale |-> {}, kill |-> FALSE, loss |-> 0]

RiskInit ==
  /\ riskStage = "idle" /\ runInput = NoRunInput
  /\ \E p \in Portfolios : held = p.held /\ money = p.cash
  /\ seen = held
  /\ review = [s \in Names |-> NoReview] /\ decision = [s \in Names |-> NoDecision]
  /\ riskRuns = 0

Equity == money + SumOver([s \in Names |-> held[s] * Quote[s]], Names)

(* What a number of shares makes of the portfolio, _position_exposures_pct_nav. *)
ShareOf(s, shares) == IF Equity <= 0 THEN 0 ELSE RoundHalfEven(shares * Quote[s] * RiskWhole, Equity)
Exposures == [s \in Names |-> ShareOf(s, held[s])]

Proposal(s) == runInput.proposed[s]
SeenShare(s) == ShareOf(s, seen[s])

(* REDUCE and HOLD come with the share they aim at. *)
Target(s) ==
  CASE Proposal(s).action = "HOLD" -> SeenShare(s)
    [] Proposal(s).action = "REDUCE" -> RoundHalfEven(SeenShare(s), 2)
    [] OTHER -> Proposal(s).target

StartApproval(in) ==
  /\ riskRuns < MaxRiskRuns
  /\ riskStage' = "finalising"
  /\ runInput' = in
  /\ seen' = held
  /\ review' = [s \in Names |-> NoReview] /\ decision' = [s \in Names |-> NoDecision]
  /\ riskRuns' = riskRuns + 1
  /\ UNCHANGED <<held, money>>

(* The position monitor of another process sells out a position.            *)
MonitorSells ==
  /\ riskStage = "finalising"
  /\ \E s \in {t \in Names : held[t] > 0} :
       /\ held' = [held EXCEPT ![s] = 0]
       /\ money' = money + held[s] * Quote[s]
  /\ UNCHANGED <<riskStage, runInput, seen, review, decision, riskRuns>>

-----------------------------------------------------------------------------
(* Graph concentration: each category is checked with the share that the    *)
(* categories before it have left.  The symbol's own position counts among  *)
(* the existing exposure of its groups, but not of its correlated cluster.  *)
KeysOf(c, s) == ExposureKeys[c][s]
CorrelatedWith(s) == Correlated[s]
LimitOf(c) == RiskPolicy.limit[c]

Sharing(c, key) == {t \in Names : held[t] > 0 /\ key \in KeysOf(c, t)}

ExistingExposures(c, s) ==
  IF c = "correlated_cluster"
  THEN IF CorrelatedWith(s) = {} THEN {}
       ELSE {SumOver(Exposures, {t \in CorrelatedWith(s) : held[t] > 0})}
  ELSE {SumOver(Exposures, Sharing(c, key)) : key \in KeysOf(c, s)}

(* _decide_exposure: the worst of the groups decides. *)
CheckCategory(s, found, c) ==
  LET worst == Max(ExistingExposures(c, s))
      limit == LimitOf(c)
  IN  IF ExistingExposures(c, s) = {} \/ found.share <= 0 THEN found
      ELSE IF worst >= limit
           THEN [share |-> 0, statuses |-> found.statuses \cup {"rejected"}]
      ELSE IF worst + found.share > limit
           THEN [share |-> limit - worst, statuses |-> found.statuses \cup {"reduced"}]
      ELSE found

(* Mutant: every category starts from the proposed share; the last one counts. *)
GraphLastCategory(s, share) ==
  CheckCategory(s, [share |-> share, statuses |-> {}], Categories[Len(Categories)])

GraphConcentration(s, share) ==
  FoldLeft(LAMBDA found, c : CheckCategory(s, found, c), [share |-> share, statuses |-> {}],
           Categories)

-----------------------------------------------------------------------------
(* No caller of the risk engine passes a daily loss; its default is zero.   *)
LossSeen == 0

Buying(s) == Proposal(s).action = "BUY"
Capped(s) == IF Buying(s) THEN Min({Target(s), RiskPolicy.maxPosition}) ELSE Target(s)

ActionValid(s) ==
  LET now == SeenShare(s)
      owned == seen[s] > 0
  IN  CASE Buying(s) -> Target(s) > now /\ Target(s) > 0
        [] Proposal(s).action = "REDUCE" -> owned /\ 0 < Target(s) /\ Target(s) < now
        [] Proposal(s).action = "EXIT" -> owned /\ Target(s) = 0
        [] Proposal(s).action = "HOLD" -> owned /\ Target(s) = now
        [] Proposal(s).action = "NO_TRADE" -> ~owned /\ Target(s) = 0

Blocked(s) ==
  \/ runInput.kill
  \/ Buying(s) /\ (LossSeen >= RiskPolicy.dailyLoss \/ s \in runInput.severe)

OpenPositions == Cardinality({s \in Names : held[s] > 0})

Rejected(s) ==
  \/ s \in runInput.inactive \/ s \in runInput.stale \/ ~ActionValid(s)
  \/ Buying(s) /\ Capped(s) <= SeenShare(s)
  \/ /\ Buying(s) /\ seen[s] = 0 /\ Capped(s) # 0
     /\ OpenPositions >= RiskPolicy.maxOpen

Increases(s) == Buying(s) /\ Capped(s) > SeenShare(s)

ReviewOf(s) ==
  LET graph == IF Increases(s) THEN GraphConcentration(s, Capped(s))
               ELSE [share |-> Capped(s), statuses |-> {}]
      reduced == Capped(s) < Target(s) \/ "reduced" \in graph.statuses
  IN  CASE Blocked(s) -> [status |-> "BLOCKED", approved |-> 0]
        [] ~Blocked(s) /\ (Rejected(s) \/ "rejected" \in graph.statuses) ->
             [status |-> "REJECTED", approved |-> 0]
        [] OTHER -> [status |-> IF reduced THEN "APPROVED_WITH_REDUCTION" ELSE "APPROVED",
                     approved |-> graph.share]

Finalised == {s \in Names : decision[s].status # "none"}
UnderReview == {s \in Names : review[s].status # "none"} \ Finalised

(* RiskReviewService.run, symbol by symbol. *)
ReviewRisk ==
  /\ riskStage = "finalising" /\ UnderReview = {}
  /\ \E s \in Names \ Finalised : review' = [review EXCEPT ![s] = ReviewOf(s)]
  /\ UNCHANGED <<riskStage, runInput, held, money, seen, decision, riskRuns>>

-----------------------------------------------------------------------------
(* _target_quantity, from the equity and the close of the moment. *)
SharesFor(s, share) == IF share <= 0 THEN 0 ELSE ((Equity * share) \div RiskWhole) \div Quote[s]

ApprovedQuantity(s) ==
  CASE Proposal(s).action = "EXIT" -> seen[s]
    [] Buying(s) -> Max({0, SharesFor(s, review[s].approved) - seen[s]})
    [] Proposal(s).action = "REDUCE" -> Max({0, seen[s] - SharesFor(s, review[s].approved)})
    [] OTHER -> 0

(* _rule_decision_fields *)
DecisionOf(s) ==
  LET action == Proposal(s).action
      approved(status, quantity) == [action |-> action, status |-> status, quantity |-> quantity]
  IN  CASE review[s].status = "BLOCKED" -> [NoDecision EXCEPT !.status = "BLOCKED"]
        [] review[s].status = "REJECTED" -> [NoDecision EXCEPT !.status = "REJECTED"]
        [] OTHER ->
             IF action \in {"HOLD", "NO_TRADE"} THEN approved("NO_ACTION", 0)
             ELSE IF ApprovedQuantity(s) > 0 THEN approved("APPROVED_FOR_PAPER", ApprovedQuantity(s))
             ELSE IF action \in {"REDUCE", "EXIT"} THEN approved("NO_ACTION", 0)
             ELSE approved("REJECTED", 0)

DecideFinally ==
  /\ riskStage = "finalising"
  /\ \E s \in UnderReview : decision' = [decision EXCEPT ![s] = DecisionOf(s)]
  /\ UNCHANGED <<riskStage, runInput, held, money, seen, review, riskRuns>>

(* Routing and filling: sales first, each BUY as far as the cash goes.      *)
ExecuteDecisions ==
  LET routed == {s \in Names : decision[s].status = "APPROVED_FOR_PAPER"}
      sold(s) == IF s \in routed /\ ~Buying(s) THEN Min({held[s], decision[s].quantity}) ELSE 0
      bought(s) == IF s \in routed /\ Buying(s) THEN decision[s].quantity ELSE 0
      cash == money + SumOver([s \in Names |-> sold(s) * Quote[s]], Names)
      cost == SumOver([s \in Names |-> bought(s) * Quote[s]], Names)
  IN  /\ riskStage = "finalising" /\ Finalised = Names
      /\ held' = [s \in Names |-> held[s] - sold(s) + (IF cost <= cash THEN bought(s) ELSE 0)]
      /\ money' = IF cost <= cash THEN cash - cost ELSE cash
      /\ riskStage' = "idle"
      /\ UNCHANGED <<runInput, seen, review, decision, riskRuns>>

RiskNext ==
  \/ riskStage = "idle" /\ \E in \in RunInputs : StartApproval(in)
  \/ MonitorSells \/ ReviewRisk \/ DecideFinally \/ ExecuteDecisions

RiskSpec == RiskInit /\ [][RiskNext]_riskVars
=============================================================================
