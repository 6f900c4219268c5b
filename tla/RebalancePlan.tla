------------------------------- MODULE RebalancePlan -------------------------------
(***************************************************************************)
(* The portfolio rebalance plan of a run: portfolio/rebalance_plan.py with *)
(* the decisions of the core basket it reads.  From what is held, the      *)
(* traders' proposals and the basket's targets it derives candidates, one  *)
(* planned trade per candidate, the proceeds BUYs may count on and the     *)
(* capacity of every sleeve.  An input is                                  *)
(*   [held: Stocks -> Nat, cash: Nat, unpriced: SUBSET Stocks,             *)
(*    proposed: Stocks -> Actions \cup {"none"}  the traders' proposals,   *)
(*    weight: Stocks -> Nat   the basket's target in percent, 0 = absent,  *)
(*    monthly: BOOLEAN        the month's core rebalance is still due,     *)
(*    strength: Stocks -> {"exit", "trim", "fine"}  the strategy's score]. *)
(***************************************************************************)
EXTENDS PositionSizing

CONSTANTS
  Position,          \* Position[s]: place of s in the alphabet
  StrategyRank,      \* StrategyRank[s]: rank given by the trading strategy
  BasketRank,        \* BasketRank[s]: place in the core basket's scores
  BuyTargetPct,      \* percent of NAV a trader's BUY asks for
  SleeveOf,          \* SleeveOf[s]: sleeve of the latest allocation of s
  CoreUniverse       \* symbols of the core basket's universe

(* The policy's validators, and ranks that are places in a list.           *)
ASSUME PlanAssumption ==
  /\ \A s, t \in Stocks : Position[s] = Position[t] => s = t
  /\ \A s \in Stocks : Position[s] \in Nat /\ StrategyRank[s] \in Nat /\ BasketRank[s] \in Nat
  /\ BuyTargetPct \in Nat /\ CoreUniverse \subseteq Stocks
  /\ {"active", "core"} \subseteq Sleeves /\ Policy.weight \in [Sleeves -> Nat]
  /\ \A field \in {"hardReserve", "haircut", "sellCost", "minNotional", "minDrift", "driftPct",
                    "borrowCap"} : Policy[field] \in Nat
  /\ Policy.softBorrowing \in BOOLEAN
  /\ Policy.lenders \in Seq(Sleeves) /\ Policy.borrowers \in Seq(Sleeves)

Actions == {"BUY", "HOLD", "REDUCE", "EXIT"}
StrategySleeve == "active"
NoRank == 1000

ValueHeld(in, s) == in.held[s] * Price[s]
HeldValue(in, S) == SumOver([s \in S |-> ValueHeld(in, s)], S)
Nav(in) == in.cash + HeldValue(in, Stocks)
LatestClose(in, s) == IF s \in in.unpriced THEN 0 ELSE Price[s]

CoreTargets(in) == {s \in Stocks : in.weight[s] > 0}
CoreTarget(in, s) == Pct(in.weight[s], Nav(in))

(* A position counts as core once its symbol is in the target basket,      *)
(* whoever bought it; then its latest allocation decides.                  *)
SleeveLabel(in, s) == IF s \in CoreTargets(in) THEN "core" ELSE SleeveOf[s]

Exposure(in, sleeve) == HeldValue(in, {s \in Stocks : SleeveLabel(in, s) = sleeve})

Distance(a, b) == IF a > b THEN a - b ELSE b - a

(* The basket rebalances once a month, or when the sleeve has drifted.     *)
CoreDrift(in) ==
  Distance(SumOver([s \in CoreTargets(in) |-> CoreTarget(in, s)], CoreTargets(in)),
           HeldValue(in, CoreTargets(in)))

GateOpen(in) ==
  \/ in.monthly
  \/ CoreDrift(in) > (Pct(Policy.weight["core"], Nav(in)) * Policy.driftPct) \div 100
  \/ CoreDrift(in) > Policy.minNotional

(* Symbols the basket decides about: its targets and whatever is held of its universe. *)
CoreReviewed(in) == CoreTargets(in) \cup {s \in CoreUniverse : in.held[s] > 0}

CoreApproved(in, s) ==
  GateOpen(in) /\ Distance(CoreTarget(in, s), ValueHeld(in, s)) >= Policy.minNotional

CoreAction(in, s) ==
  CASE ~CoreApproved(in, s) \/ CoreTarget(in, s) = ValueHeld(in, s) -> "HOLD"
    [] CoreApproved(in, s) /\ CoreTarget(in, s) > ValueHeld(in, s) -> "BUY"
    [] OTHER -> IF CoreTarget(in, s) = 0 THEN "EXIT" ELSE "REDUCE"

(* _threshold_action_for_position: a rule that sells what is held although  *)
(* nobody proposed to; {} when no rule applies or the drift is too small.   *)
ThresholdRule(in, s, sleeve) ==
  LET value == ValueHeld(in, s)
      nav == Nav(in)
      exit == {[action |-> "EXIT", target |-> 0]}
      reduceTo(t) == {[action |-> "REDUCE", target |-> t]}
  IN  CASE sleeve = "core" /\ CoreTargets(in) # {} /\ s \notin CoreTargets(in) -> exit
        [] sleeve \notin Sleeves -> exit
        [] in.strength[s] = "exit" -> exit
        [] value > Pct(Policy.hardStockCap, nav) -> reduceTo(Pct(Policy.stockCap, nav))
        [] in.strength[s] = "trim" -> reduceTo(value \div 2)
        [] sleeve = "core" /\ s \in CoreTargets(in) /\ CoreTarget(in, s) < value
             -> reduceTo(CoreTarget(in, s))
        [] OTHER -> {}

Threshold(in, s, sleeve, existing) ==
  IF in.held[s] = 0 \/ existing \in {"REDUCE", "EXIT"} THEN {}
  ELSE {t \in ThresholdRule(in, s, sleeve) :
          LET drift == ValueHeld(in, s) - t.target IN
          drift >= Pct(Policy.minDrift, Nav(in)) /\ drift >= Policy.minNotional}

TraderTarget(in, s) ==
  CASE in.proposed[s] = "BUY" -> Pct(BuyTargetPct, Nav(in))
    [] in.proposed[s] = "HOLD" -> ValueHeld(in, s)
    [] in.proposed[s] = "REDUCE" -> ValueHeld(in, s) \div 2
    [] in.proposed[s] = "EXIT" -> 0

Candidate(in, s, source, sleeve, rank, t) ==
  [sym |-> s, source |-> source, sleeve |-> sleeve, rank |-> rank, action |-> t.action,
   target |-> t.target, price |-> LatestClose(in, s)]

TraderCandidates(in) ==
  LET own(s) == [action |-> in.proposed[s], target |-> TraderTarget(in, s)]
      rule(s) == Threshold(in, s, StrategySleeve, in.proposed[s])
  IN  {Candidate(in, s, "trader", StrategySleeve, StrategyRank[s],
                 IF rule(s) = {} THEN own(s) ELSE CHOOSE t \in rule(s) : TRUE) :
         s \in {x \in Stocks : in.proposed[x] # "none"}}

CoreCandidates(in) ==
  {Candidate(in, s, "core", "core", IF s \in CoreTargets(in) THEN BasketRank[s] ELSE NoRank,
             [action |-> CoreAction(in, s), target |-> CoreTarget(in, s)]) :
     s \in CoreReviewed(in)}

BaseCandidates(in) == TraderCandidates(in) \cup CoreCandidates(in)

(* Holdings no trader and no basket decision speaks of. *)
ThresholdCandidates(in) ==
  UNION {{Candidate(in, s, "threshold", SleeveLabel(in, s), StrategyRank[s], t) :
            t \in Threshold(in, s, SleeveLabel(in, s), "HOLD")} :
         s \in Stocks \ {c.sym : c \in BaseCandidates(in)}}

Candidates(in) == BaseCandidates(in) \cup ThresholdCandidates(in)

(* _trade_from_candidate: a trade needs a delta in the direction of its action. *)
TradeOf(in, c) ==
  LET value == ValueHeld(in, c.sym)
      side == CASE c.action = "BUY" /\ c.target > value -> "BUY"
                [] c.action \in {"REDUCE", "EXIT"} /\ c.target < value -> "SELL"
                [] OTHER -> "HOLD"
      notional == IF side = "HOLD" THEN 0 ELSE Distance(c.target, value)
      shares == IF c.price = 0 THEN 0 ELSE notional \div c.price
  IN  [sym |-> c.sym, source |-> c.source, side |-> side, action |-> c.action, rank |-> c.rank,
       sleeve |-> IF side = "SELL" THEN SleeveLabel(in, c.sym) ELSE c.sleeve,
       target |-> c.target, notional |-> notional, price |-> c.price,
       status |-> CASE notional = 0 -> "no_trade"
                    [] notional > 0 /\ c.price = 0 -> "missing_price"
                    [] OTHER -> "observed",
       quantity |-> CASE side = "SELL" /\ c.action = "EXIT" -> in.held[c.sym]
                      [] side = "SELL" /\ c.action # "EXIT" -> Min({shares, in.held[c.sym]})
                      [] OTHER -> shares]

Trades(in) == {TradeOf(in, c) : c \in Candidates(in)}

(* _cash_budget_rows: what the planned SELLs are expected to bring, every  *)
(* planned trade counted, and the share of it BUYs may count on.           *)
SellCost(notional) == (notional * Policy.sellCost) \div 100

Spendable(in) ==
  LET sells == {t \in Trades(in) : t.side = "SELL" /\ t.status # "missing_price"}
      net == Above0(SumOver([t \in sells |-> t.notional - SellCost(t.notional)], sells))
  IN  (net * Policy.haircut) \div 100

HardReserve(in) == Pct(Policy.hardReserve, Nav(in))

(* _sleeve_budget_rows: where each sleeve would stand after the plan. *)
SleeveTarget(in, sleeve) == Pct(Policy.weight[sleeve], Nav(in))

Projected(in, sleeve) ==
  LET moved == {t \in Trades(in) : t.status = "observed" /\ t.sleeve = sleeve}
  IN  Above0(Exposure(in, sleeve)
             + SumOver([t \in moved |-> IF t.side = "BUY" THEN t.notional ELSE 0 - t.notional], moved))

(* Mutant: a lender already above its target lends a negative amount. *)
IdleSigned(in, sleeve) == SleeveTarget(in, sleeve) - Exposure(in, sleeve)

Idle(in, sleeve) == Above0(SleeveTarget(in, sleeve) - Exposure(in, sleeve))

(* A sleeve with a BUY of its own keeps its capacity. *)
Deployable(in, sleeve) ==
  \E c \in Candidates(in) : /\ c.sleeve = sleeve /\ c.action = "BUY"
                            /\ c.price > 0 /\ Distance(c.target, ValueHeld(in, c.sym)) > 0

Lendable(in, sleeve) ==
  IF /\ ~Deployable(in, sleeve)
     /\ Policy.softBorrowing
     /\ sleeve \in ToSet(Policy.lenders) \ ToSet(Policy.borrowers)
  THEN Idle(in, sleeve) ELSE 0

BorrowGuard(in) == Pct(Policy.borrowCap, Nav(in))

(* _assign_soft_borrowing: borrowers in order, each takes from lenders in order. *)
BorrowFrom(in, b, l, acc) ==
  LET need == Above0(Projected(in, b) - SleeveTarget(in, b))
      amount == Min({acc.lend[l], Above0(need - acc.borrowed[b]), acc.left})
  IN  IF b = l THEN acc
      ELSE [left |-> acc.left - amount,
            lend |-> [acc.lend EXCEPT ![l] = @ - amount],
            borrowed |-> [acc.borrowed EXCEPT ![b] = @ + amount]]

BorrowAll(in, b, start) ==
  FoldLeft(LAMBDA acc, l : BorrowFrom(in, b, l, acc), start, Policy.lenders)

Borrowing(in) ==
  FoldLeft(LAMBDA acc, b : BorrowAll(in, b, acc),
           [left |-> IF Policy.softBorrowing THEN BorrowGuard(in) ELSE 0,
            lend |-> [s \in Sleeves |-> Lendable(in, s)],
            borrowed |-> [s \in Sleeves |-> 0]], Policy.borrowers)

(* _sleeve_capacity_overrides: what the allocator may fill. *)
Capacity(in) == [s \in Sleeves |-> SleeveTarget(in, s) + Borrowing(in).borrowed[s]]
=============================================================================
