------------------------------- MODULE RunAllocation -------------------------------
(***************************************************************************)
(* One run from its proposals to its queued orders: the allocation of the  *)
(* portfolio plan, of the money-management policy alone, or of the         *)
(* settings fallback (portfolio/run_allocation.py), the quantity the       *)
(* portfolio manager derives from it (agents/portfolio_manager.py) and the *)
(* sell-first routing that threads cash from order to order                *)
(* (paper_trading/service.py).  What was sized is stored as a share of the *)
(* net asset value with few digits and turned back into shares later.      *)
(***************************************************************************)
EXTENDS RebalancePlan

CONSTANTS
  Inputs,            \* what runs may start from, as RebalancePlan describes them
  Modes,             \* subset of {"plan", "policy", "fallback"}
  TraderScore,       \* TraderScore[s]: candidate score before peers are counted
  CoreScore,         \* the same for a BUY of the core basket
  PctQuanta          \* smallest steps a stored percentage divides the NAV into

ASSUME AllocationAssumption ==
  /\ Modes \subseteq {"plan", "policy", "fallback"} /\ PctQuanta \in Nat \ {0}
  /\ CoreScore \in Int /\ TraderScore \in [Stocks -> Int]
  /\ \A in \in Inputs :
       /\ in.held \in [Stocks -> Nat] /\ in.cash \in Nat /\ in.unpriced \subseteq Stocks
       /\ in.proposed \in [Stocks -> Actions \cup {"none"}] /\ in.weight \in [Stocks -> Nat]
       /\ in.monthly \in BOOLEAN /\ in.strength \in [Stocks -> {"exit", "trim", "fine"}]

VARIABLES
  phase,             \* "idle", "sells", "lifecycle", "order", "buys", "routing", "done"
  mode,              \* which allocator the run uses
  given,             \* the input of the run
  book,              \* simulated positions, sleeves and cash
  capacity,          \* what each sleeve may hold
  queue,             \* BUY requests still to be sized, best first
  ledger,            \* allocation rows in the order they are made
  funding,           \* _FundingTracker: cash and proceeds not used yet
  pending,           \* pending_affordability_cash
  orders             \* orders the broker accepted, in routing order

allocationVars == <<phase, mode, given, book, capacity, queue, ledger, funding, pending, orders>>

OpeningBook(in) ==
  [qty |-> in.held, value |-> [s \in Stocks |-> ValueHeld(in, s)],
   exposure |-> [v \in Sleeves |-> Exposure(in, v)], drawdown |-> [v \in Sleeves |-> 0],
   cash |-> in.cash, nav |-> Nav(in)]

NoInput ==
  [held |-> [s \in Stocks |-> 0], cash |-> 0, unpriced |-> {},
   proposed |-> [s \in Stocks |-> "none"], weight |-> [s \in Stocks |-> 0],
   monthly |-> FALSE, strength |-> [s \in Stocks |-> "fine"]]

AllocationInit ==
  /\ phase = "idle" /\ mode = "none" /\ given = NoInput /\ book = OpeningBook(NoInput)
  /\ capacity = [v \in Sleeves |-> 0] /\ queue = <<>> /\ ledger = <<>> /\ orders = <<>>
  /\ funding = [existing |-> 0, proceeds |-> 0] /\ pending = 0

FundingTracker(in, proceeds) ==
  [existing |-> Above0(in.cash - HardReserve(in)), proceeds |-> proceeds]

(* Only the plan lets BUYs count on proceeds and on borrowed capacity. *)
Begin(in, m) ==
  LET proceeds == IF m = "plan" THEN Spendable(in) ELSE 0
  IN  /\ phase' = IF m = "plan" THEN "sells" ELSE "lifecycle"
      /\ mode' = m
      /\ given' = in
      /\ book' = [OpeningBook(in) EXCEPT !.cash = @ + proceeds]
      /\ capacity' = [v \in Sleeves |-> IF m = "plan" THEN Capacity(in)[v] ELSE SleeveTarget(in, v)]
      /\ funding' = FundingTracker(in, proceeds)
      /\ UNCHANGED <<queue, ledger, pending, orders>>

(* A ledger row with the proposal it leaves behind (action, target). *)
Row(s, rank, action, status, target, quantity, approved) ==
  [sym |-> s, rank |-> rank, action |-> action, status |-> status, target |-> target,
   quantity |-> quantity, approved |-> approved, sleeve |-> "none", existing |-> 0,
   proceeds |-> 0]

LifecycleStatus(s) ==
  IF given.held[s] > 0 THEN "open_position_management" ELSE "unchanged_lifecycle"

LexLess(a, b) ==
  \E i \in DOMAIN a : a[i] < b[i] /\ \A j \in 1..(i - 1) : a[j] = b[j]

(* sorted(S, key): the keys of different elements differ. *)
SortedBy(S, key) ==
  [i \in 1..Cardinality(S) |->
     CHOOSE x \in S : Cardinality({y \in S : LexLess(key[y], key[x])}) = i - 1]

SourceOrder(source) ==
  CASE source = "core" -> 1 [] source = "threshold" -> 2 [] source = "trader" -> 3

TradeKey(t) == <<t.rank, SourceOrder(t.source), Position[t.sym]>>

(* _planner_sell_candidates: one executable SELL per symbol, the best ranked. *)
PlannedSells ==
  LET sells == {t \in Trades(given) : t.side = "SELL" /\ t.status = "observed" /\ t.quantity > 0}
  IN  {t \in sells : \A u \in sells : u.sym = t.sym /\ u # t => LexLess(TradeKey(t), TradeKey(u))}

PlanSells ==
  LET row(t) == Row(t.sym, t.rank, t.action, LifecycleStatus(t.sym), t.target, t.quantity, t.notional)
      inOrder == SortedBy(PlannedSells, [t \in PlannedSells |-> TradeKey(t)])
  IN  /\ phase = "sells"
      /\ phase' = "lifecycle"
      /\ ledger' = ledger \o [i \in DOMAIN inOrder |-> row(inOrder[i])]
      /\ UNCHANGED <<mode, given, book, capacity, queue, funding, pending, orders>>

RowsOf(s) == {i \in DOMAIN ledger : ledger[i].sym = s}

(* Proposals that are no BUY keep what they ask for. *)
Lifecycle ==
  LET kept == {s \in Stocks : given.proposed[s] \notin {"none", "BUY"} /\ RowsOf(s) = {}}
      inOrder == SortedBy(kept, [s \in kept |-> <<Position[s]>>])
      row(s) == Row(s, NoRank, given.proposed[s], LifecycleStatus(s), TraderTarget(given, s), 0, 0)
  IN  /\ phase = "lifecycle"
      /\ phase' = "order"
      /\ ledger' = ledger \o [i \in DOMAIN inOrder |-> row(inOrder[i])]
      /\ UNCHANGED <<mode, given, book, capacity, queue, funding, pending, orders>>

Request(s, source, sleeve, score, rank, target, buffer) ==
  [sym |-> s, source |-> source, sleeve |-> sleeve, score |-> score, rank |-> rank,
   target |-> target, quantity |-> given.held[s], value |-> ValueHeld(given, s),
   price |-> LatestClose(given, s), buffer |-> buffer]

TraderRequest(s, buffer) ==
  Request(s, "trader", StrategySleeve, TraderScore[s], StrategyRank[s], TraderTarget(given, s), buffer)

CoreRequest(t) ==
  Request(t.sym, "core", "core", CoreScore, t.rank, t.target, Policy.buffer)

(* _planner_buy_candidates: a trader's proposal on the symbol, whatever it  *)
(* asks for, keeps the basket from buying it.                               *)
PlannedBuys ==
  LET buys == {t \in Trades(given) : t.side = "BUY" /\ t.status = "observed"}
  IN  {TraderRequest(t.sym, Policy.buffer) : t \in {u \in buys : u.source = "trader"}}
      \cup {CoreRequest(t) : t \in {u \in buys : u.source = "core" /\ given.proposed[u.sym] = "none"}}

Requests ==
  IF mode = "plan" THEN PlannedBuys
  ELSE {TraderRequest(s, 0) : s \in {t \in Stocks : given.proposed[t] = "BUY"}}

(* _planner_sort_key: scores are taken before any BUY of the run is counted. *)
RequestKey(r) ==
  <<0 - (IF mode = "fallback" THEN r.score ELSE Score(r, book)), r.rank,
    IF r.source = "trader" THEN 0 ELSE 1, Position[r.sym]>>

OrderBuys ==
  /\ phase = "order"
  /\ phase' = "buys"
  /\ queue' = SortedBy(Requests, [r \in Requests |-> RequestKey(r)])
  /\ UNCHANGED <<mode, given, book, capacity, ledger, funding, pending, orders>>

(* A BUY that was not selected stays behind as HOLD or NO_TRADE. *)
BuyRow(r, d, existing, proceeds) ==
  LET selected == BuyStatus(d) \in SelectedStatuses
      idle == IF r.quantity > 0 THEN "HOLD" ELSE "NO_TRADE"
  IN  [Row(r.sym, IF mode = "plan" THEN r.rank ELSE NoRank, IF selected THEN "BUY" ELSE idle,
           BuyStatus(d), r.value + d.approved, d.quantity, d.approved)
       EXCEPT !.sleeve = d.sleeve, !.existing = existing, !.proceeds = proceeds]

(* One BUY is sized, funded and counted against what is left for the next. *)
AllocateBuy ==
  /\ phase = "buys" /\ queue # <<>>
  /\ LET r == Head(queue)
         d == IF mode = "fallback" THEN FallbackSized(r, book) ELSE Sized(r, book, capacity)
         tracked == IF mode = "plan" /\ BuyStatus(d) \in SelectedStatuses THEN d.approved ELSE 0
         existing == Min({funding.existing, tracked})
         proceeds == Min({funding.proceeds, tracked - existing})
     IN  /\ ledger' = Append(ledger, BuyRow(r, d, existing, proceeds))
         /\ funding' = [existing |-> funding.existing - existing,
                        proceeds |-> funding.proceeds - proceeds]
         /\ book' = IF BuyStatus(d) \in SelectedStatuses THEN WithPending(book, d) ELSE book
  /\ queue' = Tail(queue)
  /\ UNCHANGED <<phase, mode, given, capacity, pending, orders>>

(* A symbol with two rows is finalised and routed by the last one. *)
Final(s) == ledger[Max(RowsOf(s))]

(* quantize(SCORE_QUANT): the approved amount as a share of NAV. *)
StoredTarget(amount) == RoundHalfEven(amount * PctQuanta, Nav(given))

(* PortfolioManagerAgent._approved_quantity, from the stored share alone. *)
TargetQuantity(row) ==
  IF LatestClose(given, row.sym) = 0 THEN 0
  ELSE ((Nav(given) * StoredTarget(row.target)) \div PctQuanta) \div LatestClose(given, row.sym)

ManagerQuantity(row) ==
  CASE row.action = "BUY" -> Above0(TargetQuantity(row) - given.held[row.sym])
    [] row.action = "REDUCE" -> Above0(given.held[row.sym] - TargetQuantity(row))
    [] row.action = "EXIT" -> given.held[row.sym]
    [] OTHER -> 0

(* _allocation_execution_entries *)
Executable(row) ==
  \/ row.status \in SelectedStatuses /\ row.quantity > 0
  \/ row.status = "open_position_management" /\ row.action \in {"REDUCE", "EXIT"}

SideGroup(action) ==
  CASE action \in {"REDUCE", "EXIT"} -> 0 [] action = "BUY" -> 1 [] OTHER -> 2

Routable == {s \in Stocks : RowsOf(s) # {} /\ Executable(Final(s))}

RouteKey(s) == <<SideGroup(Final(s).action), Final(s).rank, Position[s]>>

(* Mutant: routing starts from the cash of the plan, its proceeds included. *)
PlannedCash == given.cash + Spendable(given)

(* _initial_pending_affordability_cash: the latest account alone. *)
RoutingCash == given.cash

OpenRouting ==
  /\ phase = "buys" /\ queue = <<>>
  /\ phase' = "routing"
  /\ queue' = SortedBy(Routable, [s \in Routable |-> RouteKey(s)])
  /\ pending' = RoutingCash
  /\ UNCHANGED <<mode, given, book, capacity, ledger, funding, orders>>

(* _accepted_order_notional_and_costs: a queued order has no fill yet, so its *)
(* worth is the allocated amount scaled to the quantity the broker took.      *)
AcceptedNotional(row, accepted) ==
  IF row.quantity = 0 THEN 0 ELSE (row.approved * accepted) \div row.quantity

Freed(row, accepted) ==
  LET gross == AcceptedNotional(row, accepted)
  IN  (Above0(gross - SellCost(gross)) * Policy.haircut) \div 100

Debited(row, accepted) ==
  LET gross == AcceptedNotional(row, accepted) IN gross + SellCost(gross)

(* What filling the BUY at the latest close would take (_affordable_quantity). *)
BrokerDebit(row, shares) ==
  LET gross == shares * LatestClose(given, row.sym) IN gross + SellCost(gross)

(* The broker caps a SELL by what is held, a BUY by the threaded cash; it    *)
(* derives the quantity of a REDUCE and an EXIT from the positions again.    *)
Accepted(row, approved) ==
  IF row.action = "BUY"
  THEN Max({0} \cup {n \in 1..approved : BrokerDebit(row, n) <= pending})
  ELSE IF approved = 0 THEN 0 ELSE Min({given.held[row.sym], ManagerQuantity(row)})

(* The reviews may reject any order and reduce a BUY. *)
Reviewed(row) ==
  LET n == ManagerQuantity(row)
  IN  {0, n} \cup (IF row.action = "BUY" THEN {n \div 2} ELSE {})

Route ==
  /\ phase = "routing" /\ queue # <<>>
  /\ LET row == Final(Head(queue)) IN
     \E approved \in Reviewed(row) :
       LET n == Accepted(row, approved)
           side == IF row.action = "BUY" THEN "BUY" ELSE "SELL"
       IN  /\ orders' = IF n = 0 THEN orders
                        ELSE Append(orders, [sym |-> row.sym, side |-> side, quantity |-> n,
                                             debit |-> BrokerDebit(row, n)])
           /\ pending' = IF side = "SELL" THEN pending + Freed(row, n)
                         ELSE Above0(pending - Debited(row, n))
  /\ queue' = Tail(queue)
  /\ UNCHANGED <<phase, mode, given, book, capacity, ledger, funding>>

FinishRouting ==
  /\ phase = "routing" /\ queue = <<>>
  /\ phase' = "done"
  /\ UNCHANGED <<mode, given, book, capacity, queue, ledger, funding, pending, orders>>

AllocationNext ==
  \/ phase = "idle" /\ \E in \in Inputs, m \in Modes : Begin(in, m)
  \/ PlanSells \/ Lifecycle \/ OrderBuys \/ AllocateBuy
  \/ OpenRouting \/ Route \/ FinishRouting

AllocationSpec == AllocationInit /\ [][AllocationNext]_allocationVars
=============================================================================
