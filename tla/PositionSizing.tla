------------------------------ MODULE PositionSizing ------------------------------
(***************************************************************************)
(* How many shares a BUY may take: portfolio/active_allocation.py and the  *)
(* settings fallback of portfolio/run_allocation.py.  Money is counted in  *)
(* whole units, rounding to a paisa is left out, a price that does not     *)
(* divide an amount is not: quantities are rounded down as in the code.    *)
(* A book is what the allocator believes is held while it walks the buys:  *)
(*   [qty, value: Stocks -> Nat, exposure, drawdown: Sleeves -> Nat,       *)
(*    cash, nav: Nat].                                                     *)
(* A request is [sym, sleeve, score, target, quantity, value, buffer]: the *)
(* proposal with what was held when it was made (quantity, value), the     *)
(* target amount, and the price buffer in percent.  Percentages of NAV are *)
(* carried as the amounts they stand for.                                  *)
(***************************************************************************)
EXTENDS Decimals, Sequences, FiniteSets, SequencesExt, FiniteSetsExt

CONSTANTS
  Stocks,            \* the symbols a run allocates over
  Sleeves,           \* sleeves a strategy can be mapped to (ALLOCATABLE_SLEEVE_IDS)
  Price,             \* Price[s]: latest close
  VolatilityPct,     \* VolatilityPct[s]: 35..100, the damping of the risk budget
  SectorOf,          \* SectorOf[s]: sector, or "none" when unknown
  ClusterOf,         \* ClusterOf[s]: graph cluster, or "none"
  StartingNav,       \* the corpus the drawdown is measured from
  Policy             \* the money-management policy, a record of percentages

(* What the settings and the policy's validators let through.              *)
ASSUME SizingAssumption ==
  /\ IsFiniteSet(Stocks) /\ IsFiniteSet(Sleeves)
  /\ Price \in [Stocks -> Nat] /\ VolatilityPct \in [Stocks -> Nat] /\ StartingNav \in Int
  /\ \A field \in {"stopLoss", "rejectBelow", "normalFrom", "strongFrom", "sectorPenalty",
                    "clusterPenalty", "normalRisk", "strongRisk", "sleeveReduceAbove",
                    "sleeveFreezeAbove", "openRisk", "totalRisk", "experimentalRisk",
                    "stockCap", "hardStockCap", "sectorCap", "clusterCap", "maxOpen",
                    "cashBuffer", "buffer", "fallbackMaxOpen", "fallbackStockCap"} :
       Policy[field] \in Nat
  /\ IsFiniteSet(Policy.governors) /\ Policy.sleeveReduceBy \in 0..100
  /\ \A g \in Policy.governors : g.above \in Nat /\ g.keep \in Nat

Unlimited == 1000000

(* _pct_to_notional: a share of the net asset value. *)
Pct(percent, nav) == IF percent <= 0 \/ nav <= 0 THEN 0 ELSE (nav * percent) \div 100

Above0(n) == Max({0, n})

SizingPrice(r) == (r.price * (100 + r.buffer)) \div 100
RiskPerShare(r) == (SizingPrice(r) * Policy.stopLoss) \div 100

RiskToNotional(risk, price, r) ==
  IF risk <= 0 \/ RiskPerShare(r) <= 0 THEN 0 ELSE price * (risk \div RiskPerShare(r))

Peers(s, groupOf) == {t \in Stocks \ {s} : groupOf[s] # "none" /\ groupOf[t] = groupOf[s]}

ValueOf(S, book) == SumOver(book.value, S)

(* The score falls with every peer that is held already; the remaining parts *)
(* of the score do not change while the run is allocated.                    *)
Score(r, book) ==
  LET held(S) == Cardinality({t \in S : book.qty[t] > 0})
  IN  Above0(r.score - Policy.sectorPenalty * held(Peers(r.sym, SectorOf))
                     - Policy.clusterPenalty * held(Peers(r.sym, ClusterOf)))

(* Percent of NAV a trade may risk; 0 stands for the band "reject". *)
BandRisk(score) ==
  CASE score < Policy.rejectBelow -> 0
    [] score >= Policy.rejectBelow /\ score < Policy.normalFrom -> Policy.normalRisk \div 2
    [] score >= Policy.normalFrom /\ score < Policy.strongFrom -> Policy.normalRisk
    [] OTHER -> Policy.strongRisk

PortfolioDrawdown(nav) ==
  IF StartingNav <= 0 THEN 0 ELSE Above0(((StartingNav - nav) * 100) \div StartingNav)

(* The drawdown governors that are exceeded, for a sleeve. *)
Exceeded(book) == {g \in Policy.governors : PortfolioDrawdown(book.nav) > g.above}

Frozen(sleeve, book) ==
  \/ \E g \in Exceeded(book) :
       g.action = "freeze" \/ (g.action = "stop_experimental" /\ sleeve = "experimental")
  \/ book.drawdown[sleeve] > Policy.sleeveFreezeAbove

ScalePct(sleeve, book) ==
  Min({100} \cup {g.keep : g \in {h \in Exceeded(book) : h.action = "reduce"}}
            \cup (IF book.drawdown[sleeve] > Policy.sleeveReduceAbove
                  THEN {100 - Policy.sleeveReduceBy} ELSE {}))

Requested(r) == Above0(r.target - r.value)

GroupRoom(s, groupOf, cap, book) ==
  IF groupOf[s] = "none" THEN Unlimited
  ELSE Above0(Pct(cap, book.nav) - ValueOf(Peers(s, groupOf), book))

CashRoom(book) == Above0(book.cash - Pct(Policy.cashBuffer, book.nav))

(* Mutant: what is held already does not count. *)
StockRoomAfresh(r, book) == Above0(Pct(Policy.stockCap, book.nav))

StockRoom(r, book) == Above0(Pct(Policy.stockCap, book.nav) - r.value)

OpenPositionRoom(r, book, limit) ==
  IF r.quantity > 0 \/ Cardinality({s \in Stocks : book.qty[s] > 0}) < limit
  THEN Unlimited ELSE 0

Rooms(r, book, capacity) ==
  LET risk == (Pct(BandRisk(Score(r, book)), book.nav) * VolatilityPct[r.sym]
                 * ScalePct(r.sleeve, book)) \div 10000
      openRisk == (ValueOf(Stocks \ {r.sym}, book) * Policy.openRisk) \div 100
  IN  [cash_buffer |-> CashRoom(book),
       graph_concentration |-> GroupRoom(r.sym, ClusterOf, Policy.clusterCap, book),
       open_positions |-> OpenPositionRoom(r, book, Policy.maxOpen),
       requested_notional |-> Requested(r),
       sector_concentration |-> GroupRoom(r.sym, SectorOf, Policy.sectorCap, book),
       sleeve_capacity |-> Above0(capacity[r.sleeve] - book.exposure[r.sleeve]),
       sleeve_trade_risk_cap |->
         IF r.sleeve # "experimental" THEN Unlimited
         ELSE RiskToNotional(Pct(Policy.experimentalRisk, book.nav), SizingPrice(r), r),
       stock_exposure |-> StockRoom(r, book),
       total_open_trade_risk |->
         RiskToNotional(Above0(Pct(Policy.totalRisk, book.nav) - openRisk), SizingPrice(r), r),
       trade_risk |-> RiskToNotional(risk, r.price, r)]

(* min(caps.items(), key=(room, name)): the names are listed in their order. *)
RoomNames == <<"cash_buffer", "graph_concentration", "open_positions", "requested_notional",
               "sector_concentration", "sleeve_capacity", "sleeve_trade_risk_cap",
               "stock_exposure", "total_open_trade_risk", "trade_risk">>

Binding(rooms, names) ==
  LET least == Min({rooms[n] : n \in ToSet(names)})
  IN  names[SelectInSeq(names, LAMBDA n : rooms[n] = least)]

(* Names whose binding only says that the run had no resources left. *)
ResourceConstraints == ToSet(RoomNames) \ {"requested_notional"}

Refused(r, binding) ==
  [sym |-> r.sym, sleeve |-> r.sleeve, requested |-> Requested(r), approved |-> 0,
   quantity |-> 0, binding |-> binding]

(* PortfolioAllocationService.allocate for a BUY. *)
Sized(r, book, capacity) ==
  LET rooms == Rooms(r, book, capacity)
      binding == Binding(rooms, RoomNames)
      quantity == rooms[binding] \div SizingPrice(r)
  IN  CASE Frozen(r.sleeve, book) -> Refused(r, "drawdown_freeze")
        [] ~Frozen(r.sleeve, book) /\ (r.price <= 0 \/ RiskPerShare(r) <= 0)
             -> Refused(r, "invalid_stop_loss_or_price")
        [] ~Frozen(r.sleeve, book) /\ r.price > 0 /\ RiskPerShare(r) > 0
             /\ BandRisk(Score(r, book)) = 0
             -> Refused(r, "candidate_score_below_entry_floor")
        [] OTHER -> [sym |-> r.sym, sleeve |-> r.sleeve, requested |-> Requested(r),
                     approved |-> r.price * quantity, quantity |-> quantity,
                     binding |-> binding]

(* _fallback_buy_decision: without a money-management policy only four rooms *)
(* exist, the price is not buffered and the score floor is fixed.            *)
FallbackNames == <<"available_cash", "open_positions", "requested_notional", "stock_exposure">>

FallbackSized(r, book) ==
  LET rooms == [available_cash |-> Above0(book.cash),
                open_positions |-> OpenPositionRoom(r, book, Policy.fallbackMaxOpen),
                requested_notional |-> Requested(r),
                stock_exposure |-> Above0(Pct(Policy.fallbackStockCap, book.nav) - r.value)]
      binding == Binding(rooms, FallbackNames)
      quantity == rooms[binding] \div r.price
  IN  CASE r.price <= 0 -> Refused(r, "invalid_latest_price")
        [] r.price > 0 /\ r.score < 50 -> Refused(r, "candidate_score_below_fallback_floor")
        [] OTHER -> [sym |-> r.sym, sleeve |-> "settings_fallback", requested |-> Requested(r),
                     approved |-> r.price * quantity, quantity |-> quantity,
                     binding |-> binding]

(* _money_management_buy_status and _fallback_buy_status. *)
BuyStatus(d) ==
  CASE d.quantity > 0 /\ d.binding = "requested_notional" -> "selected"
    [] d.quantity > 0 /\ d.binding # "requested_notional" -> "allocation_reduced"
    [] d.quantity = 0 /\ d.binding \in ResourceConstraints \cup {"available_cash"} -> "not_selected"
    [] OTHER -> "allocation_rejected"

SelectedStatuses == {"selected", "allocation_reduced"}

(* Mutant: a later BUY sees the position and not the cash taken. *)
WithPendingPosition(book, d) ==
  [book EXCEPT !.qty[d.sym] = @ + d.quantity, !.value[d.sym] = @ + d.approved]

(* _positions_with_pending_allocation and _sleeves_with_pending_allocation. *)
WithPending(book, d) ==
  [book EXCEPT !.qty[d.sym] = @ + d.quantity,
               !.value[d.sym] = @ + d.approved,
               !.exposure = [s \in DOMAIN @ |-> @[s] + IF s = d.sleeve THEN d.approved ELSE 0],
               !.cash = Above0(@ - d.approved)]
=============================================================================
