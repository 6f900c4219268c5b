--------------------------- MODULE RunAllocationProperties ---------------------------
(***************************************************************************)
(* What an allocated and routed run must keep.                             *)
(***************************************************************************)
EXTENDS RunAllocation

Rows == {ledger[i] : i \in DOMAIN ledger}
SelectedRows == {row \in Rows : row.status \in SelectedStatuses}
Approved(S) == SumOver([i \in S |-> ledger[i].approved], S)
Queued(side) == {i \in DOMAIN orders : orders[i].side = side}

(* Every variable has its type. *)
AllocationTypeOK ==
  /\ phase \in {"idle", "sells", "lifecycle", "order", "buys", "routing", "done"}
  /\ mode \in Modes \cup {"none"}
  /\ book.cash \in Nat /\ capacity \in [Sleeves -> Nat]
  /\ funding \in [existing : Nat, proceeds : Nat] /\ pending \in Nat
  /\ \A row \in Rows : row.sym \in Stocks /\ row.quantity \in Nat /\ row.approved \in Nat
  /\ \A i \in DOMAIN orders : orders[i].sym \in Stocks /\ orders[i].quantity \in Nat \ {0}

(* The BUYs of a run together leave the cash buffer alone: what they take    *)
(* fits the cash above the buffer and the haircut share of the planned       *)
(* proceeds, however they were ordered and sized one after the other.        *)
BudgetKept ==
  LET spent == Approved({i \in DOMAIN ledger : ledger[i].status \in SelectedStatuses})
      proceeds == IF mode = "plan" THEN Spendable(given) ELSE 0
      buffer == IF mode = "fallback" THEN 0 ELSE Pct(Policy.cashBuffer, Nav(given))
  IN  spent > 0 => spent <= given.cash + proceeds - buffer

(* A planned BUY is paid for entirely: the cash and the proceeds recorded as *)
(* its funding add up to the approved amount.                                *)
FundingComplete ==
  mode = "plan" => \A row \in SelectedRows : row.existing + row.proceeds = row.approved

(* Capacity is lent, not made: when the BUYs of a run are sized, the sleeves *)
(* that lend and the sleeves that borrow hold together no more than their    *)
(* targets, except for what one of them held above its target before.        *)
BorrowingMovesCapacity ==
  LET parties == ToSet(Policy.lenders) \cup ToSet(Policy.borrowers)
      before(v) == Max({SleeveTarget(given, v), Exposure(given, v)})
  IN  mode = "plan" =>
        SumOver(book.exposure, parties) <= SumOver([v \in parties |-> before(v)], parties)

(* Whatever a run allocates is paid for, from money that is there and from   *)
(* capacity a sleeve has (run_allocation.py, the sizing loop).               *)
PlanIsFunded == BudgetKept /\ FundingComplete /\ BorrowingMovesCapacity

(* No BUY takes its stock past the exposure cap, whatever else the run does. *)
PositionLimitKept ==
  \A row \in SelectedRows :
    row.target <= Pct(IF mode = "fallback" THEN Policy.fallbackStockCap ELSE Policy.stockCap,
                      Nav(given))

(* A stock that enters the portfolio enters a sector with room for it.       *)
SectorCapOnEntry ==
  mode \in {"plan", "policy"} =>
    \A row \in SelectedRows :
      (given.held[row.sym] = 0 /\ SectorOf[row.sym] # "none") =>
        LET sector == {s \in Stocks : SectorOf[s] = SectorOf[row.sym]}
            earlier == {i \in DOMAIN ledger : /\ ledger[i].sym \in sector
                                              /\ ledger[i].status \in SelectedStatuses
                                              /\ i <= Max(RowsOf(row.sym))}
        IN  HeldValue(given, sector) + Approved(earlier) <= Pct(Policy.sectorCap, Nav(given))

(* The caps of position_sizing.py hold over the whole run, although each BUY *)
(* is sized on its own from the rows approved before it.                     *)
EntryCapsKept == PositionLimitKept /\ SectorCapOnEntry

(* The shares that go to the broker are the shares that were allocated; the  *)
(* rounding of the stored percentage loses one share at most and never adds. *)
FinalQuantityIsAllocated ==
  \A row \in SelectedRows : ManagerQuantity(row) \in {row.quantity, row.quantity - 1}

(* Filling every queued BUY at the latest close takes no more than the       *)
(* account held and the haircut share of the SELLs that were queued first.   *)
QueuedBuysArePaid ==
  LET freed == [i \in DOMAIN orders |-> Freed(Final(orders[i].sym), orders[i].quantity)]
      debits == [i \in DOMAIN orders |-> orders[i].debit]
  IN  phase \in {"routing", "done"} =>
        SumOver(debits, Queued("BUY")) <= given.cash + SumOver(freed, Queued("SELL"))

(* Once an order is a BUY, no later order of the run is a SELL.              *)
SellsBeforeBuys ==
  \A i, j \in DOMAIN orders : i < j /\ orders[i].side = "BUY" => orders[j].side = "BUY"

(* What is routed is what was allocated, in an order in which it is paid for *)
(* (service.py, _route_symbol_execution and _route_run_execution).           *)
ExecutionFollowsAllocation ==
  FinalQuantityIsAllocated /\ QueuedBuysArePaid /\ SellsBeforeBuys

(* The documents: only the haircut share of the proceeds of an accepted SELL *)
(* may pay for BUYs; the cash a queued SELL frees is that share of its worth. *)
(* The code scales the planned notional by the accepted over the planned     *)
(* quantity. The plan rounds its shares down and the broker sells up to one  *)
(* share more, so that what is freed can differ from what will be sold.      *)
FreedCashIsBacked ==
  \A i \in Queued("SELL") :
    Freed(Final(orders[i].sym), orders[i].quantity)
      <= (orders[i].quantity * LatestClose(given, orders[i].sym) * Policy.haircut) \div 100
=============================================================================
