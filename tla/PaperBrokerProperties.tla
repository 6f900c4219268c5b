----------------------- MODULE PaperBrokerProperties -----------------------
(***************************************************************************)
(* What the paper broker must keep true of its orders, fills and accounts. *)
(***************************************************************************)
EXTENDS PaperBroker

DayOrNone == Days \cup {NoDay}
FillRecord == [day : Days, qty : Nat \ {0}, at : Nat, price : Nat]
OrderRecord == [status : Statuses, policy : {"immediate", "next_open"}, qty : Nat,
                filled : Nat, signal : DayOrNone, filledDay : DayOrNone,
                submitted : Nat]

(* The fields of a session, whatever account it rebuilt. *)
PlaceSession(account) ==
  [op : {"place"}, decision : Decisions, policy : Policies,
   limit : ThreadedCash \cup {NoLimit}, day : DayOrNone, at : Nat,
   state : {account}]
SettleSession(account) ==
  [op : {"settle"}, run : Runs, at : Nat, seq : Nat,
   todo : SUBSET Decisions, written : SUBSET Decisions,
   draft : [Decisions -> [order : OrderRecord, fills : Seq(FillRecord)]],
   state : {account}]
CancelSession == [op : {"cancel"}, decision : Decisions, order : OrderRecord]
IsSession(s) ==
  \/ s = Idle
  \/ s \in CancelSession
  \/ s \in PlaceSession(s.state)
  \/ s \in SettleSession(s.state)

Routes == [op : {"route"}, run : Runs, base : Nat, last : 0..RouteLength,
           routed : SUBSET Symbols]

(* Every row and every session has its shape: quantities of orders are     *)
(* natural numbers, those of fills are positive, dates are those of bars,  *)
(* a route stays within its numbers, and a session only holds what its     *)
(* operation reads.                                                        *)
TypeOK ==
  /\ bars \in [Symbols -> SUBSET Days]
  /\ orders \in [Decisions -> OrderRecord]
  /\ fills \in [Decisions -> Seq(FillRecord)]
  /\ clock \in Nat
  /\ route \in [Actors -> Routes \cup {NoRoute}]
  /\ session = [a \in Actors |-> session[a]]
  /\ \A a \in Actors : IsSession(session[a])

FilledQty(fs) ==
  (IF Len(fs) >= 1 THEN fs[1].qty ELSE 0) + (IF Len(fs) >= 2 THEN fs[2].qty ELSE 0)

StatusAgrees(order, fs) ==
  /\ Len(fs) <= 2
  /\ order.filled = FilledQty(fs)
  /\ order.filled <= order.qty
  /\ order.status \in {"NONE", "PENDING_NEXT_OPEN", "REJECTED"} => fs = <<>>
  /\ order.status = "FILLED" => order.filled = order.qty /\ fs # <<>>
  /\ order.status = "PARTIALLY_FILLED" => order.filled < order.qty /\ fs # <<>>

(* An order row and its fill rows always tell the same story: an order     *)
(* that is not executed has no fills, and an executed one has fills for    *)
(* exactly its filled quantity, which is all of the order when the status  *)
(* is FILLED and less when it is PARTIALLY_FILLED.                         *)
OrderFillsAgree == \A d \in Decisions : StatusAgrees(orders[d], fills[d])

AtFirstOpen(d, order, fs, imported) ==
  order.policy = "next_open" /\ fs # <<>> =>
    /\ Len(fs) = 1
    /\ order.filledDay = fs[1].day
    /\ fs[1].day > order.signal
    /\ fs[1].day \in imported
    /\ \A x \in imported : x > order.signal => fs[1].day <= x
    /\ fs[1].price = FillPrice(SideOf(d), Open[SymbolOf[d]][fs[1].day])

(* A queued order is executed by one fill, at the slipped open of the      *)
(* first daily bar after the bar its decision was made on, never on that   *)
(* bar and never on a later one, however many bars a missed run left.      *)
NextOpenFillAtFirstOpen ==
  \A d \in Decisions : AtFirstOpen(d, orders[d], fills[d], bars[SymbolOf[d]])

(* A condition on how the processes are run, which the code neither checks *)
(* nor ensures: a time is read, for the orders of a route or for a         *)
(* settlement, only when the stamps of the rows stored so far have passed. *)
StampsHavePassed ==
  clock' # clock =>
    /\ \A e \in Entries(fills) : FillAt(fills, e).at < clock'
    /\ \A r \in Runs : accounts[r].at < clock'

(* Replaying the stored fills never meets a SELL of more than is held:     *)
(* such a SELL would be credited for shares that were not there.           *)
SellsCovered ==
  \A e \in Entries(fills) :
    SideOf(e[1]) = "SELL" =>
      LET before == {f \in Entries(fills) \ {e} : NotBefore(fills, e, f)} IN
      FillAt(fills, e).qty <= ReplayOf(fills, before).held[SymbolOf[e[1]]]

PhaseOf(status) ==
  CASE status = "NONE" -> "new"
    [] status = "PENDING_NEXT_OPEN" -> "queued"
    [] status \in {"FILLED", "PARTIALLY_FILLED"} -> "executed"
    [] status = "REJECTED" -> "refused"
    [] status = "CANCELLED" -> "cancelled"

Ledger == INSTANCE PortfolioLedger WITH
  Side <- [d \in Decisions |-> SideOf(d)],
  phase <- [d \in Decisions |-> PhaseOf(orders[d].status)],
  asked <- [d \in Decisions |-> orders[d].qty],
  done <- [d \in Decisions |-> orders[d].filled],
  held <- Replay(fills).held

(* The broker of one process keeps the promises of the abstract ledger:    *)
(* the holdings replayed from the fill rows move exactly by what the order *)
(* rows say was executed, each decision is finished once, and never beyond *)
(* what was asked.                                                         *)
ImplementsLedger == Ledger!Spec

RoundingSlack == 3

(* The cash of the portfolio never goes below zero by more than what the   *)
(* rounding of scaled costs can hide.                                      *)
CashFloor == Replay(fills).cash >= -RoundingSlack

(* As long as every order was queued for the next open, the cash stays     *)
(* above that floor, although nothing is reserved for a queued BUY and a   *)
(* caller may pass more cash than there is when it queues one: settlement  *)
(* trims each BUY to the cash its turn finds (settle_pending_next_open_    *)
(* orders).                                                                *)
QueuedOrdersKeepCash ==
  (\A d \in Decisions : orders[d].status # "NONE" => orders[d].policy = "next_open")
    => CashFloor

(* The account row with the latest time, which every reader of "the        *)
(* portfolio" takes, is the account that all stored fills add up to.       *)
LatestAccountCurrent ==
  LET now == Replay(fills) IN
  \E r \in Runs :
    /\ \A q \in Runs : accounts[q].at <= accounts[r].at
    /\ accounts[r].cash = now.cash
    /\ accounts[r].held = now.held

(* What has been filled stays as it was filled.                            *)
FillsAreFinal ==
  [][\A d \in Decisions : fills[d] # <<>> => fills'[d] = fills[d]]_vars

(* An order leaves the queue for good: once it has been settled, rejected  *)
(* or cancelled its row does not change, except that what a partial fill   *)
(* left over may be cancelled.                                             *)
LeavesQueueOnce ==
  [][\A d \in Decisions :
       orders[d].status \in TerminalStatuses /\ orders'[d] # orders[d] =>
         /\ orders[d].status = "PARTIALLY_FILLED"
         /\ orders'[d] = [orders[d] EXCEPT !.status = "CANCELLED"]]_vars
=============================================================================
