---------------------------- MODULE PaperBroker ----------------------------
(***************************************************************************)
(* The paper broker of one portfolio: placing an approved decision, either *)
(* at once or queued for the next open, settling the queue when newer      *)
(* daily bars have been imported, and cancelling an order.                 *)
(*                                                                         *)
(* A session is one call of the broker by one process on a database        *)
(* session of its own.  It reads the stored fills when it begins, works on *)
(* the account it rebuilt from them, and commits once at its end, so calls *)
(* of different processes interleave between the read and the commit.      *)
(* What the database adds is modelled as PostgreSQL's READ COMMITTED gives *)
(* it: a row a session has written or deleted stays locked until that      *)
(* session commits or aborts, and rows it has read may be changed by       *)
(* others before it writes them.                                           *)
(*                                                                         *)
(* Rows are stamped in seconds from a time read before the work: a daily   *)
(* run numbers its orders from the beginning of its route on, one second   *)
(* each, the monitor stamps all orders of an iteration with its beginning, *)
(* and a settlement stamps its k-th order k seconds after its own.  So a   *)
(* stamp may still lie ahead when the row is stored, and the stamps of one *)
(* route overlap.                                                          *)
(***************************************************************************)
EXTENDS FillCosts, FiniteSets, SequencesExt

CONSTANTS
  Symbols,
  Decisions,        \* approved final decisions
  Days,             \* trade dates, positive
  Runs,             \* paper run ids: each owns one account row
  Actors,           \* processes that call the broker
  SymbolOf, ActionOf, ApprovedQty, RunOf,   \* of a decision
  Open, Close,      \* prices of the daily bar of a symbol and a day
  StartingCorpus,
  ThreadedCash,     \* cash limits a caller may pass for a queued BUY
  Policies,         \* execution policies the callers use
  Operations,       \* calls the processes make
  MonitorRuns,      \* the runs that are iterations of the position monitor
  RouteLength,      \* bound on the symbols a daily run finalises
  Pauses,           \* seconds from one reading of the clock to the next
  MaxTime           \* bound on the clock

NoDay == 0
NoLimit == -1
Actions == {"BUY", "REDUCE", "EXIT"}
TerminalStatuses == {"FILLED", "PARTIALLY_FILLED", "REJECTED", "CANCELLED"}
Statuses == {"NONE", "PENDING_NEXT_OPEN"} \cup TerminalStatuses

ASSUME DecisionsAssumption ==
  /\ SymbolOf \in [Decisions -> Symbols]
  /\ ActionOf \in [Decisions -> Actions]
  /\ ApprovedQty \in [Decisions -> Nat \ {0}]
  /\ RunOf \in [Decisions -> Runs]
ASSUME BarsAssumption ==
  /\ Days \subseteq Nat \ {0}
  /\ Open \in [Symbols -> [Days -> Nat \ {0}]]
  /\ Close \in [Symbols -> [Days -> Nat \ {0}]]
ASSUME BrokerAssumption ==
  /\ StartingCorpus \in Nat
  /\ ThreadedCash \subseteq Nat
  /\ Policies \subseteq {"immediate", "next_open"}
  /\ Operations \subseteq {"place", "reroute", "settle", "cancel"}
  /\ MonitorRuns \subseteq Runs
  /\ RouteLength \in Nat
  /\ Pauses \subseteq Nat \ {0}
  /\ MaxTime \in Nat

VARIABLES
  bars,      \* imported days of each symbol
  orders,    \* the order row of each decision
  fills,     \* its fill rows, by fill_sequence
  accounts,  \* the account row of each run
  clock,     \* the time that was read last
  route,     \* the orders each process is routing: their run, the time they
             \* are stamped from, the last number and the symbols it has tried
  session    \* what each process is doing
vars == <<bars, orders, fills, accounts, clock, route, session>>

SideOf(d) == IF ActionOf[d] = "BUY" THEN "BUY" ELSE "SELL"

NoOrder == [status |-> "NONE", policy |-> "immediate", qty |-> 0, filled |-> 0,
            signal |-> NoDay, filledDay |-> NoDay, submitted |-> 0]
NoHoldings == [s \in Symbols |-> 0]
StartState == [cash |-> StartingCorpus, held |-> NoHoldings]
NoAccount == [at |-> 0, cash |-> StartingCorpus, held |-> NoHoldings]
Idle == [op |-> "idle"]
NoRoute == [op |-> "none"]

Order(status, policy, qty, filled, signal, filledDay, submitted) ==
  [status |-> status, policy |-> policy, qty |-> qty, filled |-> filled,
   signal |-> signal, filledDay |-> filledDay, submitted |-> submitted]

-----------------------------------------------------------------------------
(* The account rebuilt from the stored fills.                              *)

(* A BUY is always charged; a SELL removes what is held of it, and nothing *)
(* at all happens when nothing is held, but its proceeds are the whole     *)
(* fill's.                                                                 *)
ApplyFill(d, fill, st) ==
  LET s == SymbolOf[d]
      sold == IF fill.qty < st.held[s] THEN fill.qty ELSE st.held[s]
  IN  IF SideOf(d) = "BUY"
      THEN [cash |-> st.cash - Debit(fill),
            held |-> [st.held EXCEPT ![s] = @ + fill.qty]]
      ELSE IF sold = 0 THEN st
      ELSE [cash |-> st.cash + Proceeds(fill),
            held |-> [st.held EXCEPT ![s] = @ - sold]]

(* Mutant: only the first part of a split order reaches the account. *)
ApplyFirstFill(d, fs, st) == IF fs = <<>> THEN st ELSE ApplyFill(d, fs[1], st)

ApplyFills(d, fs, st) == FoldLeft(LAMBDA acc, f : ApplyFill(d, f, acc), st, fs)

(* An entry <<d, i>> of a book is the i-th fill of decision d. *)
Entries(book) == {e \in Decisions \X {1, 2} : e[2] <= Len(book[e[1]])}
FillAt(book, e) == book[e[1]][e[2]]
NotBefore(book, e, f) ==
  \/ FillAt(book, e).at > FillAt(book, f).at
  \/ FillAt(book, e).at = FillAt(book, f).at /\ e[2] >= f[2]

(* ORDER BY filled_at, fill_sequence. *)
ReplayOf(book, entries) ==
  MapThenFoldSet(LAMBDA e, st : ApplyFill(e[1], FillAt(book, e), st),
                 StartState,
                 LAMBDA e : e,
                 LAMBDA es : CHOOSE e \in es : \A f \in es : NotBefore(book, e, f),
                 entries)
Replay(book) == ReplayOf(book, Entries(book))

-----------------------------------------------------------------------------
(* What a session reads.                                                   *)

LatestDay(s) == IF bars[s] = {} THEN NoDay
                ELSE CHOOSE x \in bars[s] : \A y \in bars[s] : y <= x

AfterSignal(s, signal) == {x \in bars[s] : x > signal}

(* Mutant: after missed runs, the latest bar instead of the first. *)
LastAfter(s, signal) ==
  CHOOSE x \in AfterSignal(s, signal) : \A y \in AfterSignal(s, signal) : x >= y

FirstAfter(s, signal) ==
  CHOOSE x \in AfterSignal(s, signal) : \A y \in AfterSignal(s, signal) : x <= y

(* Row locks: a placement holds the rows of the decision it deleted, a     *)
(* settlement those of the orders it has replaced.                         *)
HoldsLock(a, d) ==
  \/ session[a].op = "place" /\ session[a].decision = d
  \/ session[a].op = "settle" /\ d \in session[a].written
LockedByOther(a, d) == \E b \in Actors \ {a} : HoldsLock(b, d)

(* Mutant: what a partial fill left over is settled as well. *)
OpenOrders ==
  {d \in Decisions : orders[d].status \in {"PENDING_NEXT_OPEN", "PARTIALLY_FILLED"}}

SettlementQueue ==
  {d \in Decisions : orders[d].status = "PENDING_NEXT_OPEN"}

ReadClock ==
  /\ \E pause \in Pauses : clock' = clock + pause
  /\ clock' <= MaxTime
StartSession(a, s) ==
  /\ session[a] = Idle
  /\ session' = [session EXCEPT ![a] = s]

-----------------------------------------------------------------------------
(* The route of a run, or an iteration of the monitor, reads the clock.    *)
BeginRoute(a, run) ==
  /\ "place" \in Operations
  /\ session[a] = Idle
  /\ ReadClock
  /\ route' = [route EXCEPT ![a] = [op |-> "route", run |-> run, base |-> clock',
                                   last |-> 0, routed |-> {}]]
  /\ UNCHANGED <<bars, orders, fills, accounts, session>>

(* A symbol that is skipped uses up its number. *)
Numbers(r) == IF r.run \in MonitorRuns THEN {0} ELSE (r.last + 1)..RouteLength

(* A run has one decision on a symbol, and the monitor always fills at once. *)
MayRoute(a, d, policy) ==
  /\ route[a] # NoRoute /\ route[a].run = RunOf[d]
  /\ SymbolOf[d] \notin route[a].routed
  /\ RunOf[d] \in MonitorRuns => policy = "immediate"

-----------------------------------------------------------------------------
(* place_order                                                             *)

(* A decision is placed once by the run that made it ("place"), stamped    *)
(* from the beginning of its route, and may be routed again by a command   *)
(* ("reroute"), stamped with the decision's own time.                      *)
Placement(d, policy, limit, at) ==
  [op |-> "place", decision |-> d, policy |-> policy, limit |-> limit,
   day |-> LatestDay(SymbolOf[d]), at |-> at,
   state |-> Replay([fills EXCEPT ![d] = <<>>])]

WithOrder(r, number, s) ==
  [op |-> "route", run |-> r.run, base |-> r.base, last |-> number,
   routed |-> r.routed \cup {s}]

BeginPlace(a, d, policy, limit) ==
  LET first == orders[d].status = "NONE"
  IN  /\ IF first THEN "place" \in Operations /\ MayRoute(a, d, policy)
         ELSE "reroute" \in Operations
      /\ limit # NoLimit => policy = "next_open" /\ ActionOf[d] = "BUY"
      /\ ~LockedByOther(a, d)
      /\ \E number \in IF first THEN Numbers(route[a]) ELSE {0} :
           /\ StartSession(a, Placement(d, policy, limit,
                                        IF first THEN route[a].base + number
                                        ELSE orders[d].submitted))
           /\ route' = IF first
                       THEN [route EXCEPT ![a] = WithOrder(@, number, SymbolOf[d])]
                       ELSE route
      /\ UNCHANGED <<bars, orders, fills, accounts, clock>>

(* _execution_quantity: the size of a REDUCE follows from the target share *)
(* of NAV, which may ask for any part of the holding.                      *)
ExecutionQuantities(d, st) ==
  CASE ActionOf[d] = "BUY"    -> {ApprovedQty[d]}
    [] ActionOf[d] = "EXIT"   -> {st.held[SymbolOf[d]]}
    [] ActionOf[d] = "REDUCE" -> 0..st.held[SymbolOf[d]]

PositiveQuantities(d, st) == ExecutionQuantities(d, st) \cap (Nat \ {0})

(* _build_fills: the first part at the open, the second at the close. *)
PlannedFills(d, n, open, close, day, at) ==
  LET plan == FillPlan(n) IN
  [i \in 1..Len(plan) |->
     [day |-> day, qty |-> plan[i], at |-> at + i,
      price |-> FillPrice(SideOf(d), IF i = 1 THEN open ELSE close)]]

(* Mutant: a SELL is not capped by what is held. *)
AffordableUncapped(d, q, n, planned, cash, st) ==
  IF SideOf(d) = "SELL" THEN q = n ELSE IsAffordable(q, n, planned, cash)

(* _affordable_quantity *)
Affordable(d, q, n, planned, cash, st) ==
  IF SideOf(d) = "SELL"
  THEN q = IF n < st.held[SymbolOf[d]] THEN n ELSE st.held[SymbolOf[d]]
  ELSE IsAffordable(q, n, planned, cash)

StorePlacement(a, order, newFills, st) ==
  LET s == session[a] IN
  /\ orders' = [orders EXCEPT ![s.decision] = order]
  /\ fills' = [fills EXCEPT ![s.decision] = newFills]
  /\ accounts' = [accounts EXCEPT ![RunOf[s.decision]] =
                    [at |-> s.at, cash |-> st.cash, held |-> st.held]]
  /\ session' = [session EXCEPT ![a] = Idle]
  /\ UNCHANGED <<bars, clock, route>>

QueuePreview(s, n) ==
  LET close == Close[SymbolOf[s.decision]][s.day] IN
  PlannedFills(s.decision, n, close, close, s.day, s.at)
ImmediateFills(s, n) ==
  LET sym == SymbolOf[s.decision] IN
  PlannedFills(s.decision, n, Open[sym][s.day], Close[sym][s.day], s.day, s.at)
CashFor(s) == IF s.limit = NoLimit THEN s.state.cash ELSE s.limit

PlaceRejected(a) ==
  LET s == session[a]
      d == s.decision
      signal == IF s.policy = "next_open" THEN s.day ELSE NoDay
      reject(qty) == StorePlacement(
        a, Order("REJECTED", s.policy, qty, 0, signal, NoDay, s.at), <<>>, s.state)
  IN  /\ s.op = "place"
      /\ \/ s.day = NoDay /\ reject(ApprovedQty[d])
         \/ s.day # NoDay /\ 0 \in ExecutionQuantities(d, s.state)
            /\ reject(ApprovedQty[d])
         \/ \E n \in PositiveQuantities(d, s.state) :
              /\ s.day # NoDay
              /\ IF s.policy = "next_open"
                 THEN Affordable(d, 0, n, QueuePreview(s, n), CashFor(s), s.state)
                 ELSE Affordable(d, 0, n, ImmediateFills(s, n), s.state.cash, s.state)
              /\ reject(n)

PlaceQueued(a) ==
  LET s == session[a]
      d == s.decision
  IN  /\ s.op = "place" /\ s.policy = "next_open" /\ s.day # NoDay
      /\ \E n \in PositiveQuantities(d, s.state) : \E q \in 1..n :
           /\ Affordable(d, q, n, QueuePreview(s, n), CashFor(s), s.state)
           /\ StorePlacement(
                a, Order("PENDING_NEXT_OPEN", "next_open", q, 0, s.day, NoDay, s.at),
                <<>>, s.state)

(* The reduced quantity is planned again from the start. *)
PlaceFilled(a) ==
  LET s == session[a]
      d == s.decision
  IN  /\ s.op = "place" /\ s.policy = "immediate" /\ s.day # NoDay
      /\ \E n \in PositiveQuantities(d, s.state) : \E q \in 1..n :
           /\ Affordable(d, q, n, ImmediateFills(s, n), s.state.cash, s.state)
           /\ StorePlacement(
                a, Order(IF q = n THEN "FILLED" ELSE "PARTIALLY_FILLED",
                         "immediate", n, q, NoDay, NoDay, s.at),
                ImmediateFills(s, q), ApplyFills(d, ImmediateFills(s, q), s.state))

-----------------------------------------------------------------------------
(* settle_pending_next_open_orders                                         *)

(* rows are the order rows as read: the session keeps them and never reads *)
(* them again.  draft holds the rows it has written and not yet committed. *)
BeginSettle(a, run) ==
  /\ "settle" \in Operations /\ run \notin MonitorRuns
  /\ ReadClock
  /\ StartSession(a, [op |-> "settle", run |-> run, at |-> clock',
                      todo |-> SettlementQueue, written |-> {}, seq |-> 0,
                      draft |-> [d \in Decisions |->
                                   IF d \in SettlementQueue
                                   THEN [order |-> orders[d], fills |-> <<>>]
                                   ELSE [order |-> NoOrder, fills |-> <<>>]],
                      state |-> Replay(fills)])
  /\ route' = [route EXCEPT ![a] = NoRoute]
  /\ UNCHANGED <<bars, orders, fills, accounts>>

(* submitted_at, then order_id *)
IsNext(s, d) ==
  /\ d \in s.todo
  /\ \A e \in s.todo : s.draft[d].order.submitted <= s.draft[e].order.submitted

SettleWaits(a) ==
  LET s == session[a] IN
  /\ s.op = "settle"
  /\ \E d \in s.todo :
       /\ IsNext(s, d)
       /\ AfterSignal(SymbolOf[d], s.draft[d].order.signal) = {}
       /\ session' = [session EXCEPT ![a].todo = @ \ {d}]
  /\ UNCHANGED <<bars, orders, fills, accounts, clock, route>>

(* replace_pending_next_open_order finds its row by order_id, which names  *)
(* the decision and the quantity.                                          *)
CanWrite(a, d) ==
  /\ ~LockedByOther(a, d)
  /\ orders[d].status # "NONE"
  /\ orders[d].qty = session[a].draft[d].order.qty

NextOpenFill(d, q, day, at) ==
  [day |-> day, qty |-> q, at |-> at,
   price |-> FillPrice(SideOf(d), Open[SymbolOf[d]][day])]

SettledFills(d, q, day, at) ==
  IF q = 0 THEN <<>> ELSE <<NextOpenFill(d, q, day, at)>>

SettledOrder(row, q, day) ==
  Order(IF q = 0 THEN "REJECTED"
        ELSE IF q = row.qty THEN "FILLED" ELSE "PARTIALLY_FILLED",
        row.policy, row.qty, q, row.signal, day, row.submitted)

(* The session after it has replaced the row of d. *)
Replaced(s, d, q, day) ==
  LET fs == SettledFills(d, q, day, s.at + s.seq + 1) IN
  [op |-> "settle", run |-> s.run, at |-> s.at, seq |-> s.seq + 1,
   todo |-> s.todo \ {d}, written |-> s.written \cup {d},
   draft |-> [s.draft EXCEPT ![d] = [order |-> SettledOrder(@.order, q, day),
                                     fills |-> fs]],
   state |-> ApplyFills(d, fs, s.state)]

SettleOrder(a) ==
  LET s == session[a] IN
  /\ s.op = "settle"
  /\ \E d \in s.todo :
       LET row == s.draft[d].order
           day == FirstAfter(SymbolOf[d], row.signal)
       IN  /\ IsNext(s, d)
           /\ AfterSignal(SymbolOf[d], row.signal) # {}
           /\ CanWrite(a, d)
           /\ \E q \in 0..row.qty :
                /\ Affordable(d, q, row.qty, <<NextOpenFill(d, row.qty, day, s.at)>>,
                              s.state.cash, s.state)
                /\ session' = [session EXCEPT ![a] = Replaced(s, d, q, day)]
  /\ UNCHANGED <<bars, orders, fills, accounts, clock, route>>

(* The fill rows of a replaced order are deleted before its own are added. *)
FillsReplaced(s, d, stored) ==
  IF d \in s.written THEN s.draft[d].fills ELSE stored

CommitSettle(a) ==
  LET s == session[a] IN
  /\ s.op = "settle" /\ s.todo = {}
  /\ orders' = [d \in Decisions |->
                  IF d \in s.written THEN s.draft[d].order ELSE orders[d]]
  /\ fills' = [d \in Decisions |-> FillsReplaced(s, d, fills[d])]
  /\ accounts' = [accounts EXCEPT ![s.run] =
                    [at |-> s.at + s.seq, cash |-> s.state.cash, held |-> s.state.held]]
  /\ session' = [session EXCEPT ![a] = Idle]
  /\ UNCHANGED <<bars, clock, route>>

-----------------------------------------------------------------------------
(* cancel_order: reads the row, returns if it is in a final status the     *)
(* call knows, and otherwise stores what it read as CANCELLED.             *)

(* Mutant: a rejected order can be cancelled. *)
CancellableUnlessDone(status) == status \notin {"NONE", "FILLED", "CANCELLED"}

Cancellable(status) == status \notin {"NONE", "FILLED", "REJECTED", "CANCELLED"}

BeginCancel(a, d) ==
  /\ "cancel" \in Operations
  /\ Cancellable(orders[d].status)
  /\ StartSession(a, [op |-> "cancel", decision |-> d, order |-> orders[d]])
  /\ UNCHANGED <<bars, orders, fills, accounts, clock, route>>

CommitCancel(a) ==
  LET s == session[a]
      d == s.decision
  IN  /\ s.op = "cancel"
      /\ ~LockedByOther(a, d)
      /\ orders[d].status # "NONE" /\ orders[d].qty = s.order.qty
      /\ orders' = [orders EXCEPT ![d] = [s.order EXCEPT !.status = "CANCELLED"]]
      /\ session' = [session EXCEPT ![a] = Idle]
      /\ UNCHANGED <<bars, fills, accounts, clock, route>>

-----------------------------------------------------------------------------
(* A process dies, loses its connection or meets a database error before   *)
(* its commit: the transaction rolls back.                                 *)
Abort(a) ==
  /\ session[a] # Idle
  /\ session' = [session EXCEPT ![a] = Idle]
  /\ UNCHANGED <<bars, orders, fills, accounts, clock, route>>

(* The daily import adds a bar later than those it has; days may be        *)
(* missing, and a stored bar does not change.                              *)
ImportBar(s, day) ==
  /\ \A x \in bars[s] : day > x
  /\ bars' = [bars EXCEPT ![s] = @ \cup {day}]
  /\ UNCHANGED <<orders, fills, accounts, clock, route, session>>

Init ==
  /\ bars = [s \in Symbols |-> {}]
  /\ orders = [d \in Decisions |-> NoOrder]
  /\ fills = [d \in Decisions |-> <<>>]
  /\ accounts = [r \in Runs |-> NoAccount]
  /\ clock = 0
  /\ route = [a \in Actors |-> NoRoute]
  /\ session = [a \in Actors |-> Idle]

Place(a) == PlaceRejected(a) \/ PlaceQueued(a) \/ PlaceFilled(a)
Settle(a) == SettleWaits(a) \/ SettleOrder(a) \/ CommitSettle(a)

Next ==
  \/ \E s \in Symbols, day \in Days : ImportBar(s, day)
  \/ \E a \in Actors :
       \/ \E r \in Runs : BeginRoute(a, r)
       \/ \E d \in Decisions, policy \in Policies, limit \in ThreadedCash \cup {NoLimit} :
            BeginPlace(a, d, policy, limit)
       \/ Place(a)
       \/ \E r \in Runs : BeginSettle(a, r)
       \/ Settle(a)
       \/ \E d \in Decisions : BeginCancel(a, d)
       \/ CommitCancel(a)
       \/ Abort(a)

Spec == Init /\ [][Next]_vars
=============================================================================
