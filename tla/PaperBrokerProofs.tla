------------------------- MODULE PaperBrokerProofs -------------------------
(***************************************************************************)
(* Proofs about the paper broker that hold for any number of processes,    *)
(* decisions, symbols and bars: first the orders and their fills, then the *)
(* account of a portfolio, the cash and the holdings that its fills add up *)
(* to when they are replayed in the order they were made.                  *)
(***************************************************************************)
EXTENDS PaperBrokerProperties, NumberFacts, WellFoundedInduction, TLAPS

-----------------------------------------------------------------------------
(* The arithmetic of fills.                                                *)

(* Rounding half up of a natural amount gives a natural amount. *)
LEMMA RoundHalfUpType ==
  ASSUME NEW num \in Nat, NEW den \in Nat \ {0}
  PROVE  RoundHalfUp(num, den) \in Nat
<1> DEFINE n == 2 * num + den
           d == 2 * den
<1>1. n \in Nat /\ d \in Nat \ {0}
  OBVIOUS
<1>2. n \div d \in Nat
  <2> HIDE DEF n, d
  <2> QED BY <1>1
<1> QED BY <1>2 DEF RoundHalfUp

(* A slipped price is a natural number: slippage is less than the price. *)
LEMMA FillPriceType ==
  ASSUME NEW side, NEW reference \in Nat
  PROVE  FillPrice(side, reference) \in Nat
<1> DEFINE up == reference * (RateDenominator + SlippageBps)
           down == reference * (RateDenominator - SlippageBps)
<1>1. RateDenominator + SlippageBps \in Nat /\ RateDenominator - SlippageBps \in Nat
  BY RatesAssumption
<1>2. up \in Nat /\ down \in Nat
  BY <1>1
<1>3. RoundHalfUp(up, RateDenominator) \in Nat /\ RoundHalfUp(down, RateDenominator) \in Nat
  <2> HIDE DEF up, down
  <2> QED BY <1>2, RoundHalfUpType, RatesAssumption
<1> QED BY <1>3 DEF FillPrice

(* A quantity of at least two splits into two positive parts. *)
LEMMA FirstPartRange ==
  ASSUME NEW q \in Nat, q > 1
  PROVE  FirstPart(q) \in 1..(q - 1)
<1>1. (q * FirstFillPct) \div 100 \in Int
  <2>1. q * FirstFillPct \in Int
    BY PlanAssumption
  <2> QED BY <2>1
<1> QED BY <1>1 DEF FirstPart

(* The first of a set of days exists and is unique. *)
LEMMA FirstDayExists ==
  ASSUME NEW S \in SUBSET Nat, S # {}
  PROVE  \E x \in S : \A y \in S : x <= y
<1> DEFINE R == {p \in Nat \X Nat : p[1] < p[2]}
<1>1. IsWellFoundedOn(R, Nat)
  BY NatLessThanWellFounded DEF OpToRel
<1>2. PICK x \in S : \A y \in S : ~(<<y, x>> \in R)
  <2> HIDE DEF R
  <2> QED BY <1>1, WFMin
<1>3. \A y \in S : ~(y < x)
  BY <1>2
<1> QED BY <1>3

(* _first_candle_after_signal returns an imported bar after the signal,
   and no imported bar lies between. *)
LEMMA FirstAfterIsFirst ==
  ASSUME NEW s \in Symbols, NEW signal \in DayOrNone,
         bars \in [Symbols -> SUBSET Days], AfterSignal(s, signal) # {}
  PROVE  /\ FirstAfter(s, signal) \in bars[s]
         /\ FirstAfter(s, signal) \in Days
         /\ FirstAfter(s, signal) > signal
         /\ \A x \in bars[s] : x > signal => FirstAfter(s, signal) <= x
<1>1. AfterSignal(s, signal) \in SUBSET Nat
  BY BarsAssumption DEF AfterSignal
<1>2. \E x \in AfterSignal(s, signal) : \A y \in AfterSignal(s, signal) : x <= y
  BY <1>1, FirstDayExists
<1>3. /\ FirstAfter(s, signal) \in AfterSignal(s, signal)
      /\ \A y \in AfterSignal(s, signal) : FirstAfter(s, signal) <= y
  <2> DEFINE S == AfterSignal(s, signal)
  <2> HIDE DEF S
  <2> QED BY <1>2 DEF FirstAfter, S
<1> QED BY <1>3 DEF AfterSignal

(* The fills planned for a positive quantity are one or two, positive, and
   add up to it. *)
LEMMA PlannedFillsType ==
  ASSUME NEW d, NEW n \in Nat \ {0}, NEW open \in Nat, NEW close \in Nat,
         NEW day \in Days, NEW at \in Nat
  PROVE  /\ PlannedFills(d, n, open, close, day, at) \in Seq(FillRecord)
         /\ Len(PlannedFills(d, n, open, close, day, at)) \in {1, 2}
         /\ FilledQty(PlannedFills(d, n, open, close, day, at)) = n
<1> DEFINE fs == PlannedFills(d, n, open, close, day, at)
           plan == FillPlan(n)
<1>1. /\ Len(plan) \in {1, 2}
      /\ \A i \in 1..Len(plan) : plan[i] \in Nat \ {0}
      /\ plan[1] + (IF Len(plan) = 2 THEN plan[2] ELSE 0) = n
  <2>1. CASE n <= PartialFillThreshold
    <3>1. plan = <<n>>
      BY <2>1 DEF FillPlan
    <3> QED BY <3>1
  <2>2. CASE n > PartialFillThreshold
    <3>1. n > 1 /\ FirstPart(n) \in 1..(n - 1)
      BY <2>2, PlanAssumption, FirstPartRange
    <3>2. plan = <<FirstPart(n), n - FirstPart(n)>>
      BY <2>2, PlanAssumption DEF FillPlan
    <3> HIDE DEF plan
    <3> QED BY <3>1, <3>2
  <2> QED BY <2>1, <2>2, PlanAssumption
<1>2. \A i \in 1..Len(plan) :
        [day |-> day, qty |-> plan[i], at |-> at + i,
         price |-> FillPrice(SideOf(d), IF i = 1 THEN open ELSE close)] \in FillRecord
  <2> SUFFICES ASSUME NEW i \in 1..Len(plan)
               PROVE [day |-> day, qty |-> plan[i], at |-> at + i,
                      price |-> FillPrice(SideOf(d), IF i = 1 THEN open ELSE close)]
                       \in FillRecord
    OBVIOUS
  <2>1. FillPrice(SideOf(d), IF i = 1 THEN open ELSE close) \in Nat
    BY FillPriceType
  <2> HIDE DEF plan
  <2> QED BY <1>1, <2>1 DEF FillRecord
<1>3. fs = [i \in 1..Len(plan) |->
              [day |-> day, qty |-> plan[i], at |-> at + i,
               price |-> FillPrice(SideOf(d), IF i = 1 THEN open ELSE close)]]
  BY DEF PlannedFills
<1>4. /\ fs \in [1..Len(plan) -> FillRecord] /\ Len(plan) \in Nat
      /\ \A i \in 1..Len(plan) : fs[i].qty = plan[i]
  <2> HIDE DEF fs, plan
  <2> QED BY <1>1, <1>2, <1>3
<1>5. fs \in Seq(FillRecord) /\ Len(fs) = Len(plan)
  <2> HIDE DEF fs, plan
  <2> QED BY <1>4
<1>6. FilledQty(fs) = n
  <2> HIDE DEF fs, plan
  <2> QED BY <1>1, <1>4, <1>5 DEF FilledQty
<1> QED BY <1>1, <1>5, <1>6

-----------------------------------------------------------------------------
(* The inductive invariant.                                                *)

(* A symbol with bars has a latest one. *)
HasLatestDay ==
  \A s \in Symbols :
    bars[s] # {} => \E x \in bars[s] : \A y \in bars[s] : y <= x

(* An order row goes with these fill rows, given the imported days. *)
Matches(d, order, fs, imported) ==
  StatusAgrees(order, fs) /\ AtFirstOpen(d, order, fs, imported)

(* What is stored matches, and so does what a settlement has written and   *)
(* will store in one commit.  A process that is cancelling an order is the *)
(* only one there is, so the row it has read is still the stored one.      *)
RowsMatch ==
  \A d \in Decisions : Matches(d, orders[d], fills[d], bars[SymbolOf[d]])
CancelsAlone ==
  \A a \in Actors :
    session[a].op = "cancel" =>
      /\ \A b \in Actors : b = a
      /\ session[a].order = orders[session[a].decision]
      /\ Cancellable(session[a].order.status)
DraftsMatch ==
  \A a \in Actors :
    session[a].op = "settle" =>
         \A d \in session[a].written :
           Matches(d, session[a].draft[d].order, session[a].draft[d].fills,
                   bars[SymbolOf[d]])

IInv == TypeOK /\ HasLatestDay /\ RowsMatch /\ DraftsMatch /\ CancelsAlone

(* _latest_candle returns an imported bar when there is one. *)
LEMMA LatestDayType ==
  ASSUME TypeOK, HasLatestDay, NEW s \in Symbols
  PROVE  LatestDay(s) \in DayOrNone
<1>1. bars[s] \in SUBSET Days
  BY DEF TypeOK
<1>2. CASE bars[s] = {}
  BY <1>2 DEF LatestDay, DayOrNone
<1>3. CASE bars[s] # {}
  <2>1. \E x \in bars[s] : \A y \in bars[s] : y <= x
    BY <1>3 DEF HasLatestDay
  <2>2. LatestDay(s) \in bars[s]
    BY <1>3, <2>1 DEF LatestDay
  <2> QED BY <1>1, <2>2 DEF DayOrNone
<1> QED BY <1>2, <1>3

(* A process that does nothing has the shape of a session. *)
LEMMA IdleIsSession == IsSession(Idle) /\ Idle.op = "idle"
BY DEF IsSession, Idle

(* The empty database satisfies the invariant. *)
LEMMA InitIInv == Init => IInv
<1> SUFFICES ASSUME Init PROVE IInv
  OBVIOUS
<1>1. NoOrder \in OrderRecord /\ <<>> \in Seq(FillRecord)
  BY DEF NoOrder, OrderRecord, Statuses, DayOrNone
<1>2. TypeOK
  BY <1>1, IdleIsSession DEF Init, TypeOK
<1>3. HasLatestDay
  BY DEF Init, HasLatestDay
<1>4. \A d \in Decisions : Matches(d, NoOrder, <<>>, {})
  BY DEF Matches, StatusAgrees, AtFirstOpen, FilledQty, NoOrder
<1>5. RowsMatch
  BY <1>4, DecisionsAssumption DEF Init, RowsMatch
<1>6. DraftsMatch /\ CancelsAlone
  BY DEF Init, DraftsMatch, CancelsAlone, Idle
<1> QED BY <1>2, <1>3, <1>5, <1>6 DEF IInv

-----------------------------------------------------------------------------
(* The steps.                                                              *)

(* Replacing the session of one process by a session keeps all of them sessions. *)
LEMMA SessionUpdated ==
  ASSUME TypeOK, NEW a \in Actors, NEW s, IsSession(s),
         session' = [session EXCEPT ![a] = s]
  PROVE  /\ session' = [b \in Actors |-> session'[b]]
         /\ \A b \in Actors : IsSession(session'[b])
         /\ session'[a] = s
         /\ \A b \in Actors \ {a} : session'[b] = session[b]
<1>1. session'[a] = s /\ \A b \in Actors \ {a} : session'[b] = session[b]
  BY DEF TypeOK
<1>2. session' = [b \in Actors |-> session'[b]]
  BY DEF TypeOK
<1>3. \A b \in Actors : IsSession(session'[b])
  BY <1>1 DEF TypeOK
<1> QED BY <1>1, <1>2, <1>3

(* A step that leaves rows and bars alone and gives one process a session  *)
(* whose drafts match keeps the invariant, when a cancellation is alone.   *)
LEMMA SessionStep ==
  ASSUME IInv, NEW a \in Actors, NEW s, IsSession(s),
         s.op = "cancel" =>
           /\ \A b \in Actors : b = a
           /\ s.order = orders[s.decision]
           /\ Cancellable(s.order.status),
         s.op = "settle" =>
           \A d \in s.written :
             Matches(d, s.draft[d].order, s.draft[d].fills, bars[SymbolOf[d]]),
         session' = [session EXCEPT ![a] = s], clock' \in Nat,
         route' \in [Actors -> Routes \cup {NoRoute}],
         UNCHANGED <<bars, orders, fills>>
  PROVE  IInv'
<1>1. /\ session' = [b \in Actors |-> session'[b]]
      /\ \A b \in Actors : IsSession(session'[b])
      /\ session'[a] = s
      /\ \A b \in Actors \ {a} : session'[b] = session[b]
  BY SessionUpdated DEF IInv
<1>2. TypeOK'
  BY <1>1 DEF IInv, TypeOK
<1>3. HasLatestDay' /\ RowsMatch'
  BY DEF IInv, HasLatestDay, RowsMatch
<1>4. DraftsMatch'
  BY <1>1 DEF IInv, DraftsMatch
<1>5. CancelsAlone'
  BY <1>1 DEF IInv, CancelsAlone
<1> QED BY <1>2, <1>3, <1>4, <1>5 DEF IInv

(* Storing matching rows for the decision a process is placing.            *)
LEMMA PlacementStep ==
  ASSUME IInv, NEW a \in Actors, session[a].op = "place",
         NEW order \in OrderRecord, NEW fs \in Seq(FillRecord), NEW st,
         Matches(session[a].decision, order, fs,
                 bars[SymbolOf[session[a].decision]]),
         StorePlacement(a, order, fs, st)
  PROVE  IInv'
<1> DEFINE d == session[a].decision
<1>1. d \in Decisions
  BY DEF IInv, TypeOK, IsSession, Idle, PlaceSession, SettleSession, CancelSession
<1>2. /\ orders' = [orders EXCEPT ![d] = order]
      /\ fills' = [fills EXCEPT ![d] = fs]
      /\ session' = [session EXCEPT ![a] = Idle]
      /\ UNCHANGED <<bars, clock, route>>
  BY DEF StorePlacement
<1>3. /\ session' = [b \in Actors |-> session'[b]]
      /\ \A b \in Actors : IsSession(session'[b])
      /\ session'[a] = Idle
      /\ \A b \in Actors \ {a} : session'[b] = session[b]
  BY <1>2, IdleIsSession, SessionUpdated DEF IInv
<1>4. TypeOK'
  BY <1>1, <1>2, <1>3 DEF IInv, TypeOK
<1>5. HasLatestDay'
  BY <1>2 DEF IInv, HasLatestDay
<1>6. RowsMatch'
  BY <1>1, <1>2 DEF IInv, TypeOK, RowsMatch
<1>7. DraftsMatch'
  BY <1>2, <1>3, IdleIsSession DEF IInv, DraftsMatch
<1>8. CancelsAlone'
  BY <1>3, IdleIsSession DEF IInv, CancelsAlone
<1> QED BY <1>4, <1>5, <1>6, <1>7, <1>8 DEF IInv

(* A time that is read lies after the one before. *)
LEMMA ClockType ==
  ASSUME TypeOK, ReadClock
  PROVE  clock' \in Nat /\ clock' > clock
BY BrokerAssumption DEF TypeOK, ReadClock

(* The numbers a route may use are the next ones, up to its length; an
   iteration of the monitor uses none.                                     *)
LEMMA NumbersFacts ==
  ASSUME NEW r \in Routes, NEW number \in Numbers(r)
  PROVE  /\ number \in 0..RouteLength
         /\ r.run \in MonitorRuns => number = 0
         /\ r.run \notin MonitorRuns => number > r.last
<1>1. r.last \in 0..RouteLength /\ RouteLength \in Nat
  BY BrokerAssumption DEF Routes
<1> QED BY <1>1 DEF Numbers

(* A process beginning to route keeps the invariant. *)
LEMMA BeginRouteStep ==
  ASSUME IInv, NEW a \in Actors, NEW run \in Runs, BeginRoute(a, run)
  PROVE  IInv'
<1> DEFINE new == [op |-> "route", run |-> run, base |-> clock', last |-> 0, routed |-> {}]
<1>1. clock' \in Nat
  BY ClockType DEF BeginRoute, IInv
<1>2. new \in Routes
  BY <1>1, BrokerAssumption DEF Routes
<1>3. /\ route' = [route EXCEPT ![a] = new]
      /\ UNCHANGED <<bars, orders, fills, session>>
  BY DEF BeginRoute
<1> HIDE DEF new
<1>4. route' \in [Actors -> Routes \cup {NoRoute}]
  BY <1>2, <1>3 DEF IInv, TypeOK
<1>5. TypeOK'
  BY <1>1, <1>3, <1>4 DEF IInv, TypeOK
<1> QED BY <1>3, <1>5 DEF IInv, HasLatestDay, RowsMatch, DraftsMatch, CancelsAlone

(* What a placement begins with, once its number is chosen. *)
LEMMA BeginPlaceFacts ==
  ASSUME TypeOK, NEW a \in Actors, NEW d \in Decisions, NEW policy \in Policies,
         NEW limit \in ThreadedCash \cup {NoLimit}, BeginPlace(a, d, policy, limit)
  PROVE  \E at \in Nat :
           /\ session' = [session EXCEPT ![a] = Placement(d, policy, limit, at)]
           /\ session[a] = Idle
           /\ route' \in [Actors -> Routes \cup {NoRoute}]
           /\ UNCHANGED <<bars, orders, fills, accounts, clock>>
           /\ orders[d].status = "NONE" => \E number \in 0..RouteLength :
                /\ route[a] \in Routes /\ route[a].run = RunOf[d]
                /\ SymbolOf[d] \notin route[a].routed
                /\ number \in Numbers(route[a])
                /\ at = route[a].base + number
                /\ route' = [route EXCEPT ![a] = WithOrder(route[a], number, SymbolOf[d])]
<1> DEFINE r == route[a]
<1>1. CASE orders[d].status = "NONE"
  <2>1. PICK number \in Numbers(r) :
          /\ session' = [session EXCEPT ![a] = Placement(d, policy, limit, r.base + number)]
          /\ route' = [route EXCEPT ![a] = WithOrder(r, number, SymbolOf[d])]
    BY <1>1 DEF BeginPlace, StartSession
  <2>2. /\ r # NoRoute /\ r.run = RunOf[d] /\ SymbolOf[d] \notin r.routed
        /\ session[a] = Idle /\ UNCHANGED <<bars, orders, fills, accounts, clock>>
    BY <1>1 DEF BeginPlace, StartSession, MayRoute
  <2>3. r \in Routes
    BY <2>2 DEF TypeOK
  <2>4. number \in 0..RouteLength /\ r.base \in Nat /\ r.base + number \in Nat
        /\ SymbolOf[d] \in Symbols
    BY <2>1, <2>3, NumbersFacts, BrokerAssumption, DecisionsAssumption DEF Routes
  <2>5. WithOrder(r, number, SymbolOf[d]) \in Routes
    <3> HIDE DEF r
    <3> QED BY <2>3, <2>4 DEF Routes, WithOrder
  <2>6. route' \in [Actors -> Routes \cup {NoRoute}]
    BY <2>1, <2>5 DEF TypeOK
  <2> QED BY <2>1, <2>2, <2>3, <2>4, <2>6
<1>2. CASE orders[d].status # "NONE"
  <2>1. /\ session' = [session EXCEPT ![a] =
                         Placement(d, policy, limit, orders[d].submitted)]
        /\ route' = route /\ session[a] = Idle
        /\ UNCHANGED <<bars, orders, fills, accounts, clock>>
    BY <1>2 DEF BeginPlace, StartSession
  <2>2. orders[d].submitted \in Nat
    BY DEF TypeOK, OrderRecord
  <2>3. route' \in [Actors -> Routes \cup {NoRoute}]
    BY <2>1 DEF TypeOK
  <2> QED BY <1>2, <2>1, <2>2, <2>3
<1> QED BY <1>1, <1>2

(* place_order reading its inputs keeps the invariant. *)
LEMMA BeginPlaceStep ==
  ASSUME IInv, NEW a \in Actors, NEW d \in Decisions, NEW policy \in Policies,
         NEW limit \in ThreadedCash \cup {NoLimit}, BeginPlace(a, d, policy, limit)
  PROVE  IInv'
<1>1. PICK at \in Nat :
        /\ session' = [session EXCEPT ![a] = Placement(d, policy, limit, at)]
        /\ route' \in [Actors -> Routes \cup {NoRoute}]
        /\ UNCHANGED <<bars, orders, fills, clock>>
  BY BeginPlaceFacts DEF IInv
<1>2. LatestDay(SymbolOf[d]) \in DayOrNone
  BY DecisionsAssumption, LatestDayType DEF IInv
<1> DEFINE account == Replay([fills EXCEPT ![d] = <<>>])
           s == Placement(d, policy, limit, at)
<1>3. s \in PlaceSession(s.state) /\ s.op = "place"
  <2>1. s = [op |-> "place", decision |-> d, policy |-> policy, limit |-> limit,
             day |-> LatestDay(SymbolOf[d]), at |-> at, state |-> account]
    BY DEF Placement
  <2> HIDE DEF account
  <2> QED BY <1>2, <2>1 DEF PlaceSession
<1>4. clock' \in Nat
  BY <1>1 DEF IInv, TypeOK
<1> HIDE DEF s
<1> QED BY <1>1, <1>3, <1>4, SessionStep DEF IsSession, s

(* What a placement holds. *)
LEMMA PlaceFacts ==
  ASSUME IInv, NEW a \in Actors, session[a].op = "place"
  PROVE  /\ session[a].decision \in Decisions
         /\ session[a].policy \in Policies
         /\ session[a].day \in DayOrNone
         /\ session[a].at \in Nat
BY DEF IInv, TypeOK, IsSession, Idle, PlaceSession, SettleSession, CancelSession

(* An order row without fills agrees with its (missing) fill rows. *)
LEMMA UnfilledMatches ==
  ASSUME NEW d, NEW imported, NEW status \in {"PENDING_NEXT_OPEN", "REJECTED"},
         NEW policy \in Policies, NEW qty \in Nat, NEW signal \in DayOrNone,
         NEW filledDay \in DayOrNone, NEW submitted \in Nat
  PROVE  /\ Order(status, policy, qty, 0, signal, filledDay, submitted) \in OrderRecord
         /\ Matches(d, Order(status, policy, qty, 0, signal, filledDay, submitted),
                    <<>>, imported)
BY BrokerAssumption
   DEF Order, OrderRecord, Statuses, TerminalStatuses, Matches, StatusAgrees,
       AtFirstOpen, FilledQty

(* Storing a rejected order keeps the invariant. *)
LEMMA PlaceRejectedStep ==
  ASSUME IInv, NEW a \in Actors, PlaceRejected(a)
  PROVE  IInv'
<1> DEFINE s == session[a]
           signal == IF s.policy = "next_open" THEN s.day ELSE NoDay
<1>1. s.op = "place"
  BY DEF PlaceRejected
<1>2. signal \in DayOrNone /\ NoDay \in DayOrNone
  BY <1>1, PlaceFacts DEF DayOrNone
<1>3. PICK qty \in Nat :
        StorePlacement(a, Order("REJECTED", s.policy, qty, 0, signal, NoDay, s.at),
                       <<>>, s.state)
  BY <1>1, PlaceFacts, DecisionsAssumption DEF PlaceRejected, PositiveQuantities
<1>4. /\ Order("REJECTED", s.policy, qty, 0, signal, NoDay, s.at) \in OrderRecord
      /\ Matches(s.decision, Order("REJECTED", s.policy, qty, 0, signal, NoDay, s.at),
                 <<>>, bars[SymbolOf[s.decision]])
  <2> HIDE DEF signal
  <2> QED BY <1>1, <1>2, PlaceFacts, UnfilledMatches
<1>5. <<>> \in Seq(FillRecord)
  OBVIOUS
<1> HIDE DEF signal
<1> QED BY <1>1, <1>3, <1>4, <1>5, PlacementStep

(* Storing an order for the next open keeps the invariant. *)
LEMMA PlaceQueuedStep ==
  ASSUME IInv, NEW a \in Actors, PlaceQueued(a)
  PROVE  IInv'
<1> DEFINE s == session[a]
           queued(q) ==
             Order("PENDING_NEXT_OPEN", "next_open", q, 0, s.day, NoDay, s.at)
<1>1. s.op = "place" /\ s.policy = "next_open"
  BY DEF PlaceQueued
<1>2. PICK n \in PositiveQuantities(s.decision, s.state) : \E q \in 1..n :
        StorePlacement(a, queued(q), <<>>, s.state)
  BY DEF PlaceQueued
<1> PICK q \in 1..n : StorePlacement(a, queued(q), <<>>, s.state)
  BY <1>2
<1>3. q \in Nat
  BY DEF PositiveQuantities
<1>4. /\ s.policy \in Policies /\ s.day \in DayOrNone /\ s.at \in Nat
      /\ NoDay \in DayOrNone
  BY <1>1, PlaceFacts DEF DayOrNone
<1>5. /\ queued(q) \in OrderRecord
      /\ Matches(s.decision, queued(q), <<>>, bars[SymbolOf[s.decision]])
  <2> HIDE DEF s
  <2> QED BY <1>1, <1>3, <1>4, UnfilledMatches
<1>6. <<>> \in Seq(FillRecord)
  OBVIOUS
<1> HIDE DEF queued
<1> QED BY <1>1, <1>2, <1>5, <1>6, PlacementStep

(* Opens and closes are positive, so fill prices are natural numbers. *)
LEMMA PricesType ==
  ASSUME NEW d \in Decisions, NEW x \in Days
  PROVE  Open[SymbolOf[d]][x] \in Nat /\ Close[SymbolOf[d]][x] \in Nat
<1>1. SymbolOf[d] \in Symbols
  BY DecisionsAssumption
<1>2. Open[SymbolOf[d]] \in [Days -> Nat \ {0}] /\ Close[SymbolOf[d]] \in [Days -> Nat \ {0}]
  BY <1>1, BarsAssumption
<1> QED BY <1>2

(* An order row of an immediate execution agrees with the fills planned
   for the quantity that could be paid. *)
LEMMA ExecutedMatches ==
  ASSUME NEW d, NEW imported, NEW n \in Nat \ {0}, NEW q \in 1..n,
         NEW fs \in Seq(FillRecord), Len(fs) \in {1, 2}, FilledQty(fs) = q,
         NEW status, status = IF q = n THEN "FILLED" ELSE "PARTIALLY_FILLED",
         NEW at \in Nat
  PROVE  /\ Order(status, "immediate", n, q, NoDay, NoDay, at) \in OrderRecord
         /\ Matches(d, Order(status, "immediate", n, q, NoDay, NoDay, at), fs, imported)
<1> DEFINE order == Order(status, "immediate", n, q, NoDay, NoDay, at)
<1>1. fs # <<>>
  OBVIOUS
<1>2. /\ order.status = status /\ order.policy = "immediate"
      /\ order.qty = n /\ order.filled = q
  BY DEF Order
<1>3. order \in OrderRecord
  BY DEF Order, OrderRecord, Statuses, TerminalStatuses, DayOrNone
<1>4. StatusAgrees(order, fs)
  <2>1. Len(fs) <= 2 /\ q <= n /\ (q # n => q < n)
    <3>1. Len(fs) = 1 \/ Len(fs) = 2
      OBVIOUS
    <3>2. 1 <= 2 /\ 2 <= 2
      OBVIOUS
    <3>3. q \in Int /\ n \in Int /\ q <= n
      OBVIOUS
    <3>4. q # n => q < n
      BY <3>3
    <3>5. Len(fs) <= 2
      BY <3>1, <3>2, Zenon
    <3> QED BY <3>3, <3>4, <3>5
  <2>2. status \notin {"NONE", "PENDING_NEXT_OPEN", "REJECTED"}
    OBVIOUS
  <2>3. (status = "FILLED" => q = n) /\ (status = "PARTIALLY_FILLED" => q # n)
    OBVIOUS
  <2> HIDE DEF order
  <2> QED BY <1>1, <1>2, <2>1, <2>2, <2>3, Zenon DEF StatusAgrees
<1>5. AtFirstOpen(d, order, fs, imported)
  <2> HIDE DEF order
  <2> QED BY <1>2 DEF AtFirstOpen
<1> QED BY <1>3, <1>4, <1>5 DEF Matches

(* Storing an immediate execution keeps the invariant. *)
LEMMA PlaceFilledStep ==
  ASSUME IInv, NEW a \in Actors, PlaceFilled(a)
  PROVE  IInv'
<1> DEFINE s == session[a]
           d == s.decision
           fs(q) == ImmediateFills(s, q)
           filled(n, q) == Order(IF q = n THEN "FILLED" ELSE "PARTIALLY_FILLED",
                                 "immediate", n, q, NoDay, NoDay, s.at)
<1>1. s.op = "place" /\ s.day # NoDay
  BY DEF PlaceFilled
<1>2. PICK n \in PositiveQuantities(d, s.state) : \E q \in 1..n :
        StorePlacement(a, filled(n, q), fs(q), ApplyFills(d, fs(q), s.state))
  BY DEF PlaceFilled
<1> PICK q \in 1..n :
        StorePlacement(a, filled(n, q), fs(q), ApplyFills(d, fs(q), s.state))
  BY <1>2
<1>3. n \in Nat \ {0} /\ q \in Nat \ {0}
  BY DEF PositiveQuantities
<1>4. d \in Decisions /\ s.day \in Days /\ s.at \in Nat
  BY <1>1, PlaceFacts DEF DayOrNone
<1>5. /\ fs(q) \in Seq(FillRecord)
      /\ Len(fs(q)) \in {1, 2}
      /\ FilledQty(fs(q)) = q
  <2> HIDE DEF s
  <2> QED BY <1>3, <1>4, PricesType, PlannedFillsType DEF ImmediateFills
<1>6. /\ filled(n, q) \in OrderRecord
      /\ Matches(d, filled(n, q), fs(q), bars[SymbolOf[d]])
  <2> HIDE DEF fs, s
  <2> QED BY <1>3, <1>4, <1>5, ExecutedMatches
<1> HIDE DEF filled, fs
<1> QED BY <1>1, <1>5, <1>6, PlacementStep

(* A settlement reading the queue keeps the invariant: it drafts the rows it read. *)
LEMMA BeginSettleStep ==
  ASSUME IInv, NEW a \in Actors, NEW run \in Runs, BeginSettle(a, run)
  PROVE  IInv'
<1> DEFINE draft == [d \in Decisions |->
                       IF d \in SettlementQueue
                       THEN [order |-> orders[d], fills |-> <<>>]
                       ELSE [order |-> NoOrder, fills |-> <<>>]]
           account == Replay(fills)
           s == [op |-> "settle", run |-> run, at |-> clock',
                 todo |-> SettlementQueue, written |-> {}, seq |-> 0,
                 draft |-> draft, state |-> account]
<1>1. clock' \in Nat
  BY ClockType DEF BeginSettle, IInv
<1>2. draft \in [Decisions -> [order : OrderRecord, fills : Seq(FillRecord)]]
  <2>1. NoOrder \in OrderRecord /\ <<>> \in Seq(FillRecord)
    BY DEF NoOrder, OrderRecord, Statuses, DayOrNone
  <2> QED BY <2>1 DEF IInv, TypeOK
<1>3. s \in SettleSession(s.state) /\ s.op = "settle" /\ s.written = {}
  <2> HIDE DEF draft, account
  <2> QED BY <1>1, <1>2 DEF SettleSession, SettlementQueue
<1>4. /\ session' = [session EXCEPT ![a] = s]
      /\ route' = [route EXCEPT ![a] = NoRoute]
      /\ UNCHANGED <<bars, orders, fills>>
  BY DEF BeginSettle, StartSession
<1>5. route' \in [Actors -> Routes \cup {NoRoute}]
  BY <1>4 DEF IInv, TypeOK
<1> HIDE DEF s
<1> QED BY <1>1, <1>3, <1>4, <1>5, SessionStep DEF IsSession

(* What a settlement holds. *)
LEMMA SettleFacts ==
  ASSUME IInv, NEW a \in Actors, session[a].op = "settle"
  PROVE  /\ session[a] \in SettleSession(session[a].state)
         /\ \A d \in session[a].written :
              Matches(d, session[a].draft[d].order, session[a].draft[d].fills,
                      bars[SymbolOf[d]])
BY DEF IInv, TypeOK, IsSession, Idle, PlaceSession, SettleSession, CancelSession,
       DraftsMatch

(* An order without a later bar stays as it is. *)
LEMMA SettleWaitsStep ==
  ASSUME IInv, NEW a \in Actors, SettleWaits(a)
  PROVE  IInv'
<1> DEFINE s == session[a]
<1>1. s.op = "settle"
  BY DEF SettleWaits
<1>2. PICK d \in s.todo : session' = [session EXCEPT ![a].todo = @ \ {d}]
  BY DEF SettleWaits
<1> DEFINE new == [s EXCEPT !.todo = @ \ {d}]
<1>3. s \in SettleSession(s.state)
  BY <1>1, SettleFacts
<1>4. /\ new \in SettleSession(new.state) /\ new.op = "settle"
      /\ new.written = s.written /\ new.draft = s.draft
  <2> HIDE DEF s
  <2> QED BY <1>3 DEF SettleSession
<1>5. session' = [session EXCEPT ![a] = new] /\ clock' \in Nat
      /\ route' \in [Actors -> Routes \cup {NoRoute}]
      /\ UNCHANGED <<bars, orders, fills>>
  BY <1>2 DEF SettleWaits, IInv, TypeOK
<1>6. \A e \in new.written :
        Matches(e, new.draft[e].order, new.draft[e].fills, bars[SymbolOf[e]])
  <2> HIDE DEF new
  <2> QED BY <1>1, <1>4, SettleFacts
<1> HIDE DEF new
<1> QED BY <1>4, <1>5, <1>6, SessionStep DEF IsSession

(* The row and the fill a settlement writes for a queued order match. *)
LEMMA SettledMatches ==
  ASSUME TypeOK, NEW d \in Decisions, NEW row \in OrderRecord,
         AfterSignal(SymbolOf[d], row.signal) # {},
         NEW q \in 0..row.qty, NEW at \in Nat,
         NEW day, day = FirstAfter(SymbolOf[d], row.signal)
  PROVE  /\ SettledOrder(row, q, day) \in OrderRecord
         /\ SettledFills(d, q, day, at) \in Seq(FillRecord)
         /\ Matches(d, SettledOrder(row, q, day), SettledFills(d, q, day, at),
                    bars[SymbolOf[d]])
<1> DEFINE order == SettledOrder(row, q, day)
           fill == NextOpenFill(d, q, day, at)
           status == IF q = 0 THEN "REJECTED"
                     ELSE IF q = row.qty THEN "FILLED" ELSE "PARTIALLY_FILLED"
<1>1. /\ SymbolOf[d] \in Symbols /\ row.signal \in DayOrNone
      /\ bars \in [Symbols -> SUBSET Days] /\ row.qty \in Nat /\ q \in Nat
  BY DecisionsAssumption DEF TypeOK, OrderRecord
<1>2. /\ day \in bars[SymbolOf[d]]
      /\ day \in Days
      /\ day > row.signal
      /\ \A x \in bars[SymbolOf[d]] : x > row.signal => day <= x
  BY <1>1, FirstAfterIsFirst
<1>3. /\ order.status = status /\ order.policy = row.policy
      /\ order.qty = row.qty /\ order.filled = q
      /\ order.signal = row.signal /\ order.filledDay = day
  BY DEF SettledOrder, Order
<1>4. order \in OrderRecord
  BY <1>1, <1>2 DEF SettledOrder, Order, OrderRecord, Statuses, TerminalStatuses, DayOrNone
<1>5. CASE q = 0
  <2>1. SettledFills(d, q, day, at) = <<>>
    BY <1>5 DEF SettledFills
  <2>2. Len(<<>>) <= 2 /\ FilledQty(<<>>) = 0 /\ <<>> \in Seq(FillRecord)
    BY DEF FilledQty
  <2>3. status = "REJECTED" /\ 0 <= row.qty
    BY <1>1, <1>5
  <2>4. Matches(d, order, <<>>, bars[SymbolOf[d]])
    <3> HIDE DEF order, status
    <3> QED BY <1>3, <1>5, <2>2, <2>3 DEF Matches, StatusAgrees, AtFirstOpen
  <2> QED BY <1>4, <2>1, <2>2, <2>4
<1>6. CASE q # 0
  <2>1. /\ fill \in FillRecord /\ fill.qty = q /\ fill.day = day
        /\ fill.price = FillPrice(SideOf(d), Open[SymbolOf[d]][day])
    BY <1>1, <1>2, <1>6, PricesType, FillPriceType DEF NextOpenFill, FillRecord
  <2>2. SettledFills(d, q, day, at) = <<fill>>
    BY <1>6 DEF SettledFills
  <2>3. <<fill>> \in Seq(FillRecord)
    <3> HIDE DEF fill
    <3> QED BY <2>1
  <2>4. Len(<<fill>>) = 1 /\ <<fill>>[1] = fill /\ <<fill>> # <<>>
    OBVIOUS
  <2>5. Len(<<fill>>) <= 2 /\ FilledQty(<<fill>>) = q
    <3> HIDE DEF fill
    <3> QED BY <1>1, <2>1, <2>4 DEF FilledQty
  <2>6. /\ q <= row.qty /\ (q # row.qty => q < row.qty)
        /\ status \notin {"NONE", "PENDING_NEXT_OPEN", "REJECTED"}
        /\ status = "FILLED" => q = row.qty
        /\ status = "PARTIALLY_FILLED" => q # row.qty
    BY <1>1, <1>6
  <2>7. StatusAgrees(order, <<fill>>)
    <3> HIDE DEF order, fill, status
    <3> QED BY <1>3, <2>4, <2>5, <2>6, Zenon DEF StatusAgrees
  <2>8. AtFirstOpen(d, order, <<fill>>, bars[SymbolOf[d]])
    <3> HIDE DEF order, fill
    <3> QED BY <1>2, <1>3, <2>1, <2>4, Zenon DEF AtFirstOpen
  <2> QED BY <1>4, <2>2, <2>3, <2>7, <2>8 DEF Matches
<1> QED BY <1>5, <1>6

(* Drafting a settled or rejected order keeps the invariant. *)
LEMMA SettleOrderStep ==
  ASSUME IInv, NEW a \in Actors, SettleOrder(a)
  PROVE  IInv'
<1> DEFINE s == session[a]
<1>1. /\ s.op = "settle" /\ UNCHANGED <<bars, orders, fills, clock, route>>
      /\ s \in SettleSession(s.state)
  BY SettleFacts DEF SettleOrder
<1>2. PICK d \in s.todo :
        /\ AfterSignal(SymbolOf[d], s.draft[d].order.signal) # {}
        /\ \E q \in 0..s.draft[d].order.qty :
             session' = [session EXCEPT ![a] =
               Replaced(s, d, q, FirstAfter(SymbolOf[d], s.draft[d].order.signal))]
  BY DEF SettleOrder
<1> DEFINE row == s.draft[d].order
           day == FirstAfter(SymbolOf[d], row.signal)
<1>3. PICK q \in 0..row.qty :
        session' = [session EXCEPT ![a] = Replaced(s, d, q, day)]
  BY <1>2
<1> DEFINE new == Replaced(s, d, q, day)
           order == SettledOrder(row, q, day)
           fs == SettledFills(d, q, day, s.at + s.seq + 1)
<1>4. /\ d \in Decisions /\ row \in OrderRecord /\ s.at + s.seq + 1 \in Nat
      /\ s.draft \in [Decisions -> [order : OrderRecord, fills : Seq(FillRecord)]]
  <2> HIDE DEF s
  <2> QED BY <1>1 DEF SettleSession
<1>5. /\ order \in OrderRecord /\ fs \in Seq(FillRecord)
      /\ Matches(d, order, fs, bars[SymbolOf[d]])
  <2> HIDE DEF s, row
  <2> QED BY <1>2, <1>4, SettledMatches DEF row, IInv
<1>6. /\ new.op = "settle" /\ new.written = s.written \cup {d}
      /\ new.draft = [s.draft EXCEPT ![d] = [order |-> order, fills |-> fs]]
      /\ new \in SettleSession(new.state)
  <2>1. new = [op |-> "settle", run |-> s.run, at |-> s.at, seq |-> s.seq + 1,
               todo |-> s.todo \ {d}, written |-> s.written \cup {d},
               draft |-> [s.draft EXCEPT ![d] = [order |-> order, fills |-> fs]],
               state |-> ApplyFills(d, fs, s.state)]
    <3> HIDE DEF s
    <3> QED BY <1>1, <1>4 DEF Replaced, SettleSession
  <2> DEFINE drafts == [s.draft EXCEPT ![d] = [order |-> order, fills |-> fs]]
             account == ApplyFills(d, fs, s.state)
  <2>2. drafts \in [Decisions -> [order : OrderRecord, fills : Seq(FillRecord)]]
    <3> HIDE DEF s, order, fs
    <3> QED BY <1>4, <1>5
  <2>3. s.run \in Runs /\ s.at \in Nat /\ s.seq + 1 \in Nat
        /\ s.todo \subseteq Decisions /\ s.written \subseteq Decisions
    <3> HIDE DEF s
    <3> QED BY <1>1 DEF SettleSession
  <2> HIDE DEF s, drafts, account
  <2> QED BY <1>4, <2>1, <2>2, <2>3 DEF SettleSession, drafts, account
<1>7. \A e \in new.written :
        Matches(e, new.draft[e].order, new.draft[e].fills, bars[SymbolOf[e]])
  <2>1. \A e \in s.written :
          Matches(e, s.draft[e].order, s.draft[e].fills, bars[SymbolOf[e]])
    BY <1>1, SettleFacts
  <2>2. s.written \subseteq Decisions
    <3> HIDE DEF s
    <3> QED BY <1>1 DEF SettleSession
  <2> HIDE DEF s, new, order, fs
  <2> QED BY <1>4, <1>5, <1>6, <2>1, <2>2
<1>8. clock' \in Nat /\ route' \in [Actors -> Routes \cup {NoRoute}]
  BY <1>1 DEF IInv, TypeOK
<1> HIDE DEF new
<1> QED BY <1>1, <1>3, <1>6, <1>7, <1>8, SessionStep DEF new, IsSession

(* Committing the drafts keeps the invariant. *)
LEMMA CommitSettleStep ==
  ASSUME IInv, NEW a \in Actors, CommitSettle(a)
  PROVE  IInv'
<1> DEFINE s == session[a]
<1>1. /\ s.op = "settle"
      /\ orders' = [d \in Decisions |->
                      IF d \in s.written THEN s.draft[d].order ELSE orders[d]]
      /\ fills' = [d \in Decisions |->
                     IF d \in s.written THEN s.draft[d].fills ELSE fills[d]]
      /\ session' = [session EXCEPT ![a] = Idle]
      /\ UNCHANGED <<bars, clock, route>>
  BY DEF CommitSettle, FillsReplaced
<1>2. /\ s.draft \in [Decisions -> [order : OrderRecord, fills : Seq(FillRecord)]]
      /\ \A d \in s.written :
           Matches(d, s.draft[d].order, s.draft[d].fills, bars[SymbolOf[d]])
  <2>1. s \in SettleSession(s.state)
    BY <1>1, SettleFacts
  <2>2. s.draft \in [Decisions -> [order : OrderRecord, fills : Seq(FillRecord)]]
    <3> HIDE DEF s
    <3> QED BY <2>1 DEF SettleSession
  <2> QED BY <1>1, <2>2, SettleFacts
<1>3. /\ session' = [b \in Actors |-> session'[b]]
      /\ \A b \in Actors : IsSession(session'[b])
      /\ session'[a] = Idle
      /\ \A b \in Actors \ {a} : session'[b] = session[b]
  BY <1>1, IdleIsSession, SessionUpdated DEF IInv
<1>4. TypeOK'
  <2> HIDE DEF s
  <2>1. orders' \in [Decisions -> OrderRecord] /\ fills' \in [Decisions -> Seq(FillRecord)]
    BY <1>1, <1>2 DEF IInv, TypeOK
  <2> QED BY <1>1, <1>3, <2>1 DEF IInv, TypeOK
<1>5. HasLatestDay'
  BY <1>1 DEF IInv, HasLatestDay
<1>6. RowsMatch'
  <2> HIDE DEF s
  <2> QED BY <1>1, <1>2 DEF IInv, RowsMatch
<1>7. DraftsMatch'
  BY <1>1, <1>3, IdleIsSession DEF IInv, DraftsMatch
<1>8. CancelsAlone'
  BY <1>3, IdleIsSession DEF IInv, CancelsAlone
<1> QED BY <1>4, <1>5, <1>6, <1>7, <1>8 DEF IInv

(* A rollback keeps the invariant. *)
LEMMA AbortStep ==
  ASSUME IInv, NEW a \in Actors, Abort(a)
  PROVE  IInv'
<1>1. /\ session' = [session EXCEPT ![a] = Idle]
      /\ UNCHANGED <<bars, orders, fills, clock, route>>
  BY DEF Abort
<1>2. clock' \in Nat /\ route' \in [Actors -> Routes \cup {NoRoute}]
  BY <1>1 DEF IInv, TypeOK
<1> QED BY <1>1, <1>2, IdleIsSession, SessionStep

(* A later bar is not between a signal and the first bar that followed it. *)
LEMMA ImportBarStep ==
  ASSUME IInv, NEW s \in Symbols, NEW day \in Days, ImportBar(s, day)
  PROVE  IInv'
<1>1. /\ bars' = [bars EXCEPT ![s] = @ \cup {day}]
      /\ \A x \in bars[s] : day > x
      /\ UNCHANGED <<orders, fills, clock, route, session>>
  BY DEF ImportBar
<1>2. TypeOK'
  BY <1>1 DEF IInv, TypeOK
<1>3. \A t \in Symbols : bars'[t] = IF t = s THEN bars[s] \cup {day} ELSE bars[t]
  BY <1>1 DEF IInv, TypeOK
<1>4. \A x \in bars[s] : x \in Nat /\ x <= day
  BY <1>1, BarsAssumption DEF IInv, TypeOK
<1>5. HasLatestDay'
  <2>1. \A y \in bars[s] \cup {day} : y <= day
    BY <1>4, BarsAssumption
  <2> QED BY <1>3, <2>1 DEF IInv, HasLatestDay
<1>6. \A d \in Decisions : \A order, fs :
        Matches(d, order, fs, bars[SymbolOf[d]]) => Matches(d, order, fs, bars'[SymbolOf[d]])
  <2> SUFFICES ASSUME NEW d \in Decisions, NEW order, NEW fs,
                      Matches(d, order, fs, bars[SymbolOf[d]])
               PROVE  Matches(d, order, fs, bars'[SymbolOf[d]])
    OBVIOUS
  <2>1. SymbolOf[d] \in Symbols
    BY DecisionsAssumption
  <2>2. CASE SymbolOf[d] # s
    BY <1>3, <2>1, <2>2
  <2>3. CASE SymbolOf[d] = s
    <3>1. bars'[SymbolOf[d]] = bars[s] \cup {day}
      BY <1>3, <2>1, <2>3
    <3>2. fs[1].day \in bars[s] => fs[1].day <= day
      BY <1>4
    <3>3. Matches(d, order, fs, bars[s] \cup {day})
      BY <2>3, <3>2, Zenon DEF Matches, AtFirstOpen
    <3> QED BY <3>1, <3>3
  <2> QED BY <2>2, <2>3
<1>7. RowsMatch' /\ DraftsMatch'
  <2>1. RowsMatch'
    BY <1>1, <1>6 DEF IInv, RowsMatch
  <2>2. ASSUME NEW a \in Actors, session[a].op = "settle"
        PROVE  \A d \in session[a].written :
                 Matches(d, session[a].draft[d].order, session[a].draft[d].fills,
                         bars'[SymbolOf[d]])
    <3>1. session[a].written \subseteq Decisions
      BY <2>2, SettleFacts DEF SettleSession
    <3> QED BY <2>2, <3>1, <1>6 DEF IInv, DraftsMatch
  <2> QED BY <1>1, <2>1, <2>2 DEF IInv, DraftsMatch
<1>8. CancelsAlone'
  BY <1>1 DEF IInv, CancelsAlone
<1> QED BY <1>2, <1>5, <1>7, <1>8 DEF IInv

(* No cancellation races another call: nothing calls cancel_order, or one
   process makes every call.                                               *)
NoRacingCancel == "cancel" \notin Operations \/ \A a, b \in Actors : a = b

(* cancel_order reading the row of the only process keeps the invariant. *)
LEMMA BeginCancelStep ==
  ASSUME NoRacingCancel, IInv, NEW a \in Actors, NEW d \in Decisions,
         BeginCancel(a, d)
  PROVE  IInv'
<1> DEFINE s == [op |-> "cancel", decision |-> d, order |-> orders[d]]
<1>1. s \in CancelSession
  BY DEF CancelSession, IInv, TypeOK
<1>2. /\ session' = [session EXCEPT ![a] = s]
      /\ "cancel" \in Operations /\ Cancellable(orders[d].status)
      /\ UNCHANGED <<bars, orders, fills, clock, route>>
  BY DEF BeginCancel, StartSession
<1>3. clock' \in Nat /\ route' \in [Actors -> Routes \cup {NoRoute}]
  BY <1>2 DEF IInv, TypeOK
<1>4. s.op = "cancel" /\ s.order = orders[s.decision] /\ \A b \in Actors : b = a
  BY <1>2 DEF NoRacingCancel
<1> HIDE DEF s
<1>5. Cancellable(s.order.status)
  BY <1>2 DEF s
<1> QED BY <1>1, <1>2, <1>3, <1>4, <1>5, SessionStep DEF IsSession

(* Storing the row as cancelled keeps the invariant: nothing else of it changes. *)
LEMMA CommitCancelStep ==
  ASSUME IInv, NEW a \in Actors, CommitCancel(a)
  PROVE  IInv'
<1> DEFINE d == session[a].decision
           row == [orders[d] EXCEPT !.status = "CANCELLED"]
<1>1. session[a].op = "cancel"
  BY DEF CommitCancel
<1>2. /\ d \in Decisions /\ session[a].order = orders[d]
      /\ Cancellable(orders[d].status)
  BY <1>1 DEF IInv, CancelsAlone, TypeOK, IsSession, Idle, PlaceSession, SettleSession,
              CancelSession
<1>3. /\ orders' = [orders EXCEPT ![d] = row]
      /\ session' = [session EXCEPT ![a] = Idle]
      /\ UNCHANGED <<bars, fills, accounts, clock, route>>
  BY <1>2 DEF CommitCancel
<1>4. orders[d] \in OrderRecord /\ orders \in [Decisions -> OrderRecord]
  BY <1>2 DEF IInv, TypeOK
<1>5. row \in OrderRecord /\ row.status = "CANCELLED"
      /\ row.filled = orders[d].filled /\ row.qty = orders[d].qty
      /\ row.policy = orders[d].policy /\ row.signal = orders[d].signal
      /\ row.filledDay = orders[d].filledDay
  BY <1>4 DEF OrderRecord, Statuses, TerminalStatuses
<1>6. Matches(d, row, fills[d], bars[SymbolOf[d]])
  <2>1. Matches(d, orders[d], fills[d], bars[SymbolOf[d]])
    BY <1>2 DEF IInv, RowsMatch
  <2> HIDE DEF row, d
  <2>2. StatusAgrees(row, fills[d])
    BY <1>5, <2>1 DEF Matches, StatusAgrees
  <2>3. AtFirstOpen(d, row, fills[d], bars[SymbolOf[d]])
    BY <1>5, <2>1, Zenon DEF Matches, AtFirstOpen
  <2> QED BY <2>2, <2>3 DEF Matches
<1>7. /\ session' = [b \in Actors |-> session'[b]]
      /\ \A b \in Actors : IsSession(session'[b])
      /\ session'[a] = Idle
      /\ \A b \in Actors \ {a} : session'[b] = session[b]
  BY <1>3, IdleIsSession, SessionUpdated DEF IInv
<1> HIDE DEF row
<1>8. TypeOK'
  BY <1>3, <1>4, <1>5, <1>7 DEF IInv, TypeOK
<1>9. HasLatestDay'
  BY <1>3 DEF IInv, HasLatestDay
<1>10. RowsMatch'
  BY <1>3, <1>4, <1>6 DEF IInv, RowsMatch
<1>11. DraftsMatch' /\ CancelsAlone'
  BY <1>1, <1>3, <1>7, IdleIsSession DEF IInv, DraftsMatch, CancelsAlone
<1> QED BY <1>8, <1>9, <1>10, <1>11 DEF IInv

-----------------------------------------------------------------------------
(* The theorems.                                                           *)

(* Every step keeps the invariant. *)
LEMMA NextIInv ==
  ASSUME NoRacingCancel, IInv, [Next]_vars
  PROVE  IInv'
<1>1. CASE UNCHANGED vars
  BY <1>1 DEF vars, IInv, TypeOK, HasLatestDay, RowsMatch, DraftsMatch, CancelsAlone
<1>2. ASSUME NEW s \in Symbols, NEW day \in Days, ImportBar(s, day)
      PROVE  IInv'
  BY <1>2, ImportBarStep
<1>3. ASSUME NEW a \in Actors, NEW d \in Decisions, NEW policy \in Policies,
             NEW limit \in ThreadedCash \cup {NoLimit}, BeginPlace(a, d, policy, limit)
      PROVE  IInv'
  BY <1>3, BeginPlaceStep
<1>4. ASSUME NEW a \in Actors, Place(a)
      PROVE  IInv'
  BY <1>4, PlaceRejectedStep, PlaceQueuedStep, PlaceFilledStep DEF Place
<1>5. ASSUME NEW a \in Actors, NEW run \in Runs, BeginSettle(a, run)
      PROVE  IInv'
  BY <1>5, BeginSettleStep
<1>6. ASSUME NEW a \in Actors, Settle(a)
      PROVE  IInv'
  BY <1>6, SettleWaitsStep, SettleOrderStep, CommitSettleStep DEF Settle
<1>7. ASSUME NEW a \in Actors, NEW d \in Decisions, BeginCancel(a, d)
      PROVE  IInv'
  BY <1>7, BeginCancelStep
<1>8. ASSUME NEW a \in Actors, CommitCancel(a)
      PROVE  IInv'
  BY <1>8, CommitCancelStep
<1>9. ASSUME NEW a \in Actors, Abort(a)
      PROVE  IInv'
  BY <1>9, AbortStep
<1>10. ASSUME NEW a \in Actors, NEW run \in Runs, BeginRoute(a, run)
       PROVE  IInv'
  BY <1>10, BeginRouteStep
<1> QED BY <1>1, <1>2, <1>3, <1>4, <1>5, <1>6, <1>7, <1>8, <1>9, <1>10 DEF Next

(* The inductive invariant holds in every reachable state, whatever the number
   of processes, decisions, bars and sessions, when nothing calls cancel_order,
   as nothing in the repository does, and for one process also when it does. *)
THEOREM Invariance == ASSUME NoRacingCancel PROVE Spec => []IInv
<1>1. IInv /\ [Next]_vars => IInv'
  BY NextIInv
<1> QED BY <1>1, InitIInv, PTL DEF Spec

(* Rows and sessions keep their shape, whatever processes do: in           *)
(* particular every stored fill has a positive quantity and the date of a  *)
(* bar, and every order a natural quantity.                                *)
THEOREM TypeCorrect == ASSUME NoRacingCancel PROVE Spec => []TypeOK
<1>1. IInv => TypeOK
  BY DEF IInv
<1> QED BY <1>1, Invariance, PTL

(* Order rows and fill rows agree, for any number of processes that place, *)
(* place again and settle concurrently, and stop at any point.             *)
THEOREM RowsAgree == ASSUME NoRacingCancel PROVE Spec => []OrderFillsAgree
<1>1. IInv => OrderFillsAgree
  BY DEF IInv, RowsMatch, Matches, OrderFillsAgree
<1> QED BY <1>1, Invariance, PTL

(* A queued order is filled at the open of the first bar after its signal, *)
(* for any number of processes and however many bars were missed.          *)
THEOREM FirstOpen ==
  ASSUME NoRacingCancel PROVE Spec => []NextOpenFillAtFirstOpen
<1>1. IInv => NextOpenFillAtFirstOpen
  BY DEF IInv, RowsMatch, Matches, NextOpenFillAtFirstOpen
<1> QED BY <1>1, Invariance, PTL

-----------------------------------------------------------------------------
(* Replaying fills.                                                        *)

Account == [cash : Int, held : [Symbols -> Nat]]
Book == [Decisions -> Seq(FillRecord)]

(* Costs are natural numbers, so debits and proceeds are integers. *)
LEMMA CostOfType ==
  ASSUME NEW gross \in Nat
  PROVE  CostOf(gross) \in Nat
<1>1. /\ gross * BrokerageBps \in Nat /\ gross * ExchangeTxnBps \in Nat
      /\ gross * TaxLevyBps \in Nat /\ RateDenominator \in Nat \ {0}
  BY RatesAssumption
<1>2. /\ RoundHalfUp(gross * BrokerageBps, RateDenominator) \in Nat
      /\ RoundHalfUp(gross * ExchangeTxnBps, RateDenominator) \in Nat
      /\ RoundHalfUp(gross * TaxLevyBps, RateDenominator) \in Nat
  BY <1>1, RoundHalfUpType
<1> QED BY <1>2 DEF CostOf

LEMMA FillMoneyType ==
  ASSUME NEW fill \in FillRecord
  PROVE  Gross(fill) \in Nat /\ CostOf(Gross(fill)) \in Nat
         /\ Debit(fill) \in Int /\ Proceeds(fill) \in Int
<1>1. Gross(fill) \in Nat
  BY DEF Gross, FillRecord
<1>2. CostOf(Gross(fill)) \in Nat
  BY <1>1, CostOfType
<1> QED BY <1>1, <1>2 DEF Debit, Proceeds

(* A fill takes an account to an account: no holding becomes negative. *)
LEMMA ApplyFillType ==
  ASSUME NEW d \in Decisions, NEW fill \in FillRecord, NEW st \in Account
  PROVE  ApplyFill(d, fill, st) \in Account
<1> DEFINE s == SymbolOf[d]
           sold == IF fill.qty < st.held[s] THEN fill.qty ELSE st.held[s]
<1>1. s \in Symbols /\ st.held \in [Symbols -> Nat] /\ st.cash \in Int
  BY DecisionsAssumption DEF Account
<1>2. fill.qty \in Nat /\ Debit(fill) \in Int /\ Proceeds(fill) \in Int
  BY FillMoneyType DEF FillRecord
<1>3. sold \in Nat /\ st.held[s] - sold \in Nat /\ st.held[s] + fill.qty \in Nat
  <2> HIDE DEF s
  <2> QED BY <1>1, <1>2
<1>4. [cash |-> st.cash - Debit(fill),
       held |-> [st.held EXCEPT ![s] = @ + fill.qty]] \in Account
  <2> HIDE DEF s
  <2> QED BY <1>1, <1>2, <1>3 DEF Account
<1>5. [cash |-> st.cash + Proceeds(fill),
       held |-> [st.held EXCEPT ![s] = @ - sold]] \in Account
  <2> HIDE DEF s, sold
  <2> QED BY <1>1, <1>2, <1>3 DEF Account
<1> HIDE DEF s, sold
<1> QED BY <1>4, <1>5 DEF ApplyFill, s, sold

LEMMA StartStateType == StartState \in Account
BY BrokerAssumption DEF StartState, NoHoldings, Account

(* The entries of a book are finitely many and hold fill rows. *)
LEMMA EntriesType ==
  ASSUME IsFiniteSet(Decisions), NEW book \in Book
  PROVE  /\ IsFiniteSet(Entries(book))
         /\ \A e \in Entries(book) :
              /\ e[1] \in Decisions /\ e[2] \in {1, 2} /\ e = <<e[1], e[2]>>
              /\ e[2] <= Len(book[e[1]])
              /\ FillAt(book, e) \in FillRecord
<1>1. IsFiniteSet({1, 2})
  <2>1. {1, 2} = {1} \cup {2}
    OBVIOUS
  <2>2. IsFiniteSet({1})
    BY FS_Singleton, Zenon
  <2>3. IsFiniteSet({1} \cup {2})
    BY <2>2, FS_AddElement, Zenon
  <2> QED BY <2>1, <2>3
<1>2. IsFiniteSet(Decisions \X {1, 2})
  BY <1>1, FS_Product
<1>3. Entries(book) \subseteq Decisions \X {1, 2}
  BY DEF Entries
<1>4. IsFiniteSet(Entries(book))
  BY <1>2, <1>3, FS_Subset
<1>5. ASSUME NEW e \in Entries(book)
      PROVE  /\ e[1] \in Decisions /\ e[2] \in {1, 2} /\ e = <<e[1], e[2]>>
             /\ e[2] <= Len(book[e[1]])
             /\ FillAt(book, e) \in FillRecord
  <2>1. e[1] \in Decisions /\ e[2] \in {1, 2} /\ e = <<e[1], e[2]>>
        /\ e[2] <= Len(book[e[1]])
    BY DEF Entries
  <2>2. book[e[1]] \in Seq(FillRecord)
    BY <2>1 DEF Book
  <2>3. book[e[1]][e[2]] \in FillRecord
    BY <2>1, <2>2
  <2> QED BY <2>1, <2>3 DEF FillAt
<1> QED BY <1>4, <1>5

(* Among finitely many entries one is not before any other. *)
LEMMA LatestExists ==
  ASSUME IsFiniteSet(Decisions), NEW book \in Book, NEW E \in SUBSET Entries(book)
  PROVE  \A s \in SUBSET E : s # {} => \E e \in s : \A f \in s : NotBefore(book, e, f)
<1> DEFINE G == {s \in SUBSET E : s # {} => \E e \in s : \A f \in s : NotBefore(book, e, f)}
<1>1. ASSUME NEW e \in E
      PROVE  FillAt(book, e).at \in Nat /\ e[2] \in Nat
  BY EntriesType DEF FillRecord
<1>2. {} \in G /\ G \in SUBSET (SUBSET E)
  OBVIOUS
<1>3. ASSUME NEW s \in SUBSET E, s # {}, \A x \in s : s \ {x} \in G
      PROVE  s \in G
  <2>1. PICK x \in s : TRUE
    BY <1>3
  <2>2. CASE s \ {x} = {}
    <3>1. \A f \in s : f = x
      BY <2>2
    <3>2. NotBefore(book, x, x)
      BY <1>1 DEF NotBefore
    <3> QED BY <3>1, <3>2
  <2>3. CASE s \ {x} # {}
    <3>1. PICK e \in s \ {x} : \A f \in s \ {x} : NotBefore(book, e, f)
      BY <1>3, <2>3
    <3>2. CASE NotBefore(book, e, x)
      BY <3>1, <3>2
    <3>3. CASE ~NotBefore(book, e, x)
      <4>1. NotBefore(book, x, e) /\ NotBefore(book, x, x)
        BY <1>1, <3>3 DEF NotBefore
      <4>2. \A f \in s \ {x} : NotBefore(book, x, f)
        <5> SUFFICES ASSUME NEW f \in s \ {x} PROVE NotBefore(book, x, f)
          OBVIOUS
        <5>1. /\ FillAt(book, e).at \in Nat /\ e[2] \in Nat
              /\ FillAt(book, f).at \in Nat /\ f[2] \in Nat
              /\ FillAt(book, x).at \in Nat /\ x[2] \in Nat
          BY <1>1
        <5>2. NotBefore(book, e, f)
          BY <3>1
        <5> QED BY <4>1, <5>1, <5>2 DEF NotBefore
      <4> QED BY <4>1, <4>2
    <3> QED BY <3>2, <3>3
  <2> QED BY <2>2, <2>3
<1>4. IsFiniteSet(E)
  BY EntriesType, FS_Subset
<1>5. G = SUBSET E
  <2> HIDE DEF G
  <2> QED BY <1>2, <1>3, <1>4, SubsetInduction
<1> QED BY <1>5

(* _sorted_fills, _rebuild_account: the account of some entries is the start,
   or a latest entry applied to the account of the others.                 *)
LEMMA ReplayFacts ==
  ASSUME IsFiniteSet(Decisions), NEW book \in Book, NEW E \in SUBSET Entries(book)
  PROVE  /\ ReplayOf(book, {}) = StartState
         /\ ReplayOf(book, E) \in Account
         /\ E # {} => \E e \in E :
              /\ \A f \in E : NotBefore(book, e, f)
              /\ ReplayOf(book, E) =
                   ApplyFill(e[1], FillAt(book, e), ReplayOf(book, E \ {e}))
<1> DEFINE last(s) == CHOOSE e \in s : \A f \in s : NotBefore(book, e, f)
           Runs_(iter, A) ==
             iter = [s \in SUBSET A |->
                       IF s = {} THEN StartState
                       ELSE ApplyFill(last(s)[1], FillAt(book, last(s)),
                                      iter[s \ {last(s)}])]
           run(A) == CHOOSE iter : Runs_(iter, A)
<1>1. ASSUME NEW s \in SUBSET E, s # {}
      PROVE  last(s) \in s /\ \A f \in s : NotBefore(book, last(s), f)
  <2>1. \E e \in s : \A f \in s : NotBefore(book, e, f)
    BY <1>1, LatestExists
  <2> QED BY <2>1
<1>2. ASSUME NEW A \in SUBSET E
      PROVE  Runs_(run(A), A) /\ run(A) \in [SUBSET A -> Account]
  <2> DEFINE pick == [s \in SUBSET E |-> last(s)]
             step == [p \in A \X Account |-> ApplyFill(p[1][1], FillAt(book, p[1]), p[2])]
  <2>1. IsFiniteSet(A)
    BY EntriesType, FS_Subset
  <2>2. step \in [A \X Account -> Account]
    <3>1. ASSUME NEW p \in A \X Account
          PROVE  ApplyFill(p[1][1], FillAt(book, p[1]), p[2]) \in Account
      <4>1. p[1] \in Entries(book) /\ p[2] \in Account
        OBVIOUS
      <4> QED BY <4>1, EntriesType, ApplyFillType
    <3> QED BY <3>1
  <2>3. \A s \in SUBSET A : s # {} => pick[s] \in s
    BY <1>1
  <2>4. PICK iter \in [SUBSET A -> Account] : Folds(iter, A, StartState, pick, step)
    <3> HIDE DEF pick, step
    <3> QED BY <2>1, <2>2, <2>3, StartStateType, FoldExists, Zenon
  <2>5. ASSUME NEW s \in SUBSET A, s # {}
        PROVE  step[<<pick[s], iter[s \ {pick[s]}]>>]
                 = ApplyFill(last(s)[1], FillAt(book, last(s)), iter[s \ {last(s)}])
    <3>1. pick[s] = last(s) /\ last(s) \in A /\ s \ {last(s)} \in SUBSET A
      BY <1>1, <2>5
    <3>2. iter[s \ {last(s)}] \in Account
      BY <3>1
    <3> HIDE DEF pick, last
    <3> QED BY <3>1, <3>2
  <2>6. Runs_(iter, A)
    <3> HIDE DEF pick, last, step
    <3> QED BY <2>4, <2>5 DEF Folds
  <2>7. Runs_(run(A), A)
    <3> HIDE DEF Runs_
    <3> QED BY <2>6
  <2>8. SameSteps(run(A), iter, A)
    <3>1. ASSUME NEW s \in SUBSET A, s # {},
                 \A x \in s : run(A)[s \ {x}] = iter[s \ {x}]
          PROVE  run(A)[s] = iter[s]
      <4>1. run(A)[s \ {last(s)}] = iter[s \ {last(s)}]
        BY <1>1, <3>1
      <4> HIDE DEF last, run
      <4> QED BY <2>6, <2>7, <3>1, <4>1
    <3>2. run(A)[{}] = iter[{}]
      <4> HIDE DEF last, run
      <4> QED BY <2>6, <2>7
    <3> HIDE DEF run
    <3> QED BY <3>1, <3>2 DEF SameSteps
  <2>9. \A s \in SUBSET A : run(A)[s] = iter[s]
    <3> HIDE DEF run
    <3> QED BY <2>1, <2>8, FoldsAgree
  <2>10. run(A) = [s \in SUBSET A |-> run(A)[s]]
    <3> HIDE DEF last, run
    <3> QED BY <2>7
  <2>11. run(A) \in [SUBSET A -> Account]
    <3> HIDE DEF last, run, Runs_
    <3> QED BY <2>9, <2>10
  <2> HIDE DEF last, run
  <2> QED BY <2>7, <2>11
<1>3. ASSUME NEW A \in SUBSET E PROVE ReplayOf(book, A) = run(A)[A]
  BY DEF ReplayOf, MapThenFoldSet
<1>4. ASSUME NEW A \in SUBSET E, NEW B \in SUBSET A PROVE run(A)[B] = run(B)[B]
  <2>1. IsFiniteSet(B) /\ B \in SUBSET E
    BY EntriesType, FS_Subset
  <2>2. Runs_(run(A), A) /\ Runs_(run(B), B)
    BY <1>2, <2>1
  <2>3. ASSUME NEW s \in SUBSET B, s # {},
               \A x \in s : run(A)[s \ {x}] = run(B)[s \ {x}]
        PROVE  run(A)[s] = run(B)[s]
    <3>1. run(A)[s \ {last(s)}] = run(B)[s \ {last(s)}]
      BY <1>1, <2>3
    <3> HIDE DEF last, run
    <3> QED BY <2>2, <2>3, <3>1
  <2>4. run(A)[{}] = run(B)[{}]
    <3> HIDE DEF last, run
    <3> QED BY <2>2
  <2> HIDE DEF run
  <2>5. SameSteps(run(A), run(B), B)
    BY <2>3, <2>4 DEF SameSteps
  <2> QED BY <2>1, <2>5, FoldsAgree
<1>5. ReplayOf(book, {}) = StartState
  <2>1. Runs_(run({}), {}) /\ ReplayOf(book, {}) = run({})[{}]
    BY <1>2, <1>3
  <2> HIDE DEF last, run
  <2> QED BY <2>1
<1>6. Runs_(run(E), E) /\ run(E) \in [SUBSET E -> Account] /\ ReplayOf(book, E) = run(E)[E]
  BY <1>2, <1>3
<1>7. ReplayOf(book, E) \in Account
  <2> HIDE DEF run, Runs_
  <2> QED BY <1>6
<1>8. ASSUME E # {}
      PROVE  /\ last(E) \in E /\ \A f \in E : NotBefore(book, last(E), f)
             /\ ReplayOf(book, E) = ApplyFill(last(E)[1], FillAt(book, last(E)),
                                              ReplayOf(book, E \ {last(E)}))
  <2>1. ReplayOf(book, E \ {last(E)}) = run(E)[E \ {last(E)}]
    <3>1. E \ {last(E)} \in SUBSET E
      OBVIOUS
    <3> HIDE DEF last, run
    <3> QED BY <1>3, <1>4, <3>1
  <2>2. run(E)[E] = ApplyFill(last(E)[1], FillAt(book, last(E)), run(E)[E \ {last(E)}])
    <3> HIDE DEF last, run
    <3> QED BY <1>6, <1>8
  <2>3. last(E) \in E /\ \A f \in E : NotBefore(book, last(E), f)
    BY <1>1, <1>8
  <2> HIDE DEF last, run
  <2> QED BY <1>6, <2>1, <2>2, <2>3
<1> HIDE DEF last
<1> QED BY <1>5, <1>7, <1>8

(* A fill moves the holding of its own symbol, by what is held of it, and no
   other.                                                                  *)
LEMMA OtherHoldings ==
  ASSUME NEW d \in Decisions, NEW fill \in FillRecord, NEW st \in Account,
         NEW s \in Symbols, SymbolOf[d] # s
  PROVE  ApplyFill(d, fill, st).held[s] = st.held[s]
<1> DEFINE x == SymbolOf[d]
           sold == IF fill.qty < st.held[x] THEN fill.qty ELSE st.held[x]
<1>1. st.held \in [Symbols -> Nat]
  BY DEF Account
<1>2. \/ ApplyFill(d, fill, st).held = [st.held EXCEPT ![x] = @ + fill.qty]
      \/ ApplyFill(d, fill, st).held = st.held
      \/ ApplyFill(d, fill, st).held = [st.held EXCEPT ![x] = @ - sold]
  BY DEF ApplyFill
<1> HIDE DEF x, sold
<1> QED BY <1>1, <1>2 DEF x

LEMMA OwnHolding ==
  ASSUME NEW d \in Decisions, NEW fill \in FillRecord, NEW st \in Account,
         NEW other \in Account, st.held[SymbolOf[d]] = other.held[SymbolOf[d]]
  PROVE  ApplyFill(d, fill, st).held[SymbolOf[d]]
           = ApplyFill(d, fill, other).held[SymbolOf[d]]
<1> DEFINE s == SymbolOf[d]
           sold(x) == IF fill.qty < x THEN fill.qty ELSE x
<1>1. /\ st.held \in [Symbols -> Nat] /\ other.held \in [Symbols -> Nat] /\ s \in Symbols
      /\ st.held[s] = other.held[s]
  BY DecisionsAssumption DEF Account
<1>2. ASSUME NEW acc \in Account
      PROVE  ApplyFill(d, fill, acc).held =
               (IF SideOf(d) = "BUY" THEN [acc.held EXCEPT ![s] = @ + fill.qty]
                ELSE IF sold(acc.held[s]) = 0 THEN acc.held
                ELSE [acc.held EXCEPT ![s] = @ - sold(acc.held[s])])
  BY DEF ApplyFill
<1> HIDE DEF s, sold
<1>3. ASSUME NEW acc \in Account, acc.held \in [Symbols -> Nat]
      PROVE  ApplyFill(d, fill, acc).held[s] =
               (IF SideOf(d) = "BUY" THEN acc.held[s] + fill.qty
                ELSE IF sold(acc.held[s]) = 0 THEN acc.held[s]
                ELSE acc.held[s] - sold(acc.held[s]))
  BY <1>1, <1>2, <1>3
<1>4. ApplyFill(d, fill, st).held[s] = ApplyFill(d, fill, other).held[s]
  BY <1>1, <1>3
<1> QED BY <1>4 DEF s

(* Fills of different symbols may be applied in either order.              *)
LEMMA FillsCommute ==
  ASSUME NEW c \in Decisions, NEW d \in Decisions, NEW fill \in FillRecord,
         NEW other \in FillRecord, NEW st \in Account, SymbolOf[c] # SymbolOf[d]
  PROVE  ApplyFill(c, fill, ApplyFill(d, other, st))
           = ApplyFill(d, other, ApplyFill(c, fill, st))
<1> DEFINE s == SymbolOf[c]
           t == SymbolOf[d]
           held == st.held
           part(x, f) == IF f.qty < held[x] THEN f.qty ELSE held[x]
<1>1. /\ s \in Symbols /\ t \in Symbols /\ s # t
      /\ held \in [Symbols -> Nat] /\ st.cash \in Int
      /\ st = [cash |-> st.cash, held |-> held]
  BY DecisionsAssumption DEF Account
<1>2. ASSUME NEW e \in Decisions, NEW f \in FillRecord
      PROVE  \E cash \in Int, n \in Nat :
               \A acc \in Account : acc.held[SymbolOf[e]] = held[SymbolOf[e]] =>
                 ApplyFill(e, f, acc)
                   = [cash |-> acc.cash + cash, held |-> [acc.held EXCEPT ![SymbolOf[e]] = n]]
  <2> DEFINE x == SymbolOf[e]
  <2>1. /\ Debit(f) \in Int /\ Proceeds(f) \in Int /\ f.qty \in Nat /\ x \in Symbols
        /\ held[x] \in Nat
    BY <1>1, FillMoneyType, DecisionsAssumption DEF FillRecord
  <2>2. CASE SideOf(e) = "BUY"
    <3>1. ASSUME NEW acc \in Account, acc.held[x] = held[x]
          PROVE  ApplyFill(e, f, acc)
                   = [cash |-> acc.cash + (0 - Debit(f)),
                      held |-> [acc.held EXCEPT ![x] = held[x] + f.qty]]
      <4>1. acc.cash - Debit(f) = acc.cash + (0 - Debit(f))
        BY <2>1 DEF Account
      <4>2. ApplyFill(e, f, acc) = [cash |-> acc.cash - Debit(f),
                                    held |-> [acc.held EXCEPT ![x] = @ + f.qty]]
        BY <2>2 DEF ApplyFill
      <4> HIDE DEF x, held
      <4> QED BY <3>1, <4>1, <4>2
    <3>2. 0 - Debit(f) \in Int /\ held[x] + f.qty \in Nat
      BY <2>1
    <3> HIDE DEF x, held
    <3> QED BY <3>1, <3>2 DEF x
  <2>3. CASE SideOf(e) # "BUY" /\ part(x, f) = 0
    <3>1. ASSUME NEW acc \in Account, acc.held[x] = held[x]
          PROVE  ApplyFill(e, f, acc)
                   = [cash |-> acc.cash + 0, held |-> [acc.held EXCEPT ![x] = held[x]]]
      <4>1. ApplyFill(e, f, acc) = acc
        BY <2>3, <3>1 DEF ApplyFill
      <4>2. acc = [cash |-> acc.cash + 0, held |-> [acc.held EXCEPT ![x] = held[x]]]
        <5>1. acc = [cash |-> acc.cash, held |-> acc.held] /\ acc.cash \in Int
              /\ acc.held \in [Symbols -> Nat]
          BY DEF Account
        <5>2. [acc.held EXCEPT ![x] = held[x]] = acc.held
          <6> HIDE DEF x, held
          <6> QED BY <2>1, <3>1, <5>1
        <5>3. acc.cash + 0 = acc.cash
          BY <5>1
        <5> QED BY <5>1, <5>2, <5>3
      <4> QED BY <4>1, <4>2
    <3> HIDE DEF x, held
    <3> QED BY <2>1, <3>1 DEF x
  <2>4. CASE SideOf(e) # "BUY" /\ part(x, f) # 0
    <3>1. ASSUME NEW acc \in Account, acc.held[x] = held[x]
          PROVE  ApplyFill(e, f, acc)
                   = [cash |-> acc.cash + Proceeds(f),
                      held |-> [acc.held EXCEPT ![x] = held[x] - part(x, f)]]
      <4>1. ApplyFill(e, f, acc)
              = [cash |-> acc.cash + Proceeds(f),
                 held |-> [acc.held EXCEPT ![x] = @ - part(x, f)]]
        BY <2>4, <3>1 DEF ApplyFill
      <4> HIDE DEF x, held, part
      <4> QED BY <3>1, <4>1
    <3>2. held[x] - part(x, f) \in Nat
      <4> HIDE DEF x, held
      <4> QED BY <2>1
    <3> HIDE DEF x, held, part
    <3> QED BY <2>1, <3>1, <3>2 DEF x
  <2> QED BY <2>2, <2>3, <2>4
<1> HIDE DEF held
<1>3. PICK p \in Int, n \in Nat :
        \A acc \in Account : acc.held[s] = held[s] =>
          ApplyFill(c, fill, acc)
            = [cash |-> acc.cash + p, held |-> [acc.held EXCEPT ![s] = n]]
  BY <1>2
<1>4. PICK q \in Int, m \in Nat :
        \A acc \in Account : acc.held[t] = held[t] =>
          ApplyFill(d, other, acc)
            = [cash |-> acc.cash + q, held |-> [acc.held EXCEPT ![t] = m]]
  BY <1>2
<1> HIDE DEF s, t
<1> DEFINE one == [cash |-> st.cash + p, held |-> [held EXCEPT ![s] = n]]
           two == [cash |-> st.cash + q, held |-> [held EXCEPT ![t] = m]]
<1>5. st \in Account /\ st.held = held
  BY <1>1
<1>6. ApplyFill(c, fill, st) = one /\ ApplyFill(d, other, st) = two
  BY <1>3, <1>4, <1>5
<1>7. one \in Account /\ two \in Account /\ one.held[t] = held[t] /\ two.held[s] = held[s]
      /\ one.cash = st.cash + p /\ two.cash = st.cash + q
      /\ one.held = [held EXCEPT ![s] = n] /\ two.held = [held EXCEPT ![t] = m]
  BY <1>1 DEF Account
<1> HIDE DEF one, two
<1>8. ApplyFill(d, other, one) = [cash |-> one.cash + q, held |-> [one.held EXCEPT ![t] = m]]
      /\ ApplyFill(c, fill, two) = [cash |-> two.cash + p, held |-> [two.held EXCEPT ![s] = n]]
  BY <1>3, <1>4, <1>7
<1>9. [one.held EXCEPT ![t] = m] = [two.held EXCEPT ![s] = n]
  <2> DEFINE left == [[held EXCEPT ![s] = n] EXCEPT ![t] = m]
             right == [[held EXCEPT ![t] = m] EXCEPT ![s] = n]
  <2>1. left \in [Symbols -> Nat] /\ right \in [Symbols -> Nat]
    BY <1>1
  <2>2. \A x \in Symbols : left[x] = right[x]
    BY <1>1
  <2>3. left = right
    <3> HIDE DEF left, right
    <3> QED BY <2>1, <2>2
  <2> QED BY <1>7, <2>3
<1>10. one.cash + q = two.cash + p
  BY <1>1, <1>7
<1> QED BY <1>6, <1>8, <1>9, <1>10

(* No two fills of one symbol have the same place in the order of the replay. *)
Ordered(book) ==
  \A e, f \in Entries(book) :
    SymbolOf[e[1]] = SymbolOf[f[1]] /\ NotBefore(book, e, f) /\ NotBefore(book, f, e)
      => e = f

(* Then a fill that is the latest of its symbol may be taken as the last one
   applied, wherever the fills of other symbols stand.                     *)
LEMMA ReplayLast ==
  ASSUME IsFiniteSet(Decisions), NEW book \in Book, Ordered(book),
         NEW E \in SUBSET Entries(book), NEW e \in E,
         \A f \in E : SymbolOf[f[1]] = SymbolOf[e[1]] => NotBefore(book, e, f)
  PROVE  ReplayOf(book, E) = ApplyFill(e[1], FillAt(book, e), ReplayOf(book, E \ {e}))
<1> DEFINE apply(x, st) == ApplyFill(x[1], FillAt(book, x), st)
           G == {s \in SUBSET E :
                   \A x \in s :
                     (\A f \in s : SymbolOf[f[1]] = SymbolOf[x[1]] => NotBefore(book, x, f))
                       => ReplayOf(book, s) = apply(x, ReplayOf(book, s \ {x}))}
<1>1. {} \in G /\ G \in SUBSET (SUBSET E)
  OBVIOUS
<1>2. ASSUME NEW s \in SUBSET E, s # {}, \A x \in s : s \ {x} \in G
      PROVE  s \in G
  <2> SUFFICES ASSUME NEW x \in s,
                      \A f \in s : SymbolOf[f[1]] = SymbolOf[x[1]] => NotBefore(book, x, f)
               PROVE  ReplayOf(book, s) = apply(x, ReplayOf(book, s \ {x}))
    OBVIOUS
  <2>1. PICK l \in s : /\ \A f \in s : NotBefore(book, l, f)
                      /\ ReplayOf(book, s) = apply(l, ReplayOf(book, s \ {l}))
    <3>1. s \in SUBSET Entries(book)
      OBVIOUS
    <3> QED BY <1>2, <3>1, ReplayFacts
  <2>2. CASE SymbolOf[l[1]] = SymbolOf[x[1]]
    <3>1. l = x
      BY <2>1, <2>2 DEF Ordered
    <3> QED BY <2>1, <3>1
  <2>3. CASE SymbolOf[l[1]] # SymbolOf[x[1]]
    <3> DEFINE rest == (s \ {l}) \ {x}
    <3>1. l # x /\ x \in s \ {l} /\ l \in s \ {x} /\ (s \ {x}) \ {l} = rest
          /\ rest \in SUBSET Entries(book)
      BY <2>3
    <3>2. s \ {l} \in G /\ s \ {x} \in G
      BY <1>2
    <3>3. ReplayOf(book, s \ {l}) = apply(x, ReplayOf(book, rest))
      <4>1. \A f \in s \ {l} : SymbolOf[f[1]] = SymbolOf[x[1]] => NotBefore(book, x, f)
        OBVIOUS
      <4> HIDE DEF apply
      <4> QED BY <3>1, <3>2, <4>1
    <3>4. ReplayOf(book, s \ {x}) = apply(l, ReplayOf(book, rest))
      <4>1. \A f \in s \ {x} : SymbolOf[f[1]] = SymbolOf[l[1]] => NotBefore(book, l, f)
        BY <2>1
      <4>2. ReplayOf(book, s \ {x}) = apply(l, ReplayOf(book, (s \ {x}) \ {l}))
        <5> HIDE DEF apply, rest
        <5> QED BY <3>1, <3>2, <4>1
      <4> QED BY <3>1, <4>2
    <3>5. /\ l[1] \in Decisions /\ x[1] \in Decisions /\ FillAt(book, l) \in FillRecord
          /\ FillAt(book, x) \in FillRecord /\ ReplayOf(book, rest) \in Account
      <4>1. l \in Entries(book) /\ x \in Entries(book)
        OBVIOUS
      <4> HIDE DEF rest
      <4> QED BY <3>1, <4>1, EntriesType, ReplayFacts
    <3> DEFINE st == ReplayOf(book, rest)
    <3>6. apply(l, apply(x, st)) = apply(x, apply(l, st))
      <4> HIDE DEF st
      <4> QED BY <2>3, <3>5, FillsCommute DEF st
    <3> HIDE DEF apply
    <3> QED BY <2>1, <3>3, <3>4, <3>6
  <2> QED BY <2>2, <2>3
<1>3. IsFiniteSet(E)
  BY EntriesType, FS_Subset
<1>4. G = SUBSET E
  <2> HIDE DEF G
  <2> QED BY <1>1, <1>2, <1>3, SubsetInduction
<1>5. E \in G
  BY <1>4
<1> QED BY <1>5

(* The entries of a symbol. *)
EntriesOf(E, s) == {e \in E : SymbolOf[e[1]] = s}

(* What is held of a symbol depends on the fills of that symbol alone. *)
LEMMA HeldBySymbol ==
  ASSUME IsFiniteSet(Decisions), NEW book \in Book, Ordered(book),
         NEW E \in SUBSET Entries(book), NEW s \in Symbols
  PROVE  ReplayOf(book, E).held[s] = ReplayOf(book, EntriesOf(E, s)).held[s]
<1> DEFINE G == {A \in SUBSET E :
                   ReplayOf(book, A).held[s] = ReplayOf(book, EntriesOf(A, s)).held[s]}
<1>1. {} \in G /\ G \in SUBSET (SUBSET E)
  <2>1. EntriesOf({}, s) = {}
    BY DEF EntriesOf
  <2> QED BY <2>1
<1>2. ASSUME NEW A \in SUBSET E, A # {}, \A x \in A : A \ {x} \in G
      PROVE  A \in G
  <2>1. A \in SUBSET Entries(book)
    OBVIOUS
  <2>2. PICK l \in A : /\ \A f \in A : NotBefore(book, l, f)
                      /\ ReplayOf(book, A)
                           = ApplyFill(l[1], FillAt(book, l), ReplayOf(book, A \ {l}))
    BY <1>2, <2>1, ReplayFacts
  <2> DEFINE most == ReplayOf(book, A \ {l})
             own == ReplayOf(book, EntriesOf(A \ {l}, s))
             fill == FillAt(book, l)
  <2>3. /\ l[1] \in Decisions /\ fill \in FillRecord
        /\ most \in Account /\ own \in Account /\ most.held[s] = own.held[s]
    <3>1. l \in Entries(book) /\ A \ {l} \in SUBSET Entries(book)
          /\ EntriesOf(A \ {l}, s) \in SUBSET Entries(book)
      BY DEF EntriesOf
    <3> QED BY <1>2, <3>1, EntriesType, ReplayFacts
  <2>4. CASE SymbolOf[l[1]] # s
    <3>1. EntriesOf(A \ {l}, s) = EntriesOf(A, s)
      BY <2>4 DEF EntriesOf
    <3>2. ApplyFill(l[1], fill, most).held[s] = most.held[s]
      <4> HIDE DEF most, fill
      <4> QED BY <2>3, <2>4, OtherHoldings
    <3> QED BY <2>2, <2>3, <3>1, <3>2
  <2>5. CASE SymbolOf[l[1]] = s
    <3>1. /\ EntriesOf(A, s) \ {l} = EntriesOf(A \ {l}, s) /\ l \in EntriesOf(A, s)
          /\ EntriesOf(A, s) \in SUBSET Entries(book)
          /\ \A f \in EntriesOf(A, s) : NotBefore(book, l, f)
      BY <2>2, <2>5 DEF EntriesOf
    <3> DEFINE O == EntriesOf(A, s)
    <3>2. ReplayOf(book, O) = ApplyFill(l[1], fill, own)
      <4>1. /\ O \in SUBSET Entries(book) /\ l \in O
            /\ \A f \in O : SymbolOf[f[1]] = SymbolOf[l[1]] => NotBefore(book, l, f)
        BY <3>1
      <4>2. own = ReplayOf(book, O \ {l})
        BY <3>1
      <4> HIDE DEF O, own, fill
      <4>3. ReplayOf(book, O) = ApplyFill(l[1], FillAt(book, l), ReplayOf(book, O \ {l}))
        BY <4>1, ReplayLast
      <4> QED BY <4>2, <4>3 DEF fill
    <3>3. ApplyFill(l[1], fill, most).held[s] = ApplyFill(l[1], fill, own).held[s]
      <4> HIDE DEF most, own, fill
      <4> QED BY <2>3, <2>5, OwnHolding
    <3> QED BY <2>2, <3>2, <3>3
  <2> QED BY <2>4, <2>5
<1>3. IsFiniteSet(E)
  BY EntriesType, FS_Subset
<1>4. G = SUBSET E
  <2> HIDE DEF G
  <2> QED BY <1>1, <1>2, <1>3, SubsetInduction
<1>5. E \in G
  BY <1>4
<1> QED BY <1>5

(* Entries with the same fills add up to the same account in any book. *)
LEMMA ReplaySame ==
  ASSUME IsFiniteSet(Decisions), NEW old \in Book, NEW new \in Book, Ordered(old),
         NEW E \in SUBSET Entries(old), E \subseteq Entries(new),
         \A e \in E : FillAt(old, e) = FillAt(new, e)
  PROVE  ReplayOf(old, E) = ReplayOf(new, E)
<1> DEFINE left == [s \in SUBSET E |-> ReplayOf(old, s)]
           right == [s \in SUBSET E |-> ReplayOf(new, s)]
<1>1. left[{}] = right[{}]
  BY ReplayFacts
<1>2. ASSUME NEW s \in SUBSET E, s # {}, \A x \in s : left[s \ {x}] = right[s \ {x}]
      PROVE  left[s] = right[s]
  <2>1. PICK l \in s : /\ \A f \in s : NotBefore(new, l, f)
                      /\ ReplayOf(new, s) =
                           ApplyFill(l[1], FillAt(new, l), ReplayOf(new, s \ {l}))
    BY <1>2, ReplayFacts
  <2>2. \A f \in s : NotBefore(old, l, f)
    BY <2>1 DEF NotBefore
  <2>3. ReplayOf(old, s) = ApplyFill(l[1], FillAt(old, l), ReplayOf(old, s \ {l}))
    BY <2>2, ReplayLast
  <2>4. left[s \ {l}] = right[s \ {l}] /\ s \ {l} \in SUBSET E
    BY <1>2
  <2>5. ReplayOf(old, s \ {l}) = ReplayOf(new, s \ {l})
    BY <2>4
  <2> QED BY <2>1, <2>3, <2>5
<1>3. SameSteps(left, right, E)
  <2> HIDE DEF left, right
  <2> QED BY <1>1, <1>2 DEF SameSteps
<1>4. left[E] = right[E]
  <2>1. IsFiniteSet(E)
    BY EntriesType, FS_Subset
  <2> HIDE DEF left, right
  <2> QED BY <1>3, <2>1, FoldsAgree
<1> QED BY <1>4

(* No SELL of a book removes more than is held when its turn comes. *)
Covered(book) ==
  \A e \in Entries(book) :
    SideOf(e[1]) = "SELL" =>
      LET before == {f \in Entries(book) \ {e} : NotBefore(book, e, f)} IN
      FillAt(book, e).qty <= ReplayOf(book, before).held[SymbolOf[e[1]]]

(* A book whose fills are ordered and covered. *)
InOrder(book) == book \in Book /\ Ordered(book) /\ Covered(book)

(* No fill of a symbol in a book is stamped after t. *)
FillsBy(book, s, t) ==
  \A e \in Entries(book) : SymbolOf[e[1]] = s => FillAt(book, e).at <= t

(* A fill that is stamped after those of its symbol changes nothing of what
   they add up to.                                                         *)
LEMMA LaterFill ==
  ASSUME IsFiniteSet(Decisions), NEW t \in Nat, NEW old, InOrder(old),
         NEW new \in Book, NEW e, e \notin Entries(old), SymbolOf[e[1]] \in Symbols,
         Entries(new) = Entries(old) \cup {e},
         \A f \in Entries(old) : FillAt(new, f) = FillAt(old, f),
         FillsBy(old, SymbolOf[e[1]], t), FillAt(new, e).at > t,
         SideOf(e[1]) = "SELL" =>
           FillAt(new, e).qty <= Replay(old).held[SymbolOf[e[1]]]
  PROVE  /\ InOrder(new)
         /\ Replay(new) = ApplyFill(e[1], FillAt(new, e), Replay(old))
<1> DEFINE s == SymbolOf[e[1]]
<1>1. /\ \A f \in Entries(new) : FillAt(new, f).at \in Nat /\ f[2] \in Nat
      /\ \A f \in Entries(old) : FillAt(old, f).at \in Nat
      /\ e \in Entries(new) /\ old \in Book /\ Ordered(old)
  BY EntriesType DEF FillRecord, InOrder
<1>2. \A f \in Entries(old) : SymbolOf[f[1]] = s =>
        NotBefore(new, e, f) /\ ~NotBefore(new, f, e)
  BY <1>1 DEF NotBefore, FillsBy
<1>3. \A f, g \in Entries(old) : NotBefore(new, f, g) <=> NotBefore(old, f, g)
  BY DEF NotBefore
<1>4. NotBefore(new, e, e)
  BY <1>1 DEF NotBefore
<1> HIDE DEF s
<1>5. Ordered(new)
  <2> SUFFICES ASSUME NEW f \in Entries(new), NEW g \in Entries(new),
                      SymbolOf[f[1]] = SymbolOf[g[1]],
                      NotBefore(new, f, g), NotBefore(new, g, f)
               PROVE  f = g
    BY DEF Ordered
  <2>1. CASE f = e
    BY <1>2, <2>1 DEF s
  <2>2. CASE g = e
    BY <1>2, <2>2 DEF s
  <2>3. CASE f # e /\ g # e
    <3>1. f \in Entries(old) /\ g \in Entries(old)
      BY <2>3
    <3>2. NotBefore(old, f, g) /\ NotBefore(old, g, f)
      BY <1>3, <3>1
    <3> QED BY <3>1, <3>2, Zenon DEF Ordered, InOrder
  <2> QED BY <2>1, <2>2, <2>3
<1>6. ASSUME NEW E \in SUBSET Entries(old) PROVE ReplayOf(new, E) = ReplayOf(old, E)
  BY <1>1, <1>6, ReplaySame
<1>7. Replay(new) = ApplyFill(e[1], FillAt(new, e), Replay(old))
  <2>1. \A f \in Entries(new) : SymbolOf[f[1]] = SymbolOf[e[1]] => NotBefore(new, e, f)
    BY <1>2, <1>4 DEF s
  <2>2. ReplayOf(new, Entries(new)) =
          ApplyFill(e[1], FillAt(new, e), ReplayOf(new, Entries(new) \ {e}))
    BY <1>1, <1>5, <2>1, ReplayLast
  <2>3. Entries(new) \ {e} = Entries(old)
    OBVIOUS
  <2> QED BY <1>6, <2>2, <2>3 DEF Replay
<1>8. Covered(new)
  <2> SUFFICES ASSUME NEW f \in Entries(new), SideOf(f[1]) = "SELL"
               PROVE  FillAt(new, f).qty <=
                        ReplayOf(new, {g \in Entries(new) \ {f} : NotBefore(new, f, g)})
                          .held[SymbolOf[f[1]]]
    BY Zenon DEF Covered
  <2> DEFINE before == {g \in Entries(new) \ {f} : NotBefore(new, f, g)}
             x == SymbolOf[f[1]]
  <2>1. CASE f = e
    <3> DEFINE own == EntriesOf(Entries(old), s)
    <3>1. EntriesOf(before, s) = own /\ before \in SUBSET Entries(old)
      BY <1>2, <2>1 DEF EntriesOf
    <3>2. before \in SUBSET Entries(new) /\ s \in Symbols
      BY DEF s
    <3>3. own \in SUBSET Entries(old)
      BY DEF EntriesOf
    <3> HIDE DEF before, own
    <3>4. ReplayOf(new, before).held[s] = ReplayOf(new, own).held[s]
      BY <1>5, <3>1, <3>2, HeldBySymbol
    <3>5. Replay(old).held[s] = ReplayOf(old, own).held[s]
      BY <1>1, <3>2, HeldBySymbol DEF Replay, own
    <3>6. ReplayOf(new, before).held[s] = Replay(old).held[s]
      BY <1>6, <3>3, <3>4, <3>5
    <3> QED BY <2>1, <3>6 DEF before, s
  <2>2. CASE f # e
    <3> DEFINE earlier == {g \in Entries(old) \ {f} : NotBefore(old, f, g)}
    <3>1. f \in Entries(old) /\ FillAt(new, f) = FillAt(old, f) /\ x \in Symbols
      <4>1. f \in Entries(old)
        BY <2>2
      <4>2. f[1] \in Decisions
        BY <1>1, <4>1, EntriesType
      <4> QED BY <4>1, <4>2, DecisionsAssumption
    <3>2. EntriesOf(before, x) = EntriesOf(earlier, x)
      <4>1. ASSUME NEW g, SymbolOf[g[1]] = x
            PROVE  g \in before <=> g \in earlier
        <5>1. CASE g = e
          <6>1. x = s
            BY <4>1, <5>1 DEF s
          <6>2. ~NotBefore(new, f, e)
            BY <1>2, <3>1, <6>1
          <6> QED BY <5>1, <6>2
        <5>2. CASE g # e
          BY <1>3, <3>1, <5>2
        <5> QED BY <5>1, <5>2
      <4> HIDE DEF before, earlier
      <4> QED BY <4>1 DEF EntriesOf
    <3>3. /\ before \in SUBSET Entries(new) /\ earlier \in SUBSET Entries(old)
          /\ EntriesOf(earlier, x) \in SUBSET Entries(old)
      BY DEF EntriesOf
    <3>4. FillAt(old, f).qty <= ReplayOf(old, earlier).held[x]
      BY <3>1 DEF InOrder, Covered
    <3> HIDE DEF before, earlier, x
    <3>5. ReplayOf(new, before).held[x] = ReplayOf(new, EntriesOf(earlier, x)).held[x]
      BY <1>5, <3>1, <3>2, <3>3, HeldBySymbol
    <3>6. ReplayOf(old, earlier).held[x] = ReplayOf(old, EntriesOf(earlier, x)).held[x]
      BY <1>1, <3>1, <3>3, HeldBySymbol
    <3>7. FillAt(new, f).qty <= ReplayOf(new, before).held[x]
      BY <1>6, <3>1, <3>3, <3>4, <3>5, <3>6
    <3> QED BY <3>7 DEF before, x
  <2> QED BY <2>1, <2>2
<1> QED BY <1>5, <1>7, <1>8 DEF InOrder

(* What the decisions of one side filled of a symbol. *)
Of(side, s) == {d \in Decisions : SideOf(d) = side /\ SymbolOf[d] = s}
Filled(book) == [d \in Decisions |-> FilledQty(book[d])]

(* The holding of a symbol is what was bought of it less what was sold. *)
Balanced(book) ==
  \A s \in Symbols :
    Replay(book).held[s] =
      SumOver(Filled(book), Of("BUY", s)) - SumOver(Filled(book), Of("SELL", s))

Sound(book) == InOrder(book) /\ Balanced(book)

LEMMA FilledQtyType ==
  ASSUME NEW fs \in Seq(FillRecord)
  PROVE  FilledQty(fs) \in Nat
<1>1. Len(fs) \in Nat
  OBVIOUS
<1>2. Len(fs) >= 1 => fs[1] \in FillRecord /\ fs[1].qty \in Nat
  <2>1. \A f \in FillRecord : f.qty \in Nat
    BY DEF FillRecord
  <2> QED BY <1>1, <2>1
<1>3. Len(fs) >= 2 => fs[2] \in FillRecord /\ fs[2].qty \in Nat
  <2>1. \A f \in FillRecord : f.qty \in Nat
    BY DEF FillRecord
  <2> QED BY <1>1, <2>1
<1> QED BY <1>1, <1>2, <1>3 DEF FilledQty

(* A covered fill moves the holding of its symbol by its quantity. *)
LEMMA HeldAfterFill ==
  ASSUME NEW d \in Decisions, NEW fill \in FillRecord, NEW st \in Account,
         SideOf(d) = "SELL" => fill.qty <= st.held[SymbolOf[d]],
         NEW s \in Symbols
  PROVE  ApplyFill(d, fill, st).held[s] =
           (IF s = SymbolOf[d] /\ SideOf(d) = "BUY" THEN st.held[s] + fill.qty
            ELSE IF s = SymbolOf[d] THEN st.held[s] - fill.qty ELSE st.held[s])
<1> DEFINE x == SymbolOf[d]
           sold == IF fill.qty < st.held[x] THEN fill.qty ELSE st.held[x]
<1>1. x \in Symbols /\ st.held \in [Symbols -> Nat] /\ fill.qty \in Nat \ {0}
      /\ st.held[x] \in Nat /\ st.held[s] \in Nat
  BY DecisionsAssumption DEF Account, FillRecord
<1>2. CASE SideOf(d) = "BUY"
  <2>1. ApplyFill(d, fill, st).held = [st.held EXCEPT ![x] = @ + fill.qty]
    BY <1>2 DEF ApplyFill
  <2> HIDE DEF x
  <2>2. ApplyFill(d, fill, st).held[s] = IF s = x THEN st.held[s] + fill.qty ELSE st.held[s]
    BY <1>1, <2>1
  <2> QED BY <1>2, <2>2 DEF x
<1>3. CASE SideOf(d) # "BUY"
  <2>1. SideOf(d) = "SELL"
    BY <1>3 DEF SideOf
  <2>2. sold = fill.qty /\ sold # 0
    <3>1. fill.qty <= st.held[x]
      BY <2>1
    <3> HIDE DEF x
    <3> QED BY <1>1, <3>1
  <2>3. ApplyFill(d, fill, st).held = [st.held EXCEPT ![x] = @ - sold]
    <3> HIDE DEF x
    <3> QED BY <1>3, <2>2 DEF ApplyFill, x
  <2> HIDE DEF x, sold
  <2>4. ApplyFill(d, fill, st).held[s] = IF s = x THEN st.held[s] - fill.qty ELSE st.held[s]
    BY <1>1, <2>2, <2>3
  <2> QED BY <1>3, <2>4 DEF x
<1> QED BY <1>2, <1>3

(* One more fill of d keeps the balance. *)
LEMMA BalancedFill ==
  ASSUME IsFiniteSet(Decisions), NEW old \in Book, NEW new \in Book, Balanced(old),
         NEW d \in Decisions, NEW fill \in FillRecord,
         SideOf(d) = "SELL" => fill.qty <= Replay(old).held[SymbolOf[d]],
         \A c \in Decisions : c # d => new[c] = old[c],
         FilledQty(new[d]) = FilledQty(old[d]) + fill.qty,
         Replay(new) = ApplyFill(d, fill, Replay(old))
  PROVE  Balanced(new)
<1> SUFFICES ASSUME NEW s \in Symbols
             PROVE  Replay(new).held[s] =
                      SumOver(Filled(new), Of("BUY", s)) - SumOver(Filled(new), Of("SELL", s))
  BY DEF Balanced
<1>1. /\ Replay(old) \in Account /\ fill.qty \in Nat
      /\ \A c \in Decisions : Filled(old)[c] \in Nat /\ Filled(new)[c] \in Nat
  BY ReplayFacts, FilledQtyType DEF Replay, Filled, Book, FillRecord
<1>2. Filled(new)[d] = Filled(old)[d] + fill.qty
      /\ \A c \in Decisions : c # d => Filled(new)[c] = Filled(old)[c]
  BY DEF Filled
<1>3. ASSUME NEW side
      PROVE  SumOver(Filled(new), Of(side, s)) =
               SumOver(Filled(old), Of(side, s))
                 + (IF d \in Of(side, s) THEN fill.qty ELSE 0)
             /\ SumOver(Filled(old), Of(side, s)) \in Int
  <2> DEFINE S == Of(side, s)
  <2>1. IsFiniteSet(S) /\ S \subseteq Decisions
    BY FS_Subset DEF Of
  <2> HIDE DEF S
  <2>2. /\ IsFiniteSet(S \ {d}) /\ S \ {d} \subseteq Decisions
    BY <2>1, FS_Subset
  <2>3. /\ \A c \in S : Filled(old)[c] \in Int /\ Filled(new)[c] \in Int
    BY <1>1, <2>1
  <2>4. SumOver(Filled(old), S) \in Int /\ SumOver(Filled(old), S \ {d}) \in Int
    BY <2>1, <2>2, <2>3, SumFacts
  <2>5. SumOver(Filled(new), S \ {d}) = SumOver(Filled(old), S \ {d})
    <3>1. d \notin S \ {d}
      OBVIOUS
    <3>2. \A c \in S \ {d} : Filled(old)[c] \in Int /\ Filled(new)[c] \in Int
      BY <2>3
    <3>3. \A c \in S \ {d} : c # d => Filled(new)[c] = Filled(old)[c]
      BY <1>2, <2>1
    <3>4. SumOver(Filled(new), S \ {d}) = SumOver(Filled(old), S \ {d}) + 0
      BY <2>2, <3>1, <3>2, <3>3, SumOneChange
    <3> QED BY <2>4, <3>4
  <2>6. CASE d \in S
    <3>1. SumOver(Filled(new), S) = Filled(new)[d] + SumOver(Filled(new), S \ {d})
      BY <2>1, <2>3, <2>6, SumFacts
    <3>2. SumOver(Filled(old), S) = Filled(old)[d] + SumOver(Filled(old), S \ {d})
      BY <2>1, <2>3, <2>6, SumFacts
    <3>3. Filled(old)[d] \in Nat
      BY <1>1
    <3>4. SumOver(Filled(new), S) = SumOver(Filled(old), S) + fill.qty
      BY <1>1, <1>2, <2>4, <2>5, <3>1, <3>2, <3>3
    <3> QED BY <2>4, <2>6, <3>4 DEF S
  <2>7. CASE d \notin S
    <3>1. S \ {d} = S
      BY <2>7
    <3> QED BY <2>4, <2>5, <2>7, <3>1 DEF S
  <2> QED BY <2>6, <2>7
<1>4. /\ d \in Of("BUY", s) <=> s = SymbolOf[d] /\ SideOf(d) = "BUY"
      /\ d \in Of("SELL", s) <=> s = SymbolOf[d] /\ SideOf(d) # "BUY"
  BY DEF Of, SideOf
<1>5. Replay(old).held[s] \in Nat
      /\ Replay(old).held[s] = SumOver(Filled(old), Of("BUY", s)) - SumOver(Filled(old), Of("SELL", s))
  BY <1>1 DEF Balanced, Account
<1>6. Replay(new).held[s] =
           (IF s = SymbolOf[d] /\ SideOf(d) = "BUY" THEN Replay(old).held[s] + fill.qty
            ELSE IF s = SymbolOf[d] THEN Replay(old).held[s] - fill.qty
            ELSE Replay(old).held[s])
  BY <1>1, HeldAfterFill
<1>7. /\ SumOver(Filled(new), Of("BUY", s)) =
               SumOver(Filled(old), Of("BUY", s))
                 + (IF d \in Of("BUY", s) THEN fill.qty ELSE 0)
      /\ SumOver(Filled(new), Of("SELL", s)) =
               SumOver(Filled(old), Of("SELL", s))
                 + (IF d \in Of("SELL", s) THEN fill.qty ELSE 0)
      /\ SumOver(Filled(old), Of("BUY", s)) \in Int
      /\ SumOver(Filled(old), Of("SELL", s)) \in Int
  BY <1>3
<1> DEFINE b == SumOver(Filled(old), Of("BUY", s))
           c == SumOver(Filled(old), Of("SELL", s))
           h == Replay(old).held[s]
<1>8. b \in Int /\ c \in Int /\ h \in Nat /\ h = b - c
  BY <1>5, <1>7
<1>9. /\ SumOver(Filled(new), Of("BUY", s)) = b + (IF d \in Of("BUY", s) THEN fill.qty ELSE 0)
      /\ SumOver(Filled(new), Of("SELL", s)) = c + (IF d \in Of("SELL", s) THEN fill.qty ELSE 0)
      /\ Replay(new).held[s] =
           (IF s = SymbolOf[d] /\ SideOf(d) = "BUY" THEN h + fill.qty
            ELSE IF s = SymbolOf[d] THEN h - fill.qty ELSE h)
  BY <1>6, <1>7
<1> HIDE DEF b, c, h
<1>10. CASE s = SymbolOf[d] /\ SideOf(d) = "BUY"
  BY <1>1, <1>4, <1>8, <1>9, <1>10
<1>11. CASE s = SymbolOf[d] /\ SideOf(d) # "BUY"
  BY <1>1, <1>4, <1>8, <1>9, <1>11
<1>12. CASE s # SymbolOf[d]
  BY <1>1, <1>4, <1>8, <1>9, <1>12
<1> QED BY <1>10, <1>11, <1>12

(* The next fill row of a decision, stamped after those of its symbol. *)
LEMMA AppendFill ==
  ASSUME IsFiniteSet(Decisions), NEW t \in Nat, NEW old, Sound(old),
         NEW d \in Decisions, NEW i \in {1, 2}, NEW fs \in Seq(FillRecord),
         Len(fs) = i, Len(old[d]) = i - 1, i = 2 => fs[1] = old[d][1],
         FillsBy(old, SymbolOf[d], t), fs[i].at > t,
         SideOf(d) = "SELL" => fs[i].qty <= Replay(old).held[SymbolOf[d]]
  PROVE  /\ Sound([old EXCEPT ![d] = fs])
         /\ Replay([old EXCEPT ![d] = fs]) = ApplyFill(d, fs[i], Replay(old))
         /\ FillsBy([old EXCEPT ![d] = fs], SymbolOf[d], fs[i].at)
         /\ \A s \in Symbols, u \in Nat :
              s # SymbolOf[d] /\ FillsBy(old, s, u) => FillsBy([old EXCEPT ![d] = fs], s, u)
<1> DEFINE new == [old EXCEPT ![d] = fs]
           e == <<d, i>>
<1>1. old \in Book /\ new \in Book /\ new[d] = fs
      /\ \A c \in Decisions : c # d => new[c] = old[c]
  BY DEF Sound, InOrder, Book
<1>2. FillAt(new, e) = fs[i] /\ e[1] = d /\ e[2] = i
  BY <1>1 DEF FillAt
<1>3. ASSUME NEW f \in Decisions \X {1, 2}
      PROVE  f \in Entries(new) <=> f \in Entries(old) \/ f = e
  <2>1. CASE f[1] # d
    BY <1>1, <2>1 DEF Entries
  <2>2. CASE f[1] = d
    <3>1. f[2] <= i <=> f[2] <= i - 1 \/ f[2] = i
      OBVIOUS
    <3>2. f \in Entries(new) <=> f[2] <= i
      BY <1>1, <2>2 DEF Entries
    <3>3. f \in Entries(old) <=> f[2] <= i - 1
      BY <1>1, <2>2 DEF Entries
    <3>4. f = e <=> f[2] = i
      BY <2>2
    <3> HIDE DEF e
    <3> QED BY <3>1, <3>2, <3>3, <3>4
  <2> QED BY <2>1, <2>2
<1>4. Entries(new) = Entries(old) \cup {e}
  <2>1. Entries(new) \subseteq Decisions \X {1, 2} /\ Entries(old) \subseteq Decisions \X {1, 2}
        /\ e \in Decisions \X {1, 2}
    BY DEF Entries
  <2> HIDE DEF new, e
  <2> QED BY <1>3, <2>1
<1>5. e \notin Entries(old)
  BY <1>1 DEF Entries
<1>6. ASSUME NEW f \in Entries(old) PROVE FillAt(new, f) = FillAt(old, f)
  <2>1. f[1] \in Decisions /\ f[2] \in {1, 2} /\ f[2] <= Len(old[f[1]])
    BY DEF Entries
  <2>2. CASE f[1] # d
    BY <1>1, <2>1, <2>2 DEF FillAt
  <2>3. CASE f[1] = d
    <3>1. f[2] = 1 /\ i = 2
      BY <2>1, <2>3
    <3> QED BY <1>1, <2>3, <3>1 DEF FillAt
  <2> QED BY <2>2, <2>3
<1> HIDE DEF new, e
<1>7. /\ InOrder(new)
      /\ Replay(new) = ApplyFill(e[1], FillAt(new, e), Replay(old))
  <2>1. InOrder(old) /\ SymbolOf[e[1]] \in Symbols /\ FillsBy(old, SymbolOf[e[1]], t)
    BY <1>2, DecisionsAssumption DEF Sound
  <2>2. /\ FillAt(new, e).at > t
        /\ SideOf(e[1]) = "SELL" =>
             FillAt(new, e).qty <= Replay(old).held[SymbolOf[e[1]]]
    BY <1>2
  <2> QED BY <1>1, <1>4, <1>5, <1>6, <2>1, <2>2, LaterFill
<1>8. fs[i] \in FillRecord
  OBVIOUS
<1>9. FilledQty(new[d]) = FilledQty(old[d]) + fs[i].qty
  <2>1. fs[i].qty \in Nat
    BY <1>8 DEF FillRecord
  <2>2. CASE i = 1
    <3>1. Len(fs) = 1 /\ Len(old[d]) = 0
      BY <2>2
    <3>2. FilledQty(fs) = fs[1].qty + 0 /\ FilledQty(old[d]) = 0 + 0
      BY <3>1 DEF FilledQty
    <3> QED BY <1>1, <2>1, <2>2, <3>2
  <2>3. CASE i = 2
    <3>1. fs[1] \in FillRecord /\ fs[1].qty \in Nat
      <4>1. fs[1] \in FillRecord
        BY <2>3
      <4> QED BY <4>1 DEF FillRecord
    <3>2. Len(fs) = 2 /\ Len(old[d]) = 1 /\ fs[1] = old[d][1]
      BY <2>3
    <3>3. FilledQty(fs) = fs[1].qty + fs[2].qty /\ FilledQty(old[d]) = fs[1].qty + 0
      BY <3>2 DEF FilledQty
    <3> QED BY <1>1, <2>1, <2>3, <3>1, <3>3
  <2> QED BY <2>2, <2>3
<1>10. Balanced(new)
  BY <1>1, <1>2, <1>7, <1>8, <1>9, BalancedFill DEF Sound
<1>11. FillsBy(new, SymbolOf[d], fs[i].at)
  <2>1. \A f \in Entries(old) : FillAt(old, f).at \in Nat
    BY <1>1, EntriesType DEF FillRecord
  <2>2. fs[i].at \in Nat
    BY <1>8 DEF FillRecord
  <2> QED BY <1>2, <1>4, <1>6, <2>1, <2>2 DEF FillsBy
<1>12. \A s \in Symbols, u \in Nat :
         s # SymbolOf[d] /\ FillsBy(old, s, u) => FillsBy(new, s, u)
  BY <1>2, <1>4, <1>6 DEF FillsBy
<1> QED BY <1>2, <1>7, <1>10, <1>11, <1>12 DEF new, Sound

(* The fills of one call are applied one after the other. *)
LEMMA ApplyFillsFacts ==
  ASSUME NEW d \in Decisions, NEW fs \in Seq(FillRecord), Len(fs) <= 2,
         NEW st \in Account
  PROVE  /\ Len(fs) = 0 => ApplyFills(d, fs, st) = st
         /\ Len(fs) = 1 => ApplyFills(d, fs, st) = ApplyFill(d, fs[1], st)
         /\ Len(fs) = 2 => ApplyFills(d, fs, st) =
                             ApplyFill(d, fs[2], ApplyFill(d, fs[1], st))
<1> DEFINE S == DOMAIN fs
           last(s) == CHOOSE x \in s : \A y \in s : x >= y
           Run(iter) ==
             iter = [s \in SUBSET S |->
                       IF s = {} THEN st
                       ELSE ApplyFill(d, fs[last(s)], iter[s \ {last(s)}])]
           run == CHOOSE iter : Run(iter)
           pick == [s \in SUBSET S |-> last(s)]
           step == [p \in S \X Account |-> ApplyFill(d, fs[p[1]], p[2])]
<1>1. ApplyFills(d, fs, st) = run[S]
  BY DEF ApplyFills, FoldLeft, MapThenFoldSet, Max
<1>2. S = 1..Len(fs) /\ Len(fs) \in Nat
  OBVIOUS
<1>3. IsFiniteSet(S)
  BY <1>2, FS_Interval
<1>4. ASSUME NEW s \in SUBSET S, s # {} PROVE last(s) \in s
  <2>1. s \subseteq {1, 2}
    BY <1>2
  <2>2. \E x \in s : \A y \in s : x >= y
    <3>1. CASE 2 \in s
      BY <2>1, <3>1
    <3>2. CASE 2 \notin s
      BY <1>4, <2>1, <3>2
    <3> QED BY <3>1, <3>2
  <2> HIDE DEF S
  <2> QED BY <2>2
<1>5. step \in [S \X Account -> Account]
  <2>1. ASSUME NEW p \in S \X Account PROVE ApplyFill(d, fs[p[1]], p[2]) \in Account
    <3>1. fs[p[1]] \in FillRecord /\ p[2] \in Account
      BY <1>2
    <3> QED BY <3>1, ApplyFillType
  <2> HIDE DEF S
  <2> QED BY <2>1
<1>6. PICK iter \in [SUBSET S -> Account] : Folds(iter, S, st, pick, step)
  <2>1. \A s \in SUBSET S : s # {} => pick[s] \in s
    <3> HIDE DEF S, last
    <3> QED BY <1>4
  <2> HIDE DEF pick, step, S
  <2> QED BY <1>3, <1>5, <2>1, FoldExists, Zenon
<1>7. ASSUME NEW s \in SUBSET S, s # {}
      PROVE  step[<<pick[s], iter[s \ {pick[s]}]>>]
               = ApplyFill(d, fs[last(s)], iter[s \ {last(s)}])
  <2>1. pick[s] = last(s) /\ last(s) \in S /\ s \ {last(s)} \in SUBSET S
    BY <1>4, <1>7
  <2>2. iter[s \ {last(s)}] \in Account
    BY <2>1
  <2> HIDE DEF pick, last, S
  <2> QED BY <2>1, <2>2
<1>8. Run(iter)
  <2> HIDE DEF pick, last, step, S
  <2> QED BY <1>6, <1>7 DEF Folds
<1>9. Run(run)
  <2> HIDE DEF Run
  <2> QED BY <1>8
<1>10. run[{}] = st
  <2> HIDE DEF run, last, S
  <2> QED BY <1>9
<1>11. ASSUME NEW s \in SUBSET S, s # {}
       PROVE  run[s] = ApplyFill(d, fs[last(s)], run[s \ {last(s)}])
  <2> HIDE DEF run, last, S
  <2> QED BY <1>9, <1>11
<1>12. CASE Len(fs) = 0
  <2>1. S = {}
    BY <1>2, <1>12
  <2> HIDE DEF run, S
  <2> QED BY <1>1, <1>10, <1>12, <2>1
<1>13. ASSUME Len(fs) >= 1 PROVE run[{1}] = ApplyFill(d, fs[1], st)
  <2>1. {1} \in SUBSET S /\ {1} # {}
    BY <1>2, <1>13
  <2>2. last({1}) = 1 /\ {1} \ {1} = {}
    BY <1>4, <2>1
  <2> HIDE DEF run, S, last
  <2> QED BY <1>10, <1>11, <2>1, <2>2
<1>14. CASE Len(fs) = 1
  <2>1. S = {1}
    BY <1>2, <1>14
  <2> HIDE DEF run, S
  <2> QED BY <1>1, <1>13, <1>14, <2>1
<1>15. CASE Len(fs) = 2
  <2>1. S = {1, 2} /\ {1, 2} \in SUBSET S /\ {1, 2} # {}
    BY <1>2, <1>15
  <2>2. last({1, 2}) = 2
    <3>1. \E x \in {1, 2} : \A y \in {1, 2} : x >= y
      OBVIOUS
    <3> QED BY <3>1
  <2>3. {1, 2} \ {2} = {1}
    OBVIOUS
  <2>4. run[{1, 2}] = ApplyFill(d, fs[2], run[{1}])
    <3> HIDE DEF run, S, last
    <3> QED BY <1>11, <2>1, <2>2, <2>3
  <2> HIDE DEF run, S
  <2> QED BY <1>1, <1>13, <1>15, <2>1, <2>4
<1>16. Len(fs) = 0 \/ Len(fs) = 1 \/ Len(fs) = 2
  BY <1>2
<1> HIDE DEF run, S
<1> QED BY <1>12, <1>14, <1>15, <1>16
-----------------------------------------------------------------------------
(* One process.                                                            *)

(* Every call is made by one process, and no decision is routed twice.     *)
OneProcess == (\A a, b \in Actors : a = b) /\ "reroute" \notin Operations

(* What a session has read is still what is stored, and what a settlement  *)
(* has written comes from it.                                              *)
FreshPlace(s, rows) == rows[s.decision].status = "NONE"
FreshSettle(s, now, rows) ==
  /\ s.at = now /\ s.todo \cap s.written = {}
  /\ \A d \in s.todo \cup s.written : rows[d].status = "PENDING_NEXT_OPEN"
  /\ \A d \in s.todo : s.draft[d].order = rows[d]
  /\ \A d \in s.written :
       \E q \in 0..rows[d].qty, day \in Days :
         s.draft[d].order = SettledOrder(rows[d], q, day)
SessionsFresh ==
  \A a \in Actors :
    /\ session[a].op = "place" => FreshPlace(session[a], orders)
    /\ session[a].op = "settle" => FreshSettle(session[a], clock, orders)

QueueInv == IInv /\ SessionsFresh

(* The book a settlement will store. *)
DraftBook(s) == [d \in Decisions |-> FillsReplaced(s, d, fills[d])]

AccountRow == [at : Nat, cash : Int, held : [Symbols -> Nat]]

(* A placement works on the account of the stored book, to which it adds the
   next number of its route and, since a run has one decision on a symbol, the
   first fills of its symbol since the beginning of the route.             *)
PlaceCurrent(s, r, now) ==
  /\ r # NoRoute /\ SymbolOf[s.decision] \in r.routed
  /\ s.at = now + r.last
  /\ FillsBy(fills, SymbolOf[s.decision], now)
  /\ s.state = Replay(fills)

(* A settlement works on the account of the book it will store, whose fills
   are numbered from its own time on.                                      *)
SettleCurrent(s, r, now) ==
  /\ r = NoRoute
  /\ Sound(DraftBook(s)) /\ s.state = Replay(DraftBook(s))
  /\ \A symbol \in Symbols : FillsBy(DraftBook(s), symbol, s.at + s.seq)
  /\ \A q \in Runs : accounts[q].at <= now

StatesCurrent ==
  \A a \in Actors :
    /\ session[a].op = "place" => PlaceCurrent(session[a], route[a], clock)
    /\ session[a].op = "settle" => SettleCurrent(session[a], route[a], clock)

(* The symbols a route has not reached have no fill since it began, and no
   account row is stamped after its last number.                           *)
RouteCurrent(r, now) ==
  /\ r.base = now
  /\ r.run \in MonitorRuns => r.last = 0
  /\ \A s \in Symbols \ r.routed : FillsBy(fills, s, now)
  /\ \A q \in Runs : accounts[q].at <= now + r.last
RoutesCurrent == \A a \in Actors : route[a] # NoRoute => RouteCurrent(route[a], clock)

LedgerInv ==
  /\ QueueInv /\ StatesCurrent /\ RoutesCurrent
  /\ Sound(fills)
  /\ accounts \in [Runs -> AccountRow]
  /\ LatestAccountCurrent

LEMMA OneIsAlone == OneProcess => NoRacingCancel
BY DEF OneProcess, NoRacingCancel

(* What the only process does next is all that has to be fresh. *)
LEMMA FreshStep ==
  ASSUME OneProcess, TypeOK, NEW a \in Actors, NEW s,
         session' = [session EXCEPT ![a] = s],
         s.op = "place" => FreshPlace(s, orders'),
         s.op = "settle" => FreshSettle(s, clock', orders')
  PROVE  SessionsFresh'
<1>1. \A b \in Actors : session'[b] = s
  BY DEF OneProcess, TypeOK
<1> QED BY <1>1 DEF SessionsFresh

LEMMA IdleStep ==
  ASSUME OneProcess, TypeOK, NEW a \in Actors, session' = [session EXCEPT ![a] = Idle]
  PROVE  SessionsFresh'
<1>1. \A b \in Actors : session'[b] = Idle
  BY DEF OneProcess, TypeOK
<1> QED BY <1>1 DEF SessionsFresh, Idle

(* A placement begins with an order that is not there yet. *)
LEMMA BeginPlaceFresh ==
  ASSUME OneProcess, QueueInv, NEW a \in Actors, NEW d \in Decisions,
         NEW policy \in Policies, NEW limit \in ThreadedCash \cup {NoLimit},
         BeginPlace(a, d, policy, limit)
  PROVE  SessionsFresh' /\ orders[d].status = "NONE"
<1>1. orders[d].status = "NONE"
  BY DEF BeginPlace, OneProcess
<1>2. TypeOK
  BY DEF QueueInv, IInv
<1>3. PICK at \in Nat :
        /\ session' = [session EXCEPT ![a] = Placement(d, policy, limit, at)]
        /\ orders' = orders
  BY <1>2, BeginPlaceFacts
<1> DEFINE s == Placement(d, policy, limit, at)
<1>4. s.op = "place" /\ s.decision = d
  BY DEF Placement
<1> HIDE DEF s
<1>5. FreshPlace(s, orders')
  BY <1>1, <1>3, <1>4 DEF FreshPlace
<1> QED BY <1>1, <1>2, <1>3, <1>4, <1>5, FreshStep DEF s

LEMMA BeginSettleFresh ==
  ASSUME OneProcess, QueueInv, NEW a \in Actors, NEW run \in Runs, BeginSettle(a, run)
  PROVE  SessionsFresh'
<1> DEFINE draft == [d \in Decisions |->
                       IF d \in SettlementQueue
                       THEN [order |-> orders[d], fills |-> <<>>]
                       ELSE [order |-> NoOrder, fills |-> <<>>]]
           account == Replay(fills)
           s == [op |-> "settle", run |-> run, at |-> clock',
                 todo |-> SettlementQueue, written |-> {}, seq |-> 0,
                 draft |-> draft, state |-> account]
<1>1. session' = [session EXCEPT ![a] = s] /\ orders' = orders
  BY DEF BeginSettle, StartSession
<1>2. \A d \in SettlementQueue :
        /\ orders[d].status = "PENDING_NEXT_OPEN"
        /\ draft[d].order = orders[d]
  BY DEF SettlementQueue
<1>3. /\ s.at = clock' /\ s.seq = 0 /\ s.written = {} /\ s.op = "settle"
      /\ s.todo = SettlementQueue /\ s.draft = draft
  BY <1>1
<1> HIDE DEF s, draft
<1>4. FreshSettle(s, clock', orders')
  BY <1>1, <1>2, <1>3 DEF FreshSettle
<1>5. TypeOK
  BY DEF QueueInv, IInv
<1> QED BY <1>1, <1>3, <1>4, <1>5, FreshStep

LEMMA SettleWaitsFresh ==
  ASSUME OneProcess, QueueInv, NEW a \in Actors, SettleWaits(a)
  PROVE  SessionsFresh'
<1> DEFINE s == session[a]
<1>1. s.op = "settle" /\ UNCHANGED <<orders, clock>>
  BY DEF SettleWaits
<1>2. PICK d \in s.todo : session' = [session EXCEPT ![a].todo = @ \ {d}]
  BY DEF SettleWaits
<1> DEFINE new == [s EXCEPT !.todo = @ \ {d}]
<1>3. FreshSettle(s, clock, orders) /\ s \in SettleSession(s.state)
  BY <1>1, SettleFacts DEF QueueInv, SessionsFresh
<1>4. /\ new.op = "settle" /\ new.at = s.at /\ new.seq = s.seq
      /\ new.written = s.written /\ new.draft = s.draft /\ new.todo = s.todo \ {d}
  <2> HIDE DEF s
  <2> QED BY <1>3, <1>1 DEF SettleSession
<1>5. session' = [session EXCEPT ![a] = new]
  BY <1>2
<1> HIDE DEF new, s
<1>6. FreshSettle(new, clock', orders')
  BY <1>1, <1>3, <1>4 DEF FreshSettle
<1>7. TypeOK
  BY DEF QueueInv, IInv
<1> QED BY <1>4, <1>5, <1>6, <1>7, FreshStep

(* What SettleOrder does, once its witnesses are chosen. *)
SettlesOrder(a, d, q, day) ==
  LET s == session[a]
      row == orders[d]
      fs == SettledFills(d, q, day, s.at + s.seq + 1)
  IN  /\ s.op = "settle" /\ d \in s.todo /\ d \in Decisions
      /\ row \in OrderRecord /\ s.draft[d].order = row
      /\ AfterSignal(SymbolOf[d], row.signal) # {}
      /\ day = FirstAfter(SymbolOf[d], row.signal) /\ day \in Days
      /\ q \in 0..row.qty
      /\ Affordable(d, q, row.qty, <<NextOpenFill(d, row.qty, day, s.at)>>,
                    s.state.cash, s.state)
      /\ session' = [session EXCEPT ![a] =
           [op |-> "settle", run |-> s.run, at |-> s.at, seq |-> s.seq + 1,
            todo |-> s.todo \ {d}, written |-> s.written \cup {d},
            draft |-> [s.draft EXCEPT ![d] =
                         [order |-> SettledOrder(row, q, day), fills |-> fs]],
            state |-> ApplyFills(d, fs, s.state)]]
      /\ UNCHANGED <<bars, orders, fills, accounts, clock, route>>

LEMMA SettleOrderWitness ==
  ASSUME QueueInv, NEW a \in Actors, SettleOrder(a)
  PROVE  \E d, q, day : SettlesOrder(a, d, q, day)
<1> DEFINE s == session[a]
<1>1. s.op = "settle"
  BY DEF SettleOrder
<1>2. s \in SettleSession(s.state) /\ FreshSettle(s, clock, orders)
  BY <1>1, SettleFacts DEF QueueInv, SessionsFresh
<1>3. PICK d \in s.todo :
        LET row == s.draft[d].order
            day == FirstAfter(SymbolOf[d], row.signal)
        IN  /\ AfterSignal(SymbolOf[d], row.signal) # {}
            /\ \E q \in 0..row.qty :
                 /\ Affordable(d, q, row.qty, <<NextOpenFill(d, row.qty, day, s.at)>>,
                               s.state.cash, s.state)
                 /\ session' = [session EXCEPT ![a] = Replaced(s, d, q, day)]
  BY DEF SettleOrder
<1> DEFINE row == orders[d]
           day == FirstAfter(SymbolOf[d], row.signal)
<1>4. s.draft[d].order = row /\ d \in Decisions
  <2> HIDE DEF s
  <2> QED BY <1>2 DEF FreshSettle, SettleSession
<1>5. row \in OrderRecord
  BY <1>4 DEF QueueInv, IInv, TypeOK
<1>6. AfterSignal(SymbolOf[d], row.signal) # {}
  BY <1>3, <1>4
<1>7. PICK q \in 0..row.qty :
        /\ Affordable(d, q, row.qty, <<NextOpenFill(d, row.qty, day, s.at)>>,
                      s.state.cash, s.state)
        /\ session' = [session EXCEPT ![a] = Replaced(s, d, q, day)]
  BY <1>3, <1>4
<1>8. day \in Days
  BY <1>4, <1>5, <1>6, FirstAfterIsFirst, DecisionsAssumption
     DEF OrderRecord, QueueInv, IInv, TypeOK
<1> DEFINE fs == SettledFills(d, q, day, s.at + s.seq + 1)
<1>9. Replaced(s, d, q, day) =
        [op |-> "settle", run |-> s.run, at |-> s.at, seq |-> s.seq + 1,
         todo |-> s.todo \ {d}, written |-> s.written \cup {d},
         draft |-> [s.draft EXCEPT ![d] =
                      [order |-> SettledOrder(row, q, day), fills |-> fs]],
         state |-> ApplyFills(d, fs, s.state)]
  <2>1. s.draft \in [Decisions -> [order : OrderRecord, fills : Seq(FillRecord)]]
    <3> HIDE DEF s
    <3> QED BY <1>2 DEF SettleSession
  <2> HIDE DEF s, row, day
  <2> QED BY <1>4, <2>1 DEF Replaced
<1>10. UNCHANGED <<bars, orders, fills, accounts, clock, route>>
  BY DEF SettleOrder
<1>11. SettlesOrder(a, d, q, day)
  BY <1>1, <1>4, <1>5, <1>6, <1>7, <1>8, <1>9, <1>10 DEF SettlesOrder
<1> QED BY <1>11

LEMMA SettleOrderFresh ==
  ASSUME OneProcess, QueueInv, NEW a \in Actors,
         NEW d, NEW q, NEW day, SettlesOrder(a, d, q, day)
  PROVE  SessionsFresh'
<1> DEFINE s == session[a]
           fs == SettledFills(d, q, day, s.at + s.seq + 1)
           account == ApplyFills(d, fs, s.state)
           draft == [s.draft EXCEPT ![d] =
                       [order |-> SettledOrder(orders[d], q, day), fills |-> fs]]
           new == [op |-> "settle", run |-> s.run, at |-> s.at, seq |-> s.seq + 1,
                   todo |-> s.todo \ {d}, written |-> s.written \cup {d},
                   draft |-> draft, state |-> account]
<1>1. /\ s.op = "settle" /\ d \in s.todo /\ d \in Decisions /\ day \in Days
      /\ q \in 0..orders[d].qty
      /\ session' = [session EXCEPT ![a] = new]
      /\ orders' = orders /\ clock' = clock
  BY DEF SettlesOrder
<1>2. FreshSettle(s, clock, orders) /\ s \in SettleSession(s.state)
  BY <1>1, SettleFacts DEF QueueInv, SessionsFresh
<1>3. s.draft \in [Decisions -> [order : OrderRecord, fills : Seq(FillRecord)]]
      /\ s.written \subseteq Decisions /\ s.todo \subseteq Decisions
  <2> HIDE DEF s
  <2> QED BY <1>2 DEF SettleSession
<1>4. /\ new.op = "settle" /\ new.at = s.at /\ new.seq = s.seq + 1
      /\ new.written = s.written \cup {d} /\ new.draft = draft
      /\ new.todo = s.todo \ {d}
  OBVIOUS
<1>5. /\ draft[d].order = SettledOrder(orders[d], q, day)
      /\ \A e \in Decisions : e # d => draft[e] = s.draft[e]
  <2> HIDE DEF s, fs
  <2> QED BY <1>1, <1>3
<1>6. d \notin s.written
  BY <1>1, <1>2 DEF FreshSettle
<1> HIDE DEF new, s, draft
<1>7. FreshSettle(new, clock', orders')
  <2>1. new.at = clock' /\ new.todo \cap new.written = {}
    BY <1>1, <1>2, <1>4, <1>6 DEF FreshSettle
  <2>2. \A e \in new.todo \cup new.written : orders'[e].status = "PENDING_NEXT_OPEN"
    BY <1>1, <1>2, <1>4 DEF FreshSettle
  <2>3. \A e \in new.todo : new.draft[e].order = orders'[e]
    BY <1>1, <1>2, <1>3, <1>4, <1>5 DEF FreshSettle
  <2>4. \A e \in new.written : \E n \in 0..orders'[e].qty, x \in Days :
          new.draft[e].order = SettledOrder(orders'[e], n, x)
    <3> SUFFICES ASSUME NEW e \in new.written
                 PROVE  \E n \in 0..orders'[e].qty, x \in Days :
                          new.draft[e].order = SettledOrder(orders'[e], n, x)
      OBVIOUS
    <3>1. CASE e = d
      BY <1>1, <1>4, <1>5, <3>1
    <3>2. CASE e # d
      <4>1. e \in s.written /\ e \in Decisions
        BY <1>3, <1>4, <3>2
      <4>2. new.draft[e] = s.draft[e]
        BY <1>4, <1>5, <3>2, <4>1
      <4>3. \E n \in 0..orders[e].qty, x \in Days :
              s.draft[e].order = SettledOrder(orders[e], n, x)
        BY <1>2, <4>1 DEF FreshSettle
      <4> QED BY <1>1, <4>2, <4>3
    <3> QED BY <3>1, <3>2
  <2> QED BY <2>1, <2>2, <2>3, <2>4 DEF FreshSettle
<1>8. TypeOK
  BY DEF QueueInv, IInv
<1> QED BY <1>1, <1>4, <1>7, <1>8, FreshStep

LEMMA InitQueueInv == Init => QueueInv
<1> SUFFICES ASSUME Init PROVE QueueInv
  OBVIOUS
<1>1. SessionsFresh
  BY DEF Init, SessionsFresh, Idle
<1> QED BY <1>1, InitIInv DEF QueueInv

LEMMA NextQueueInv ==
  ASSUME OneProcess, QueueInv, [Next]_vars
  PROVE  QueueInv'
<1>1. IInv'
  BY OneIsAlone, NextIInv DEF QueueInv
<1>2. TypeOK
  BY DEF QueueInv, IInv
<1>3. ASSUME UNCHANGED vars PROVE SessionsFresh'
  BY <1>3 DEF vars, QueueInv, SessionsFresh
<1>4. ASSUME NEW s \in Symbols, NEW day \in Days, ImportBar(s, day)
      PROVE  SessionsFresh'
  BY <1>4 DEF ImportBar, QueueInv, SessionsFresh
<1>5. ASSUME NEW a \in Actors, Place(a) \/ CommitSettle(a) \/ CommitCancel(a) \/ Abort(a)
      PROVE  SessionsFresh'
  <2>1. session' = [session EXCEPT ![a] = Idle]
    BY <1>5 DEF Place, PlaceRejected, PlaceQueued, PlaceFilled, StorePlacement,
                CommitSettle, CommitCancel, Abort
  <2> QED BY <1>2, <2>1, IdleStep
<1>6. ASSUME NEW a \in Actors, NEW d \in Decisions, BeginCancel(a, d)
      PROVE  SessionsFresh'
  <2> DEFINE s == [op |-> "cancel", decision |-> d, order |-> orders[d]]
  <2>1. session' = [session EXCEPT ![a] = s]
    BY <1>6 DEF BeginCancel, StartSession
  <2>2. s.op = "cancel"
    OBVIOUS
  <2> HIDE DEF s
  <2> QED BY <1>2, <2>1, <2>2, FreshStep
<1>7. ASSUME NEW a \in Actors, SettleOrder(a)
      PROVE  SessionsFresh'
  BY <1>7, SettleOrderWitness, SettleOrderFresh
<1>8. ASSUME NEW a \in Actors, NEW run \in Runs, BeginRoute(a, run)
      PROVE  SessionsFresh'
  <2>1. \A b \in Actors : session'[b] = Idle
    BY <1>8 DEF BeginRoute, OneProcess
  <2> QED BY <2>1 DEF SessionsFresh, Idle
<1>9. ASSUME [Next]_vars PROVE SessionsFresh'
  <2>1. CASE UNCHANGED vars
    BY <1>3, <2>1
  <2>2. CASE Next
    BY <1>4, <1>5, <1>6, <1>7, <1>8, <2>2, BeginPlaceFresh, BeginSettleFresh,
       SettleWaitsFresh DEF Next, Settle
  <2> QED BY <1>9, <2>1, <2>2
<1> QED BY <1>1, <1>9 DEF QueueInv

(* What a step does to the rows, once it is known that everything it has
   read is still stored.                                                   *)
LEMMA RowsMove ==
  ASSUME OneProcess, QueueInv, [Next]_vars, NEW d \in Decisions
  PROVE  \/ orders'[d] = orders[d] /\ fills'[d] = fills[d]
         \/ orders[d].status \in {"NONE", "PENDING_NEXT_OPEN"} /\ fills[d] = <<>>
         \/ /\ Cancellable(orders[d].status)
            /\ orders'[d] = [orders[d] EXCEPT !.status = "CANCELLED"]
            /\ fills'[d] = fills[d]
<1> DEFINE Goal ==
      \/ orders'[d] = orders[d] /\ fills'[d] = fills[d]
      \/ orders[d].status \in {"NONE", "PENDING_NEXT_OPEN"} /\ fills[d] = <<>>
      \/ /\ Cancellable(orders[d].status)
         /\ orders'[d] = [orders[d] EXCEPT !.status = "CANCELLED"]
         /\ fills'[d] = fills[d]
<1>1. orders[d].status \in {"NONE", "PENDING_NEXT_OPEN"} => fills[d] = <<>>
  BY DEF QueueInv, IInv, RowsMatch, Matches, StatusAgrees
<1>2. orders \in [Decisions -> OrderRecord] /\ fills \in [Decisions -> Seq(FillRecord)]
  BY DEF QueueInv, IInv, TypeOK
<1>3. ASSUME UNCHANGED <<orders, fills>> PROVE Goal
  BY <1>3
<1>4. ASSUME NEW a \in Actors, Place(a)
      PROVE  Goal
  <2> DEFINE c == session[a].decision
  <2>1. session[a].op = "place"
    BY <1>4 DEF Place, PlaceRejected, PlaceQueued, PlaceFilled
  <2>2. PICK order, fs, st : StorePlacement(a, order, fs, st)
    BY <1>4 DEF Place, PlaceRejected, PlaceQueued, PlaceFilled
  <2>3. orders' = [orders EXCEPT ![c] = order] /\ fills' = [fills EXCEPT ![c] = fs]
    BY <2>2 DEF StorePlacement
  <2>4. orders[c].status = "NONE"
    BY <2>1 DEF QueueInv, SessionsFresh, FreshPlace
  <2>5. CASE d = c
    BY <1>1, <2>4, <2>5
  <2>6. CASE d # c
    BY <1>2, <2>3, <2>6
  <2> QED BY <2>5, <2>6
<1>5. ASSUME NEW a \in Actors, CommitSettle(a)
      PROVE  Goal
  <2>1. session[a].op = "settle"
    BY <1>5 DEF CommitSettle
  <2>2. \A c \in session[a].written : orders[c].status = "PENDING_NEXT_OPEN"
    BY <2>1 DEF QueueInv, SessionsFresh, FreshSettle
  <2>3. CASE d \in session[a].written
    BY <1>1, <2>2, <2>3
  <2>4. CASE d \notin session[a].written
    BY <1>5, <2>4 DEF CommitSettle, FillsReplaced
  <2> QED BY <2>3, <2>4
<1>6. ASSUME NEW a \in Actors, CommitCancel(a)
      PROVE  Goal
  <2> DEFINE c == session[a].decision
  <2>1. session[a].op = "cancel"
    BY <1>6 DEF CommitCancel
  <2>2. session[a].order = orders[c] /\ Cancellable(orders[c].status)
    BY <2>1 DEF QueueInv, IInv, CancelsAlone
  <2>3. /\ orders' = [orders EXCEPT ![c] = [orders[c] EXCEPT !.status = "CANCELLED"]]
        /\ fills' = fills
    BY <1>6, <2>2 DEF CommitCancel
  <2>4. CASE d = c
    <3>1. orders'[d] = [orders[d] EXCEPT !.status = "CANCELLED"]
      <4> HIDE DEF c
      <4> QED BY <1>2, <2>3, <2>4
    <3>2. Cancellable(orders[d].status)
      BY <2>2, <2>4
    <3> QED BY <2>3, <3>1, <3>2
  <2>5. CASE d # c
    <3> HIDE DEF c
    <3> QED BY <1>2, <2>3, <2>5
  <2> QED BY <2>4, <2>5
<1> SUFFICES Goal
  OBVIOUS
<1> HIDE DEF Goal
<1>7. CASE UNCHANGED vars
  BY <1>3, <1>7 DEF vars
<1>8. CASE Next
  <2>1. ASSUME NEW s \in Symbols, NEW day \in Days, ImportBar(s, day) PROVE Goal
    BY <1>3, <2>1 DEF ImportBar
  <2>2. ASSUME NEW a \in Actors, NEW e \in Decisions, NEW policy \in Policies,
               NEW limit \in ThreadedCash \cup {NoLimit}, BeginPlace(a, e, policy, limit)
        PROVE  Goal
    BY <1>3, <2>2 DEF BeginPlace
  <2>3. ASSUME NEW a \in Actors, NEW r \in Runs, BeginSettle(a, r) PROVE Goal
    BY <1>3, <2>3 DEF BeginSettle
  <2>4. ASSUME NEW a \in Actors, SettleWaits(a) \/ SettleOrder(a) PROVE Goal
    BY <1>3, <2>4 DEF SettleWaits, SettleOrder
  <2>5. ASSUME NEW a \in Actors, NEW e \in Decisions, BeginCancel(a, e) PROVE Goal
    BY <1>3, <2>5 DEF BeginCancel
  <2>6. ASSUME NEW a \in Actors, Abort(a) PROVE Goal
    BY <1>3, <2>6 DEF Abort
  <2>7. ASSUME NEW a \in Actors, NEW r \in Runs, BeginRoute(a, r) PROVE Goal
    BY <1>3, <2>7 DEF BeginRoute
  <2> QED BY <1>4, <1>5, <1>6, <1>8, <2>1, <2>2, <2>3, <2>4, <2>5, <2>6, <2>7
          DEF Next, Settle
<1> QED BY <1>7, <1>8

(* For one process, with any number of decisions and sessions, and crashes at
   any point: what a session reads stays as it was until it commits.       *)
THEOREM ReadsStayFresh ==
  ASSUME OneProcess PROVE Spec => []QueueInv
<1>1. QueueInv /\ [Next]_vars => QueueInv'
  BY NextQueueInv
<1> QED BY <1>1, InitQueueInv, PTL DEF Spec

(* What one process has filled stays as it was filled: no later placement,
   settlement or cancellation touches a fill row.                          *)
THEOREM FilledStays ==
  ASSUME OneProcess PROVE Spec => FillsAreFinal
<1>1. QueueInv /\ [Next]_vars =>
        [\A d \in Decisions : fills[d] # <<>> => fills'[d] = fills[d]]_vars
  BY RowsMove
<1> QED BY <1>1, ReadsStayFresh, PTL DEF Spec, FillsAreFinal

(* An order that one process has settled, rejected or cancelled is final, but
   for the cancellation of what a partial fill left over.                  *)
THEOREM SettledOnce ==
  ASSUME OneProcess PROVE Spec => LeavesQueueOnce
<1>1. ASSUME QueueInv, [Next]_vars
      PROVE  \A d \in Decisions :
               orders[d].status \in TerminalStatuses /\ orders'[d] # orders[d] =>
                 /\ orders[d].status = "PARTIALLY_FILLED"
                 /\ orders'[d] = [orders[d] EXCEPT !.status = "CANCELLED"]
  <2> SUFFICES ASSUME NEW d \in Decisions, orders[d].status \in TerminalStatuses,
                      orders'[d] # orders[d]
               PROVE  /\ orders[d].status = "PARTIALLY_FILLED"
                      /\ orders'[d] = [orders[d] EXCEPT !.status = "CANCELLED"]
    OBVIOUS
  <2>1. orders[d].status \notin {"NONE", "PENDING_NEXT_OPEN"}
    BY DEF TerminalStatuses
  <2>2. /\ Cancellable(orders[d].status)
        /\ orders'[d] = [orders[d] EXCEPT !.status = "CANCELLED"]
    BY <1>1, <2>1, RowsMove
  <2>3. orders[d].status = "PARTIALLY_FILLED"
    BY <2>2 DEF Cancellable, TerminalStatuses
  <2> QED BY <2>2, <2>3
<1>2. QueueInv /\ [Next]_vars =>
        [\A d \in Decisions :
           orders[d].status \in TerminalStatuses /\ orders'[d] # orders[d] =>
             /\ orders[d].status = "PARTIALLY_FILLED"
             /\ orders'[d] = [orders[d] EXCEPT !.status = "CANCELLED"]]_vars
  BY <1>1
<1> QED BY <1>2, ReadsStayFresh, PTL DEF Spec, LeavesQueueOnce

-----------------------------------------------------------------------------
(* The account of one process.                                             *)

(* The account of a book has the type of an account. *)
LEMMA ReplayType ==
  ASSUME IsFiniteSet(Decisions), NEW book \in Book
  PROVE  Replay(book) \in Account /\ Replay(book).cash \in Int
         /\ Replay(book).held \in [Symbols -> Nat]
<1>1. Replay(book) \in Account
  BY ReplayFacts DEF Replay
<1> QED BY <1>1 DEF Account

LEMMA NotIdle ==
  ASSUME NEW s, s.op # "idle"
  PROVE  s # Idle
BY DEF Idle

(* What the only process holds. *)
LEMMA Alone ==
  ASSUME OneProcess, TypeOK, NEW a \in Actors, NEW s,
         session' = [session EXCEPT ![a] = s]
  PROVE  \A b \in Actors : b = a /\ session'[b] = s
BY DEF OneProcess, TypeOK

(* A number lies after those the route has used, or is that of all orders of
   an iteration of the monitor.                                            *)
LEMMA NumberAfter ==
  ASSUME NEW r \in Routes, RouteCurrent(r, clock), NEW number \in Numbers(r)
  PROVE  /\ number \in Nat /\ r.last \in Nat /\ r.last <= number
         /\ r.run \in MonitorRuns => number = 0
<1>1. r.last \in 0..RouteLength /\ number \in 0..RouteLength /\ RouteLength \in Nat
  BY NumbersFacts, BrokerAssumption DEF Routes
<1>2. /\ r.run \in MonitorRuns => number = 0 /\ r.last = 0
      /\ r.run \notin MonitorRuns => number > r.last
  BY NumbersFacts DEF RouteCurrent
<1> QED BY <1>1, <1>2

(* When the stamps of the stored rows have passed, none lies after a time that
   is read now.                                                            *)
LEMMA StampsPassed ==
  ASSUME IsFiniteSet(Decisions), LedgerInv, [StampsHavePassed]_vars, ReadClock
  PROVE  /\ clock' \in Nat
         /\ \A s \in Symbols : FillsBy(fills, s, clock')
         /\ \A q \in Runs : accounts[q].at <= clock'
<1>1. clock \in Nat /\ clock' \in Nat /\ clock' > clock
  BY ClockType DEF LedgerInv, QueueInv, IInv, TypeOK
<1>2. StampsHavePassed /\ clock' # clock
  BY <1>1 DEF vars
<1>3. ASSUME NEW e \in Entries(fills) PROVE FillAt(fills, e).at <= clock'
  <2>1. FillAt(fills, e).at \in Nat
    BY EntriesType DEF FillRecord, LedgerInv, Sound, InOrder
  <2> QED BY <1>1, <1>2, <2>1 DEF StampsHavePassed
<1>4. ASSUME NEW q \in Runs PROVE accounts[q].at <= clock'
  <2>1. accounts[q].at \in Nat
    BY DEF LedgerInv, AccountRow
  <2> QED BY <1>1, <1>2, <2>1 DEF StampsHavePassed
<1> QED BY <1>1, <1>3, <1>4 DEF FillsBy

(* Storing a sound book with its account, whose row becomes the latest. *)
LEMMA AccountStored ==
  ASSUME OneProcess, IsFiniteSet(Decisions), LedgerInv, QueueInv', NEW a \in Actors,
         session' = [session EXCEPT ![a] = Idle], UNCHANGED <<clock, route>>,
         Sound(fills'), NEW r \in Runs, NEW at \in Nat,
         \A q \in Runs : accounts[q].at <= at,
         route[a] # NoRoute =>
           /\ at <= clock + route[a].last
           /\ \A s \in Symbols \ route[a].routed : FillsBy(fills', s, clock),
         accounts' = [accounts EXCEPT ![r] =
                        [at |-> at, cash |-> Replay(fills').cash,
                         held |-> Replay(fills').held]]
  PROVE  LedgerInv'
<1>1. TypeOK /\ TypeOK' /\ clock \in Nat
  BY DEF LedgerInv, QueueInv, IInv, TypeOK
<1>2. \A b \in Actors : b = a /\ session'[b] = Idle
  BY <1>1, Alone
<1>3. StatesCurrent'
  BY <1>2, IdleIsSession DEF StatesCurrent
<1>4. Replay(fills').cash \in Int /\ Replay(fills').held \in [Symbols -> Nat]
  BY ReplayType DEF Sound, InOrder
<1> DEFINE row == [at |-> at, cash |-> Replay(fills').cash, held |-> Replay(fills').held]
<1>5. /\ row \in AccountRow /\ row.at = at
      /\ row.cash = Replay(fills').cash /\ row.held = Replay(fills').held
  BY <1>4 DEF AccountRow
<1>6. accounts \in [Runs -> AccountRow] /\ accounts' = [accounts EXCEPT ![r] = row]
  BY DEF LedgerInv
<1> HIDE DEF row
<1>7. accounts' \in [Runs -> AccountRow] /\ accounts'[r] = row
      /\ \A q \in Runs : q # r => accounts'[q] = accounts[q]
  BY <1>5, <1>6
<1>8. \A q \in Runs : accounts'[q].at \in Nat /\ accounts'[q].at <= at
  <2> SUFFICES ASSUME NEW q \in Runs PROVE accounts'[q].at \in Nat /\ accounts'[q].at <= at
    OBVIOUS
  <2>1. CASE q = r
    BY <1>5, <1>7, <2>1
  <2>2. CASE q # r
    BY <1>6, <1>7, <2>2 DEF AccountRow
  <2> QED BY <2>1, <2>2
<1>9. RoutesCurrent'
  <2> SUFFICES ASSUME route[a] # NoRoute PROVE RouteCurrent(route[a], clock)'
    BY <1>2 DEF RoutesCurrent
  <2>1. /\ RouteCurrent(route[a], clock) /\ route[a] \in Routes
    BY <1>1 DEF LedgerInv, RoutesCurrent, TypeOK
  <2>2. route[a].last \in Nat
    BY <2>1, BrokerAssumption DEF Routes
  <2>3. \A q \in Runs : accounts'[q].at <= clock + route[a].last
    BY <1>1, <1>8, <2>2
  <2> QED BY <2>1, <2>3 DEF RouteCurrent
<1>10. LatestAccountCurrent'
  <2>1. accounts'[r].cash = Replay(fills').cash /\ accounts'[r].held = Replay(fills').held
    BY <1>5, <1>7
  <2>2. \A q \in Runs : accounts'[q].at <= accounts'[r].at
    BY <1>5, <1>7, <1>8
  <2> QED BY <2>1, <2>2 DEF LatestAccountCurrent
<1> QED BY <1>3, <1>7, <1>9, <1>10 DEF LedgerInv

(* A step of the process that stores neither fills nor accounts. *)
LEMMA NothingStored ==
  ASSUME OneProcess, LedgerInv, QueueInv', NEW a \in Actors, NEW s, NEW r,
         session' = [session EXCEPT ![a] = s], route' = [route EXCEPT ![a] = r],
         UNCHANGED <<fills, accounts>>,
         s.op = "place" => PlaceCurrent(s, r, clock'),
         s.op = "settle" => SettleCurrent(s, r, clock'),
         r # NoRoute => RouteCurrent(r, clock')
  PROVE  LedgerInv'
<1>1. \A b \in Actors : b = a /\ session'[b] = s /\ route'[b] = r
  BY DEF OneProcess, LedgerInv, QueueInv, IInv, TypeOK
<1>2. StatesCurrent'
  <2>1. s.op = "settle" => SettleCurrent(s, r, clock)'
    BY DEF SettleCurrent, DraftBook
  <2>2. s.op = "place" => PlaceCurrent(s, r, clock)'
    BY DEF PlaceCurrent
  <2> QED BY <1>1, <2>1, <2>2 DEF StatesCurrent
<1>3. RoutesCurrent'
  <2>1. r # NoRoute => RouteCurrent(r, clock)'
    BY DEF RouteCurrent
  <2> QED BY <1>1, <2>1 DEF RoutesCurrent
<1>4. LatestAccountCurrent'
  BY DEF LedgerInv, LatestAccountCurrent
<1> QED BY <1>2, <1>3, <1>4 DEF LedgerInv

(* What is unchanged of the process may be written as a change. *)
LEMMA RouteKept ==
  ASSUME LedgerInv, NEW a \in Actors, UNCHANGED <<route, clock>>
  PROVE  /\ route' = [route EXCEPT ![a] = route[a]]
         /\ route[a] # NoRoute => RouteCurrent(route[a], clock')
BY DEF LedgerInv, QueueInv, IInv, TypeOK, RoutesCurrent

(* A route that begins when the stamps of the stored rows have passed. *)
LEMMA BeginRouteLedger ==
  ASSUME OneProcess, IsFiniteSet(Decisions), LedgerInv, QueueInv',
         [StampsHavePassed]_vars, NEW a \in Actors, NEW run \in Runs, BeginRoute(a, run)
  PROVE  LedgerInv'
<1> DEFINE new == [op |-> "route", run |-> run, base |-> clock', last |-> 0, routed |-> {}]
<1>1. /\ session' = session /\ session[a] = Idle /\ ReadClock
      /\ route' = [route EXCEPT ![a] = new]
      /\ UNCHANGED <<fills, accounts>>
  BY DEF BeginRoute
<1>2. new.base = clock' /\ new.last = 0
  OBVIOUS
<1> HIDE DEF new
<1>3. session' = [session EXCEPT ![a] = Idle]
  BY <1>1 DEF LedgerInv, QueueInv, IInv, TypeOK
<1>4. RouteCurrent(new, clock')
  <2>1. /\ clock' \in Nat
        /\ \A s \in Symbols : FillsBy(fills, s, clock')
        /\ \A q \in Runs : accounts[q].at <= clock'
    BY <1>1, StampsPassed
  <2>2. \A n \in Nat : n + new.last = n
    BY <1>2
  <2> QED BY <1>2, <2>1, <2>2 DEF RouteCurrent
<1> QED BY <1>1, <1>3, <1>4, NothingStored, IdleIsSession

(* A placement takes the next number of its route and a symbol that has no
   fill since the route began.                                             *)
LEMMA BeginPlaceLedger ==
  ASSUME OneProcess, LedgerInv, QueueInv', NEW a \in Actors, NEW d \in Decisions,
         NEW policy \in Policies, NEW limit \in ThreadedCash \cup {NoLimit},
         BeginPlace(a, d, policy, limit)
  PROVE  LedgerInv'
<1> DEFINE r == route[a]
           x == SymbolOf[d]
<1>1. orders[d].status = "NONE" /\ TypeOK
  BY BeginPlaceFresh DEF LedgerInv, QueueInv, IInv
<1>2. PICK at \in Nat, number \in 0..RouteLength :
        /\ session' = [session EXCEPT ![a] = Placement(d, policy, limit, at)]
        /\ UNCHANGED <<fills, accounts, clock>>
        /\ r \in Routes /\ x \notin r.routed /\ number \in Numbers(r)
        /\ at = r.base + number
        /\ route' = [route EXCEPT ![a] = WithOrder(r, number, x)]
  BY <1>1, BeginPlaceFacts
<1>3. RouteCurrent(r, clock)
  <2>1. r # NoRoute
    BY <1>2 DEF Routes, NoRoute
  <2> QED BY <2>1 DEF LedgerInv, RoutesCurrent
<1>4. /\ number \in Nat /\ r.last \in Nat /\ r.last <= number
      /\ r.run \in MonitorRuns => number = 0
  BY <1>2, <1>3, NumberAfter
<1> DEFINE new == WithOrder(r, number, x)
           s == Placement(d, policy, limit, at)
<1>5. /\ new.base = r.base /\ new.run = r.run /\ new.last = number
      /\ new.routed = r.routed \cup {x} /\ new # NoRoute
  BY DEF WithOrder, NoRoute
<1>6. fills[d] = <<>> /\ fills \in Book
  BY <1>1 DEF LedgerInv, Sound, InOrder, QueueInv, IInv, RowsMatch, Matches, StatusAgrees
<1>7. [fills EXCEPT ![d] = <<>>] = fills
  BY <1>6 DEF Book
<1>8. s.op = "place" /\ s.decision = d /\ s.at = at /\ s.state = Replay(fills)
  BY <1>7 DEF Placement
<1>9. x \in Symbols /\ clock \in Nat
  BY <1>1, DecisionsAssumption DEF TypeOK
<1> HIDE DEF new, s, r
<1>10. PlaceCurrent(s, new, clock')
  <2>1. s.at = clock' + new.last
    BY <1>2, <1>3, <1>5, <1>8 DEF RouteCurrent
  <2>2. FillsBy(fills, x, clock)
    BY <1>2, <1>3, <1>9 DEF RouteCurrent
  <2> QED BY <1>2, <1>5, <1>8, <2>1, <2>2 DEF PlaceCurrent
<1>11. RouteCurrent(new, clock')
  <2>1. ASSUME NEW q \in Runs PROVE accounts[q].at <= clock' + new.last
    <3>1. accounts[q].at \in Nat /\ accounts[q].at <= clock + r.last
      BY <1>3 DEF LedgerInv, AccountRow, RouteCurrent
    <3> QED BY <1>2, <1>4, <1>5, <1>9, <3>1
  <2>2. \A y \in Symbols \ new.routed : FillsBy(fills, y, clock')
    BY <1>2, <1>3, <1>5 DEF RouteCurrent
  <2>3. new.base = clock' /\ (new.run \in MonitorRuns => new.last = 0)
    BY <1>2, <1>3, <1>4, <1>5 DEF RouteCurrent
  <2> QED BY <2>1, <2>2, <2>3 DEF RouteCurrent
<1>12. session' = [session EXCEPT ![a] = s] /\ route' = [route EXCEPT ![a] = new]
  BY <1>2 DEF s, new
<1> QED BY <1>2, <1>8, <1>10, <1>11, <1>12, NothingStored

(* The first number of a settlement adds nothing to its stamp. *)
LEMMA NothingAdded ==
  ASSUME NEW t \in Nat
  PROVE  t + 0 = t
OBVIOUS

(* A settlement that begins when the stamps of the stored rows have passed. *)
LEMMA BeginSettleLedger ==
  ASSUME OneProcess, IsFiniteSet(Decisions), LedgerInv, QueueInv',
         [StampsHavePassed]_vars, NEW a \in Actors, NEW run \in Runs,
         BeginSettle(a, run)
  PROVE  LedgerInv'
<1> DEFINE draft == [d \in Decisions |->
                       IF d \in SettlementQueue
                       THEN [order |-> orders[d], fills |-> <<>>]
                       ELSE [order |-> NoOrder, fills |-> <<>>]]
           account == Replay(fills)
           s == [op |-> "settle", run |-> run, at |-> clock',
                 todo |-> SettlementQueue, written |-> {}, seq |-> 0,
                 draft |-> draft, state |-> account]
<1>1. /\ session' = [session EXCEPT ![a] = s] /\ ReadClock
      /\ route' = [route EXCEPT ![a] = NoRoute] /\ UNCHANGED <<fills, accounts>>
  BY DEF BeginSettle, StartSession
<1>2. /\ s.op = "settle" /\ s.written = {} /\ s.state = Replay(fills)
      /\ s.at = clock' /\ s.seq = 0
  OBVIOUS
<1>3. Sound(fills) /\ fills \in Book
  BY DEF LedgerInv, Sound, InOrder
<1> HIDE DEF s, draft, account
<1>4. /\ clock' \in Nat
      /\ \A y \in Symbols : FillsBy(fills, y, clock')
      /\ \A q \in Runs : accounts[q].at <= clock'
  BY <1>1, StampsPassed
<1>5. DraftBook(s) = fills
  BY <1>2, <1>3 DEF FillsReplaced, Book, DraftBook
<1>6. s.at + s.seq = clock'
  <2>1. clock' + 0 = clock'
    BY <1>4, NothingAdded
  <2> QED BY <1>2, <2>1, Zenon
<1>7. SettleCurrent(s, NoRoute, clock')
  BY <1>2, <1>3, <1>4, <1>5, <1>6 DEF SettleCurrent
<1> QED BY <1>1, <1>2, <1>7, NothingStored

(* The fills of one plan are stamped one after the other. *)
LEMMA PlannedTimes ==
  ASSUME NEW d, NEW n \in Nat \ {0}, NEW open \in Nat, NEW close \in Nat,
         NEW day \in Days, NEW at \in Nat
  PROVE  \A i \in 1..Len(PlannedFills(d, n, open, close, day, at)) :
           PlannedFills(d, n, open, close, day, at)[i].at = at + i
<1> DEFINE plan == FillPlan(n)
           fs == PlannedFills(d, n, open, close, day, at)
<1>1. fs = [i \in 1..Len(plan) |->
              [day |-> day, qty |-> plan[i], at |-> at + i,
               price |-> FillPrice(SideOf(d), IF i = 1 THEN open ELSE close)]]
  BY DEF PlannedFills
<1>2. DOMAIN fs = 1..Len(plan)
  <2> HIDE DEF plan
  <2> QED BY <1>1
<1>3. fs \in Seq(FillRecord)
  BY PlannedFillsType
<1>4. DOMAIN fs = 1..Len(fs)
  <2> HIDE DEF fs
  <2> QED BY <1>3
<1> HIDE DEF plan, fs
<1>5. \A i \in 1..Len(fs) : fs[i].at = at + i
  BY <1>1, <1>2, <1>4
<1> QED BY <1>5 DEF fs

(* A SELL of no more than is held leaves the rest. *)
LEMMA SoldFromHeld ==
  ASSUME NEW d \in Decisions, NEW fill \in FillRecord, NEW st \in Account,
         SideOf(d) = "SELL", fill.qty <= st.held[SymbolOf[d]]
  PROVE  ApplyFill(d, fill, st).held[SymbolOf[d]] = st.held[SymbolOf[d]] - fill.qty
<1> DEFINE s == SymbolOf[d]
<1>1. s \in Symbols /\ st.held \in [Symbols -> Nat] /\ fill.qty \in Nat \ {0}
  BY DecisionsAssumption DEF Account, FillRecord
<1>2. st.held[s] \in Nat
  BY <1>1
<1>3. (IF fill.qty < st.held[s] THEN fill.qty ELSE st.held[s]) = fill.qty
  <2> HIDE DEF s
  <2> QED BY <1>1, <1>2 DEF s
<1>4. ApplyFill(d, fill, st) = [cash |-> st.cash + Proceeds(fill),
                               held |-> [st.held EXCEPT ![s] = @ - fill.qty]]
  <2> HIDE DEF s
  <2> QED BY <1>1, <1>3 DEF ApplyFill, s
<1> HIDE DEF s
<1> QED BY <1>1, <1>4 DEF s

(* The parts of one plan, stamped after every fill of their symbol and for no
   more than is held, add up to what the broker has worked out.            *)
LEMMA PartsAppended ==
  ASSUME IsFiniteSet(Decisions), NEW t \in Nat, NEW at \in Nat, t <= at,
         NEW old, Sound(old), NEW d \in Decisions, old[d] = <<>>,
         FillsBy(old, SymbolOf[d], t), NEW fs \in Seq(FillRecord),
         Len(fs) \in {1, 2}, \A i \in 1..Len(fs) : fs[i].at = at + i,
         SideOf(d) = "SELL" => FilledQty(fs) <= Replay(old).held[SymbolOf[d]]
  PROVE  /\ Sound([old EXCEPT ![d] = fs])
         /\ Replay([old EXCEPT ![d] = fs]) = ApplyFills(d, fs, Replay(old))
         /\ \A s \in Symbols, u \in Nat :
              s # SymbolOf[d] /\ FillsBy(old, s, u) => FillsBy([old EXCEPT ![d] = fs], s, u)
<1>1. old \in Book /\ Replay(old) \in Account
  BY ReplayType DEF Sound, InOrder
<1>2. at + 1 \in Nat /\ at + 2 \in Nat /\ at + 1 > t /\ at + 2 > at + 1
  OBVIOUS
<1>3. /\ fs[1] \in FillRecord /\ fs[1].qty \in Nat /\ fs[1].at = at + 1
      /\ Len(fs) = 2 => fs[2] \in FillRecord /\ fs[2].qty \in Nat /\ fs[2].at = at + 2
      /\ Len(fs) <= 2
  <2>1. Len(fs) \in Nat /\ Len(fs) <= 2 /\ 1 \in 1..Len(fs)
        /\ (Len(fs) = 2 => 2 \in 1..Len(fs))
    <3>1. CASE Len(fs) = 1
      BY <3>1
    <3>2. CASE Len(fs) = 2
      BY <3>2
    <3> QED BY <3>1, <3>2
  <2>2. \A i \in 1..Len(fs) : fs[i] \in FillRecord
    OBVIOUS
  <2>3. \A f \in FillRecord : f.qty \in Nat
    BY DEF FillRecord
  <2> QED BY <2>1, <2>2, <2>3
<1>4. SymbolOf[d] \in Symbols /\ Replay(old).held[SymbolOf[d]] \in Nat
  BY <1>1, DecisionsAssumption DEF Account
<1> DEFINE one == [old EXCEPT ![d] = <<fs[1]>>]
<1>5. SideOf(d) = "SELL" => fs[1].qty <= Replay(old).held[SymbolOf[d]]
  BY <1>3, <1>4 DEF FilledQty
<1>6. /\ <<fs[1]>> \in Seq(FillRecord) /\ Len(<<fs[1]>>) = 1 /\ <<fs[1]>>[1] = fs[1]
      /\ Len(<<>>) = 0
  BY <1>3
<1>7. /\ Sound(one) /\ Replay(one) = ApplyFill(d, fs[1], Replay(old))
      /\ FillsBy(one, SymbolOf[d], at + 1)
      /\ \A s \in Symbols, u \in Nat :
           s # SymbolOf[d] /\ FillsBy(old, s, u) => FillsBy(one, s, u)
  <2> DEFINE gs == <<fs[1]>>
  <2>1. /\ gs \in Seq(FillRecord) /\ Len(gs) = 1 /\ Len(old[d]) = 1 - 1
        /\ gs[1].at > t /\ gs[1] = fs[1] /\ 1 \in {1, 2} /\ 1 # 2
    BY <1>2, <1>3, <1>6
  <2> HIDE DEF gs
  <2>2. /\ Sound([old EXCEPT ![d] = gs])
        /\ Replay([old EXCEPT ![d] = gs]) = ApplyFill(d, gs[1], Replay(old))
        /\ FillsBy([old EXCEPT ![d] = gs], SymbolOf[d], gs[1].at)
        /\ \A s \in Symbols, u \in Nat :
             s # SymbolOf[d] /\ FillsBy(old, s, u) => FillsBy([old EXCEPT ![d] = gs], s, u)
    BY <1>5, <2>1, AppendFill
  <2> QED BY <1>3, <2>1, <2>2 DEF gs
<1>8. CASE Len(fs) = 1
  <2>1. fs = <<fs[1]>>
    BY <1>8
  <2>2. ApplyFills(d, fs, Replay(old)) = ApplyFill(d, fs[1], Replay(old))
    BY <1>1, <1>3, <1>8, ApplyFillsFacts
  <2>3. [old EXCEPT ![d] = fs] = one
    BY <2>1
  <2> HIDE DEF one
  <2> QED BY <1>7, <2>2, <2>3
<1>9. CASE Len(fs) = 2
  <2>1. one \in Book /\ one[d] = <<fs[1]>>
    BY <1>1, <1>6 DEF Book
  <2>2. [one EXCEPT ![d] = fs] = [old EXCEPT ![d] = fs]
    BY <1>1 DEF Book
  <2>3. SideOf(d) = "SELL" => fs[2].qty <= Replay(one).held[SymbolOf[d]]
    <3> SUFFICES ASSUME SideOf(d) = "SELL"
                 PROVE  fs[2].qty <= Replay(one).held[SymbolOf[d]]
      OBVIOUS
    <3>1. ApplyFill(d, fs[1], Replay(old)).held[SymbolOf[d]]
            = Replay(old).held[SymbolOf[d]] - fs[1].qty
      BY <1>1, <1>3, <1>5, SoldFromHeld
    <3>2. fs[1].qty + fs[2].qty <= Replay(old).held[SymbolOf[d]]
      BY <1>9 DEF FilledQty
    <3> HIDE DEF one
    <3> QED BY <1>3, <1>4, <1>7, <1>9, <3>1, <3>2
  <2>4. /\ Len(one[d]) = 2 - 1 /\ fs[1] = one[d][1] /\ fs[2].at > at + 1
        /\ 2 \in {1, 2} /\ Len(fs) = 2
    BY <1>2, <1>3, <1>6, <1>9, <2>1
  <2> HIDE DEF one
  <2>5. /\ Sound([one EXCEPT ![d] = fs])
        /\ Replay([one EXCEPT ![d] = fs]) = ApplyFill(d, fs[2], Replay(one))
        /\ \A s \in Symbols, u \in Nat :
             s # SymbolOf[d] /\ FillsBy(one, s, u) => FillsBy([one EXCEPT ![d] = fs], s, u)
    BY <1>2, <1>7, <2>3, <2>4, AppendFill
  <2>6. ApplyFills(d, fs, Replay(old)) = ApplyFill(d, fs[2], ApplyFill(d, fs[1], Replay(old)))
    BY <1>1, <1>3, <1>9, ApplyFillsFacts
  <2> QED BY <1>7, <2>2, <2>5, <2>6
<1> QED BY <1>8, <1>9

(* What a placement is about to store. *)
LEMMA PlacingFacts ==
  ASSUME OneProcess, LedgerInv, NEW a \in Actors, session[a].op = "place"
  PROVE  LET s == session[a]
             r == route[a]
         IN  /\ s.decision \in Decisions /\ RunOf[s.decision] \in Runs
             /\ s.at \in Nat /\ clock \in Nat /\ clock <= s.at
             /\ s.state = Replay(fills) /\ FillsBy(fills, SymbolOf[s.decision], clock)
             /\ fills \in Book /\ fills[s.decision] = <<>> /\ Sound(fills)
             /\ \A q \in Runs : accounts[q].at <= s.at
             /\ r # NoRoute /\ s.at <= clock + r.last /\ SymbolOf[s.decision] \in r.routed
             /\ \A x \in Symbols \ r.routed : FillsBy(fills, x, clock)
<1> DEFINE s == session[a]
           r == route[a]
           d == s.decision
<1>1. orders[d].status = "NONE" /\ PlaceCurrent(s, r, clock)
  BY DEF LedgerInv, QueueInv, SessionsFresh, FreshPlace, StatesCurrent
<1>2. d \in Decisions /\ clock \in Nat /\ TypeOK
  BY PlaceFacts DEF LedgerInv, QueueInv, IInv, TypeOK
<1>3. fills[d] = <<>>
  BY <1>1, <1>2 DEF LedgerInv, QueueInv, IInv, RowsMatch, Matches, StatusAgrees
<1>4. RouteCurrent(r, clock) /\ r \in Routes
  BY <1>1, <1>2 DEF PlaceCurrent, LedgerInv, RoutesCurrent, TypeOK
<1>5. r.last \in Nat
  BY <1>4, BrokerAssumption DEF Routes
<1>6. s.at = clock + r.last
  BY <1>1 DEF PlaceCurrent
<1>7. s.at \in Nat /\ clock <= s.at /\ s.at <= clock + r.last
  <2> HIDE DEF s, r
  <2> QED BY <1>2, <1>5, <1>6
<1>8. Sound(fills) /\ fills \in Book
  BY DEF LedgerInv, Sound, InOrder
<1>9. RunOf[d] \in Runs
  BY <1>2, DecisionsAssumption
<1>10. \A q \in Runs : accounts[q].at <= s.at
  BY <1>4, <1>6 DEF RouteCurrent
<1> HIDE DEF s, r
<1> QED BY <1>1, <1>2, <1>3, <1>4, <1>7, <1>8, <1>9, <1>10
        DEF PlaceCurrent, RouteCurrent, s, r

LEMMA PlaceUnfilledLedger ==
  ASSUME OneProcess, IsFiniteSet(Decisions), LedgerInv, QueueInv', NEW a \in Actors,
         PlaceRejected(a) \/ PlaceQueued(a)
  PROVE  LedgerInv'
<1> DEFINE s == session[a]
           d == s.decision
<1>1. s.op = "place"
  BY DEF PlaceRejected, PlaceQueued
<1>2. PICK order : StorePlacement(a, order, <<>>, s.state)
  BY DEF PlaceRejected, PlaceQueued
<1>3. /\ RunOf[d] \in Runs /\ s.at \in Nat /\ s.state = Replay(fills)
      /\ fills \in Book /\ fills[d] = <<>> /\ Sound(fills)
      /\ \A q \in Runs : accounts[q].at <= s.at
      /\ s.at <= clock + route[a].last
      /\ \A x \in Symbols \ route[a].routed : FillsBy(fills, x, clock)
  BY <1>1, PlacingFacts
<1>4. /\ fills' = [fills EXCEPT ![d] = <<>>]
      /\ accounts' = [accounts EXCEPT ![RunOf[d]] =
                        [at |-> s.at, cash |-> s.state.cash, held |-> s.state.held]]
      /\ session' = [session EXCEPT ![a] = Idle] /\ UNCHANGED <<clock, route>>
  BY <1>2 DEF StorePlacement
<1>5. fills' = fills
  BY <1>3, <1>4 DEF Book
<1>6. accounts' = [accounts EXCEPT ![RunOf[d]] =
        [at |-> s.at, cash |-> Replay(fills').cash, held |-> Replay(fills').held]]
  BY <1>3, <1>4, <1>5
<1>7. Sound(fills') /\ \A x \in Symbols \ route[a].routed : FillsBy(fills', x, clock)
  BY <1>3, <1>5
<1> HIDE DEF s, d
<1> QED BY <1>3, <1>4, <1>6, <1>7, AccountStored

LEMMA PlaceFilledLedger ==
  ASSUME OneProcess, IsFiniteSet(Decisions), LedgerInv, QueueInv', NEW a \in Actors,
         PlaceFilled(a)
  PROVE  LedgerInv'
<1> DEFINE s == session[a]
           d == s.decision
           r == route[a]
           fs(q) == ImmediateFills(s, q)
<1>1. s.op = "place" /\ s.day # NoDay
  BY DEF PlaceFilled
<1>2. PICK n \in PositiveQuantities(d, s.state) : \E q \in 1..n :
        /\ Affordable(d, q, n, ImmediateFills(s, n), s.state.cash, s.state)
        /\ \E order : StorePlacement(a, order, fs(q), ApplyFills(d, fs(q), s.state))
  BY DEF PlaceFilled
<1>3. PICK q \in 1..n :
        /\ Affordable(d, q, n, ImmediateFills(s, n), s.state.cash, s.state)
        /\ \E order : StorePlacement(a, order, fs(q), ApplyFills(d, fs(q), s.state))
  BY <1>2
<1>4. n \in Nat \ {0} /\ q \in Nat \ {0}
  BY DEF PositiveQuantities
<1>5. /\ d \in Decisions /\ RunOf[d] \in Runs
      /\ s.at \in Nat /\ clock \in Nat /\ clock <= s.at
      /\ s.state = Replay(fills) /\ FillsBy(fills, SymbolOf[d], clock)
      /\ fills \in Book /\ fills[d] = <<>> /\ Sound(fills)
      /\ \A p \in Runs : accounts[p].at <= s.at
      /\ s.at <= clock + r.last /\ SymbolOf[d] \in r.routed
      /\ \A x \in Symbols \ r.routed : FillsBy(fills, x, clock)
  BY <1>1, PlacingFacts
<1>6. s.day \in Days
  BY <1>1, PlaceFacts DEF LedgerInv, QueueInv, DayOrNone
<1>7. /\ fs(q) \in Seq(FillRecord) /\ Len(fs(q)) \in {1, 2} /\ FilledQty(fs(q)) = q
      /\ \A i \in 1..Len(fs(q)) : fs(q)[i].at = s.at + i
  <2> DEFINE open == Open[SymbolOf[d]][s.day]
             close == Close[SymbolOf[d]][s.day]
             planned == PlannedFills(d, q, open, close, s.day, s.at)
  <2>1. open \in Nat /\ close \in Nat /\ s.at \in Nat
    BY <1>5, <1>6, PricesType
  <2>2. fs(q) = planned
    BY DEF ImmediateFills
  <2> HIDE DEF open, close, s
  <2>3. planned \in Seq(FillRecord) /\ Len(planned) \in {1, 2} /\ FilledQty(planned) = q
    BY <1>4, <1>6, <2>1, PlannedFillsType
  <2>4. \A i \in 1..Len(planned) : planned[i].at = s.at + i
    BY <1>4, <1>6, <2>1, PlannedTimes
  <2> QED BY <2>2, <2>3, <2>4
<1>8. SideOf(d) = "SELL" => q <= Replay(fills).held[SymbolOf[d]]
  <2>1. Replay(fills).held[SymbolOf[d]] \in Nat
    BY <1>5, ReplayType, DecisionsAssumption
  <2> QED BY <1>3, <1>4, <1>5, <2>1 DEF Affordable
<1>9. /\ fills' = [fills EXCEPT ![d] = fs(q)]
      /\ accounts' = [accounts EXCEPT ![RunOf[d]] =
                        [at |-> s.at, cash |-> ApplyFills(d, fs(q), s.state).cash,
                         held |-> ApplyFills(d, fs(q), s.state).held]]
      /\ session' = [session EXCEPT ![a] = Idle] /\ UNCHANGED <<clock, route>>
  BY <1>3 DEF StorePlacement
<1> DEFINE parts == fs(q)
<1> HIDE DEF s, r, parts
<1>10. /\ Sound([fills EXCEPT ![d] = parts])
       /\ Replay([fills EXCEPT ![d] = parts]) = ApplyFills(d, parts, Replay(fills))
       /\ \A x \in Symbols, u \in Nat : x # SymbolOf[d] /\ FillsBy(fills, x, u)
            => FillsBy([fills EXCEPT ![d] = parts], x, u)
  BY <1>5, <1>7, <1>8, PartsAppended DEF parts
<1>11. accounts' = [accounts EXCEPT ![RunOf[d]] =
         [at |-> s.at, cash |-> Replay(fills').cash, held |-> Replay(fills').held]]
  BY <1>5, <1>9, <1>10 DEF parts
<1>12. Sound(fills') /\ \A x \in Symbols \ r.routed : FillsBy(fills', x, clock)
  BY <1>5, <1>9, <1>10 DEF parts
<1> QED BY <1>5, <1>9, <1>11, <1>12, AccountStored DEF s, r

(* What a settlement is about to store. *)
LEMMA SettlingFacts ==
  ASSUME OneProcess, LedgerInv, NEW a \in Actors, session[a].op = "settle"
  PROVE  LET s == session[a] IN
         /\ s \in SettleSession(s.state) /\ FreshSettle(s, clock, orders)
         /\ s.at = clock /\ clock \in Nat /\ s.seq \in Nat
         /\ s.written \subseteq Decisions /\ s.run \in Runs
         /\ SettleCurrent(s, route[a], clock)
<1> DEFINE s == session[a]
<1>1. s \in SettleSession(s.state) /\ FreshSettle(s, clock, orders)
  BY SettleFacts DEF LedgerInv, QueueInv, SessionsFresh
<1>2. s.seq \in Nat /\ s.written \subseteq Decisions /\ s.run \in Runs
  <2> HIDE DEF s
  <2> QED BY <1>1 DEF SettleSession
<1>3. s.at = clock /\ clock \in Nat
  BY <1>1 DEF FreshSettle, LedgerInv, QueueInv, IInv, TypeOK
<1>4. SettleCurrent(s, route[a], clock)
  BY DEF LedgerInv, StatesCurrent
<1> QED BY <1>1, <1>2, <1>3, <1>4

LEMMA CommitSettleLedger ==
  ASSUME OneProcess, IsFiniteSet(Decisions), LedgerInv, QueueInv', NEW a \in Actors,
         CommitSettle(a)
  PROVE  LedgerInv'
<1> DEFINE s == session[a]
           at == s.at + s.seq
<1>1. s.op = "settle"
  BY DEF CommitSettle
<1>2. /\ s.at = clock /\ clock \in Nat /\ s.seq \in Nat /\ s.run \in Runs
      /\ SettleCurrent(s, route[a], clock)
  BY <1>1, SettlingFacts
<1>3. /\ fills' = DraftBook(s) /\ UNCHANGED <<clock, route>>
      /\ session' = [session EXCEPT ![a] = Idle]
      /\ accounts' = [accounts EXCEPT ![s.run] =
                        [at |-> at, cash |-> s.state.cash, held |-> s.state.held]]
  BY DEF CommitSettle, DraftBook
<1>4. at \in Nat /\ clock <= at
  <2> HIDE DEF s
  <2> QED BY <1>2
<1>5. \A q \in Runs : accounts[q].at <= at
  <2> SUFFICES ASSUME NEW q \in Runs PROVE accounts[q].at <= at
    OBVIOUS
  <2>1. accounts[q].at \in Nat /\ accounts[q].at <= clock
    BY <1>2 DEF LedgerInv, AccountRow, SettleCurrent
  <2> HIDE DEF at
  <2> QED BY <1>2, <1>4, <2>1
<1>6. /\ Sound(fills') /\ s.state = Replay(fills') /\ route[a] = NoRoute
  BY <1>2, <1>3 DEF SettleCurrent
<1> HIDE DEF at
<1> QED BY <1>2, <1>3, <1>4, <1>5, <1>6, AccountStored

LEMMA SettleWaitsLedger ==
  ASSUME OneProcess, LedgerInv, QueueInv', NEW a \in Actors, SettleWaits(a)
  PROVE  LedgerInv'
<1> DEFINE s == session[a]
<1>1. s.op = "settle" /\ UNCHANGED <<fills, accounts, clock, route>>
  BY DEF SettleWaits
<1>2. PICK d \in s.todo : session' = [session EXCEPT ![a].todo = @ \ {d}]
  BY DEF SettleWaits
<1> DEFINE new == [s EXCEPT !.todo = @ \ {d}]
<1>3. /\ s \in SettleSession(s.state) /\ SettleCurrent(s, route[a], clock)
  BY <1>1, SettlingFacts
<1>4. /\ new.op = "settle" /\ new.at = s.at /\ new.seq = s.seq
      /\ new.written = s.written /\ new.draft = s.draft /\ new.state = s.state
  <2> HIDE DEF s
  <2> QED BY <1>3, <1>1 DEF SettleSession
<1>5. session' = [session EXCEPT ![a] = new]
  BY <1>2
<1> HIDE DEF new, s
<1>6. DraftBook(new) = DraftBook(s)
  BY <1>4 DEF DraftBook, FillsReplaced
<1>7. SettleCurrent(new, route[a], clock')
  BY <1>1, <1>3, <1>4, <1>6 DEF SettleCurrent
<1> QED BY <1>1, <1>4, <1>5, <1>7, NothingStored, RouteKept

(* The book grows by what has been settled, stamped later than all of it. *)
LEMMA SettledAppended ==
  ASSUME OneProcess, IsFiniteSet(Decisions), LedgerInv, NEW a \in Actors,
         NEW d, NEW q, NEW day, SettlesOrder(a, d, q, day)
  PROVE  LET s == session[a]
             at == s.at + s.seq
             fs == SettledFills(d, q, day, at + 1)
             book == [DraftBook(s) EXCEPT ![d] = fs]
         IN  /\ Sound(book) /\ Replay(book) = ApplyFills(d, fs, s.state)
             /\ \A x \in Symbols : FillsBy(book, x, at + 1)
<1> DEFINE s == session[a]
           at == s.at + s.seq
           fill == NextOpenFill(d, q, day, at + 1)
           fs == SettledFills(d, q, day, at + 1)
           draft == DraftBook(s)
<1>1. /\ s.op = "settle" /\ d \in s.todo /\ d \in Decisions /\ day \in Days
      /\ orders[d] \in OrderRecord /\ q \in 0..orders[d].qty
      /\ Affordable(d, q, orders[d].qty, <<NextOpenFill(d, orders[d].qty, day, s.at)>>,
                    s.state.cash, s.state)
  BY DEF SettlesOrder
<1>2. /\ FreshSettle(s, clock, orders) /\ s.at = clock /\ clock \in Nat /\ s.seq \in Nat
      /\ Sound(draft) /\ s.state = Replay(draft)
      /\ \A x \in Symbols : FillsBy(draft, x, at)
  BY <1>1, SettlingFacts DEF SettleCurrent
<1>3. at \in Nat /\ at + 1 \in Nat /\ at <= at + 1 /\ at + 1 > at
  <2> HIDE DEF s
  <2> QED BY <1>2
<1>4. draft \in Book /\ Replay(draft) \in Account
  BY <1>2, ReplayType DEF Sound, InOrder
<1>5. draft[d] = <<>>
  <2>1. d \notin s.written /\ orders[d].status = "PENDING_NEXT_OPEN"
    BY <1>1, <1>2 DEF FreshSettle
  <2>2. fills[d] = <<>>
    BY <1>1, <2>1 DEF LedgerInv, QueueInv, IInv, RowsMatch, Matches, StatusAgrees
  <2> QED BY <1>1, <2>1, <2>2 DEF DraftBook, FillsReplaced
<1>6. q \in Nat /\ orders[d].qty \in Nat /\ SymbolOf[d] \in Symbols
  BY <1>1, DecisionsAssumption DEF OrderRecord
<1> HIDE DEF at, draft
<1>7. \A x \in Symbols : FillsBy(draft, x, at + 1)
  <2>1. \A e \in Entries(draft) : FillAt(draft, e).at \in Nat
    BY <1>4, EntriesType DEF FillRecord
  <2> QED BY <1>2, <1>3, <2>1 DEF FillsBy
<1>8. CASE q = 0
  <2>1. fs = <<>>
    BY <1>8 DEF SettledFills
  <2>2. [draft EXCEPT ![d] = <<>>] = draft
    BY <1>4, <1>5 DEF Book
  <2>3. ApplyFills(d, <<>>, Replay(draft)) = Replay(draft)
    <3>1. <<>> \in Seq(FillRecord) /\ Len(<<>>) = 0 /\ Len(<<>>) <= 2
      OBVIOUS
    <3> QED BY <1>1, <1>4, <3>1, ApplyFillsFacts
  <2> QED BY <1>2, <1>7, <2>1, <2>2, <2>3 DEF at, draft
<1>9. CASE q # 0
  <2>1. fill \in FillRecord /\ fill.qty = q /\ fill.at = at + 1
    BY <1>1, <1>3, <1>6, <1>9, PricesType, FillPriceType DEF NextOpenFill, FillRecord
  <2>2. fs = <<fill>>
    BY <1>9 DEF SettledFills
  <2> HIDE DEF fill
  <2>3. <<fill>> \in Seq(FillRecord) /\ Len(<<fill>>) = 1 /\ <<fill>>[1] = fill
        /\ Len(<<fill>>) <= 2
    BY <2>1
  <2>4. SideOf(d) = "SELL" => fill.qty <= Replay(draft).held[SymbolOf[d]]
    <3>1. Replay(draft).held[SymbolOf[d]] \in Nat
      BY <1>1, <1>4, DecisionsAssumption DEF Account
    <3> QED BY <1>1, <1>2, <1>6, <2>1, <3>1 DEF Affordable
  <2>5. /\ Sound([draft EXCEPT ![d] = <<fill>>])
        /\ Replay([draft EXCEPT ![d] = <<fill>>]) = ApplyFill(d, fill, Replay(draft))
        /\ \A x \in Symbols : FillsBy([draft EXCEPT ![d] = <<fill>>], x, at + 1)
    <3> DEFINE gs == <<fill>>
    <3>1. /\ gs \in Seq(FillRecord) /\ Len(gs) = 1 /\ Len(draft[d]) = 1 - 1
          /\ gs[1].at > at /\ gs[1] = fill /\ 1 \in {1, 2} /\ 1 # 2
      BY <1>3, <1>5, <2>1, <2>3
    <3>2. FillsBy(draft, SymbolOf[d], at)
      BY <1>2, <1>6
    <3> HIDE DEF gs
    <3>3. /\ Sound([draft EXCEPT ![d] = gs])
          /\ Replay([draft EXCEPT ![d] = gs]) = ApplyFill(d, gs[1], Replay(draft))
          /\ FillsBy([draft EXCEPT ![d] = gs], SymbolOf[d], gs[1].at)
          /\ \A x \in Symbols, u \in Nat :
               x # SymbolOf[d] /\ FillsBy(draft, x, u)
                 => FillsBy([draft EXCEPT ![d] = gs], x, u)
      BY <1>1, <1>2, <1>3, <2>4, <3>1, <3>2, AppendFill
    <3>4. \A x \in Symbols : FillsBy([draft EXCEPT ![d] = gs], x, at + 1)
      BY <1>3, <1>7, <2>1, <3>1, <3>3
    <3> QED BY <3>1, <3>3, <3>4 DEF gs
  <2>6. ApplyFills(d, <<fill>>, Replay(draft)) = ApplyFill(d, fill, Replay(draft))
    BY <1>1, <1>4, <2>3, ApplyFillsFacts
  <2> QED BY <1>2, <2>2, <2>5, <2>6 DEF at, draft
<1> QED BY <1>8, <1>9 DEF at, draft

LEMMA SettleOrderLedger ==
  ASSUME OneProcess, IsFiniteSet(Decisions), LedgerInv, QueueInv', NEW a \in Actors,
         NEW d, NEW q, NEW day, SettlesOrder(a, d, q, day)
  PROVE  LedgerInv'
<1> DEFINE s == session[a]
           fs == SettledFills(d, q, day, s.at + s.seq + 1)
           account == ApplyFills(d, fs, s.state)
           draft == [s.draft EXCEPT ![d] =
                       [order |-> SettledOrder(orders[d], q, day), fills |-> fs]]
           new == [op |-> "settle", run |-> s.run, at |-> s.at, seq |-> s.seq + 1,
                   todo |-> s.todo \ {d}, written |-> s.written \cup {d},
                   draft |-> draft, state |-> account]
           book == [DraftBook(s) EXCEPT ![d] = fs]
<1>1. /\ s.op = "settle" /\ d \in Decisions /\ session' = [session EXCEPT ![a] = new]
      /\ UNCHANGED <<fills, accounts, clock, route>>
  BY DEF SettlesOrder
<1>2. /\ Sound(book) /\ Replay(book) = account
      /\ \A x \in Symbols : FillsBy(book, x, s.at + s.seq + 1)
  BY SettledAppended
<1>3. /\ s \in SettleSession(s.state) /\ s.at \in Nat /\ s.seq \in Nat
      /\ SettleCurrent(s, route[a], clock)
  BY <1>1, SettlingFacts
<1>4. /\ new.op = "settle" /\ new.at = s.at /\ new.seq = s.seq + 1
      /\ new.written = s.written \cup {d} /\ new.draft = draft /\ new.state = account
  OBVIOUS
<1>5. /\ draft[d].fills = fs
      /\ \A e \in Decisions : e # d => draft[e] = s.draft[e]
  <2>1. s.draft \in [Decisions -> [order : OrderRecord, fills : Seq(FillRecord)]]
    <3> HIDE DEF s
    <3> QED BY <1>3 DEF SettleSession
  <2> HIDE DEF s, fs
  <2> QED BY <1>1, <2>1
<1> HIDE DEF new, draft, account
<1>6. DraftBook(new) = book
  <2> HIDE DEF s, fs
  <2> QED BY <1>1, <1>4, <1>5 DEF DraftBook, FillsReplaced
<1>7. new.at + new.seq = s.at + s.seq + 1
  <2> HIDE DEF s
  <2> QED BY <1>3, <1>4
<1>8. SettleCurrent(new, route[a], clock')
  <2> HIDE DEF s, book
  <2> QED BY <1>1, <1>2, <1>3, <1>4, <1>6, <1>7 DEF SettleCurrent
<1> HIDE DEF s
<1> QED BY <1>1, <1>4, <1>8, NothingStored, RouteKept

(* Every step keeps the invariant. *)
LEMMA NextLedgerInv ==
  ASSUME OneProcess, IsFiniteSet(Decisions), LedgerInv, [Next]_vars,
         [StampsHavePassed]_vars
  PROVE  LedgerInv'
<1>1. QueueInv'
  BY NextQueueInv DEF LedgerInv
<1>2. ASSUME UNCHANGED <<fills, accounts, clock, route, session>> PROVE LedgerInv'
  <2>1. StatesCurrent'
    <3>1. ASSUME NEW s PROVE DraftBook(s)' = DraftBook(s)
      BY <1>2 DEF DraftBook
    <3> QED BY <1>2, <3>1 DEF LedgerInv, StatesCurrent, PlaceCurrent, SettleCurrent
  <2>2. RoutesCurrent' /\ LatestAccountCurrent'
    BY <1>2 DEF LedgerInv, RoutesCurrent, RouteCurrent, LatestAccountCurrent
  <2> QED BY <1>1, <1>2, <2>1, <2>2 DEF LedgerInv
<1>3. CASE UNCHANGED vars
  BY <1>2, <1>3 DEF vars
<1>4. ASSUME NEW s \in Symbols, NEW day \in Days, ImportBar(s, day)
      PROVE  LedgerInv'
  BY <1>2, <1>4 DEF ImportBar
<1>5. ASSUME NEW a \in Actors, NEW run \in Runs, BeginRoute(a, run)
      PROVE  LedgerInv'
  BY <1>1, <1>5, BeginRouteLedger
<1>6. ASSUME NEW a \in Actors, NEW d \in Decisions, NEW policy \in Policies,
             NEW limit \in ThreadedCash \cup {NoLimit}, BeginPlace(a, d, policy, limit)
      PROVE  LedgerInv'
  BY <1>1, <1>6, BeginPlaceLedger
<1>7. ASSUME NEW a \in Actors, Place(a)
      PROVE  LedgerInv'
  BY <1>1, <1>7, PlaceUnfilledLedger, PlaceFilledLedger DEF Place
<1>8. ASSUME NEW a \in Actors, NEW run \in Runs, BeginSettle(a, run)
      PROVE  LedgerInv'
  BY <1>1, <1>8, BeginSettleLedger
<1>9. ASSUME NEW a \in Actors, Settle(a)
      PROVE  LedgerInv'
  <2>1. CASE SettleWaits(a)
    BY <1>1, <2>1, SettleWaitsLedger
  <2>2. CASE CommitSettle(a)
    BY <1>1, <2>2, CommitSettleLedger
  <2>3. CASE SettleOrder(a)
    <3>1. PICK d, q, day : SettlesOrder(a, d, q, day)
      BY <2>3, SettleOrderWitness DEF LedgerInv
    <3> QED BY <1>1, <3>1, SettleOrderLedger
  <2> QED BY <1>9, <2>1, <2>2, <2>3 DEF Settle
<1>10. ASSUME NEW a \in Actors, NEW d \in Decisions, BeginCancel(a, d)
       PROVE  LedgerInv'
  <2> DEFINE s == [op |-> "cancel", decision |-> d, order |-> orders[d]]
  <2>1. /\ session' = [session EXCEPT ![a] = s]
        /\ UNCHANGED <<fills, accounts, clock, route>>
    BY <1>10 DEF BeginCancel, StartSession
  <2>2. s.op = "cancel"
    OBVIOUS
  <2> HIDE DEF s
  <2> QED BY <1>1, <2>1, <2>2, NothingStored, RouteKept
<1>11. ASSUME NEW a \in Actors, CommitCancel(a) \/ Abort(a)
       PROVE  LedgerInv'
  <2>1. /\ session' = [session EXCEPT ![a] = Idle]
        /\ UNCHANGED <<fills, accounts, clock, route>>
    BY <1>11 DEF CommitCancel, Abort
  <2> QED BY <1>1, <2>1, NothingStored, RouteKept, IdleIsSession
<1> QED BY <1>3, <1>4, <1>5, <1>6, <1>7, <1>8, <1>9, <1>10, <1>11 DEF Next

(* The empty portfolio: no fills, and every account row at its start. *)
LEMMA InitLedgerInv ==
  ASSUME IsFiniteSet(Decisions), Runs # {}, Init
  PROVE  LedgerInv
<1>1. QueueInv
  BY InitQueueInv
<1>2. fills \in Book /\ Entries(fills) = {} /\ Replay(fills) = StartState
  <2>1. fills = [d \in Decisions |-> <<>>]
    BY DEF Init
  <2>2. fills \in Book
    BY <2>1 DEF Book
  <2>3. Entries(fills) = {}
    BY <2>1 DEF Entries
  <2>4. ReplayOf(fills, {}) = StartState
    BY <2>2, ReplayFacts
  <2> QED BY <2>2, <2>3, <2>4 DEF Replay
<1>3. Sound(fills)
  <2>1. InOrder(fills)
    BY <1>2 DEF InOrder, Ordered, Covered
  <2>2. Balanced(fills)
    <3> SUFFICES ASSUME NEW s \in Symbols
                 PROVE  Replay(fills).held[s] = SumOver(Filled(fills), Of("BUY", s))
                                                  - SumOver(Filled(fills), Of("SELL", s))
      BY DEF Balanced
    <3>1. \A d \in Decisions : Filled(fills)[d] = 0
      <4>1. \A d \in Decisions : fills[d] = <<>>
        BY DEF Init
      <4> QED BY <4>1 DEF Filled, FilledQty
    <3>2. ASSUME NEW side PROVE SumOver(Filled(fills), Of(side, s)) = 0
      <4>1. IsFiniteSet(Of(side, s)) /\ Of(side, s) \subseteq Decisions
        BY FS_Subset DEF Of
      <4> QED BY <3>1, <4>1, SumZero
    <3>3. Replay(fills).held[s] = 0
      BY <1>2 DEF StartState, NoHoldings
    <3> QED BY <3>2, <3>3
  <2> QED BY <2>1, <2>2 DEF Sound
<1>4. StatesCurrent /\ RoutesCurrent
  BY DEF Init, StatesCurrent, RoutesCurrent, Idle
<1>5. NoAccount \in AccountRow /\ NoAccount.at = 0
      /\ NoAccount.cash = StartState.cash /\ NoAccount.held = StartState.held
  BY BrokerAssumption DEF NoAccount, AccountRow, StartState, NoHoldings
<1>6. accounts = [r \in Runs |-> NoAccount]
  BY DEF Init
<1>7. accounts \in [Runs -> AccountRow]
  BY <1>5, <1>6
<1>8. LatestAccountCurrent
  BY <1>2, <1>5, <1>6 DEF LatestAccountCurrent
<1> QED BY <1>1, <1>3, <1>4, <1>7, <1>8 DEF LedgerInv

(* One process on a finite set of decisions, whatever it places, settles and
   cancels, and wherever it stops: as long as it reads the time of a route or a
   settlement only when the stamps of the stored rows have passed, the stored
   fills and the account rows add up.                                      *)
THEOREM LedgerStands ==
  ASSUME OneProcess, IsFiniteSet(Decisions), Runs # {}
  PROVE  Spec /\ [][StampsHavePassed]_vars => []LedgerInv
<1>1. LedgerInv /\ [Next]_vars /\ [StampsHavePassed]_vars => LedgerInv'
  BY NextLedgerInv
<1>2. Init => LedgerInv
  BY InitLedgerInv
<1> QED BY <1>1, <1>2, PTL DEF Spec

(* Under the same conditions no SELL is credited for shares that were not held
   when it was made.                                                       *)
THEOREM NothingOversold ==
  ASSUME OneProcess, IsFiniteSet(Decisions), Runs # {}
  PROVE  Spec /\ [][StampsHavePassed]_vars => []SellsCovered
<1>1. LedgerInv => SellsCovered
  <2> SUFFICES ASSUME Covered(fills) PROVE SellsCovered
    BY DEF LedgerInv, Sound, InOrder
  <2> QED BY Zenon DEF Covered, SellsCovered
<1> QED BY <1>1, LedgerStands, PTL

(* Under the same conditions the account row with the latest time is the
   account of all stored fills.                                            *)
THEOREM LatestIsCurrent ==
  ASSUME OneProcess, IsFiniteSet(Decisions), Runs # {}
  PROVE  Spec /\ [][StampsHavePassed]_vars => []LatestAccountCurrent
<1>1. LedgerInv => LatestAccountCurrent
  BY DEF LedgerInv
<1> QED BY <1>1, LedgerStands, PTL

-----------------------------------------------------------------------------
(* The abstract ledger.                                                    *)

LEMMA TradedIsSum ==
  ASSUME NEW S, NEW side, NEW s
  PROVE  Ledger!Traded(S, side, s) =
           SumOver([d \in Decisions |-> orders'[d].filled],
                 {d \in S : [c \in Decisions |-> SideOf(c)][d] = side /\ SymbolOf[d] = s})
BY DEF Ledger!Traded, SumOver, MapThenSumSet, MapThenFoldSet, Ledger!MapThenSumSet,
       Ledger!MapThenFoldSet

(* What the order rows say was filled is what the fill rows add up to. *)
LEMMA FilledRows ==
  ASSUME QueueInv, NEW d \in Decisions
  PROVE  /\ orders[d].filled = Filled(fills)[d] /\ orders[d].filled \in Nat
         /\ orders[d].status \in Statuses
         /\ orders[d].status \in {"NONE", "PENDING_NEXT_OPEN"} => orders[d].filled = 0
<1>1. /\ orders[d] \in OrderRecord /\ orders[d].filled = FilledQty(fills[d])
      /\ orders[d].status \in {"NONE", "PENDING_NEXT_OPEN"} => fills[d] = <<>>
  BY DEF QueueInv, IInv, TypeOK, RowsMatch, Matches, StatusAgrees
<1>2. orders[d].filled \in Nat /\ orders[d].status \in Statuses
  BY <1>1 DEF OrderRecord
<1>3. FilledQty(<<>>) = 0
  BY DEF FilledQty
<1> QED BY <1>1, <1>2, <1>3 DEF Filled

(* Finishing the decisions of S moves each holding by what they filled. *)
LEMMA HoldingsMove ==
  ASSUME IsFiniteSet(Decisions), LedgerInv, LedgerInv', NEW S \in SUBSET Decisions,
         \A d \in S : orders[d].filled = 0,
         \A d \in Decisions \ S : orders'[d].filled = orders[d].filled
  PROVE  /\ Replay(fills)'.held = [s \in Symbols |->
              Replay(fills).held[s] + Ledger!Traded(S, "BUY", s)
                                    - Ledger!Traded(S, "SELL", s)]
         /\ \A s \in Symbols : Replay(fills)'.held[s] >= 0
<1> DEFINE f == Filled(fills)
           g == Filled(fills')
<1>1. /\ Replay(fills).held \in [Symbols -> Nat] /\ Balanced(fills)
      /\ Replay(fills').held \in [Symbols -> Nat] /\ Balanced(fills')
  BY ReplayType DEF LedgerInv, Sound, InOrder
<1>2. ASSUME NEW d \in Decisions
      PROVE  /\ orders[d].filled = f[d] /\ f[d] \in Nat
             /\ orders'[d].filled = g[d] /\ g[d] \in Nat
  <2>1. orders[d].filled = f[d] /\ f[d] \in Nat
    BY FilledRows DEF LedgerInv
  <2>2. orders'[d] \in OrderRecord /\ orders'[d].filled = FilledQty(fills'[d])
    BY DEF LedgerInv, QueueInv, IInv, TypeOK, RowsMatch, Matches, StatusAgrees
  <2>3. orders'[d].filled \in Nat
    BY <2>2 DEF OrderRecord
  <2> QED BY <2>1, <2>2, <2>3 DEF Filled
<1>3. g = [d \in Decisions |-> orders'[d].filled]
  <2>1. g = [d \in Decisions |-> g[d]]
    BY DEF Filled
  <2> HIDE DEF g
  <2> QED BY <1>2, <2>1
<1> HIDE DEF f, g
<1>4. ASSUME NEW side, NEW s \in Symbols
      PROVE  /\ SumOver(g, Of(side, s)) = SumOver(f, Of(side, s)) + Ledger!Traded(S, side, s)
             /\ SumOver(f, Of(side, s)) \in Int /\ Ledger!Traded(S, side, s) \in Int
  <2> DEFINE A == Of(side, s)
             B == {d \in S : [c \in Decisions |-> SideOf(c)][d] = side /\ SymbolOf[d] = s}
  <2>1. IsFiniteSet(A) /\ A \subseteq Decisions /\ A \cap S = B
    BY FS_Subset DEF Of
  <2>2. Ledger!Traded(S, side, s) = SumOver(g, B)
    BY <1>3, TradedIsSum
  <2> HIDE DEF A, B
  <2>3. NewOn(S, f, g, A)
    BY <1>2, <2>1 DEF NewOn
  <2>4. SumOver(g, A) = SumOver(f, A) + SumOver(g, A \cap S)
    BY <2>1, <2>3, SumChange
  <2>5. SumOver(f, A) \in Int
    <3>1. \A d \in A : f[d] \in Int
      BY <1>2, <2>1
    <3> QED BY <2>1, <3>1, SumFacts
  <2>6. SumOver(g, B) \in Int
    <3>1. IsFiniteSet(B) /\ B \subseteq Decisions
      BY <2>1, FS_Subset
    <3>2. \A d \in B : g[d] \in Int
      BY <1>2, <3>1
    <3> QED BY <3>1, <3>2, SumFacts
  <2> QED BY <2>1, <2>2, <2>4, <2>5, <2>6 DEF A
<1>5. ASSUME NEW s \in Symbols
      PROVE  /\ Replay(fills').held[s] = Replay(fills).held[s]
                  + Ledger!Traded(S, "BUY", s) - Ledger!Traded(S, "SELL", s)
             /\ Replay(fills').held[s] >= 0
  <2>1. /\ Replay(fills).held[s] = SumOver(f, Of("BUY", s)) - SumOver(f, Of("SELL", s))
        /\ Replay(fills').held[s] = SumOver(g, Of("BUY", s)) - SumOver(g, Of("SELL", s))
        /\ Replay(fills').held[s] \in Nat
    BY <1>1 DEF Balanced, f, g
  <2> QED BY <1>4, <2>1
<1>6. Replay(fills)' = Replay(fills')
  BY DEF Replay
<1> QED BY <1>1, <1>5, <1>6

(* The statuses of a row, as the ledger knows them. *)
LEMMA PhaseFacts ==
  /\ PhaseOf("NONE") = "new" /\ PhaseOf("PENDING_NEXT_OPEN") = "queued"
  /\ PhaseOf("FILLED") = "executed" /\ PhaseOf("PARTIALLY_FILLED") = "executed"
  /\ PhaseOf("REJECTED") = "refused" /\ PhaseOf("CANCELLED") = "cancelled"
BY DEF PhaseOf

(* The rows of S, and only those, are executed or refused. *)
Finished(S) ==
  /\ \A d \in S :
       /\ orders[d].filled = 0
       /\ \/ /\ orders'[d].status \in {"FILLED", "PARTIALLY_FILLED"}
             /\ orders'[d].filled \in 1..orders'[d].qty
          \/ orders'[d].status = "REJECTED" /\ orders'[d].filled = 0
  /\ \A d \in Decisions \ S : orders'[d] = orders[d]

(* Decisions finished together, seen from the ledger. *)
LEMMA FinishStep ==
  ASSUME IsFiniteSet(Decisions), LedgerInv, LedgerInv', NEW S \in SUBSET Decisions, Finished(S)
  PROVE  Ledger!Finish(S)
<1>1. /\ Replay(fills)'.held = [s \in Symbols |->
              Replay(fills).held[s] + Ledger!Traded(S, "BUY", s)
                                    - Ledger!Traded(S, "SELL", s)]
      /\ \A s \in Symbols : Replay(fills)'.held[s] >= 0
  BY HoldingsMove DEF Finished
<1>2. ASSUME NEW d \in S
      PROVE  \/ PhaseOf(orders'[d].status) = "executed" /\ orders'[d].filled \in 1..orders'[d].qty
             \/ PhaseOf(orders'[d].status) = "refused" /\ orders'[d].filled = 0
  <2>1. CASE orders'[d].status = "REJECTED"
    BY <2>1, PhaseFacts DEF Finished
  <2>2. CASE orders'[d].status # "REJECTED"
    BY <2>2, PhaseFacts DEF Finished
  <2> QED BY <2>1, <2>2
<1>3. ASSUME NEW d \in Decisions \ S
      PROVE  /\ PhaseOf(orders'[d].status) = PhaseOf(orders[d].status)
             /\ orders'[d].qty = orders[d].qty /\ orders'[d].filled = orders[d].filled
  BY <1>3 DEF Finished
<1> QED BY <1>1, <1>2, <1>3 DEF Ledger!Finish

(* A placement puts its decision in the queue, or finishes it. *)
LEMMA PlaceLedgerStep ==
  ASSUME OneProcess, IsFiniteSet(Decisions), LedgerInv, LedgerInv', NEW a \in Actors, Place(a)
  PROVE  \E d \in Decisions : Ledger!PlaceNow(d) \/ Ledger!Queue(d)
<1> DEFINE s == session[a]
<1>1. s.op = "place"
  BY DEF Place, PlaceRejected, PlaceQueued, PlaceFilled
<1>0. PICK d \in Decisions : s.decision = d
  BY <1>1, PlacingFacts
<1>2. /\ s.decision = d /\ orders[d].status = "NONE" /\ orders \in [Decisions -> OrderRecord]
      /\ orders[d].filled = 0 /\ fills \in Book /\ fills[d] = <<>>
  BY <1>0, <1>1, PlacingFacts, FilledRows
     DEF LedgerInv, QueueInv, SessionsFresh, FreshPlace, IInv, TypeOK
<1>3. ASSUME NEW order, orders' = [orders EXCEPT ![d] = order],
             \/ /\ order.status \in {"FILLED", "PARTIALLY_FILLED"}
                /\ order.filled \in 1..order.qty
             \/ order.status = "REJECTED" /\ order.filled = 0
      PROVE  Ledger!PlaceNow(d)
  <2>1. orders'[d] = order /\ \A c \in Decisions \ {d} : orders'[c] = orders[c]
    BY <1>2, <1>3
  <2>2. Ledger!Finish({d})
    <3> DEFINE S == {d}
    <3>1. S \in SUBSET Decisions /\ Finished(S)
      BY <1>2, <1>3, <2>1 DEF Finished
    <3> HIDE DEF S
    <3>2. Ledger!Finish(S)
      BY <3>1, FinishStep
    <3> QED BY <3>2 DEF S
  <2>3. PhaseOf(orders[d].status) = "new"
    BY <1>2, PhaseFacts
  <2> QED BY <1>2, <2>2, <2>3 DEF Ledger!PlaceNow
<1>4. CASE PlaceRejected(a)
  <2>1. PICK qty, signal :
          StorePlacement(a, Order("REJECTED", s.policy, qty, 0, signal, NoDay, s.at),
                         <<>>, s.state)
    BY <1>2, <1>4 DEF PlaceRejected
  <2> DEFINE order == Order("REJECTED", s.policy, qty, 0, signal, NoDay, s.at)
  <2>2. orders' = [orders EXCEPT ![d] = order] /\ order.status = "REJECTED" /\ order.filled = 0
    BY <1>2, <2>1 DEF StorePlacement, Order
  <2> HIDE DEF order
  <2>3. Ledger!PlaceNow(d)
    BY <1>3, <2>2
  <2> QED BY <1>2, <2>3
<1>5. CASE PlaceFilled(a)
  <2>1. PICK n \in PositiveQuantities(d, s.state) : \E q \in 1..n :
          \E fs, st : StorePlacement(a, Order(IF q = n THEN "FILLED" ELSE "PARTIALLY_FILLED",
                                              "immediate", n, q, NoDay, NoDay, s.at), fs, st)
    BY <1>2, <1>5 DEF PlaceFilled
  <2>2. PICK q \in 1..n :
          \E fs, st : StorePlacement(a, Order(IF q = n THEN "FILLED" ELSE "PARTIALLY_FILLED",
                                              "immediate", n, q, NoDay, NoDay, s.at), fs, st)
    BY <2>1
  <2> DEFINE order == Order(IF q = n THEN "FILLED" ELSE "PARTIALLY_FILLED",
                            "immediate", n, q, NoDay, NoDay, s.at)
  <2>3. /\ orders' = [orders EXCEPT ![d] = order] /\ order.filled \in 1..order.qty
        /\ order.status \in {"FILLED", "PARTIALLY_FILLED"}
    BY <1>2, <2>2 DEF StorePlacement, Order
  <2> HIDE DEF order
  <2>4. Ledger!PlaceNow(d)
    BY <1>3, <2>3
  <2> QED BY <1>2, <2>4
<1>6. CASE PlaceQueued(a)
  <2>1. PICK n \in PositiveQuantities(d, s.state) : \E q \in 1..n :
          \E st : StorePlacement(a, Order("PENDING_NEXT_OPEN", "next_open", q, 0, s.day,
                                          NoDay, s.at), <<>>, st)
    BY <1>2, <1>6 DEF PlaceQueued
  <2>2. PICK q \in 1..n :
          \E st : StorePlacement(a, Order("PENDING_NEXT_OPEN", "next_open", q, 0, s.day,
                                          NoDay, s.at), <<>>, st)
    BY <2>1
  <2> DEFINE order == Order("PENDING_NEXT_OPEN", "next_open", q, 0, s.day, NoDay, s.at)
  <2>3. /\ orders' = [orders EXCEPT ![d] = order] /\ fills' = [fills EXCEPT ![d] = <<>>]
        /\ order.status = "PENDING_NEXT_OPEN" /\ order.filled = 0 /\ order.qty = q /\ q > 0
    BY <1>2, <2>2 DEF StorePlacement, Order
  <2> HIDE DEF order
  <2>4. fills' = fills
    BY <1>2, <2>3 DEF Book
  <2>5. orders' \in [Decisions -> OrderRecord] /\ orders'[d] = order
        /\ \A c \in Decisions : c # d => orders'[c] = orders[c]
    BY <1>2, <2>3 DEF LedgerInv, QueueInv, IInv, TypeOK
  <2>6. [c \in Decisions |-> PhaseOf(orders'[c].status)]
          = [[c \in Decisions |-> PhaseOf(orders[c].status)] EXCEPT ![d] = "queued"]
    BY <1>2, <2>3, <2>5, PhaseFacts
  <2>7. [c \in Decisions |-> orders'[c].qty]
          = [[c \in Decisions |-> orders[c].qty] EXCEPT ![d] = q]
    BY <1>2, <2>3, <2>5
  <2>8. [c \in Decisions |-> orders'[c].filled] = [c \in Decisions |-> orders[c].filled]
    BY <1>2, <2>3, <2>5
  <2>9. [c \in Decisions |-> PhaseOf(orders[c].status)][d] = "new"
    BY <1>2, PhaseFacts
  <2>10. [c \in Decisions |-> orders'[c].qty][d] = q
    BY <1>2, <2>3, <2>5
  <2> QED BY <1>2, <2>3, <2>4, <2>6, <2>7, <2>8, <2>9, <2>10 DEF Ledger!Queue, Replay
<1> QED BY <1>2, <1>3, <1>4, <1>5, <1>6 DEF Place

(* A settlement finishes what it has written; if nothing, it changes nothing. *)
LEMMA SettleLedgerStep ==
  ASSUME OneProcess, IsFiniteSet(Decisions), LedgerInv, LedgerInv', NEW a \in Actors,
         CommitSettle(a)
  PROVE  \/ UNCHANGED <<orders, fills>>
         \/ \E batch \in SUBSET Decisions : Ledger!SettleBatch(batch)
<1> DEFINE s == session[a]
<1>1. s.op = "settle"
  BY DEF CommitSettle
<1>0. PICK S \in SUBSET Decisions : s.written = S
  BY <1>1, SettlingFacts
<1>2. /\ FreshSettle(s, clock, orders)
      /\ fills \in Book /\ orders \in [Decisions -> OrderRecord]
  BY <1>1, SettlingFacts DEF LedgerInv, Sound, InOrder, QueueInv, IInv, TypeOK
<1>3. /\ orders' = [d \in Decisions |->
                      IF d \in S THEN s.draft[d].order ELSE orders[d]]
      /\ fills' = [d \in Decisions |-> FillsReplaced(s, d, fills[d])]
  BY <1>0 DEF CommitSettle
<1>4. CASE S = {}
  <2>1. orders' = orders
    BY <1>2, <1>3, <1>4
  <2>2. fills' = fills
    BY <1>0, <1>2, <1>3, <1>4 DEF FillsReplaced, Book
  <2> QED BY <2>1, <2>2
<1>5. CASE S # {}
  <2>1. ASSUME NEW d \in S
        PROVE  /\ orders[d].status = "PENDING_NEXT_OPEN" /\ orders[d].filled = 0
               /\ orders'[d].qty = orders[d].qty
               /\ \/ /\ orders'[d].status \in {"FILLED", "PARTIALLY_FILLED"}
                     /\ orders'[d].filled \in 1..orders'[d].qty
                  \/ orders'[d].status = "REJECTED" /\ orders'[d].filled = 0
    <3>1. orders[d].status = "PENDING_NEXT_OPEN" /\ d \in Decisions
      BY <1>0, <1>2 DEF FreshSettle
    <3>2. orders[d].filled = 0
      BY <3>1, FilledRows DEF LedgerInv
    <3>3. PICK q \in 0..orders[d].qty : \E day \in Days :
            s.draft[d].order = SettledOrder(orders[d], q, day)
      BY <1>0, <1>2 DEF FreshSettle
    <3>4. PICK day \in Days : s.draft[d].order = SettledOrder(orders[d], q, day)
      BY <3>3
    <3>5. orders'[d] = SettledOrder(orders[d], q, day)
      <4> HIDE DEF s
      <4> QED BY <1>3, <3>1, <3>4
    <3>6. /\ SettledOrder(orders[d], q, day).qty = orders[d].qty
          /\ SettledOrder(orders[d], q, day).filled = q
          /\ SettledOrder(orders[d], q, day).status =
               (IF q = 0 THEN "REJECTED"
                ELSE IF q = orders[d].qty THEN "FILLED" ELSE "PARTIALLY_FILLED")
      BY DEF SettledOrder, Order
    <3>7. orders[d].qty \in Nat
      BY <1>2, <3>1 DEF OrderRecord
    <3>8. CASE q = 0
      BY <3>1, <3>2, <3>5, <3>6, <3>8
    <3>9. CASE q # 0
      <4>1. q \in 1..orders[d].qty
        BY <3>7, <3>9
      <4> QED BY <3>1, <3>2, <3>5, <3>6, <3>9, <4>1
    <3> QED BY <3>8, <3>9
  <2>2. \A d \in Decisions \ S : orders'[d] = orders[d]
    BY <1>3
  <2> HIDE DEF s
  <2>3. Ledger!Finish(S)
    BY <2>1, <2>2, FinishStep DEF Finished
  <2>4. \A d \in S : /\ [c \in Decisions |-> PhaseOf(orders[c].status)][d] = "queued"
                     /\ [c \in Decisions |-> orders'[c].qty][d]
                          = [c \in Decisions |-> orders[c].qty][d]
    BY <1>2, <2>1, PhaseFacts
  <2>5. Ledger!SettleBatch(S)
    BY <1>5, <2>3, <2>4 DEF Ledger!SettleBatch
  <2> QED BY <2>5
<1> QED BY <1>4, <1>5

(* A cancellation ends what is queued, or what is left of a partial fill. *)
LEMMA CancelLedgerStep ==
  ASSUME OneProcess, IsFiniteSet(Decisions), LedgerInv, NEW a \in Actors, CommitCancel(a)
  PROVE  \E d \in Decisions : Ledger!Cancel(d)
<1>1. session[a].op = "cancel"
  BY DEF CommitCancel
<1>0. PICK d \in Decisions : session[a].decision = d
  <2>1. IsSession(session[a])
    BY DEF LedgerInv, QueueInv, IInv, TypeOK
  <2>2. session[a] \in CancelSession
    BY <1>1, <2>1 DEF IsSession, Idle, PlaceSession, SettleSession
  <2> QED BY <2>2 DEF CancelSession
<1>2. /\ session[a].order = orders[d] /\ Cancellable(orders[d].status)
      /\ orders \in [Decisions -> OrderRecord] /\ orders[d].status # "NONE"
  BY <1>0, <1>1 DEF LedgerInv, QueueInv, IInv, CancelsAlone, TypeOK, Cancellable
<1>3. d \in Decisions
  OBVIOUS
<1>4. /\ orders' = [orders EXCEPT ![d] = [orders[d] EXCEPT !.status = "CANCELLED"]]
      /\ fills' = fills
  BY <1>0, <1>2 DEF CommitCancel
<1>5. orders[d].status \in {"PENDING_NEXT_OPEN", "PARTIALLY_FILLED"}
  BY <1>2, <1>3 DEF Cancellable, OrderRecord, Statuses, TerminalStatuses
<1>6. orders[d].status = "PARTIALLY_FILLED" => orders[d].filled < orders[d].qty
  BY <1>3 DEF LedgerInv, QueueInv, IInv, RowsMatch, Matches, StatusAgrees
<1>7. /\ orders'[d].status = "CANCELLED" /\ orders'[d].qty = orders[d].qty
      /\ orders'[d].filled = orders[d].filled
      /\ \A c \in Decisions : c # d => orders'[c] = orders[c]
  <2>1. orders[d] \in OrderRecord
    BY <1>2, <1>3
  <2>2. orders'[d] = [orders[d] EXCEPT !.status = "CANCELLED"]
    BY <1>2, <1>3, <1>4
  <2>3. \A c \in Decisions : c # d => orders'[c] = orders[c]
    BY <1>2, <1>3, <1>4
  <2> QED BY <2>1, <2>2, <2>3 DEF OrderRecord
<1>8. [c \in Decisions |-> PhaseOf(orders'[c].status)]
        = [[c \in Decisions |-> PhaseOf(orders[c].status)] EXCEPT ![d] = "cancelled"]
  BY <1>3, <1>7, PhaseFacts
<1>9. /\ [c \in Decisions |-> orders'[c].qty] = [c \in Decisions |-> orders[c].qty]
      /\ [c \in Decisions |-> orders'[c].filled] = [c \in Decisions |-> orders[c].filled]
  BY <1>7
<1>10. \/ [c \in Decisions |-> PhaseOf(orders[c].status)][d] = "queued"
       \/ /\ [c \in Decisions |-> PhaseOf(orders[c].status)][d] = "executed"
          /\ [c \in Decisions |-> orders[c].filled][d] < [c \in Decisions |-> orders[c].qty][d]
  BY <1>3, <1>5, <1>6, PhaseFacts
<1> QED BY <1>3, <1>4, <1>8, <1>9, <1>10 DEF Ledger!Cancel, Replay

(* Every step of the broker is a step of the ledger, or none. *)
LEMMA NextLedgerStep ==
  ASSUME OneProcess, IsFiniteSet(Decisions), LedgerInv, LedgerInv', [Next]_vars
  PROVE  [Ledger!Next]_(Ledger!vars)
<1>1. ASSUME UNCHANGED <<orders, fills>> PROVE UNCHANGED Ledger!vars
  BY <1>1 DEF Ledger!vars, Replay
<1>2. CASE UNCHANGED vars
  BY <1>1, <1>2 DEF vars
<1>3. ASSUME NEW s \in Symbols, NEW day \in Days, ImportBar(s, day)
      PROVE  UNCHANGED Ledger!vars
  BY <1>1, <1>3 DEF ImportBar
<1>4. ASSUME NEW a \in Actors, NEW d \in Decisions, NEW policy \in Policies,
             NEW limit \in ThreadedCash \cup {NoLimit}, BeginPlace(a, d, policy, limit)
      PROVE  UNCHANGED Ledger!vars
  BY <1>1, <1>4 DEF BeginPlace
<1>5. ASSUME NEW a \in Actors, Place(a) PROVE Ledger!Next
  BY <1>5, PlaceLedgerStep DEF Ledger!Next
<1>6. ASSUME NEW a \in Actors, NEW run \in Runs, BeginSettle(a, run)
      PROVE  UNCHANGED Ledger!vars
  BY <1>1, <1>6 DEF BeginSettle
<1>7. ASSUME NEW a \in Actors, Settle(a) PROVE [Ledger!Next]_(Ledger!vars)
  <2>1. CASE CommitSettle(a)
    BY <1>1, <2>1, SettleLedgerStep DEF Ledger!Next
  <2>2. CASE SettleWaits(a) \/ SettleOrder(a)
    BY <1>1, <2>2 DEF SettleWaits, SettleOrder
  <2> QED BY <1>7, <2>1, <2>2 DEF Settle
<1>8. ASSUME NEW a \in Actors, NEW d \in Decisions, BeginCancel(a, d)
      PROVE  UNCHANGED Ledger!vars
  BY <1>1, <1>8 DEF BeginCancel
<1>9. ASSUME NEW a \in Actors, CommitCancel(a) PROVE Ledger!Next
  BY <1>9, CancelLedgerStep DEF Ledger!Next
<1>10. ASSUME NEW a \in Actors, Abort(a) PROVE UNCHANGED Ledger!vars
  BY <1>1, <1>10 DEF Abort
<1>11. ASSUME NEW a \in Actors, NEW run \in Runs, BeginRoute(a, run)
       PROVE  UNCHANGED Ledger!vars
  BY <1>1, <1>11 DEF BeginRoute
<1> QED BY <1>2, <1>3, <1>4, <1>5, <1>6, <1>7, <1>8, <1>9, <1>10, <1>11 DEF Next

(* Under the same conditions, one process and stamps that have passed when a
   route or a settlement reads its time, the broker implements the abstract
   ledger.                                                                 *)
THEOREM BrokerKeepsLedger ==
  ASSUME OneProcess, IsFiniteSet(Decisions), Runs # {}
  PROVE  Spec /\ [][StampsHavePassed]_vars => ImplementsLedger
<1>1. Init => Ledger!Init
  <2> SUFFICES ASSUME Init PROVE Ledger!Init
    OBVIOUS
  <2>1. orders = [d \in Decisions |-> NoOrder]
    BY DEF Init
  <2>2. NoOrder.status = "NONE" /\ NoOrder.qty = 0 /\ NoOrder.filled = 0
    BY DEF NoOrder
  <2>3. Replay(fills) = StartState
    <3>1. fills = [d \in Decisions |-> <<>>]
      BY DEF Init
    <3>2. fills \in Book
      BY <3>1 DEF Book
    <3>3. Entries(fills) = {}
      BY <3>1 DEF Entries
    <3>4. ReplayOf(fills, {}) = StartState
      BY <3>2, ReplayFacts
    <3> QED BY <3>3, <3>4 DEF Replay
  <2>4. Replay(fills).held = [s \in Symbols |-> 0]
    BY <2>3 DEF StartState, NoHoldings
  <2> QED BY <2>1, <2>2, <2>4, PhaseFacts DEF Ledger!Init
<1>2. LedgerInv /\ LedgerInv' /\ [Next]_vars => [Ledger!Next]_(Ledger!vars)
  BY NextLedgerStep
<1> QED BY <1>1, <1>2, LedgerStands, PTL DEF Spec, ImplementsLedger, Ledger!Spec

-----------------------------------------------------------------------------
(* The cash of a portfolio whose orders were all queued.                   *)

(* Rounding is off by at most one half. *)
LEMMA RoundHalfUpBounds ==
  ASSUME NEW num \in Nat, NEW den \in Nat \ {0}
  PROVE  LET r == RoundHalfUp(num, den) IN
         /\ r \in Nat
         /\ 2 * (den * r) <= 2 * num + den
         /\ 2 * num < 2 * (den * r) + den
<1> DEFINE m == 2 * num + den
           n == 2 * den
           r == m \div n
<1>1. m \in Nat /\ n \in Nat \ {0}
  OBVIOUS
<1>2. r \in Nat /\ n * r <= m /\ m < n * r + n
  <2> HIDE DEF m, n
  <2>1. m \div n \in Int /\ m % n \in 0..(n - 1) /\ m = n * (m \div n) + (m % n)
    BY <1>1
  <2>2. n * r <= m /\ m < n * r + n
    <3> DEFINE x == n * (m \div n)
    <3>1. x \in Int /\ m % n \in 0..(n - 1) /\ m = x + (m % n)
      BY <1>1, <2>1
    <3> HIDE DEF x
    <3>2. x <= m /\ m < x + n
      BY <1>1, <3>1
    <3> QED BY <3>2 DEF x
  <2>3. r \in Nat
    BY <1>1, RoundHalfUpType DEF m, n, RoundHalfUp
  <2> QED BY <2>2, <2>3
<1>3. n * r = 2 * (den * r)
  <2> HIDE DEF r
  <2> QED BY <1>2
<1>4. RoundHalfUp(num, den) = r
  BY DEF RoundHalfUp
<1> HIDE DEF r
<1>5. den * r \in Nat
  BY <1>2
<1> DEFINE y == den * r
<1> HIDE DEF y
<1>6. 2 * y <= 2 * num + den /\ 2 * num < 2 * y + den
  BY <1>2, <1>3, <1>5 DEF y
<1> QED BY <1>2, <1>4, <1>6 DEF y

LEMMA MulMonotone ==
  ASSUME NEW a \in Int, NEW b \in Int, NEW c \in Nat, a <= b
  PROVE  a * c <= b * c
OBVIOUS

LEMMA MulCancels ==
  ASSUME NEW a \in Int, NEW b \in Int, NEW c \in Nat \ {0}, a * c < b * c
  PROVE  a < b
<1> SUFFICES ASSUME a >= b PROVE FALSE
  OBVIOUS
<1>1. b * c <= a * c
  BY MulMonotone
<1> QED BY <1>1

(* Scaling a whole number of shares is exact. *)
LEMMA ScaledGross ==
  ASSUME NEW p \in Nat, NEW q \in Nat, NEW n \in Nat \ {0}
  PROVE  RoundHalfUp((p * n) * q, n) = p * q
<1> DEFINE x == p * q
           r == RoundHalfUp(x * n, n)
<1>1. (p * n) * q = x * n /\ x \in Nat /\ x * n \in Nat
  OBVIOUS
<1> HIDE DEF x
<1>2. r \in Nat /\ 2 * (n * r) <= 2 * (x * n) + n /\ 2 * (x * n) < 2 * (n * r) + n
  BY <1>1, RoundHalfUpBounds
<1> HIDE DEF r
<1>3. (2 * r) * n < (2 * x + 2) * n /\ (2 * x) * n < (2 * r + 2) * n
  BY <1>1, <1>2
<1>4. 2 * r < 2 * x + 2 /\ 2 * x < 2 * r + 2
  <2>1. 2 * r \in Int /\ 2 * x \in Int /\ 2 * r + 2 \in Int /\ 2 * x + 2 \in Int
    BY <1>1, <1>2
  <2> QED BY <1>3, <2>1, MulCancels
<1>5. r = x
  BY <1>1, <1>2, <1>4
<1> QED BY <1>1, <1>5 DEF r, x

(* The costs of q of n shares are at most the scaled costs of all of them and
   what rounding three amounts, and then their sum, can hide.              *)
LEMMA ScaledCosts ==
  ASSUME NEW p \in Nat, NEW n \in Nat \ {0}, NEW q \in 1..n
  PROVE  CostOf(p * q) <= RoundHalfUp(CostOf(p * n) * q, n) + RoundingSlack
<1> DEFINE D == RateDenominator
           g == p * q
           h == p * n
           c1 == RoundHalfUp(g * BrokerageBps, D)
           c2 == RoundHalfUp(g * ExchangeTxnBps, D)
           c3 == RoundHalfUp(g * TaxLevyBps, D)
           e1 == RoundHalfUp(h * BrokerageBps, D)
           e2 == RoundHalfUp(h * ExchangeTxnBps, D)
           e3 == RoundHalfUp(h * TaxLevyBps, D)
           E == CostOf(h)
           C == CostOf(g)
           r == RoundHalfUp(E * q, n)
           B == BrokerageBps + ExchangeTxnBps + TaxLevyBps
<1>1. /\ D \in Nat \ {0} /\ BrokerageBps \in Nat /\ ExchangeTxnBps \in Nat
      /\ TaxLevyBps \in Nat /\ g \in Nat /\ h \in Nat /\ q \in Nat \ {0} /\ q <= n
      /\ B \in Nat
  BY RatesAssumption
<1>2. E = e1 + e2 + e3 /\ C = c1 + c2 + c3
  BY DEF CostOf
<1>3. h * q = g * n
  OBVIOUS
<1> HIDE DEF D, g, h
<1>18. ASSUME NEW k \in Nat, NEW rate \in Nat
       PROVE  /\ RoundHalfUp(k * rate, D) \in Nat
              /\ 2 * (D * RoundHalfUp(k * rate, D)) <= 2 * (k * rate) + D
              /\ 2 * (k * rate) < 2 * (D * RoundHalfUp(k * rate, D)) + D
  <2> DEFINE x == k * rate
  <2>1. x \in Nat
    OBVIOUS
  <2> HIDE DEF x
  <2>2. /\ RoundHalfUp(x, D) \in Nat
        /\ 2 * (D * RoundHalfUp(x, D)) <= 2 * x + D
        /\ 2 * x < 2 * (D * RoundHalfUp(x, D)) + D
    BY <1>1, <2>1, RoundHalfUpBounds
  <2> QED BY <2>2 DEF x
<1>4. /\ c1 \in Nat /\ 2 * (D * c1) <= 2 * (g * BrokerageBps) + D
      /\ c2 \in Nat /\ 2 * (D * c2) <= 2 * (g * ExchangeTxnBps) + D
      /\ c3 \in Nat /\ 2 * (D * c3) <= 2 * (g * TaxLevyBps) + D
  BY <1>1, <1>18
<1>5. /\ e1 \in Nat /\ 2 * (h * BrokerageBps) < 2 * (D * e1) + D
      /\ e2 \in Nat /\ 2 * (h * ExchangeTxnBps) < 2 * (D * e2) + D
      /\ e3 \in Nat /\ 2 * (h * TaxLevyBps) < 2 * (D * e3) + D
  BY <1>1, <1>18
<1> HIDE DEF c1, c2, c3, e1, e2, e3, E, C
<1>6. C \in Nat /\ 2 * (D * C) <= 2 * (g * B) + 3 * D
  BY <1>1, <1>2, <1>4
<1>7. E \in Nat /\ 2 * (h * B) <= 2 * (D * E) + 3 * D
  BY <1>1, <1>2, <1>5
<1>8. r \in Nat /\ 2 * (E * q) < 2 * (n * r) + n
  <2>1. E * q \in Nat
    BY <1>1, <1>7
  <2> QED BY <1>1, <2>1, RoundHalfUpBounds
<1> HIDE DEF r, B
<1>9. (2 * (D * C)) * n <= (2 * (g * B) + 3 * D) * n
  BY <1>1, <1>6, MulMonotone
<1>10. (2 * (h * B)) * q <= (2 * (D * E) + 3 * D) * q
  BY <1>1, <1>7, MulMonotone
<1>11. (2 * (E * q) + 1) * D <= (2 * (n * r) + n) * D
  BY <1>1, <1>7, <1>8, MulMonotone
<1>12. (3 * D) * q <= (3 * D) * n
  BY <1>1
<1>13. (2 * (g * B)) * n = (2 * (h * B)) * q
  <2>1. (2 * (g * B)) * n = 2 * ((g * n) * B)
    BY <1>1
  <2>2. (2 * (h * B)) * q = 2 * ((h * q) * B)
    BY <1>1
  <2> QED BY <1>3, <2>1, <2>2
<1> DEFINE u == D * n
<1>14. (2 * C) * u < (2 * r + 7) * u
  <2> DEFINE w1 == (2 * (g * B)) * n
             w2 == (3 * D) * n
             w3 == (2 * (D * E)) * q
             w4 == (3 * D) * q
             w5 == (2 * r) * u
  <2>1. /\ w1 \in Int /\ w2 \in Int /\ w3 \in Int /\ w4 \in Int /\ w5 \in Int /\ u \in Int
        /\ D > 0 /\ D \in Int
    BY <1>1, <1>6, <1>7, <1>8
  <2>2. (2 * C) * u <= w1 + w2
    BY <1>1, <1>6, <1>9
  <2>3. w1 <= w3 + w4
    BY <1>1, <1>7, <1>10, <1>13
  <2>4. w3 + D <= w5 + u
    BY <1>1, <1>7, <1>8, <1>11
  <2>5. w4 <= w2 /\ w2 = 3 * u
    BY <1>1, <1>12
  <2>6. (2 * r + 7) * u = w5 + 7 * u /\ (2 * C) * u \in Int
    BY <1>1, <1>6, <1>8
  <2> HIDE DEF w1, w2, w3, w4, w5, u
  <2> QED BY <2>1, <2>2, <2>3, <2>4, <2>5, <2>6
<1>15. u \in Nat \ {0}
  BY <1>1
<1>16. 2 * C < 2 * r + 7
  <2> HIDE DEF u
  <2>1. 2 * C \in Int /\ 2 * r + 7 \in Int
    BY <1>6, <1>8
  <2> QED BY <1>14, <1>15, <2>1, MulCancels
<1>17. C <= r + 3
  BY <1>6, <1>8, <1>16
<1> QED BY <1>17 DEF C, E, r, g, h, RoundingSlack

(* What the search calls affordable costs no more than the cash and slack. *)
LEMMA AffordableDebit ==
  ASSUME NEW n \in Nat \ {0}, NEW q \in 1..n, NEW cash \in Int,
         NEW whole \in FillRecord, NEW part \in FillRecord,
         whole.qty = n, part.qty = q, part.price = whole.price,
         IsAffordable(q, n, <<whole>>, cash)
  PROVE  Debit(part) <= cash + RoundingSlack
<1> DEFINE p == whole.price
           costs == RoundHalfUp(CostOf(p * n) * q, n)
<1>1. p \in Nat /\ q \in Nat /\ q > 0
  BY DEF FillRecord
<1>2. ScaledDebit(<<whole>>, q, n) <= cash
  BY <1>1 DEF IsAffordable
<1>3. ScaledDebit(<<whole>>, q, n) = RoundHalfUp((p * n) * q, n) + costs + 0
  BY DEF ScaledDebit, ScaledFillDebit, Gross
<1>4. RoundHalfUp((p * n) * q, n) = p * q
  BY <1>1, ScaledGross
<1>5. CostOf(p * q) <= costs + RoundingSlack
  BY <1>1, ScaledCosts
<1>6. Debit(part) = p * q + CostOf(p * q)
  BY DEF Debit, Gross
<1>7. costs \in Nat /\ p * q \in Nat /\ CostOf(p * q) \in Nat
  <2>1. p * n \in Nat /\ p * q \in Nat
    BY <1>1
  <2>2. CostOf(p * n) \in Nat /\ CostOf(p * q) \in Nat
    BY <2>1, CostOfType
  <2>3. CostOf(p * n) * q \in Nat
    BY <1>1, <2>2
  <2> QED BY <2>1, <2>2, <2>3, RoundHalfUpType
<1> HIDE DEF costs, p
<1> QED BY <1>2, <1>3, <1>4, <1>5, <1>6, <1>7 DEF RoundingSlack

(* The three rates together take less than a quarter of what is sold. *)
ModestCosts == 4 * (BrokerageBps + ExchangeTxnBps + TaxLevyBps) <= RateDenominator

LEMMA ProceedsNotNegative ==
  ASSUME ModestCosts, NEW fill \in FillRecord
  PROVE  Proceeds(fill) >= 0
<1> DEFINE D == RateDenominator
           g == Gross(fill)
           c1 == RoundHalfUp(g * BrokerageBps, D)
           c2 == RoundHalfUp(g * ExchangeTxnBps, D)
           c3 == RoundHalfUp(g * TaxLevyBps, D)
           B == BrokerageBps + ExchangeTxnBps + TaxLevyBps
<1>1. /\ D \in Nat \ {0} /\ BrokerageBps \in Nat /\ ExchangeTxnBps \in Nat
      /\ TaxLevyBps \in Nat /\ g \in Nat /\ B \in Nat
  BY RatesAssumption, FillMoneyType
<1>2. CostOf(g) = c1 + c2 + c3 /\ 4 * B <= D
  BY DEF CostOf, ModestCosts
<1> HIDE DEF g
<1>3. /\ g * BrokerageBps \in Nat /\ g * ExchangeTxnBps \in Nat /\ g * TaxLevyBps \in Nat
  BY <1>1
<1>4. /\ c1 \in Nat /\ 2 * (D * c1) <= 2 * (g * BrokerageBps) + D
      /\ c2 \in Nat /\ 2 * (D * c2) <= 2 * (g * ExchangeTxnBps) + D
      /\ c3 \in Nat /\ 2 * (D * c3) <= 2 * (g * TaxLevyBps) + D
  <2> DEFINE x1 == g * BrokerageBps
             x2 == g * ExchangeTxnBps
             x3 == g * TaxLevyBps
  <2> HIDE DEF D, x1, x2, x3
  <2>1. x1 \in Nat /\ x2 \in Nat /\ x3 \in Nat
    BY <1>3 DEF x1, x2, x3
  <2>2. /\ RoundHalfUp(x1, D) \in Nat /\ 2 * (D * RoundHalfUp(x1, D)) <= 2 * x1 + D
        /\ RoundHalfUp(x2, D) \in Nat /\ 2 * (D * RoundHalfUp(x2, D)) <= 2 * x2 + D
        /\ RoundHalfUp(x3, D) \in Nat /\ 2 * (D * RoundHalfUp(x3, D)) <= 2 * x3 + D
    BY <1>1, <2>1, RoundHalfUpBounds
  <2> QED BY <2>2 DEF x1, x2, x3
<1> HIDE DEF D, c1, c2, c3
<1> DEFINE C == c1 + c2 + c3
<1>5. C \in Nat /\ 2 * (D * C) <= 2 * (g * B) + 3 * D
  BY <1>1, <1>4
<1> HIDE DEF B, C
<1>6. (4 * B) * g <= D * g
  <2>1. 4 * B \in Int /\ D \in Int
    BY <1>1
  <2> QED BY <1>1, <1>2, <2>1, MulMonotone
<1>7. (4 * C) * D <= (g + 6) * D
  <2> DEFINE x == g * B
             y == D * C
             z == D * g
  <2>1. x \in Int /\ y \in Int /\ z \in Int
    BY <1>1, <1>5
  <2>2. (4 * B) * g = 4 * x /\ (4 * C) * D = 4 * y /\ (g + 6) * D = z + 6 * D
    BY <1>1, <1>5
  <2>3. 2 * y <= 2 * x + 3 * D /\ 4 * x <= z
    BY <1>5, <1>6, <2>2
  <2> HIDE DEF x, y, z
  <2> QED BY <1>1, <2>1, <2>2, <2>3
<1>8. 4 * C <= g + 6
  <2> SUFFICES ASSUME 4 * C > g + 6 PROVE FALSE
    BY <1>1, <1>5
  <2>1. (g + 7) * D <= (4 * C) * D
    <3>1. g + 7 <= 4 * C /\ g + 7 \in Int /\ 4 * C \in Int
      BY <1>1, <1>5
    <3> QED BY <1>1, <3>1, MulMonotone
  <2>2. (g + 7) * D = (g + 6) * D + D /\ (g + 6) * D \in Int /\ (4 * C) * D \in Int
    BY <1>1, <1>5
  <2> QED BY <1>1, <1>7, <2>1, <2>2
<1>9. g = 0 => C = 0
  <2> SUFFICES ASSUME g = 0 PROVE C = 0
    OBVIOUS
  <2>1. 2 * (D * C) <= 3 * D
    BY <1>1, <1>5
  <2>2. C <= 1
    BY <1>1, <1>5, <1>8
  <2>3. 0 * BrokerageBps = 0 /\ 0 * ExchangeTxnBps = 0 /\ 0 * TaxLevyBps = 0
    BY <1>1
  <2>4. 2 * (D * c1) <= D /\ 2 * (D * c2) <= D /\ 2 * (D * c3) <= D
    BY <1>1, <1>4
  <2>5. ASSUME NEW c \in Nat, 2 * (D * c) <= D PROVE c = 0
    <3> SUFFICES ASSUME c >= 1 PROVE FALSE
      OBVIOUS
    <3>1. 1 * D <= c * D
      BY <1>1, MulMonotone
    <3> QED BY <1>1, <2>5, <3>1
  <2>6. c1 = 0 /\ c2 = 0 /\ c3 = 0
    BY <1>4, <2>4, <2>5
  <2> QED BY <2>6 DEF C
<1>10. C <= g
  BY <1>1, <1>5, <1>8, <1>9
<1>11. Proceeds(fill) = g - C
  BY <1>2 DEF Proceeds, C, g
<1> QED BY <1>1, <1>5, <1>10, <1>11

(* Every order so far was queued for the next open. *)
AllQueued ==
  \A d \in Decisions : orders[d].status # "NONE" => orders[d].policy = "next_open"

(* Then neither the stored fills nor a settlement at work overspend. *)
CashKept ==
  AllQueued =>
    /\ CashFloor
    /\ \A a \in Actors :
         session[a].op = "settle" => session[a].state.cash >= -RoundingSlack

(* What a settlement settles leaves its account above the floor. *)
LEMMA SettledCash ==
  ASSUME OneProcess, IsFiniteSet(Decisions), ModestCosts, LedgerInv, NEW a \in Actors,
         NEW d, NEW q, NEW day, SettlesOrder(a, d, q, day),
         session[a].state.cash >= -RoundingSlack
  PROVE  ApplyFills(d, SettledFills(d, q, day, session[a].at + session[a].seq + 1),
                    session[a].state).cash >= -RoundingSlack
<1> DEFINE s == session[a]
           at == s.at + s.seq + 1
           part == NextOpenFill(d, q, day, at)
           whole == NextOpenFill(d, orders[d].qty, day, s.at)
           fs == SettledFills(d, q, day, at)
<1>1. s.op = "settle" /\ d \in Decisions /\ day \in Days /\ orders[d] \in OrderRecord
      /\ q \in 0..orders[d].qty
      /\ Affordable(d, q, orders[d].qty, <<whole>>, s.state.cash, s.state)
  BY DEF SettlesOrder
<1>2. s.at \in Nat /\ at \in Nat
  <2>1. s.at = clock /\ clock \in Nat /\ s.seq \in Nat
    BY <1>1, SettlingFacts
  <2> HIDE DEF s
  <2> QED BY <2>1
<1>3. s.state \in Account /\ s.state.cash \in Int
  <2>1. s.state = Replay(DraftBook(s)) /\ DraftBook(s) \in Book
    BY <1>1, SettlingFacts DEF SettleCurrent, Sound, InOrder
  <2> QED BY <2>1, ReplayType
<1>4. orders[d].qty \in Nat /\ q \in Nat
  BY <1>1 DEF OrderRecord
<1>5. CASE q = 0
  <2>1. fs = <<>> /\ <<>> \in Seq(FillRecord) /\ Len(<<>>) = 0 /\ Len(<<>>) <= 2
    BY <1>5 DEF SettledFills
  <2>2. ApplyFills(d, <<>>, s.state) = s.state
    BY <1>1, <1>3, <2>1, ApplyFillsFacts
  <2> QED BY <2>1, <2>2
<1>6. CASE q # 0
  <2>1. /\ part \in FillRecord /\ part.qty = q /\ whole \in FillRecord
        /\ whole.qty = orders[d].qty /\ part.price = whole.price
    BY <1>1, <1>2, <1>4, <1>6, PricesType, FillPriceType DEF NextOpenFill, FillRecord
  <2>2. fs = <<part>>
    BY <1>6 DEF SettledFills
  <2> HIDE DEF part, whole
  <2>3. <<part>> \in Seq(FillRecord) /\ Len(<<part>>) = 1 /\ <<part>>[1] = part
        /\ Len(<<part>>) <= 2
    BY <2>1
  <2>4. ApplyFills(d, <<part>>, s.state) = ApplyFill(d, part, s.state)
    BY <1>1, <1>3, <2>3, ApplyFillsFacts
  <2>5. ApplyFill(d, part, s.state).cash >= -RoundingSlack
    <3>1. CASE SideOf(d) = "BUY"
      <4>1. ApplyFill(d, part, s.state).cash = s.state.cash - Debit(part)
        BY <3>1 DEF ApplyFill
      <4>2. IsAffordable(q, orders[d].qty, <<whole>>, s.state.cash)
        BY <1>1, <3>1 DEF Affordable
      <4>3. orders[d].qty \in Nat \ {0} /\ q \in 1..orders[d].qty
        BY <1>1, <1>4, <1>6
      <4>4. Debit(part) <= s.state.cash + RoundingSlack
        <5> HIDE DEF s
        <5> QED BY <1>3, <2>1, <4>2, <4>3, AffordableDebit
      <4>5. Debit(part) \in Int
        BY <2>1, FillMoneyType
      <4> HIDE DEF s
      <4> QED BY <1>3, <4>1, <4>4, <4>5 DEF RoundingSlack
    <3>2. CASE SideOf(d) # "BUY"
      <4>1. \/ ApplyFill(d, part, s.state).cash = s.state.cash
            \/ ApplyFill(d, part, s.state).cash = s.state.cash + Proceeds(part)
        BY <3>2 DEF ApplyFill
      <4>2. Proceeds(part) >= 0 /\ Proceeds(part) \in Int
        BY <2>1, ProceedsNotNegative, FillMoneyType
      <4> HIDE DEF s
      <4> QED BY <1>3, <4>1, <4>2 DEF RoundingSlack, s
    <3> QED BY <3>1, <3>2
  <2> QED BY <2>2, <2>4, <2>5
<1> QED BY <1>5, <1>6

(* A placement keeps the fills, or stores an order that was not queued. *)
LEMMA PlaceCash ==
  ASSUME OneProcess, IsFiniteSet(Decisions), LedgerInv, LedgerInv', CashKept,
         NEW a \in Actors, Place(a)
  PROVE  CashKept'
<1> DEFINE s == session[a]
           d == s.decision
<1>1. s.op = "place"
  BY DEF Place, PlaceRejected, PlaceQueued, PlaceFilled
<1>2. /\ d \in Decisions /\ orders[d].status = "NONE" /\ orders \in [Decisions -> OrderRecord]
      /\ fills \in Book /\ fills[d] = <<>> /\ TypeOK
  BY <1>1, PlacingFacts DEF LedgerInv, QueueInv, SessionsFresh, FreshPlace, IInv, TypeOK
<1>3. PICK order, fs, st : StorePlacement(a, order, fs, st)
                          /\ \/ fs = <<>>
                             \/ order.status # "NONE" /\ order.policy = "immediate"
  <2>1. CASE PlaceRejected(a)
    BY <2>1 DEF PlaceRejected
  <2>2. CASE PlaceQueued(a)
    BY <2>2 DEF PlaceQueued
  <2>3. CASE PlaceFilled(a)
    <3> DEFINE order(n, q) == Order(IF q = n THEN "FILLED" ELSE "PARTIALLY_FILLED",
                                    "immediate", n, q, NoDay, NoDay, s.at)
    <3>1. \A n, q : order(n, q).status # "NONE" /\ order(n, q).policy = "immediate"
      BY DEF Order
    <3>2. PICK n \in PositiveQuantities(d, s.state) : \E q \in 1..n : \E fs, st :
            StorePlacement(a, order(n, q), fs, st)
      BY <2>3 DEF PlaceFilled
    <3>3. PICK q \in 1..n : \E fs, st : StorePlacement(a, order(n, q), fs, st)
      BY <3>2
    <3> HIDE DEF order
    <3> QED BY <3>1, <3>3
  <2> QED BY <2>1, <2>2, <2>3 DEF Place
<1>4. /\ orders' = [orders EXCEPT ![d] = order] /\ fills' = [fills EXCEPT ![d] = fs]
      /\ session' = [session EXCEPT ![a] = Idle]
  BY <1>3 DEF StorePlacement
<1>5. orders'[d] = order /\ \A c \in Decisions : c # d => orders'[c] = orders[c]
  <2> HIDE DEF d
  <2> QED BY <1>2, <1>4
<1>6. \A b \in Actors : session'[b] = Idle
  BY <1>2, <1>4, Alone
<1>7. CASE fs = <<>>
  <2>1. fills' = fills
    <3> HIDE DEF d
    <3> QED BY <1>2, <1>4, <1>7 DEF Book
  <2>2. AllQueued' => AllQueued
    BY <1>2, <1>5 DEF AllQueued
  <2>3. CashFloor' <=> CashFloor
    BY <2>1 DEF CashFloor, Replay
  <2> QED BY <1>6, <2>2, <2>3, IdleIsSession DEF CashKept
<1>8. CASE order.status # "NONE" /\ order.policy = "immediate"
  <2>1. ~AllQueued'
    BY <1>2, <1>5, <1>8 DEF AllQueued
  <2> QED BY <2>1 DEF CashKept
<1> QED BY <1>3, <1>7, <1>8

LEMMA SettleCash ==
  ASSUME OneProcess, IsFiniteSet(Decisions), ModestCosts, LedgerInv, LedgerInv', CashKept,
         NEW a \in Actors, Settle(a)
  PROVE  CashKept'
<1> DEFINE s == session[a]
<1>1. s.op = "settle" /\ TypeOK /\ orders \in [Decisions -> OrderRecord]
  BY DEF Settle, SettleWaits, SettleOrder, CommitSettle, LedgerInv, QueueInv, IInv, TypeOK
<1>2. CASE SettleWaits(a)
  <2>1. PICK d \in s.todo : session' = [session EXCEPT ![a].todo = @ \ {d}]
    BY <1>2 DEF SettleWaits
  <2>2. orders' = orders /\ fills' = fills
    BY <1>2 DEF SettleWaits
  <2>3. s \in SettleSession(s.state)
    BY <1>1, SettlingFacts
  <2> DEFINE new == [s EXCEPT !.todo = @ \ {d}]
  <2>4. new.state = s.state
    <3> HIDE DEF s
    <3> QED BY <2>3 DEF SettleSession
  <2>5. session' = [session EXCEPT ![a] = new]
    BY <2>1
  <2> HIDE DEF new
  <2>6. \A b \in Actors : b = a /\ session'[b] = new
    BY <1>1, <2>5, Alone
  <2>7. (AllQueued' <=> AllQueued) /\ (CashFloor' <=> CashFloor)
    BY <2>2 DEF AllQueued, CashFloor, Replay
  <2> QED BY <1>1, <2>4, <2>6, <2>7 DEF CashKept
<1>3. CASE SettleOrder(a)
  <2>1. PICK d, q, day : SettlesOrder(a, d, q, day)
    BY <1>3, SettleOrderWitness DEF LedgerInv
  <2> DEFINE account == ApplyFills(d, SettledFills(d, q, day, s.at + s.seq + 1), s.state)
             new == session'[a]
  <2>2. /\ orders' = orders /\ fills' = fills
        /\ \A b \in Actors : b = a
    BY <2>1 DEF SettlesOrder, OneProcess
  <2>3. session'[a].state = account
    BY <1>1, <2>1, Zenon DEF SettlesOrder, TypeOK
  <2>4. s.state.cash >= -RoundingSlack => account.cash >= -RoundingSlack
    BY <2>1, SettledCash
  <2>5. (AllQueued' <=> AllQueued) /\ (CashFloor' <=> CashFloor)
    BY <2>2 DEF AllQueued, CashFloor, Replay
  <2> HIDE DEF account
  <2> QED BY <1>1, <2>2, <2>3, <2>4, <2>5 DEF CashKept
<1>4. CASE CommitSettle(a)
  <2>1. /\ fills' = DraftBook(s) /\ session' = [session EXCEPT ![a] = Idle]
        /\ orders' = [d \in Decisions |->
                        IF d \in s.written THEN s.draft[d].order ELSE orders[d]]
    BY <1>4 DEF CommitSettle, DraftBook
  <2>2. s.state = Replay(DraftBook(s)) /\ FreshSettle(s, clock, orders)
    BY <1>1, SettlingFacts DEF SettleCurrent
  <2>3. ASSUME NEW d \in Decisions, orders[d].status # "NONE"
        PROVE  orders'[d].status # "NONE" /\ orders'[d].policy = orders[d].policy
    <3>1. CASE d \in s.written
      <4>1. PICK q \in 0..orders[d].qty : \E day \in Days :
              s.draft[d].order = SettledOrder(orders[d], q, day)
        BY <2>2, <3>1 DEF FreshSettle
      <4>2. PICK day \in Days : s.draft[d].order = SettledOrder(orders[d], q, day)
        BY <4>1
      <4>3. orders'[d] = SettledOrder(orders[d], q, day)
        <5> HIDE DEF s
        <5> QED BY <2>1, <3>1, <4>2
      <4> QED BY <4>3 DEF SettledOrder, Order
    <3>2. CASE d \notin s.written
      <4>1. orders'[d] = orders[d]
        <5> HIDE DEF s
        <5> QED BY <2>1, <3>2
      <4> QED BY <2>3, <4>1
    <3> QED BY <3>1, <3>2
  <2>4. AllQueued' => AllQueued
    BY <2>3 DEF AllQueued
  <2>5. \A b \in Actors : b = a /\ session'[b] = Idle
    BY <1>1, <2>1, Alone
  <2>6. Replay(fills)' = s.state
    BY <2>1, <2>2 DEF Replay
  <2> HIDE DEF s
  <2>7. s.state.cash >= -RoundingSlack => CashFloor'
    BY <2>6 DEF CashFloor
  <2> QED BY <1>1, <2>4, <2>5, <2>7, IdleIsSession DEF CashKept, s
<1> QED BY <1>2, <1>3, <1>4 DEF Settle

LEMMA NextCashKept ==
  ASSUME OneProcess, IsFiniteSet(Decisions), ModestCosts, LedgerInv, LedgerInv', CashKept,
         [Next]_vars
  PROVE  CashKept'
<1>1. TypeOK
  BY DEF LedgerInv, QueueInv, IInv
<1>2. ASSUME UNCHANGED <<orders, fills>>, UNCHANGED session PROVE CashKept'
  BY <1>2 DEF CashKept, AllQueued, CashFloor, Replay
<1>3. ASSUME UNCHANGED <<orders, fills>>, NEW a \in Actors, NEW s,
             session' = [session EXCEPT ![a] = s],
             s.op = "settle" => s.state = Replay(fills)
      PROVE  CashKept'
  <2>1. \A b \in Actors : b = a /\ session'[b] = s
    BY <1>1, <1>3, Alone
  <2>2. (AllQueued' <=> AllQueued) /\ (CashFloor' <=> CashFloor)
    BY <1>3 DEF AllQueued, CashFloor, Replay
  <2>3. CashFloor => (s.op = "settle" => s.state.cash >= -RoundingSlack)
    BY <1>3 DEF CashFloor
  <2> QED BY <2>1, <2>2, <2>3 DEF CashKept
<1>4. CASE UNCHANGED vars
  BY <1>2, <1>4 DEF vars
<1>5. ASSUME NEW s \in Symbols, NEW day \in Days, ImportBar(s, day) PROVE CashKept'
  BY <1>2, <1>5 DEF ImportBar
<1>6. ASSUME NEW a \in Actors, NEW d \in Decisions, NEW policy \in Policies,
             NEW limit \in ThreadedCash \cup {NoLimit}, BeginPlace(a, d, policy, limit)
      PROVE  CashKept'
  <2>1. PICK at : /\ session' = [session EXCEPT ![a] = Placement(d, policy, limit, at)]
                  /\ UNCHANGED <<orders, fills>>
    BY <1>6 DEF BeginPlace, StartSession
  <2> DEFINE s == Placement(d, policy, limit, at)
  <2>2. s.op # "settle"
    BY DEF Placement
  <2> HIDE DEF s
  <2> QED BY <1>3, <2>1, <2>2 DEF s
<1>7. ASSUME NEW a \in Actors, NEW run \in Runs, BeginSettle(a, run) PROVE CashKept'
  <2> DEFINE draft == [d \in Decisions |->
                         IF d \in SettlementQueue
                         THEN [order |-> orders[d], fills |-> <<>>]
                         ELSE [order |-> NoOrder, fills |-> <<>>]]
             account == Replay(fills)
             s == [op |-> "settle", run |-> run, at |-> clock',
                   todo |-> SettlementQueue, written |-> {}, seq |-> 0,
                   draft |-> draft, state |-> account]
  <2>1. session' = [session EXCEPT ![a] = s] /\ UNCHANGED <<orders, fills>>
    BY <1>7 DEF BeginSettle, StartSession
  <2>2. s.state = Replay(fills)
    OBVIOUS
  <2> HIDE DEF s
  <2> QED BY <1>3, <2>1, <2>2
<1>8. ASSUME NEW a \in Actors, NEW d \in Decisions, BeginCancel(a, d) PROVE CashKept'
  <2> DEFINE s == [op |-> "cancel", decision |-> d, order |-> orders[d]]
  <2>1. session' = [session EXCEPT ![a] = s] /\ UNCHANGED <<orders, fills>>
    BY <1>8 DEF BeginCancel, StartSession
  <2>2. s.op # "settle"
    OBVIOUS
  <2> HIDE DEF s
  <2> QED BY <1>3, <2>1, <2>2
<1>9. ASSUME NEW a \in Actors, Abort(a) PROVE CashKept'
  <2>1. session' = [session EXCEPT ![a] = Idle] /\ UNCHANGED <<orders, fills>>
    BY <1>9 DEF Abort
  <2>2. Idle.op # "settle"
    BY DEF Idle
  <2> QED BY <1>3, <2>1, <2>2
<1>10. ASSUME NEW a \in Actors, CommitCancel(a) PROVE CashKept'
  <2> DEFINE d == session[a].decision
  <2>1. /\ session[a].op = "cancel" /\ session[a].order = orders[d]
        /\ orders[d].status # "NONE" /\ orders \in [Decisions -> OrderRecord]
    BY <1>1, <1>10 DEF CommitCancel, LedgerInv, QueueInv, IInv, CancelsAlone, TypeOK
  <2>2. /\ orders' = [orders EXCEPT ![d] = [orders[d] EXCEPT !.status = "CANCELLED"]]
        /\ fills' = fills /\ session' = [session EXCEPT ![a] = Idle]
    BY <1>10, <2>1 DEF CommitCancel
  <2>3. ASSUME NEW c \in Decisions, orders[c].status # "NONE"
        PROVE  orders'[c].status # "NONE" /\ orders'[c].policy = orders[c].policy
    <3> HIDE DEF d
    <3>1. orders[c] \in OrderRecord
      BY <2>1
    <3>2. orders'[c] = orders[c] \/ orders'[c] = [orders[c] EXCEPT !.status = "CANCELLED"]
      BY <2>1, <2>2
    <3> QED BY <2>3, <3>1, <3>2 DEF OrderRecord
  <2>4. AllQueued' => AllQueued
    BY <2>3 DEF AllQueued
  <2>5. \A b \in Actors : session'[b] = Idle
    BY <1>1, <2>2, Alone
  <2>6. CashFloor' <=> CashFloor
    BY <2>2 DEF CashFloor, Replay
  <2> QED BY <2>4, <2>5, <2>6, IdleIsSession DEF CashKept
<1>11. ASSUME NEW a \in Actors, NEW run \in Runs, BeginRoute(a, run) PROVE CashKept'
  BY <1>2, <1>11 DEF BeginRoute
<1> QED BY <1>4, <1>5, <1>6, <1>7, <1>8, <1>9, <1>10, <1>11,
   PlaceCash, SettleCash DEF Next

(* Under the same conditions, and when the costs of a SELL cannot exceed its
   value, the cash stays above what rounding can hide as long as every order
   was queued, whatever the caller said it had to spend.                   *)
THEOREM QueuedCashKept ==
  ASSUME OneProcess, IsFiniteSet(Decisions), ModestCosts, Runs # {}
  PROVE  Spec /\ [][StampsHavePassed]_vars => []QueuedOrdersKeepCash
<1>1. Init => CashKept
  <2> SUFFICES ASSUME Init PROVE CashKept
    OBVIOUS
  <2>1. Replay(fills) = StartState
    <3>1. fills = [d \in Decisions |-> <<>>]
      BY DEF Init
    <3>2. fills \in Book
      BY <3>1 DEF Book
    <3>3. Entries(fills) = {}
      BY <3>1 DEF Entries
    <3>4. ReplayOf(fills, {}) = StartState
      BY <3>2, ReplayFacts
    <3> QED BY <3>3, <3>4 DEF Replay
  <2>2. CashFloor
    BY <2>1, BrokerAssumption DEF CashFloor, StartState, RoundingSlack
  <2>3. \A a \in Actors : session[a].op # "settle"
    BY DEF Init, Idle
  <2> QED BY <2>2, <2>3 DEF CashKept
<1>2. LedgerInv /\ LedgerInv' /\ CashKept /\ [Next]_vars => CashKept'
  BY NextCashKept
<1>3. CashKept => QueuedOrdersKeepCash
  BY DEF CashKept, QueuedOrdersKeepCash, AllQueued
<1> QED BY <1>1, <1>2, <1>3, LedgerStands, PTL DEF Spec
=============================================================================
