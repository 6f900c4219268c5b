--------------------------- MODULE MCPaperBroker ---------------------------
(* Small instances of the paper broker.  A run buys two symbols in one     *)
(* route, which compete for the same cash; a later run and the monitor     *)
(* sell, one of them or both the same holding.                             *)
EXTENDS PaperBrokerProperties

CONSTANTS A, B, buy, more, exit, reduce,
          Patient     \* whether the processes wait for the stamps of each other

MCSymbolOf == [d \in Decisions |-> IF d = more THEN B ELSE A]
MCActionOf == [d \in Decisions |-> CASE d = exit -> "EXIT"
                                      [] d = reduce -> "REDUCE"
                                      [] OTHER -> "BUY"]
MCApprovedQty == [d \in Decisions |-> IF d = buy THEN 3 ELSE 2]
MCRunOf == [d \in Decisions |-> CASE d = exit -> "r2"
                                   [] d = reduce -> "m"
                                   [] OTHER -> "r1"]
(* The close is below the open on the first days, above it on the third.   *)
MCOpen == [s \in Symbols |-> [x \in Days |-> <<20, 30, 19>>[x]]]
MCClose == [s \in Symbols |-> [x \in Days |-> <<18, 21, 22>>[x]]]

-----------------------------------------------------------------------------
(* Scenarios of one process, each a restriction of the same Next: two      *)
(* sales of one holding under both policies and with cancellations; two    *)
(* purchases of a route that are queued against more cash than there is,   *)
(* and a sale; and purchases and sales that are executed at once, by a     *)
(* route whose fills overlap and by the monitor.                           *)
VARIABLE scenario
scenarioVars == <<vars, scenario>>

Belongs(s) ==
  CASE scenario = "sales" ->
         s.op = "place" => s.decision # more /\ s.limit = NoLimit
    [] scenario = "purchases" ->
         /\ s.op # "cancel"
         /\ s.op = "settle" => s.run = "r2"
         /\ s.op = "place" => s.decision # reduce /\ s.policy = "next_open"
    [] scenario = "route" ->
         s.op = "place" /\ s.policy = "immediate"

(* B is imported after A, and only where a scenario trades it. *)
Imported ==
  /\ bars'[B] \in {bars[B], bars[A]}
  /\ bars'[A] # bars[A] /\ scenario # "sales" => bars[B] = bars[A]
  /\ scenario = "sales" => bars'[B] = {}
  /\ scenario # "purchases" => 3 \notin bars'[A]

(* Only the third scenario, which is shorter, has short pauses as well. *)
Paused == IF scenario = "route" THEN clock' <= 10 ELSE clock' - clock # 2

(* A run is routed once, when it has decisions to route. *)
Routed ==
  \A a \in Actors : route'[a] # route[a] /\ route'[a] # NoRoute =>
    \A d \in Decisions : RunOf[d] = route'[a].run => orders[d].status = "NONE"

(* No time is read before the stored stamps have passed, and no order is   *)
(* stamped from a time that is older than that of another process.         *)
Waits ==
  /\ StampsHavePassed
  /\ \A a \in Actors : session[a] = Idle /\ session'[a].op = "place" =>
       session'[a].at >= clock

ScenarioInit == Init /\ scenario \in {"sales", "purchases", "route"}
ScenarioNext ==
  /\ Next
  /\ Patient => Waits
  /\ Routed /\ Paused
  /\ B \in Symbols => Imported
  /\ \A a \in Actors : session'[a] = Idle \/ Belongs(session'[a])
  /\ UNCHANGED scenario
ScenarioSpec == ScenarioInit /\ [][ScenarioNext]_scenarioVars
=============================================================================
