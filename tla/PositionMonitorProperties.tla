---------------------- MODULE PositionMonitorProperties ----------------------
(* What the position monitor is to guarantee, over restarts and sessions.   *)
EXTENDS PositionMonitor

(* The rows are those of known runs and symbols, and the iteration in      *)
(* progress carries at most one known case.                                *)
TypeOK ==
  /\ fills \in [Decisions -> [by : 0..MaxRuns, at : Nat, closes : BOOLEAN]]
  /\ accounts \in [Runs -> [at : Nat, book : SUBSET Decisions]]
  /\ positions \in [Runs -> SUBSET Symbols]
  /\ stage \in Stages
  /\ run \in Runs
  /\ session \in Sessions /\ mySession \in 1..session
  /\ {watched, ok, bad} \subseteq SUBSET Symbols
  /\ case \in Cases \cup {NoCase}
  /\ case = NoCase <=> stage \in {"idle", "poll"}
  /\ proposals \subseteq Proposals /\ decided \subseteq proposals
  /\ status \in {"RUNNING", "COMPLETED", "PARTIAL_FAILED", "FAILED"}

(* One crossing of a threshold in one market session is acted on once,     *)
(* however many iterations see it and however often the monitor restarts.  *)
OneActionPerCrossing ==
  \A p, q \in proposals :
    p.symbol = q.symbol /\ p.trigger = q.trigger /\ p.session = q.session => p = q

(* An iteration reported COMPLETED has carried each crossing it acted on   *)
(* to a final decision.                                                    *)
CompletedMeansDecided ==
  stage = "idle" /\ status = "COMPLETED" =>
    \A p \in proposals : p.run = run => p \in decided

(* The monitor "creates paper-only market_hours EXIT or REDUCE lifecycle   *)
(* decisions when a threshold is crossed" (docs/TAURUS_USAGE_GUIDE.md): a  *)
(* crossing that will be passed over as a duplicate has had its decision.  *)
DuplicatesWereDecided ==
  stage = "poll" =>
    \A s \in watched : \A p \in proposals :
      p.symbol = s /\ p.session = mySession => p \in decided

(* An iteration ends, whatever fails on the way.                           *)
IterationEnds == stage # "idle" ~> stage = "idle"
=============================================================================
