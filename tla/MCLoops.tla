------------------------------- MODULE MCLoops -------------------------------
(* The two loops over a portfolio, one at a time: iterations of the position *)
(* monitor over market sessions and restarts, and daily runs, for which this *)
(* instance adds that each of them ends.  Both keep the rows of RunArtifacts. *)
EXTENDS PositionMonitorProperties, TLC

CONSTANT AfterClose

VARIABLES
  loop,                        \* "monitor" or "daily"
  dayStage, dayRun, scope, todo, midway, proposed, approved, funded,
  dayOk, dayBad, row           \* of the daily run, as PaperRun has them

Day == INSTANCE PaperRunProperties
         WITH stage <- dayStage, run <- dayRun, ok <- dayOk, bad <- dayBad

dayLocal == <<dayStage, dayRun, scope, todo, midway, proposed, approved, funded,
              dayOk, dayBad, row>>
monitorLocal == <<stage, run, session, mySession, local, saved>>
loopVars == <<loop, store, dayLocal, monitorLocal>>

NoMonitor ==
  /\ stage = "idle" /\ run = 1 /\ session = 1 /\ mySession = 1
  /\ watched = {} /\ case = NoCase /\ ok = {} /\ bad = {}
  /\ proposals = {} /\ decided = {} /\ status = "COMPLETED"
NoDay ==
  /\ dayStage = "idle" /\ dayRun = NoRun
  /\ scope = {} /\ todo = {} /\ midway = {} /\ proposed = Day!NoProposals
  /\ approved = {} /\ funded = {} /\ dayOk = {} /\ dayBad = {} /\ row = Day!NoRow

LoopInit ==
  \/ loop = "monitor" /\ Init /\ NoDay
  \/ loop = "daily" /\ Day!Init /\ NoMonitor

(* MaxRuns counts the monitor's iterations; of daily runs there are as many *)
(* as are made after close.                                                 *)
LoopNext ==
  \/ loop = "monitor" /\ Next /\ UNCHANGED <<loop, dayLocal>>
  \/ /\ loop = "daily" /\ Day!Next /\ dayRun' \in AfterClose \cup {NoRun}
     /\ UNCHANGED <<loop, monitorLocal>>

LoopFairSpec ==
  /\ LoopInit /\ [][LoopNext]_loopVars
  /\ WF_loopVars(loop = "monitor" /\ Iterate /\ UNCHANGED <<loop, dayLocal>>)
  /\ WF_loopVars(loop = "daily" /\ Day!RunStep /\ UNCHANGED <<loop, monitorLocal>>)

(* Every variable of the loop at work has its type. *)
LoopTypeOK == (loop = "monitor" => TypeOK) /\ (loop = "daily" => Day!TypeOK)

(* A daily run that has begun ends, whatever fails on the way: no symbol,   *)
(* failing or not, is worked on again and again (PaperRunService.run_once). *)
RunEnds == Day!RunEnds
==============================================================================
