------------------------------ MODULE PaperRun ------------------------------
(***************************************************************************)
(* The daily paper run (PaperRunService.run_once): import bars, settle the *)
(* queue, analyse the symbols of the run one by one, allocate, finalise    *)
(* each proposal, route what was approved.  Every step that stores         *)
(* something is a transaction of its own and an action here; between any   *)
(* two of them the process may die.  The run row is written after each     *)
(* symbol and at the ends of stages, from lists the process keeps.         *)
(***************************************************************************)
EXTENDS RunArtifacts

CONSTANT AfterClose    \* runs made after market close: their orders wait for the next open

VARIABLES
  stage,      \* of the run in progress, "idle" between runs
  run,        \* the run in progress, or the last one
  scope,      \* symbols of the run
  todo,       \* symbols the present stage has still to handle
  midway,     \* the symbol whose debate or review is stored, the next artefact not yet
  proposed,   \* action proposed for each symbol
  approved,   \* symbols whose proposal became a routable decision
  funded,     \* symbols the allocation lets execute
  ok, bad,    \* succeeded_symbols, failed_symbols
  row         \* the run row stored for it; those of earlier runs no longer change
local == <<scope, todo, midway, proposed, approved, funded, ok, bad>>
vars == <<store, stage, run, local, row>>

Stages == {"idle", "data", "settle", "select", "analyse", "allocate", "finalise", "route", "complete"}
ProposedActions == {"NONE", "BUY", "SELL"}   \* NONE: HOLD, NO_TRADE; SELL: REDUCE, EXIT

NoRow == [status |-> "NONE", ok |-> {}, bad |-> {}, scope |-> {}, finished |-> FALSE]
NoProposals == [s \in Symbols |-> "NONE"]

(* Mutant: a run with nothing to report has a status of its own. *)
StatusForNothing(good, failed) ==
  IF failed # {} THEN (IF good # {} THEN "PARTIAL_FAILED" ELSE "FAILED")
  ELSE IF good # {} THEN "COMPLETED" ELSE "SKIPPED"

(* _status_for *)
StatusFor(good, failed) ==
  IF failed # {} /\ good # {} THEN "PARTIAL_FAILED"
  ELSE IF failed # {} THEN "FAILED"
  ELSE IF good # {} THEN "COMPLETED"
  ELSE "RUNNING"

StoreRow(status, good, failed, symbols, finished) ==
  row' = [status |-> status, ok |-> good, bad |-> failed, scope |-> symbols,
          finished |-> finished]
StoreProgress(good, failed) == StoreRow(StatusFor(good, failed), good, failed, scope, FALSE)

(* The process forgets its lists. *)
EndRun ==
  /\ stage' = "idle"
  /\ scope' = {} /\ todo' = {} /\ midway' = {} /\ proposed' = NoProposals
  /\ approved' = {} /\ funded' = {} /\ ok' = {} /\ bad' = {}

PendingSymbols == {SymbolOf(d) : d \in Pending}

-----------------------------------------------------------------------------
BeginRun ==
  /\ stage = "idle" /\ run < MaxRuns
  /\ run' = run + 1
  /\ started' = [started EXCEPT ![run + 1] = clock + 1]
  /\ clock' = clock + 1
  /\ \E requested \in (SUBSET Symbols) \ {{}} :
       LET symbols == requested \cup VisiblePositions \cup PendingSymbols IN
       /\ scope' = symbols
       /\ StoreRow("RUNNING", {}, {}, symbols, FALSE)
  /\ stage' = "data"
  /\ UNCHANGED <<todo, midway, proposed, approved, funded, ok, bad>>
  /\ UNCHANGED <<orders, fills, accounts, positions>>

LoadLatestInputs ==
  /\ stage = "data"
  /\ \E S \in SUBSET Symbols : ImportBars(S)
  /\ stage' = "settle"
  /\ UNCHANGED <<run, local, row>>

SettlePending ==
  /\ stage = "settle"
  /\ SettleQueue(run)
  /\ stage' = "select"
  /\ UNCHANGED <<run, local, row>>

(* Targets of the strategy or the requested symbols, with the symbols held *)
(* and those queued before and after settlement; none at all is an error.  *)
SelectSymbols ==
  /\ stage = "select"
  /\ \E targets \in SUBSET Symbols :
       LET settled == {SymbolOf(d) : d \in {e \in Decisions : orders[e].settled
                                                           /\ orders[e].at > started[run]}}
           symbols == targets \cup VisiblePositions \cup PendingSymbols \cup settled
       IN  /\ symbols # {}
           /\ scope' = symbols /\ todo' = symbols
           /\ StoreRow("RUNNING", {}, {}, symbols, FALSE)
  /\ stage' = "analyse"
  /\ UNCHANGED <<store, run, midway, proposed, approved, funded, ok, bad>>

(* Any error before the analysis fails the run; what has been committed,   *)
(* the settlement too, stays.                                              *)
SetupFails ==
  /\ stage \in {"data", "settle", "select"}
  /\ StoreRow("FAILED", {}, scope, scope, TRUE)
  /\ EndRun
  /\ UNCHANGED <<store, run>>

-----------------------------------------------------------------------------
(* Analysis of one symbol: the analysts' reports and the debate, then the  *)
(* trader, who looks up the position and stores a proposal.                *)
StoreDebate ==
  /\ stage = "analyse" /\ midway = {}
  /\ \E s \in todo : CleanUp(run, {s}) /\ midway' = {s}
  /\ UNCHANGED <<stage, run, scope, todo, proposed, approved, funded, ok, bad, row>>

AllowedActions(s) ==
  IF s \in VisiblePositions THEN ProposedActions ELSE {"BUY", "NONE"}

(* Every symbol is one to finalise, so its success is recorded later.      *)
StoreProposal ==
  /\ stage = "analyse"
  /\ \E s \in midway :
       /\ \E action \in AllowedActions(s) : proposed' = [proposed EXCEPT ![s] = action]
       /\ CleanUp(run, {s})
       /\ todo' = todo \ {s}
  /\ midway' = {}
  /\ StoreProgress(ok, bad)
  /\ UNCHANGED <<stage, run, scope, approved, funded, ok, bad>>

(* Mutant: a symbol that fails is tried again. *)
LeftRetrying(s) == todo

LeftAfterFailure(s) == todo \ {s}

Failing == IF midway = {} THEN todo ELSE midway

(* A symbol fails, before or after its first artefact; the others go on.   *)
SymbolFails ==
  /\ stage \in {"analyse", "finalise"}
  /\ \E s \in Failing :
       /\ bad' = bad \cup {s}
       /\ todo' = LeftAfterFailure(s)
       /\ StoreProgress(ok, bad \cup {s})
  /\ midway' = {}
  /\ UNCHANGED <<store, stage, run, scope, proposed, approved, funded, ok>>

(* A database error ends the run at once. *)
SymbolAborts ==
  /\ stage \in {"analyse", "finalise"}
  /\ \E s \in Failing : StoreRow("FAILED", ok, bad \cup {s}, scope, TRUE)
  /\ EndRun
  /\ UNCHANGED <<store, run>>

AnalysisDone ==
  /\ stage = "analyse" /\ todo = {}
  /\ stage' = IF scope \ bad = {} THEN "complete" ELSE "allocate"
  /\ UNCHANGED <<store, run, local, row>>

-----------------------------------------------------------------------------
(* The portfolio plan and the allocation of the whole run: the proposals   *)
(* are stored again, the plan may replace or add some, with a debate of    *)
(* their own, for any symbol, and each symbol is let execute or not.       *)
Allocate ==
  /\ stage = "allocate"
  /\ \E buys \in SUBSET Symbols : \E sales \in SUBSET (VisiblePositions \ buys) :
       LET symbols == scope \cup buys \cup sales IN
       /\ CleanUp(run, (scope \ bad) \cup buys \cup sales)
       /\ proposed' = [s \in Symbols |-> IF s \in buys THEN "BUY"
                                          ELSE IF s \in sales THEN "SELL"
                                          ELSE proposed[s]]
       /\ scope' = symbols
       /\ todo' = symbols \ bad
       /\ funded' \in SUBSET (symbols \ bad)
       /\ StoreRow(row.status, ok, bad, symbols, FALSE)
  /\ stage' = "finalise"
  /\ UNCHANGED <<run, midway, approved, ok, bad>>

(* Mutant: the symbols whose finalisation the failure prevents are lost.   *)
FailedByAllocationNone == {}

FailedByAllocation == scope \ bad

AllocationFails ==
  /\ stage = "allocate"
  /\ bad' = bad \cup FailedByAllocation
  /\ StoreProgress(ok, bad')
  /\ stage' = "complete"
  /\ UNCHANGED <<store, run, scope, todo, midway, proposed, approved, funded, ok>>

AllocationAborts ==
  /\ stage = "allocate"
  /\ StoreRow("FAILED", ok, bad \cup FailedByAllocation, scope, TRUE)
  /\ EndRun
  /\ UNCHANGED <<store, run>>

-----------------------------------------------------------------------------
(* Finalisation of one symbol: the risk review, then the final decision,   *)
(* which may be one the broker can be sent.                                *)
StoreReview ==
  /\ stage = "finalise" /\ midway = {}
  /\ \E s \in todo : CleanUp(run, {s}) /\ midway' = {s}
  /\ UNCHANGED <<stage, run, scope, todo, proposed, approved, funded, ok, bad, row>>

StoreDecision ==
  /\ stage = "finalise"
  /\ \E s \in midway :
       /\ CleanUp(run, {s})
       /\ todo' = todo \ {s}
       /\ ok' = ok \cup {s}
       /\ approved' \in {approved} \cup
            (IF proposed[s] = "NONE" THEN {} ELSE {approved \cup {s}})
       /\ StoreProgress(ok', bad)
  /\ midway' = {}
  /\ UNCHANGED <<stage, run, scope, proposed, funded, bad>>

FinalisationDone ==
  /\ stage = "finalise" /\ todo = {}
  /\ stage' = IF ok = {} THEN "complete" ELSE "route"
  /\ todo' = ok \cap funded \cap approved
  /\ UNCHANGED <<store, run, scope, midway, proposed, approved, funded, ok, bad, row>>

-----------------------------------------------------------------------------
(* Mutant: an error of routing is only logged. *)
FailedByRoutingNone(s) == {}

FailedByRouting(s) == {s}

(* The order is committed, even if the account cannot be read afterwards.  *)
Route ==
  /\ stage = "route"
  /\ \E s \in todo :
       /\ PlaceOrder(run, s, proposed[s], run \in AfterClose, clock + 1)
       /\ todo' = todo \ {s}
       /\ bad' \in {bad, bad \cup FailedByRouting(s)}
  /\ UNCHANGED <<stage, run, scope, midway, proposed, approved, funded, ok, row>>

(* The symbol is now among the succeeded and the failed ones. *)
RouteFails ==
  /\ stage = "route"
  /\ \E s \in todo : /\ bad' = bad \cup FailedByRouting(s)
                      /\ todo' = todo \ {s}
  /\ UNCHANGED <<store, stage, run, scope, midway, proposed, approved, funded, ok, row>>

RoutingDone ==
  /\ stage = "route" /\ todo = {}
  /\ StoreProgress(ok, bad)
  /\ stage' = "complete"
  /\ UNCHANGED <<store, run, local>>

Complete ==
  /\ stage = "complete"
  /\ StoreRow(StatusFor(ok, bad), ok, bad, scope, TRUE)
  /\ EndRun
  /\ UNCHANGED <<store, run>>

(* The process dies; what it had committed stays, the row too. *)
Crash ==
  /\ stage # "idle"
  /\ EndRun
  /\ UNCHANGED <<store, run, row>>

-----------------------------------------------------------------------------
Init ==
  /\ InitStore
  /\ stage = "idle" /\ run = NoRun
  /\ scope = {} /\ todo = {} /\ midway = {} /\ proposed = NoProposals
  /\ approved = {} /\ funded = {} /\ ok = {} /\ bad = {}
  /\ row = NoRow

Setup == LoadLatestInputs \/ SettlePending \/ SelectSymbols \/ SetupFails
Analyse == StoreDebate \/ StoreProposal \/ SymbolFails \/ SymbolAborts \/ AnalysisDone
Finalise == Allocate \/ AllocationFails \/ AllocationAborts
            \/ StoreReview \/ StoreDecision \/ FinalisationDone
Execute == Route \/ RouteFails \/ RoutingDone \/ Complete
RunStep == Setup \/ Analyse \/ Finalise \/ Execute

Next == BeginRun \/ RunStep \/ Crash
Spec == Init /\ [][Next]_vars

(* A run in progress is a single thread of control: it takes its next step *)
(* unless the process dies.                                                *)
FairSpec == Spec /\ WF_vars(RunStep)
=============================================================================
