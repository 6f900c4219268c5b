--------------------------- MODULE PositionMonitor ---------------------------
(***************************************************************************)
(* The market-hours position monitor (PositionMonitorService.run): each    *)
(* iteration is a run of its own that takes the open positions readers see *)
(* and goes through them one by one.  A position whose stop-loss or        *)
(* take-profit price is crossed goes through proposal, risk review, final  *)
(* decision and immediate execution, each a transaction of its own; a      *)
(* stored proposal is also what keeps later iterations of the same market  *)
(* session from acting on the same crossing again.  The process may die    *)
(* between any two transactions and is started again.                      *)
(*                                                                         *)
(* The holdings are those a first run has bought.  Thresholds are relative *)
(* to the average cost, which no sale changes: a trigger stands for one    *)
(* threshold price.                                                        *)
(***************************************************************************)
EXTENDS RunArtifacts

CONSTANT MaxSessions    \* bound on the number of market sessions

ASSUME SessionsAssumption == MaxSessions \in Nat \ {0}

Sessions == 1..MaxSessions
Triggers == {"stop_loss", "take_profit"}

VARIABLES
  stage,       \* of the iteration in progress, "idle" between iterations
  run,         \* the iteration in progress, or the last run
  session,     \* today's market session
  mySession,   \* market session of the iteration, taken when it began
  watched,     \* positions the iteration has still to evaluate
  case,        \* the symbol and trigger being carried through
  proposals,   \* stored market-hours proposals
  decided,     \* those a final decision was stored for
  ok, bad,     \* succeeded and failed symbols of the iteration
  status       \* in the row of the run
local == <<watched, case, ok, bad>>
saved == <<proposals, decided, status>>
vars == <<store, stage, run, session, mySession, local, saved>>

Stages == {"idle", "poll", "propose", "review", "decide", "route"}
Cases == [symbol : Symbols, trigger : Triggers]
Proposals == [run : Runs, symbol : Symbols, trigger : Triggers, session : Sessions]

NoCase == [symbol |-> "none", trigger |-> "none"]

(* Mutant: the session of the day on which it is stored. *)
ProposalOfToday(c) == [run |-> run, symbol |-> c.symbol, trigger |-> c.trigger,
                       session |-> session]

ProposalOf(c) == [run |-> run, symbol |-> c.symbol, trigger |-> c.trigger,
                  session |-> mySession]

EndIteration ==
  /\ stage' = "idle"
  /\ watched' = {} /\ case' = NoCase /\ ok' = {} /\ bad' = {}

-----------------------------------------------------------------------------
(* A day passes: the next market session.                                  *)
NextSession ==
  /\ session < MaxSessions
  /\ session' = session + 1
  /\ UNCHANGED <<store, stage, run, mySession, local, saved>>

BeginIteration ==
  /\ stage = "idle" /\ run < MaxRuns
  /\ run' = run + 1
  /\ started' = [started EXCEPT ![run + 1] = clock + 1]
  /\ clock' = clock + 1
  /\ mySession' = session
  /\ watched' = VisiblePositions
  /\ status' = "RUNNING"
  /\ stage' = "poll"
  /\ UNCHANGED <<orders, fills, accounts, positions, session, case, ok, bad, proposals, decided>>

-----------------------------------------------------------------------------
(* Mutant: a crossing is a duplicate only within its own iteration. *)
DuplicateInRun(c) == ProposalOf(c) \in proposals

(* _duplicate_trigger *)
Duplicate(c) ==
  \E p \in proposals : p.symbol = c.symbol /\ p.trigger = c.trigger /\ p.session = mySession

(* Mutant: the position is looked at until no threshold is crossed. *)
RemainingAll(s) == watched

Remaining(s) == watched \ {s}

(* No quote, no thesis, no threshold crossed, or a crossing dealt with: a   *)
(* success.                                                                *)
SkipSymbol ==
  /\ stage = "poll"
  /\ \E s \in watched : watched' = Remaining(s) /\ ok' = ok \cup {s}
  /\ UNCHANGED <<store, stage, run, session, mySession, case, bad, saved>>

DetectTrigger ==
  /\ stage = "poll"
  /\ \E c \in {x \in Cases : x.symbol \in watched /\ ~Duplicate(x)} :
       /\ case' = c
       /\ watched' = Remaining(c.symbol)
  /\ stage' = "propose"
  /\ UNCHANGED <<store, run, session, mySession, ok, bad, saved>>

(* The trader stores an EXIT or, for a take-profit, perhaps a REDUCE.      *)
StoreProposal ==
  /\ stage = "propose"
  /\ CleanUp(run, {case.symbol})
  /\ proposals' = proposals \cup {ProposalOf(case)}
  /\ stage' = "review"
  /\ UNCHANGED <<run, session, mySession, local, decided, status>>

StoreReview ==
  /\ stage = "review"
  /\ CleanUp(run, {case.symbol})
  /\ stage' = "decide"
  /\ UNCHANGED <<run, session, mySession, local, saved>>

(* What the review or the quantity rules out the router does not pass on.  *)
StoreDecision ==
  /\ stage = "decide"
  /\ CleanUp(run, {case.symbol})
  /\ decided' = decided \cup {ProposalOf(case)}
  /\ \/ stage' = "route" /\ UNCHANGED <<case, ok>>
     \/ stage' = "poll" /\ case' = NoCase /\ ok' = ok \cup {case.symbol}
  /\ UNCHANGED <<run, session, mySession, watched, bad, proposals, status>>

(* Mutant: an error is only audited. *)
FailedSymbolsNone(s) == bad

FailedSymbols(s) == bad \cup {s}

(* The order is stamped with the beginning of the iteration.  An error     *)
(* after it has been committed fails the symbol all the same.              *)
Route ==
  /\ stage = "route"
  /\ PlaceOrder(run, case.symbol, "SELL", FALSE, started[run])
  /\ stage' = "poll"
  /\ case' = NoCase
  /\ \/ ok' = ok \cup {case.symbol} /\ UNCHANGED bad
     \/ bad' = FailedSymbols(case.symbol) /\ UNCHANGED ok
  /\ UNCHANGED <<run, session, mySession, watched, saved>>

(* Any error ends the evaluation of the symbol; the others go on.          *)
SymbolFails ==
  /\ stage \in {"propose", "review", "decide", "route"}
  /\ bad' = FailedSymbols(case.symbol)
  /\ stage' = "poll"
  /\ case' = NoCase
  /\ UNCHANGED <<store, run, session, mySession, watched, ok, saved>>

CompleteIteration ==
  /\ stage = "poll" /\ watched = {}
  /\ status' = IF bad = {} THEN "COMPLETED"
               ELSE IF ok = {} THEN "FAILED" ELSE "PARTIAL_FAILED"
  /\ EndIteration
  /\ UNCHANGED <<store, run, session, mySession, proposals, decided>>

(* The process dies; the run row stays as it is.                           *)
Crash ==
  /\ stage # "idle"
  /\ EndIteration
  /\ UNCHANGED <<store, run, session, mySession, saved>>

-----------------------------------------------------------------------------
(* A first run has bought some of the symbols, one after the other.        *)
Init ==
  /\ \E held \in (SUBSET Symbols) \ {{}} :
       LET bought == [d \in Decisions |-> d[1] = 1 /\ d[2] \in held] IN
       /\ orders = [d \in Decisions |->
                      IF bought[d] THEN OrderRow("FILLED", "BUY", FALSE, FALSE, 2) ELSE NoOrder]
       /\ fills = [d \in Decisions |-> IF bought[d] THEN Fill(1, 2, FALSE) ELSE NoFill]
       /\ accounts = [r \in Runs |->
                        IF r = 1 THEN [at |-> 2, book |-> {1} \X held] ELSE NoAccount]
       /\ positions = [r \in Runs |-> IF r = 1 THEN held ELSE {}]
  /\ started = [r \in Runs |-> IF r = 1 THEN 1 ELSE 0]
  /\ clock = 2
  /\ stage = "idle" /\ run = 1
  /\ session = 1 /\ mySession = 1
  /\ watched = {} /\ case = NoCase /\ ok = {} /\ bad = {}
  /\ proposals = {} /\ decided = {} /\ status = "COMPLETED"

CarryOut == StoreProposal \/ StoreReview \/ StoreDecision \/ Route \/ SymbolFails
Iterate == SkipSymbol \/ DetectTrigger \/ CarryOut \/ CompleteIteration
Next == NextSession \/ BeginIteration \/ Iterate \/ Crash
Spec == Init /\ [][Next]_vars

(* The iteration in progress is a single thread of control.                *)
FairSpec == Spec /\ WF_vars(Iterate)
=============================================================================
