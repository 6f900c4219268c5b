------------------------ MODULE PositionMonitorProofs ------------------------
(***************************************************************************)
(* Proofs about the position monitor, for any number of symbols, runs and  *)
(* market sessions, with crashes and restarts; and the types of both loops *)
(* over one set of rows.                                                   *)
(***************************************************************************)
EXTENDS MCLoops, WellFoundedInduction, FiniteSetTheorems, TLAPS

(* The case in hand has no stored proposal of its crossing and session.    *)
FreshCase == stage = "propose" => ~Duplicate(case)

CrossingInv == OneActionPerCrossing /\ FreshCase

(* What holds before a step that stores no proposal and begins none holds  *)
(* after it.                                                               *)
LEMMA CrossingUnchanged ==
  ASSUME CrossingInv, proposals' = proposals,
         stage' = "propose" => UNCHANGED <<stage, case, mySession>>
  PROVE  CrossingInv'
<1>1. OneActionPerCrossing'
  BY DEF CrossingInv, OneActionPerCrossing
<1>2. FreshCase'
  BY DEF CrossingInv, FreshCase, Duplicate
<1> QED BY <1>1, <1>2 DEF CrossingInv

LEMMA CrossingStep ==
  ASSUME CrossingInv, [Next]_vars
  PROVE  CrossingInv'
<1>1. CASE NextSession
  BY <1>1, CrossingUnchanged DEF NextSession, local, saved
<1>2. CASE BeginIteration
  BY <1>2, CrossingUnchanged DEF BeginIteration
<1>3. CASE SkipSymbol
  BY <1>3, CrossingUnchanged DEF SkipSymbol, saved
<1>4. CASE DetectTrigger
  <2>1. ~Duplicate(case') /\ proposals' = proposals /\ mySession' = mySession
    BY <1>4 DEF DetectTrigger, saved
  <2>2. FreshCase'
    BY <2>1 DEF FreshCase, Duplicate
  <2>3. OneActionPerCrossing'
    BY <2>1 DEF CrossingInv, OneActionPerCrossing
  <2> QED BY <2>2, <2>3 DEF CrossingInv
<1>5. CASE StoreProposal
  <2>1. /\ ~Duplicate(case) /\ stage' = "review"
        /\ proposals' = proposals \cup {ProposalOf(case)}
    BY <1>5 DEF StoreProposal, CrossingInv, FreshCase
  <2>2. \A p \in proposals : ~(/\ p.symbol = ProposalOf(case).symbol
                               /\ p.trigger = ProposalOf(case).trigger
                               /\ p.session = ProposalOf(case).session)
    BY <2>1 DEF Duplicate, ProposalOf
  <2>3. OneActionPerCrossing'
    <3>1. SUFFICES ASSUME NEW p \in proposals', NEW q \in proposals',
                          p.symbol = q.symbol, p.trigger = q.trigger, p.session = q.session
                   PROVE  p = q
      BY DEF OneActionPerCrossing
    <3>2. CASE p \in proposals /\ q \in proposals
      BY <3>1, <3>2 DEF CrossingInv, OneActionPerCrossing
    <3>3. CASE p = ProposalOf(case) /\ q = ProposalOf(case)
      BY <3>3
    <3>4. CASE p \in proposals /\ q = ProposalOf(case)
      BY <2>2, <3>1, <3>4
    <3>5. CASE q \in proposals /\ p = ProposalOf(case)
      BY <2>2, <3>1, <3>5
    <3> QED BY <2>1, <3>2, <3>3, <3>4, <3>5
  <2> QED BY <2>1, <2>3 DEF CrossingInv, FreshCase
<1>6. CASE StoreReview
  BY <1>6, CrossingUnchanged DEF StoreReview, saved
<1>7. CASE StoreDecision
  BY <1>7, CrossingUnchanged DEF StoreDecision
<1>8. CASE Route
  BY <1>8, CrossingUnchanged DEF Route, saved
<1>9. CASE SymbolFails
  BY <1>9, CrossingUnchanged DEF SymbolFails, saved
<1>10. CASE CompleteIteration
  BY <1>10, CrossingUnchanged DEF CompleteIteration, EndIteration
<1>11. CASE Crash
  BY <1>11, CrossingUnchanged DEF Crash, EndIteration, saved
<1>12. CASE UNCHANGED vars
  BY <1>12, CrossingUnchanged DEF vars, local, saved
<1> QED BY <1>1, <1>2, <1>3, <1>4, <1>5, <1>6, <1>7, <1>8, <1>9, <1>10, <1>11, <1>12
        DEF Next, Iterate, CarryOut

(* A crossing of a threshold is acted on once per market session, however   *)
(* many iterations see it and however often the process restarts           *)
(* (position_monitor/service.py, _duplicate_trigger).                      *)
THEOREM ActsOncePerCrossing == Spec => []OneActionPerCrossing
<1>1. Init => CrossingInv
  BY DEF Init, CrossingInv, OneActionPerCrossing, FreshCase
<1>2. CrossingInv /\ [Next]_vars => CrossingInv'
  BY CrossingStep
<1>3. CrossingInv => OneActionPerCrossing
  BY DEF CrossingInv
<1> QED BY <1>1, <1>2, <1>3, PTL DEF Spec

-----------------------------------------------------------------------------
(* What COMPLETED means.                                                   *)

(* A proposal of the run in progress was decided, is in hand, or is why the *)
(* run cannot end as COMPLETED.                                            *)
Accounted(p) ==
  \/ p \in decided
  \/ stage \in {"review", "decide"} /\ p = ProposalOf(case)
  \/ stage # "idle" /\ bad # {}
  \/ stage = "idle" /\ status # "COMPLETED"

CompletionInv ==
  /\ run \in Nat
  /\ stage \in Stages
  /\ stage # "idle" => status = "RUNNING"
  /\ \A p \in proposals : p.run \in Nat /\ p.run <= run
  /\ \A p \in proposals : p.run = run => Accounted(p)

LEMMA CompletionStep ==
  ASSUME CompletionInv, [Next]_vars
  PROVE  CompletionInv'
<1> USE DEF CompletionInv
<1>1. CASE NextSession
  BY <1>1 DEF NextSession, local, saved, Accounted, ProposalOf
<1>2. CASE BeginIteration
  BY <1>2 DEF BeginIteration, Stages
<1>3. CASE SkipSymbol
  BY <1>3 DEF SkipSymbol, saved, Stages, Accounted
<1>4. CASE DetectTrigger
  BY <1>4 DEF DetectTrigger, saved, Stages, Accounted
<1>5. CASE StoreProposal
  <2>1. /\ stage = "propose" /\ stage' = "review" /\ status' = status
        /\ proposals' = proposals \cup {ProposalOf(case)}
        /\ UNCHANGED <<run, mySession, case, bad, decided>>
    BY <1>5 DEF StoreProposal, local
  <2>2. ProposalOf(case).run = run /\ ProposalOf(case)' = ProposalOf(case)
    BY <2>1 DEF ProposalOf
  <2>3. ASSUME NEW p \in proposals', p.run = run'
        PROVE  Accounted(p)'
    <3>1. CASE p \in proposals
      BY <2>1, <2>3, <3>1 DEF Accounted
    <3>2. CASE p = ProposalOf(case)
      BY <2>1, <2>2, <3>2 DEF Accounted
    <3> QED BY <2>1, <2>3, <3>1, <3>2
  <2> QED BY <2>1, <2>2, <2>3 DEF Stages
<1>6. CASE StoreReview
  <2>1. /\ stage = "review" /\ stage' = "decide"
        /\ UNCHANGED <<run, mySession, case, bad, proposals, decided, status>>
    BY <1>6 DEF StoreReview, local, saved
  <2>2. ProposalOf(case)' = ProposalOf(case)
    BY <2>1 DEF ProposalOf
  <2> QED BY <2>1, <2>2 DEF Stages, Accounted
<1>7. CASE StoreDecision
  <2>1. /\ stage = "decide" /\ stage' \in {"route", "poll"}
        /\ decided' = decided \cup {ProposalOf(case)}
        /\ UNCHANGED <<run, bad, proposals, status>>
    BY <1>7 DEF StoreDecision
  <2> QED BY <2>1 DEF Stages, Accounted
<1>8. CASE Route
  <2>1. /\ stage = "route" /\ stage' = "poll" /\ bad \subseteq bad'
        /\ UNCHANGED <<run, proposals, decided, status>>
    BY <1>8 DEF Route, FailedSymbols, saved
  <2> QED BY <2>1 DEF Stages, Accounted
<1>9. CASE SymbolFails
  <2>1. /\ stage # "idle" /\ stage' = "poll" /\ bad' # {}
        /\ UNCHANGED <<run, proposals, decided, status>>
    BY <1>9 DEF SymbolFails, FailedSymbols, saved
  <2> QED BY <2>1 DEF Stages, Accounted
<1>10. CASE CompleteIteration
  <2>1. /\ stage = "poll" /\ stage' = "idle"
        /\ bad # {} => status' # "COMPLETED"
        /\ UNCHANGED <<run, proposals, decided>>
    BY <1>10 DEF CompleteIteration, EndIteration
  <2> QED BY <2>1 DEF Stages, Accounted
<1>11. CASE Crash
  <2>1. /\ stage # "idle" /\ stage' = "idle"
        /\ UNCHANGED <<run, proposals, decided, status>>
    BY <1>11 DEF Crash, EndIteration, saved
  <2> QED BY <2>1 DEF Stages, Accounted
<1>12. CASE UNCHANGED vars
  BY <1>12 DEF vars, local, saved, Accounted, ProposalOf
<1> QED BY <1>1, <1>2, <1>3, <1>4, <1>5, <1>6, <1>7, <1>8, <1>9, <1>10, <1>11, <1>12
        DEF Next, Iterate, CarryOut

(* An iteration whose row says COMPLETED has carried every crossing it acted *)
(* on to a final decision (position_monitor/service.py, run_once).          *)
THEOREM CompletedIsDecided == Spec => []CompletedMeansDecided
<1>1. Init => CompletionInv
  BY DEF Init, CompletionInv, Stages
<1>2. CompletionInv /\ [Next]_vars => CompletionInv'
  BY CompletionStep
<1>3. CompletionInv => CompletedMeansDecided
  BY DEF CompletionInv, Accounted, CompletedMeansDecided
<1> QED BY <1>1, <1>2, <1>3, PTL DEF Spec

-----------------------------------------------------------------------------
(* The rows an iteration stores.                                           *)

(* The order of a decision and the fill of an order as they are stored.    *)
OrderRows == [status : {"NONE", "REJECTED", "PENDING_NEXT_OPEN", "FILLED"},
              side : {"BUY", "SELL"}, queued : BOOLEAN, ripe : BOOLEAN,
              settled : BOOLEAN, at : Nat]
FillRows == [by : 0..MaxRuns, at : Nat, closes : BOOLEAN]
AccountRows == [at : Nat, book : SUBSET Decisions]

RowsTyped ==
  /\ orders \in [Decisions -> OrderRows]
  /\ fills \in [Decisions -> FillRows]
  /\ accounts \in [Runs -> AccountRows]
  /\ positions \in [Runs -> SUBSET Symbols]
  /\ started \in [Runs -> Nat]
  /\ clock \in Nat

(* The iteration in progress; a case in review or later has its proposal.  *)
IterationTyped ==
  /\ stage \in Stages
  /\ run \in Runs
  /\ session \in Sessions /\ mySession \in 1..session
  /\ {watched, ok, bad} \subseteq SUBSET Symbols
  /\ case \in Cases \cup {NoCase}
  /\ case = NoCase <=> stage \in {"idle", "poll"}
  /\ proposals \subseteq Proposals /\ decided \subseteq proposals
  /\ status \in {"RUNNING", "COMPLETED", "PARTIAL_FAILED", "FAILED"}
  /\ stage \in {"review", "decide"} => ProposalOf(case) \in proposals

(* What the iteration has still to work on. *)
InHand == watched \cup (IF case = NoCase THEN {} ELSE {case.symbol})

(* A decision is executed at once or never, by the iteration that took it, *)
(* and no iteration comes back to a symbol it has sold: so the clean-up    *)
(* before its artefacts finds no fill to delete.                           *)
ExecutedAtOnce ==
  /\ \A d \in Decisions : fills[d].by \in {NoRun, RunOf(d)} /\ fills[d].by <= run
  /\ \A s \in InHand : fills[<<run, s>>].by = NoRun
  /\ case # NoCase => case.symbol \notin watched
  /\ stage = "idle" => watched = {}

(* The account row of a run accounts for the fills made up to that run, and *)
(* a run that made fills has one.                                          *)
BooksComplete ==
  /\ \A r \in Runs : accounts[r].at # 0 =>
       accounts[r].book = {d \in Decisions : fills[d].by \in 1..r}
  /\ \A d \in Decisions : fills[d].by # NoRun => accounts[fills[d].by].at # 0

(* Account rows are updated in the order of their runs, that of the run in *)
(* progress at the time the run began.                                     *)
AccountsFollowRuns ==
  /\ started[run] # 0 /\ started[run] <= clock
  /\ \A r \in Runs : accounts[r].at <= clock
  /\ \A r \in Runs : r > run => accounts[r].at = 0
  /\ \A r \in Runs : r < run => accounts[r].at < started[run]
  /\ \A q, r \in Runs :
       q < r /\ accounts[q].at # 0 /\ accounts[r].at # 0 => accounts[q].at < accounts[r].at

AccountsInv == ExecutedAtOnce /\ BooksComplete /\ AccountsFollowRuns
MonitorInv == RowsTyped /\ IterationTyped /\ AccountsInv
LEMMA DecisionParts ==
  /\ \A d \in Decisions : RunOf(d) \in Runs /\ SymbolOf(d) \in Symbols
                          /\ d = <<RunOf(d), SymbolOf(d)>>
  /\ \A r \in Runs, s \in Symbols :
       <<r, s>> \in Decisions /\ RunOf(<<r, s>>) = r /\ SymbolOf(<<r, s>>) = s
BY DEF Decisions, RunOf, SymbolOf

LEMMA EmptyRows ==
  /\ NoOrder \in OrderRows /\ NoFill \in FillRows /\ NoAccount \in AccountRows
  /\ \A d \in Decisions : RunOf(d) # NoRun
<1>1. NoOrder \in OrderRows
  BY DEF NoOrder, OrderRows
<1>2. NoFill \in FillRows
  BY RunsAssumption DEF NoFill, FillRows, NoRun
<1>3. NoAccount \in AccountRows
  BY DEF NoAccount, AccountRows
<1>4. \A d \in Decisions : RunOf(d) # NoRun
  BY DecisionParts DEF NoRun, Runs
<1> QED BY <1>1, <1>2, <1>3, <1>4

LEMMA CaseKnown ==
  ASSUME IterationTyped, stage \notin {"idle", "poll"}
  PROVE  case \in Cases /\ case.symbol \in Symbols /\ case # NoCase /\ case.symbol \in InHand
<1>1. case \in Cases /\ case # NoCase
  BY DEF IterationTyped
<1>2. case.symbol \in Symbols
  BY <1>1 DEF Cases
<1> QED BY <1>1, <1>2 DEF InHand

(* The clean-up before an artefact of the case in hand removes no fill, and *)
(* the account row of the run only if the run made none.                   *)
LEMMA CleanUpKeepsAccounts ==
  ASSUME MonitorInv, stage \notin {"idle", "poll"}, run' = run,
         CleanUp(run, {case.symbol})
  PROVE  /\ RowsTyped'
         /\ \A d \in Decisions : fills'[d].by = fills[d].by
         /\ BooksComplete' /\ AccountsFollowRuns'
<1> DEFINE S == {case.symbol}
<1>0. case.symbol \in Symbols /\ case.symbol \in InHand /\ run \in Runs
  BY CaseKnown DEF MonitorInv, IterationTyped
<1>1. \A d \in {run} \X S : d \in Decisions /\ d = <<run, case.symbol>>
  BY <1>0 DEF Decisions
<1>2. \A d \in {run} \X S : fills[d].by = NoRun
  BY <1>0, <1>1 DEF MonitorInv, AccountsInv, ExecutedAtOnce
<1>3. \A d \in FillsCleaned(run, S) : fills[d].by = NoRun
  <2> SUFFICES ASSUME NEW d \in Decisions, fills[d].by = run, SymbolOf(d) \in S
               PROVE  fills[d].by = NoRun
    BY <1>2 DEF FillsCleaned
  <2>1. RunOf(d) = run \/ run = NoRun
    BY DEF MonitorInv, AccountsInv, ExecutedAtOnce
  <2>2. run # NoRun
    BY <1>0 DEF Runs, NoRun
  <2>3. d = <<run, case.symbol>>
    BY <2>1, <2>2, DecisionParts
  <2> QED BY <2>3, <1>0 DEF MonitorInv, AccountsInv, ExecutedAtOnce
<1>4. \A d \in Decisions : fills'[d].by = fills[d].by
  <2> SUFFICES ASSUME NEW d \in Decisions PROVE fills'[d].by = fills[d].by
    OBVIOUS
  <2>1. fills'[d] = IF d \in FillsCleaned(run, S) THEN NoFill ELSE fills[d]
    BY DEF CleanUp
  <2> QED BY <2>1, <1>3 DEF NoFill
<1>5. \A r \in Runs :
        accounts'[r] = IF r = run /\ AccountCleaned(run, S) THEN NoAccount ELSE accounts[r]
  BY DEF CleanUp, MonitorInv, RowsTyped
<1>6. RowsTyped'
  <2>1. orders' \in [Decisions -> OrderRows]
    BY EmptyRows DEF CleanUp, MonitorInv, RowsTyped
  <2>2. fills' \in [Decisions -> FillRows]
    BY EmptyRows DEF CleanUp, MonitorInv, RowsTyped
  <2>3. accounts' \in [Runs -> AccountRows]
    BY EmptyRows DEF CleanUp, MonitorInv, RowsTyped
  <2>4. positions' \in [Runs -> SUBSET Symbols]
    BY DEF CleanUp, MonitorInv, RowsTyped
  <2> QED BY <2>1, <2>2, <2>3, <2>4 DEF CleanUp, MonitorInv, RowsTyped
<1>7. AccountCleaned(run, S) => \A d \in Decisions : fills[d].by # run
  <2>1. run # NoRun
    BY <1>0 DEF Runs, NoRun
  <2> QED BY <2>1, <1>3 DEF AccountCleaned
<1>8. BooksComplete'
  <2>1. ASSUME NEW r \in Runs, accounts'[r].at # 0
        PROVE  accounts'[r].book = {d \in Decisions : fills'[d].by \in 1..r}
    <3>1. accounts'[r] = accounts[r]
      BY <2>1, <1>5 DEF NoAccount
    <3>2. accounts'[r].book = {d \in Decisions : fills[d].by \in 1..r}
      BY <2>1, <3>1 DEF MonitorInv, AccountsInv, BooksComplete
    <3> QED BY <3>2, <1>4
  <2>2. ASSUME NEW d \in Decisions, fills'[d].by # NoRun
        PROVE  accounts'[fills'[d].by].at # 0
    <3>1. fills[d].by # NoRun /\ fills'[d].by = fills[d].by /\ fills[d].by = RunOf(d)
      BY <2>2, <1>4 DEF MonitorInv, AccountsInv, ExecutedAtOnce
    <3>2. fills[d].by \in Runs /\ accounts[fills[d].by].at # 0
      BY <3>1, DecisionParts DEF MonitorInv, AccountsInv, BooksComplete
    <3>3. accounts'[fills[d].by] = accounts[fills[d].by]
      BY <3>2, <1>5, <1>7
    <3> QED BY <3>1, <3>2, <3>3
  <2> QED BY <2>1, <2>2 DEF BooksComplete
<1>9. AccountsFollowRuns'
  <2>1. \A r \in Runs : accounts'[r] = accounts[r] \/ accounts'[r].at = 0
    BY <1>5 DEF NoAccount
  <2>2. started' = started /\ clock' = clock
    BY DEF CleanUp
  <2>3. started[run] \in Nat /\ clock \in Nat
    BY <1>0 DEF MonitorInv, RowsTyped
  <2>4. AccountsFollowRuns
    BY DEF MonitorInv, AccountsInv
  <2>5. \A r \in Runs : accounts'[r].at <= clock /\ (r > run => accounts'[r].at = 0)
    BY <2>1, <2>3, <2>4 DEF AccountsFollowRuns
  <2>6. \A r \in Runs : r < run => accounts'[r].at < started[run]
    BY <2>1, <2>3, <2>4 DEF AccountsFollowRuns
  <2>7. \A q, r \in Runs : q < r /\ accounts'[q].at # 0 /\ accounts'[r].at # 0
                             => accounts'[q].at < accounts'[r].at
    BY <2>1, <2>4 DEF AccountsFollowRuns
  <2> QED BY <2>2, <2>4, <2>5, <2>6, <2>7 DEF AccountsFollowRuns
<1> QED BY <1>4, <1>6, <1>8, <1>9

(* The order of the case in hand is filled in full or in part, or rejected; *)
(* the account row of the run then accounts for every fill there is.       *)
LEMMA PlaceOrderKeepsAccounts ==
  ASSUME MonitorInv, stage \notin {"idle", "poll"}, run' = run,
         PlaceOrder(run, case.symbol, "SELL", FALSE, started[run])
  PROVE  /\ RowsTyped'
         /\ \A d \in Decisions : \/ fills'[d].by = fills[d].by
                                 \/ d = <<run, case.symbol>> /\ fills'[d].by = run
         /\ BooksComplete' /\ AccountsFollowRuns'
<1> DEFINE d == <<run, case.symbol>>
           stamp == started[run]
           earlier == [fills EXCEPT ![d] = NoFill]
           put(word, fs) ==
             StoreAccount(run, [orders EXCEPT ![d] = OrderRow(word, "SELL", FALSE, FALSE, stamp)],
                          fs, stamp)
<1>1. case.symbol \in Symbols /\ case.symbol \in InHand /\ run \in Runs /\ run \in Nat /\ run # NoRun
  BY CaseKnown DEF MonitorInv, IterationTyped, Runs, NoRun
<1>2. d \in Decisions /\ RunOf(d) = run /\ fills[d].by = NoRun
  BY <1>1, DecisionParts DEF MonitorInv, AccountsInv, ExecutedAtOnce
<1>3. stamp \in Nat /\ stamp # 0 /\ clock \in Nat /\ stamp <= clock
  BY <1>1 DEF MonitorInv, RowsTyped, AccountsInv, AccountsFollowRuns
<1>4. PICK filled \in BOOLEAN, closes \in BOOLEAN :
        put(IF filled THEN "FILLED" ELSE "REJECTED",
            IF filled THEN [earlier EXCEPT ![d] = Fill(run, stamp, closes)] ELSE earlier)
  <2>1. \/ put("REJECTED", earlier)
        \/ \E closes \in BOOLEAN : put("FILLED", [earlier EXCEPT ![d] = Fill(run, stamp, closes)])
    <3> HIDE DEF put, earlier, stamp, d
    <3> QED BY DEF PlaceOrder, put, earlier, stamp, d
  <2> HIDE DEF put, earlier
  <2> QED BY <2>1
<1> DEFINE os == [orders EXCEPT ![d] = OrderRow(IF filled THEN "FILLED" ELSE "REJECTED",
                                                 "SELL", FALSE, FALSE, stamp)]
           fs == IF filled THEN [earlier EXCEPT ![d] = Fill(run, stamp, closes)] ELSE earlier
<1>5. StoreAccount(run, os, fs, stamp)
  BY <1>4
<1>6. os \in [Decisions -> OrderRows]
  BY <1>2, <1>3 DEF OrderRow, OrderRows, MonitorInv, RowsTyped
<1>7. /\ fs \in [Decisions -> FillRows]
      /\ fs[d].by = IF filled THEN run ELSE NoRun
      /\ \A e \in Decisions \ {d} : fs[e] = fills[e]
  <2>1. earlier \in [Decisions -> FillRows] /\ earlier[d] = NoFill
        /\ \A e \in Decisions \ {d} : earlier[e] = fills[e]
    BY <1>2, EmptyRows DEF MonitorInv, RowsTyped
  <2>2. Fill(run, stamp, closes) \in FillRows /\ Fill(run, stamp, closes).by = run
    BY <1>1, <1>3 DEF Fill, FillRows, Runs
  <2> HIDE DEF earlier, stamp, d
  <2> QED BY <1>2, <2>1, <2>2 DEF NoFill
<1> HIDE DEF os, fs, d, stamp
<1>8. \A e \in Decisions : fs[e].by = fills[e].by \/ (e = d /\ fs[e].by = run)
  BY <1>2, <1>7
<1>9. \A e \in Decisions : fills[e].by \in Nat /\ fills[e].by <= run
                           /\ fs[e].by \in Nat /\ fs[e].by <= run
  <2>1. \A e \in Decisions : fills[e].by \in Nat /\ fills[e].by <= run
    BY DEF MonitorInv, RowsTyped, FillRows, AccountsInv, ExecutedAtOnce
  <2> QED BY <2>1, <1>1, <1>8
<1>10. orders' = os /\ fills' = fs /\ clock' = clock /\ started' = started
  BY <1>3, <1>5 DEF StoreAccount
<1>11. \A r \in Runs : accounts'[r] = IF r = run THEN [at |-> stamp, book |-> Filled(fs)]
                                                 ELSE accounts[r]
  BY <1>5 DEF StoreAccount, MonitorInv, RowsTyped
<1>12. RowsTyped'
  <2>1. Filled(fs) \in SUBSET Decisions
    BY DEF Filled
  <2>2. accounts' \in [Runs -> AccountRows]
    BY <1>3, <1>5, <2>1 DEF StoreAccount, MonitorInv, RowsTyped, AccountRows
  <2>3. positions' \in [Runs -> SUBSET Symbols]
    <3>1. \A time : PositionRows(run, os, fs, time) \in SUBSET Symbols
      BY DEF PositionRows, HeldAt
    <3> QED BY <1>5, <3>1 DEF StoreAccount, MonitorInv, RowsTyped
  <2> QED BY <1>6, <1>7, <1>10, <2>2, <2>3 DEF MonitorInv, RowsTyped
<1>13. BooksComplete'
  <2>1. ASSUME NEW r \in Runs, accounts'[r].at # 0
        PROVE  accounts'[r].book = {e \in Decisions : fs[e].by \in 1..r}
    <3>1. CASE r = run
      <4>1. accounts'[r].book = Filled(fs)
        BY <3>1, <1>11
      <4>2. \A e \in Decisions : fs[e].by # NoRun <=> fs[e].by \in 1..r
        BY <3>1, <1>1, <1>9 DEF NoRun
      <4> QED BY <4>1, <4>2 DEF Filled
    <3>2. CASE r # run
      <4>1. r < run /\ r \in Nat
        BY <2>1, <3>2, <1>1, <1>11 DEF MonitorInv, AccountsInv, AccountsFollowRuns, Runs
      <4>2. accounts'[r].book = {e \in Decisions : fills[e].by \in 1..r}
        BY <2>1, <3>2, <1>11 DEF MonitorInv, AccountsInv, BooksComplete
      <4>3. fs[d].by \notin 1..r /\ fills[d].by \notin 1..r
        BY <4>1, <1>1, <1>2, <1>7 DEF NoRun
      <4>4. \A e \in Decisions : fs[e].by \in 1..r <=> fills[e].by \in 1..r
        BY <4>3, <1>7
      <4> QED BY <4>2, <4>4
    <3> QED BY <3>1, <3>2
  <2>2. ASSUME NEW e \in Decisions, fs[e].by # NoRun
        PROVE  accounts'[fs[e].by].at # 0
    <3>1. accounts'[run].at # 0
      BY <1>1, <1>3, <1>11
    <3>2. CASE fs[e].by # run
      <4>1. fs[e].by = fills[e].by
        BY <1>8, <3>2
      <4>2. fills[e].by = RunOf(e) /\ accounts[fills[e].by].at # 0
        BY <2>2, <4>1 DEF MonitorInv, AccountsInv, ExecutedAtOnce, BooksComplete
      <4> QED BY <4>1, <4>2, <3>2, <1>11, DecisionParts
    <3> QED BY <3>1, <3>2
  <2> QED BY <1>10, <2>1, <2>2 DEF BooksComplete
<1>14. AccountsFollowRuns'
  <2>0. AccountsFollowRuns /\ \A r \in Runs : accounts[r].at \in Nat /\ r \in Nat
    <3>1. \A r \in Runs : accounts[r].at \in Nat
      BY DEF MonitorInv, RowsTyped, AccountRows
    <3> QED BY <3>1 DEF MonitorInv, AccountsInv, Runs
  <2>1. started'[run'] # 0 /\ started'[run'] <= clock'
    BY <1>3, <1>10 DEF stamp
  <2>2. \A r \in Runs : accounts'[r].at <= clock'
    BY <1>3, <1>10, <1>11, <2>0 DEF AccountsFollowRuns
  <2>3. \A r \in Runs : r > run => accounts'[r].at = 0
    BY <1>11, <2>0 DEF AccountsFollowRuns
  <2>4. \A r \in Runs : r < run => accounts'[r].at < started[run]
    BY <1>11, <2>0 DEF AccountsFollowRuns
  <2>5. ASSUME NEW q \in Runs, NEW r \in Runs, q < r,
               accounts'[q].at # 0, accounts'[r].at # 0
        PROVE  accounts'[q].at < accounts'[r].at
    <3>1. r <= run
      BY <2>3, <2>5, <2>0, <1>1
    <3>2. q < run /\ q # run
      BY <3>1, <2>5, <2>0, <1>1
    <3>5. accounts'[q] = accounts[q]
      BY <3>2, <1>11
    <3>3. CASE r = run
      BY <3>2, <3>3, <3>5, <2>4, <1>11 DEF stamp
    <3>4. CASE r # run
      BY <3>2, <3>4, <3>5, <2>5, <2>0, <1>11 DEF AccountsFollowRuns
    <3> QED BY <3>3, <3>4
  <2> QED BY <1>10, <2>1, <2>2, <2>3, <2>4, <2>5 DEF AccountsFollowRuns
<1> QED BY <1>8, <1>10, <1>12, <1>13, <1>14 DEF d
(* What holds of the rows and the iteration when neither changes.          *)
LEMMA AccountsUnchanged ==
  ASSUME MonitorInv, UNCHANGED <<store, run>>,
         case' # NoCase => case'.symbol \in InHand,
         watched' \subseteq watched,
         case' # NoCase => case'.symbol \notin watched',
         stage' = "idle" => watched' = {}
  PROVE  RowsTyped' /\ AccountsInv'
<1>1. RowsTyped' /\ BooksComplete' /\ AccountsFollowRuns'
  BY DEF MonitorInv, RowsTyped, AccountsInv, BooksComplete, AccountsFollowRuns, store
<1>2. InHand' \subseteq InHand
  BY DEF InHand
<1>3. ExecutedAtOnce'
  BY <1>2 DEF MonitorInv, AccountsInv, ExecutedAtOnce, store
<1> QED BY <1>1, <1>3 DEF AccountsInv

(* Storing an artefact of the case in hand.                                *)
LEMMA ArtefactKeepsAccounts ==
  ASSUME MonitorInv, stage \notin {"idle", "poll"}, stage' # "idle", run' = run,
         CleanUp(run, {case.symbol}), watched' = watched, case' \in {case, NoCase}
  PROVE  RowsTyped' /\ AccountsInv'
<1>1. /\ RowsTyped' /\ BooksComplete' /\ AccountsFollowRuns'
      /\ \A d \in Decisions : fills'[d].by = fills[d].by
  BY CleanUpKeepsAccounts
<1>2. InHand' \subseteq InHand
  BY DEF InHand
<1>3. InHand \subseteq Symbols /\ run \in Runs
  BY DEF MonitorInv, IterationTyped, InHand, Cases
<1>4. \A s \in InHand' : fills'[<<run, s>>].by = NoRun
  BY <1>1, <1>2, <1>3, DecisionParts DEF MonitorInv, AccountsInv, ExecutedAtOnce
<1>5. ExecutedAtOnce'
  BY <1>1, <1>4 DEF MonitorInv, AccountsInv, ExecutedAtOnce
<1> QED BY <1>1, <1>5 DEF AccountsInv

LEMMA BeginKeepsAccounts ==
  ASSUME MonitorInv, BeginIteration
  PROVE  MonitorInv'
<1>0. /\ stage = "idle" /\ run \in Runs /\ run \in Nat /\ run' = run + 1 /\ run' \in Runs
      /\ UNCHANGED <<orders, fills, accounts, positions>> /\ case = NoCase /\ case' = NoCase
  BY RunsAssumption DEF BeginIteration, MonitorInv, IterationTyped, Runs
<1>1. started' \in [Runs -> Nat] /\ clock' \in Nat /\ clock' = clock + 1 /\ started'[run'] = clock'
  BY <1>0 DEF BeginIteration, MonitorInv, RowsTyped
<1>2. RowsTyped'
  BY <1>0, <1>1 DEF MonitorInv, RowsTyped
<1>3. VisiblePositions \subseteq Symbols
  BY DEF VisiblePositions, LatestAccount, MonitorInv, RowsTyped
<1>4. IterationTyped'
  <2>1. session \in Nat /\ session >= 1
    BY SessionsAssumption DEF MonitorInv, IterationTyped, Sessions
  <2>2. session' \in Sessions /\ mySession' \in 1..session'
    BY <2>1 DEF BeginIteration, MonitorInv, IterationTyped
  <2> QED BY <1>0, <1>3, <2>2 DEF BeginIteration, MonitorInv, IterationTyped, Stages
<1>5. ExecutedAtOnce'
  <2>1. \A d \in Decisions : fills'[d].by \in {NoRun, RunOf(d)} /\ fills'[d].by <= run /\ fills'[d].by \in Nat
    BY <1>0 DEF MonitorInv, AccountsInv, ExecutedAtOnce, RowsTyped, FillRows
  <2>2. InHand' \subseteq Symbols
    BY <1>0, <1>3 DEF InHand, BeginIteration
  <2>3. ASSUME NEW s \in Symbols PROVE fills'[<<run', s>>].by = NoRun
    <3>1. <<run', s>> \in Decisions /\ RunOf(<<run', s>>) = run'
      BY <1>0, DecisionParts
    <3>2. fills'[<<run', s>>].by \in {NoRun, run'} /\ fills'[<<run', s>>].by <= run
      BY <3>1, <2>1
    <3> QED BY <3>2, <1>0
  <2>4. \A d \in Decisions : fills'[d].by <= run'
    BY <2>1, <1>0
  <2>5. stage' # "idle" /\ case' = NoCase
    BY <1>0 DEF BeginIteration
  <2> QED BY <2>1, <2>2, <2>3, <2>4, <2>5 DEF ExecutedAtOnce
<1>6. BooksComplete'
  BY <1>0 DEF MonitorInv, AccountsInv, BooksComplete
<1>7. AccountsFollowRuns'
  <2>1. \A r \in Runs : accounts[r].at \in Nat /\ r \in Nat /\ accounts[r].at <= clock /\ clock \in Nat
    BY DEF MonitorInv, RowsTyped, AccountRows, Runs, AccountsInv, AccountsFollowRuns
  <2>2. \A r \in Runs : accounts'[r].at < started'[run'] /\ accounts'[r].at <= clock'
    BY <1>0, <1>1, <2>1
  <2>3. \A r \in Runs : r > run' => accounts'[r].at = 0
    BY <1>0, <2>1 DEF MonitorInv, AccountsInv, AccountsFollowRuns
  <2>4. started'[run'] # 0 /\ started'[run'] <= clock'
    BY <1>1, <2>1 DEF MonitorInv, RowsTyped
  <2> QED BY <1>0, <2>2, <2>3, <2>4 DEF MonitorInv, AccountsInv, AccountsFollowRuns
<1> QED BY <1>2, <1>4, <1>5, <1>6, <1>7 DEF MonitorInv, AccountsInv

LEMMA MonitorStep ==
  ASSUME MonitorInv, [Next]_vars
  PROVE  MonitorInv'
<1> USE DEF MonitorInv
<1>0. /\ run \in Runs /\ session \in Nat /\ mySession \in Sessions
      /\ \A c \in Cases : c # NoCase /\ c.symbol \in Symbols /\ c.trigger \in Triggers
                          /\ ProposalOf(c) \in Proposals
  <2>1. run \in Runs /\ session \in Nat /\ mySession \in Sessions
    BY SessionsAssumption DEF IterationTyped, Sessions
  <2>2. ASSUME NEW c \in Cases
        PROVE  c # NoCase /\ c.symbol \in Symbols /\ c.trigger \in Triggers
    BY DEF Cases, Triggers, NoCase
  <2> QED BY <2>1, <2>2 DEF ProposalOf, Proposals
<1>1. CASE NextSession
  <2>1. session' \in Sessions /\ mySession' \in 1..session'
    BY <1>1, <1>0, SessionsAssumption DEF NextSession, IterationTyped, Sessions
  <2>2. IterationTyped'
    BY <1>1, <2>1 DEF NextSession, IterationTyped, local, saved, ProposalOf
  <2>3. RowsTyped' /\ AccountsInv'
    BY <1>1, AccountsUnchanged DEF NextSession, local, InHand, AccountsInv, ExecutedAtOnce
  <2> QED BY <2>2, <2>3
<1>2. CASE BeginIteration
  BY <1>2, BeginKeepsAccounts
<1>3. CASE SkipSymbol
  <2>1. PICK s \in watched : watched' = watched \ {s} /\ ok' = ok \cup {s}
    BY <1>3 DEF SkipSymbol, Remaining
  <2>2. IterationTyped'
    BY <1>3, <2>1 DEF SkipSymbol, IterationTyped, saved, ProposalOf
  <2>3. RowsTyped' /\ AccountsInv'
    BY <1>3, <2>1, AccountsUnchanged DEF SkipSymbol, InHand, IterationTyped
  <2> QED BY <2>2, <2>3
<1>4. CASE DetectTrigger
  <2>1. PICK c \in Cases : /\ c.symbol \in watched /\ case' = c
                           /\ watched' = watched \ {c.symbol}
    BY <1>4 DEF DetectTrigger, Remaining
  <2>2. IterationTyped'
    BY <1>0, <1>4, <2>1 DEF DetectTrigger, IterationTyped, saved, Stages
  <2>3. RowsTyped' /\ AccountsInv'
    BY <1>4, <2>1, AccountsUnchanged DEF DetectTrigger, InHand
  <2> QED BY <2>2, <2>3
<1>5. CASE StoreProposal
  <2>1. case \in Cases /\ case # NoCase
    BY <1>5 DEF StoreProposal, IterationTyped
  <2>2. IterationTyped'
    BY <1>0, <1>5, <2>1 DEF StoreProposal, IterationTyped, local, Stages, ProposalOf
  <2>3. RowsTyped' /\ AccountsInv'
    BY <1>5, ArtefactKeepsAccounts DEF StoreProposal, local
  <2> QED BY <2>2, <2>3
<1>6. CASE StoreReview
  <2>1. IterationTyped'
    BY <1>6 DEF StoreReview, IterationTyped, local, saved, Stages, ProposalOf
  <2>2. RowsTyped' /\ AccountsInv'
    BY <1>6, ArtefactKeepsAccounts DEF StoreReview, local
  <2> QED BY <2>1, <2>2
<1>7. CASE StoreDecision
  <2>1. case \in Cases /\ ProposalOf(case) \in proposals /\ case.symbol \in Symbols
    BY <1>0, <1>7 DEF StoreDecision, IterationTyped
  <2>2. IterationTyped'
    <3>1. decided' \subseteq proposals' /\ proposals' \subseteq Proposals /\ ok' \subseteq Symbols
      BY <1>7, <2>1 DEF StoreDecision, IterationTyped
    <3>2. case' \in Cases \cup {NoCase} /\ (case' = NoCase <=> stage' \in {"idle", "poll"})
          /\ stage' \in {"route", "poll"}
      BY <1>7, <1>0, <2>1 DEF StoreDecision
    <3> QED BY <1>7, <3>1, <3>2 DEF StoreDecision, IterationTyped, Stages
  <2>3. RowsTyped' /\ AccountsInv'
    BY <1>7, ArtefactKeepsAccounts DEF StoreDecision
  <2> QED BY <2>2, <2>3
<1>8. CASE Route
  <2>1. /\ case \in Cases /\ case.symbol \in Symbols /\ case # NoCase
        /\ stage = "route" /\ stage' = "poll" /\ case' = NoCase /\ run' = run
        /\ watched' = watched
    BY <1>0, <1>8 DEF Route, IterationTyped
  <2>2. IterationTyped'
    BY <1>8, <2>1 DEF Route, IterationTyped, FailedSymbols, saved, Stages
  <2>3. /\ RowsTyped' /\ BooksComplete' /\ AccountsFollowRuns'
        /\ \A d \in Decisions : \/ fills'[d].by = fills[d].by
                                \/ d = <<run, case.symbol>> /\ fills'[d].by = run
    BY <1>8, <2>1, PlaceOrderKeepsAccounts DEF Route
  <2>4. ExecutedAtOnce'
    <3>1. ExecutedAtOnce /\ run \in Nat
      BY <1>0 DEF AccountsInv, Runs
    <3>2. \A d \in Decisions : fills'[d].by \in {NoRun, RunOf(d)} /\ fills'[d].by <= run
      BY <1>0, <2>1, <2>3, <3>1, DecisionParts DEF ExecutedAtOnce
    <3>3. InHand' = watched /\ case.symbol \notin watched /\ watched \subseteq InHand
          /\ watched \subseteq Symbols
      BY <2>1, <3>1 DEF InHand, ExecutedAtOnce, IterationTyped
    <3>4. ASSUME NEW s \in watched PROVE fills'[<<run, s>>].by = NoRun
      <4>1. <<run, s>> \in Decisions /\ <<run, s>> # <<run, case.symbol>>
        BY <1>0, <3>3, DecisionParts
      <4> QED BY <4>1, <2>3, <3>1, <3>3 DEF ExecutedAtOnce
    <3> QED BY <2>1, <3>2, <3>3, <3>4 DEF ExecutedAtOnce
  <2> QED BY <2>2, <2>3, <2>4 DEF AccountsInv
<1>9. CASE SymbolFails
  <2>1. case \in Cases /\ case.symbol \in Symbols
    BY <1>0, <1>9 DEF SymbolFails, IterationTyped
  <2>2. IterationTyped'
    BY <1>9, <2>1 DEF SymbolFails, IterationTyped, FailedSymbols, saved, Stages
  <2>3. RowsTyped' /\ AccountsInv'
    BY <1>9, AccountsUnchanged DEF SymbolFails, InHand
  <2> QED BY <2>2, <2>3
<1>10. CASE CompleteIteration
  <2>1. IterationTyped'
    BY <1>10 DEF CompleteIteration, EndIteration, IterationTyped, Stages
  <2>2. RowsTyped' /\ AccountsInv'
    BY <1>10, AccountsUnchanged DEF CompleteIteration, EndIteration, InHand
  <2> QED BY <2>1, <2>2
<1>11. CASE Crash
  <2>1. IterationTyped'
    BY <1>11 DEF Crash, EndIteration, IterationTyped, saved, Stages
  <2>2. RowsTyped' /\ AccountsInv'
    BY <1>11, AccountsUnchanged DEF Crash, EndIteration, InHand
  <2> QED BY <2>1, <2>2
<1>12. CASE UNCHANGED vars
  <2>1. IterationTyped'
    BY <1>12 DEF vars, local, saved, IterationTyped, ProposalOf
  <2>2. RowsTyped' /\ AccountsInv'
    BY <1>12 DEF vars, local, saved, store, RowsTyped, AccountsInv, ExecutedAtOnce, InHand,
                 BooksComplete, AccountsFollowRuns
  <2> QED BY <2>1, <2>2
<1> QED BY <1>1, <1>2, <1>3, <1>4, <1>5, <1>6, <1>7, <1>8, <1>9, <1>10, <1>11, <1>12
        DEF Next, Iterate, CarryOut

(* The first run's fills are all accounted for by its account row.         *)
LEMMA MonitorStart ==
  ASSUME Init
  PROVE  MonitorInv
<1>0. 1 \in Runs /\ \A r \in Runs : r \in Nat /\ r >= 1
  BY RunsAssumption DEF Runs
<1>1. PICK held \in (SUBSET Symbols) \ {{}} :
        LET bought == [d \in Decisions |-> d[1] = 1 /\ d[2] \in held] IN
        /\ orders = [d \in Decisions |->
                       IF bought[d] THEN OrderRow("FILLED", "BUY", FALSE, FALSE, 2) ELSE NoOrder]
        /\ fills = [d \in Decisions |-> IF bought[d] THEN Fill(1, 2, FALSE) ELSE NoFill]
        /\ accounts = [r \in Runs |->
                         IF r = 1 THEN [at |-> 2, book |-> {1} \X held] ELSE NoAccount]
        /\ positions = [r \in Runs |-> IF r = 1 THEN held ELSE {}]
  BY DEF Init
<1>2. \A d \in Decisions :
        /\ orders[d] = IF d[1] = 1 /\ d[2] \in held
                       THEN OrderRow("FILLED", "BUY", FALSE, FALSE, 2) ELSE NoOrder
        /\ fills[d] = IF d[1] = 1 /\ d[2] \in held THEN Fill(1, 2, FALSE) ELSE NoFill
        /\ fills[d].by = IF d[1] = 1 /\ d[2] \in held THEN 1 ELSE NoRun
  BY <1>1 DEF Fill, NoFill
<1>9. ASSUME NEW d \in Decisions
      PROVE  /\ d[1] = 1 /\ d[2] \in held => fills[d].by = 1
             /\ ~(d[1] = 1 /\ d[2] \in held) => fills[d].by = 0
  <2>1. fills[d].by = IF d[1] = 1 /\ d[2] \in held THEN 1 ELSE NoRun
    BY <1>2
  <2> QED BY <2>1 DEF NoRun
<1>3. \A r \in Runs : /\ r = 1 => accounts[r].at = 2 /\ accounts[r].book = {1} \X held
                      /\ r # 1 => accounts[r] = NoAccount /\ accounts[r].at = 0
  BY <1>1 DEF NoAccount
<1>4. RowsTyped
  <2>1. OrderRow("FILLED", "BUY", FALSE, FALSE, 2) \in OrderRows /\ Fill(1, 2, FALSE) \in FillRows
    BY <1>0 DEF OrderRow, OrderRows, Fill, FillRows, Runs
  <2>2. orders \in [Decisions -> OrderRows] /\ fills \in [Decisions -> FillRows]
    <3>1. orders = [d \in Decisions |-> orders[d]] /\ fills = [d \in Decisions |-> fills[d]]
      BY <1>1
    <3> QED BY <1>2, <2>1, <3>1, EmptyRows
  <2>3. {1} \X held \in SUBSET Decisions
    BY <1>0 DEF Decisions
  <2>4. [at |-> 2, book |-> {1} \X held] \in AccountRows
    BY <2>3 DEF AccountRows
  <2>5. accounts \in [Runs -> AccountRows] /\ positions \in [Runs -> SUBSET Symbols]
    BY <1>1, <2>4, EmptyRows
  <2> QED BY <2>2, <2>5 DEF RowsTyped, Init
<1>5. IterationTyped
  BY <1>0, SessionsAssumption DEF Init, IterationTyped, Stages, Sessions, Cases, Triggers, NoCase
<1>6. ExecutedAtOnce
  <2>1. ASSUME NEW d \in Decisions
        PROVE  fills[d].by \in {NoRun, RunOf(d)} /\ fills[d].by <= run
    <3>1. run = 1 /\ RunOf(d) = d[1] /\ NoRun = 0
      BY DEF Init, RunOf, NoRun
    <3> QED BY <1>9, <3>1
  <2> QED BY <2>1 DEF ExecutedAtOnce, Init, InHand
<1>7. BooksComplete
  <2>1. {1} \X held = {d \in Decisions : fills[d].by \in 1..1}
    <3>1. \A d \in Decisions : fills[d].by \in 1..1 <=> d[1] = 1 /\ d[2] \in held
      BY <1>9
    <3>2. \A d \in {1} \X held : d \in Decisions /\ d[1] = 1 /\ d[2] \in held
      BY <1>0 DEF Decisions
    <3>3. \A d \in Decisions : d[1] = 1 /\ d[2] \in held => d \in {1} \X held
      BY DEF Decisions
    <3> QED BY <3>1, <3>2, <3>3
  <2>2. \A d \in Decisions : fills[d].by # NoRun => fills[d].by = 1
    BY <1>9 DEF NoRun
  <2> QED BY <1>0, <1>3, <2>1, <2>2 DEF BooksComplete
<1>8. AccountsFollowRuns
  BY <1>0, <1>3 DEF Init, AccountsFollowRuns
<1> QED BY <1>4, <1>5, <1>6, <1>7, <1>8 DEF MonitorInv, AccountsInv

LEMMA MonitorInvHolds == Spec => []MonitorInv
<1>1. Init => MonitorInv
  BY MonitorStart
<1>2. MonitorInv /\ [Next]_vars => MonitorInv'
  BY MonitorStep
<1> QED BY <1>1, <1>2, PTL DEF Spec

LEMMA MonitorInvTypes == MonitorInv => TypeOK
BY DEF MonitorInv, RowsTyped, IterationTyped, FillRows, AccountRows, TypeOK

(* The rows the monitor stores and the iteration in progress stay          *)
(* well-formed, over crashes, restarts and sessions.                       *)
THEOREM MonitorTyped == Spec => []TypeOK
BY MonitorInvHolds, MonitorInvTypes, PTL
(* Of the runs with an account row one is the last. *)
LEMMA LastAccountOfMonitor ==
  ASSUME RowsTyped, NEW q \in Runs, accounts[q].at # 0
  PROVE  \E r \in Runs : /\ accounts[r].at # 0
                         /\ \A t \in Runs : accounts[t].at # 0 => t <= r
<1> DEFINE R == {p \in Nat \X Nat : p[1] < p[2]}
           S == {n \in Nat : \E r \in Runs : accounts[r].at # 0 /\ n = MaxRuns - r}
<1>1. IsWellFoundedOn(R, Nat)
  BY NatLessThanWellFounded DEF OpToRel
<1>2. MaxRuns - q \in S
  BY RunsAssumption DEF Runs
<1>3. PICK n \in S : \A m \in S : ~(<<m, n>> \in R)
  <2>1. S \in SUBSET Nat /\ S # {}
    BY <1>2
  <2> HIDE DEF R, S
  <2> QED BY <1>1, <2>1, WFMin
<1>4. PICK r \in Runs : accounts[r].at # 0 /\ n = MaxRuns - r
  OBVIOUS
<1>5. ASSUME NEW t \in Runs, accounts[t].at # 0
      PROVE  t <= r
  <2>1. MaxRuns - t \in S
    BY <1>5, RunsAssumption DEF Runs
  <2>2. ~(MaxRuns - t < n)
    BY <1>3, <2>1
  <2> QED BY <1>4, <2>2, RunsAssumption DEF Runs
<1> QED BY <1>4, <1>5

(* The row updated last is that of the last run that has one.              *)
LEMMA MonitorAccountIsComplete ==
  ASSUME MonitorInv
  PROVE  LatestAccountShowsAllFills
<1>0. /\ \A r \in Runs : r \in Nat /\ accounts[r].at \in Nat
      /\ AccountsFollowRuns
  <2>1. \A r \in Runs : accounts[r].at \in Nat
    BY DEF MonitorInv, RowsTyped, AccountRows
  <2> QED BY <2>1 DEF Runs, MonitorInv, AccountsInv
<1>1. ASSUME NEW d \in Decisions, fills[d].by # NoRun
      PROVE  fills[d].by \in Runs /\ accounts[fills[d].by].at # 0
  <2>1. fills[d].by = RunOf(d)
    BY <1>1 DEF MonitorInv, AccountsInv, ExecutedAtOnce
  <2> QED BY <1>1, <2>1, DecisionParts DEF MonitorInv, AccountsInv, BooksComplete
<1>2. ASSUME NEW q \in Runs, accounts[q].at # 0
      PROVE  LatestAccount # {}
  <2>1. PICK r \in Runs : accounts[r].at # 0 /\ \A t \in Runs : accounts[t].at # 0 => t <= r
    BY <1>2, LastAccountOfMonitor DEF MonitorInv
  <2>2. \A t \in Runs : accounts[t].at <= accounts[r].at
    BY <1>0, <2>1 DEF AccountsFollowRuns
  <2> QED BY <2>1, <2>2 DEF LatestAccount
<1>3. ASSUME NEW r \in LatestAccount
      PROVE  accounts[r].book = Filled(fills)
  <2>1. /\ r \in Runs /\ accounts[r].at # 0
        /\ \A t \in Runs : accounts[t].at <= accounts[r].at
    BY DEF LatestAccount
  <2>2. \A t \in Runs : accounts[t].at # 0 => t <= r
    BY <1>0, <2>1 DEF AccountsFollowRuns
  <2>3. \A d \in Decisions : fills[d].by # NoRun <=> fills[d].by \in 1..r
    <3>1. \A d \in Decisions : fills[d].by # NoRun => fills[d].by \in 1..r
      BY <1>0, <1>1, <2>1, <2>2 DEF Runs
    <3> QED BY <3>1 DEF NoRun
  <2>4. accounts[r].book = {d \in Decisions : fills[d].by \in 1..r}
    BY <2>1 DEF MonitorInv, AccountsInv, BooksComplete
  <2> QED BY <2>3, <2>4 DEF Filled
<1>4. LatestAccount = {} => Filled(fills) = {}
  BY <1>1, <1>2 DEF Filled
<1> QED BY <1>3, <1>4 DEF LatestAccountShowsAllFills

(* Whatever sales the iterations make and whichever account rows their     *)
(* clean-ups delete, the row every reader takes for the portfolio's        *)
(* accounts for every fill there is (_delete_paper_artifacts_for_run_symbol *)
(* and replace_account_state under position_monitor/service.py).           *)
THEOREM MonitorAccountsShowAllFills == Spec => []LatestAccountShowsAllFills
BY MonitorInvHolds, MonitorAccountIsComplete, PTL
-----------------------------------------------------------------------------
(* The two loops over one set of rows.  The daily run is an instance of    *)
(* PaperRunProperties here; its types need only these facts about its      *)
(* stages: an order is routed for an approved symbol, and one is approved  *)
(* for an action.                                                          *)

DayStages ==
  /\ dayStage # "idle" => dayRun \in Day!Runs
  /\ dayStage \notin {"finalise", "route", "complete"} => approved = {}
  /\ dayStage = "route" => todo \subseteq approved
  /\ \A s \in approved : proposed[s] # "NONE"

DayInv == Day!TypeOK /\ DayStages

DayOrderRows == [status : Day!OrderStatuses, side : {"BUY", "SELL"}, queued : BOOLEAN,
                 ripe : BOOLEAN, settled : BOOLEAN, at : Nat]
DayRows == [status : Day!RunStatuses, ok : SUBSET Symbols, bad : SUBSET Symbols,
            scope : SUBSET Symbols, finished : BOOLEAN]

LEMMA DayParts ==
  /\ Day!Runs = Runs /\ Day!Decisions = Decisions /\ Day!NoRun = 0
  /\ Day!NoOrder \in DayOrderRows /\ Day!NoFill \in FillRows /\ Day!NoAccount \in AccountRows
  /\ \A r \in Runs, s \in Symbols : <<r, s>> \in Decisions
  /\ \A d \in Decisions : Day!SymbolOf(d) \in Symbols
<1>1. Day!Runs = Runs /\ Day!Decisions = Decisions /\ Day!NoRun = 0
  BY DEF Day!Runs, Runs, Day!Decisions, Decisions, Day!NoRun
<1>2. Day!NoOrder \in DayOrderRows
  BY DEF Day!NoOrder, DayOrderRows, Day!OrderStatuses
<1>3. Day!NoFill \in FillRows
  BY RunsAssumption DEF Day!NoFill, Day!NoRun, FillRows
<1>4. Day!NoAccount \in AccountRows
  BY DEF Day!NoAccount, AccountRows
<1>5. \A d \in Decisions : Day!SymbolOf(d) \in Symbols
  BY DEF Day!SymbolOf, Decisions
<1> QED BY <1>1, <1>2, <1>3, <1>4, <1>5 DEF Decisions

LEMMA DayStoreTypes ==
  Day!StoreTypeOK <=>
    /\ orders \in [Decisions -> DayOrderRows] /\ fills \in [Decisions -> FillRows]
    /\ accounts \in [Runs -> AccountRows] /\ positions \in [Runs -> SUBSET Symbols]
    /\ started \in [Runs -> Nat] /\ clock \in Nat
BY DayParts DEF Day!StoreTypeOK, DayOrderRows, FillRows, AccountRows

LEMMA DayStoreTypesNext ==
  Day!StoreTypeOK' <=>
    /\ orders' \in [Decisions -> DayOrderRows] /\ fills' \in [Decisions -> FillRows]
    /\ accounts' \in [Runs -> AccountRows] /\ positions' \in [Runs -> SUBSET Symbols]
    /\ started' \in [Runs -> Nat] /\ clock' \in Nat
BY DayParts DEF Day!StoreTypeOK, DayOrderRows, FillRows, AccountRows

LEMMA DayVisible ==
  ASSUME Day!StoreTypeOK
  PROVE  Day!VisiblePositions \subseteq Symbols /\ Day!PendingSymbols \subseteq Symbols
<1>1. Day!VisiblePositions \subseteq Symbols
  BY DayStoreTypes, DayParts DEF Day!VisiblePositions, Day!LatestAccount
<1>2. Day!PendingSymbols \subseteq Symbols
  BY DayParts DEF Day!PendingSymbols, Day!Pending
<1> QED BY <1>1, <1>2

LEMMA DayCleanUpTyped ==
  ASSUME Day!StoreTypeOK, NEW r \in Runs, NEW S, Day!CleanUp(r, S)
  PROVE  Day!StoreTypeOK'
<1>1. /\ orders \in [Decisions -> DayOrderRows] /\ fills \in [Decisions -> FillRows]
      /\ accounts \in [Runs -> AccountRows] /\ positions \in [Runs -> SUBSET Symbols]
      /\ started' \in [Runs -> Nat] /\ clock' \in Nat
  BY DayStoreTypes DEF Day!CleanUp
<1>2. orders' \in [Decisions -> DayOrderRows]
  BY <1>1, DayParts DEF Day!CleanUp
<1>3. fills' \in [Decisions -> FillRows]
  BY <1>1, DayParts DEF Day!CleanUp
<1>4. accounts' \in [Runs -> AccountRows]
  BY <1>1, DayParts DEF Day!CleanUp
<1>5. positions' \in [Runs -> SUBSET Symbols]
  BY <1>1, DayParts DEF Day!CleanUp
<1> QED BY <1>1, <1>2, <1>3, <1>4, <1>5, DayStoreTypesNext

LEMMA DayStoreAccountTyped ==
  ASSUME Day!StoreTypeOK, NEW r \in Runs, NEW os \in [Decisions -> DayOrderRows],
         NEW fs \in [Decisions -> FillRows], NEW stamp \in Nat,
         Day!StoreAccount(r, os, fs, stamp)
  PROVE  Day!StoreTypeOK'
<1>1. /\ accounts \in [Runs -> AccountRows] /\ positions \in [Runs -> SUBSET Symbols]
      /\ started \in [Runs -> Nat] /\ clock \in Nat
  BY DayStoreTypes
<1>2. orders' = os /\ fills' = fs /\ started' = started /\ clock' \in Nat
  BY <1>1 DEF Day!StoreAccount
<1>3. [at |-> stamp, book |-> Day!Filled(fs)] \in AccountRows
  BY DayParts DEF Day!Filled, AccountRows
<1>4. accounts' \in [Runs -> AccountRows]
  BY <1>1, <1>3 DEF Day!StoreAccount
<1>5. \A time : Day!PositionRows(r, os, fs, time) \in SUBSET Symbols
  BY DEF Day!PositionRows, Day!HeldAt
<1>6. positions' \in [Runs -> SUBSET Symbols]
  BY <1>1, <1>5 DEF Day!StoreAccount
<1> QED BY <1>1, <1>2, <1>4, <1>6, DayStoreTypesNext

LEMMA DayPlaceOrderTyped ==
  ASSUME Day!StoreTypeOK, NEW r \in Runs, NEW s \in Symbols, NEW side \in {"BUY", "SELL"},
         NEW queued \in BOOLEAN, NEW stamp \in Nat, Day!PlaceOrder(r, s, side, queued, stamp)
  PROVE  Day!StoreTypeOK'
<1> DEFINE d == <<r, s>>
           earlier == [fills EXCEPT ![d] = Day!NoFill]
           put(word, fs) ==
             Day!StoreAccount(r, [orders EXCEPT ![d] = Day!OrderRow(word, side, queued, FALSE, stamp)],
                              fs, stamp)
<1>1. orders \in [Decisions -> DayOrderRows] /\ fills \in [Decisions -> FillRows]
      /\ earlier \in [Decisions -> FillRows]
  BY DayStoreTypes, DayParts
<1>2. \E word \in {"REJECTED", "PENDING_NEXT_OPEN", "FILLED"}, fs \in [Decisions -> FillRows] :
        put(word, fs)
  <2>1. \/ put("REJECTED", earlier)
        \/ put("PENDING_NEXT_OPEN", earlier)
        \/ \E closes \in BOOLEAN : put("FILLED", [earlier EXCEPT ![d] = Day!Fill(r, stamp, closes)])
    <3> HIDE DEF put, earlier, d
    <3> QED BY DEF Day!PlaceOrder, put, earlier, d
  <2>2. \A closes \in BOOLEAN : Day!Fill(r, stamp, closes) \in FillRows
    BY DEF Day!Fill, FillRows, Runs
  <2> HIDE DEF put, earlier, d
  <2>3. \A closes \in BOOLEAN :
          [earlier EXCEPT ![d] = Day!Fill(r, stamp, closes)] \in [Decisions -> FillRows]
    BY <1>1, <2>2
  <2> QED BY <1>1, <2>1, <2>3
<1>3. PICK word \in {"REJECTED", "PENDING_NEXT_OPEN", "FILLED"}, fs \in [Decisions -> FillRows] :
        put(word, fs)
  BY <1>2
<1>4. [orders EXCEPT ![d] = Day!OrderRow(word, side, queued, FALSE, stamp)]
        \in [Decisions -> DayOrderRows]
  BY <1>1 DEF Day!OrderRow, DayOrderRows, Day!OrderStatuses
<1> QED BY <1>3, <1>4, DayStoreAccountTyped

LEMMA DayCount == \A T : Day!Cardinality(T) = Cardinality(T)
BY DEF Day!Cardinality, Cardinality

LEMMA DaySettleTyped ==
  ASSUME Day!StoreTypeOK, NEW r \in Runs, Day!SettleQueue(r)
  PROVE  Day!StoreTypeOK'
<1> DEFINE batch == Day!SettlementBatch
           now == clock + 1
           turn(d) == now + Day!Cardinality({e \in batch : orders[e].at <= orders[d].at})
           stamp == now + Day!Cardinality(batch)
           settled(filled) ==
             [d \in Day!Decisions |->
                IF d \in batch
                THEN Day!OrderRow(IF d \in filled THEN "FILLED" ELSE "REJECTED",
                                  orders[d].side, TRUE, TRUE, turn(d))
                ELSE orders[d]]
           withFills(filled, closing) ==
             [d \in Day!Decisions |->
                IF d \in filled THEN Day!Fill(r, turn(d), d \in closing) ELSE fills[d]]
<1>1. batch \in SUBSET Decisions
  BY DayParts DEF Day!SettlementBatch, Day!Pending
<1>2. \A T \in SUBSET Decisions : Day!Cardinality(T) \in Nat
  <2>1. IsFiniteSet(Runs)
    BY FS_Interval, RunsAssumption DEF Runs
  <2>2. IsFiniteSet(Decisions)
    BY <2>1, SymbolsAssumption, FS_Product DEF Decisions
  <2> QED BY <2>2, DayCount, FS_Subset, FS_CardinalityType
<1>3. /\ clock \in Nat /\ now \in Nat /\ orders \in [Decisions -> DayOrderRows]
      /\ fills \in [Decisions -> FillRows]
  BY DayStoreTypes
<1>4. (\A d \in Decisions : turn(d) \in Nat) /\ stamp \in Nat
  BY <1>1, <1>2, <1>3
<1>5. PICK filled \in SUBSET batch : \E closing \in SUBSET filled :
        Day!StoreAccount(r, settled(filled), withFills(filled, closing), stamp)
  BY DEF Day!SettleQueue
<1>6. PICK closing \in SUBSET filled :
        Day!StoreAccount(r, settled(filled), withFills(filled, closing), stamp)
  BY <1>5
<1> HIDE DEF batch, now, turn, stamp
<1>7. settled(filled) \in [Decisions -> DayOrderRows]
  BY <1>3, <1>4, DayParts DEF Day!OrderRow, Day!OrderStatuses, DayOrderRows
<1>8. withFills(filled, closing) \in [Decisions -> FillRows]
  BY <1>3, <1>4, DayParts DEF Day!Fill, FillRows, Runs
<1> HIDE DEF settled, withFills
<1> QED BY <1>4, <1>6, <1>7, <1>8, DayStoreAccountTyped

LEMMA DayImportTyped ==
  ASSUME Day!StoreTypeOK, NEW S, Day!ImportBars(S)
  PROVE  Day!StoreTypeOK'
<1>1. /\ orders \in [Decisions -> DayOrderRows]
      /\ UNCHANGED <<fills, accounts, positions, started, clock>>
  BY DayStoreTypes DEF Day!ImportBars
<1>2. ASSUME NEW d \in Decisions
      PROVE  orders[d] \in DayOrderRows /\ [orders[d] EXCEPT !.ripe = TRUE] \in DayOrderRows
  BY <1>1 DEF DayOrderRows
<1>3. orders' = [d \in Decisions |-> orders'[d]]
      /\ \A d \in Decisions : orders'[d] \in {orders[d], [orders[d] EXCEPT !.ripe = TRUE]}
  BY DayParts DEF Day!ImportBars
<1>4. orders' \in [Decisions -> DayOrderRows]
  BY <1>2, <1>3
<1> QED BY <1>1, <1>4, DayStoreTypes, DayStoreTypesNext

LEMMA DayStoreKept ==
  ASSUME Day!StoreTypeOK, UNCHANGED store
  PROVE  Day!StoreTypeOK'
BY DayStoreTypes, DayStoreTypesNext DEF store
(* A day step that leaves the store alone or keeps its types, and one that *)
(* ends the run.                                                           *)
LEMMA DayStatus ==
  ASSUME NEW good, NEW failed
  PROVE  Day!StatusFor(good, failed) \in Day!RunStatuses
BY DEF Day!StatusFor, Day!RunStatuses

LEMMA DayEnds ==
  ASSUME DayInv, Day!EndRun, UNCHANGED <<store, dayRun>>, row' \in DayRows
  PROVE  DayInv'
<1>1. Day!StoreTypeOK'
  BY DayStoreKept DEF DayInv, Day!TypeOK
<1>2. Day!NoProposals \in [Symbols -> Day!ProposedActions]
  BY DEF Day!NoProposals, Day!ProposedActions
<1>3. Day!RunTypeOK'
  BY <1>2 DEF DayInv, Day!TypeOK, Day!RunTypeOK, Day!EndRun, Day!Stages, DayRows
<1>4. DayStages'
  BY DEF Day!EndRun, DayStages
<1> QED BY <1>1, <1>3, <1>4 DEF DayInv, Day!TypeOK

LEMMA DayStart == Day!Init => DayInv
<1> SUFFICES ASSUME Day!Init PROVE DayInv
  OBVIOUS
<1>1. Day!StoreTypeOK
  BY DayParts, DayStoreTypes DEF Day!Init, Day!InitStore
<1>2. Day!RunTypeOK
  BY RunsAssumption DEF Day!Init, Day!RunTypeOK, Day!Stages, Day!NoRun, Day!NoProposals,
                        Day!ProposedActions, Day!NoRow, Day!RunStatuses
<1>3. DayStages
  BY DEF Day!Init, DayStages
<1> QED BY <1>1, <1>2, <1>3 DEF DayInv, Day!TypeOK

LEMMA DayBegins ==
  ASSUME DayInv, Day!BeginRun
  PROVE  DayInv'
<1> USE DEF DayInv, Day!TypeOK
<1>1. /\ UNCHANGED <<orders, fills, accounts, positions>> /\ clock' = clock + 1
      /\ dayRun' = dayRun + 1 /\ dayStage' = "data" /\ dayStage = "idle" /\ dayRun < MaxRuns
      /\ UNCHANGED <<todo, midway, proposed, approved, funded, dayOk, dayBad>>
  BY DEF Day!BeginRun
<1>2. dayRun' \in Day!Runs /\ clock \in Nat
  BY <1>1, RunsAssumption, DayStoreTypes DEF Day!RunTypeOK, Day!Runs
<1>3. Day!StoreTypeOK'
  <2>1. started' \in [Runs -> Nat]
    <3>1. started \in [Runs -> Nat] /\ clock + 1 \in Nat
      BY <1>2, DayStoreTypes
    <3>2. started' = [started EXCEPT ![dayRun + 1] = clock + 1]
      BY DEF Day!BeginRun
    <3> QED BY <3>1, <3>2
  <2> QED BY <1>1, <1>2, <2>1, DayStoreTypes, DayStoreTypesNext
<1>4. PICK requested \in (SUBSET Symbols) \ {{}} :
        LET symbols == requested \cup Day!VisiblePositions \cup Day!PendingSymbols IN
        scope' = symbols /\ Day!StoreRow("RUNNING", {}, {}, symbols, FALSE)
  BY DEF Day!BeginRun
<1>5. scope' \subseteq Symbols
  BY <1>4, DayVisible
<1>6. row' = [status |-> "RUNNING", ok |-> {}, bad |-> {}, scope |-> scope', finished |-> FALSE]
  BY <1>4 DEF Day!StoreRow
<1>7. Day!RunTypeOK'
  BY <1>1, <1>2, <1>5, <1>6 DEF Day!RunTypeOK, Day!Stages, Day!RunStatuses, Day!Runs
<1> QED BY <1>1, <1>2, <1>3, <1>7 DEF DayStages

LEMMA DaySetup ==
  ASSUME DayInv, Day!Setup
  PROVE  DayInv'
<1> USE DEF DayInv, Day!TypeOK
<1>1. CASE Day!LoadLatestInputs
  <2>1. PICK S \in SUBSET Symbols : Day!ImportBars(S)
    BY <1>1 DEF Day!LoadLatestInputs
  <2>2. /\ UNCHANGED <<dayRun, row, Day!local>> /\ dayStage = "data" /\ dayStage' = "settle"
    BY <1>1 DEF Day!LoadLatestInputs
  <2>3. Day!StoreTypeOK'
    BY <2>1, DayImportTyped
  <2>4. Day!RunTypeOK' /\ DayStages'
    BY <2>2 DEF Day!RunTypeOK, DayStages, Day!local, Day!Stages
  <2> QED BY <2>3, <2>4
<1>2. CASE Day!SettlePending
  <2>1. /\ UNCHANGED <<dayRun, row, Day!local>> /\ dayStage = "settle" /\ dayStage' = "select"
        /\ Day!SettleQueue(dayRun)
    BY <1>2 DEF Day!SettlePending
  <2>2. Day!StoreTypeOK'
    BY <2>1, DaySettleTyped, DayParts DEF DayStages
  <2>3. Day!RunTypeOK' /\ DayStages'
    BY <2>1 DEF Day!RunTypeOK, DayStages, Day!local, Day!Stages
  <2> QED BY <2>2, <2>3
<1>3. CASE Day!SelectSymbols
  <2>1. /\ UNCHANGED <<store, dayRun, midway, proposed, approved, funded, dayOk, dayBad>>
        /\ dayStage = "select" /\ dayStage' = "analyse"
    BY <1>3 DEF Day!SelectSymbols, Day!store, store
  <2>2. Day!StoreTypeOK'
    BY <2>1, DayStoreKept
  <2>3. /\ scope' \subseteq Symbols /\ todo' = scope'
        /\ row' = [status |-> "RUNNING", ok |-> {}, bad |-> {}, scope |-> scope',
                   finished |-> FALSE]
    BY <1>3, DayVisible, DayParts DEF Day!SelectSymbols, Day!StoreRow
  <2>4. Day!RunTypeOK' /\ DayStages'
    BY <2>1, <2>3 DEF Day!RunTypeOK, DayStages, Day!Stages, Day!RunStatuses
  <2> QED BY <2>2, <2>4
<1>4. CASE Day!SetupFails
  <2>1. Day!EndRun /\ UNCHANGED <<store, dayRun>>
    BY <1>4 DEF Day!SetupFails, Day!store, store
  <2>2. row' \in DayRows
    BY <1>4 DEF Day!SetupFails, Day!StoreRow, Day!RunStatuses, Day!RunTypeOK, DayRows
  <2> QED BY <2>1, <2>2, DayEnds
<1> QED BY <1>1, <1>2, <1>3, <1>4 DEF Day!Setup

LEMMA DaySymbolFails ==
  ASSUME DayInv, Day!SymbolFails \/ Day!SymbolAborts
  PROVE  DayInv'
<1> USE DEF DayInv, Day!TypeOK
<1>1. Day!Failing \subseteq Symbols
  BY DEF Day!Failing, Day!RunTypeOK
<1>2. CASE Day!SymbolFails
  <2>1. /\ UNCHANGED <<store, dayRun, dayStage, scope, proposed, approved, funded, dayOk>>
        /\ midway' = {} /\ dayStage \in {"analyse", "finalise"}
    BY <1>2 DEF Day!SymbolFails, Day!store, store
  <2>2. PICK s \in Day!Failing : /\ dayBad' = dayBad \cup {s} /\ todo' = todo \ {s}
                                 /\ Day!StoreProgress(dayOk, dayBad \cup {s})
    BY <1>2 DEF Day!SymbolFails, Day!LeftAfterFailure
  <2>3. row' \in DayRows
    BY <1>1, <2>2, DayStatus DEF Day!StoreProgress, Day!StoreRow, Day!RunTypeOK, DayRows
  <2>4. Day!StoreTypeOK'
    BY <2>1, DayStoreKept
  <2>5. Day!RunTypeOK' /\ DayStages'
    BY <1>1, <2>1, <2>2, <2>3 DEF Day!RunTypeOK, DayRows, DayStages
  <2> QED BY <2>4, <2>5
<1>3. CASE Day!SymbolAborts
  <2>1. Day!EndRun /\ UNCHANGED <<store, dayRun>>
    BY <1>3 DEF Day!SymbolAborts, Day!store, store
  <2>2. row' \in DayRows
    BY <1>1, <1>3 DEF Day!SymbolAborts, Day!StoreRow, Day!RunStatuses, Day!RunTypeOK, DayRows
  <2> QED BY <2>1, <2>2, DayEnds
<1> QED BY <1>2, <1>3

LEMMA DayAnalyses ==
  ASSUME DayInv, Day!Analyse
  PROVE  DayInv'
<1> USE DEF DayInv, Day!TypeOK
<1>1. CASE Day!StoreDebate
  <2>1. PICK s \in todo : Day!CleanUp(dayRun, {s}) /\ midway' = {s}
    BY <1>1 DEF Day!StoreDebate
  <2>2. /\ UNCHANGED <<dayRun, dayStage, row, scope, todo, proposed, approved, funded, dayOk, dayBad>>
        /\ dayStage = "analyse"
    BY <1>1 DEF Day!StoreDebate
  <2>3. Day!StoreTypeOK'
    BY <2>1, <2>2, DayCleanUpTyped, DayParts DEF DayStages
  <2>4. Day!RunTypeOK' /\ DayStages'
    BY <2>1, <2>2 DEF Day!RunTypeOK, DayStages
  <2> QED BY <2>3, <2>4
<1>2. CASE Day!StoreProposal
  <2>1. PICK s \in midway : /\ \E action \in Day!AllowedActions(s) :
                                  proposed' = [proposed EXCEPT ![s] = action]
                             /\ Day!CleanUp(dayRun, {s}) /\ todo' = todo \ {s}
    BY <1>2 DEF Day!StoreProposal
  <2>2. /\ UNCHANGED <<dayRun, dayStage, scope, approved, funded, dayOk, dayBad>>
        /\ dayStage = "analyse" /\ midway' = {} /\ Day!StoreProgress(dayOk, dayBad)
    BY <1>2 DEF Day!StoreProposal
  <2>3. Day!StoreTypeOK'
    BY <2>1, <2>2, DayCleanUpTyped, DayParts DEF DayStages
  <2>4. Day!AllowedActions(s) \subseteq Day!ProposedActions
    BY DEF Day!AllowedActions, Day!ProposedActions
  <2>5. row' \in DayRows
    BY <2>2, DayStatus DEF Day!StoreProgress, Day!StoreRow, Day!RunTypeOK, DayRows
  <2>6. Day!RunTypeOK'
    BY <2>1, <2>2, <2>4, <2>5 DEF Day!RunTypeOK, DayRows
  <2>7. DayStages'
    BY <2>2 DEF DayStages
  <2> QED BY <2>3, <2>6, <2>7
<1>3. CASE Day!AnalysisDone
  <2>1. /\ UNCHANGED <<store, dayRun, Day!local, row>>
        /\ dayStage = "analyse" /\ dayStage' \in {"complete", "allocate"}
    BY <1>3 DEF Day!AnalysisDone, Day!store, store
  <2>2. Day!StoreTypeOK'
    BY <2>1, DayStoreKept
  <2>3. Day!RunTypeOK' /\ DayStages'
    BY <2>1 DEF Day!RunTypeOK, DayStages, Day!local, Day!Stages
  <2> QED BY <2>2, <2>3
<1>4. CASE Day!SymbolFails \/ Day!SymbolAborts
  BY <1>4, DaySymbolFails
<1> QED BY <1>1, <1>2, <1>3, <1>4 DEF Day!Analyse

LEMMA DayFinalises ==
  ASSUME DayInv, Day!Finalise
  PROVE  DayInv'
<1> USE DEF DayInv, Day!TypeOK
<1>1. CASE Day!Allocate
  <2>1. PICK buys \in SUBSET Symbols : \E sales \in SUBSET (Day!VisiblePositions \ buys) :
          LET symbols == scope \cup buys \cup sales IN
          /\ Day!CleanUp(dayRun, (scope \ dayBad) \cup buys \cup sales)
          /\ proposed' = [s \in Symbols |-> IF s \in buys THEN "BUY"
                                             ELSE IF s \in sales THEN "SELL" ELSE proposed[s]]
          /\ scope' = symbols /\ todo' = symbols \ dayBad
          /\ funded' \in SUBSET (symbols \ dayBad)
          /\ Day!StoreRow(row.status, dayOk, dayBad, symbols, FALSE)
    BY <1>1 DEF Day!Allocate
  <2>2. PICK sales \in SUBSET (Day!VisiblePositions \ buys) :
          LET symbols == scope \cup buys \cup sales IN
          /\ Day!CleanUp(dayRun, (scope \ dayBad) \cup buys \cup sales)
          /\ proposed' = [s \in Symbols |-> IF s \in buys THEN "BUY"
                                             ELSE IF s \in sales THEN "SELL" ELSE proposed[s]]
          /\ scope' = symbols /\ todo' = symbols \ dayBad
          /\ funded' \in SUBSET (symbols \ dayBad)
          /\ Day!StoreRow(row.status, dayOk, dayBad, symbols, FALSE)
    BY <2>1
  <2>3. /\ UNCHANGED <<dayRun, midway, approved, dayOk, dayBad>>
        /\ dayStage = "allocate" /\ dayStage' = "finalise"
    BY <1>1 DEF Day!Allocate
  <2>4. Day!StoreTypeOK'
    BY <2>2, <2>3, DayCleanUpTyped, DayParts DEF DayStages
  <2>5. proposed' \in [Symbols -> Day!ProposedActions]
    BY <2>2 DEF Day!RunTypeOK, Day!ProposedActions
  <2>6. scope' \subseteq Symbols /\ todo' \subseteq Symbols /\ funded' \subseteq Symbols
    BY <2>2, DayVisible DEF Day!RunTypeOK
  <2>7. row' \in DayRows
    BY <2>2, DayVisible DEF Day!StoreRow, Day!RunTypeOK, DayRows
  <2>8. Day!RunTypeOK'
    BY <2>3, <2>5, <2>6, <2>7 DEF Day!RunTypeOK, Day!Stages, DayRows
  <2>9. DayStages'
    BY <2>3 DEF DayStages
  <2> QED BY <2>4, <2>8, <2>9
<1>2. CASE Day!AllocationFails
  <2>1. /\ UNCHANGED <<store, dayRun, scope, todo, midway, proposed, approved, funded, dayOk>>
        /\ dayStage = "allocate" /\ dayStage' = "complete"
        /\ dayBad' = dayBad \cup Day!FailedByAllocation /\ Day!StoreProgress(dayOk, dayBad')
    BY <1>2 DEF Day!AllocationFails, Day!store, store
  <2>2. Day!StoreTypeOK'
    BY <2>1, DayStoreKept
  <2>3. dayBad' \subseteq Symbols
    BY <2>1 DEF Day!FailedByAllocation, Day!RunTypeOK
  <2>4. row' \in DayRows
    BY <2>1, <2>3, DayStatus DEF Day!StoreProgress, Day!StoreRow, Day!RunTypeOK, DayRows
  <2>5. Day!RunTypeOK' /\ DayStages'
    BY <2>1, <2>3, <2>4 DEF Day!RunTypeOK, DayStages, Day!Stages, DayRows
  <2> QED BY <2>2, <2>5
<1>3. CASE Day!AllocationAborts
  <2>1. Day!EndRun /\ UNCHANGED <<store, dayRun>>
    BY <1>3 DEF Day!AllocationAborts, Day!store, store
  <2>2. row' \in DayRows
    BY <1>3 DEF Day!AllocationAborts, Day!StoreRow, Day!RunStatuses, Day!RunTypeOK,
                Day!FailedByAllocation, DayRows
  <2> QED BY <2>1, <2>2, DayEnds
<1>4. CASE Day!StoreReview
  <2>1. PICK s \in todo : Day!CleanUp(dayRun, {s}) /\ midway' = {s}
    BY <1>4 DEF Day!StoreReview
  <2>2. /\ UNCHANGED <<dayRun, dayStage, row, scope, todo, proposed, approved, funded, dayOk, dayBad>>
        /\ dayStage = "finalise"
    BY <1>4 DEF Day!StoreReview
  <2>3. Day!StoreTypeOK'
    BY <2>1, <2>2, DayCleanUpTyped, DayParts DEF DayStages
  <2>4. Day!RunTypeOK' /\ DayStages'
    BY <2>1, <2>2 DEF Day!RunTypeOK, DayStages
  <2> QED BY <2>3, <2>4
<1>5. CASE Day!StoreDecision
  <2>1. PICK s \in midway :
          /\ Day!CleanUp(dayRun, {s}) /\ todo' = todo \ {s} /\ dayOk' = dayOk \cup {s}
          /\ approved' \in {approved} \cup
               (IF proposed[s] = "NONE" THEN {} ELSE {approved \cup {s}})
          /\ Day!StoreProgress(dayOk', dayBad)
    BY <1>5 DEF Day!StoreDecision
  <2>2. /\ UNCHANGED <<dayRun, dayStage, scope, proposed, funded, dayBad>>
        /\ dayStage = "finalise" /\ midway' = {}
    BY <1>5 DEF Day!StoreDecision
  <2>3. Day!StoreTypeOK'
    BY <2>1, <2>2, DayCleanUpTyped, DayParts DEF DayStages
  <2>4. s \in Symbols /\ approved' \subseteq approved \cup {s}
        /\ \A t \in approved' : proposed[t] # "NONE"
    BY <2>1 DEF DayStages, Day!RunTypeOK
  <2>5. row' \in DayRows
    BY <2>1, <2>4, DayStatus DEF Day!StoreProgress, Day!StoreRow, Day!RunTypeOK, DayRows
  <2>6. Day!RunTypeOK' /\ DayStages'
    BY <2>1, <2>2, <2>4, <2>5 DEF Day!RunTypeOK, DayRows, DayStages
  <2> QED BY <2>3, <2>6
<1>6. CASE Day!FinalisationDone
  <2>1. /\ UNCHANGED <<store, dayRun, scope, midway, proposed, approved, funded, dayOk, dayBad, row>>
        /\ dayStage = "finalise" /\ dayStage' \in {"complete", "route"}
        /\ todo' = dayOk \cap funded \cap approved
    BY <1>6 DEF Day!FinalisationDone, Day!store, store
  <2>2. Day!StoreTypeOK'
    BY <2>1, DayStoreKept
  <2>3. Day!RunTypeOK' /\ DayStages'
    BY <2>1 DEF Day!RunTypeOK, Day!Stages, DayStages
  <2> QED BY <2>2, <2>3
<1>7. CASE Day!SymbolFails \/ Day!SymbolAborts
  BY <1>7, DaySymbolFails
<1> QED BY <1>1, <1>2, <1>3, <1>4, <1>5, <1>6, <1>7 DEF Day!Finalise

LEMMA DayExecutes ==
  ASSUME DayInv, Day!Execute
  PROVE  DayInv'
<1> USE DEF DayInv, Day!TypeOK
<1>1. CASE Day!Route
  <2>1. PICK s \in todo : /\ Day!PlaceOrder(dayRun, s, proposed[s], dayRun \in AfterClose, clock + 1)
                           /\ todo' = todo \ {s}
                           /\ dayBad' \in {dayBad, dayBad \cup Day!FailedByRouting(s)}
    BY <1>1 DEF Day!Route
  <2>2. /\ UNCHANGED <<dayRun, dayStage, scope, midway, proposed, approved, funded, dayOk, row>>
        /\ dayStage = "route"
    BY <1>1 DEF Day!Route
  <2>3. s \in Symbols /\ dayRun \in Runs /\ proposed[s] \in {"BUY", "SELL"} /\ clock + 1 \in Nat
    BY <2>2, DayParts, DayStoreTypes DEF DayStages, Day!RunTypeOK, Day!ProposedActions
  <2>4. Day!StoreTypeOK'
    <3> DEFINE queued == dayRun \in AfterClose
    <3>1. queued \in BOOLEAN
      OBVIOUS
    <3>2. Day!PlaceOrder(dayRun, s, proposed[s], queued, clock + 1)
      BY <2>1
    <3> HIDE DEF queued
    <3> QED BY <2>3, <3>1, <3>2, DayPlaceOrderTyped
  <2>5. Day!RunTypeOK' /\ DayStages'
    BY <2>1, <2>2, <2>3 DEF Day!RunTypeOK, Day!FailedByRouting, DayStages
  <2> QED BY <2>4, <2>5
<1>2. CASE Day!RouteFails
  <2>1. PICK s \in todo : todo' = todo \ {s} /\ dayBad' = dayBad \cup Day!FailedByRouting(s)
    BY <1>2 DEF Day!RouteFails
  <2>2. /\ UNCHANGED <<store, dayRun, dayStage, scope, midway, proposed, approved, funded, dayOk, row>>
        /\ dayStage = "route"
    BY <1>2 DEF Day!RouteFails, Day!store, store
  <2>3. Day!StoreTypeOK'
    BY <2>2, DayStoreKept
  <2>4. Day!RunTypeOK' /\ DayStages'
    BY <2>1, <2>2 DEF Day!RunTypeOK, Day!FailedByRouting, DayStages
  <2> QED BY <2>3, <2>4
<1>3. CASE Day!RoutingDone
  <2>1. /\ UNCHANGED <<store, dayRun, Day!local>> /\ Day!StoreProgress(dayOk, dayBad)
        /\ dayStage = "route" /\ dayStage' = "complete"
    BY <1>3 DEF Day!RoutingDone, Day!store, store
  <2>2. Day!StoreTypeOK'
    BY <2>1, DayStoreKept
  <2>3. row' \in DayRows
    BY <2>1, DayStatus DEF Day!StoreProgress, Day!StoreRow, Day!RunTypeOK, DayRows
  <2>4. Day!RunTypeOK' /\ DayStages'
    BY <2>1, <2>3 DEF Day!RunTypeOK, DayStages, Day!local, Day!Stages, DayRows
  <2> QED BY <2>2, <2>4
<1>4. CASE Day!Complete
  <2>1. Day!EndRun /\ UNCHANGED <<store, dayRun>>
    BY <1>4 DEF Day!Complete, Day!store, store
  <2>2. row' \in DayRows
    BY <1>4, DayStatus DEF Day!Complete, Day!StoreRow, Day!RunTypeOK, DayRows
  <2> QED BY <2>1, <2>2, DayEnds
<1> QED BY <1>1, <1>2, <1>3, <1>4 DEF Day!Execute

LEMMA DayStep ==
  ASSUME DayInv, Day!Next
  PROVE  DayInv'
<1>1. CASE Day!BeginRun
  BY <1>1, DayBegins
<1>2. CASE Day!RunStep
  BY <1>2, DaySetup, DayAnalyses, DayFinalises, DayExecutes DEF Day!RunStep
<1>3. CASE Day!Crash
  <2>1. Day!EndRun /\ UNCHANGED <<store, dayRun, row>>
    BY <1>3 DEF Day!Crash, Day!store, store
  <2>2. row' \in DayRows
    BY <2>1 DEF DayInv, Day!TypeOK, Day!RunTypeOK, DayRows
  <2> QED BY <2>1, <2>2, DayEnds
<1> QED BY <1>1, <1>2, <1>3 DEF Day!Next

LoopInv == (loop = "monitor" => MonitorInv) /\ (loop = "daily" => DayInv)

LEMMA LoopStep == LoopInv /\ [LoopNext]_loopVars => LoopInv'
<1> SUFFICES ASSUME LoopInv, [LoopNext]_loopVars PROVE LoopInv'
  OBVIOUS
<1> USE DEF LoopInv
<1>1. CASE loop = "monitor" /\ Next /\ UNCHANGED <<loop, dayLocal>>
  BY <1>1, MonitorStep
<1>2. CASE loop = "daily" /\ Day!Next /\ UNCHANGED <<loop, monitorLocal>>
  BY <1>2, DayStep
<1>3. CASE UNCHANGED loopVars
  <2>1. CASE loop = "monitor"
    <3>1. UNCHANGED vars /\ loop' = loop
      BY <1>3 DEF loopVars, vars, monitorLocal
    <3> QED BY <2>1, <3>1, MonitorStep
  <2>2. CASE loop = "daily"
    <3>1. UNCHANGED store /\ UNCHANGED dayLocal /\ loop' = loop
      BY <1>3 DEF loopVars
    <3>2. Day!StoreTypeOK'
      BY <2>2, <3>1, DayStoreKept DEF DayInv, Day!TypeOK
    <3>3. Day!RunTypeOK' /\ DayStages'
      BY <2>2, <3>1 DEF dayLocal, DayInv, Day!TypeOK, Day!RunTypeOK, DayStages
    <3> QED BY <2>2, <3>1, <3>2, <3>3 DEF DayInv, Day!TypeOK
  <2> QED BY <1>3, <2>1, <2>2 DEF loopVars
<1> QED BY <1>1, <1>2, <1>3 DEF LoopNext

(* Whichever loop works on the portfolio, the rows both of them keep and   *)
(* its own state stay well-formed (paper_trading/service.py, run_once;     *)
(* position_monitor/service.py, run_once); no fairness is needed.          *)
THEOREM LoopsTyped == LoopFairSpec => []LoopTypeOK
<1>1. LoopInit => LoopInv
  BY MonitorStart, DayStart DEF LoopInit, LoopInv
<1>2. LoopInv => LoopTypeOK
  BY MonitorInvTypes DEF LoopInv, LoopTypeOK, DayInv
<1> QED BY <1>1, <1>2, LoopStep, PTL DEF LoopFairSpec
=============================================================================
