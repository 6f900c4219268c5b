---------------------------- MODULE RunArtifacts ----------------------------
(***************************************************************************)
(* The rows that paper runs and monitor iterations of one portfolio leave  *)
(* behind: the order of each final decision, its fills, and of each run an *)
(* account row and position rows; and the clean-up that removes what a run *)
(* holds of a symbol whenever an artefact of that run and symbol is stored *)
(* again.                                                                  *)
(*                                                                         *)
(* Quantities and money are abstracted: a filled BUY adds to the holding   *)
(* of its symbol, a filled SELL takes part or all of it, and an account    *)
(* row is known by the fills its cash accounts for.  PaperBroker has the   *)
(* arithmetic.                                                             *)
(***************************************************************************)
EXTENDS Naturals, FiniteSets

CONSTANTS
  Symbols,
  MaxRuns     \* bound on the number of runs

ASSUME RunsAssumption == MaxRuns \in Nat \ {0}
ASSUME SymbolsAssumption == IsFiniteSet(Symbols)

Runs == 1..MaxRuns              \* paper runs and monitor iterations alike
Decisions == Runs \X Symbols    \* a run decides once about a symbol
RunOf(d) == d[1]
SymbolOf(d) == d[2]

VARIABLES
  orders,      \* order row of each decision
  fills,       \* its fills: by which run, when, and whether nothing is left
  accounts,    \* account row of each run: when updated, fills accounted for
  positions,   \* symbols with a position row of each run
  started,     \* when each run's row was stored, 0 for none
  clock
store == <<orders, fills, accounts, positions, started, clock>>

NoRun == 0
NoOrder == [status |-> "NONE", side |-> "BUY", queued |-> FALSE, ripe |-> FALSE,
            settled |-> FALSE, at |-> 0]
NoFill == [by |-> NoRun, at |-> 0, closes |-> FALSE]
Fill(r, at, closes) == [by |-> r, at |-> at, closes |-> closes]
NoAccount == [at |-> 0, book |-> {}]

Filled(fs) == {d \in Decisions : fs[d].by # NoRun}

(* The symbols held after replaying the fills up to a time: bought, and not *)
(* sold out since.                                                         *)
HeldAt(os, fs, time) ==
  LET done(s) == {d \in Filled(fs) : SymbolOf(d) = s /\ fs[d].at <= time} IN
  {s \in Symbols :
     \E d \in done(s) : /\ os[d].side = "BUY"
                        /\ \A e \in done(s) : fs[e].closes => fs[e].at < fs[d].at}
Held == HeldAt(orders, fills, clock)

Pending == {d \in Decisions : orders[d].status = "PENDING_NEXT_OPEN"}

-----------------------------------------------------------------------------
(* What every reader of "the portfolio" sees: the account row updated last *)
(* and the position rows of the run that owns it.                          *)

LatestAccount ==
  {r \in Runs : accounts[r].at # 0 /\ \A q \in Runs : accounts[q].at <= accounts[r].at}

VisiblePositions == UNION {positions[r] : r \in LatestAccount}

-----------------------------------------------------------------------------
(* _delete_paper_artifacts_for_run_symbol and the deletion of the final    *)
(* decision, which takes its order and the fills of that order with it.    *)

(* Mutant: only rejected settlements are protected. *)
ProtectedRejectionsOnly(r, s) ==
  {d \in Decisions :
     /\ SymbolOf(d) = s /\ orders[d].queued
     /\ orders[d].status = "REJECTED" /\ orders[d].settled
     /\ started[r] # 0 \/ accounts[r].at # 0
     /\ started[r] # 0 => orders[d].at >= started[r]
     /\ accounts[r].at # 0 => orders[d].at <= accounts[r].at}

(* Orders of s that run r settled, and those it rejected in settlement. *)
Protected(r, s) ==
  {d \in Decisions :
     /\ SymbolOf(d) = s /\ orders[d].queued
     /\ \/ fills[d].by = r /\ orders[d].status \in {"FILLED", "PARTIALLY_FILLED"}
        \/ /\ orders[d].status = "REJECTED" /\ orders[d].settled
           /\ started[r] # 0 \/ accounts[r].at # 0
           /\ started[r] # 0 => orders[d].at >= started[r]
           /\ accounts[r].at # 0 => orders[d].at <= accounts[r].at}

FillsCleaned(r, S) ==
  {d \in Decisions :
     \/ d \in {r} \X S
     \/ fills[d].by = r /\ SymbolOf(d) \in S /\ d \notin Protected(r, SymbolOf(d))}

(* Mutant: the account row goes although fills of the run remain. *)
AccountCleanedAlways(r, S) == \E s \in S : Protected(r, s) = {}

AccountCleaned(r, S) ==
  /\ \E s \in S : Protected(r, s) = {}
  /\ \A d \in Decisions \ FillsCleaned(r, S) : fills[d].by # r

(* Storing artefacts of run r for the symbols of S in one transaction.     *)
CleanUp(r, S) ==
  /\ orders' = [d \in Decisions |-> IF d \in {r} \X S THEN NoOrder ELSE orders[d]]
  /\ fills' = [d \in Decisions |->
                 IF d \in FillsCleaned(r, S) THEN NoFill ELSE fills[d]]
  /\ positions' = [positions EXCEPT ![r] = @ \ {s \in S : Protected(r, s) = {}}]
  /\ accounts' = [accounts EXCEPT ![r] =
                    IF AccountCleaned(r, S) THEN NoAccount ELSE @]
  /\ UNCHANGED <<started, clock>>

-----------------------------------------------------------------------------
(* The broker, one call at a time.                                         *)

(* Mutant: the rows the run had are not deleted first. *)
PositionRowsAdded(r, os, fs, time) == positions[r] \cup HeldAt(os, fs, time)

PositionRows(r, os, fs, time) == HeldAt(os, fs, time)

(* replace_account_state of run r, as updated at stamp, after the orders    *)
(* and fills have changed to os and fs.                                    *)
StoreAccount(r, os, fs, stamp) ==
  LET now == IF stamp > clock THEN stamp ELSE clock IN
  /\ orders' = os
  /\ fills' = fs
  /\ clock' = now
  /\ accounts' = [accounts EXCEPT ![r] = [at |-> stamp, book |-> Filled(fs)]]
  /\ positions' = [positions EXCEPT ![r] = PositionRows(r, os, fs, now)]
  /\ UNCHANGED started

OrderRow(status, side, queued, settled, at) ==
  [status |-> status, side |-> side, queued |-> queued, ripe |-> FALSE,
   settled |-> settled, at |-> at]

(* place_order of the decision of r about s, submitted at stamp: a BUY may *)
(* fail for want of cash, a sale fails exactly when nothing is held.       *)
PlaceOrder(r, s, side, queued, stamp) ==
  LET d == <<r, s>>
      earlier == [fills EXCEPT ![d] = NoFill]
      placeable == side = "BUY" \/ s \in HeldAt(orders, earlier, clock)
      put(status, fs) ==
        StoreAccount(r, [orders EXCEPT ![d] = OrderRow(status, side, queued, FALSE, stamp)],
                     fs, stamp)
  IN  \/ (side = "BUY" \/ ~placeable) /\ put("REJECTED", earlier)
      \/ queued /\ placeable /\ put("PENDING_NEXT_OPEN", earlier)
      \/ /\ ~queued /\ placeable
         /\ \E closes \in {FALSE, side = "SELL"} :
              put("FILLED", [earlier EXCEPT ![d] = Fill(r, stamp, closes)])

(* Newer bars of some symbols are imported: the queued orders of these     *)
(* symbols have a bar to fill at.                                          *)
ImportBars(S) ==
  /\ orders' = [d \in Decisions |->
                  IF d \in Pending /\ SymbolOf(d) \in S
                  THEN [orders[d] EXCEPT !.ripe = TRUE] ELSE orders[d]]
  /\ UNCHANGED <<fills, accounts, positions, started, clock>>

(* Mutant: settlement takes one page of the queue. *)
OldestRipe ==
  {d \in Pending : orders[d].ripe /\ \A e \in Pending : orders[e].ripe => orders[d].at <= orders[e].at}

SettlementBatch == {d \in Pending : orders[d].ripe}

(* settle_pending_next_open_orders in run r: one transaction, oldest order *)
(* first, each filled or rejected; a sale is filled exactly when its       *)
(* symbol is held at its turn.                                             *)
SettleQueue(r) ==
  LET batch == SettlementBatch
      now == clock + 1
      turn(d) == now + Cardinality({e \in batch : orders[e].at <= orders[d].at})
  IN  \E filled \in SUBSET batch : \E closing \in SUBSET filled :
        LET os == [d \in Decisions |->
                     IF d \in batch
                     THEN OrderRow(IF d \in filled THEN "FILLED" ELSE "REJECTED",
                                   orders[d].side, TRUE, TRUE, turn(d))
                     ELSE orders[d]]
            fs == [d \in Decisions |->
                     IF d \in filled THEN Fill(r, turn(d), d \in closing) ELSE fills[d]]
        IN  /\ \A d \in closing : orders[d].side = "SELL"
            /\ \A d \in batch : orders[d].side = "SELL" =>
                 (d \in filled <=> SymbolOf(d) \in HeldAt(os, fs, turn(d) - 1))
            /\ StoreAccount(r, os, fs, now + Cardinality(batch))

InitStore ==
  /\ orders = [d \in Decisions |-> NoOrder]
  /\ fills = [d \in Decisions |-> NoFill]
  /\ accounts = [r \in Runs |-> NoAccount]
  /\ positions = [r \in Runs |-> {}]
  /\ started = [r \in Runs |-> 0]
  /\ clock = 0
-----------------------------------------------------------------------------
(* What the rows are to show, whoever writes them.                         *)

(* The account row every reader takes for the portfolio's accounts for     *)
(* exactly the fills there are, although the clean-up may delete the row   *)
(* of the run in progress and bring an older one to the fore.              *)
LatestAccountShowsAllFills ==
  /\ LatestAccount = {} => Filled(fills) = {}
  /\ \A r \in LatestAccount : accounts[r].book = Filled(fills)

(* A position row readers see is backed by a holding: a symbol sold out is *)
(* never offered to the trader or the planner for another sale.            *)
VisiblePositionsAreHeld == VisiblePositions \subseteq Held
=============================================================================
