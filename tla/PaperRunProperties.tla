------------------------- MODULE PaperRunProperties -------------------------
(***************************************************************************)
(* What the daily run is to guarantee, about its own outcome and about the *)
(* rows it leaves to the next run.                                         *)
(***************************************************************************)
EXTENDS PaperRun, TLC

(* Nothing tells symbols apart. *)
SymbolSymmetry == Permutations(Symbols)

OrderStatuses == {"NONE", "REJECTED", "PENDING_NEXT_OPEN", "FILLED"}
RunStatuses == {"NONE", "RUNNING", "COMPLETED", "PARTIAL_FAILED", "FAILED"}

StoreTypeOK ==
  /\ orders \in [Decisions -> [status : OrderStatuses, side : {"BUY", "SELL"},
                               queued : BOOLEAN, ripe : BOOLEAN,
                               settled : BOOLEAN, at : Nat]]
  /\ fills \in [Decisions -> [by : 0..MaxRuns, at : Nat, closes : BOOLEAN]]
  /\ accounts \in [Runs -> [at : Nat, book : SUBSET Decisions]]
  /\ positions \in [Runs -> SUBSET Symbols]
  /\ started \in [Runs -> Nat]
  /\ clock \in Nat

RunTypeOK ==
  /\ stage \in Stages
  /\ run \in 0..MaxRuns
  /\ scope \subseteq Symbols /\ todo \subseteq Symbols /\ midway \subseteq Symbols
  /\ approved \subseteq Symbols /\ funded \subseteq Symbols
  /\ ok \subseteq Symbols /\ bad \subseteq Symbols
  /\ proposed \in [Symbols -> ProposedActions]
  /\ row \in [status : RunStatuses, ok : SUBSET Symbols, bad : SUBSET Symbols,
              scope : SUBSET Symbols, finished : BOOLEAN]

(* The rows are those of known runs and symbols, and the lists of the run  *)
(* in progress hold symbols.                                               *)
TypeOK == StoreTypeOK /\ RunTypeOK

-----------------------------------------------------------------------------
(* Settlement and the clean-up                                             *)

(* What is filled stays filled: neither the clean-up before each artefact  *)
(* nor a crash takes a fill out of the ledger the account is rebuilt from. *)
LedgerIsAppendOnly == [][Filled(fills) \subseteq Filled(fills')]_vars

(* Once a run has settled, no order that had a bar to fill at waits on, so *)
(* the proposals of the run are not made on top of a stale queue.          *)
NothingRipeAfterSettlement ==
  stage \notin {"idle", "data", "settle"} => \A d \in Pending : ~orders[d].ripe

(* "Imports fresh daily candles and settles any previous pending next-open *)
(* orders for the portfolio, so position-aware analysis sees settled cash, *)
(* exposure, and open quantities" (docs/TAURUS_USAGE_GUIDE.md): when the   *)
(* trader is about to propose for a symbol, the position it looks up is    *)
(* there exactly when the symbol is held.                                  *)
PositionAwareAnalysis ==
  stage = "analyse" => \A s \in midway : s \in VisiblePositions <=> s \in Held

-----------------------------------------------------------------------------
(* The outcome of a run                                                    *)

(* The row of a run that ended by itself tells its outcome: unless the run *)
(* failed as a whole, each of its symbols, those the plan added too, has   *)
(* reached a final decision or is reported as failed, and COMPLETED means  *)
(* that none failed.                                                       *)
OutcomeAccountsForAll ==
  row.finished =>
    /\ row.status # "RUNNING"
    /\ row.status # "FAILED" => row.ok \cup row.bad = row.scope
    /\ row.status = "COMPLETED" => row.bad = {}

(* When a run is over, each decision it was to execute has its order row,  *)
(* or the run reports the symbol as failed.                                *)
ExecutedOrReported ==
  stage = "complete" =>
    \A s \in ok \cap funded \cap approved :
      s \in bad \/ orders[<<run, s>>].status # "NONE"

(* A run in progress ends, whatever fails on the way: no symbol, failing   *)
(* or not, is worked on again and again.                                   *)
RunEnds == stage # "idle" ~> stage = "idle"
=============================================================================
