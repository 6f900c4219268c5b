-------------------------------- MODULE Research --------------------------------
(***************************************************************************)
(* From the analysts to the proposal for one symbol.  Five agents ask a    *)
(* language model in turn: an analyst, the bull and the bear researcher,   *)
(* the research manager and the trader, and the portfolio manager for the  *)
(* wording of its decision.  The first four fail the symbol when no usable *)
(* answer comes, the last two fall back on what the rules decided.  The    *)
(* bull, the bear and the manager move the score the rules compute by a    *)
(* limited step; the trader's answer counts only inside the actions the    *)
(* state of the position allows.                                           *)
(*                                                                         *)
(* A score of 1 is One steps; a share of the portfolio is counted in steps *)
(* of which a score of 1 asks for One (score x 10 percent of NAV).         *)
(***************************************************************************)
EXTENDS LanguageModel, Decimals, FiniteSets, FiniteSetsExt, Sequences

CONSTANTS
  Roster,         \* the enabled analysts, in the order they run
  Findings,       \* Findings[a]: [score, confidence] pairs the rules of a may arrive at
  BoundBy,        \* BoundBy[a]: "answer" the report carries the model's score; "rules" the
                  \*  model is asked but the score is the rules'; "no_model" it is not asked
  RiskNotes,      \* RiskNotes[a]: number of risks in the report of a
  ReportDrafts,   \* answers of the model to analysts, valid or not: [score, confidence]
  ScoreDrafts,    \* to researchers and manager
  TradeDrafts,    \* to the trader: [action, target]
  Holdings,       \* [share, price]: share held, price "loss" or "gain" at the thresholds
  MaxShare,       \* largest share the trader requests
  MinShare,       \* smallest share it asks for
  MaxAdjust       \* MAX_LLM_ADJUSTMENT

VARIABLES
  researchStage,  \* agent at work; "failed", "idle"
  holding,        \* what the portfolio holds of the symbol
  reports,        \* reports so far, a function on analysts
  bull, bear,     \* thesis scores
  consensus,      \* the manager's score
  proposal        \* [action, target, source]

researchVars == <<researchStage, holding, reports, bull, bear, consensus, proposal>>

Analysts == {Roster[i] : i \in 1..Len(Roster)}

(* The schemas bound scores and confidences; the enabled analysts are      *)
(* different ones, and at least one (parse_enabled_analysts).              *)
ASSUME ResearchAssumption ==
  /\ One \in Nat \ {0} /\ MaxAdjust \in Nat
  /\ MaxShare \in Nat \ {0} /\ MinShare \in Nat
  /\ Roster \in Seq(Analysts) /\ Roster # <<>>
  /\ \A i, j \in 1..Len(Roster) : Roster[i] = Roster[j] => i = j
  /\ \A a \in Analysts : /\ RiskNotes[a] \in Nat
                         /\ \A found \in Findings[a] : found.score \in (-One)..One
                                                      /\ found.confidence \in Nat
  /\ \A draft \in ReportDrafts : draft.score \in Int /\ draft.confidence \in Nat
  /\ ScoreDrafts \subseteq Int
  /\ \A draft \in TradeDrafts : draft.target \in Nat
  /\ \A h \in Holdings : h.share \in Nat /\ h.price \in {"even", "loss", "gain"}

NextAnalyst == Roster[Cardinality(DOMAIN reports) + 1]
NoProposal == [action |-> "NONE", target |-> 0, source |-> "none"]
NoReports == [a \in {} |-> [score |-> 0, confidence |-> 0]]
Within(low, n, high) == Max({low, Min({n, high})})

ResearchInit ==
  /\ researchStage = "idle" /\ holding = [share |-> 0, price |-> "even"]
  /\ reports = NoReports /\ bull = 0 /\ bear = 0 /\ consensus = 0 /\ proposal = NoProposal

StartResearch(h) ==
  /\ researchStage' = "analysts"
  /\ holding' = h
  /\ UNCHANGED <<reports, bull, bear, consensus, proposal>>

(* A failed call fails the symbol; reports are stored once all are there.   *)
Fail ==
  /\ researchStage' = "failed"
  /\ UNCHANGED <<holding, reports, bull, bear, consensus, proposal>>

AddReport(a, report) ==
  /\ reports' = [x \in DOMAIN reports \cup {a} |-> IF x = a THEN report ELSE reports[x]]
  /\ researchStage' = IF DOMAIN reports' = Analysts THEN "bull" ELSE "analysts"
  /\ UNCHANGED <<holding, bull, bear, consensus, proposal>>

(* The technical analyst keeps the score of its rules, the others take the  *)
(* model's.                                                                 *)
ReportOf(a, found, draft) == IF BoundBy[a] = "answer" THEN draft ELSE found

(* _build_report: what the rules of the analyst found is context for the    *)
(* model.                                                                   *)
AskAnalyst(a) ==
  /\ BoundBy[a] # "no_model"
  /\ \E found \in Findings[a] : \E reply \in Replies(ReportDrafts) :
       IF Outcome(reply, FitsReport(reply.draft)) # "answer" THEN Fail
       ELSE AddReport(a, ReportOf(a, found, reply.draft))

(* The graph analyst sums the contributions of the symbol's relations.      *)
GraphReport(a) ==
  /\ BoundBy[a] = "no_model"
  /\ \E found \in Findings[a] : AddReport(a, found)

Analyse ==
  /\ researchStage = "analysts"
  /\ AskAnalyst(NextAnalyst) \/ GraphReport(NextAnalyst)

-----------------------------------------------------------------------------
(* The scores the rules compute from the reports.                           *)
OverReports(f) == MapThenSumSet(LAMBDA a : f[a], Analysts)
Confidence == OverReports([a \in Analysts |-> reports[a].confidence])
Upside ==
  OverReports([a \in Analysts |-> Max({0, reports[a].score}) * reports[a].confidence])
Downside ==
  OverReports([a \in Analysts |-> Max({0, 0 - reports[a].score}) * reports[a].confidence])

RuleBull ==
  IF Confidence = 0 THEN 0 ELSE RoundSigned(100 * Upside - 35 * Downside, 100 * Confidence)

(* 0.05 for each report below 0.50, 0.015 for each risk, at most 0.20. *)
RuleBear ==
  LET unsure == Cardinality({a \in Analysts : reports[a].confidence < 50})
      density == Min({One \div 5, (3 * One * OverReports([a \in Analysts |-> RiskNotes[a]])) \div 200})
      depth == Downside + ((unsure * One) \div 20 + density) * Confidence
  IN  IF Confidence = 0 THEN 0
      ELSE 0 - RoundHalfEven(Min({depth, One * Confidence}), Confidence)

RuleConsensus(bullScore, bearScore) ==
  IF Confidence = 0 THEN RoundSigned(25 * bullScore + 15 * bearScore, 100)
  ELSE RoundSigned(60 * (Upside - Downside) + (25 * bullScore + 15 * bearScore) * Confidence,
                   100 * Confidence)

(* Mutant: only the step up is limited. *)
GuardedUpwards(rule, answer) ==
  Within(0 - One, rule + Min({answer - rule, MaxAdjust}), One)

(* _guarded_decimal *)
Guarded(rule, answer) ==
  Within(0 - One, rule + Within(0 - MaxAdjust, answer - rule, MaxAdjust), One)

GuardedBear(rule, answer) == Min({0, Guarded(rule, answer)})

Bull ==
  /\ researchStage = "bull"
  /\ \E reply \in Replies(ScoreDrafts) :
       IF Outcome(reply, FitsThesis(reply.draft)) # "answer" THEN Fail
       ELSE /\ bull' = Guarded(RuleBull, reply.draft)
            /\ researchStage' = "bear"
            /\ UNCHANGED <<holding, reports, bear, consensus, proposal>>

Bear ==
  /\ researchStage = "bear"
  /\ \E reply \in Replies(ScoreDrafts) :
       IF Outcome(reply, FitsThesis(reply.draft)) # "answer" THEN Fail
       ELSE /\ bear' = GuardedBear(RuleBear, reply.draft)
            /\ researchStage' = "manager"
            /\ UNCHANGED <<holding, reports, bull, consensus, proposal>>

(* The debate is stored with the manager's summary. *)
Manage ==
  /\ researchStage = "manager"
  /\ \E reply \in Replies(ScoreDrafts) :
       IF Outcome(reply, FitsSummary(reply.draft)) # "answer" THEN Fail
       ELSE /\ consensus' = Guarded(RuleConsensus(bull, bear), reply.draft)
            /\ researchStage' = "trader"
            /\ UNCHANGED <<holding, reports, bull, bear, proposal>>

-----------------------------------------------------------------------------
Label ==
  CASE 100 * consensus >= 45 * One -> "bullish"
    [] 100 * consensus < 45 * One /\ 100 * consensus >= 15 * One -> "mild_bullish"
    [] 100 * consensus <= 0 - 45 * One -> "bearish"
    [] 100 * consensus > 0 - 45 * One /\ 100 * consensus <= 0 - 15 * One -> "mild_bearish"
    [] OTHER -> "neutral"
Rising == Label \in {"bullish", "mild_bullish"}
Held == holding.share > 0

LifecycleTrigger ==
  CASE ~Held -> "new_entry"
    [] Held /\ holding.price = "loss" -> "stop_loss"
    [] Held /\ holding.price = "gain" -> "take_profit"
    [] Held /\ holding.price = "even" /\ Label = "bearish" -> "thesis_invalidated"
    [] Held /\ holding.price = "even" /\ Label = "mild_bearish" -> "thesis_weakened"
    [] OTHER -> "hold_review"

EntryTarget == Min({MaxShare, Max({MinShare, consensus, 0 - consensus})})
ReducedTarget == RoundHalfEven(holding.share, 2)

(* _deterministic_action *)
RuleAction ==
  CASE LifecycleTrigger = "new_entry" -> IF Rising THEN "BUY" ELSE "NO_TRADE"
    [] LifecycleTrigger \in {"stop_loss", "thesis_invalidated"} -> "EXIT"
    [] LifecycleTrigger \in {"take_profit", "thesis_weakened"} -> "REDUCE"
    [] OTHER -> IF Rising /\ EntryTarget > holding.share THEN "BUY" ELSE "HOLD"

TargetForAction(action) ==
  CASE action = "BUY" -> Max({holding.share, EntryTarget})
    [] action = "HOLD" -> holding.share
    [] action = "REDUCE" -> ReducedTarget
    [] OTHER -> 0

RuleDecision ==
  [action |-> RuleAction, target |-> TargetForAction(RuleAction), source |-> "rules"]

AllowedActions ==
  CASE LifecycleTrigger = "stop_loss" -> {"EXIT"}
    [] LifecycleTrigger = "new_entry" -> {"BUY", "NO_TRADE"}
    [] LifecycleTrigger \in {"take_profit", "thesis_weakened", "thesis_invalidated"} ->
         {"REDUCE", "EXIT"}
    [] OTHER -> IF Rising THEN {"HOLD", "BUY"} ELSE {"HOLD", "REDUCE", "EXIT"}

TargetIsValid(draft) ==
  CASE draft.action = "BUY" -> draft.target > holding.share
    [] draft.action = "REDUCE" -> Held /\ 0 < draft.target /\ draft.target < holding.share
    [] draft.action = "EXIT" -> Held /\ draft.target = 0
    [] draft.action = "HOLD" -> Held
    [] OTHER -> ~Held

ClampedTarget(draft) ==
  CASE draft.action = "BUY" -> Min({MaxShare, draft.target})
    [] draft.action = "HOLD" -> holding.share
    [] draft.action = "REDUCE" -> Min({draft.target, ReducedTarget})
    [] OTHER -> 0

(* _validated_llm_decision *)
Acceptable(draft) ==
  /\ draft.action \in AllowedActions /\ TargetIsValid(draft)
  /\ draft.action = "BUY" => ClampedTarget(draft) > holding.share

(* A refusal is made up for by the rules; any other exception is not caught *)
(* and fails the symbol.                                                    *)
Propose ==
  /\ researchStage = "trader"
  /\ \E reply \in Replies(TradeDrafts) :
       LET outcome == Outcome(reply, FitsTrade(reply.draft))
           draft == reply.draft
       IN  IF outcome = "exception" THEN Fail
           ELSE /\ proposal' = IF outcome = "answer" /\ Acceptable(draft)
                               THEN [action |-> draft.action, target |-> ClampedTarget(draft),
                                     source |-> "model"]
                               ELSE RuleDecision
                /\ researchStage' = "explain"
                /\ UNCHANGED <<holding, reports, bull, bear, consensus>>

(* _with_llm_explanation: the wording of the final decision, with or        *)
(* without the model's.                                                     *)
Explain ==
  /\ researchStage = "explain"
  /\ \E reply \in Replies({"words", "none"}) :
       IF Outcome(reply, FitsExplanation(reply.draft)) = "exception" THEN Fail
       ELSE /\ researchStage' = "stored"
            /\ UNCHANGED <<holding, reports, bull, bear, consensus, proposal>>

(* The next symbol. *)
EndResearch ==
  /\ researchStage \in {"failed", "stored"}
  /\ researchStage' = "idle" /\ holding' = [share |-> 0, price |-> "even"]
  /\ reports' = NoReports /\ bull' = 0 /\ bear' = 0 /\ consensus' = 0 /\ proposal' = NoProposal

ResearchStep == Analyse \/ Bull \/ Bear \/ Manage \/ Propose \/ Explain \/ EndResearch
ResearchNext ==
  \/ researchStage = "idle" /\ \E h \in Holdings : StartResearch(h)
  \/ ResearchStep

ResearchSpec == ResearchInit /\ [][ResearchNext]_researchVars

-----------------------------------------------------------------------------
ResearchTypeOK ==
  /\ researchStage \in {"idle", "analysts", "bull", "bear", "manager", "trader", "explain",
                        "stored", "failed"}
  /\ DOMAIN reports \subseteq Analysts
  /\ \A a \in DOMAIN reports : ValidScore(reports[a].score)
  /\ ValidScore(bull) /\ ValidScore(consensus) /\ ValidScore(bear) /\ bear <= 0
  /\ proposal.target \in Nat

(* Three agents may each move a score by MaxAdjust, and the manager's base  *)
(* contains the scores the other two have moved: all three together move    *)
(* the consensus the rules would reach from the same reports by no more     *)
(* than MaxAdjust and the weights of bull and bear times MaxAdjust (and a   *)
(* step of rounding).                                                       *)
ConsensusNearRules ==
  researchStage \in {"trader", "explain", "stored"} =>
    LET apart == consensus - RuleConsensus(RuleBull, RuleBear)
        bound == MaxAdjust + (40 * MaxAdjust) \div 100 + 1
    IN  0 - bound <= apart /\ apart <= bound

(* The lifecycle check of the risk engine (_action_is_valid).               *)
Admissible(p) ==
  CASE p.action = "BUY" -> p.target > holding.share
    [] p.action = "REDUCE" -> Held /\ 0 < p.target /\ p.target < holding.share
    [] p.action = "EXIT" -> Held /\ p.target = 0
    [] p.action = "HOLD" -> Held /\ p.target = holding.share
    [] OTHER -> ~Held /\ p.target = 0

(* Whatever the model answers, the proposal of the trader is one the risk   *)
(* engine does not turn down for its shape; a position at its stop-loss is  *)
(* sold, and one whose thesis has weakened is never left as it is.          *)
ProposalIsAdmissible ==
  proposal # NoProposal =>
    /\ Admissible(proposal)
    /\ LifecycleTrigger = "stop_loss" => proposal.action = "EXIT"
    /\ LifecycleTrigger \in {"take_profit", "thesis_weakened", "thesis_invalidated"} =>
         proposal.target < holding.share

(* Whatever the model answers, the rules keep the last word (_guarded_      *)
(* decimal, _validated_llm_decision).                                       *)
ModelStaysWithinRules == ConsensusNearRules /\ ProposalIsAdmissible
=============================================================================
