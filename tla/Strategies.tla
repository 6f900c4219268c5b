------------------------------- MODULE Strategies -------------------------------
(***************************************************************************)
(* The strategies of the backtest and of the paper run: what they score    *)
(* from closes up to a day, how they rank the symbols and how many of them *)
(* become targets.  Symbols are numbers: their order settles ties, as the  *)
(* alphabet does in the code.  Scores and returns are counted in           *)
(* thousandths.                                                            *)
(***************************************************************************)
EXTENDS Decimals, FiniteSets, FiniteSetsExt

CONSTANTS
  Symbols,
  FastWindow, SlowWindow,  \* fast_window < slow_window
  ReturnWindow,            \* 20 days in the code
  MinScore,                \* min_spread, min_combined_score
  MinReturn,               \* min_return_20d
  GraphWeight,             \* graph_weight in percent (technical_weight is 1)
  MinGraphConfidence,
  RequireGraphSignal

ASSUME WindowsAssumption ==
  /\ SlowWindow \in Nat /\ FastWindow \in 1..(SlowWindow - 1) /\ ReturnWindow \in Nat

Missing == 0 - 1000000
NoSignal == [score |-> Missing, confidence |-> 0]

(* closes[i] is the close of day i, known up to day n. *)
SumOfLast(closes, n, w) == SumOver(closes, (n - w + 1)..n)

SmaSpread(closes, n) ==
  IF n < SlowWindow THEN Missing
  ELSE RoundSigned(1000 * SumOfLast(closes, n, FastWindow) * SlowWindow,
                   SumOfLast(closes, n, SlowWindow) * FastWindow) - 1000

ReturnOver(closes, n) ==
  IF n <= ReturnWindow THEN Missing
  ELSE RoundSigned(1000 * closes[n], closes[n - ReturnWindow]) - 1000

(* MovingAverageCrossoverStrategy._score *)
MovingAverageScore(closes, n, signal) == SmaSpread(closes, n)

(* GraphAwareScoreStrategy._combined_score with the profile sma_spread.     *)
CombinedScore(closes, n, signal) ==
  LET technical == SmaSpread(closes, n)
      graph == IF signal = NoSignal \/ signal.confidence < MinGraphConfidence
               THEN 0 ELSE signal.score
  IN  IF technical = Missing \/ (RequireGraphSignal /\ signal = NoSignal) THEN Missing
      ELSE technical + RoundSigned(graph * GraphWeight, 100)

SymbolScore(strategy, closes, n, signal) ==
  IF strategy = "graph_aware_score" THEN CombinedScore(closes, n, signal)
  ELSE MovingAverageScore(closes, n, signal)

(* The filters of rank_universe; a missing return counts as zero.           *)
Eligible(score, change) ==
  /\ score # Missing /\ score > MinScore
  /\ (IF change = Missing THEN 0 ELSE change) >= MinReturn

Outranks(scores, s, t) == scores[s] > scores[t] \/ (scores[s] = scores[t] /\ s < t)

(* ranked_symbols *)
RankedSymbols(scores, eligible, limit) ==
  {s \in eligible : Cardinality({t \in eligible \ {s} : Outranks(scores, t, s)}) < limit}

(* select_targets: prices[s] the closes of s, signals[s] its graph signal.  *)
Targets(strategy, prices, n, signals, limit) ==
  LET scores == [s \in Symbols |-> SymbolScore(strategy, prices[s], n, signals[s])]
      eligible == {s \in Symbols : Eligible(scores[s], ReturnOver(prices[s], n))}
  IN  RankedSymbols(scores, eligible, limit)
=============================================================================
