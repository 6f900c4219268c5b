---------------------------- MODULE TechnicalSignal ----------------------------
(***************************************************************************)
(* The technical score of a symbol: which features its history allows,     *)
(* how a feature is compared with the universe, how the families alpha,    *)
(* risk and tradability become one score with a confidence, and how the    *)
(* official data of the exchange are blended in (technical_official_v2b).  *)
(* Scores are counted in ten-thousandths, weights in percent, and the      *)
(* reading of a feature in tenths of the scale it is divided by.           *)
(***************************************************************************)
EXTENDS Decimals, Sequences, FiniteSets, FiniteSetsExt, TLC

Unit == 10000
NoScore == 0 - 1000000   \* a number that is not there

Bounded(v) == IF v > Unit THEN Unit ELSE IF v < 0 - Unit THEN 0 - Unit ELSE v
Weighted(v, percent) == RoundSigned(v * percent, 100)

(* ---- The features: candles they need, weights of the profiles           *)
(* technical_ohlcv_v2 and technical_ohlcv_v2a_sh, the reading they follow  *)
(* and whether the universe ranks them.                                    *)
Feature(needs, long, short, form, ranked) ==
  [needs |-> needs, long |-> long, short |-> short, form |-> form, ranked |-> ranked]

AlphaFeatures ==
  [return_20d |-> Feature(21, 0, 18, "scaled", TRUE),
   return_63d |-> Feature(64, 10, 14, "scaled", TRUE),
   return_126d |-> Feature(127, 11, 0, "scaled", TRUE),
   return_252d |-> Feature(253, 8, 0, "scaled", TRUE),
   vol_adjusted_return_63d |-> Feature(64, 0, 16, "scaled", TRUE),
   vol_adjusted_return_126d |-> Feature(127, 16, 0, "scaled", TRUE),
   vol_adjusted_return_252d |-> Feature(253, 14, 0, "scaled", TRUE),
   macd_histogram_12_26_9 |-> Feature(34, 9, 13, "scaled", TRUE),
   ema_spread_12_26 |-> Feature(26, 8, 12, "scaled", FALSE),
   adx_directional_strength_14 |-> Feature(28, 8, 0, "scaled", FALSE),
   breakout_high_distance_20d |-> Feature(21, 0, 10, "scaled", TRUE),
   breakout_high_distance_50d |-> Feature(51, 6, 7, "scaled", TRUE),
   distance_from_52w_high |-> Feature(252, 5, 0, "from_high", TRUE),
   rsi_14 |-> Feature(15, 5, 10, "scaled", TRUE)]

RiskFeatures ==
  [atr_percent_14 |-> Feature(14, 18, 50, "lower", TRUE),
   volatility_20 |-> Feature(21, 16, 50, "lower", TRUE),
   volatility_63 |-> Feature(64, 14, 0, "lower", TRUE),
   volatility_126 |-> Feature(127, 10, 0, "lower", TRUE),
   volatility_252 |-> Feature(253, 8, 0, "lower", TRUE),
   bollinger_bandwidth_20 |-> Feature(20, 10, 0, "lower", TRUE),
   minus_di_14 |-> Feature(15, 8, 0, "lower", TRUE),
   bollinger_percent_b_extension |-> Feature(20, 8, 0, "extension", FALSE),
   return_20d_instability |-> Feature(21, 8, 0, "extension", FALSE)]

TradabilityFeatures ==
  [turnover |-> Feature(1, 24, 15, "ignored", TRUE),
   avg_traded_value_20 |-> Feature(20, 24, 25, "ignored", TRUE),
   avg_traded_value_63 |-> Feature(63, 20, 15, "ignored", TRUE),
   turnover_z_score_20 |-> Feature(21, 17, 20, "scaled", TRUE),
   volume_z_score_20 |-> Feature(21, 15, 25, "scaled", TRUE)]

Families == [alpha |-> AlphaFeatures, risk |-> RiskFeatures, tradability |-> TradabilityFeatures]
FamilyWeight == [long |-> [alpha |-> 65, risk |-> 20, tradability |-> 15],
                 short |-> [alpha |-> 70, risk |-> 15, tradability |-> 15]]

(* OHLCV_V2_REQUIRED_FEATURES by the candles each needs: coverage counts   *)
(* the ones a history is long enough for.                                  *)
RequiredNeeds == <<1, 12, 14, 15, 15, 15, 20, 20, 20, 21, 21, 21, 21, 21, 26, 28, 34, 51, 63,
                   64, 64, 64, 127, 127, 127, 252, 253, 253, 253, 253>>
ContextNeeds == SelectSeq(RequiredNeeds, LAMBDA n : n \notin {12, 26})   \* no ema_12, ema_26
TradabilityNeeds == <<1, 20, 21, 21, 63>>
HasHistory(needs, days) ==
  RoundHalfEven(Unit * Cardinality({i \in DOMAIN needs : needs[i] <= days}), Len(needs))

(* A snapshot: the candles of a symbol and a reading for each theme; an    *)
(* extension is read as the distance from its middle.                      *)
ThemeOf(family, feature) == IF feature.form = "extension" THEN "stretch" ELSE family
Available(features, days) == {f \in DOMAIN features : features[f].needs <= days}

RawScore(form, v) ==
  CASE form = "scaled"    -> Bounded(1000 * v)
    [] form = "from_high" -> Bounded(Unit + 1000 * v)
    [] form = "lower"     -> Bounded(Unit - 2000 * v)
    [] form = "extension" -> Bounded(Unit - 2000 * v)
    [] form = "ignored"   -> 0

(* ---- build_universe_technical_context: rank and z-score of a reading    *)
(* among the symbols that have the feature; low readings of risk are good. *)
AsRead(family, v) == v
Directed(family, v) == IF family = "risk" THEN 0 - v ELSE v

Percentile(vs, s) ==
  LET n == Cardinality(DOMAIN vs)
      better == Cardinality({t \in DOMAIN vs : vs[t] > vs[s]})
      equal == Cardinality({t \in DOMAIN vs : vs[t] = vs[s]})
  IN  IF n = 1 THEN Unit \div 2
      ELSE Unit - RoundHalfEven(Unit * (2 * better + equal - 1), 2 * (n - 1))

Root(n) == CHOOSE r \in 0..n : r * r <= n /\ n < (r + 1) * (r + 1)

ZScore(vs, s) ==
  LET n == Cardinality(DOMAIN vs)
      sum == SumOver(vs, DOMAIN vs)
      spread == n * SumOver([t \in DOMAIN vs |-> vs[t] * vs[t]], DOMAIN vs) - sum * sum
  IN  IF spread = 0 THEN 0 ELSE RoundSigned((n * vs[s] - sum) * Unit * 10, Root(100 * spread))

ContextScore(vs, s) ==
  Bounded(Weighted(Bounded(RoundSigned(ZScore(vs, s), 2)), 60)
            + Weighted(2 * Percentile(vs, s) - Unit, 40))

UniverseReadings(family, feature, snapshots) ==
  [t \in {u \in DOMAIN snapshots : feature.needs <= snapshots[u].days}
     |-> Directed(family, snapshots[t][ThemeOf(family, feature)])]

(* _context_feature: the universe decides if it ranks the feature.         *)
FeatureScore(family, feature, snapshots, s, inUniverse) ==
  IF inUniverse /\ feature.ranked
  THEN ContextScore(UniverseReadings(family, feature, snapshots), s)
  ELSE RawScore(feature.form, snapshots[s][ThemeOf(family, feature)])

(* _family_score: the weighted mean over the features there are.           *)
FamilyScore(scores, weights) ==
  LET total == SumOver(weights, DOMAIN weights)
      weighted == [f \in DOMAIN weights |-> scores[f] * weights[f]]
  IN  IF total = 0 THEN 0 ELSE RoundSigned(SumOver(weighted, DOMAIN weights), total)

FamilyScoreOf(family, snapshots, s, inUniverse, profile) ==
  LET present == Available(Families[family], snapshots[s].days)
  IN  FamilyScore([f \in present |-> FeatureScore(family, Families[family][f], snapshots, s, inUniverse)],
                  [f \in present |-> Families[family][f][profile]])

Composite(scores, weights) ==
  Weighted(scores.alpha, weights.alpha) + Weighted(scores.risk, weights.risk)
    + Weighted(scores.tradability, weights.tradability)

(* ---- Confidence                                                         *)
LookbackQuality(days) ==
  IF days >= 253 THEN 10000 ELSE IF days >= 127 THEN 8000 ELSE IF days >= 64 THEN 6500
  ELSE IF days >= 21 THEN 4500 ELSE 2500
UniverseBreadth(inUniverse, n) ==
  IF ~inUniverse THEN 2500 ELSE IF n >= 30 THEN 10000 ELSE IF n >= 10 THEN 8500
  ELSE IF n >= 5 THEN 7000 ELSE IF n >= 2 THEN 5000 ELSE 3500

Sign(v) == IF v > 0 THEN 1 ELSE 0 - 1
FamilyAgreement(scores, composite) ==
  LET voiced == {f \in DOMAIN scores : scores[f] # 0}
  IN  IF voiced = {} \/ composite = 0 THEN 5000
      ELSE RoundHalfEven(Unit * Cardinality({f \in voiced : Sign(scores[f]) = Sign(composite)}),
                         Cardinality(voiced))

Clamped(v) == IF v < 500 THEN 500 ELSE IF v > 9500 THEN 9500 ELSE v
OhlcvConfidence(days, inUniverse, n, agreement) ==
  Clamped(Weighted(HasHistory(RequiredNeeds, days), 35) + Weighted(LookbackQuality(days), 20)
            + Weighted(UniverseBreadth(inUniverse, n), 15)
            + (IF inUniverse THEN Weighted(HasHistory(ContextNeeds, days), 5) ELSE 0)
            + Weighted(agreement, 15) + Weighted(HasHistory(TradabilityNeeds, days), 10))

(* ---- score_ohlcv_v2 under eligibility rules [minRisk, breadthMultiple,  *)
(* penalty], NoScore where the profile has none.                             *)
Blocked(rules, risk, newBuy, candidates, wanted) ==
  \/ rules.minRisk # NoScore /\ newBuy /\ risk < rules.minRisk
  \/ rules.breadthMultiple # NoScore /\ candidates < wanted * rules.breadthMultiple

RiskPenalty(rules, risk) == IF risk < 0 THEN Weighted(0 - risk, rules.penalty) ELSE 0

OhlcvScore(snapshots, s, inUniverse, profile, rules, newBuy, wanted) ==
  LET n == Cardinality(DOMAIN snapshots)
      scores == [f \in DOMAIN Families |-> FamilyScoreOf(f, snapshots, s, inUniverse, profile)]
      raw == Composite(scores, FamilyWeight[profile])
  IN  [available |-> ~Blocked(rules, scores.risk, newBuy, n, wanted),
       scores |-> scores,
       composite |-> Bounded(raw - RiskPenalty(rules, scores.risk)),
       coverage |-> HasHistory(RequiredNeeds, snapshots[s].days),
       confidence |-> OhlcvConfidence(snapshots[s].days, inUniverse, n, FamilyAgreement(scores, raw))]

(* ---- The official families.  ctx: the official context of the symbol.    *)
StateScore(regime) ==
  CASE regime = "bullish" -> 4000 [] regime = "bearish" -> 0 - 4000
    [] regime = "calm" -> 5000 [] regime = "stress" -> 0 - 7000
    [] regime \in {"neutral", "normal"} -> 0
    [] OTHER -> NoScore

(* Returns are counted in thousandths.                                     *)
RelativeScore(own, other) ==
  IF NoScore \in {own, other} THEN NoScore ELSE Bounded(RoundSigned(Unit * (own - other), 80))

CircuitScore(status, hit) ==
  IF hit = "yes" THEN 0 - Unit
  ELSE IF status = "near" THEN 0 - 5000
  ELSE IF hit = "no" \/ status = "clear" THEN 4000 ELSE NoScore

(* Scores of official features, NoScore where the data are missing.        *)
OfficialFamilyScore(scores, weights) ==
  LET present == {f \in DOMAIN scores : scores[f] # NoScore}
  IN  FamilyScore([f \in present |-> scores[f]], [f \in present |-> weights[f]])

OfficialScores(ctx, return20) ==
  [alpha |-> OfficialFamilyScore(
       [market |-> RelativeScore(return20, ctx.benchmark.change),
        sector |-> RelativeScore(return20, ctx.sector.change),
        marketRegime |-> StateScore(ctx.benchmark.regime),
        sectorRegime |-> StateScore(ctx.sector.regime)],
       [market |-> 35, sector |-> 20, marketRegime |-> 15, sectorRegime |-> 10]),
   risk |-> OfficialFamilyScore(
       [vix |-> StateScore(ctx.volatility.regime),
        vixChange |-> IF ctx.volatility.change = NoScore THEN NoScore
                      ELSE Bounded(RoundSigned(0 - Unit * ctx.volatility.change, 250)),
        circuit |-> CircuitScore(ctx.status, ctx.hit)],
       [vix |-> 30, vixChange |-> 20, circuit |-> 30]),
   tradability |-> OfficialFamilyScore(
       [delivery |-> ctx.delivery, implementability |-> ctx.implementability],
       [delivery |-> 35, implementability |-> 45])]

(* score_official_v2b *)
OfficialShare == [alpha |-> 25, risk |-> 30, tradability |-> 45]
Blend(family, base, official) ==
  Bounded(Weighted(base, 100 - OfficialShare[family]) + Weighted(official, OfficialShare[family]))

Unavailable == [available |-> FALSE, composite |-> 0, confidence |-> 0]

OfficialV2b(base, ctx, return20) ==
  IF ~base.available THEN Unavailable
  ELSE LET official == OfficialScores(ctx, return20)
           scores == [f \in DOMAIN Families |-> Blend(f, base.scores[f], official[f])]
           raw == Composite(scores, FamilyWeight.long)
       IN  [available |-> ctx.coverage > 0,
            composite |-> Bounded(raw),
            confidence |-> Clamped(Weighted(base.confidence, 55) + Weighted(ctx.coverage, 30)
                                     + Weighted(FamilyAgreement(scores, raw), 15))]
=============================================================================
