---------------------------- MODULE DecisionsProofs ----------------------------
(***************************************************************************)
(* What holds of those who decide for every size of the instance: of the   *)
(* debate about a symbol and the trader's proposal for every roster of     *)
(* analysts and every answer of the model, of the risk review and the      *)
(* final approval for every portfolio, graph and run, and of the review of *)
(* the core basket for every universe, graph and policy; and what holds of *)
(* all of them, with the allocation and the backtest, where they are       *)
(* composed.                                                               *)
(***************************************************************************)
EXTENDS MCDecisions, RunAllocationProofs, BacktestProofs

(* A position of one step rounds, halved, to nothing: the one the trader's  *)
(* REDUCE has no valid target for.                                          *)
NoSliver == \A h \in Holdings : h.share # 1

-----------------------------------------------------------------------------
(* The greatest of three numbers.                                           *)

LEMMA MaxOfThree ==
  ASSUME NEW a \in Int, NEW b \in Int, NEW c \in Int
  PROVE  Max({a, b, c}) = Max({a, Max({b, c})})
<1> DEFINE m == IF b <= c THEN c ELSE b
           n == IF a <= m THEN m ELSE a
<1>1. Max({b, c}) = m /\ m \in Int
  BY MaxOfTwo
<1>2. Max({a, m}) = n
  BY <1>1, MaxOfTwo
<1>3. n \in {a, b, c} /\ \A y \in {a, b, c} : y <= n
  OBVIOUS
<1>4. \A x \in {a, b, c} : (\A y \in {a, b, c} : y <= x) => x = n
  OBVIOUS
<1>5. Max({a, b, c}) = n
  <2> HIDE DEF n
  <2> QED BY <1>3, <1>4 DEF Max
<1> QED BY <1>1, <1>2, <1>5

(* A number kept between two others is between them, and where it was if    *)
(* it was there.                                                            *)
LEMMA WithinFacts ==
  ASSUME NEW low \in Int, NEW high \in Int, NEW n \in Int, low <= high
  PROVE  /\ Within(low, n, high) \in low..high
         /\ n >= low /\ n <= high => Within(low, n, high) = n
         /\ n <= low => Within(low, n, high) = low
         /\ n >= high => Within(low, n, high) = high
<1> DEFINE m == IF n <= high THEN n ELSE high
<1>1. Min({n, high}) = m /\ m \in Int
  BY MinOfTwo
<1>2. Within(low, n, high) = IF low <= m THEN m ELSE low
  BY <1>1, MaxOfTwo DEF Within
<1> QED BY <1>2

(* _guarded_decimal: the answer stays a score, within MaxAdjust of what the *)
(* rules found, for a rule that found a score.                              *)
LEMMA GuardedFacts ==
  ASSUME NEW rule \in Int, ValidScore(rule), NEW answer \in Int
  PROVE  /\ Guarded(rule, answer) \in Int /\ ValidScore(Guarded(rule, answer))
         /\ Guarded(rule, answer) - rule <= MaxAdjust
         /\ rule - Guarded(rule, answer) <= MaxAdjust
<1>1. One \in Nat /\ MaxAdjust \in Nat
  BY ResearchAssumption
<1>2. 0 - One <= rule /\ rule <= One
  BY DEF ValidScore
<1> DEFINE step == Within(0 - MaxAdjust, answer - rule, MaxAdjust)
<1>3. step \in (0 - MaxAdjust)..MaxAdjust
  BY <1>1, WithinFacts
<1> DEFINE moved == Within(0 - One, rule + step, One)
<1>4. /\ moved \in (0 - One)..One
      /\ rule + step >= 0 - One /\ rule + step <= One => moved = rule + step
      /\ rule + step <= 0 - One => moved = 0 - One
      /\ rule + step >= One => moved = One
  <2> DEFINE low == 0 - One
             aim == rule + step
  <2> HIDE DEF step
  <2>1. low \in Int /\ One \in Int /\ aim \in Int /\ low <= One
    BY <1>1, <1>3
  <2> HIDE DEF low, aim
  <2>2. /\ Within(low, aim, One) \in low..One
        /\ aim >= low /\ aim <= One => Within(low, aim, One) = aim
        /\ aim <= low => Within(low, aim, One) = low
        /\ aim >= One => Within(low, aim, One) = One
    BY <2>1, WithinFacts
  <2> QED BY <2>2 DEF low, aim
<1>5. Guarded(rule, answer) = moved
  BY DEF Guarded
<1> HIDE DEF step, moved
<1>6. moved - rule <= MaxAdjust /\ rule - moved <= MaxAdjust
  BY <1>1, <1>2, <1>3, <1>4
<1> QED BY <1>1, <1>4, <1>5, <1>6 DEF ValidScore

-----------------------------------------------------------------------------
(* The roster.                                                              *)

LEMMA AnalystsFinite ==
  /\ IsFiniteSet(Analysts) /\ Cardinality(Analysts) \in Nat
  /\ Cardinality(Analysts) <= Len(Roster)
<1> DEFINE D == 1..Len(Roster)
<1>1. Len(Roster) \in Nat /\ DOMAIN Roster = D /\ Roster \in [D -> Analysts]
  <2>1. Roster \in Seq(Analysts)
    BY ResearchAssumption
  <2> QED BY <2>1, LenProperties
<1>2. \A a \in Analysts : \E i \in D : Roster[i] = a
  BY DEF Analysts
<1>3. Roster \in Surjection(D, Analysts)
  BY <1>1, <1>2 DEF Surjection
<1>4. IsFiniteSet(D) /\ Cardinality(D) = Len(Roster)
  BY <1>1, FS_Interval
<1> HIDE DEF D
<1>5. IsFiniteSet(Analysts) /\ Cardinality(Analysts) <= Cardinality(D)
  BY <1>3, <1>4, FS_Surjection
<1> QED BY <1>4, <1>5, FS_CardinalityType

(* While a report is missing there is an analyst whose turn it is.          *)
LEMMA SomeoneNext ==
  ASSUME DOMAIN reports \subseteq Analysts, DOMAIN reports # Analysts
  PROVE  NextAnalyst \in Analysts
<1> DEFINE n == Cardinality(DOMAIN reports)
<1>1. n \in Nat /\ n < Cardinality(Analysts)
  <2>1. IsFiniteSet(DOMAIN reports) /\ n <= Cardinality(Analysts) /\ n # Cardinality(Analysts)
    BY AnalystsFinite, FS_Subset
  <2> QED BY <2>1, AnalystsFinite, FS_CardinalityType
<1>2. n + 1 \in 1..Len(Roster)
  <2>1. Len(Roster) \in Nat
    BY ResearchAssumption
  <2> HIDE DEF n
  <2> QED BY <1>1, <2>1, AnalystsFinite
<1> QED BY <1>2 DEF NextAnalyst, Analysts

-----------------------------------------------------------------------------
(* What the rules make of the reports.                                      *)

GoodReport(report) ==
  report.score \in Int /\ ValidScore(report.score) /\ report.confidence \in Nat
Reported == DOMAIN reports = Analysts /\ \A a \in Analysts : GoodReport(reports[a])

(* Neither side of the debate weighs more than every report would at full   *)
(* score.                                                                   *)
LEMMA SidesBounded ==
  ASSUME NEW f, NEW c, NEW w,
         \A a \in Analysts : /\ c[a] \in Nat /\ w[a] \in Int /\ 0 <= w[a] /\ w[a] <= One
                             /\ f[a] = w[a] * c[a]
  PROVE  /\ OverReports(c) \in Nat /\ OverReports(f) \in Nat
         /\ OverReports(f) <= One * OverReports(c)
<1> DEFINE full == [a \in Analysts |-> One * c[a]]
           none == [a \in Analysts |-> 0]
<1>1. IsFiniteSet(Analysts) /\ One \in Nat
  BY AnalystsFinite, ResearchAssumption
<1>2. ASSUME NEW a \in Analysts
      PROVE  /\ f[a] \in Int /\ 0 <= f[a] /\ f[a] <= One * c[a]
  <2> DEFINE u == w[a]
             v == c[a]
  <2>1. u \in Int /\ 0 <= u /\ u <= One /\ v \in Nat /\ f[a] = u * v
    OBVIOUS
  <2>2. 0 <= u * v /\ u * v <= One * v /\ u * v \in Int
    <3> HIDE DEF u, v
    <3> QED BY <1>1, <2>1
  <2> QED BY <2>1, <2>2
<1>3. /\ SumOver(none, Analysts) = 0
      /\ SumOver(none, Analysts) <= SumOver(f, Analysts) /\ SumOver(f, Analysts) \in Int
  <2>1. \A a \in Analysts : none[a] = 0 /\ none[a] \in Int /\ f[a] \in Int /\ none[a] <= f[a]
    BY <1>2
  <2> HIDE DEF none
  <2> QED BY <1>1, <2>1, SumZero, SumMonotone
<1>4. /\ SumOver(none, Analysts) <= SumOver(c, Analysts) /\ SumOver(c, Analysts) \in Int
  <2>1. \A a \in Analysts : none[a] \in Int /\ c[a] \in Int /\ none[a] <= c[a]
    OBVIOUS
  <2> HIDE DEF none
  <2> QED BY <1>1, <2>1, SumMonotone
<1>5. SumOver(f, Analysts) <= SumOver(full, Analysts)
  <2>1. \A a \in Analysts : f[a] \in Int /\ full[a] \in Int /\ f[a] <= full[a]
    <3> SUFFICES ASSUME NEW a \in Analysts
                 PROVE  f[a] \in Int /\ full[a] \in Int /\ f[a] <= full[a]
      OBVIOUS
    <3> QED BY <1>1, <1>2
  <2> HIDE DEF full
  <2> QED BY <1>1, <2>1, SumMonotone
<1>6. SumOver(full, Analysts) = One * SumOver(c, Analysts)
  <2>1. One \in Int /\ \A a \in Analysts : c[a] \in Int /\ full[a] = One * c[a]
    BY <1>1
  <2> HIDE DEF full
  <2> QED BY <1>1, <2>1, SumScaled
<1>7. OverReports(c) = SumOver(c, Analysts) /\ OverReports(f) = SumOver(f, Analysts)
  BY DEF OverReports, SumOver
<1> HIDE DEF full, none
<1> QED BY <1>3, <1>4, <1>5, <1>6, <1>7

LEMMA DebateBounds ==
  ASSUME Reported
  PROVE  /\ Confidence \in Nat
         /\ Upside \in Nat /\ Upside <= One * Confidence
         /\ Downside \in Nat /\ Downside <= One * Confidence
<1> DEFINE c == [a \in Analysts |-> reports[a].confidence]
           up == [a \in Analysts |-> Max({0, reports[a].score})]
           down == [a \in Analysts |-> Max({0, 0 - reports[a].score})]
           f == [a \in Analysts |-> Max({0, reports[a].score}) * reports[a].confidence]
           g == [a \in Analysts |-> Max({0, 0 - reports[a].score}) * reports[a].confidence]
<1>1. One \in Nat
  BY ResearchAssumption
<1>2. ASSUME NEW a \in Analysts
      PROVE  /\ c[a] \in Nat
             /\ up[a] \in Int /\ 0 <= up[a] /\ up[a] <= One /\ f[a] = up[a] * c[a]
             /\ down[a] \in Int /\ 0 <= down[a] /\ down[a] <= One /\ g[a] = down[a] * c[a]
  <2> DEFINE n == reports[a].score
  <2>1. n \in Int /\ 0 - One <= n /\ n <= One /\ c[a] \in Nat
    BY DEF Reported, GoodReport, ValidScore
  <2>2. /\ Max({0, n}) = (IF 0 <= n THEN n ELSE 0)
        /\ Max({0, 0 - n}) = (IF 0 <= 0 - n THEN 0 - n ELSE 0)
    <3>1. n \in Int /\ 0 - n \in Int /\ 0 \in Int
      BY <2>1
    <3> DEFINE m == 0 - n
    <3>2. Max({0, m}) = (IF 0 <= m THEN m ELSE 0)
      <4> HIDE DEF m
      <4> QED BY <3>1, MaxOfTwo DEF m
    <3> HIDE DEF n
    <3>3. Max({0, n}) = (IF 0 <= n THEN n ELSE 0)
      BY <3>1, MaxOfTwo
    <3> QED BY <3>2, <3>3
  <2>3. up[a] = Max({0, n}) /\ down[a] = Max({0, 0 - n})
    OBVIOUS
  <2>4. f[a] = up[a] * c[a] /\ g[a] = down[a] * c[a]
    OBVIOUS
  <2> HIDE DEF n, up, down, f, g, c
  <2> QED BY <1>1, <2>1, <2>2, <2>3, <2>4
<1>3. Confidence = OverReports(c) /\ Upside = OverReports(f) /\ Downside = OverReports(g)
  BY DEF Confidence, Upside, Downside
<1> HIDE DEF c, up, down, f, g
<1>4. OverReports(c) \in Nat /\ OverReports(f) \in Nat /\ OverReports(f) <= One * OverReports(c)
  <2>1. \A a \in Analysts : /\ c[a] \in Nat /\ up[a] \in Int /\ 0 <= up[a] /\ up[a] <= One
                            /\ f[a] = up[a] * c[a]
    BY <1>2
  <2> QED BY <2>1, SidesBounded
<1>5. OverReports(g) \in Nat /\ OverReports(g) <= One * OverReports(c)
  <2>1. \A a \in Analysts : /\ c[a] \in Nat /\ down[a] \in Int /\ 0 <= down[a] /\ down[a] <= One
                            /\ g[a] = down[a] * c[a]
    BY <1>2
  <2> QED BY <2>1, SidesBounded
<1> QED BY <1>3, <1>4, <1>5

(* Every score the rules compute is a score, and the bear's speaks against. *)
LEMMA RuleBullIsScore ==
  ASSUME Reported
  PROVE  RuleBull \in Int /\ ValidScore(RuleBull)
<1>1. One \in Nat
  BY ResearchAssumption
<1>2. CASE Confidence = 0
  BY <1>1, <1>2 DEF RuleBull, ValidScore
<1>3. CASE Confidence # 0
  <2> DEFINE n == 100 * Upside - 35 * Downside
             d == 100 * Confidence
             w == One * Confidence
  <2>1. w \in Nat /\ One * d = 100 * w
    <3>1. Confidence \in Nat
      BY DebateBounds
    <3> QED BY <1>1, <3>1
  <2>2. n \in Int /\ d \in Nat \ {0} /\ n <= 100 * w /\ -(100 * w) <= n
    <3> HIDE DEF w
    <3>1. Upside \in Nat /\ Upside <= w /\ Downside \in Nat /\ Downside <= w
      BY DebateBounds DEF w
    <3> QED BY <1>3, <2>1, <3>1, DebateBounds
  <2>3. RuleBull = RoundSigned(n, d)
    BY <1>3 DEF RuleBull
  <2> HIDE DEF n, d, w
  <2>4. RoundSigned(n, d) \in -One..One
    BY <1>1, <2>1, <2>2, SignedIsNearest, NearestBounded
  <2> QED BY <1>1, <2>3, <2>4 DEF ValidScore
<1> QED BY <1>2, <1>3

LEMMA RuleBearIsScore ==
  ASSUME Reported
  PROVE  RuleBear \in Int /\ ValidScore(RuleBear) /\ RuleBear <= 0
<1>1. One \in Nat
  BY ResearchAssumption
<1>2. CASE Confidence = 0
  BY <1>1, <1>2 DEF RuleBear, ValidScore
<1>3. CASE Confidence # 0
  <2> DEFINE risks == [a \in Analysts |-> RiskNotes[a]]
             unsure == Cardinality({a \in Analysts : reports[a].confidence < 50})
             density == Min({One \div 5, (3 * One * OverReports(risks)) \div 200})
             depth == Downside + ((unsure * One) \div 20 + density) * Confidence
             n == Min({depth, One * Confidence})
  <2>1. Confidence \in Nat \ {0} /\ One * Confidence \in Nat
    <3>1. Confidence \in Nat
      BY DebateBounds
    <3> QED BY <1>1, <1>3, <3>1
  <2>2. OverReports(risks) \in Nat
    <3> DEFINE none == [a \in Analysts |-> 0]
    <3>1. \A a \in Analysts : /\ risks[a] \in Nat /\ none[a] \in Int /\ 0 <= none[a]
                              /\ none[a] <= One /\ none[a] = none[a] * risks[a]
      BY <1>1, ResearchAssumption
    <3> HIDE DEF risks, none
    <3> QED BY <3>1, SidesBounded
  <2>3. unsure \in Nat
    <3>1. {a \in Analysts : reports[a].confidence < 50} \in SUBSET Analysts
      OBVIOUS
    <3> QED BY <3>1, AnalystsFinite, FS_Subset, FS_CardinalityType
  <2>4. density \in Nat
    <3> DEFINE u == One \div 5
               v == (3 * One * OverReports(risks)) \div 200
    <3>1. u \in Nat
      BY <1>1
    <3>2. v \in Nat
      <4> DEFINE t == 3 * One * OverReports(risks)
      <4> HIDE DEF risks
      <4>1. t \in Nat
        BY <1>1, <2>2
      <4> HIDE DEF t
      <4>2. t \div 200 \in Nat
        BY <4>1
      <4> QED BY <4>2 DEF t
    <3> HIDE DEF u, v
    <3>3. Min({u, v}) \in Nat
      BY <3>1, <3>2, MinOfTwo
    <3> QED BY <3>3 DEF u, v
  <2>5. depth \in Nat
    <3> HIDE DEF unsure, density
    <3> DEFINE u == (unsure * One) \div 20 + density
    <3>1. u \in Nat
      <4> DEFINE t == unsure * One
      <4>1. t \in Nat
        BY <1>1, <2>3
      <4> HIDE DEF t
      <4>2. t \div 20 \in Nat
        BY <4>1
      <4>3. t \div 20 + density \in Nat
        BY <2>4, <4>2
      <4> QED BY <4>3 DEF t
    <3> HIDE DEF u
    <3>2. Downside + u * Confidence \in Nat
      BY <2>1, <3>1, DebateBounds
    <3> QED BY <3>2 DEF u
  <2>6. RuleBear = 0 - RoundHalfEven(n, Confidence)
    BY <1>3 DEF RuleBear
  <2> HIDE DEF depth
  <2> DEFINE cap == One * Confidence
  <2>7. n \in Nat /\ n <= cap
    <3>1. cap \in Nat
      BY <2>1
    <3> HIDE DEF cap
    <3>2. Min({depth, cap}) \in Nat /\ Min({depth, cap}) <= cap
      BY <2>5, <3>1, MinOfTwo
    <3> QED BY <3>2 DEF cap
  <2> HIDE DEF n
  <2>8. RoundHalfEven(n, Confidence) \in -One..One /\ RoundHalfEven(n, Confidence) \in Nat
    <3>1. Nearest(n, Confidence, RoundHalfEven(n, Confidence))
          /\ RoundHalfEven(n, Confidence) \in Nat
      BY <2>1, <2>7, HalfEvenIsNearest
    <3>2. n \in Int /\ -(One * Confidence) <= n /\ n <= One * Confidence
      BY <2>1, <2>7
    <3> QED BY <1>1, <2>1, <3>1, <3>2, NearestBounded
  <2> HIDE DEF cap
  <2> QED BY <1>1, <2>6, <2>8 DEF ValidScore
<1> QED BY <1>2, <1>3

LEMMA ConsensusIsScore ==
  ASSUME Reported, NEW b \in Int, ValidScore(b), NEW c \in Int, ValidScore(c)
  PROVE  RuleConsensus(b, c) \in Int /\ ValidScore(RuleConsensus(b, c))
<1> DEFINE step == 25 * b + 15 * c
<1>1. One \in Nat /\ step \in Int /\ step <= 40 * One /\ -(40 * One) <= step
  <2>1. One \in Nat
    BY ResearchAssumption
  <2> QED BY <2>1 DEF ValidScore
<1>2. CASE Confidence = 0
  <2>1. RuleConsensus(b, c) = RoundSigned(step, 100)
    BY <1>2 DEF RuleConsensus
  <2> HIDE DEF step
  <2>2. 100 \in Nat \ {0} /\ step <= One * 100 /\ -(One * 100) <= step
    BY <1>1
  <2>3. RoundSigned(step, 100) \in -One..One
    BY <1>1, <2>2, SignedIsNearest, NearestBounded
  <2> QED BY <1>1, <2>1, <2>3 DEF ValidScore
<1>3. CASE Confidence # 0
  <2> DEFINE n == 60 * (Upside - Downside) + step * Confidence
             d == 100 * Confidence
             w == One * Confidence
             v == step * Confidence
  <2>1. RuleConsensus(b, c) = RoundSigned(n, d)
    BY <1>3 DEF RuleConsensus
  <2> HIDE DEF step
  <2>2. /\ Confidence \in Nat \ {0} /\ Upside \in Nat /\ Downside \in Nat
        /\ Upside <= w /\ Downside <= w
    BY <1>3, DebateBounds
  <2>3. w \in Nat /\ One * d = 100 * w /\ d \in Nat \ {0}
    BY <1>1, <2>2
  <2>4. v \in Int /\ v <= 40 * w /\ -(40 * w) <= v
    <3> DEFINE k == Confidence
    <3>1. k \in Nat
      BY <2>2
    <3> HIDE DEF k
    <3>2. /\ step * k \in Int /\ step * k <= (40 * One) * k /\ (-(40 * One)) * k <= step * k
          /\ (40 * One) * k = 40 * (One * k) /\ (-(40 * One)) * k = -(40 * (One * k))
      BY <1>1, <3>1
    <3> QED BY <3>2 DEF k
  <2>5. n = 60 * (Upside - Downside) + v
    OBVIOUS
  <2> HIDE DEF n, d, w, v
  <2>6. n \in Int /\ n <= One * d /\ -(One * d) <= n
    BY <2>2, <2>3, <2>4, <2>5
  <2>7. RoundSigned(n, d) \in -One..One
    BY <1>1, <2>3, <2>6, SignedIsNearest, NearestBounded
  <2> QED BY <1>1, <2>1, <2>7 DEF ValidScore
<1> QED BY <1>2, <1>3

(* Numbers that differ by w / 100 differ by no more than a step more when   *)
(* they are rounded.                                                        *)
LEMMA NearestApart ==
  ASSUME NEW k \in Nat \ {0}, NEW w \in Nat, NEW m \in Int, NEW n \in Int,
         m - n <= w * k, NEW r, NEW s, Nearest(m, 100 * k, r), Nearest(n, 100 * k, s)
  PROVE  r - s <= w \div 100 + 1
<1> DEFINE x == (r - s) - 1
           d == 100 * k
<1>1. r \in Int /\ s \in Int /\ x \in Int /\ d \in Nat
  BY DEF Nearest
<1>2. 2 * (d * r) <= 2 * m + d /\ 2 * n <= 2 * (d * s) + d
  BY DEF Nearest
<1>3. d * x = d * r - d * s - d
  BY <1>1
<1>4. d * x <= w * k
  <2> DEFINE p == d * r
             q == d * s
             y == d * x
             z == w * k
  <2>1. p \in Int /\ q \in Int /\ y \in Int /\ z \in Int
    BY <1>1
  <2>2. 2 * p <= 2 * m + d /\ 2 * n <= 2 * q + d /\ y = p - q - d /\ m - n <= z
    BY <1>2, <1>3
  <2> HIDE DEF p, q, y, z, d, x
  <2>3. y <= z
    BY <1>1, <2>1, <2>2
  <2> QED BY <2>3 DEF y, z
<1>5. 100 * x <= w
  <2> SUFFICES ASSUME w + 1 <= 100 * x PROVE FALSE
    BY <1>1
  <2> DEFINE t == 100 * x
  <2>1. d * x = t * k
    BY <1>1
  <2>2. t \in Int /\ w + 1 <= t
    BY <1>1
  <2> HIDE DEF t
  <2>3. (w + 1) * k <= t * k
    BY <2>2
  <2>4. (w + 1) * k = w * k + k /\ w * k \in Int
    OBVIOUS
  <2> QED
    <3> DEFINE y == t * k
               z == w * k
    <3>1. y \in Int /\ z \in Int /\ z + k <= y /\ y <= z
      BY <1>4, <2>1, <2>2, <2>3, <2>4
    <3> HIDE DEF y, z
    <3> QED BY <3>1
<1>6. x <= w \div 100
  <2> HIDE DEF x
  <2> QED BY <1>1, <1>5
<1> HIDE DEF x
<1>7. r - s = x + 1
  BY <1>1 DEF x
<1>8. w \div 100 \in Int
  OBVIOUS
<1> QED BY <1>1, <1>6, <1>7, <1>8

(* Moving bull and bear by MaxAdjust each moves the rules' consensus by     *)
(* their weights times MaxAdjust and a step.                                *)
LEMMA ConsensusMoves ==
  ASSUME Reported, NEW b \in Int, NEW c \in Int, NEW x \in Int, NEW y \in Int,
         b - x <= MaxAdjust, c - y <= MaxAdjust
  PROVE  /\ RuleConsensus(b, c) \in Int /\ RuleConsensus(x, y) \in Int
         /\ RuleConsensus(b, c) - RuleConsensus(x, y) <= (40 * MaxAdjust) \div 100 + 1
<1> DEFINE w == 40 * MaxAdjust
           u == 25 * b + 15 * c
           v == 25 * x + 15 * y
<1>1. MaxAdjust \in Nat
  BY ResearchAssumption
<1>2. w \in Nat /\ u \in Int /\ v \in Int /\ u - v <= w
  BY <1>1
<1>3. CASE Confidence = 0
  <2>1. RuleConsensus(b, c) = RoundSigned(u, 100) /\ RuleConsensus(x, y) = RoundSigned(v, 100)
    BY <1>3 DEF RuleConsensus
  <2> HIDE DEF u, v, w
  <2>2. Nearest(u, 100 * 1, RoundSigned(u, 100)) /\ Nearest(v, 100 * 1, RoundSigned(v, 100))
    BY <1>2, SignedIsNearest
  <2>3. u - v <= w * 1 /\ 1 \in Nat \ {0}
    BY <1>2
  <2>4. RoundSigned(u, 100) - RoundSigned(v, 100) <= w \div 100 + 1
    BY <1>2, <2>2, <2>3, NearestApart
  <2>5. RoundSigned(u, 100) \in Int /\ RoundSigned(v, 100) \in Int
    BY <2>2 DEF Nearest
  <2> QED BY <2>1, <2>4, <2>5 DEF w
<1>4. CASE Confidence # 0
  <2> DEFINE k == Confidence
             e == 60 * (Upside - Downside)
             m == e + u * k
             n == e + v * k
  <2>1. /\ RuleConsensus(b, c) = RoundSigned(m, 100 * k)
        /\ RuleConsensus(x, y) = RoundSigned(n, 100 * k)
    BY <1>4 DEF RuleConsensus
  <2>2. k \in Nat \ {0} /\ e \in Int /\ 100 * k \in Nat \ {0}
    BY <1>4, DebateBounds
  <2> HIDE DEF u, v, w, k, e
  <2>3. m \in Int /\ n \in Int /\ m - n <= w * k
    <3>1. (u - v) * k <= w * k /\ (u - v) * k = u * k - v * k
      BY <1>2, <2>2
    <3>2. u * k \in Int /\ v * k \in Int /\ w * k \in Int
      BY <1>2, <2>2
    <3> DEFINE p == u * k
               q == v * k
               z == w * k
    <3>3. p \in Int /\ q \in Int /\ z \in Int /\ p - q <= z
      BY <3>1, <3>2
    <3> HIDE DEF p, q, z
    <3>4. e + p \in Int /\ e + q \in Int /\ (e + p) - (e + q) <= z
      BY <2>2, <3>3
    <3> QED BY <3>4 DEF p, q, z
  <2> HIDE DEF m, n
  <2>4. Nearest(m, 100 * k, RoundSigned(m, 100 * k)) /\ Nearest(n, 100 * k, RoundSigned(n, 100 * k))
    BY <2>2, <2>3, SignedIsNearest
  <2>5. RoundSigned(m, 100 * k) - RoundSigned(n, 100 * k) <= w \div 100 + 1
    BY <1>2, <2>2, <2>3, <2>4, NearestApart
  <2>6. RoundSigned(m, 100 * k) \in Int /\ RoundSigned(n, 100 * k) \in Int
    BY <2>4 DEF Nearest
  <2> QED BY <2>1, <2>5, <2>6 DEF w
<1> QED BY <1>3, <1>4

-----------------------------------------------------------------------------
(* The proposal.                                                            *)

SoundHolding ==
  /\ holding.share \in Nat /\ (holding.share = 0 \/ holding \in Holdings)
  /\ holding.price \in {"even", "loss", "gain"}

LEMMA TriggerFacts ==
  ASSUME SoundHolding
  PROVE  /\ LifecycleTrigger \in {"new_entry", "stop_loss", "take_profit", "thesis_invalidated",
                                  "thesis_weakened", "hold_review"}
         /\ LifecycleTrigger = "new_entry" <=> ~Held
         /\ Held <=> holding.share > 0
<1>1. CASE ~Held
  BY <1>1 DEF LifecycleTrigger, Held
<1>2. CASE Held /\ holding.price = "loss"
  BY <1>2 DEF LifecycleTrigger, Held
<1>3. CASE Held /\ holding.price = "gain"
  BY <1>3 DEF LifecycleTrigger, Held
<1>4. CASE Held /\ holding.price = "even"
  <2> DEFINE label == Label
  <2>1. LifecycleTrigger = IF label = "bearish" THEN "thesis_invalidated"
                           ELSE IF label = "mild_bearish" THEN "thesis_weakened"
                           ELSE "hold_review"
    BY <1>4 DEF LifecycleTrigger
  <2> HIDE DEF label
  <2> QED BY <1>4, <2>1 DEF Held
<1> QED BY <1>1, <1>2, <1>3, <1>4 DEF SoundHolding

LEMMA RisingIsPositive ==
  ASSUME consensus \in Int, Rising
  PROVE  consensus > 0
<1>1. One \in Nat \ {0}
  BY ResearchAssumption
<1>2. CASE 100 * consensus >= 45 * One
  BY <1>1, <1>2
<1>3. CASE 100 * consensus < 45 * One /\ 100 * consensus >= 15 * One
  BY <1>1, <1>3
<1>4. CASE 100 * consensus < 15 * One
  <2>1. Label \in {"bearish", "mild_bearish", "neutral"}
    BY <1>1, <1>4 DEF Label
  <2> QED BY <2>1 DEF Rising
<1> QED BY <1>1, <1>2, <1>3, <1>4

LEMMA EntryTargetFacts ==
  ASSUME consensus \in Int
  PROVE  EntryTarget \in Nat /\ (Rising => EntryTarget > 0)
<1>1. MaxShare \in Nat \ {0} /\ MinShare \in Nat
  BY ResearchAssumption
<1> DEFINE m == 0 - consensus
           n == Max({consensus, m})
           t == Max({MinShare, n})
<1>2. n \in Int /\ consensus <= n
  <2>1. m \in Int
    OBVIOUS
  <2> HIDE DEF m
  <2> QED BY <2>1, MaxOfTwo
<1>3. t \in Int /\ n <= t /\ MinShare <= t
  <2> HIDE DEF n
  <2> QED BY <1>1, <1>2, MaxOfTwo
<1>4. EntryTarget = Min({MaxShare, t})
  <2>1. Max({MinShare, consensus, m}) = t
    <3>1. m \in Int
      OBVIOUS
    <3> HIDE DEF m
    <3> QED BY <1>1, <3>1, MaxOfThree
  <2> QED BY <2>1 DEF EntryTarget
<1> HIDE DEF t, n, m
<1>5. Min({MaxShare, t}) = IF MaxShare <= t THEN MaxShare ELSE t
  BY <1>1, <1>3, MinOfTwo
<1>6. Rising => t > 0
  BY <1>2, <1>3, RisingIsPositive
<1> QED BY <1>1, <1>3, <1>4, <1>5, <1>6

LEMMA ReducedTargetFacts ==
  ASSUME SoundHolding
  PROVE  /\ ReducedTarget \in Nat
         /\ Held => ReducedTarget < holding.share
         /\ Held /\ holding.share # 1 => 0 < ReducedTarget
<1> DEFINE n == holding.share
           r == ReducedTarget
<1>1. n \in Nat /\ (Held <=> n > 0)
  BY DEF SoundHolding, Held
<1>2. r \in Nat /\ Nearest(n, 2, r)
  BY <1>1, HalfEvenIsNearest DEF ReducedTarget
<1>3. 2 * n <= 2 * (2 * r) + 2 /\ 2 * (2 * r) <= 2 * n + 2
  BY <1>2 DEF Nearest
<1>4. n = 1 => r = 0
  BY DEF ReducedTarget, RoundHalfEven
<1> HIDE DEF n, r
<1>5. n > 1 => 0 < r /\ r < n
  BY <1>1, <1>2, <1>3
<1> QED BY <1>1, <1>2, <1>4, <1>5 DEF n, r

(* A proposal the risk engine takes for what it is, unless half of the      *)
(* position rounds to nothing.                                              *)
Sensible(p) ==
  /\ p.target \in Nat /\ (holding.share # 1 => Admissible(p))
  /\ LifecycleTrigger = "stop_loss" => p.action = "EXIT"
  /\ LifecycleTrigger \in {"take_profit", "thesis_weakened", "thesis_invalidated"} =>
       p.target < holding.share

LEMMA RuleDecisionIsSensible ==
  ASSUME SoundHolding, consensus \in Int
  PROVE  Sensible(RuleDecision)
<1> DEFINE n == holding.share
           a == RuleAction
           t == TargetForAction(a)
<1>1. n \in Nat /\ (Held <=> n > 0) /\ (LifecycleTrigger = "new_entry" <=> ~Held)
  BY TriggerFacts DEF SoundHolding
<1>2. RuleDecision.action = a /\ RuleDecision.target = t
  BY DEF RuleDecision
<1>3. EntryTarget \in Nat /\ (Rising => EntryTarget > 0)
  BY EntryTargetFacts
<1>4. Max({n, EntryTarget}) = IF n <= EntryTarget THEN EntryTarget ELSE n
  BY <1>1, <1>3, MaxOfTwo
<1>5. CASE a = "BUY"
  <2>1. t = Max({n, EntryTarget})
    BY <1>5 DEF TargetForAction
  <2>2. Rising /\ LifecycleTrigger \in {"new_entry", "hold_review"}
        /\ (LifecycleTrigger = "hold_review" => EntryTarget > n)
    BY <1>5, TriggerFacts DEF RuleAction
  <2>3. EntryTarget > n
    BY <1>1, <1>3, <2>2
  <2>4. t \in Nat /\ t > n
    BY <1>1, <1>3, <1>4, <2>1, <2>3
  <2> HIDE DEF t
  <2> QED BY <1>2, <1>5, <2>2, <2>4 DEF Sensible, Admissible
<1>6. CASE a = "HOLD"
  <2>1. t = n
    BY <1>6 DEF TargetForAction
  <2>2. LifecycleTrigger = "hold_review" /\ Held
    BY <1>1, <1>6, TriggerFacts DEF RuleAction
  <2> HIDE DEF t
  <2> QED BY <1>1, <1>2, <1>6, <2>1, <2>2 DEF Sensible, Admissible
<1>7. CASE a = "REDUCE"
  <2>1. t = ReducedTarget
    BY <1>7 DEF TargetForAction
  <2>2. LifecycleTrigger \in {"take_profit", "thesis_weakened"} /\ Held
    BY <1>1, <1>7, TriggerFacts DEF RuleAction
  <2>3. t \in Nat /\ t < n /\ (n # 1 => 0 < t)
    BY <2>1, <2>2, ReducedTargetFacts
  <2> HIDE DEF t
  <2> QED BY <1>2, <1>7, <2>2, <2>3 DEF Sensible, Admissible
<1>8. CASE a = "EXIT"
  <2>1. t = 0
    BY <1>8 DEF TargetForAction
  <2>2. LifecycleTrigger \in {"stop_loss", "thesis_invalidated"} /\ Held
    BY <1>1, <1>8, TriggerFacts DEF RuleAction
  <2> HIDE DEF t
  <2> QED BY <1>1, <1>2, <1>8, <2>1, <2>2 DEF Sensible, Admissible
<1>9. CASE a = "NO_TRADE"
  <2>1. t = 0
    BY <1>9 DEF TargetForAction
  <2>2. LifecycleTrigger = "new_entry" /\ ~Held
    BY <1>1, <1>9, TriggerFacts DEF RuleAction
  <2> HIDE DEF t
  <2> QED BY <1>2, <1>9, <2>1, <2>2 DEF Sensible, Admissible
<1>10. a \in {"BUY", "HOLD", "REDUCE", "EXIT", "NO_TRADE"}
  BY TriggerFacts DEF RuleAction
<1> QED BY <1>5, <1>6, <1>7, <1>8, <1>9, <1>10

(* _validated_llm_decision: what is taken over from the model.              *)
TakenDraft(draft) == [action |-> draft.action, target |-> ClampedTarget(draft), source |-> "model"]

LEMMA TakenIsSensible ==
  ASSUME SoundHolding, NEW draft, draft.target \in Nat, Acceptable(draft)
  PROVE  Sensible(TakenDraft(draft))
<1> DEFINE n == holding.share
           a == draft.action
           t == ClampedTarget(draft)
<1>1. n \in Nat /\ (Held <=> n > 0) /\ (LifecycleTrigger = "new_entry" <=> ~Held)
  BY TriggerFacts DEF SoundHolding
<1>2. TakenDraft(draft).action = a /\ TakenDraft(draft).target = t
  BY DEF TakenDraft
<1>3. a \in AllowedActions /\ TargetIsValid(draft) /\ (a = "BUY" => t > n)
  BY DEF Acceptable
<1>4. CASE a = "BUY"
  <2>1. t = Min({MaxShare, draft.target})
    BY <1>4 DEF ClampedTarget
  <2>2. t \in Nat
    BY <2>1, MinOfTwo, ResearchAssumption
  <2>3. LifecycleTrigger \in {"new_entry", "hold_review"}
    BY <1>3, <1>4, TriggerFacts DEF AllowedActions
  <2> HIDE DEF t
  <2> QED BY <1>2, <1>3, <1>4, <2>2, <2>3 DEF Sensible, Admissible
<1>5. CASE a = "HOLD"
  <2>1. t = n /\ Held
    BY <1>3, <1>5 DEF ClampedTarget, TargetIsValid
  <2>2. LifecycleTrigger = "hold_review"
    BY <1>3, <1>5, TriggerFacts DEF AllowedActions
  <2> HIDE DEF t
  <2> QED BY <1>1, <1>2, <1>5, <2>1, <2>2 DEF Sensible, Admissible
<1>6. CASE a = "REDUCE"
  <2>1. t = Min({draft.target, ReducedTarget}) /\ Held /\ 0 < draft.target
    BY <1>3, <1>6 DEF ClampedTarget, TargetIsValid
  <2>2. t \in Nat /\ t < n /\ (n # 1 => 0 < t)
    <3> DEFINE r == ReducedTarget
               u == draft.target
    <3>1. r \in Nat /\ r < n /\ (n # 1 => 0 < r) /\ u \in Nat /\ 0 < u
      BY <2>1, ReducedTargetFacts
    <3>2. Min({u, r}) = IF u <= r THEN u ELSE r
      BY <3>1, MinOfTwo
    <3> HIDE DEF r, u, t
    <3> QED BY <1>1, <2>1, <3>1, <3>2 DEF r, u
  <2>3. LifecycleTrigger # "stop_loss"
    BY <1>3, <1>6, TriggerFacts DEF AllowedActions
  <2> HIDE DEF t
  <2> QED BY <1>2, <1>6, <2>1, <2>2, <2>3 DEF Sensible, Admissible
<1>7. CASE a = "EXIT"
  <2>1. t = 0 /\ Held
    BY <1>3, <1>7 DEF ClampedTarget, TargetIsValid
  <2> HIDE DEF t
  <2> QED BY <1>1, <1>2, <1>7, <2>1 DEF Sensible, Admissible
<1>8. CASE a = "NO_TRADE"
  <2>1. t = 0 /\ ~Held
    BY <1>3, <1>8 DEF ClampedTarget, TargetIsValid
  <2>2. LifecycleTrigger = "new_entry"
    BY <1>1, <2>1
  <2> HIDE DEF t
  <2> QED BY <1>2, <1>8, <2>1, <2>2 DEF Sensible, Admissible
<1>9. a \in {"BUY", "HOLD", "REDUCE", "EXIT", "NO_TRADE"}
  BY <1>3, TriggerFacts DEF AllowedActions
<1> QED BY <1>4, <1>5, <1>6, <1>7, <1>8, <1>9

-----------------------------------------------------------------------------
(* The debate, step by step.                                                *)

Near(n, rule) == n - rule <= MaxAdjust /\ rule - n <= MaxAdjust
IsScore(n) == n \in Int /\ ValidScore(n)

SoundReports ==
  /\ DOMAIN reports \subseteq Analysts
  /\ \A a \in DOMAIN reports : GoodReport(reports[a])
SoundScores == IsScore(bull) /\ IsScore(bear) /\ bear <= 0 /\ IsScore(consensus)

(* Who has spoken.  A proposal speaks of the consensus it was made on: none *)
(* exists before the trader's turn.                                         *)
Turns ==
  /\ researchStage \in {"idle", "analysts", "bull", "bear", "manager", "trader", "explain",
                        "stored", "failed"}
  /\ researchStage = "idle" => DOMAIN reports = {}
  /\ researchStage = "analysts" => DOMAIN reports # Analysts
  /\ researchStage \in {"bull", "bear", "manager", "trader", "explain", "stored"} =>
       DOMAIN reports = Analysts
  /\ researchStage \in {"idle", "analysts", "bull", "bear", "manager", "trader"} =>
       proposal = NoProposal

BullNear == researchStage \in {"bear", "manager", "trader", "explain", "stored"} => Near(bull, RuleBull)
BearNear == researchStage \in {"manager", "trader", "explain", "stored"} => Near(bear, RuleBear)
ConsensusNear == researchStage \in {"trader", "explain", "stored"} =>
                   Near(consensus, RuleConsensus(bull, bear))
ProposalSound == proposal # NoProposal => Sensible(proposal)

ResearchInv ==
  /\ SoundHolding /\ SoundReports /\ SoundScores /\ Turns
  /\ BullNear /\ BearNear /\ ConsensusNear /\ ProposalSound

LEMMA ScoresOfZero == IsScore(0)
<1>1. One \in Nat
  BY ResearchAssumption
<1> QED BY <1>1 DEF IsScore, ValidScore

LEMMA RulesStand ==
  ASSUME reports' = reports
  PROVE  RuleBull' = RuleBull /\ RuleBear' = RuleBear /\ Confidence' = Confidence
         /\ Upside' = Upside /\ Downside' = Downside
<1>1. Confidence' = Confidence /\ Upside' = Upside /\ Downside' = Downside
  BY DEF Confidence, Upside, Downside
<1> QED BY <1>1 DEF RuleBull, RuleBear

LEMMA ConsensusStands ==
  ASSUME reports' = reports, bull' = bull, bear' = bear
  PROVE  RuleConsensus(bull, bear)' = RuleConsensus(bull, bear)
BY RulesStand DEF RuleConsensus

LEMMA ProposalStands ==
  ASSUME UNCHANGED <<holding, consensus, proposal>>, ProposalSound
  PROVE  ProposalSound'
<1>1. Label' = Label
  BY DEF Label
<1>2. LifecycleTrigger' = LifecycleTrigger
  BY <1>1 DEF LifecycleTrigger, Held
<1> QED BY <1>2 DEF ProposalSound, Sensible, Admissible, Held, NoProposal

LEMMA ResearchInvInit ==
  ASSUME ResearchInit
  PROVE  ResearchInv
<1>1. SoundHolding
  BY DEF ResearchInit, SoundHolding
<1>2. SoundReports /\ Turns
  BY DEF ResearchInit, SoundReports, Turns, NoReports
<1>3. SoundScores
  BY ScoresOfZero DEF ResearchInit, SoundScores
<1>4. BullNear /\ BearNear /\ ConsensusNear
  BY DEF ResearchInit, BullNear, BearNear, ConsensusNear
<1>5. ProposalSound
  BY DEF ResearchInit, ProposalSound
<1> QED BY <1>1, <1>2, <1>3, <1>4, <1>5 DEF ResearchInv

(* A failed symbol keeps what was said so far.                              *)
LEMMA FailKeeps ==
  ASSUME ResearchInv, Fail
  PROVE  ResearchInv'
<1>1. SoundHolding' /\ SoundReports' /\ SoundScores'
  BY DEF ResearchInv, Fail, SoundHolding, SoundReports, SoundScores
<1>2. Turns' /\ BullNear' /\ BearNear' /\ ConsensusNear'
  BY DEF ResearchInv, Fail, Turns, BullNear, BearNear, ConsensusNear
<1>3. ProposalSound'
  BY ProposalStands DEF ResearchInv, Fail
<1> QED BY <1>1, <1>2, <1>3 DEF ResearchInv

LEMMA AddReportKeeps ==
  ASSUME ResearchInv, researchStage = "analysts",
         NEW a \in Analysts, NEW report, GoodReport(report), AddReport(a, report)
  PROVE  ResearchInv'
<1>1. /\ reports' = [x \in DOMAIN reports \cup {a} |-> IF x = a THEN report ELSE reports[x]]
      /\ researchStage' = IF DOMAIN reports' = Analysts THEN "bull" ELSE "analysts"
      /\ holding' = holding /\ bull' = bull /\ bear' = bear /\ consensus' = consensus
      /\ proposal' = proposal
  BY DEF AddReport
<1>2. SoundHolding' /\ SoundScores'
  BY <1>1 DEF ResearchInv, SoundHolding, SoundScores
<1>3. SoundReports'
  <2>1. DOMAIN reports \subseteq Analysts /\ \A x \in DOMAIN reports : GoodReport(reports[x])
    BY DEF ResearchInv, SoundReports
  <2>2. DOMAIN reports' = DOMAIN reports \cup {a}
    BY <1>1
  <2>3. ASSUME NEW x \in DOMAIN reports' PROVE GoodReport(reports'[x])
    <3>1. CASE x = a
      <4>1. reports'[x] = report
        BY <1>1, <3>1
      <4> QED BY <4>1
    <3>2. CASE x # a
      <4>1. x \in DOMAIN reports /\ reports'[x] = reports[x]
        BY <1>1, <2>2, <2>3, <3>2
      <4> QED BY <2>1, <4>1
    <3> QED BY <3>1, <3>2
  <2> QED BY <2>1, <2>2, <2>3 DEF SoundReports, GoodReport
<1>4. Turns'
  BY <1>1 DEF ResearchInv, Turns, NoProposal
<1>5. BullNear' /\ BearNear' /\ ConsensusNear'
  BY <1>1 DEF BullNear, BearNear, ConsensusNear
<1>6. ProposalSound'
  BY <1>1, ProposalStands DEF ResearchInv
<1> QED BY <1>2, <1>3, <1>4, <1>5, <1>6 DEF ResearchInv

LEMMA AnalyseKeeps ==
  ASSUME ResearchInv, Analyse
  PROVE  ResearchInv'
<1> DEFINE a == NextAnalyst
<1>1. researchStage = "analysts" /\ a \in Analysts
  BY SomeoneNext DEF Analyse, ResearchInv, SoundReports, Turns
<1>2. \A finding \in Findings[a] : GoodReport(finding)
  BY <1>1, ResearchAssumption DEF GoodReport, ValidScore
<1>3. ASSUME GraphReport(a) PROVE ResearchInv'
  <2>1. PICK finding \in Findings[a] : AddReport(a, finding)
    BY <1>3 DEF GraphReport
  <2>2. GoodReport(finding)
    BY <1>2
  <2> HIDE DEF a
  <2> QED BY <1>1, <2>1, <2>2, AddReportKeeps
<1>4. ASSUME AskAnalyst(a) PROVE ResearchInv'
  <2> HIDE DEF a
  <2>1. PICK finding \in Findings[a], reply \in Replies(ReportDrafts) :
          IF Outcome(reply, FitsReport(reply.draft)) # "answer" THEN Fail
          ELSE AddReport(a, ReportOf(a, finding, reply.draft))
    BY <1>4 DEF AskAnalyst
  <2>2. CASE Outcome(reply, FitsReport(reply.draft)) # "answer"
    BY <2>1, <2>2, FailKeeps
  <2>3. CASE Outcome(reply, FitsReport(reply.draft)) = "answer"
    <3>1. reply.draft \in ReportDrafts
      BY DEF Replies
    <3>2. FitsReport(reply.draft)
      BY <2>3 DEF Outcome, LMStudioAnswers, OpenAIAnswers, GeminiAnswers
    <3>3. GoodReport(reply.draft)
      BY <3>1, <3>2, ResearchAssumption DEF GoodReport, FitsReport
    <3>4. GoodReport(ReportOf(a, finding, reply.draft))
      <4>1. ReportOf(a, finding, reply.draft) = reply.draft \/ ReportOf(a, finding, reply.draft) = finding
        BY DEF ReportOf
      <4> QED BY <1>2, <3>3, <4>1
    <3> QED BY <1>1, <2>1, <2>3, <3>4, AddReportKeeps
  <2> QED BY <2>2, <2>3
<1> QED BY <1>3, <1>4 DEF Analyse

LEMMA GuardedKeepsNear ==
  ASSUME NEW rule, IsScore(rule), NEW answer \in ScoreDrafts
  PROVE  IsScore(Guarded(rule, answer)) /\ Near(Guarded(rule, answer), rule)
<1>1. answer \in Int
  BY ResearchAssumption
<1> QED BY <1>1, GuardedFacts DEF IsScore, Near

LEMMA BullKeeps ==
  ASSUME ResearchInv, Bull
  PROVE  ResearchInv'
<1>1. PICK reply \in Replies(ScoreDrafts) :
        IF Outcome(reply, FitsThesis(reply.draft)) # "answer" THEN Fail
        ELSE /\ bull' = Guarded(RuleBull, reply.draft)
             /\ researchStage' = "bear"
             /\ UNCHANGED <<holding, reports, bear, consensus, proposal>>
  BY DEF Bull
<1>2. CASE Outcome(reply, FitsThesis(reply.draft)) # "answer"
  BY <1>1, <1>2, FailKeeps
<1>3. CASE Outcome(reply, FitsThesis(reply.draft)) = "answer"
  <2>1. /\ bull' = Guarded(RuleBull, reply.draft) /\ researchStage' = "bear"
        /\ holding' = holding /\ reports' = reports /\ bear' = bear
        /\ consensus' = consensus /\ proposal' = proposal
    BY <1>1, <1>3
  <2>2. researchStage = "bull" /\ reply.draft \in ScoreDrafts
    BY DEF Bull, Replies
  <2>3. Reported
    BY <2>2 DEF ResearchInv, SoundReports, Turns, Reported
  <2>4. IsScore(Guarded(RuleBull, reply.draft)) /\ Near(Guarded(RuleBull, reply.draft), RuleBull)
    <3> DEFINE rule == RuleBull
               answer == reply.draft
    <3>1. IsScore(rule)
      BY <2>3, RuleBullIsScore DEF IsScore
    <3> HIDE DEF rule
    <3> QED BY <2>2, <3>1, GuardedKeepsNear DEF rule
  <2>5. SoundHolding' /\ SoundReports' /\ SoundScores'
    BY <2>1, <2>4 DEF ResearchInv, SoundHolding, SoundReports, SoundScores
  <2>6. Turns' /\ BearNear' /\ ConsensusNear'
    BY <2>1, <2>2 DEF ResearchInv, Turns, BearNear, ConsensusNear, NoProposal
  <2>7. BullNear'
    BY <2>1, <2>4, RulesStand DEF BullNear
  <2>8. ProposalSound'
    BY <2>1, ProposalStands DEF ResearchInv
  <2> QED BY <2>5, <2>6, <2>7, <2>8 DEF ResearchInv
<1> QED BY <1>2, <1>3

LEMMA GuardedBearFacts ==
  ASSUME NEW rule, IsScore(rule), rule <= 0, NEW answer \in ScoreDrafts
  PROVE  /\ IsScore(GuardedBear(rule, answer)) /\ Near(GuardedBear(rule, answer), rule)
         /\ GuardedBear(rule, answer) <= 0
<1> DEFINE n == Guarded(rule, answer)
<1>1. IsScore(n) /\ Near(n, rule)
  BY GuardedKeepsNear
<1>2. MaxAdjust \in Nat /\ One \in Nat
  BY ResearchAssumption
<1>3. GuardedBear(rule, answer) = Min({0, n})
  BY DEF GuardedBear
<1> HIDE DEF n
<1>4. Min({0, n}) = IF 0 <= n THEN 0 ELSE n
  BY <1>1, MinOfTwo DEF IsScore
<1> QED BY <1>1, <1>2, <1>3, <1>4 DEF IsScore, Near, ValidScore

LEMMA BearKeeps ==
  ASSUME ResearchInv, Bear
  PROVE  ResearchInv'
<1>1. PICK reply \in Replies(ScoreDrafts) :
        IF Outcome(reply, FitsThesis(reply.draft)) # "answer" THEN Fail
        ELSE /\ bear' = GuardedBear(RuleBear, reply.draft)
             /\ researchStage' = "manager"
             /\ UNCHANGED <<holding, reports, bull, consensus, proposal>>
  BY DEF Bear
<1>2. CASE Outcome(reply, FitsThesis(reply.draft)) # "answer"
  BY <1>1, <1>2, FailKeeps
<1>3. CASE Outcome(reply, FitsThesis(reply.draft)) = "answer"
  <2>1. /\ bear' = GuardedBear(RuleBear, reply.draft) /\ researchStage' = "manager"
        /\ holding' = holding /\ reports' = reports /\ bull' = bull
        /\ consensus' = consensus /\ proposal' = proposal
    BY <1>1, <1>3
  <2>2. researchStage = "bear" /\ reply.draft \in ScoreDrafts
    BY DEF Bear, Replies
  <2>3. Reported
    BY <2>2 DEF ResearchInv, SoundReports, Turns, Reported
  <2>4. /\ IsScore(GuardedBear(RuleBear, reply.draft)) /\ GuardedBear(RuleBear, reply.draft) <= 0
        /\ Near(GuardedBear(RuleBear, reply.draft), RuleBear)
    <3> DEFINE rule == RuleBear
    <3>1. IsScore(rule) /\ rule <= 0
      BY <2>3, RuleBearIsScore DEF IsScore
    <3> HIDE DEF rule
    <3> QED BY <2>2, <3>1, GuardedBearFacts DEF rule
  <2>5. SoundHolding' /\ SoundReports' /\ SoundScores'
    BY <2>1, <2>4 DEF ResearchInv, SoundHolding, SoundReports, SoundScores
  <2>6. Turns' /\ ConsensusNear'
    BY <2>1, <2>2 DEF ResearchInv, Turns, ConsensusNear, NoProposal
  <2>7. BullNear' /\ BearNear'
    BY <2>1, <2>2, <2>4, RulesStand DEF ResearchInv, BullNear, BearNear
  <2>8. ProposalSound'
    BY <2>1, ProposalStands DEF ResearchInv
  <2> QED BY <2>5, <2>6, <2>7, <2>8 DEF ResearchInv
<1> QED BY <1>2, <1>3

LEMMA ManageKeeps ==
  ASSUME ResearchInv, Manage
  PROVE  ResearchInv'
<1>1. PICK reply \in Replies(ScoreDrafts) :
        IF Outcome(reply, FitsSummary(reply.draft)) # "answer" THEN Fail
        ELSE /\ consensus' = Guarded(RuleConsensus(bull, bear), reply.draft)
             /\ researchStage' = "trader"
             /\ UNCHANGED <<holding, reports, bull, bear, proposal>>
  BY DEF Manage
<1>2. CASE Outcome(reply, FitsSummary(reply.draft)) # "answer"
  BY <1>1, <1>2, FailKeeps
<1>3. CASE Outcome(reply, FitsSummary(reply.draft)) = "answer"
  <2> DEFINE rule == RuleConsensus(bull, bear)
  <2>1. /\ consensus' = Guarded(rule, reply.draft) /\ researchStage' = "trader"
        /\ holding' = holding /\ reports' = reports /\ bull' = bull
        /\ bear' = bear /\ proposal' = proposal
    BY <1>1, <1>3
  <2>2. researchStage = "manager" /\ reply.draft \in ScoreDrafts
    BY DEF Manage, Replies
  <2>3. Reported
    BY <2>2 DEF ResearchInv, SoundReports, Turns, Reported
  <2>4. IsScore(rule)
    BY <2>3, ConsensusIsScore DEF ResearchInv, SoundScores, IsScore
  <2>5. RuleConsensus(bull, bear)' = rule
    BY <2>1, ConsensusStands
  <2> HIDE DEF rule
  <2>6. IsScore(Guarded(rule, reply.draft)) /\ Near(Guarded(rule, reply.draft), rule)
    BY <2>2, <2>4, GuardedKeepsNear
  <2>7. SoundHolding' /\ SoundReports' /\ SoundScores'
    BY <2>1, <2>6 DEF ResearchInv, SoundHolding, SoundReports, SoundScores
  <2>8. Turns'
    BY <2>1, <2>2 DEF ResearchInv, Turns, NoProposal
  <2>9. BullNear' /\ BearNear'
    BY <2>1, <2>2, RulesStand DEF ResearchInv, BullNear, BearNear
  <2>10. ConsensusNear'
    BY <2>1, <2>5, <2>6 DEF ConsensusNear
  <2>11. ProposalSound'
    BY <2>1, <2>2 DEF ResearchInv, Turns, ProposalSound, NoProposal
  <2> QED BY <2>7, <2>8, <2>9, <2>10, <2>11 DEF ResearchInv
<1> QED BY <1>2, <1>3

LEMMA ProposeKeeps ==
  ASSUME ResearchInv, Propose
  PROVE  ResearchInv'
<1>1. PICK reply \in Replies(TradeDrafts) :
        IF Outcome(reply, FitsTrade(reply.draft)) = "exception" THEN Fail
        ELSE /\ proposal' = IF /\ Outcome(reply, FitsTrade(reply.draft)) = "answer"
                               /\ Acceptable(reply.draft)
                            THEN TakenDraft(reply.draft) ELSE RuleDecision
             /\ researchStage' = "explain"
             /\ UNCHANGED <<holding, reports, bull, bear, consensus>>
  BY DEF Propose, TakenDraft
<1>2. CASE Outcome(reply, FitsTrade(reply.draft)) = "exception"
  BY <1>1, <1>2, FailKeeps
<1>3. CASE Outcome(reply, FitsTrade(reply.draft)) # "exception"
  <2>1. /\ \/ proposal' = TakenDraft(reply.draft) /\ Acceptable(reply.draft)
           \/ proposal' = RuleDecision
        /\ researchStage' = "explain"
        /\ holding' = holding /\ reports' = reports /\ bull' = bull
        /\ bear' = bear /\ consensus' = consensus
    BY <1>1, <1>3
  <2>2. researchStage = "trader" /\ reply.draft \in TradeDrafts
    BY DEF Propose, Replies
  <2>3. PICK made : proposal' = made /\ Sensible(made)
    <3>1. SoundHolding /\ consensus \in Int
      BY DEF ResearchInv, SoundScores, IsScore
    <3>2. reply.draft.target \in Nat
      BY <2>2, ResearchAssumption
    <3> QED BY <2>1, <3>1, <3>2, TakenIsSensible, RuleDecisionIsSensible
  <2>4. ProposalSound'
    <3>1. Label' = Label
      BY <2>1 DEF Label
    <3>2. LifecycleTrigger' = LifecycleTrigger
      BY <2>1, <3>1 DEF LifecycleTrigger, Held
    <3> QED BY <2>1, <2>3, <3>2 DEF ProposalSound, Sensible, Admissible, Held
  <2>5. SoundHolding' /\ SoundReports' /\ SoundScores'
    BY <2>1 DEF ResearchInv, SoundHolding, SoundReports, SoundScores
  <2>6. Turns'
    BY <2>1, <2>2 DEF ResearchInv, Turns
  <2>7. BullNear' /\ BearNear' /\ ConsensusNear'
    BY <2>1, <2>2, RulesStand, ConsensusStands
       DEF ResearchInv, BullNear, BearNear, ConsensusNear
  <2> QED BY <2>4, <2>5, <2>6, <2>7 DEF ResearchInv
<1> QED BY <1>2, <1>3

LEMMA ExplainKeeps ==
  ASSUME ResearchInv, Explain
  PROVE  ResearchInv'
<1>1. CASE Fail
  BY <1>1, FailKeeps
<1>2. CASE /\ researchStage' = "stored"
           /\ UNCHANGED <<holding, reports, bull, bear, consensus, proposal>>
  <2>1. researchStage = "explain"
    BY DEF Explain
  <2>2. SoundHolding' /\ SoundReports' /\ SoundScores' /\ Turns'
    BY <1>2, <2>1 DEF ResearchInv, SoundHolding, SoundReports, SoundScores, Turns
  <2>3. BullNear' /\ BearNear' /\ ConsensusNear'
    BY <1>2, <2>1, RulesStand, ConsensusStands
       DEF ResearchInv, BullNear, BearNear, ConsensusNear
  <2>4. ProposalSound'
    BY <1>2, ProposalStands DEF ResearchInv
  <2> QED BY <2>2, <2>3, <2>4 DEF ResearchInv
<1> QED BY <1>1, <1>2 DEF Explain

LEMMA EndKeeps ==
  ASSUME ResearchInv, EndResearch
  PROVE  ResearchInv'
<1>1. SoundHolding' /\ SoundReports' /\ Turns'
  BY DEF EndResearch, SoundHolding, SoundReports, Turns, NoReports
<1>2. SoundScores'
  BY ScoresOfZero DEF EndResearch, SoundScores
<1>3. BullNear' /\ BearNear' /\ ConsensusNear' /\ ProposalSound'
  BY DEF EndResearch, BullNear, BearNear, ConsensusNear, ProposalSound
<1> QED BY <1>1, <1>2, <1>3 DEF ResearchInv

LEMMA StartKeeps ==
  ASSUME ResearchInv, researchStage = "idle", NEW h \in Holdings, StartResearch(h)
  PROVE  ResearchInv'
<1>1. /\ researchStage' = "analysts" /\ holding' = h /\ reports' = reports /\ bull' = bull
      /\ bear' = bear /\ consensus' = consensus /\ proposal' = proposal
  BY DEF StartResearch
<1>2. SoundHolding'
  BY <1>1, ResearchAssumption DEF SoundHolding
<1>3. Turns'
  <2>1. Analysts # {}
    <3>1. Len(Roster) \in Nat /\ Len(Roster) # 0
      BY ResearchAssumption, EmptySeq
    <3>2. 1 \in 1..Len(Roster)
      BY <3>1
    <3> QED BY <3>2 DEF Analysts
  <2> QED BY <1>1, <2>1 DEF ResearchInv, Turns, NoProposal
<1>4. SoundReports' /\ SoundScores'
  BY <1>1 DEF ResearchInv, SoundReports, SoundScores
<1>5. BullNear' /\ BearNear' /\ ConsensusNear' /\ ProposalSound'
  BY <1>1 DEF ResearchInv, Turns, BullNear, BearNear, ConsensusNear, ProposalSound, NoProposal
<1> QED BY <1>2, <1>3, <1>4, <1>5 DEF ResearchInv

LEMMA ResearchInvStep ==
  ASSUME ResearchInv, [ResearchNext]_researchVars
  PROVE  ResearchInv'
<1>1. CASE researchStage = "idle" /\ \E h \in Holdings : StartResearch(h)
  BY <1>1, StartKeeps
<1>2. CASE ResearchStep
  BY <1>2, AnalyseKeeps, BullKeeps, BearKeeps, ManageKeeps, ProposeKeeps, ExplainKeeps, EndKeeps
     DEF ResearchStep
<1>3. CASE UNCHANGED researchVars
  <2>1. SoundHolding' /\ SoundReports' /\ SoundScores' /\ Turns'
    BY <1>3 DEF ResearchInv, researchVars, SoundHolding, SoundReports, SoundScores, Turns
  <2>2. BullNear' /\ BearNear' /\ ConsensusNear'
    BY <1>3, RulesStand, ConsensusStands
       DEF ResearchInv, researchVars, BullNear, BearNear, ConsensusNear
  <2>3. ProposalSound'
    BY <1>3, ProposalStands DEF ResearchInv, researchVars
  <2> QED BY <2>1, <2>2, <2>3 DEF ResearchInv
<1> QED BY <1>1, <1>2, <1>3 DEF ResearchNext

(* Between the steps the rules keep the last word.                          *)
LEMMA InvKeepsRules ==
  ASSUME NoSliver, ResearchInv
  PROVE  ModelStaysWithinRules
<1>1. ProposalIsAdmissible
  <2>1. holding.share # 1
    BY DEF NoSliver, ResearchInv, SoundHolding
  <2> QED BY <2>1 DEF ResearchInv, ProposalSound, Sensible, ProposalIsAdmissible
<1>2. ConsensusNearRules
  <2> SUFFICES ASSUME researchStage \in {"trader", "explain", "stored"}
               PROVE  LET apart == consensus - RuleConsensus(RuleBull, RuleBear)
                          bound == MaxAdjust + (40 * MaxAdjust) \div 100 + 1
                      IN  0 - bound <= apart /\ apart <= bound
    BY DEF ConsensusNearRules
  <2>1. Reported
    BY DEF ResearchInv, SoundReports, Turns, Reported
  <2> DEFINE u == RuleBull
             v == RuleBear
             m == RuleConsensus(u, v)
             n == RuleConsensus(bull, bear)
             far == (40 * MaxAdjust) \div 100 + 1
  <2>2. u \in Int /\ v \in Int /\ bull \in Int /\ bear \in Int /\ consensus \in Int
    BY <2>1, RuleBullIsScore, RuleBearIsScore DEF ResearchInv, SoundScores, IsScore
  <2>3. Near(bull, u) /\ Near(bear, v) /\ Near(consensus, n)
    BY DEF ResearchInv, BullNear, BearNear, ConsensusNear
  <2>4. MaxAdjust \in Nat /\ far \in Int
    <3>1. MaxAdjust \in Nat
      BY ResearchAssumption
    <3> DEFINE t == 40 * MaxAdjust
    <3>2. t \in Nat
      BY <3>1
    <3> HIDE DEF t
    <3>3. t \div 100 + 1 \in Int
      BY <3>2
    <3> QED BY <3>1, <3>3 DEF t
  <2> HIDE DEF u, v
  <2>5. m \in Int /\ n \in Int /\ m - n <= far /\ n - m <= far
    <3>1. n \in Int /\ m \in Int /\ n - m <= far
      BY <2>1, <2>2, <2>3, ConsensusMoves DEF Near
    <3>2. m - n <= far
      BY <2>1, <2>2, <2>3, ConsensusMoves DEF Near
    <3> QED BY <3>1, <3>2
  <2> DEFINE edge == MaxAdjust + (40 * MaxAdjust) \div 100 + 1
  <2>6. edge = MaxAdjust + far
    <3> DEFINE t == (40 * MaxAdjust) \div 100
    <3>1. t \in Int
      BY <2>4
    <3> HIDE DEF t
    <3>2. MaxAdjust + t + 1 = MaxAdjust + (t + 1)
      BY <2>4, <3>1
    <3> QED BY <3>2 DEF t
  <2> HIDE DEF m, n, far, edge
  <2>7. 0 - edge <= consensus - m /\ consensus - m <= edge
    BY <2>2, <2>3, <2>4, <2>5, <2>6 DEF Near
  <2> QED BY <2>7 DEF m, u, v, edge
<1> QED BY <1>1, <1>2 DEF ModelStaysWithinRules

(* The model moves the consensus by no more than the limits of the three    *)
(* agents together allow, and whatever it answers, the proposal of the      *)
(* trader is one the risk engine does not turn down for its shape, sells at *)
(* the stop-loss and never leaves a weakened thesis as it is - for every    *)
(* roster, every finding of the rules and every answer, unless a position   *)
(* is a single step of the portfolio.                                       *)
THEOREM RulesKeepTheLastWord ==
  ASSUME NoSliver
  PROVE  ResearchSpec => []ModelStaysWithinRules
<1>1. ResearchInit => ResearchInv
  BY ResearchInvInit
<1>2. ResearchInv /\ [ResearchNext]_researchVars => ResearchInv'
  BY ResearchInvStep
<1>3. ResearchInv => ModelStaysWithinRules
  BY InvKeepsRules
<1> QED BY <1>1, <1>2, <1>3, PTL DEF ResearchSpec

-----------------------------------------------------------------------------
(* The portfolio the risk review looks at.                                  *)

PortfolioTyped == held \in [Names -> Nat] /\ money \in Nat

Worth == [s \in Names |-> held[s] * Quote[s]]

LEMMA EquityIsNat ==
  ASSUME PortfolioTyped
  PROVE  Equity \in Nat
<1>1. IsFiniteSet(Names)
  BY RiskAssumption
<1>2. \A s \in Names : Worth[s] \in Nat
  <2> SUFFICES ASSUME NEW s \in Names PROVE Worth[s] \in Nat
    OBVIOUS
  <2>1. held[s] \in Nat /\ Quote[s] \in Nat /\ Worth[s] = held[s] * Quote[s]
    BY RiskAssumption DEF PortfolioTyped, Worth
  <2> QED BY <2>1
<1>3. SumOver(Worth, Names) \in Nat
  <2>1. /\ \A s \in Names : Worth[s] \in Int
        /\ \A s \in Names : Worth[s] <= 0 \/ (s \in Names /\ Worth[s] <= Worth[s])
    BY <1>2
  <2> QED BY <1>1, <1>2, <2>1, SumWithin
<1>4. Equity = money + SumOver(Worth, Names)
  BY DEF Equity, SumOver, Worth
<1> QED BY <1>3, <1>4 DEF PortfolioTyped

(* A larger position is no smaller share, and the shares a share of the     *)
(* portfolio buys are worth no more than it.                                *)
LEMMA ShareFacts ==
  ASSUME Equity \in Nat, NEW s \in Names, NEW n \in Nat
  PROVE  /\ ShareOf(s, n) \in Nat
         /\ n = 0 => ShareOf(s, n) = 0
         /\ \A m \in Nat : m <= n => ShareOf(s, m) <= ShareOf(s, n)
         /\ \A share \in Nat : n <= SharesFor(s, share) => ShareOf(s, n) <= share
<1>1. Quote[s] \in Nat \ {0} /\ RiskWhole \in Nat \ {0}
  BY RiskAssumption
<1>2. CASE Equity = 0
  <2>1. \A m \in Nat : ShareOf(s, m) = 0
    BY <1>2 DEF ShareOf
  <2> QED BY <2>1
<1>3. CASE Equity # 0
  <2> DEFINE q == Quote[s]
             e == Equity
             w == RiskWhole
             value(m) == m * q * w
  <2>1. \A m \in Nat : ShareOf(s, m) = RoundHalfEven(value(m), e)
    BY <1>3 DEF ShareOf
  <2>2. e \in Nat \ {0} /\ q \in Nat \ {0} /\ w \in Nat \ {0}
    BY <1>1, <1>3
  <2> HIDE DEF q, e, w
  <2>3. \A m \in Nat : value(m) \in Nat
    BY <2>2
  <2>4. \A m \in Nat : /\ Nearest(value(m), e, RoundHalfEven(value(m), e))
                       /\ RoundHalfEven(value(m), e) \in Nat
    <3> HIDE DEF value
    <3> QED BY <2>2, <2>3, HalfEvenIsNearest
  <2>5. ShareOf(s, n) \in Nat
    BY <2>1, <2>4
  <2>6. ASSUME n = 0 PROVE ShareOf(s, n) = 0
    <3>1. value(n) = 0
      BY <2>2, <2>6
    <3>2. -(0 * e) <= value(n) /\ value(n) <= 0 * e
      BY <2>2, <3>1
    <3> HIDE DEF value
    <3>3. RoundHalfEven(value(n), e) \in -0..0
      BY <2>2, <2>3, <2>4, <3>2, NearestBounded
    <3> QED BY <2>1, <3>3
  <2>7. ASSUME NEW m \in Nat, m <= n PROVE ShareOf(s, m) <= ShareOf(s, n)
    <3>1. value(m) <= value(n)
      <4>1. m * q <= n * q /\ m * q \in Nat /\ n * q \in Nat
        BY <2>2, <2>7
      <4> DEFINE x == m * q
                 y == n * q
      <4>2. x \in Nat /\ y \in Nat /\ x <= y
        BY <4>1
      <4> HIDE DEF x, y
      <4>3. x * w <= y * w
        BY <2>2, <4>2
      <4> QED BY <4>3 DEF x, y
    <3> HIDE DEF value
    <3>2. value(m) * e <= value(n) * e
      BY <2>2, <2>3, <3>1
    <3> QED BY <2>1, <2>2, <2>3, <2>4, <3>2, NearestMonotone
  <2>8. ASSUME NEW share \in Nat, n <= SharesFor(s, share) PROVE ShareOf(s, n) <= share
    <3>1. CASE share = 0
      <4>1. n = 0
        BY <2>8, <3>1 DEF SharesFor
      <4> QED BY <2>6, <3>1, <4>1
    <3>2. CASE share # 0
      <4> DEFINE p == e * share
                 x == p \div w
      <4>1. n <= x \div q
        BY <2>8, <3>2 DEF SharesFor, e, w, q
      <4>2. p \in Nat
        BY <2>2
      <4> HIDE DEF p
      <4>3. x \in Nat /\ x * w <= p
        BY <2>2, <4>2
      <4> HIDE DEF x
      <4>4. x \div q \in Nat /\ (x \div q) * q <= x
        BY <2>2, <4>3
      <4>5. n * q <= x
        <5> DEFINE y == x \div q
        <5>1. n * q <= y * q
          BY <2>2, <4>1, <4>4
        <5>2. y * q \in Nat /\ n * q \in Nat /\ y * q <= x
          BY <2>2, <4>4
        <5> HIDE DEF y
        <5> QED BY <4>3, <5>1, <5>2
      <4>6. value(n) <= share * e
        <5> DEFINE y == n * q
        <5>1. y \in Nat /\ y <= x
          BY <2>2, <4>5
        <5> HIDE DEF y
        <5>2. y * w <= x * w /\ x * w \in Nat /\ y * w \in Nat
          BY <2>2, <4>3, <5>1
        <5>3. y * w <= p
          BY <4>2, <4>3, <5>2
        <5>4. p = share * e
          BY <2>2 DEF p
        <5> QED BY <5>3, <5>4 DEF y
      <4> HIDE DEF value
      <4>7. Nearest(share, 1, share)
        BY DEF Nearest
      <4>8. value(n) * 1 <= share * e
        BY <2>3, <4>6
      <4>9. RoundHalfEven(value(n), e) <= share
        BY <2>2, <2>3, <2>4, <4>7, <4>8, NearestMonotone
      <4> QED BY <2>1, <4>9
    <3> QED BY <3>1, <3>2
  <2> QED BY <2>5, <2>6, <2>7, <2>8
<1> QED BY <1>2, <1>3

LEMMA ExposuresTyped ==
  ASSUME PortfolioTyped, NEW s \in Names
  PROVE  Exposures[s] \in Nat /\ (held[s] = 0 => Exposures[s] = 0)
BY EquityIsNat, ShareFacts DEF PortfolioTyped, Exposures

(* What a group of symbols is worth together.                               *)
LEMMA GroupsTyped ==
  ASSUME PortfolioTyped, NEW A \in SUBSET Names
  PROVE  SumOver(Exposures, A) \in Nat
<1>1. IsFiniteSet(Names)
  BY RiskAssumption
<1> DEFINE f == Exposures
<1>2. \A x \in A : f[x] \in Nat /\ f[x] \in Int
  BY ExposuresTyped
<1>3. \A x \in A : f[x] <= 0 \/ (x \in A /\ f[x] <= f[x])
  BY <1>2
<1> HIDE DEF f
<1>4. SumOver(f, A) \in Nat
  BY <1>1, <1>2, <1>3, SumWithin
<1> QED BY <1>4 DEF SumOver, f

-----------------------------------------------------------------------------
(* Graph concentration.                                                     *)

LEMMA GreatestIs ==
  ASSUME NEW S, NEW m \in S, \A x \in S : x <= m
  PROVE  Max(S) \in S /\ \A x \in S : x <= Max(S)
<1>1. \E y \in S : \A x \in S : y >= x
  OBVIOUS
<1> QED BY <1>1 DEF Max

LEMMA ExistingFacts ==
  ASSUME PortfolioTyped, NEW who \in Names, NEW c \in Range(Categories),
         ExistingExposures(c, who) # {}
  PROVE  /\ Max(ExistingExposures(c, who)) \in Nat
         /\ \A x \in ExistingExposures(c, who) : x \in Nat /\ x <= Max(ExistingExposures(c, who))
<1> DEFINE E == ExistingExposures(c, who)
<1>1. E \subseteq Nat /\ \E m \in E : \A x \in E : x <= m
  <2>1. CASE c = "correlated_cluster"
    <3> DEFINE A == {t \in CorrelatedWith(who) : held[t] > 0}
               v == SumOver(Exposures, A)
    <3>1. A \in SUBSET Names
      BY RiskAssumption DEF CorrelatedWith
    <3>2. E = {v}
      BY <2>1 DEF ExistingExposures
    <3> HIDE DEF A
    <3>3. v \in Nat
      BY <3>1, GroupsTyped
    <3> HIDE DEF v, E
    <3> QED BY <3>2, <3>3
  <2>2. CASE c # "correlated_cluster"
    <3> DEFINE K == KeysOf(c, who)
               f == [key \in K |-> SumOver(Exposures, Sharing(c, key))]
    <3>1. IsFiniteSet(K)
      BY <2>2, RiskAssumption DEF KeysOf
    <3>2. E = {f[key] : key \in K}
      BY <2>2 DEF ExistingExposures
    <3>3. \A key \in K : f[key] \in Nat
      <4> SUFFICES ASSUME NEW key \in K PROVE SumOver(Exposures, Sharing(c, key)) \in Nat
        OBVIOUS
      <4>1. Sharing(c, key) \in SUBSET Names
        BY DEF Sharing
      <4> HIDE DEF K
      <4> QED BY <4>1, GroupsTyped
    <3> HIDE DEF f, K, E
    <3>4. K # {} /\ \A key \in K : f[key] \in Int
      BY <3>2, <3>3 DEF E
    <3>5. PICK key \in K : \A y \in K : f[y] <= f[key]
      BY <3>1, <3>4, GreatestOfFinite
    <3> QED BY <3>2, <3>3, <3>5
  <2> QED BY <2>1, <2>2
<1> HIDE DEF E
<1>2. PICK m \in E : \A x \in E : x <= m
  BY <1>1
<1>3. Max(E) \in E /\ \A x \in E : x <= Max(E)
  BY <1>2, GreatestIs
<1>4. Max(E) \in Nat /\ \A x \in E : x \in Nat /\ x <= Max(E)
  BY <1>1, <1>3
<1> QED BY <1>4 DEF E

FoundRecord == [share : Nat, statuses : SUBSET {"rejected", "reduced"}]
Room(who, c, share) == \A x \in ExistingExposures(c, who) : x + share <= LimitOf(c)

(* One category leaves no more than came in, and what it leaves has room.   *)
LEMMA CheckFacts ==
  ASSUME PortfolioTyped, NEW who \in Names, NEW c \in Range(Categories),
         NEW before \in FoundRecord
  PROVE  /\ CheckCategory(who, before, c) \in FoundRecord
         /\ CheckCategory(who, before, c).share <= before.share
         /\ CheckCategory(who, before, c).share > 0 =>
              Room(who, c, CheckCategory(who, before, c).share)
<1> DEFINE E == ExistingExposures(c, who)
           worst == Max(E)
           limit == LimitOf(c)
           left == CheckCategory(who, before, c)
<1>1. before.share \in Nat /\ before.statuses \in SUBSET {"rejected", "reduced"}
  BY DEF FoundRecord
<1>2. limit \in Nat
  BY RiskAssumption DEF LimitOf
<1>3. CASE E = {} \/ before.share <= 0
  <2>1. left = before
    BY <1>3 DEF CheckCategory
  <2>2. left.share > 0 => E = {}
    BY <1>1, <1>3, <2>1
  <2>3. CheckCategory(who, before, c) = before
    BY <2>1
  <2> HIDE DEF left
  <2> QED BY <1>1, <2>1, <2>2, <2>3 DEF Room
<1>4. CASE E # {} /\ ~(before.share <= 0)
  <2>1. worst \in Nat /\ \A x \in E : x \in Nat /\ x <= worst
    BY <1>4, ExistingFacts
  <2>2. left = IF worst >= limit
               THEN [share |-> 0, statuses |-> before.statuses \cup {"rejected"}]
               ELSE IF worst + before.share > limit
               THEN [share |-> limit - worst, statuses |-> before.statuses \cup {"reduced"}]
               ELSE before
    BY <1>4 DEF CheckCategory
  <2> HIDE DEF left, worst, limit
  <2>3. left \in FoundRecord /\ left.share <= before.share
        /\ (left.share > 0 => worst + left.share <= limit)
    <3>1. CASE worst >= limit
      BY <1>1, <2>2, <3>1 DEF FoundRecord
    <3>2. CASE ~(worst >= limit) /\ worst + before.share > limit
      <4>1. /\ left = [share |-> limit - worst, statuses |-> before.statuses \cup {"reduced"}]
            /\ limit - worst \in Nat /\ limit - worst <= before.share
            /\ worst + (limit - worst) <= limit
        BY <1>1, <1>2, <2>1, <2>2, <3>2
      <4> QED BY <1>1, <4>1 DEF FoundRecord
    <3>3. CASE ~(worst >= limit) /\ ~(worst + before.share > limit)
      BY <1>1, <1>2, <2>1, <2>2, <3>3
    <3> QED BY <3>1, <3>2, <3>3
  <2>4. left.share \in Nat
    BY <2>3 DEF FoundRecord
  <2>5. left.share > 0 => \A x \in E : x + left.share <= limit
    BY <1>2, <2>1, <2>3, <2>4
  <2>6. left.share > 0 => Room(who, c, left.share)
    BY <2>5 DEF Room, limit
  <2> HIDE DEF E
  <2>7. /\ left \in FoundRecord /\ left.share <= before.share
        /\ left.share > 0 => Room(who, c, left.share)
    BY <2>3, <2>6
  <2> QED BY <2>7 DEF left
<1> QED BY <1>3, <1>4

(* The categories one after the other: what is left in the end has room in  *)
(* each.                                                                    *)
LEMMA GraphFacts ==
  ASSUME PortfolioTyped, NEW who \in Names, NEW share \in Nat
  PROVE  LET left == GraphConcentration(who, share)
         IN  /\ left \in FoundRecord /\ left.share <= share
             /\ left.share > 0 => \A c \in Range(Categories) : Room(who, c, left.share)
<1> DEFINE S == DOMAIN Categories
           start == [share |-> share, statuses |-> {}]
           last(s) == CHOOSE x \in s : \A y \in s : x >= y
           Run(iter) ==
             iter = [s \in SUBSET S |->
                       IF s = {} THEN start
                       ELSE CheckCategory(who, iter[s \ {last(s)}], Categories[last(s)])]
           run == CHOOSE iter : Run(iter)
           pick == [s \in SUBSET S |-> last(s)]
           step == [p \in S \X FoundRecord |-> CheckCategory(who, p[2], Categories[p[1]])]
           N == Len(Categories)
<1>1. GraphConcentration(who, share) = run[S]
  BY DEF GraphConcentration, FoldLeft, MapThenFoldSet, Max
<1>2. S = 1..N /\ N \in Nat /\ \A i \in S : Categories[i] \in Range(Categories)
  <2>1. Categories \in Seq(Range(Categories))
    BY RiskAssumption
  <2> QED BY <2>1, LenProperties DEF Range
<1>3. IsFiniteSet(S)
  BY <1>2, FS_Interval
<1>4. start \in FoundRecord /\ start.share = share
  BY DEF FoundRecord
<1>5. ASSUME NEW s \in SUBSET S, s # {} PROVE last(s) \in s /\ \A y \in s : last(s) >= y
  <2>1. s \in SUBSET (1..N) /\ N \in Nat
    BY <1>2
  <2> HIDE DEF S, N
  <2>2. PICK i \in s : \A j \in s : j <= i
    BY <1>5, <2>1, LargestOf
  <2>3. \A j \in s : i >= j
    BY <2>1, <2>2
  <2> QED BY <2>2, <2>3
<1>6. step \in [S \X FoundRecord -> FoundRecord]
  <2>1. ASSUME NEW p \in S \X FoundRecord
        PROVE  CheckCategory(who, p[2], Categories[p[1]]) \in FoundRecord
    <3>1. Categories[p[1]] \in Range(Categories) /\ p[2] \in FoundRecord
      BY <1>2
    <3> QED BY <3>1, CheckFacts
  <2> HIDE DEF S
  <2> QED BY <2>1
<1>7. PICK iter \in [SUBSET S -> FoundRecord] : Folds(iter, S, start, pick, step)
  <2>1. \A s \in SUBSET S : s # {} => pick[s] \in s
    <3> HIDE DEF S, last
    <3> QED BY <1>5
  <2> HIDE DEF pick, step, S, start
  <2> QED BY <1>3, <1>4, <1>6, <2>1, FoldExists, Zenon
<1>8. ASSUME NEW s \in SUBSET S, s # {}
      PROVE  step[<<pick[s], iter[s \ {pick[s]}]>>]
               = CheckCategory(who, iter[s \ {last(s)}], Categories[last(s)])
  <2>1. pick[s] = last(s) /\ last(s) \in S /\ s \ {last(s)} \in SUBSET S
    BY <1>5, <1>8
  <2>2. iter[s \ {last(s)}] \in FoundRecord
    BY <2>1
  <2> HIDE DEF pick, last, S
  <2> QED BY <2>1, <2>2
<1>9. Run(iter)
  <2> HIDE DEF pick, last, step, S, start
  <2> QED BY <1>7, <1>8 DEF Folds
<1>10. Run(run)
  <2> HIDE DEF Run
  <2> QED BY <1>9
<1>11. run[{}] = start
  <2> HIDE DEF run, last, S, start
  <2> QED BY <1>10
<1>12. ASSUME NEW s \in SUBSET S, s # {}
       PROVE  run[s] = CheckCategory(who, run[s \ {last(s)}], Categories[last(s)])
  <2> HIDE DEF run, last, S, start
  <2> QED BY <1>10, <1>12
<1> DEFINE Good(k) == /\ run[1..k] \in FoundRecord /\ run[1..k].share <= share
                      /\ run[1..k].share > 0 =>
                           \A j \in 1..k : Room(who, Categories[j], run[1..k].share)
           B == {k \in Nat : k <= N => Good(k)}
<1> HIDE DEF run, start
<1>13. 0 \in B
  <2>1. 1..0 = {}
    OBVIOUS
  <2>2. run[1..0] = start
    BY <1>11, <2>1
  <2>3. Good(0)
    BY <1>4, <2>1, <2>2
  <2> HIDE DEF Good
  <2> QED BY <2>3
<1>14. ASSUME NEW k \in B PROVE k + 1 \in B
  <2> SUFFICES ASSUME k + 1 <= N PROVE Good(k + 1)
    OBVIOUS
  <2> DEFINE s == 1..(k + 1)
             c == Categories[k + 1]
             before == run[1..k]
             left == run[s]
  <2>1. k \in Nat /\ k <= N /\ s \in SUBSET S /\ s # {} /\ k + 1 \in S
    BY <1>2
  <2>2. last(s) = k + 1 /\ s \ {k + 1} = 1..k
    <3>1. last(s) \in s /\ \A y \in s : last(s) >= y
      BY <1>5, <2>1
    <3>2. k + 1 \in s
      BY <2>1
    <3> DEFINE m == last(s)
    <3>3. m \in s /\ \A y \in s : m >= y
      BY <3>1
    <3> HIDE DEF m
    <3>4. m = k + 1
      BY <2>1, <3>2, <3>3
    <3> QED BY <2>1, <3>4 DEF m
  <2>3. Good(k)
    <3> HIDE DEF Good
    <3> QED BY <2>1
  <2>4. c \in Range(Categories)
    BY <1>2, <2>1
  <2>5. left = CheckCategory(who, before, c)
    <3>1. run[s] = CheckCategory(who, run[s \ {last(s)}], Categories[last(s)])
      <4> HIDE DEF s, last
      <4> QED BY <1>12, <2>1
    <3> HIDE DEF last
    <3> QED BY <2>2, <3>1
  <2>6. before \in FoundRecord /\ before.share <= share
        /\ (before.share > 0 => \A j \in 1..k : Room(who, Categories[j], before.share))
    BY <2>3
  <2> HIDE DEF before
  <2>7. left \in FoundRecord /\ left.share <= before.share
        /\ (left.share > 0 => Room(who, c, left.share))
    BY <2>4, <2>5, <2>6, CheckFacts
  <2> HIDE DEF left
  <2>8. left.share \in Nat /\ before.share \in Nat
    BY <2>6, <2>7 DEF FoundRecord
  <2>9. ASSUME left.share > 0, NEW j \in s PROVE Room(who, Categories[j], left.share)
    <3>1. CASE j = k + 1
      BY <2>7, <2>9, <3>1
    <3>2. CASE j # k + 1
      <4>1. j \in 1..k /\ before.share > 0
        BY <2>1, <2>7, <2>8, <2>9, <3>2
      <4>2. Room(who, Categories[j], before.share)
        BY <2>6, <4>1
      <4>3. Categories[j] \in Range(Categories)
        <5>1. j \in S
          BY <2>1, <2>9
        <5> QED BY <1>2, <5>1
      <4> DEFINE F == ExistingExposures(Categories[j], who)
                 limit == LimitOf(Categories[j])
      <4>4. \A x \in F : x \in Nat
        BY <4>3, ExistingFacts
      <4>5. limit \in Nat
        BY <4>3, RiskAssumption DEF LimitOf
      <4>6. \A x \in F : x + before.share <= limit
        BY <4>2 DEF Room
      <4> HIDE DEF F, limit
      <4>7. \A x \in F : x + left.share <= limit
        BY <2>7, <2>8, <4>4, <4>5, <4>6
      <4> QED BY <4>7 DEF Room, F, limit
    <3> QED BY <3>1, <3>2
  <2>10. left.share <= share
    BY <2>6, <2>7, <2>8
  <2> QED BY <2>7, <2>9, <2>10 DEF left
<1>15. N \in B
  <2>1. B \in SUBSET Nat
    OBVIOUS
  <2> HIDE DEF B
  <2> QED BY <1>2, <1>13, <1>14, <2>1, ClosedIsNat
<1>16. Good(N)
  <2> HIDE DEF Good
  <2> QED BY <1>2, <1>15
<1>17. \A c \in Range(Categories) : \E j \in 1..N : Categories[j] = c
  BY <1>2 DEF Range
<1> DEFINE final == run[S]
<1>18. /\ final \in FoundRecord /\ final.share <= share
       /\ final.share > 0 => \A c \in Range(Categories) : Room(who, c, final.share)
  <2>1. final = run[1..N]
    BY <1>2
  <2> HIDE DEF final, S, N
  <2> QED BY <1>16, <1>17, <2>1
<1> QED BY <1>1, <1>18

-----------------------------------------------------------------------------
(* What a review and a decision promise.                                    *)

Fits(s, share) ==
  /\ share <= RiskPolicy.maxPosition
  /\ \A c \in DOMAIN ExposureKeys : \A key \in KeysOf(c, s) :
       SumOver(Exposures, Sharing(c, key) \ {s}) + share <= LimitOf(c)
  /\ CorrelatedWith(s) # {} =>
       SumOver(Exposures, CorrelatedWith(s) \ {s}) + share <= LimitOf("correlated_cluster")

LEMMA GroupWithin ==
  ASSUME PortfolioTyped, NEW A \in SUBSET Names, NEW B \in SUBSET Names,
         \A t \in A : held[t] = 0 \/ t \in B
  PROVE  /\ SumOver(Exposures, A) \in Nat /\ SumOver(Exposures, B) \in Nat
         /\ SumOver(Exposures, A) <= SumOver(Exposures, B)
<1>1. IsFiniteSet(Names)
  BY RiskAssumption
<1> DEFINE f == Exposures
<1>2. \A x \in Names : f[x] \in Nat /\ (held[x] = 0 => f[x] = 0)
  BY ExposuresTyped
<1> HIDE DEF f
<1>3. /\ \A x \in A : f[x] \in Int
      /\ \A x \in B : f[x] \in Nat
      /\ \A x \in A : f[x] <= 0 \/ (x \in B /\ f[x] <= f[x])
  <2>1. ASSUME NEW x \in A PROVE f[x] <= 0 \/ (x \in B /\ f[x] <= f[x])
    BY <1>2
  <2> QED BY <1>2, <2>1
<1>4. SumOver(f, A) <= SumOver(f, B)
  BY <1>1, <1>3, SumWithin
<1>5. SumOver(Exposures, A) <= SumOver(Exposures, B)
  BY <1>4 DEF SumOver, f
<1> QED BY <1>5, GroupsTyped

LEMMA RoomFits ==
  ASSUME PortfolioTyped, NEW s \in Names, NEW share \in Nat, share <= RiskPolicy.maxPosition,
         \A c \in Range(Categories) : Room(s, c, share)
  PROVE  Fits(s, share)
<1>1. ASSUME NEW c \in DOMAIN ExposureKeys, NEW key \in KeysOf(c, s)
      PROVE  SumOver(Exposures, Sharing(c, key) \ {s}) + share <= LimitOf(c)
  <2> DEFINE A == Sharing(c, key) \ {s}
             B == Sharing(c, key)
             m == SumOver(Exposures, A)
             n == SumOver(Exposures, B)
  <2>1. c \in Range(Categories) /\ c # "correlated_cluster" /\ LimitOf(c) \in Nat
    BY RiskAssumption DEF LimitOf
  <2>2. n \in ExistingExposures(c, s)
    BY <2>1 DEF ExistingExposures
  <2>3. A \in SUBSET Names /\ B \in SUBSET Names /\ \A t \in A : held[t] = 0 \/ t \in B
    BY DEF Sharing
  <2>4. m \in Nat /\ n \in Nat /\ m <= n
    <3> HIDE DEF A, B
    <3> QED BY <2>3, GroupWithin
  <2>5. n + share <= LimitOf(c)
    BY <2>1, <2>2 DEF Room
  <2> HIDE DEF m, n
  <2>6. m + share <= LimitOf(c)
    BY <2>1, <2>4, <2>5
  <2> QED BY <2>6 DEF m
<1>2. ASSUME CorrelatedWith(s) # {}
      PROVE  SumOver(Exposures, CorrelatedWith(s) \ {s}) + share <= LimitOf("correlated_cluster")
  <2> DEFINE A == CorrelatedWith(s) \ {s}
             B == {t \in CorrelatedWith(s) : held[t] > 0}
             m == SumOver(Exposures, A)
             n == SumOver(Exposures, B)
             c == "correlated_cluster"
  <2>1. c \in Range(Categories) /\ LimitOf(c) \in Nat
    BY RiskAssumption DEF LimitOf
  <2>2. n \in ExistingExposures(c, s)
    BY <1>2 DEF ExistingExposures
  <2>3. A \in SUBSET Names /\ B \in SUBSET Names /\ \A t \in A : held[t] = 0 \/ t \in B
    BY RiskAssumption DEF CorrelatedWith, PortfolioTyped
  <2>4. m \in Nat /\ n \in Nat /\ m <= n
    <3> HIDE DEF A, B
    <3> QED BY <2>3, GroupWithin
  <2>5. n + share <= LimitOf(c)
    BY <2>1, <2>2 DEF Room
  <2> HIDE DEF m, n
  <2>6. m + share <= LimitOf(c)
    BY <2>1, <2>4, <2>5
  <2> QED BY <2>6 DEF m
<1> QED BY <1>1, <1>2 DEF Fits

InputTyped ==
  /\ seen \in [Names -> Nat]
  /\ \A s \in Names : /\ Proposal(s).action \in {"BUY", "HOLD", "NO_TRADE", "REDUCE", "EXIT"}
                      /\ Proposal(s).target \in Nat
                      /\ Proposal(s).action \in {"EXIT", "NO_TRADE"} => Proposal(s).target = 0

ExitDue(s) ==
  /\ Proposal(s).action = "EXIT" /\ seen[s] > 0 /\ ~runInput.kill
  /\ s \notin runInput.inactive \cup runInput.stale

LEMMA TargetIsNat ==
  ASSUME PortfolioTyped, InputTyped, NEW s \in Names
  PROVE  /\ SeenShare(s) \in Nat /\ Target(s) \in Nat /\ Capped(s) \in Nat
         /\ Buying(s) => Capped(s) <= RiskPolicy.maxPosition
<1>1. SeenShare(s) \in Nat
  BY EquityIsNat, ShareFacts DEF InputTyped, SeenShare
<1>2. Target(s) \in Nat
  <2>1. RoundHalfEven(SeenShare(s), 2) \in Nat
    BY <1>1, HalfEvenIsNearest
  <2> QED BY <1>1, <2>1 DEF Target, InputTyped
<1>3. RiskPolicy.maxPosition \in Nat
  BY RiskAssumption
<1> DEFINE m == Target(s)
           n == RiskPolicy.maxPosition
<1>4. Min({m, n}) = IF m <= n THEN m ELSE n
  <2> HIDE DEF m, n
  <2>1. m \in Int /\ n \in Int
    BY <1>2, <1>3 DEF m, n
  <2> QED BY <2>1, MinOfTwo
<1>5. Capped(s) = IF Buying(s) THEN Min({m, n}) ELSE m
  BY DEF Capped
<1> HIDE DEF m, n
<1> QED BY <1>1, <1>2, <1>3, <1>4, <1>5 DEF m, n

(* The risk engine: a BUY that passes has room everywhere, an EXIT that is  *)
(* due passes.                                                              *)
LEMMA ReviewFacts ==
  ASSUME PortfolioTyped, InputTyped, NEW s \in Names
  PROVE  /\ ReviewOf(s).approved \in Nat
         /\ Buying(s) /\ ReviewOf(s).approved > 0 => Fits(s, ReviewOf(s).approved)
         /\ ExitDue(s) => ReviewOf(s).status \in {"APPROVED", "APPROVED_WITH_REDUCTION"}
<1> DEFINE graph == IF Increases(s) THEN GraphConcentration(s, Capped(s))
                    ELSE [share |-> Capped(s), statuses |-> {}]
           reduced == Capped(s) < Target(s) \/ "reduced" \in graph.statuses
           refused == Rejected(s) \/ "rejected" \in graph.statuses
           r == ReviewOf(s)
<1>1. r = IF Blocked(s) THEN [status |-> "BLOCKED", approved |-> 0]
          ELSE IF refused THEN [status |-> "REJECTED", approved |-> 0]
          ELSE [status |-> IF reduced THEN "APPROVED_WITH_REDUCTION" ELSE "APPROVED",
                approved |-> graph.share]
  BY DEF ReviewOf
<1>2. Capped(s) \in Nat /\ (Buying(s) => Capped(s) <= RiskPolicy.maxPosition)
  BY TargetIsNat
<1>3. Increases(s) => /\ graph \in FoundRecord /\ graph.share <= Capped(s)
                      /\ graph.share > 0 => \A c \in Range(Categories) : Room(s, c, graph.share)
  BY <1>2, GraphFacts
<1>4. ~Increases(s) => graph.share = Capped(s) /\ graph.statuses = {}
  OBVIOUS
<1>5. graph.share \in Nat
  <2> HIDE DEF graph
  <2> QED BY <1>2, <1>3, <1>4 DEF FoundRecord
<1> HIDE DEF graph, reduced, refused, r
<1>6. r.approved \in Nat
  BY <1>1, <1>5
<1>7. ASSUME Buying(s), r.approved > 0 PROVE Fits(s, r.approved)
  <2>1. ~Blocked(s) /\ ~refused /\ r.approved = graph.share
    BY <1>1, <1>7
  <2>2. Increases(s)
    <3>1. ~(Capped(s) <= SeenShare(s))
      BY <1>7, <2>1 DEF refused, Rejected
    <3> QED BY <1>2, <1>7, <3>1, TargetIsNat DEF Increases
  <2>3. graph.share <= RiskPolicy.maxPosition
    <3>1. RiskPolicy.maxPosition \in Nat
      BY RiskAssumption
    <3> QED BY <1>2, <1>3, <1>5, <1>7, <2>2, <3>1
  <2>4. \A c \in Range(Categories) : Room(s, c, graph.share)
    BY <1>3, <1>7, <2>1, <2>2
  <2> QED BY <1>5, <2>1, <2>3, <2>4, RoomFits
<1>8. ASSUME ExitDue(s) PROVE r.status \in {"APPROVED", "APPROVED_WITH_REDUCTION"}
  <2>1. ~Buying(s) /\ ~Blocked(s) /\ Target(s) = 0
    BY <1>8 DEF ExitDue, Buying, Blocked, Target, InputTyped
  <2>2. ActionValid(s)
    BY <1>8, <2>1 DEF ExitDue, ActionValid, Buying
  <2>3. ~Rejected(s)
    BY <1>8, <2>1, <2>2 DEF ExitDue, Rejected
  <2>4. ~refused
    BY <1>4, <2>1, <2>3 DEF refused, Increases
  <2> QED BY <1>1, <2>1, <2>4
<1> QED BY <1>6, <1>7, <1>8 DEF r

(* Symbol by symbol, while a run is decided.                                *)
ReviewFine(s) ==
  /\ review[s].approved \in Nat
  /\ riskStage = "finalising" /\ review[s].status # "none" =>
       /\ Buying(s) /\ review[s].approved > 0 => Fits(s, review[s].approved)
       /\ ExitDue(s) => review[s].status \in {"APPROVED", "APPROVED_WITH_REDUCTION"}

FinalFine(s) ==
  /\ decision[s].quantity \in Nat
  /\ riskStage = "finalising" /\ Buying(s) /\ decision[s].quantity > 0 =>
       Fits(s, ShareOf(s, held[s] + decision[s].quantity))
  /\ decision[s].status # "none" /\ ExitDue(s) =>
       decision[s].status = "APPROVED_FOR_PAPER" /\ decision[s].quantity = seen[s]

(* Since the proposals were made the monitor may have sold a position, and  *)
(* only all of it.                                                          *)
HeldAsSeen ==
  riskStage = "finalising" => \A s \in Names : held[s] = seen[s] \/ held[s] = 0

RiskInv ==
  /\ riskStage \in {"idle", "finalising"}
  /\ PortfolioTyped /\ InputTyped /\ HeldAsSeen
  /\ DOMAIN review = Names /\ DOMAIN decision = Names
  /\ \A s \in Names : ReviewFine(s) /\ FinalFine(s)

(* The final approval: what is bought stays within the share that was       *)
(* approved.                                                                *)
LEMMA DecisionFacts ==
  ASSUME RiskInv, riskStage = "finalising", NEW s \in Names, review[s].status # "none"
  PROVE  /\ DecisionOf(s).quantity \in Nat
         /\ Buying(s) /\ DecisionOf(s).quantity > 0 =>
              Fits(s, ShareOf(s, held[s] + DecisionOf(s).quantity))
         /\ ExitDue(s) => DecisionOf(s).status = "APPROVED_FOR_PAPER"
                          /\ DecisionOf(s).quantity = seen[s]
<1> DEFINE d == DecisionOf(s)
           n == seen[s]
           share == review[s].approved
           x == SharesFor(s, share)
           q == ApprovedQuantity(s)
<1>1. n \in Nat /\ held[s] \in Nat /\ share \in Nat /\ (held[s] = n \/ held[s] = 0)
  BY DEF RiskInv, PortfolioTyped, InputTyped, HeldAsSeen, ReviewFine
<1>2. x \in Nat
  <2>1. Quote[s] \in Nat \ {0} /\ RiskWhole \in Nat \ {0} /\ Equity \in Nat
    BY RiskAssumption, EquityIsNat DEF RiskInv
  <2> DEFINE e == Equity
             w == RiskWhole
             u == Quote[s]
             p == e * share
  <2>2. x = IF share <= 0 THEN 0 ELSE (p \div w) \div u
    BY DEF SharesFor
  <2>3. p \in Nat /\ w \in Nat \ {0} /\ u \in Nat \ {0}
    BY <1>1, <2>1
  <2> HIDE DEF p, w, u
  <2> DEFINE y == p \div w
  <2>4. y \in Nat
    BY <2>3
  <2> HIDE DEF y
  <2>5. y \div u \in Nat
    BY <2>3, <2>4
  <2> QED BY <2>2, <2>5 DEF y
<1>3. /\ Proposal(s).action = "EXIT" => q = n
      /\ Buying(s) => q = (IF x - n <= 0 THEN 0 ELSE x - n)
      /\ q \in Nat
  <2> DEFINE up == x - n
             down == n - x
  <2>1. Max({0, up}) = (IF 0 <= up THEN up ELSE 0) /\ Max({0, down}) = (IF 0 <= down THEN down ELSE 0)
    <3>1. up \in Int /\ down \in Int
      BY <1>1, <1>2
    <3> HIDE DEF up, down
    <3> QED BY <3>1, MaxOfTwo
  <2>2. q = IF Proposal(s).action = "EXIT" THEN n
            ELSE IF Buying(s) THEN Max({0, up})
            ELSE IF Proposal(s).action = "REDUCE" THEN Max({0, down}) ELSE 0
    BY DEF ApprovedQuantity, Buying
  <2> HIDE DEF x, n, q
  <2>3. Buying(s) => Proposal(s).action # "EXIT"
    BY DEF Buying
  <2> QED BY <1>1, <1>2, <2>1, <2>2, <2>3
<1>4. /\ d.quantity = q \/ d.quantity = 0
      /\ /\ review[s].status \in {"APPROVED", "APPROVED_WITH_REDUCTION"}
         /\ Proposal(s).action = "EXIT" /\ q > 0
         => d.status = "APPROVED_FOR_PAPER" /\ d.quantity = q
  <2> HIDE DEF q
  <2> QED BY DEF DecisionOf, NoDecision, q
<1>5. ASSUME Buying(s), d.quantity > 0 PROVE Fits(s, ShareOf(s, held[s] + d.quantity))
  <2> DEFINE m == held[s] + d.quantity
             after == ShareOf(s, m)
  <2>1. d.quantity = x - n /\ x - n > 0
    <3> HIDE DEF d, q, x, n
    <3> QED BY <1>1, <1>2, <1>3, <1>4, <1>5
  <2>2. m \in Nat /\ m <= x
    <3> HIDE DEF d, x, n
    <3> QED BY <1>1, <1>2, <2>1 DEF m
  <2>3. Equity \in Nat
    BY EquityIsNat DEF RiskInv
  <2>4. after \in Nat /\ after <= share
    <3> HIDE DEF m, share
    <3> QED BY <1>1, <2>2, <2>3, ShareFacts
  <2>5. share > 0
    <3>1. x > 0
      <4> HIDE DEF x, n
      <4> QED BY <1>1, <1>2, <2>1
    <3> QED BY <1>1, <3>1 DEF SharesFor
  <2>6. Fits(s, share)
    BY <1>5, <2>5 DEF RiskInv, ReviewFine
  <2> HIDE DEF after, share
  <2>7. RiskPolicy.maxPosition \in Nat /\ after <= RiskPolicy.maxPosition
    BY <1>1, <2>4, <2>6, RiskAssumption DEF Fits
  <2>8. ASSUME NEW A \in SUBSET Names, NEW limit \in Nat, SumOver(Exposures, A) + share <= limit
        PROVE  SumOver(Exposures, A) + after <= limit
    <3> DEFINE t == SumOver(Exposures, A)
    <3>1. t \in Nat
      BY GroupsTyped DEF RiskInv
    <3> HIDE DEF t
    <3>2. t + after <= limit
      BY <1>1, <2>4, <2>8, <3>1 DEF t
    <3> QED BY <3>2 DEF t
  <2>9. ASSUME NEW c \in DOMAIN ExposureKeys, NEW key \in KeysOf(c, s)
        PROVE  SumOver(Exposures, Sharing(c, key) \ {s}) + after <= LimitOf(c)
    <3>1. Sharing(c, key) \ {s} \in SUBSET Names /\ LimitOf(c) \in Nat
      BY RiskAssumption DEF Sharing, LimitOf
    <3>2. SumOver(Exposures, Sharing(c, key) \ {s}) + share <= LimitOf(c)
      BY <2>6 DEF Fits
    <3> QED BY <2>8, <3>1, <3>2
  <2>10. ASSUME CorrelatedWith(s) # {}
         PROVE  SumOver(Exposures, CorrelatedWith(s) \ {s}) + after <= LimitOf("correlated_cluster")
    <3>1. CorrelatedWith(s) \ {s} \in SUBSET Names /\ LimitOf("correlated_cluster") \in Nat
      BY RiskAssumption DEF CorrelatedWith, LimitOf
    <3>2. SumOver(Exposures, CorrelatedWith(s) \ {s}) + share <= LimitOf("correlated_cluster")
      BY <2>6, <2>10 DEF Fits
    <3> QED BY <2>8, <3>1, <3>2
  <2>11. Fits(s, after)
    BY <2>7, <2>9, <2>10 DEF Fits
  <2> QED BY <2>11 DEF after
<1>6. ASSUME ExitDue(s) PROVE d.status = "APPROVED_FOR_PAPER" /\ d.quantity = seen[s]
  <2>1. review[s].status \in {"APPROVED", "APPROVED_WITH_REDUCTION"}
    BY <1>6 DEF RiskInv, ReviewFine
  <2>2. Proposal(s).action = "EXIT" /\ q = n /\ n > 0
    BY <1>3, <1>6 DEF ExitDue
  <2> HIDE DEF d, q
  <2> QED BY <1>4, <2>1, <2>2
<1>7. d.quantity \in Nat
  <2> HIDE DEF d, q
  <2> QED BY <1>3, <1>4
<1> HIDE DEF d
<1> QED BY <1>5, <1>6, <1>7 DEF d

(* Sales make room, and never take any.                                     *)
Calm ==
  /\ held' \in [Names -> Nat] /\ Equity' = Equity
  /\ \A t \in Names : held'[t] <= held[t]
  /\ UNCHANGED <<riskStage, runInput, seen>>

LEMMA FitsStands ==
  ASSUME PortfolioTyped, money' \in Nat, Calm, NEW s \in Names, NEW share \in Nat,
         NEW less \in Nat, less <= share, Fits(s, share)
  PROVE  Fits(s, less)'
<1> DEFINE f == Exposures'
           g == Exposures
<1>1. IsFiniteSet(Names) /\ PortfolioTyped'
  BY RiskAssumption DEF Calm, PortfolioTyped
<1>2. \A t \in Names : f[t] \in Nat /\ g[t] \in Nat /\ f[t] <= g[t] /\ (held'[t] = 0 => f[t] = 0)
  <2> SUFFICES ASSUME NEW t \in Names
               PROVE  f[t] \in Nat /\ g[t] \in Nat /\ f[t] <= g[t] /\ (held'[t] = 0 => f[t] = 0)
    OBVIOUS
  <2>1. held[t] \in Nat /\ held'[t] \in Nat /\ held'[t] <= held[t]
    BY DEF Calm, PortfolioTyped
  <2>2. f[t] = ShareOf(t, held'[t]) /\ g[t] = ShareOf(t, held[t])
    BY DEF Calm, Exposures, ShareOf
  <2>3. Equity \in Nat
    BY EquityIsNat
  <2> HIDE DEF f, g
  <2> QED BY <2>1, <2>2, <2>3, ShareFacts
<1> HIDE DEF f, g
<1>3. ASSUME NEW A \in SUBSET Names, NEW B \in SUBSET Names, \A t \in A : held'[t] = 0 \/ t \in B,
             NEW limit \in Nat, SumOver(g, B) + share <= limit
      PROVE  SumOver(f, A) + less <= limit
  <2>1. /\ \A t \in A : f[t] \in Int
        /\ \A t \in B : g[t] \in Nat
        /\ \A t \in A : f[t] <= 0 \/ (t \in B /\ f[t] <= g[t])
    <3>1. ASSUME NEW t \in A PROVE f[t] <= 0 \/ (t \in B /\ f[t] <= g[t])
      BY <1>2, <1>3
    <3> QED BY <1>2, <3>1
  <2>2. SumOver(f, A) \in Int /\ SumOver(g, B) \in Nat /\ SumOver(f, A) <= SumOver(g, B)
    BY <1>1, <2>1, SumWithin
  <2>3. SumOver(f, A) = SumOver(f, A) /\ SumOver(g, B) = SumOver(g, B)
    BY DEF SumOver
  <2> QED BY <1>3, <2>2, <2>3
<1>4. less <= RiskPolicy.maxPosition
  <2>1. RiskPolicy.maxPosition \in Nat
    BY RiskAssumption
  <2> QED BY <2>1 DEF Fits
<1>5. ASSUME NEW c \in DOMAIN ExposureKeys, NEW key \in KeysOf(c, s)
      PROVE  SumOver(f, Sharing(c, key)' \ {s}) + less <= LimitOf(c)
  <2> DEFINE A == Sharing(c, key)' \ {s}
             B == Sharing(c, key) \ {s}
  <2>1. A \in SUBSET Names /\ B \in SUBSET Names /\ LimitOf(c) \in Nat
    BY RiskAssumption DEF Sharing, LimitOf
  <2>2. \A t \in A : held'[t] = 0 \/ t \in B
    <3>1. ASSUME NEW t \in A PROVE t \in B
      <4>1. t \in Names /\ key \in KeysOf(c, t) /\ held'[t] > 0 /\ t # s
        BY DEF Sharing
      <4>2. held[t] > 0
        BY <4>1 DEF Calm, PortfolioTyped
      <4> QED BY <4>1, <4>2 DEF Sharing
    <3> QED BY <3>1
  <2>3. SumOver(g, B) + share <= LimitOf(c)
    BY DEF Fits, g
  <2> HIDE DEF A, B
  <2>4. SumOver(f, A) + less <= LimitOf(c)
    BY <1>3, <2>1, <2>2, <2>3
  <2> QED BY <2>4 DEF A
<1>6. ASSUME CorrelatedWith(s) # {}
      PROVE  SumOver(f, CorrelatedWith(s) \ {s}) + less <= LimitOf("correlated_cluster")
  <2> DEFINE A == CorrelatedWith(s) \ {s}
  <2>1. A \in SUBSET Names /\ LimitOf("correlated_cluster") \in Nat
    BY RiskAssumption DEF CorrelatedWith, LimitOf
  <2>2. SumOver(g, A) + share <= LimitOf("correlated_cluster")
    BY <1>6 DEF Fits, g
  <2> HIDE DEF A
  <2>3. SumOver(f, A) + less <= LimitOf("correlated_cluster")
    BY <1>3, <2>1, <2>2
  <2> QED BY <2>3 DEF A
<1> QED BY <1>4, <1>5, <1>6 DEF Fits, f

LEMMA CalmKeepsReview ==
  ASSUME PortfolioTyped, money' \in Nat, Calm, NEW s \in Names, ReviewFine(s),
         review'[s] = review[s]
  PROVE  ReviewFine(s)'
<1>1. review[s].approved \in Nat
  BY DEF ReviewFine
<1>2. riskStage' = riskStage /\ runInput' = runInput /\ seen' = seen
  BY DEF Calm
<1>3. Buying(s)' = Buying(s) /\ ExitDue(s)' = ExitDue(s)
  BY <1>2 DEF Buying, ExitDue, Proposal
<1>4. Fits(s, review[s].approved) => Fits(s, review[s].approved)'
  <2> SUFFICES ASSUME Fits(s, review[s].approved) PROVE Fits(s, review[s].approved)'
    OBVIOUS
  <2>1. PICK share \in Nat : share = review[s].approved
    BY <1>1
  <2>2. Fits(s, share)'
    BY <2>1, FitsStands
  <2>3. share = review'[s].approved
    BY <2>1
  <2> QED BY <2>2, <2>3 DEF Fits
<1> QED BY <1>1, <1>2, <1>3, <1>4 DEF ReviewFine

LEMMA CalmKeepsDecision ==
  ASSUME PortfolioTyped, money' \in Nat, Calm, NEW s \in Names, FinalFine(s),
         decision'[s] = decision[s]
  PROVE  FinalFine(s)'
<1>1. decision[s].quantity \in Nat /\ held[s] \in Nat /\ held'[s] \in Nat /\ held'[s] <= held[s]
  BY DEF FinalFine, Calm, PortfolioTyped
<1>2. riskStage' = riskStage /\ runInput' = runInput /\ seen' = seen /\ Equity' = Equity
  BY DEF Calm
<1>3. Buying(s)' = Buying(s) /\ ExitDue(s)' = ExitDue(s)
  BY <1>2 DEF Buying, ExitDue, Proposal
<1>4. ASSUME Fits(s, ShareOf(s, held[s] + decision[s].quantity))
      PROVE  Fits(s, ShareOf(s, held[s] + decision[s].quantity))'
  <2> DEFINE q == decision[s].quantity
             m == held'[s] + q
             n == held[s] + q
  <2>1. m \in Nat /\ n \in Nat /\ m <= n /\ Equity \in Nat
    BY <1>1, EquityIsNat
  <2>2. PICK share \in Nat, less \in Nat :
          share = ShareOf(s, n) /\ less = ShareOf(s, m) /\ less <= share
    <3> HIDE DEF m, n
    <3> QED BY <2>1, ShareFacts
  <2>3. Fits(s, less)'
    BY <1>4, <2>2, FitsStands
  <2>4. less = ShareOf(s, held[s] + decision[s].quantity)'
    <3>1. less = ShareOf(s, held'[s] + decision'[s].quantity)
      BY <2>2
    <3> QED BY <1>2, <3>1 DEF ShareOf
  <2> QED BY <2>3, <2>4 DEF Fits
<1> QED BY <1>1, <1>2, <1>3, <1>4 DEF FinalFine

LEMMA RiskInvInit ==
  ASSUME RiskInit
  PROVE  RiskInv
<1>1. PortfolioTyped
  BY RiskAssumption DEF RiskInit, PortfolioTyped
<1>2. InputTyped
  BY <1>1 DEF RiskInit, InputTyped, NoRunInput, Proposal, PortfolioTyped
<1>3. ASSUME NEW s \in Names PROVE ReviewFine(s) /\ FinalFine(s)
  BY <1>3 DEF RiskInit, ReviewFine, FinalFine, NoReview, NoDecision
<1>4. /\ riskStage \in {"idle", "finalising"} /\ HeldAsSeen
      /\ DOMAIN review = Names /\ DOMAIN decision = Names
  BY DEF RiskInit, HeldAsSeen
<1> QED BY <1>1, <1>2, <1>3, <1>4 DEF RiskInv

LEMMA StartApprovalKeeps ==
  ASSUME RiskInv, NEW in \in RunInputs, StartApproval(in)
  PROVE  RiskInv'
<1>1. PortfolioTyped' /\ HeldAsSeen'
  BY DEF RiskInv, StartApproval, PortfolioTyped, HeldAsSeen
<1>2. InputTyped'
  BY RiskAssumption DEF RiskInv, StartApproval, InputTyped, Proposal, PortfolioTyped
<1>3. ASSUME NEW s \in Names PROVE ReviewFine(s)' /\ FinalFine(s)'
  BY <1>3 DEF StartApproval, ReviewFine, FinalFine, NoReview, NoDecision
<1>4. riskStage' \in {"idle", "finalising"} /\ DOMAIN review' = Names /\ DOMAIN decision' = Names
  BY DEF StartApproval
<1> QED BY <1>1, <1>2, <1>3, <1>4 DEF RiskInv

(* A sale turns a position into cash of the same worth.                     *)
LEMMA SaleKeepsEquity ==
  ASSUME PortfolioTyped, NEW who \in Names, held' = [held EXCEPT ![who] = 0],
         money' = money + held[who] * Quote[who]
  PROVE  Equity' = Equity /\ PortfolioTyped'
<1> DEFINE f == Worth'
           g == Worth
           w == held[who] * Quote[who]
<1>1. IsFiniteSet(Names) /\ \A t \in Names : Quote[t] \in Nat /\ held[t] \in Nat
  BY RiskAssumption DEF PortfolioTyped
<1>2. /\ \A t \in Names : f[t] \in Int /\ g[t] \in Int
      /\ \A t \in Names : t # who => g[t] = f[t]
      /\ f[who] = 0 /\ g[who] = w
  BY <1>1 DEF PortfolioTyped, Worth
<1>3. w \in Nat
  BY <1>1
<1>4. held' \in [Names -> Nat]
  BY DEF PortfolioTyped
<1>5. Equity' = money' + SumOver(f, Names) /\ Equity = money + SumOver(g, Names)
  <2>1. Equity' = money' + SumOver(f, Names) /\ Equity = money + SumOver(g, Names)
    BY DEF Equity, Worth
  <2> HIDE DEF f, g
  <2> QED BY <2>1 DEF SumOver
<1> HIDE DEF f, g, w
<1>6. SumOver(g, Names) = SumOver(f, Names) + (IF who \in Names THEN g[who] ELSE 0)
  BY <1>1, <1>2, SumOneChange
<1>7. SumOver(f, Names) \in Int
  BY <1>1, <1>2, SumFacts
<1>8. money \in Nat /\ money' = money + w
  BY DEF PortfolioTyped, w
<1> QED BY <1>2, <1>3, <1>4, <1>5, <1>6, <1>7, <1>8 DEF PortfolioTyped

LEMMA MonitorKeeps ==
  ASSUME RiskInv, MonitorSells
  PROVE  RiskInv'
<1>1. PICK s \in Names : /\ held' = [held EXCEPT ![s] = 0]
                         /\ money' = money + held[s] * Quote[s]
  BY DEF MonitorSells
<1>2. /\ riskStage' = riskStage /\ runInput' = runInput /\ seen' = seen /\ review' = review
      /\ decision' = decision
  BY DEF MonitorSells
<1>3. PortfolioTyped /\ PortfolioTyped' /\ Equity' = Equity
  BY <1>1, SaleKeepsEquity DEF RiskInv
<1>4. Calm /\ money' \in Nat
  <2>1. \A t \in Names : held'[t] <= held[t] /\ (held'[t] = held[t] \/ held'[t] = 0)
    BY <1>1, <1>3 DEF PortfolioTyped
  <2> QED BY <1>2, <1>3, <2>1 DEF Calm, PortfolioTyped
<1>5. HeldAsSeen'
  BY <1>1, <1>2, <1>3 DEF RiskInv, HeldAsSeen, PortfolioTyped
<1>6. InputTyped'
  BY <1>2 DEF RiskInv, InputTyped, Proposal
<1>7. ASSUME NEW t \in Names PROVE ReviewFine(t)' /\ FinalFine(t)'
  BY <1>2, <1>3, <1>4, CalmKeepsReview, CalmKeepsDecision DEF RiskInv
<1> QED BY <1>2, <1>3, <1>5, <1>6, <1>7 DEF RiskInv

(* Nothing that the portfolio is worth changes.                             *)
LEMMA StillIsCalm ==
  ASSUME PortfolioTyped, UNCHANGED <<riskStage, runInput, held, money, seen>>
  PROVE  Calm /\ money' \in Nat /\ PortfolioTyped'
<1>1. Equity' = Equity
  BY DEF Equity
<1>2. \A t \in Names : held'[t] <= held[t]
  BY DEF PortfolioTyped
<1> QED BY <1>1, <1>2 DEF Calm, PortfolioTyped

LEMMA ReviewRiskKeeps ==
  ASSUME RiskInv, ReviewRisk
  PROVE  RiskInv'
<1>1. PICK s \in Names : review' = [review EXCEPT ![s] = ReviewOf(s)]
  BY DEF ReviewRisk
<1>2. /\ riskStage' = riskStage /\ runInput' = runInput /\ seen' = seen /\ held' = held
      /\ money' = money /\ decision' = decision
  BY DEF ReviewRisk
<1>3. PortfolioTyped /\ InputTyped /\ DOMAIN review = Names
  BY DEF RiskInv
<1>4. Calm /\ money' \in Nat /\ PortfolioTyped'
  BY <1>2, <1>3, StillIsCalm
<1>5. ReviewFine(s)'
  <2> DEFINE r == ReviewOf(s)
  <2>1. review'[s] = r
    BY <1>1, <1>3
  <2>2. /\ r.approved \in Nat
        /\ Buying(s) /\ r.approved > 0 => Fits(s, r.approved)
        /\ ExitDue(s) => r.status \in {"APPROVED", "APPROVED_WITH_REDUCTION"}
    BY <1>3, ReviewFacts
  <2>3. Buying(s)' = Buying(s) /\ ExitDue(s)' = ExitDue(s)
    BY <1>2 DEF Buying, ExitDue, Proposal
  <2> HIDE DEF r
  <2>4. PICK share \in Nat : share = r.approved
    BY <2>2
  <2>5. Buying(s) /\ share > 0 => Fits(s, share)'
    BY <1>3, <1>4, <2>2, <2>4, FitsStands
  <2>6. share = review'[s].approved
    BY <2>1, <2>4
  <2>7. Buying(s)' /\ share > 0 => Fits(s, review[s].approved)'
    BY <2>3, <2>5, <2>6 DEF Fits
  <2> QED BY <2>1, <2>2, <2>3, <2>6, <2>7 DEF ReviewFine
<1>6. ASSUME NEW t \in Names PROVE ReviewFine(t)' /\ FinalFine(t)'
  <2>1. FinalFine(t)'
    BY <1>2, <1>3, <1>4, CalmKeepsDecision DEF RiskInv
  <2>2. CASE t = s
    BY <1>5, <2>1, <2>2
  <2>3. CASE t # s
    <3>1. review'[t] = review[t]
      BY <1>1, <2>3
    <3> QED BY <1>3, <1>4, <2>1, <3>1, CalmKeepsReview DEF RiskInv
  <2> QED BY <2>2, <2>3
<1>7. HeldAsSeen' /\ InputTyped'
  BY <1>2 DEF RiskInv, HeldAsSeen, InputTyped, Proposal
<1>8. DOMAIN review' = Names /\ DOMAIN decision' = Names /\ riskStage' \in {"idle", "finalising"}
  BY <1>1, <1>2 DEF RiskInv
<1> QED BY <1>4, <1>6, <1>7, <1>8 DEF RiskInv

LEMMA DecideKeeps ==
  ASSUME RiskInv, DecideFinally
  PROVE  RiskInv'
<1>1. PICK s \in UnderReview : decision' = [decision EXCEPT ![s] = DecisionOf(s)]
  BY DEF DecideFinally
<1>2. /\ riskStage' = riskStage /\ runInput' = runInput /\ seen' = seen /\ held' = held
      /\ money' = money /\ review' = review /\ riskStage = "finalising"
  BY DEF DecideFinally
<1>3. /\ PortfolioTyped /\ DOMAIN decision = Names /\ s \in Names
      /\ review[s].status # "none"
  BY <1>1 DEF RiskInv, UnderReview
<1>4. Calm /\ money' \in Nat /\ PortfolioTyped'
  BY <1>2, <1>3, StillIsCalm
<1>5. FinalFine(s)'
  <2> DEFINE d == DecisionOf(s)
  <2>1. decision'[s] = d
    BY <1>1, <1>3
  <2>2. /\ d.quantity \in Nat
        /\ Buying(s) /\ d.quantity > 0 => Fits(s, ShareOf(s, held[s] + d.quantity))
        /\ ExitDue(s) => d.status = "APPROVED_FOR_PAPER" /\ d.quantity = seen[s]
    BY <1>2, <1>3, DecisionFacts
  <2>3. Buying(s)' = Buying(s) /\ ExitDue(s)' = ExitDue(s)
    BY <1>2 DEF Buying, ExitDue, Proposal
  <2> HIDE DEF d
  <2>4. PICK share \in Nat : share = ShareOf(s, held[s] + d.quantity)
    <3> DEFINE m == held[s] + d.quantity
    <3>1. m \in Nat /\ Equity \in Nat
      BY <1>3, <2>2, EquityIsNat DEF PortfolioTyped
    <3> HIDE DEF m
    <3>2. ShareOf(s, m) \in Nat
      BY <1>3, <3>1, ShareFacts
    <3> QED BY <3>2 DEF m
  <2>5. Buying(s) /\ d.quantity > 0 => Fits(s, share)'
    BY <1>3, <1>4, <2>2, <2>4, FitsStands
  <2>6. share = ShareOf(s, held[s] + decision[s].quantity)'
    BY <1>2, <1>4, <2>1, <2>4 DEF ShareOf, Calm
  <2>7. Buying(s)' /\ d.quantity > 0 => Fits(s, ShareOf(s, held[s] + decision[s].quantity))'
    BY <2>3, <2>5, <2>6 DEF Fits
  <2> QED BY <1>2, <2>1, <2>2, <2>3, <2>7 DEF FinalFine
<1>6. ASSUME NEW t \in Names PROVE ReviewFine(t)' /\ FinalFine(t)'
  <2>1. ReviewFine(t)'
    BY <1>2, <1>3, <1>4, CalmKeepsReview DEF RiskInv
  <2>2. CASE t = s
    BY <1>5, <2>1, <2>2
  <2>3. CASE t # s
    <3>1. decision'[t] = decision[t]
      BY <1>1, <2>3
    <3> QED BY <1>3, <1>4, <2>1, <3>1, CalmKeepsDecision DEF RiskInv
  <2> QED BY <2>2, <2>3
<1>7. HeldAsSeen' /\ InputTyped'
  BY <1>2 DEF RiskInv, HeldAsSeen, InputTyped, Proposal
<1>8. DOMAIN review' = Names /\ DOMAIN decision' = Names /\ riskStage' \in {"idle", "finalising"}
  BY <1>1, <1>2 DEF RiskInv
<1> QED BY <1>4, <1>6, <1>7, <1>8 DEF RiskInv

LEMMA AmountsAreNat ==
  ASSUME NEW f, \A s \in Names : f[s] \in Nat
  PROVE  SumOver(f, Names) \in Nat
<1>1. IsFiniteSet(Names)
  BY RiskAssumption
<1>2. /\ \A s \in Names : f[s] \in Int
      /\ \A s \in Names : f[s] <= 0 \/ (s \in Names /\ f[s] <= f[s])
  OBVIOUS
<1>3. SumOver(f, Names) \in Nat
  BY <1>1, <1>2, SumWithin
<1> QED BY <1>3 DEF SumOver

LEMMA ExecuteKeeps ==
  ASSUME RiskInv, ExecuteDecisions
  PROVE  RiskInv'
<1> DEFINE routed == {s \in Names : decision[s].status = "APPROVED_FOR_PAPER"}
           sold(s) == IF s \in routed /\ ~Buying(s) THEN Min({held[s], decision[s].quantity}) ELSE 0
           bought(s) == IF s \in routed /\ Buying(s) THEN decision[s].quantity ELSE 0
           earned == [s \in Names |-> sold(s) * Quote[s]]
           spent == [s \in Names |-> bought(s) * Quote[s]]
           cash == money + SumOver(earned, Names)
           cost == SumOver(spent, Names)
<1>1. /\ held' = [s \in Names |-> held[s] - sold(s) + (IF cost <= cash THEN bought(s) ELSE 0)]
      /\ money' = IF cost <= cash THEN cash - cost ELSE cash
      /\ riskStage' = "idle" /\ runInput' = runInput /\ seen' = seen /\ review' = review
      /\ decision' = decision
  BY DEF ExecuteDecisions
<1>2. ASSUME NEW s \in Names
      PROVE  /\ sold(s) \in Nat /\ sold(s) <= held[s] /\ bought(s) \in Nat /\ held[s] \in Nat
             /\ Quote[s] \in Nat
  <2> DEFINE m == held[s]
             q == decision[s].quantity
  <2>1. m \in Nat /\ q \in Nat /\ Quote[s] \in Nat
    BY RiskAssumption DEF RiskInv, PortfolioTyped, FinalFine
  <2>2. Min({m, q}) = IF m <= q THEN m ELSE q
    <3> HIDE DEF m, q
    <3> QED BY <2>1, MinOfTwo
  <2>3. (sold(s) = Min({m, q}) \/ sold(s) = 0) /\ (bought(s) = q \/ bought(s) = 0)
    OBVIOUS
  <2> HIDE DEF sold, bought, m, q
  <2>4. sold(s) \in Nat /\ sold(s) <= m /\ bought(s) \in Nat
    BY <2>1, <2>2, <2>3
  <2> QED BY <2>1, <2>4 DEF m
<1> HIDE DEF sold, bought
<1>3. \A s \in Names : earned[s] \in Nat /\ spent[s] \in Nat
  BY <1>2
<1> HIDE DEF earned, spent
<1>4. cash \in Nat /\ cost \in Nat
  BY <1>3, AmountsAreNat DEF RiskInv, PortfolioTyped
<1> HIDE DEF cash, cost
<1>5. PortfolioTyped'
  <2>1. money' \in Nat
    BY <1>1, <1>4
  <2>2. \A s \in Names : held[s] - sold(s) + (IF cost <= cash THEN bought(s) ELSE 0) \in Nat
    BY <1>2
  <2> QED BY <1>1, <2>1, <2>2 DEF PortfolioTyped
<1>6. InputTyped' /\ HeldAsSeen'
  BY <1>1 DEF RiskInv, InputTyped, Proposal, HeldAsSeen
<1>7. ASSUME NEW s \in Names PROVE ReviewFine(s)' /\ FinalFine(s)'
  <2>1. ReviewFine(s) /\ FinalFine(s)
    BY DEF RiskInv
  <2>2. ReviewFine(s)'
    BY <1>1, <2>1 DEF ReviewFine
  <2>3. FinalFine(s)'
    BY <1>1, <2>1 DEF FinalFine, ExitDue, Proposal
  <2> QED BY <2>2, <2>3
<1>8. DOMAIN review' = Names /\ DOMAIN decision' = Names /\ riskStage' \in {"idle", "finalising"}
  BY <1>1 DEF RiskInv
<1> QED BY <1>5, <1>6, <1>7, <1>8 DEF RiskInv

LEMMA RiskInvStep ==
  ASSUME RiskInv, [RiskNext]_riskVars
  PROVE  RiskInv'
<1>1. CASE riskStage = "idle" /\ \E in \in RunInputs : StartApproval(in)
  BY <1>1, StartApprovalKeeps
<1>2. CASE MonitorSells \/ ReviewRisk \/ DecideFinally \/ ExecuteDecisions
  BY <1>2, MonitorKeeps, ReviewRiskKeeps, DecideKeeps, ExecuteKeeps
<1>3. CASE UNCHANGED riskVars
  <2>1. /\ riskStage' = riskStage /\ runInput' = runInput /\ seen' = seen /\ held' = held
        /\ money' = money /\ review' = review /\ decision' = decision
    BY <1>3 DEF riskVars
  <2>2. Calm /\ money' \in Nat /\ PortfolioTyped'
    BY <2>1, StillIsCalm DEF RiskInv
  <2>3. ASSUME NEW s \in Names PROVE ReviewFine(s)' /\ FinalFine(s)'
    BY <2>1, <2>2, CalmKeepsReview, CalmKeepsDecision DEF RiskInv
  <2>4. HeldAsSeen' /\ InputTyped'
    BY <2>1 DEF RiskInv, HeldAsSeen, InputTyped, Proposal
  <2> QED BY <2>1, <2>2, <2>3, <2>4 DEF RiskInv
<1> QED BY <1>1, <1>2, <1>3 DEF RiskNext

LEMMA InvFollowsLimits ==
  ASSUME RiskInv
  PROVE  ApprovalsFollowLimits
<1>1. \A s \in Names : FinalFine(s)
  BY DEF RiskInv
<1>2. ExitsPass
  BY <1>1 DEF ExitsPass, Finalised, FinalFine, ExitDue
<1>3. ApprovedBuyFitsLimits
  <2> SUFFICES ASSUME NEW s \in Finalised, riskStage = "finalising", Buying(s),
                      decision[s].quantity > 0
               PROVE  Fits(s, ShareOf(s, held[s] + decision[s].quantity))
    BY DEF ApprovedBuyFitsLimits, Fits
  <2> QED BY <1>1 DEF Finalised, FinalFine
<1> QED BY <1>2, <1>3 DEF ApprovalsFollowLimits

(* Whatever is proposed, whatever the portfolio holds and whenever the      *)
(* monitor sells: an approved BUY leads to a position within the cap of a   *)
(* stock and within the limit of each group it is exposed to, and nothing   *)
(* keeps back an EXIT but the kill switch and symbols that cannot be        *)
(* traded.                                                                  *)
THEOREM LimitsHold == RiskSpec => []ApprovalsFollowLimits
<1>1. RiskInit => RiskInv
  BY RiskInvInit
<1>2. RiskInv /\ [RiskNext]_riskVars => RiskInv'
  BY RiskInvStep
<1>3. RiskInv => ApprovalsFollowLimits
  BY InvFollowsLimits
<1> QED BY <1>1, <1>2, <1>3, PTL DEF RiskSpec

-----------------------------------------------------------------------------
(* The review of the core basket.                                           *)

FoundTyped ==
  found.held \in [Universe -> Nat] /\ found.nav \in Nat \ {0} /\ found.month \in Nat

(* Only chosen stocks have a target.                                        *)
TargetsChosen == \A s \in Universe \ chosen : weights[s] = 0

(* What is poured and what remains is the sleeve, but for the rounding of   *)
(* the latest round; a stock that is passed over is full.                   *)
StillPours ==
  /\ uncapped \subseteq chosen
  /\ WeightOf(chosen, weights) + remaining = BasketPolicy.sleeve
  /\ 0 - Cardinality(chosen) <= 2 * remaining
  /\ \A s \in chosen : weights[s] <= StockCap
  /\ \A s \in chosen \ uncapped : weights[s] = StockCap
  /\ \A s \in uncapped : weights[s] < StockCap \/ StockCap = 0
  /\ \A s, t \in chosen : Volatility[s] <= Volatility[t] => weights[s] >= weights[t]

GroupIn(s, groupOf) == {t \in Universe : groupOf[t] = groupOf[s]}

(* The groups are within their cap, up to one step for each stock. *)
WithinCap(groupOf, cap) ==
  \A s \in Universe :
    groupOf[s] # "none" =>
      WeightOf(GroupIn(s, groupOf), weights) <= cap + Cardinality(GroupIn(s, groupOf))

SectorsWithin == WithinCap(BasketSector, BasketPolicy.sectorCap)
ClustersWithin == WithinCap(BasketCluster, BasketPolicy.clusterCap)

HasTraded == basketStage = "idle" /\ \E s \in Universe : trades[s] # 0
UntradedWeight == (BasketPolicy.minNotional * Whole) \div found.nav

(* The trades lead to the targets, but for differences too small to trade. *)
TradesReachTargets ==
  \A s \in Universe : found.held[s] + trades[s] <= weights[s] + UntradedWeight

BasketInv ==
  /\ BasketTypeOK /\ FoundTyped /\ TargetsChosen
  /\ basketStage = "rounds" => StillPours
  /\ SleeveIsPouredOut
  /\ basketStage = "clusters" => SectorsWithin
  /\ basketStage \in {"tiny", "decide"} \/ HasTraded => SectorsWithin /\ ClustersWithin
  /\ HasTraded => TradesReachTargets

(* The less volatile of two stocks gets the larger part.                    *)
LEMMA InverseFacts ==
  /\ \A s \in Universe : InverseVolatility[s] \in Positive
  /\ \A s, t \in Universe :
       Volatility[s] <= Volatility[t] => InverseVolatility[t] <= InverseVolatility[s]
<1>1. IsFiniteSet(Universe) /\ \A x \in Universe : Volatility[x] \in Positive
  BY BasketAssumption DEF Positive
<1>2. ASSUME NEW A \in SUBSET Universe
      PROVE  /\ ProductOver(Volatility, A) \in Positive
             /\ \A x \in A : ProductOver(Volatility, A)
                               = Volatility[x] * ProductOver(Volatility, A \ {x})
  <2>1. IsFiniteSet(A) /\ \A x \in A : Volatility[x] \in Positive
    BY <1>1, FS_Subset
  <2> QED BY <2>1, ProductFacts
<1>3. \A s \in Universe : InverseVolatility[s] = ProductOver(Volatility, Universe \ {s})
  BY DEF InverseVolatility
<1>4. ASSUME NEW s \in Universe, NEW t \in Universe, Volatility[s] <= Volatility[t]
      PROVE  InverseVolatility[t] <= InverseVolatility[s]
  <2>1. CASE s = t
    <3>1. InverseVolatility[t] \in Nat
      BY <1>2, <1>3 DEF Positive
    <3> QED BY <2>1, <3>1
  <2>2. CASE s # t
    <3> DEFINE p == ProductOver(Volatility, Universe \ {s, t})
    <3>1. InverseVolatility[s] = Volatility[t] * p
      <4>1. t \in Universe \ {s} /\ (Universe \ {s}) \ {t} = Universe \ {s, t}
        BY <2>2
      <4>2. Universe \ {s} \in SUBSET Universe
        OBVIOUS
      <4> QED BY <1>2, <1>3, <4>1, <4>2
    <3>2. InverseVolatility[t] = Volatility[s] * p
      <4>1. s \in Universe \ {t} /\ (Universe \ {t}) \ {s} = Universe \ {s, t}
        BY <2>2
      <4>2. Universe \ {t} \in SUBSET Universe
        OBVIOUS
      <4> QED BY <1>2, <1>3, <4>1, <4>2
    <3>3. p \in Nat /\ Volatility[s] \in Int /\ Volatility[t] \in Int
      BY <1>1, <1>2 DEF Positive
    <3> HIDE DEF p
    <3> QED BY <1>4, <3>1, <3>2, <3>3, TimesGrows
  <2> QED BY <2>1, <2>2
<1> QED BY <1>2, <1>3, <1>4

LEMMA BasketCaps ==
  /\ StockCap \in Nat /\ BasketPolicy.sleeve \in Nat
  /\ BasketPolicy.sectorCap \in Nat /\ BasketPolicy.clusterCap \in Nat
  /\ BasketPolicy.minNotional * Whole \in Nat
<1>1. /\ BasketPolicy.sleeve \in Nat /\ BasketPolicy.stockCap \in Nat
      /\ BasketPolicy.hardStockCap \in Nat /\ BasketPolicy.sectorCap \in Nat
      /\ BasketPolicy.clusterCap \in Nat /\ BasketPolicy.minNotional \in Nat /\ Whole \in Nat
  BY BasketAssumption
<1> QED BY <1>1 DEF StockCap, Smallest

LEMMA PartOfUniverse ==
  ASSUME NEW A \in SUBSET Universe
  PROVE  IsFiniteSet(A) /\ Cardinality(A) \in Nat
BY BasketAssumption, FS_Subset, FS_CardinalityType

LEMMA BasketInvInit == BasketInit => BasketInv
<1> SUFFICES ASSUME BasketInit PROVE BasketInv
  OBVIOUS
<1>1. NoWeights \in [Universe -> Nat] /\ NoWeights \in [Universe -> Int]
      /\ \A s \in Universe : NoWeights[s] = 0
  BY DEF NoWeights
<1>2. BasketTypeOK /\ FoundTyped /\ TargetsChosen
  BY <1>1 DEF BasketInit, BasketTypeOK, FoundTyped, TargetsChosen
<1>3. basketStage = "idle" /\ ~HasTraded
  BY <1>1 DEF BasketInit, HasTraded
<1> QED BY <1>2, <1>3 DEF BasketInv, SleeveIsPouredOut

LEMMA BeginReviewKeeps ==
  ASSUME BasketInv, NEW in \in BasketInputs, BeginReview(in)
  PROVE  BasketInv'
<1>1. in.held \in [Universe -> Nat] /\ in.nav \in Nat \ {0} /\ in.month \in Nat
  BY BasketAssumption
<1>2. /\ found' = in /\ chosen' = Selected(Scorable(in)) /\ uncapped' = chosen'
      /\ weights' = NoWeights /\ trades' = NoWeights /\ remaining' = BasketPolicy.sleeve
      /\ basketStage' = "rounds" /\ lastMonth' = lastMonth
  BY DEF BeginReview
<1>3. chosen' \subseteq Universe
  BY <1>2 DEF Selected, Scorable
<1>4. NoWeights \in [Universe -> Nat] /\ NoWeights \in [Universe -> Int]
      /\ \A s \in Universe : NoWeights[s] = 0
  BY DEF NoWeights
<1>5. BasketTypeOK' /\ FoundTyped' /\ TargetsChosen'
  <2>1. BasketTypeOK'
    BY <1>2, <1>3, <1>4, BasketCaps DEF BasketInv, BasketTypeOK
  <2>2. FoundTyped'
    BY <1>1, <1>2 DEF FoundTyped
  <2>3. TargetsChosen'
    BY <1>2, <1>4 DEF TargetsChosen
  <2> QED BY <2>1, <2>2, <2>3
<1>6. StillPours'
  <2>1. WeightOf(chosen', weights') = 0
    <3>1. \A s \in chosen' : weights'[s] = 0
      BY <1>2, <1>3, <1>4
    <3> QED BY <1>3, <3>1, PartOfUniverse, SumZero DEF WeightOf
  <2>2. Cardinality(chosen') \in Nat
    BY <1>3, PartOfUniverse
  <2>3. \A s \in chosen' : weights'[s] = 0
    BY <1>2, <1>3, <1>4
  <2>4. /\ WeightOf(chosen', weights') + remaining' = BasketPolicy.sleeve
        /\ 0 - Cardinality(chosen') <= 2 * remaining'
    BY <1>2, <2>1, <2>2, BasketCaps
  <2>5. /\ \A s \in chosen' : weights'[s] <= StockCap
        /\ \A s \in uncapped' : weights'[s] < StockCap \/ StockCap = 0
        /\ \A s, t \in chosen' : weights'[s] >= weights'[t]
    BY <1>2, <2>3, BasketCaps
  <2>6. chosen' \ uncapped' = {}
    BY <1>2
  <2> QED BY <1>2, <2>4, <2>5, <2>6 DEF StillPours
<1> QED BY <1>2, <1>5, <1>6 DEF BasketInv, SleeveIsPouredOut, HasTraded

(* One round pours every stock's part, no more than it has room for.        *)
LEMMA RoundFacts ==
  ASSUME BasketInv, StillPours, remaining > 0, uncapped # {},
         NEW helping,
         helping = [s \in uncapped |->
                   Smallest(RoundHalfEven(remaining * InverseVolatility[s],
                                          WeightOf(uncapped, InverseVolatility)), RoomLeft(s))],
         NEW after,
         after = [s \in Universe |->
                    IF s \in uncapped THEN weights[s] + helping[s] ELSE weights[s]]
  PROVE  /\ \A s \in uncapped : helping[s] \in Nat /\ weights[s] + helping[s] <= StockCap
         /\ WeightOf(uncapped, helping) \in Nat
         /\ 2 * WeightOf(uncapped, helping) <= 2 * remaining + Cardinality(uncapped)
         /\ WeightOf(chosen, after) = WeightOf(chosen, weights) + WeightOf(uncapped, helping)
         /\ \A s, t \in chosen : Volatility[s] <= Volatility[t] => after[s] >= after[t]
         /\ WeightOf(uncapped, helping) = 0 =>
              StockCap = 0 \/ 2 * remaining <= Cardinality(uncapped)
<1> DEFINE total == WeightOf(uncapped, InverseVolatility)
           share == [s \in uncapped |-> RoundHalfEven(remaining * InverseVolatility[s], total)]
<1>1. /\ uncapped \subseteq chosen /\ chosen \subseteq Universe
      /\ weights \in [Universe -> Nat] /\ remaining \in Nat
      /\ uncapped \in SUBSET Universe
  BY DEF BasketInv, BasketTypeOK, StillPours
<1>2. IsFiniteSet(uncapped) /\ Cardinality(uncapped) \in Nat /\ IsFiniteSet(chosen)
  BY <1>1, PartOfUniverse
<1>3. \A s \in uncapped : InverseVolatility[s] \in Nat /\ InverseVolatility[s] > 0
  BY <1>1, InverseFacts DEF Positive
<1>4. total \in Nat /\ total > 0
  <2>1. PICK u \in uncapped : TRUE
    OBVIOUS
  <2>2. total = InverseVolatility[u] + SumOver(InverseVolatility, uncapped \ {u})
    <3>1. \A s \in uncapped : InverseVolatility[s] \in Int
      BY <1>3
    <3> QED BY <1>2, <3>1, SumFacts DEF WeightOf
  <2>3. SumOver(InverseVolatility, uncapped \ {u}) \in Nat
    <3>1. IsFiniteSet(uncapped \ {u})
      BY <1>2, FS_Subset
    <3> QED BY <1>3, <3>1, SumNatural
  <2> QED BY <1>3, <2>2, <2>3
<1>5. /\ \A s \in uncapped : share[s] \in Nat
      /\ SumOver(share, uncapped) \in Nat
      /\ 2 * SumOver(share, uncapped) <= 2 * remaining + Cardinality(uncapped)
      /\ 2 * remaining <= 2 * SumOver(share, uncapped) + Cardinality(uncapped)
  <2>1. \A s \in uncapped :
          share[s] = RoundHalfEven(remaining * InverseVolatility[s],
                                   SumOver(InverseVolatility, uncapped))
    BY DEF WeightOf
  <2>2. SumOver(InverseVolatility, uncapped) > 0
    BY <1>4 DEF WeightOf
  <2> HIDE DEF share
  <2> QED BY <1>1, <1>2, <1>3, <2>1, <2>2, PartsAddUp
<1>6. ASSUME NEW s \in uncapped
      PROVE  /\ helping[s] = Smallest(share[s], RoomLeft(s))
             /\ RoomLeft(s) = StockCap - weights[s] /\ RoomLeft(s) \in Nat
             /\ weights[s] \in Nat /\ share[s] \in Nat
  <2>1. helping[s] = Smallest(share[s], RoomLeft(s))
    OBVIOUS
  <2>2. weights[s] \in Nat /\ weights[s] <= StockCap
    BY <1>1 DEF StillPours
  <2> HIDE DEF share
  <2> QED BY <1>5, <2>1, <2>2, BasketCaps DEF RoomLeft
<1> HIDE DEF total, share
<1>7. ASSUME NEW s \in uncapped
      PROVE  /\ helping[s] \in Nat /\ weights[s] + helping[s] <= StockCap /\ helping[s] <= share[s]
             /\ helping[s] = share[s] \/ weights[s] + helping[s] = StockCap
  BY <1>6, BasketCaps DEF Smallest
<1>8. WeightOf(uncapped, helping) \in Nat
  BY <1>2, <1>7, SumNatural DEF WeightOf
<1>9. WeightOf(uncapped, helping) <= SumOver(share, uncapped)
  <2>1. \A s \in uncapped : helping[s] \in Int /\ share[s] \in Int /\ helping[s] <= share[s]
    BY <1>6, <1>7
  <2> QED BY <1>2, <2>1, SumMonotone DEF WeightOf
<1>10. WeightOf(chosen, after) = WeightOf(chosen, weights) + WeightOf(uncapped, helping)
  <2> DEFINE mask == [s \in chosen |-> IF s \in uncapped THEN helping[s] ELSE 0]
  <2>1. WeightOf(uncapped, helping) = SumOver(mask, chosen)
    <3>1. \A s \in uncapped : helping[s] \in Int
      BY <1>7
    <3> QED BY <1>1, <1>2, <3>1, MaskedSum DEF WeightOf
  <2>2. ASSUME NEW s \in chosen
        PROVE  weights[s] \in Int /\ mask[s] \in Int /\ after[s] = weights[s] + mask[s]
    BY <1>1, <1>7
  <2> HIDE DEF mask
  <2>3. SumOver(after, chosen) = SumOver(weights, chosen) + SumOver(mask, chosen)
    BY <1>2, <2>2, SumAdds
  <2> QED BY <2>1, <2>3 DEF WeightOf
<1>11. ASSUME NEW s \in chosen, NEW t \in chosen, Volatility[s] <= Volatility[t]
       PROVE  after[s] >= after[t]
  <2>1. /\ weights[s] \in Nat /\ weights[t] \in Nat /\ weights[s] >= weights[t]
        /\ weights[s] <= StockCap /\ weights[t] <= StockCap /\ s \in Universe /\ t \in Universe
    BY <1>1, <1>11 DEF StillPours
  <2>2. CASE s \notin uncapped
    <3>1. weights[s] = StockCap /\ after[s] = weights[s]
      BY <2>1, <2>2 DEF StillPours
    <3>2. after[t] <= StockCap
      BY <1>7, <2>1
    <3> QED BY <3>1, <3>2, <2>1, <1>7, BasketCaps
  <2>3. CASE s \in uncapped /\ t \notin uncapped
    <3>1. weights[t] = StockCap /\ after[t] = weights[t] /\ after[s] = weights[s] + helping[s]
      BY <2>1, <2>3 DEF StillPours
    <3> QED BY <3>1, <2>1, <2>3, <1>7, BasketCaps
  <2>4. CASE s \in uncapped /\ t \in uncapped
    <3>1. share[t] <= share[s]
      <4> DEFINE p == remaining * InverseVolatility[t]
                 q == remaining * InverseVolatility[s]
      <4>1. /\ InverseVolatility[s] \in Nat /\ InverseVolatility[t] \in Nat
            /\ InverseVolatility[t] <= InverseVolatility[s]
        BY <1>3, <1>11, <2>1, <2>4, InverseFacts
      <4>2. p \in Nat /\ q \in Nat /\ p <= q
        <5>1. InverseVolatility[t] * remaining <= InverseVolatility[s] * remaining
          BY <1>1, <4>1, TimesGrows
        <5> QED BY <1>1, <4>1, <5>1
      <4>3. share[t] = RoundHalfEven(p, total) /\ share[s] = RoundHalfEven(q, total)
        BY <2>4 DEF share
      <4> HIDE DEF p, q
      <4>4. total \in Nat \ {0}
        BY <1>4
      <4>5. Nearest(p, total, share[t]) /\ Nearest(q, total, share[s])
        BY <4>2, <4>3, <4>4, HalfEvenIsNearest
      <4>6. p * total <= q * total
        BY <4>2, <4>4, TimesGrows
      <4>7. p \in Int /\ q \in Int
        BY <4>2
      <4> QED BY <4>4, <4>5, <4>6, <4>7, NearestMonotone
    <3>2. after[s] = weights[s] + helping[s] /\ after[t] = weights[t] + helping[t]
      BY <2>1, <2>4
    <3>3. helping[t] <= share[t] /\ (helping[s] = share[s] \/ weights[s] + helping[s] = StockCap)
      BY <1>7, <2>4
    <3> QED BY <2>1, <2>4, <3>1, <3>2, <3>3, <1>6, <1>7, BasketCaps
  <2> QED BY <2>2, <2>3, <2>4
<1>12. ASSUME WeightOf(uncapped, helping) = 0, StockCap # 0
       PROVE  2 * remaining <= Cardinality(uncapped)
  <2>1. ASSUME NEW s \in uncapped PROVE share[s] = 0
    <3>1. WeightOf(uncapped, helping) = helping[s] + SumOver(helping, uncapped \ {s})
      <4>1. \A x \in uncapped : helping[x] \in Int
        BY <1>7
      <4> QED BY <1>2, <4>1, SumFacts DEF WeightOf
    <3>2. SumOver(helping, uncapped \ {s}) \in Nat
      <4>1. IsFiniteSet(uncapped \ {s})
        BY <1>2, FS_Subset
      <4> QED BY <1>7, <4>1, SumNatural
    <3>3. helping[s] = 0
      BY <1>7, <1>12, <3>1, <3>2
    <3>4. weights[s] < StockCap
      BY <1>12 DEF StillPours
    <3> QED BY <1>6, <1>7, <3>3, <3>4, BasketCaps
  <2>2. SumOver(share, uncapped) = 0
    BY <1>2, <2>1, SumZero
  <2> QED BY <1>1, <1>2, <1>5, <2>2
<1>13. 2 * WeightOf(uncapped, helping) <= 2 * remaining + Cardinality(uncapped)
  BY <1>1, <1>2, <1>5, <1>8, <1>9
<1> QED BY <1>7, <1>8, <1>10, <1>11, <1>12, <1>13

LEMMA PourRoundKeeps ==
  ASSUME BasketInv, PourRound
  PROVE  BasketInv'
<1> DEFINE helping == [s \in uncapped |->
                      Smallest(RoundHalfEven(remaining * InverseVolatility[s],
                                             WeightOf(uncapped, InverseVolatility)), RoomLeft(s))]
           poured == WeightOf(uncapped, helping)
<1>1. /\ basketStage = "rounds" /\ remaining > 0 /\ uncapped # {}
      /\ weights' = [s \in Universe |->
                       IF s \in uncapped THEN weights[s] + helping[s] ELSE weights[s]]
      /\ remaining' = remaining - poured
      /\ uncapped' = {s \in uncapped : weights'[s] < StockCap}
      /\ basketStage' = IF poured <= 0 THEN "sectors" ELSE "rounds"
      /\ found' = found /\ chosen' = chosen /\ lastMonth' = lastMonth /\ trades' = trades
  BY DEF PourRound
<1>2. /\ BasketTypeOK /\ FoundTyped /\ TargetsChosen /\ StillPours
      /\ uncapped \subseteq chosen /\ chosen \subseteq Universe
      /\ weights \in [Universe -> Nat] /\ remaining \in Int
  BY <1>1 DEF BasketInv, BasketTypeOK, StillPours
<1>3. /\ \A s \in uncapped : helping[s] \in Nat /\ weights[s] + helping[s] <= StockCap
      /\ poured \in Nat
      /\ 2 * poured <= 2 * remaining + Cardinality(uncapped)
      /\ WeightOf(chosen, weights') = WeightOf(chosen, weights) + poured
      /\ \A s, t \in chosen : Volatility[s] <= Volatility[t] => weights'[s] >= weights'[t]
      /\ poured = 0 => StockCap = 0 \/ 2 * remaining <= Cardinality(uncapped)
  BY <1>1, <1>2, RoundFacts
<1> HIDE DEF helping, poured
<1>4. /\ \A s \in uncapped : weights'[s] = weights[s] + helping[s]
      /\ \A s \in Universe \ uncapped : weights'[s] = weights[s]
  BY <1>1, <1>2
<1>5. weights' \in [Universe -> Nat]
  BY <1>1, <1>2, <1>3
<1>6. /\ Cardinality(uncapped) \in Nat /\ Cardinality(chosen) \in Nat
      /\ Cardinality(uncapped) <= Cardinality(chosen)
  BY <1>2, PartOfUniverse, FS_Subset
<1>7. BasketTypeOK' /\ FoundTyped' /\ TargetsChosen'
  <2>1. BasketTypeOK'
    BY <1>1, <1>2, <1>3, <1>5 DEF BasketTypeOK
  <2>2. FoundTyped'
    BY <1>1, <1>2 DEF FoundTyped
  <2>3. TargetsChosen'
    BY <1>1, <1>2, <1>4 DEF TargetsChosen
  <2> QED BY <2>1, <2>2, <2>3
<1>8. WeightOf(chosen, weights) \in Nat
  <2>1. IsFiniteSet(chosen) /\ \A s \in chosen : weights[s] \in Nat
    BY <1>2, PartOfUniverse
  <2> QED BY <2>1, SumNatural DEF WeightOf
<1>9. WeightOf(chosen, weights) + remaining = BasketPolicy.sleeve
  BY <1>2 DEF StillPours
<1>10. \A s \in chosen : weights'[s] <= StockCap
  BY <1>2, <1>3, <1>4 DEF StillPours
<1>11. StillPours'
  <2>1. WeightOf(chosen', weights') + remaining' = BasketPolicy.sleeve
    BY <1>1, <1>2, <1>3, <1>8, <1>9
  <2>2. 0 - Cardinality(chosen') <= 2 * remaining'
    BY <1>1, <1>2, <1>3, <1>6
  <2>3. \A s \in chosen' \ uncapped' : weights'[s] = StockCap
    <3> SUFFICES ASSUME NEW s \in chosen, s \notin uncapped' PROVE weights'[s] = StockCap
      BY <1>1
    <3>1. CASE s \in uncapped
      <4>1. ~(weights'[s] < StockCap) /\ weights'[s] <= StockCap /\ weights'[s] \in Nat
        BY <1>1, <1>2, <1>5, <1>10, <3>1
      <4> QED BY <4>1, BasketCaps
    <3>2. CASE s \notin uncapped
      BY <1>2, <1>4, <3>2 DEF StillPours
    <3> QED BY <3>1, <3>2
  <2>4. \A s \in uncapped' : weights'[s] < StockCap
    BY <1>1
  <2>5. uncapped' \subseteq chosen'
    BY <1>1, <1>2
  <2> QED BY <1>1, <1>3, <1>10, <2>1, <2>2, <2>3, <2>4, <2>5 DEF StillPours
<1>12. SleeveIsPouredOut'
  <2> SUFFICES ASSUME basketStage' = "sectors" PROVE SleeveIsPouredOut'
    BY DEF SleeveIsPouredOut
  <2>1. poured = 0
    BY <1>1, <1>3
  <2>2. WeightOf(chosen, weights') = WeightOf(chosen, weights)
    BY <1>3, <1>8, <2>1
  <2>3. 0 - Cardinality(chosen) <= 2 * remaining
    BY <1>2 DEF StillPours
  <2>4. 2 * WeightOf(chosen', weights') <= 2 * BasketPolicy.sleeve + Cardinality(chosen')
    BY <1>1, <1>2, <1>6, <1>8, <1>9, <2>2, <2>3
  <2>5. \/ \A s \in chosen' : weights'[s] = StockCap
        \/ 2 * WeightOf(chosen', weights') >= 2 * BasketPolicy.sleeve - Cardinality(chosen')
    <3>1. CASE StockCap = 0
      <4>1. \A s \in chosen : weights'[s] \in Nat /\ weights'[s] <= 0
        BY <1>2, <1>5, <1>10, <3>1
      <4> QED BY <1>1, <3>1, <4>1
    <3>2. CASE StockCap # 0
      <4>1. 2 * remaining <= Cardinality(uncapped)
        BY <1>3, <2>1, <3>2
      <4> QED BY <1>1, <1>2, <1>6, <1>8, <1>9, <2>2, <4>1, BasketCaps
    <3> QED BY <3>1, <3>2
  <2> QED BY <1>1, <1>3, <1>10, <2>4, <2>5 DEF SleeveIsPouredOut
<1>13. basketStage' \in {"rounds", "sectors"}
  BY <1>1
<1> QED BY <1>7, <1>11, <1>12, <1>13 DEF BasketInv, HasTraded

LEMMA StopPouringKeeps ==
  ASSUME BasketInv, StopPouring
  PROVE  BasketInv'
<1>1. /\ basketStage = "rounds" /\ (remaining <= 0 \/ uncapped = {})
      /\ basketStage' = "sectors"
      /\ UNCHANGED <<found, chosen, weights, remaining, uncapped, lastMonth, trades>>
  BY DEF StopPouring
<1>2. /\ BasketTypeOK /\ FoundTyped /\ TargetsChosen /\ StillPours
      /\ chosen \subseteq Universe /\ weights \in [Universe -> Nat] /\ remaining \in Int
  BY <1>1 DEF BasketInv, BasketTypeOK
<1>3. BasketTypeOK' /\ FoundTyped' /\ TargetsChosen'
  BY <1>1, <1>2 DEF BasketTypeOK, FoundTyped, TargetsChosen
<1>4. IsFiniteSet(chosen) /\ Cardinality(chosen) \in Nat /\ WeightOf(chosen, weights) \in Nat
  <2>1. IsFiniteSet(chosen) /\ \A s \in chosen : weights[s] \in Nat
    BY <1>2, PartOfUniverse
  <2> QED BY <1>2, <2>1, PartOfUniverse, SumNatural DEF WeightOf
<1>5. /\ WeightOf(chosen, weights) + remaining = BasketPolicy.sleeve
      /\ 0 - Cardinality(chosen) <= 2 * remaining
      /\ \A s \in chosen : weights[s] <= StockCap
      /\ \A s \in chosen \ uncapped : weights[s] = StockCap
      /\ \A s, t \in chosen : Volatility[s] <= Volatility[t] => weights[s] >= weights[t]
  BY <1>2 DEF StillPours
<1>6. 2 * WeightOf(chosen, weights) <= 2 * BasketPolicy.sleeve + Cardinality(chosen)
  BY <1>2, <1>4, <1>5
<1>7. \/ \A s \in chosen : weights[s] = StockCap
      \/ 2 * WeightOf(chosen, weights) >= 2 * BasketPolicy.sleeve - Cardinality(chosen)
  <2>1. CASE remaining <= 0
    BY <1>2, <1>4, <1>5, <2>1, BasketCaps
  <2>2. CASE uncapped = {}
    BY <1>5, <2>2
  <2> QED BY <1>1, <2>1, <2>2
<1>8. SleeveIsPouredOut'
  BY <1>1, <1>5, <1>6, <1>7 DEF SleeveIsPouredOut
<1> QED BY <1>1, <1>3, <1>8 DEF BasketInv, HasTraded

(* A group above its cap is scaled to it; no weight rises.                  *)
LEMMA ScaledFacts ==
  ASSUME BasketInv, NEW groupOf, NEW cap \in Nat,
         NEW after,
         after = [s \in Universe |-> IF s \in chosen THEN Scaled(s, groupOf, cap) ELSE 0]
  PROVE  /\ after \in [Universe -> Nat]
         /\ \A s \in Universe : after[s] <= weights[s]
         /\ \A s \in Universe : groupOf[s] # "none" =>
              WeightOf(GroupIn(s, groupOf), after)
                <= cap + Cardinality(GroupIn(s, groupOf))
<1>1. /\ chosen \subseteq Universe /\ weights \in [Universe -> Nat]
      /\ \A s \in Universe \ chosen : weights[s] = 0
  BY DEF BasketInv, BasketTypeOK, TargetsChosen
<1>2. ASSUME NEW s \in Universe
      PROVE  /\ GroupOf(s, groupOf) \in SUBSET Universe
             /\ IsFiniteSet(GroupOf(s, groupOf))
             /\ WeightOf(GroupOf(s, groupOf), weights) \in Nat
  <2>1. GroupOf(s, groupOf) \in SUBSET Universe
    BY <1>1 DEF GroupOf
  <2>2. IsFiniteSet(GroupOf(s, groupOf))
    BY <2>1, PartOfUniverse
  <2>3. \A t \in GroupOf(s, groupOf) : weights[t] \in Nat
    BY <1>1, <2>1
  <2> QED BY <2>1, <2>2, <2>3, SumNatural DEF WeightOf
<1>3. ASSUME NEW s \in Universe PROVE after[s] \in Nat /\ after[s] <= weights[s]
  <2> DEFINE total == WeightOf(GroupOf(s, groupOf), weights)
  <2>1. total \in Nat /\ weights[s] \in Nat
    BY <1>1, <1>2
  <2>2. CASE s \notin chosen
    BY <2>1, <2>2
  <2>3. CASE s \in chosen /\ (groupOf[s] = "none" \/ total <= cap)
    <3>1. after[s] = weights[s]
      BY <2>3 DEF Scaled
    <3> QED BY <2>1, <3>1
  <2>4. CASE s \in chosen /\ groupOf[s] # "none" /\ ~(total <= cap)
    <3>1. after[s] = RoundHalfEven(weights[s] * cap, total)
      BY <2>4 DEF Scaled
    <3> HIDE DEF total
    <3>2. total \in Nat \ {0} /\ cap <= total
      BY <2>1, <2>4
    <3> DEFINE n == weights[s] * cap
               w == weights[s]
    <3>3. n \in Nat /\ n <= w * total /\ w \in Nat
      <4>1. cap * w <= total * w
        BY <2>1, <3>2, TimesGrows
      <4> QED BY <2>1, <3>2, <4>1
    <3>4. -(w * total) <= n
      <4>1. w * total \in Nat
        BY <2>1, <3>2
      <4> QED BY <3>3, <4>1
    <3> HIDE DEF n, w
    <3>5. Nearest(n, total, after[s]) /\ after[s] \in Nat
      BY <3>1, <3>2, <3>3, HalfEvenIsNearest DEF n
    <3>6. after[s] \in -w..w
      BY <3>2, <3>3, <3>4, <3>5, NearestBounded
    <3> QED BY <3>3, <3>5, <3>6 DEF w
  <2> QED BY <2>2, <2>3, <2>4
<1>4. after \in [Universe -> Nat]
  BY <1>3
<1>5. ASSUME NEW s \in Universe, groupOf[s] # "none"
      PROVE  WeightOf(GroupIn(s, groupOf), after) <= cap + Cardinality(GroupIn(s, groupOf))
  <2> DEFINE A == GroupIn(s, groupOf)
             C == GroupOf(s, groupOf)
             total == WeightOf(C, weights)
  <2>1. /\ A \in SUBSET Universe /\ C \in SUBSET A /\ C \in SUBSET Universe
        /\ IsFiniteSet(A) /\ IsFiniteSet(C) /\ Cardinality(A) \in Nat /\ Cardinality(C) \in Nat
        /\ Cardinality(C) <= Cardinality(A)
    <3>1. A \in SUBSET Universe /\ C \in SUBSET A /\ C \in SUBSET Universe
      BY <1>1 DEF GroupIn, GroupOf
    <3> HIDE DEF A, C
    <3> QED BY <3>1, PartOfUniverse, FS_Subset
  <2>2. \A t \in C : t \in chosen /\ GroupOf(t, groupOf) = C /\ groupOf[t] # "none"
    BY <1>5 DEF GroupOf
  <2>3. total \in Nat
    BY <1>2
  <2>4. WeightOf(A, after) \in Int /\ WeightOf(C, after) \in Nat
        /\ WeightOf(A, after) <= WeightOf(C, after)
    <3>1. \A x \in A : after[x] <= 0 \/ (x \in C /\ after[x] <= after[x])
      <4> SUFFICES ASSUME NEW x \in A, x \notin C PROVE after[x] <= 0
        BY <1>3, <2>1
      <4>1. x \in Universe /\ x \notin chosen
        BY DEF GroupIn, GroupOf
      <4> QED BY <1>1, <1>3, <4>1
    <3>2. (\A x \in A : after[x] \in Int) /\ (\A x \in C : after[x] \in Nat)
      BY <1>3, <2>1
    <3> HIDE DEF A, C
    <3> QED BY <2>1, <3>1, <3>2, BasketAssumption, SumWithin DEF WeightOf
  <2>5. CASE total <= cap
    <3>1. \A t \in C : after[t] = weights[t] /\ after[t] \in Int
      BY <1>3, <2>1, <2>2, <2>5 DEF Scaled
    <3>2. WeightOf(C, after) = total
      <4> HIDE DEF C
      <4> QED BY <2>1, <3>1, SumAgrees DEF WeightOf
    <3> HIDE DEF A, C, total
    <3> QED BY <2>1, <2>3, <2>4, <2>5, <3>2 DEF A
  <2>6. CASE ~(total <= cap)
    <3>1. \A t \in C : after[t] = RoundHalfEven(cap * weights[t], SumOver(weights, C))
      <4> SUFFICES ASSUME NEW t \in C
                   PROVE  after[t] = RoundHalfEven(cap * weights[t], SumOver(weights, C))
        OBVIOUS
      <4>1. after[t] = RoundHalfEven(weights[t] * cap, total)
        BY <2>1, <2>2, <2>6 DEF Scaled
      <4>2. weights[t] * cap = cap * weights[t]
        BY <1>1, <2>1
      <4> QED BY <4>1, <4>2 DEF WeightOf
    <3>2. SumOver(weights, C) > 0 /\ \A t \in C : weights[t] \in Nat
      <4>1. total > 0
        BY <2>3, <2>6
      <4>2. \A t \in C : weights[t] \in Nat
        BY <1>1, <2>1
      <4> QED BY <4>1, <4>2 DEF WeightOf
    <3> HIDE DEF A, C, total
    <3>3. 2 * SumOver(after, C) <= 2 * cap + Cardinality(C)
      BY <2>1, <3>1, <3>2, PartsAddUp
    <3>4. 2 * WeightOf(C, after) <= 2 * cap + Cardinality(C)
      BY <3>3 DEF WeightOf
    <3> QED BY <2>1, <2>4, <3>4 DEF A
  <2> QED BY <2>5, <2>6
<1> QED BY <1>3, <1>4, <1>5

(* Weights that do not rise leave the groups within their caps.             *)
LEMMA SmallerStaysWithin ==
  ASSUME NEW groupOf, NEW cap \in Nat, weights \in [Universe -> Nat],
         WithinCap(groupOf, cap), NEW after \in [Universe -> Nat],
         \A s \in Universe : after[s] <= weights[s]
  PROVE  \A s \in Universe : groupOf[s] # "none" =>
           WeightOf(GroupIn(s, groupOf), after) <= cap + Cardinality(GroupIn(s, groupOf))
<1> SUFFICES ASSUME NEW s \in Universe, groupOf[s] # "none"
             PROVE  WeightOf(GroupIn(s, groupOf), after)
                      <= cap + Cardinality(GroupIn(s, groupOf))
  OBVIOUS
<1> DEFINE A == GroupIn(s, groupOf)
<1>1. WeightOf(A, weights) <= cap + Cardinality(A)
  BY DEF WithinCap
<1>2. A \in SUBSET Universe
  BY DEF GroupIn
<1> HIDE DEF A
<1>3. IsFiniteSet(A) /\ Cardinality(A) \in Nat
  BY <1>2, PartOfUniverse
<1>4. \A x \in A : after[x] \in Int /\ weights[x] \in Int /\ after[x] <= weights[x]
  BY <1>2
<1>5. /\ SumOver(after, A) \in Int /\ SumOver(weights, A) \in Int
      /\ SumOver(after, A) <= SumOver(weights, A)
  BY <1>3, <1>4, SumMonotone
<1>6. WeightOf(A, after) <= cap + Cardinality(A)
  BY <1>1, <1>3, <1>5 DEF WeightOf
<1> QED BY <1>6 DEF A

LEMMA CapGroupsKeeps ==
  ASSUME BasketInv, NEW groupOf, NEW cap \in Nat, NEW stage, NEW next,
         CapGroups(stage, next, groupOf, cap), next \in {"clusters", "tiny"}
  PROVE  /\ BasketTypeOK' /\ FoundTyped' /\ TargetsChosen'
         /\ weights' \in [Universe -> Nat]
         /\ \A s \in Universe : weights'[s] <= weights[s]
         /\ \A s \in Universe : groupOf[s] # "none" =>
              WeightOf(GroupIn(s, groupOf), weights')
                <= cap + Cardinality(GroupIn(s, groupOf))
<1>1. /\ weights' = [s \in Universe |-> IF s \in chosen THEN Scaled(s, groupOf, cap) ELSE 0]
      /\ basketStage' = next
      /\ UNCHANGED <<found, chosen, remaining, uncapped, lastMonth, trades>>
  BY DEF CapGroups
<1>2. /\ weights' \in [Universe -> Nat]
      /\ \A s \in Universe : weights'[s] <= weights[s]
      /\ \A s \in Universe : groupOf[s] # "none" =>
           WeightOf(GroupIn(s, groupOf), weights') <= cap + Cardinality(GroupIn(s, groupOf))
  BY <1>1, ScaledFacts
<1>3. BasketTypeOK /\ FoundTyped /\ TargetsChosen
  BY DEF BasketInv
<1>4. BasketTypeOK'
  BY <1>1, <1>2, <1>3 DEF BasketTypeOK
<1>5. FoundTyped'
  BY <1>1, <1>3 DEF FoundTyped
<1>6. TargetsChosen'
  BY <1>1, <1>3 DEF TargetsChosen
<1> QED BY <1>2, <1>4, <1>5, <1>6

LEMMA CapSectorsKeeps ==
  ASSUME BasketInv, CapSectors
  PROVE  BasketInv'
<1>1. /\ BasketTypeOK' /\ FoundTyped' /\ TargetsChosen'
      /\ \A s \in Universe : BasketSector[s] # "none" =>
           WeightOf(GroupIn(s, BasketSector), weights')
             <= BasketPolicy.sectorCap + Cardinality(GroupIn(s, BasketSector))
  BY CapGroupsKeeps, BasketCaps DEF CapSectors
<1>2. SectorsWithin'
  BY <1>1 DEF SectorsWithin, WithinCap, GroupIn
<1>3. basketStage' = "clusters"
  BY DEF CapSectors, CapGroups
<1> QED BY <1>1, <1>2, <1>3 DEF BasketInv, SleeveIsPouredOut, HasTraded

LEMMA CapClustersKeeps ==
  ASSUME BasketInv, CapClusters
  PROVE  BasketInv'
<1>1. /\ BasketTypeOK' /\ FoundTyped' /\ TargetsChosen'
      /\ weights' \in [Universe -> Nat]
      /\ \A s \in Universe : weights'[s] <= weights[s]
      /\ \A s \in Universe : BasketCluster[s] # "none" =>
           WeightOf(GroupIn(s, BasketCluster), weights')
             <= BasketPolicy.clusterCap + Cardinality(GroupIn(s, BasketCluster))
  BY CapGroupsKeeps, BasketCaps DEF CapClusters
<1>2. ClustersWithin'
  BY <1>1 DEF ClustersWithin, WithinCap, GroupIn
<1>3. basketStage = "clusters" /\ basketStage' = "tiny"
  BY DEF CapClusters, CapGroups
<1>4. SectorsWithin /\ weights \in [Universe -> Nat]
  BY <1>3 DEF BasketInv, BasketTypeOK
<1>5. \A s \in Universe : BasketSector[s] # "none" =>
        WeightOf(GroupIn(s, BasketSector), weights')
          <= BasketPolicy.sectorCap + Cardinality(GroupIn(s, BasketSector))
  BY <1>1, <1>4, BasketCaps, SmallerStaysWithin DEF SectorsWithin
<1>6. SectorsWithin'
  BY <1>5 DEF SectorsWithin, WithinCap, GroupIn
<1> QED BY <1>1, <1>2, <1>3, <1>6 DEF BasketInv, SleeveIsPouredOut, HasTraded

LEMMA DropTinyKeeps ==
  ASSUME BasketInv, DropTinyTargets
  PROVE  BasketInv'
<1>1. /\ basketStage = "tiny" /\ basketStage' = "decide"
      /\ chosen' \subseteq chosen
      /\ weights' = [s \in Universe |-> IF s \in chosen' THEN weights[s] ELSE 0]
      /\ UNCHANGED <<found, remaining, uncapped, lastMonth, trades>>
  BY DEF DropTinyTargets
<1>2. /\ BasketTypeOK /\ FoundTyped /\ TargetsChosen /\ SectorsWithin /\ ClustersWithin
      /\ weights \in [Universe -> Nat] /\ chosen \subseteq Universe
  BY <1>1 DEF BasketInv, BasketTypeOK
<1>3. weights' \in [Universe -> Nat] /\ \A s \in Universe : weights'[s] <= weights[s]
  BY <1>1, <1>2
<1>4. \A s \in Universe : BasketSector[s] # "none" =>
        WeightOf(GroupIn(s, BasketSector), weights')
          <= BasketPolicy.sectorCap + Cardinality(GroupIn(s, BasketSector))
  BY <1>2, <1>3, BasketCaps, SmallerStaysWithin DEF SectorsWithin
<1>5. \A s \in Universe : BasketCluster[s] # "none" =>
        WeightOf(GroupIn(s, BasketCluster), weights')
          <= BasketPolicy.clusterCap + Cardinality(GroupIn(s, BasketCluster))
  BY <1>2, <1>3, BasketCaps, SmallerStaysWithin DEF ClustersWithin
<1>6. SectorsWithin' /\ ClustersWithin'
  BY <1>4, <1>5 DEF SectorsWithin, ClustersWithin, WithinCap, GroupIn
<1>7. BasketTypeOK' /\ FoundTyped' /\ TargetsChosen'
  BY <1>1, <1>2, <1>3 DEF BasketTypeOK, FoundTyped, TargetsChosen
<1> QED BY <1>1, <1>6, <1>7 DEF BasketInv, SleeveIsPouredOut, HasTraded

(* A target that is not traded differs by less than the smallest trade.     *)
LEMMA UntradedIsSmall ==
  ASSUME NEW nav \in Nat \ {0}, NEW amount \in Nat, NEW n \in Nat, nav * n < amount
  PROVE  n <= amount \div nav
<1> DEFINE q == amount \div nav
           r == amount % nav
<1>1. q \in Nat /\ r \in Nat /\ amount = nav * q + r /\ r < nav
  OBVIOUS
<1> HIDE DEF q, r
<1>2. SUFFICES ASSUME q + 1 <= n PROVE FALSE
  BY <1>1 DEF q
<1>3. (q + 1) * nav <= n * nav
  BY <1>1, <1>2, TimesGrows
<1>4. (q + 1) * nav = nav * q + nav /\ n * nav = nav * n
  BY <1>1
<1>5. nav * q \in Nat /\ nav * n \in Nat
  BY <1>1
<1> QED BY <1>1, <1>3, <1>4, <1>5

LEMMA DecideTradesKeeps ==
  ASSUME BasketInv, DecideTrades
  PROVE  BasketInv'
<1> DEFINE drift(s) == weights[s] - found.held[s]
<1>1. /\ basketStage = "decide" /\ basketStage' = "idle"
      /\ trades' = [s \in Universe |->
                      IF GateOpens /\ s \in ReviewedStocks /\ ~BelowMinimum(Magnitude(drift(s)))
                      THEN drift(s) ELSE 0]
      /\ lastMonth' = IF GateOpens THEN found.month ELSE lastMonth
      /\ UNCHANGED <<found, chosen, weights, remaining, uncapped>>
  BY DEF DecideTrades
<1>2. /\ BasketTypeOK /\ FoundTyped /\ TargetsChosen /\ SectorsWithin /\ ClustersWithin
      /\ weights \in [Universe -> Nat] /\ chosen \subseteq Universe /\ lastMonth \in Nat
      /\ found.held \in [Universe -> Nat] /\ found.nav \in Nat \ {0} /\ found.month \in Nat
  BY <1>1 DEF BasketInv, BasketTypeOK, FoundTyped
<1>3. \A s \in Universe : drift(s) \in Int
  BY <1>2
<1>4. BasketTypeOK' /\ FoundTyped' /\ TargetsChosen'
  <2>1. trades' \in [Universe -> Int] /\ lastMonth' \in Nat
    <3> HIDE DEF drift
    <3> QED BY <1>1, <1>2, <1>3
  <2> QED BY <1>1, <1>2, <2>1 DEF BasketTypeOK, FoundTyped, TargetsChosen
<1>5. SectorsWithin' /\ ClustersWithin'
  BY <1>1, <1>2 DEF SectorsWithin, ClustersWithin, WithinCap, GroupIn
<1>6. ASSUME HasTraded' PROVE TradesReachTargets'
  <2>1. GateOpens
    BY <1>1, <1>6 DEF HasTraded
  <2>2. UntradedWeight \in Nat /\ UntradedWeight' = UntradedWeight
    <3> DEFINE amount == BasketPolicy.minNotional * Whole
    <3>1. amount \in Nat
      BY BasketCaps
    <3> HIDE DEF amount
    <3>2. amount \div found.nav \in Nat
      BY <1>2, <3>1
    <3> QED BY <1>1, <3>2 DEF UntradedWeight, amount
  <2> SUFFICES ASSUME NEW s \in Universe
               PROVE  found.held[s] + trades'[s] <= weights[s] + UntradedWeight
    BY <1>1, <2>2 DEF TradesReachTargets
  <2>3. weights[s] \in Nat /\ found.held[s] \in Nat
    BY <1>2
  <2>4. CASE s \notin ReviewedStocks
    <3>1. found.held[s] = 0 /\ trades'[s] = 0
      BY <1>1, <2>3, <2>4 DEF ReviewedStocks
    <3> QED BY <2>2, <2>3, <3>1
  <2>5. CASE s \in ReviewedStocks /\ ~BelowMinimum(Magnitude(drift(s)))
    <3>1. trades'[s] = weights[s] - found.held[s]
      BY <1>1, <2>1, <2>5
    <3> QED BY <2>2, <2>3, <3>1
  <2>6. CASE s \in ReviewedStocks /\ BelowMinimum(Magnitude(drift(s)))
    <3> DEFINE n == Magnitude(weights[s] - found.held[s])
    <3>1. trades'[s] = 0
      BY <1>1, <2>6
    <3>2. n \in Nat /\ found.held[s] - weights[s] <= n
      BY <2>3 DEF Magnitude
    <3>3. found.nav * n < BasketPolicy.minNotional * Whole
      BY <2>6 DEF BelowMinimum
    <3> HIDE DEF n
    <3>4. n <= UntradedWeight
      <4> DEFINE amount == BasketPolicy.minNotional * Whole
      <4>1. amount \in Nat /\ found.nav * n < amount
        BY <3>3, BasketCaps
      <4> HIDE DEF amount
      <4>2. n <= amount \div found.nav
        BY <1>2, <3>2, <4>1, UntradedIsSmall
      <4> QED BY <4>2 DEF UntradedWeight, amount
    <3> QED BY <2>2, <2>3, <3>1, <3>2, <3>4
  <2> QED BY <2>4, <2>5, <2>6
<1> QED BY <1>1, <1>4, <1>5, <1>6 DEF BasketInv, SleeveIsPouredOut

LEMMA BasketInvStep == BasketInv /\ [BasketNext]_basketVars => BasketInv'
<1> SUFFICES ASSUME BasketInv, [BasketNext]_basketVars PROVE BasketInv'
  OBVIOUS
<1>1. ASSUME NEW in \in BasketInputs, BeginReview(in) PROVE BasketInv'
  BY <1>1, BeginReviewKeeps
<1>2. CASE PourRound
  BY <1>2, PourRoundKeeps
<1>3. CASE StopPouring
  BY <1>3, StopPouringKeeps
<1>4. CASE CapSectors
  BY <1>4, CapSectorsKeeps
<1>5. CASE CapClusters
  BY <1>5, CapClustersKeeps
<1>6. CASE DropTinyTargets
  BY <1>6, DropTinyKeeps
<1>7. CASE DecideTrades
  BY <1>7, DecideTradesKeeps
<1>8. CASE UNCHANGED basketVars
  BY <1>8 DEF basketVars, BasketInv, BasketTypeOK, FoundTyped, TargetsChosen, StillPours,
              RoomLeft, SleeveIsPouredOut, SectorsWithin, ClustersWithin, WithinCap, GroupIn,
              HasTraded, TradesReachTargets, UntradedWeight
<1> QED BY <1>1, <1>2, <1>3, <1>4, <1>5, <1>6, <1>7, <1>8 DEF BasketNext

(* The trades bring the groups within their caps, since the targets are and *)
(* the trades lead to them.                                                 *)
LEMMA InvKeepsShape == BasketInv => BasketKeepsItsShape
<1> SUFFICES ASSUME BasketInv PROVE TradesRestoreCaps
  BY DEF BasketInv, BasketKeepsItsShape
<1> DEFINE after == [t \in Universe |-> found.held[t] + trades[t]]
           slack == [t \in Universe |-> 1 + (BasketPolicy.minNotional * Whole) \div found.nav]
<1>1. ASSUME HasTraded, NEW groupOf, NEW cap \in Nat, WithinCap(groupOf, cap),
             NEW s \in Universe, groupOf[s] # "none"
      PROVE  WeightOf(GroupIn(s, groupOf), after)
               <= cap + WeightOf(GroupIn(s, groupOf), slack)
  <2> DEFINE A == GroupIn(s, groupOf)
             u == UntradedWeight
             target == [t \in A |-> weights[t] + u]
             extra == [t \in A |-> u]
  <2>1. /\ weights \in [Universe -> Nat] /\ trades \in [Universe -> Int]
        /\ found.held \in [Universe -> Nat] /\ found.nav \in Nat \ {0}
        /\ TradesReachTargets
    BY <1>1 DEF BasketInv, BasketTypeOK, FoundTyped
  <2>2. u \in Nat
    <3> DEFINE amount == BasketPolicy.minNotional * Whole
    <3>1. amount \in Nat
      BY BasketCaps
    <3> HIDE DEF amount
    <3>2. amount \div found.nav \in Nat
      BY <2>1, <3>1
    <3> QED BY <3>2 DEF UntradedWeight, amount
  <2>3. WeightOf(A, weights) <= cap + Cardinality(A)
    BY <1>1 DEF WithinCap
  <2>4. A \in SUBSET Universe
    BY DEF GroupIn
  <2>5. \A t \in Universe : after[t] = found.held[t] + trades[t] /\ slack[t] = 1 + u
    BY DEF UntradedWeight
  <2> HIDE DEF A, after, slack, u
  <2>6. IsFiniteSet(A) /\ Cardinality(A) \in Nat
    BY <2>4, PartOfUniverse
  <2>7. \A t \in A : /\ weights[t] \in Int /\ extra[t] \in Int
                     /\ extra[t] = u /\ target[t] = weights[t] + extra[t]
    BY <2>1, <2>2, <2>4
  <2>8. \A t \in A : after[t] \in Int /\ target[t] \in Int /\ after[t] <= target[t]
    <3> SUFFICES ASSUME NEW t \in A
                 PROVE  after[t] \in Int /\ target[t] \in Int /\ after[t] <= target[t]
      OBVIOUS
    <3>1. /\ t \in Universe /\ weights[t] \in Nat /\ found.held[t] \in Nat /\ trades[t] \in Int
          /\ after[t] = found.held[t] + trades[t] /\ target[t] = weights[t] + u
      BY <2>1, <2>4, <2>5
    <3>2. found.held[t] + trades[t] <= weights[t] + u
      BY <2>1, <3>1 DEF TradesReachTargets, u
    <3> HIDE DEF target
    <3> QED BY <2>2, <3>1, <3>2
  <2> HIDE DEF target, extra
  <2>9. SumOver(target, A) = SumOver(weights, A) + SumOver(extra, A)
    BY <2>6, <2>7, SumAdds
  <2>10. SumOver(extra, A) = u * Cardinality(A)
    BY <2>2, <2>6, <2>7, SumConstant
  <2>11. /\ SumOver(after, A) \in Int /\ SumOver(target, A) \in Int
         /\ SumOver(after, A) <= SumOver(target, A)
    BY <2>6, <2>8, SumMonotone
  <2>12. SumOver(slack, A) = (1 + u) * Cardinality(A)
    <3>1. 1 + u \in Int /\ \A t \in A : slack[t] = 1 + u
      BY <2>2, <2>4, <2>5
    <3> QED BY <2>6, <3>1, SumConstant
  <2>13. SumOver(weights, A) \in Int
    BY <2>6, <2>7, SumMonotone
  <2>14. (1 + u) * Cardinality(A) = Cardinality(A) + u * Cardinality(A)
         /\ u * Cardinality(A) \in Int
    BY <2>2, <2>6
  <2>15. SumOver(after, A) <= cap + SumOver(slack, A)
    BY <2>3, <2>6, <2>9, <2>10, <2>11, <2>12, <2>13, <2>14 DEF WeightOf
  <2> QED BY <2>15 DEF A, WeightOf
<1>2. ASSUME basketStage = "idle", \E s \in Universe : trades[s] # 0,
             NEW groupOf \in {BasketSector, BasketCluster}, NEW s \in Universe,
             groupOf[s] # "none"
      PROVE  WeightOf({t \in Universe : groupOf[t] = groupOf[s]}, after)
               <= (IF groupOf = BasketSector THEN BasketPolicy.sectorCap
                   ELSE BasketPolicy.clusterCap)
                  + WeightOf({t \in Universe : groupOf[t] = groupOf[s]}, slack)
  <2>1. HasTraded /\ SectorsWithin /\ ClustersWithin
    BY <1>2 DEF HasTraded, BasketInv
  <2>2. GroupIn(s, groupOf) = {t \in Universe : groupOf[t] = groupOf[s]}
    BY DEF GroupIn
  <2> HIDE DEF after, slack
  <2>3. CASE groupOf = BasketSector
    <3>1. WithinCap(groupOf, BasketPolicy.sectorCap) /\ BasketPolicy.sectorCap \in Nat
      BY <2>1, <2>3, BasketCaps DEF SectorsWithin
    <3>2. WeightOf(GroupIn(s, groupOf), after)
            <= BasketPolicy.sectorCap + WeightOf(GroupIn(s, groupOf), slack)
      BY <1>1, <1>2, <2>1, <3>1
    <3> QED BY <2>2, <2>3, <3>2
  <2>4. CASE groupOf # BasketSector
    <3>1. groupOf = BasketCluster
      BY <2>4
    <3>2. WithinCap(groupOf, BasketPolicy.clusterCap) /\ BasketPolicy.clusterCap \in Nat
      BY <2>1, <3>1, BasketCaps DEF ClustersWithin
    <3>3. WeightOf(GroupIn(s, groupOf), after)
            <= BasketPolicy.clusterCap + WeightOf(GroupIn(s, groupOf), slack)
      BY <1>1, <1>2, <2>1, <3>2
    <3> QED BY <2>2, <2>4, <3>3
  <2> QED BY <2>3, <2>4
<1> HIDE DEF after, slack
<1>3. SUFFICES ASSUME basketStage = "idle", \E s \in Universe : trades[s] # 0,
                      NEW groupOf \in {BasketSector, BasketCluster}, NEW s \in Universe,
                      groupOf[s] # "none"
      PROVE  WeightOf({t \in Universe : groupOf[t] = groupOf[s]}, after)
               <= (IF groupOf = BasketSector THEN BasketPolicy.sectorCap
                   ELSE BasketPolicy.clusterCap)
                  + WeightOf({t \in Universe : groupOf[t] = groupOf[s]}, slack)
  BY DEF TradesRestoreCaps, after, slack
<1> QED BY <1>2, <1>3

(* A review of the core basket (core_shariah_basket.py) pours its sleeve    *)
(* out within the caps of the stocks, and trades back inside the caps of    *)
(* sectors and clusters, for every universe, graph, policy and finding.     *)
THEOREM BasketStaysInShape == BasketSpec => []BasketKeepsItsShape
<1>1. BasketInit => BasketInv
  BY BasketInvInit
<1>2. BasketInv /\ [BasketNext]_basketVars => BasketInv'
  BY BasketInvStep
<1>3. BasketInv => BasketKeepsItsShape
  BY InvKeepsShape
<1> QED BY <1>1, <1>2, <1>3, PTL DEF BasketSpec
-----------------------------------------------------------------------------
(* Types, decider by decider.                                               *)

(* Scores stay within minus one and one and targets are shares, whatever    *)
(* the analysts find, the model answers and the portfolio holds.            *)
THEOREM ResearchTyped == ResearchSpec => []ResearchTypeOK
<1>1. ResearchInit => ResearchInv
  BY ResearchInvInit
<1>2. ResearchInv /\ [ResearchNext]_researchVars => ResearchInv'
  BY ResearchInvStep
<1>3. ResearchInv => ResearchTypeOK
  <2> SUFFICES ASSUME ResearchInv PROVE ResearchTypeOK
    OBVIOUS
  <2>1. proposal.target \in Nat
    BY DEF ResearchInv, ProposalSound, Sensible, NoProposal
  <2>2. DOMAIN reports \subseteq Analysts /\ \A a \in DOMAIN reports : ValidScore(reports[a].score)
    BY DEF ResearchInv, SoundReports, GoodReport
  <2>3. ValidScore(bull) /\ ValidScore(consensus) /\ ValidScore(bear) /\ bear <= 0
    BY DEF ResearchInv, SoundScores, IsScore
  <2> QED BY <2>1, <2>2, <2>3, Zenon DEF ResearchInv, Turns, ResearchTypeOK
<1> QED BY <1>1, <1>2, <1>3, PTL DEF ResearchSpec

(* The status of a review and of a decision is one of those the service     *)
(* stores.                                                                  *)
ReviewStatuses == {"none", "APPROVED", "APPROVED_WITH_REDUCTION", "REJECTED", "BLOCKED"}
FinalStatuses == {"none", "APPROVED_FOR_PAPER", "NO_ACTION", "REJECTED", "BLOCKED"}
StatusesKnown ==
  \A s \in Names : review[s].status \in ReviewStatuses /\ decision[s].status \in FinalStatuses

LEMMA StatusesStep ==
  ASSUME DOMAIN review = Names, DOMAIN decision = Names, StatusesKnown, [RiskNext]_riskVars
  PROVE  StatusesKnown'
<1>1. \A s \in Names : ReviewOf(s).status \in ReviewStatuses
  BY Zenon DEF ReviewOf, ReviewStatuses
<1>2. \A s \in Names : DecisionOf(s).status \in FinalStatuses
  BY DEF DecisionOf, FinalStatuses, NoDecision
<1>3. CASE \E in \in RunInputs : StartApproval(in)
  BY <1>3 DEF StartApproval, StatusesKnown, ReviewStatuses, FinalStatuses, NoReview, NoDecision
<1>4. CASE ReviewRisk
  <2>1. PICK s \in Names : review' = [review EXCEPT ![s] = ReviewOf(s)]
    BY <1>4 DEF ReviewRisk
  <2>2. decision' = decision
    BY <1>4 DEF ReviewRisk
  <2>3. \A t \in Names : review'[t] = IF t = s THEN ReviewOf(s) ELSE review[t]
    BY <2>1
  <2> QED BY <1>1, <2>2, <2>3 DEF StatusesKnown
<1>5. CASE DecideFinally
  <2>1. PICK s \in Names : decision' = [decision EXCEPT ![s] = DecisionOf(s)]
    BY <1>5 DEF DecideFinally, UnderReview
  <2>2. review' = review
    BY <1>5 DEF DecideFinally
  <2>3. \A t \in Names : decision'[t] = IF t = s THEN DecisionOf(s) ELSE decision[t]
    BY <2>1
  <2> QED BY <1>2, <2>2, <2>3 DEF StatusesKnown
<1>6. CASE MonitorSells \/ ExecuteDecisions \/ UNCHANGED riskVars
  <2>1. review' = review /\ decision' = decision
    BY <1>6 DEF MonitorSells, ExecuteDecisions, riskVars
  <2> QED BY <2>1 DEF StatusesKnown
<1> QED BY <1>3, <1>4, <1>5, <1>6 DEF RiskNext

(* Positions and cash are never negative, and reviews and decisions are     *)
(* ones the services know, whenever the monitor sells.                      *)
THEOREM RiskTyped == RiskSpec => []RiskTypeOK
<1> DEFINE Inv == RiskInv /\ StatusesKnown
<1>1. RiskInit => Inv
  <2>1. RiskInit => StatusesKnown
    BY DEF RiskInit, StatusesKnown, ReviewStatuses, FinalStatuses, NoReview, NoDecision
  <2> QED BY <2>1, RiskInvInit
<1>2. Inv /\ [RiskNext]_riskVars => Inv'
  BY RiskInvStep, StatusesStep DEF RiskInv
<1>3. Inv => RiskTypeOK
  BY DEF RiskInv, PortfolioTyped, InputTyped, ReviewFine, FinalFine, StatusesKnown,
         ReviewStatuses, FinalStatuses, RiskTypeOK
<1> QED BY <1>1, <1>2, <1>3, PTL DEF RiskSpec

(* Weights are never negative and are of stocks of the universe.            *)
THEOREM BasketTyped == BasketSpec => []BasketTypeOK
<1>1. BasketInit => BasketInv
  BY BasketInvInit
<1>2. BasketInv /\ [BasketNext]_basketVars => BasketInv'
  BY BasketInvStep
<1>3. BasketInv => BasketTypeOK
  BY DEF BasketInv
<1> QED BY <1>1, <1>2, <1>3, PTL DEF BasketSpec

-----------------------------------------------------------------------------
(* Those who decide side by side: none touches the state of another, so     *)
(* each behaves as it does on its own.                                      *)
LEMMA DecidersApart ==
  DecisionsSpec => /\ AllocationSpec /\ BasketSpec /\ RiskSpec /\ ResearchSpec
                   /\ BacktestInit /\ [][BacktestNext]_backtestVars
<1>1. DecisionsInit => AllocationInit /\ BasketInit /\ RiskInit /\ ResearchInit /\ BacktestInit
  BY DEF DecisionsInit
<1>2. [DecisionsNext]_decisionsVars => [AllocationNext]_allocationVars
  BY DEF DecisionsNext, decisionsVars
<1>3. [DecisionsNext]_decisionsVars => [BasketNext]_basketVars
  BY DEF DecisionsNext, decisionsVars
<1>4. [DecisionsNext]_decisionsVars => [RiskNext]_riskVars
  BY DEF DecisionsNext, decisionsVars
<1>5. [DecisionsNext]_decisionsVars => [ResearchNext]_researchVars
  BY DEF DecisionsNext, decisionsVars
<1>6. [DecisionsNext]_decisionsVars => [BacktestNext]_backtestVars
  BY DEF DecisionsNext, decisionsVars
<1> QED BY <1>1, <1>2, <1>3, <1>4, <1>5, <1>6, PTL
        DEF DecisionsSpec, AllocationSpec, BasketSpec, RiskSpec, ResearchSpec

(* Every variable of every decider has its type in every reachable state,   *)
(* for any portfolios, policies, answers of the model and markets.          *)
THEOREM DecisionsTyped == DecisionsSpec => []DecisionsTypeOK
<1>1. /\ AllocationTypeOK /\ BasketTypeOK /\ RiskTypeOK /\ ResearchTypeOK /\ BacktestTypeOK
      => DecisionsTypeOK
  BY DEF DecisionsTypeOK
<1> QED BY <1>1, DecidersApart, AllocationTyped, BasketTyped, RiskTyped, ResearchTyped,
           BooksTyped, PTL

(* And what was proved of each decider alone holds of all of them at work.  *)
THEOREM DecidersKeepTheirRules ==
  ASSUME SharesResolved, ReserveWithinBuffer, NoSliver
  PROVE  DecisionsSpec => [](/\ PlanIsFunded /\ EntryCapsKept /\ ExecutionFollowsAllocation
                             /\ BasketKeepsItsShape /\ ApprovalsFollowLimits
                             /\ ModelStaysWithinRules /\ TargetsAndReportStand)
<1>1. AllocationSpec => []ExecutionFollowsAllocation
  BY ExecutionFollows
<1>2. AllocationSpec => []PlanIsFunded
  BY PlansArePaid
<1>3. ResearchSpec => []ModelStaysWithinRules
  BY RulesKeepTheLastWord
<1> QED BY <1>1, <1>2, <1>3, DecidersApart, EntryCaps, BasketStaysInShape, LimitsHold,
           BooksHonest, PTL
=============================================================================
