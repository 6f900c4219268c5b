-------------------------- MODULE RunAllocationProofs --------------------------
(***************************************************************************)
(* Proofs about a run from its proposals to its queued orders, for every   *)
(* input, price, policy and number of BUYs.                                *)
(***************************************************************************)
EXTENDS RunAllocationProperties, NumberFacts, SequenceTheorems

-----------------------------------------------------------------------------
(* The least and the greatest of finitely many numbers.                     *)

LEMMA GreatestOf ==
  ASSUME NEW S \in SUBSET Int, IsFiniteSet(S), S # {}
  PROVE  Max(S) \in S /\ \A y \in S : y <= Max(S)
<1> DEFINE id == [x \in S |-> x]
<1>1. \A x \in S : id[x] = x /\ id[x] \in Int
  OBVIOUS
<1> HIDE DEF id
<1>2. PICK x \in S : \A y \in S : id[y] <= id[x]
  BY <1>1, GreatestOfFinite
<1>3. x \in S /\ \A y \in S : x >= y
  BY <1>1, <1>2
<1>4. Max(S) \in S /\ \A y \in S : Max(S) >= y
  BY <1>3 DEF Max
<1> QED BY <1>4

LEMMA LeastOf ==
  ASSUME NEW S \in SUBSET Int, IsFiniteSet(S), S # {}
  PROVE  Min(S) \in S /\ \A y \in S : Min(S) <= y
<1> DEFINE neg == [x \in S |-> 0 - x]
<1>1. \A x \in S : neg[x] = 0 - x /\ neg[x] \in Int
  OBVIOUS
<1> HIDE DEF neg
<1>2. PICK x \in S : \A y \in S : neg[y] <= neg[x]
  BY <1>1, GreatestOfFinite
<1>3. x \in S /\ \A y \in S : x <= y
  BY <1>1, <1>2
<1>4. Min(S) \in S /\ \A y \in S : Min(S) <= y
  BY <1>3 DEF Min
<1> QED BY <1>4

LEMMA MinOfThree ==
  ASSUME NEW a \in Int, NEW b \in Int, NEW c \in Int
  PROVE  /\ Min({a, b, c}) \in {a, b, c}
         /\ Min({a, b, c}) <= a /\ Min({a, b, c}) <= b /\ Min({a, b, c}) <= c
<1>1. IsFiniteSet({a, b, c})
  <2>1. IsFiniteSet({a}) /\ IsFiniteSet({b}) /\ IsFiniteSet({c})
    BY FS_Singleton
  <2>2. IsFiniteSet({a} \cup {b} \cup {c})
    BY <2>1, FS_Union
  <2>3. {a} \cup {b} \cup {c} = {a, b, c}
    OBVIOUS
  <2> QED BY <2>2, <2>3
<1>2. {a, b, c} \in SUBSET Int /\ {a, b, c} # {}
  OBVIOUS
<1> QED BY <1>1, <1>2, LeastOf

LEMMA MinOfTwo ==
  ASSUME NEW a \in Int, NEW b \in Int
  PROVE  Min({a, b}) = IF a <= b THEN a ELSE b
<1>1. {a, b} = {a, b, b}
  OBVIOUS
<1> QED BY <1>1, MinOfThree

LEMMA MaxOfTwo ==
  ASSUME NEW a \in Int, NEW b \in Int
  PROVE  Max({a, b}) = IF a <= b THEN b ELSE a
<1>1. IsFiniteSet({a, b})
  <2>1. IsFiniteSet({a}) /\ IsFiniteSet({b}) /\ {a} \cup {b} = {a, b}
    BY FS_Singleton
  <2> QED BY <2>1, FS_Union
<1>2. {a, b} \in SUBSET Int /\ {a, b} # {}
  OBVIOUS
<1>3. Max({a, b}) \in {a, b} /\ \A y \in {a, b} : y <= Max({a, b})
  BY <1>1, <1>2, GreatestOf
<1> QED BY <1>3

LEMMA AboveZero ==
  ASSUME NEW n \in Int
  PROVE  Above0(n) = (IF n > 0 THEN n ELSE 0) /\ Above0(n) \in Nat
BY MaxOfTwo DEF Above0

-----------------------------------------------------------------------------
(* Sorting by keys.                                                         *)

(* The keys put S into one order. *)
Ordered(S, key) ==
  /\ \A x \in S : ~LexLess(key[x], key[x])
  /\ \A x, y \in S : x # y => LexLess(key[x], key[y]) \/ LexLess(key[y], key[x])
  /\ \A x, y, z \in S :
       LexLess(key[x], key[y]) /\ LexLess(key[y], key[z]) => LexLess(key[x], key[z])

LEMMA KeysOrder ==
  ASSUME NEW S, NEW key, NEW n \in Nat,
         \A x \in S : key[x] \in Seq(Int) /\ Len(key[x]) = n,
         \A x, y \in S : key[x] = key[y] => x = y
  PROVE  Ordered(S, key)
<1>1. ASSUME NEW x \in S
      PROVE  DOMAIN key[x] = 1..n /\ \A i \in 1..n : key[x][i] \in Int
  BY LenProperties, ElementOfSeq
<1>2. ASSUME NEW x \in S PROVE ~LexLess(key[x], key[x])
  BY <1>1 DEF LexLess
<1>3. ASSUME NEW x \in S, NEW y \in S, x # y
      PROVE  LexLess(key[x], key[y]) \/ LexLess(key[y], key[x])
  <2> DEFINE apart == {i \in 1..n : key[x][i] # key[y][i]}
  <2>1. apart # {}
    <3> SUFFICES ASSUME \A i \in 1..n : key[x][i] = key[y][i] PROVE key[x] = key[y]
      BY <1>3
    <3> QED BY SeqEqual
  <2>2. apart \in SUBSET Int /\ IsFiniteSet(apart)
    <3>1. IsFiniteSet(1..n) /\ apart \in SUBSET (1..n)
      BY FS_Interval
    <3> QED BY <3>1, FS_Subset
  <2>3. Min(apart) \in apart /\ \A i \in apart : Min(apart) <= i
    <3> HIDE DEF apart
    <3> QED BY <2>1, <2>2, LeastOf
  <2> DEFINE m == Min(apart)
  <2> HIDE DEF m
  <2>7. m \in apart /\ \A i \in apart : m <= i
    BY <2>3 DEF m
  <2>4. /\ m \in 1..n /\ key[x][m] # key[y][m]
        /\ \A i \in 1..n : i < m => key[x][i] = key[y][i]
    BY <2>7
  <2>5. CASE key[x][m] < key[y][m]
    BY <1>1, <2>4, <2>5 DEF LexLess
  <2>6. CASE key[y][m] < key[x][m]
    BY <1>1, <2>4, <2>6 DEF LexLess
  <2> QED BY <1>1, <2>4, <2>5, <2>6
<1>4. ASSUME NEW x \in S, NEW y \in S, NEW z \in S,
             LexLess(key[x], key[y]), LexLess(key[y], key[z])
      PROVE  LexLess(key[x], key[z])
  <2>1. PICK i \in 1..n : key[x][i] < key[y][i] /\ \A j \in 1..(i - 1) : key[x][j] = key[y][j]
    BY <1>1, <1>4 DEF LexLess
  <2>2. PICK k \in 1..n : key[y][k] < key[z][k] /\ \A j \in 1..(k - 1) : key[y][j] = key[z][j]
    BY <1>1, <1>4 DEF LexLess
  <2> DEFINE m == IF i <= k THEN i ELSE k
  <2>3. m \in 1..n /\ key[x][m] < key[z][m]
    <3>1. key[x][m] \in Int /\ key[y][m] \in Int /\ key[z][m] \in Int
      BY <1>1
    <3>2. CASE i < k
      <4>1. m = i /\ i \in 1..(k - 1)
        BY <3>2
      <4> QED BY <2>1, <2>2, <3>1, <4>1
    <3>3. CASE k < i
      <4>1. m = k /\ k \in 1..(i - 1)
        BY <3>3
      <4> QED BY <2>1, <2>2, <3>1, <4>1
    <3>4. CASE i = k
      <4>1. m = k /\ m = i
        BY <3>4
      <4> HIDE DEF m
      <4> QED BY <2>1, <2>2, <3>1, <4>1
    <3> QED BY <3>2, <3>3, <3>4
  <2>4. \A j \in 1..(m - 1) : key[x][j] = key[z][j]
    <3> SUFFICES ASSUME NEW j \in 1..(m - 1) PROVE key[x][j] = key[z][j]
      OBVIOUS
    <3>1. j \in 1..(i - 1) /\ j \in 1..(k - 1)
      OBVIOUS
    <3> QED BY <2>1, <2>2, <3>1
  <2> HIDE DEF m
  <2> QED BY <1>1, <2>3, <2>4 DEF LexLess
<1> QED BY <1>2, <1>3, <1>4 DEF Ordered

LEMMA LastInOrder ==
  ASSUME NEW S, IsFiniteSet(S), S # {}, NEW key, Ordered(S, key)
  PROVE  \E m \in S : \A y \in S \ {m} : LexLess(key[y], key[m])
<1> DEFINE Ends(A) == \E m \in A : \A y \in A \ {m} : LexLess(key[y], key[m])
           G == {A \in SUBSET S : A # {} => Ends(A)}
<1>1. {} \in G /\ G \in SUBSET (SUBSET S)
  OBVIOUS
<1>2. ASSUME NEW s \in SUBSET S, s # {}, \A x \in s : s \ {x} \in G
      PROVE  s \in G
  <2>1. PICK w \in s : TRUE
    BY <1>2
  <2>2. CASE s \ {w} = {}
    <3>1. Ends(s)
      BY <2>1, <2>2
    <3> QED BY <3>1
  <2>3. CASE s \ {w} # {}
    <3>1. PICK m \in s \ {w} : \A y \in (s \ {w}) \ {m} : LexLess(key[y], key[m])
      BY <1>2, <2>1, <2>3
    <3>2. CASE LexLess(key[w], key[m])
      <4>1. \A y \in s \ {m} : LexLess(key[y], key[m])
        BY <3>1, <3>2
      <4> QED BY <3>1, <4>1
    <3>3. CASE LexLess(key[m], key[w])
      <4>1. ASSUME NEW y \in s \ {w} PROVE LexLess(key[y], key[w])
        <5>1. y = m \/ LexLess(key[y], key[m])
          BY <3>1
        <5>2. LexLess(key[y], key[m]) => LexLess(key[y], key[w])
          BY <2>1, <3>1, <3>3 DEF Ordered
        <5> QED BY <3>3, <5>1, <5>2
      <4> QED BY <2>1, <4>1
    <3>4. LexLess(key[w], key[m]) \/ LexLess(key[m], key[w])
      BY <2>1, <3>1 DEF Ordered
    <3> QED BY <3>2, <3>3, <3>4
  <2> QED BY <2>2, <2>3
<1> HIDE DEF G
<1>3. G = SUBSET S
  BY <1>1, <1>2, SubsetInduction
<1>4. S \in G
  BY <1>3
<1> QED BY <1>4 DEF G

(* Each place is taken. *)
LEMMA PlacesInOrder ==
  ASSUME NEW S, IsFiniteSet(S), NEW key, Ordered(S, key)
  PROVE  \A i \in 1..Cardinality(S) :
           \E x \in S : Cardinality({y \in S : LexLess(key[y], key[x])}) = i - 1
<1> DEFINE Placed(A) ==
             \A i \in 1..Cardinality(A) :
               \E x \in A : Cardinality({y \in A : LexLess(key[y], key[x])}) = i - 1
           G == {A \in SUBSET S : Placed(A)}
<1>1. {} \in G /\ G \in SUBSET (SUBSET S)
  BY FS_EmptySet
<1>2. ASSUME NEW s \in SUBSET S, s # {}, \A x \in s : s \ {x} \in G
      PROVE  s \in G
  <2>1. PICK m \in s : \A y \in s \ {m} : LexLess(key[y], key[m])
    <3>1. IsFiniteSet(s) /\ Ordered(s, key)
      BY FS_Subset DEF Ordered
    <3> HIDE DEF G
    <3> QED BY <1>2, <3>1, LastInOrder
  <2> DEFINE n == Cardinality(s)
  <2>2. n \in Nat \ {0} /\ Cardinality(s \ {m}) = n - 1
    <3> HIDE DEF G, Placed
    <3>1. n \in Nat /\ n > 0 /\ Cardinality(s \ {m}) = Cardinality(s) - 1
      BY <2>1, OneSmaller
    <3> QED BY <3>1
  <2>3. ASSUME NEW i \in 1..n
        PROVE  \E x \in s : Cardinality({y \in s : LexLess(key[y], key[x])}) = i - 1
    <3>1. CASE i = n
      <4>1. {y \in s : LexLess(key[y], key[m])} = s \ {m}
        BY <2>1 DEF Ordered
      <4> QED BY <2>1, <2>2, <3>1, <4>1
    <3>2. CASE i < n
      <4>1. i \in 1..Cardinality(s \ {m}) /\ Placed(s \ {m})
        <5> HIDE DEF Placed
        <5> QED BY <1>2, <2>1, <2>2, <3>2
      <4>2. PICK x \in s \ {m} :
              Cardinality({y \in s \ {m} : LexLess(key[y], key[x])}) = i - 1
        BY <4>1
      <4>3. ~LexLess(key[m], key[x])
        BY <2>1, <4>2 DEF Ordered
      <4>4. {y \in s : LexLess(key[y], key[x])} = {y \in s \ {m} : LexLess(key[y], key[x])}
        BY <4>3
      <4> QED BY <4>2, <4>4
    <3> QED BY <2>2, <3>1, <3>2
  <2> QED BY <2>3
<1>3. G = SUBSET S
  <2> HIDE DEF G
  <2> QED BY <1>1, <1>2, SubsetInduction
<1> QED BY <1>3

LEMMA SortedFacts ==
  ASSUME NEW S, IsFiniteSet(S), NEW key, Ordered(S, key)
  PROVE  /\ SortedBy(S, key) \in Seq(S)
         /\ \A i, j \in 1..Len(SortedBy(S, key)) :
              i < j => LexLess(key[SortedBy(S, key)[i]], key[SortedBy(S, key)[j]])
<1> DEFINE n == Cardinality(S)
           below(x) == {y \in S : LexLess(key[y], key[x])}
           q == SortedBy(S, key)
<1>1. n \in Nat
  BY FS_CardinalityType
<1>2. q = [i \in 1..n |-> CHOOSE x \in S : Cardinality(below(x)) = i - 1]
  BY DEF SortedBy
<1>3. ASSUME NEW i \in 1..n
      PROVE  q[i] \in S /\ Cardinality(below(q[i])) = i - 1
  <2>1. \E x \in S : Cardinality(below(x)) = i - 1
    BY PlacesInOrder
  <2>2. q[i] = CHOOSE x \in S : Cardinality(below(x)) = i - 1
    <3> HIDE DEF q, below
    <3> QED BY <1>2
  <2> HIDE DEF q, below
  <2> QED BY <2>1, <2>2
<1>4. q \in Seq(S) /\ Len(q) = n
  <2>1. q \in [1..n -> S]
    <3> HIDE DEF below
    <3> QED BY <1>2, <1>3
  <2> HIDE DEF q
  <2> QED BY <1>1, <2>1, SeqDef, LenProperties
<1>5. ASSUME NEW i \in 1..n, NEW j \in 1..n, i < j
      PROVE  LexLess(key[q[i]], key[q[j]])
  <2>1. q[i] # q[j]
    <3> HIDE DEF below, q, n
    <3> QED BY <1>1, <1>3, <1>5
  <2>2. ASSUME LexLess(key[q[j]], key[q[i]]) PROVE FALSE
    <3>1. below(q[j]) \subseteq below(q[i])
      <4>1. q[i] \in S /\ q[j] \in S
        BY <1>3
      <4> HIDE DEF q
      <4> QED BY <2>2, <4>1 DEF Ordered
    <3>2. IsFiniteSet(below(q[i])) /\ below(q[i]) \subseteq S
      BY FS_Subset
    <3>3. Cardinality(below(q[j])) <= Cardinality(below(q[i]))
      <4> HIDE DEF below, q
      <4> QED BY <3>1, <3>2, FS_Subset
    <3>4. Cardinality(below(q[j])) = j - 1 /\ Cardinality(below(q[i])) = i - 1
      BY <1>3
    <3> HIDE DEF below, q, n
    <3> QED BY <1>1, <1>5, <3>3, <3>4
  <2>3. q[i] \in S /\ q[j] \in S
    BY <1>3
  <2> HIDE DEF q
  <2> QED BY <2>1, <2>2, <2>3 DEF Ordered
<1> HIDE DEF q, n
<1>6. \A i, j \in 1..Len(q) : i < j => LexLess(key[q[i]], key[q[j]])
  BY <1>4, <1>5
<1> QED BY <1>4, <1>6 DEF q

-----------------------------------------------------------------------------
(* What a run starts from.                                                  *)

Typed(in) ==
  /\ in.held \in [Stocks -> Nat] /\ in.cash \in Nat /\ in.unpriced \subseteq Stocks
  /\ in.proposed \in [Stocks -> Actions \cup {"none"}] /\ in.weight \in [Stocks -> Nat]
  /\ in.monthly \in BOOLEAN /\ in.strength \in [Stocks -> {"exit", "trim", "fine"}]

LEMMA PctFacts ==
  ASSUME NEW percent \in Nat, NEW nav \in Nat
  PROVE  Pct(percent, nav) \in Nat
<1>1. CASE percent <= 0 \/ nav <= 0
  BY <1>1 DEF Pct
<1>2. CASE ~(percent <= 0 \/ nav <= 0)
  <2> DEFINE p == nav * percent
  <2>1. p \in Nat
    BY <1>2
  <2>2. Pct(percent, nav) = p \div 100
    BY <1>2 DEF Pct
  <2> HIDE DEF p
  <2>3. p \div 100 \in Nat
    BY <2>1
  <2> QED BY <2>2, <2>3
<1> QED BY <1>1, <1>2

LEMMA PctMonotone ==
  ASSUME NEW a \in Nat, NEW b \in Nat, a <= b, NEW nav \in Nat
  PROVE  Pct(a, nav) <= Pct(b, nav)
<1>1. Pct(a, nav) \in Nat /\ Pct(b, nav) \in Nat
  BY PctFacts, Zenon
<1>2. CASE a <= 0 \/ nav <= 0
  BY <1>1, <1>2 DEF Pct
<1>3. CASE ~(a <= 0 \/ nav <= 0)
  <2> DEFINE p == nav * a
             q == nav * b
  <2>1. p \in Nat /\ q \in Nat /\ p <= q
    <3>1. b - a \in Nat /\ nav * (b - a) \in Nat /\ nav * (b - a) = nav * b - nav * a
      OBVIOUS
    <3> QED BY <3>1
  <2>2. Pct(a, nav) = p \div 100 /\ Pct(b, nav) = q \div 100
    BY <1>3 DEF Pct
  <2> HIDE DEF p, q
  <2>3. p \div 100 <= q \div 100
    BY <2>1
  <2> QED BY <2>2, <2>3
<1> QED BY <1>2, <1>3

LEMMA ValueFacts ==
  ASSUME NEW in, Typed(in), NEW s \in Stocks
  PROVE  /\ in.held[s] \in Nat /\ Price[s] \in Nat /\ ValueHeld(in, s) \in Nat
         /\ LatestClose(in, s) \in Nat
         /\ LatestClose(in, s) > 0 => LatestClose(in, s) = Price[s]
         /\ ValueHeld(in, s) > 0 => in.held[s] > 0
         /\ ValueHeld(in, s) = in.held[s] * Price[s]
<1> DEFINE h == in.held[s]
           p == Price[s]
<1>1. h \in Nat /\ p \in Nat
  BY SizingAssumption DEF Typed
<1>2. h * p \in Nat /\ (h = 0 => h * p = 0)
  <2> HIDE DEF h, p
  <2> QED BY <1>1
<1>3. LatestClose(in, s) = 0 \/ LatestClose(in, s) = p
  BY DEF LatestClose
<1>4. ValueHeld(in, s) = h * p
  BY DEF ValueHeld
<1> HIDE DEF h, p
<1>5. h = 0 \/ h > 0
  BY <1>1
<1> QED BY <1>1, <1>2, <1>3, <1>4, <1>5 DEF h, p

LEMMA HeldValueFacts ==
  ASSUME NEW in, Typed(in), NEW S \in SUBSET Stocks
  PROVE  IsFiniteSet(S) /\ HeldValue(in, S) \in Nat
<1>1. IsFiniteSet(S)
  BY SizingAssumption, FS_Subset
<1> DEFINE f == [s \in S |-> ValueHeld(in, s)]
<1>2. \A s \in S : f[s] \in Nat
  BY ValueFacts
<1> HIDE DEF f
<1>3. SumOver(f, S) \in Nat
  BY <1>1, <1>2, SumNatural
<1> QED BY <1>1, <1>3 DEF HeldValue, f

LEMMA NavFacts ==
  ASSUME NEW in, Typed(in)
  PROVE  /\ Nav(in) \in Nat
         /\ \A sleeve : Exposure(in, sleeve) \in Nat
         /\ \A v \in Sleeves : SleeveTarget(in, v) \in Nat
         /\ \A s \in Stocks : CoreTarget(in, s) \in Nat
         /\ HardReserve(in) \in Nat
<1>1. Nav(in) \in Nat
  <2>1. HeldValue(in, Stocks) \in Nat
    BY HeldValueFacts
  <2>2. in.cash \in Nat
    BY DEF Typed
  <2> QED BY <2>1, <2>2 DEF Nav
<1>2. ASSUME NEW sleeve PROVE Exposure(in, sleeve) \in Nat
  <2>1. {s \in Stocks : SleeveLabel(in, s) = sleeve} \in SUBSET Stocks
    OBVIOUS
  <2> QED BY <2>1, HeldValueFacts DEF Exposure
<1>3. ASSUME NEW v \in Sleeves PROVE SleeveTarget(in, v) \in Nat
  <2>1. Policy.weight[v] \in Nat
    BY PlanAssumption
  <2> QED BY <1>1, <2>1, PctFacts, Zenon DEF SleeveTarget
<1>4. ASSUME NEW s \in Stocks PROVE CoreTarget(in, s) \in Nat
  <2>1. in.weight[s] \in Nat
    BY DEF Typed
  <2> QED BY <1>1, <2>1, PctFacts, Zenon DEF CoreTarget
<1>5. HardReserve(in) \in Nat
  <2>1. Policy["hardReserve"] \in Nat
    BY PlanAssumption
  <2>2. Policy["hardReserve"] = Policy.hardReserve
    OBVIOUS
  <2> QED BY <1>1, <2>1, <2>2, PctFacts, Zenon DEF HardReserve
<1> QED BY <1>1, <1>2, <1>3, <1>4, <1>5

LEMMA TraderTargetNat ==
  ASSUME NEW in, Typed(in), NEW s \in Stocks, in.proposed[s] # "none"
  PROVE  TraderTarget(in, s) \in Nat
<1>1. in.proposed[s] \in {"BUY", "HOLD", "REDUCE", "EXIT"}
  BY DEF Typed, Actions
<1> DEFINE v == ValueHeld(in, s)
<1>2. v \in Nat /\ v \div 2 \in Nat
  <2>1. v \in Nat
    BY ValueFacts
  <2> HIDE DEF v
  <2> QED BY <2>1
<1>3. Pct(BuyTargetPct, Nav(in)) \in Nat
  <2>1. Nav(in) \in Nat /\ BuyTargetPct \in Nat
    BY NavFacts, PlanAssumption
  <2> QED BY <2>1, PctFacts, Zenon
<1> QED BY <1>1, <1>2, <1>3 DEF TraderTarget

-----------------------------------------------------------------------------
(* Candidates and planned trades.                                           *)

LEMMA ThresholdFacts ==
  ASSUME NEW in, Typed(in), NEW s \in Stocks, NEW sleeve, NEW existing
  PROVE  /\ IsFiniteSet(Threshold(in, s, sleeve, existing))
         /\ \A t \in Threshold(in, s, sleeve, existing) :
              t.action \in {"EXIT", "REDUCE"} /\ t.target \in Nat
<1>1. \E r : ThresholdRule(in, s, sleeve) \subseteq {r}
  BY DEF ThresholdRule
<1>2. ASSUME NEW t \in ThresholdRule(in, s, sleeve)
      PROVE  t.action \in {"EXIT", "REDUCE"} /\ t.target \in Nat
  <2> DEFINE v == ValueHeld(in, s)
             most == Pct(Policy.stockCap, Nav(in))
             core == CoreTarget(in, s)
  <2>1. v \in Nat /\ v \div 2 \in Nat
    <3>1. v \in Nat
      BY ValueFacts
    <3> HIDE DEF v
    <3> QED BY <3>1
  <2>2. most \in Nat
    <3>1. Policy.stockCap \in Nat /\ Nav(in) \in Nat
      BY SizingAssumption, NavFacts
    <3> QED BY <3>1, PctFacts, Zenon
  <2>3. core \in Nat
    BY NavFacts
  <2>4. \/ t = [action |-> "EXIT", target |-> 0]
        \/ \E n \in {most, v \div 2, core} : t = [action |-> "REDUCE", target |-> n]
    BY <1>2 DEF ThresholdRule
  <2> HIDE DEF v, most, core
  <2> QED BY <2>1, <2>2, <2>3, <2>4
<1>3. Threshold(in, s, sleeve, existing) \subseteq ThresholdRule(in, s, sleeve)
  BY DEF Threshold
<1>4. PICK r : ThresholdRule(in, s, sleeve) \subseteq {r}
  BY <1>1
<1>5. IsFiniteSet({r})
  BY FS_Singleton
<1>6. IsFiniteSet(Threshold(in, s, sleeve, existing))
  BY <1>3, <1>4, <1>5, FS_Subset
<1> QED BY <1>2, <1>3, <1>6

(* What the trader, the basket and the rules propose.                       *)
CandidateFine(in, c) ==
  /\ c.sym \in Stocks /\ c.source \in {"trader", "core", "threshold"} /\ c.rank \in Nat
  /\ c.action \in Actions /\ c.target \in Nat /\ c.price = LatestClose(in, c.sym)
  /\ c.source = "trader" => c.sleeve = StrategySleeve
  /\ c.source = "trader" /\ c.action = "BUY" => in.proposed[c.sym] = "BUY"
  /\ c.source = "core" => c.sleeve = "core"
  /\ c.source = "threshold" => c.action # "BUY"

LEMMA TraderCandidatesFine ==
  ASSUME NEW in, Typed(in)
  PROVE  /\ IsFiniteSet(TraderCandidates(in))
         /\ \A c \in TraderCandidates(in) : CandidateFine(in, c) /\ c.source = "trader"
<1> DEFINE asked == {x \in Stocks : in.proposed[x] # "none"}
           own(s) == [action |-> in.proposed[s], target |-> TraderTarget(in, s)]
           rule(s) == Threshold(in, s, StrategySleeve, in.proposed[s])
           aim(s) == IF rule(s) = {} THEN own(s) ELSE CHOOSE t \in rule(s) : TRUE
           row(s) == Candidate(in, s, "trader", StrategySleeve, StrategyRank[s], aim(s))
<1>1. TraderCandidates(in) = {row(s) : s \in asked}
  BY DEF TraderCandidates
<1>2. ASSUME NEW s \in asked
      PROVE  /\ aim(s).action \in Actions /\ aim(s).target \in Nat
             /\ aim(s).action = "BUY" => in.proposed[s] = "BUY"
  <2>1. in.proposed[s] \in Actions /\ s \in Stocks
    BY DEF Typed
  <2>2. CASE rule(s) = {}
    <3>1. aim(s) = own(s)
      BY <2>2
    <3> HIDE DEF aim
    <3> QED BY <2>1, <3>1, TraderTargetNat
  <2>3. CASE rule(s) # {}
    <3>1. aim(s) \in rule(s)
      BY <2>3
    <3> HIDE DEF aim
    <3>2. aim(s).action \in {"EXIT", "REDUCE"} /\ aim(s).target \in Nat
      BY <2>1, <3>1, ThresholdFacts
    <3> QED BY <3>2 DEF Actions
  <2> QED BY <2>2, <2>3
<1> HIDE DEF aim
<1>3. ASSUME NEW s \in asked PROVE CandidateFine(in, row(s)) /\ row(s).source = "trader"
  <2>1. StrategyRank[s] \in Nat
    BY PlanAssumption
  <2> QED BY <1>2, <2>1 DEF CandidateFine, Candidate
<1>4. IsFiniteSet({row(s) : s \in asked})
  <2> DEFINE f == [s \in asked |-> row(s)]
  <2>1. IsFiniteSet(asked)
    BY SizingAssumption, FS_Subset
  <2>2. f \in Surjection(asked, {row(s) : s \in asked})
    BY DEF Surjection
  <2> HIDE DEF f, asked, row
  <2> QED BY <2>1, <2>2, FS_Surjection
<1> QED BY <1>1, <1>3, <1>4

LEMMA CoreCandidatesFine ==
  ASSUME NEW in, Typed(in)
  PROVE  /\ IsFiniteSet(CoreCandidates(in))
         /\ \A c \in CoreCandidates(in) : CandidateFine(in, c) /\ c.source = "core"
         /\ \A c, d \in CoreCandidates(in) : c.sym = d.sym => c = d
<1> DEFINE seen == CoreReviewed(in)
           rank(s) == IF s \in CoreTargets(in) THEN BasketRank[s] ELSE NoRank
           aim(s) == [action |-> CoreAction(in, s), target |-> CoreTarget(in, s)]
           row(s) == Candidate(in, s, "core", "core", rank(s), aim(s))
<1>1. CoreCandidates(in) = {row(s) : s \in seen}
  BY DEF CoreCandidates
<1>2. seen \subseteq Stocks
  BY PlanAssumption DEF CoreReviewed, CoreTargets
<1>3. ASSUME NEW s \in seen PROVE CandidateFine(in, row(s)) /\ row(s).source = "core" /\ row(s).sym = s
  <2>1. s \in Stocks /\ rank(s) \in Nat
    BY <1>2, PlanAssumption DEF NoRank
  <2>2. aim(s).action \in Actions /\ aim(s).target \in Nat
    <3>1. CoreTarget(in, s) \in Nat
      BY <2>1, NavFacts
    <3>2. CoreAction(in, s) \in Actions
      BY DEF CoreAction, Actions
    <3> QED BY <3>1, <3>2
  <2> HIDE DEF rank, aim
  <2> QED BY <2>1, <2>2 DEF CandidateFine, Candidate
<1>4. IsFiniteSet({row(s) : s \in seen})
  <2> DEFINE f == [s \in seen |-> row(s)]
  <2>1. IsFiniteSet(seen)
    BY <1>2, SizingAssumption, FS_Subset
  <2>2. f \in Surjection(seen, {row(s) : s \in seen})
    <3> HIDE DEF row, seen
    <3> QED BY DEF Surjection
  <2> HIDE DEF f, seen, row
  <2> QED BY <2>1, <2>2, FS_Surjection
<1> HIDE DEF row, seen
<1> QED BY <1>1, <1>3, <1>4

LEMMA ThresholdCandidatesFine ==
  ASSUME NEW in, Typed(in)
  PROVE  /\ IsFiniteSet(ThresholdCandidates(in))
         /\ \A c \in ThresholdCandidates(in) : CandidateFine(in, c) /\ c.source = "threshold"
<1> DEFINE rest == Stocks \ {c.sym : c \in BaseCandidates(in)}
           rule(s) == Threshold(in, s, SleeveLabel(in, s), "HOLD")
           row(s, t) == Candidate(in, s, "threshold", SleeveLabel(in, s), StrategyRank[s], t)
           rows(s) == {row(s, t) : t \in rule(s)}
<1>1. ThresholdCandidates(in) = UNION {rows(s) : s \in rest}
  BY DEF ThresholdCandidates
<1>2. ASSUME NEW s \in rest, NEW t \in rule(s)
      PROVE  CandidateFine(in, row(s, t)) /\ row(s, t).source = "threshold"
  <2>1. t.action \in {"EXIT", "REDUCE"} /\ t.target \in Nat
    <3>1. s \in Stocks
      OBVIOUS
    <3> HIDE DEF rest
    <3> QED BY <3>1, ThresholdFacts
  <2>2. StrategyRank[s] \in Nat /\ s \in Stocks
    BY PlanAssumption
  <2> HIDE DEF rest, rule
  <2> QED BY <2>1, <2>2 DEF CandidateFine, Candidate, Actions
<1>3. ASSUME NEW s \in rest PROVE IsFiniteSet(rows(s))
  <2> DEFINE f == [t \in rule(s) |-> row(s, t)]
  <2>1. IsFiniteSet(rule(s))
    BY ThresholdFacts
  <2>2. f \in Surjection(rule(s), rows(s))
    <3> HIDE DEF row, rule
    <3> QED BY DEF Surjection
  <2> HIDE DEF f, rule, rows
  <2> QED BY <2>1, <2>2, FS_Surjection
<1>4. IsFiniteSet({rows(s) : s \in rest})
  <2> DEFINE f == [s \in rest |-> rows(s)]
  <2>1. IsFiniteSet(rest)
    BY SizingAssumption, FS_Subset
  <2>2. f \in Surjection(rest, {rows(s) : s \in rest})
    <3> HIDE DEF rows, rest
    <3> QED BY DEF Surjection
  <2> HIDE DEF f, rest, rows
  <2> QED BY <2>1, <2>2, FS_Surjection
<1>5. IsFiniteSet(UNION {rows(s) : s \in rest})
  <2> HIDE DEF rows, rest
  <2> QED BY <1>3, <1>4, FS_UNION
<1>6. ASSUME NEW c \in ThresholdCandidates(in)
      PROVE  CandidateFine(in, c) /\ c.source = "threshold"
  <2>1. PICK s \in rest : c \in rows(s)
    <3> HIDE DEF rows, rest
    <3> QED BY <1>1
  <2>2. PICK t \in rule(s) : c = row(s, t)
    <3> HIDE DEF row, rule, rest
    <3> QED BY <2>1
  <2> HIDE DEF row, rule, rest
  <2> QED BY <1>2, <2>2
<1> QED BY <1>1, <1>5, <1>6

LEMMA CandidateFacts ==
  ASSUME NEW in, Typed(in)
  PROVE  /\ IsFiniteSet(Candidates(in))
         /\ \A c \in Candidates(in) : CandidateFine(in, c)
         /\ \A c, d \in Candidates(in) :
              c.source = "core" /\ d.source = "core" /\ c.sym = d.sym => c = d
<1>1. Candidates(in) = TraderCandidates(in) \cup CoreCandidates(in) \cup ThresholdCandidates(in)
  BY DEF Candidates, BaseCandidates
<1>2. IsFiniteSet(Candidates(in))
  <2>1. IsFiniteSet(TraderCandidates(in) \cup CoreCandidates(in))
    BY TraderCandidatesFine, CoreCandidatesFine, FS_Union
  <2> QED BY <1>1, <2>1, ThresholdCandidatesFine, FS_Union
<1>3. \A c \in Candidates(in) : c.source = "core" => c \in CoreCandidates(in)
  BY <1>1, TraderCandidatesFine, ThresholdCandidatesFine
<1>4. \A c \in Candidates(in) : CandidateFine(in, c)
  BY <1>1, TraderCandidatesFine, CoreCandidatesFine, ThresholdCandidatesFine
<1> QED BY <1>2, <1>3, <1>4, CoreCandidatesFine

(* What the planner makes of a candidate.                                   *)
TradeFine(in, t) ==
  /\ t.sym \in Stocks /\ t.source \in {"trader", "core", "threshold"} /\ t.rank \in Nat
  /\ t.action \in Actions /\ t.target \in Nat /\ t.notional \in Nat /\ t.quantity \in Nat
  /\ t.side \in {"BUY", "SELL", "HOLD"}
  /\ t.side = "SELL" => t.action \in {"REDUCE", "EXIT"} /\ in.held[t.sym] > 0
  /\ t.side = "BUY" /\ t.status = "observed" =>
       /\ t.source \in {"trader", "core"}
       /\ Deployable(in, IF t.source = "trader" THEN StrategySleeve ELSE "core")
       /\ t.source = "trader" => in.proposed[t.sym] = "BUY"

LEMMA TradeIsFine ==
  ASSUME NEW in, Typed(in), NEW c \in Candidates(in)
  PROVE  TradeFine(in, TradeOf(in, c))
<1> DEFINE value == ValueHeld(in, c.sym)
           held == in.held[c.sym]
           side == CASE c.action = "BUY" /\ c.target > value -> "BUY"
                     [] c.action \in {"REDUCE", "EXIT"} /\ c.target < value -> "SELL"
                     [] OTHER -> "HOLD"
           notional == IF side = "HOLD" THEN 0 ELSE Distance(c.target, value)
           shares == IF c.price = 0 THEN 0 ELSE notional \div c.price
           t == TradeOf(in, c)
<1>1. CandidateFine(in, c) /\ c.sym \in Stocks /\ c.target \in Nat
  BY CandidateFacts DEF CandidateFine
<1>2. value \in Nat /\ held \in Nat /\ c.price \in Nat /\ (value > 0 => held > 0)
  BY <1>1, ValueFacts DEF CandidateFine
<1>3. /\ t.sym = c.sym /\ t.source = c.source /\ t.rank = c.rank /\ t.action = c.action
      /\ t.target = c.target /\ t.side = side /\ t.notional = notional
      /\ t.status = CASE notional = 0 -> "no_trade"
                      [] notional > 0 /\ c.price = 0 -> "missing_price"
                      [] OTHER -> "observed"
      /\ t.quantity = CASE side = "SELL" /\ c.action = "EXIT" -> held
                        [] side = "SELL" /\ c.action # "EXIT" -> Min({shares, held})
                        [] OTHER -> shares
  BY DEF TradeOf
<1> HIDE DEF t, value, held
<1>4. /\ side \in {"BUY", "SELL", "HOLD"}
      /\ side = "BUY" => c.action = "BUY" /\ c.target > value
      /\ side = "SELL" => c.action \in {"REDUCE", "EXIT"} /\ c.target < value
  OBVIOUS
<1> HIDE DEF side
<1>5. notional \in Nat /\ (side = "BUY" => notional > 0 /\ Distance(c.target, value) > 0)
  BY <1>1, <1>2, <1>4 DEF Distance
<1> HIDE DEF notional
<1>6. shares \in Nat
  BY <1>2, <1>5
<1> HIDE DEF shares
<1>7. t.quantity \in Nat
  <2>1. Min({shares, held}) \in Nat
    <3>1. shares \in Int /\ held \in Int
      BY <1>2, <1>6
    <3>2. Min({shares, held}) = IF shares <= held THEN shares ELSE held
      BY <3>1, MinOfTwo
    <3> QED BY <1>2, <1>6, <3>2
  <2> QED BY <1>2, <1>3, <1>6, <2>1
<1>8. t.side = "SELL" => in.held[t.sym] > 0
  BY <1>1, <1>2, <1>3, <1>4 DEF held
<1>9. ASSUME t.side = "BUY", t.status = "observed"
      PROVE  /\ t.source \in {"trader", "core"}
             /\ Deployable(in, IF t.source = "trader" THEN StrategySleeve ELSE "core")
             /\ t.source = "trader" => in.proposed[t.sym] = "BUY"
  <2>1. c.action = "BUY" /\ c.source \in {"trader", "core"}
    BY <1>1, <1>3, <1>4, <1>9 DEF CandidateFine
  <2>2. c.price > 0
    BY <1>2, <1>3, <1>5, <1>9
  <2>3. c.sleeve = IF c.source = "trader" THEN StrategySleeve ELSE "core"
    BY <1>1, <2>1 DEF CandidateFine
  <2>4. Distance(c.target, ValueHeld(in, c.sym)) > 0
    BY <1>3, <1>5, <1>9 DEF value
  <2>5. Deployable(in, c.sleeve)
    BY <2>1, <2>2, <2>4 DEF Deployable
  <2> QED BY <1>1, <1>3, <2>1, <2>3, <2>5 DEF CandidateFine
<1>10. /\ t.sym \in Stocks /\ t.source \in {"trader", "core", "threshold"} /\ t.rank \in Nat
       /\ t.action \in Actions /\ t.target \in Nat /\ t.notional \in Nat
       /\ t.side \in {"BUY", "SELL", "HOLD"}
       /\ t.side = "SELL" => t.action \in {"REDUCE", "EXIT"}
  BY <1>1, <1>3, <1>4, <1>5 DEF CandidateFine
<1>11. TradeFine(in, t)
  BY <1>7, <1>8, <1>9, <1>10 DEF TradeFine
<1> QED BY <1>11 DEF t

LEMMA TradeFacts ==
  ASSUME NEW in, Typed(in)
  PROVE  /\ IsFiniteSet(Trades(in))
         /\ \A t \in Trades(in) : TradeFine(in, t)
         /\ \A t, u \in Trades(in) :
              t.source = "core" /\ u.source = "core" /\ t.sym = u.sym => t = u
<1> DEFINE C == Candidates(in)
           f == [c \in C |-> TradeOf(in, c)]
<1>1. IsFiniteSet(Trades(in))
  <2>1. f \in Surjection(C, Trades(in))
    <3> HIDE DEF C
    <3>1. Trades(in) = {TradeOf(in, c) : c \in C}
      BY DEF Trades, C
    <3> QED BY <3>1 DEF Surjection
  <2>2. IsFiniteSet(C)
    BY CandidateFacts
  <2> HIDE DEF f, C
  <2> QED BY <2>1, <2>2, FS_Surjection
<1>2. ASSUME NEW t \in Trades(in)
      PROVE  \E c \in C : t = TradeOf(in, c) /\ t.sym = c.sym /\ t.source = c.source
  <2>1. PICK c \in C : t = TradeOf(in, c)
    BY DEF Trades
  <2>2. TradeOf(in, c).sym = c.sym /\ TradeOf(in, c).source = c.source
    BY DEF TradeOf
  <2> QED BY <2>1, <2>2
<1>3. \A t \in Trades(in) : TradeFine(in, t)
  BY <1>2, TradeIsFine
<1>4. ASSUME NEW t \in Trades(in), NEW u \in Trades(in),
             t.source = "core", u.source = "core", t.sym = u.sym
      PROVE  t = u
  <2>1. PICK c \in C : t = TradeOf(in, c) /\ t.sym = c.sym /\ t.source = c.source
    BY <1>2
  <2>2. PICK d \in C : u = TradeOf(in, d) /\ u.sym = d.sym /\ u.source = d.source
    BY <1>2
  <2>3. c = d
    <3> HIDE DEF f
    <3> QED BY <1>4, <2>1, <2>2, CandidateFacts
  <2> QED BY <2>1, <2>2, <2>3
<1> QED BY <1>1, <1>3, <1>4

-----------------------------------------------------------------------------
(* Proceeds and borrowed capacity.                                          *)

LEMMA SellCostFacts ==
  ASSUME NEW n \in Nat
  PROVE  SellCost(n) \in Nat
<1> DEFINE p == n * Policy.sellCost
<1>1. p \in Nat
  BY PlanAssumption
<1> HIDE DEF p
<1>2. p \div 100 \in Nat
  BY <1>1
<1> QED BY <1>2 DEF SellCost, p

LEMMA SpendableNat ==
  ASSUME NEW in, Typed(in)
  PROVE  Spendable(in) \in Nat
<1> DEFINE sells == {t \in Trades(in) : t.side = "SELL" /\ t.status # "missing_price"}
           f == [t \in sells |-> t.notional - SellCost(t.notional)]
           net == Above0(SumOver(f, sells))
<1>1. IsFiniteSet(sells)
  BY TradeFacts, FS_Subset
<1>2. ASSUME NEW t \in sells PROVE f[t] \in Int
  <2>1. t.notional \in Nat
    BY TradeFacts DEF TradeFine
  <2>2. SellCost(t.notional) \in Nat
    BY <2>1, SellCostFacts
  <2> QED BY <2>1, <2>2
<1>3. SumOver(f, sells) \in Int
  <2> HIDE DEF f, sells
  <2> QED BY <1>1, <1>2, SumFacts
<1>4. net \in Nat
  BY <1>3, AboveZero
<1>5. Spendable(in) = (net * Policy.haircut) \div 100
  BY DEF Spendable
<1> HIDE DEF net
<1> DEFINE p == net * Policy.haircut
<1>6. p \in Nat
  BY <1>4, PlanAssumption
<1>7. Spendable(in) = p \div 100
  BY <1>5
<1> HIDE DEF p
<1> QED BY <1>6, <1>7

LEMMA ProjectedNat ==
  ASSUME NEW in, Typed(in), NEW sleeve
  PROVE  Projected(in, sleeve) \in Nat
<1> DEFINE moved == {t \in Trades(in) : t.status = "observed" /\ t.sleeve = sleeve}
           f == [t \in moved |-> IF t.side = "BUY" THEN t.notional ELSE 0 - t.notional]
<1>1. IsFiniteSet(moved)
  BY TradeFacts, FS_Subset
<1>2. ASSUME NEW t \in moved PROVE f[t] \in Int
  <2>1. t.notional \in Nat
    BY TradeFacts DEF TradeFine
  <2> QED BY <2>1
<1>3. SumOver(f, moved) \in Int
  <2> HIDE DEF f, moved
  <2> QED BY <1>1, <1>2, SumFacts
<1>4. Exposure(in, sleeve) \in Nat
  BY NavFacts
<1>5. Exposure(in, sleeve) + SumOver(f, moved) \in Int
  BY <1>3, <1>4
<1>6. Projected(in, sleeve) = Above0(Exposure(in, sleeve) + SumOver(f, moved))
  BY DEF Projected
<1> QED BY <1>5, <1>6, AboveZero

Parties == ToSet(Policy.lenders) \cup ToSet(Policy.borrowers)

(* While capacity is lent, what is borrowed and what can still be lent add  *)
(* up to what the lenders had.                                              *)
Loans(in) ==
  {acc \in [left : Nat, lend : [Sleeves -> Nat], borrowed : [Sleeves -> Nat]] :
     /\ \A v \in Sleeves : acc.lend[v] <= Lendable(in, v)
     /\ SumOver(acc.borrowed, Parties) + SumOver(acc.lend, Parties)
          = SumOver([v \in Sleeves |-> Lendable(in, v)], Parties)}

LEMMA PartiesFacts ==
  /\ Parties \subseteq Sleeves /\ IsFiniteSet(Parties)
  /\ \A i \in DOMAIN Policy.lenders : Policy.lenders[i] \in Sleeves \cap Parties
  /\ \A i \in DOMAIN Policy.borrowers : Policy.borrowers[i] \in Sleeves \cap Parties
<1>1. /\ \A i \in DOMAIN Policy.lenders : Policy.lenders[i] \in Sleeves
      /\ \A i \in DOMAIN Policy.borrowers : Policy.borrowers[i] \in Sleeves
  BY PlanAssumption, LenProperties, ElementOfSeq
<1>2. Parties \subseteq Sleeves
  BY <1>1 DEF Parties, ToSet
<1>3. IsFiniteSet(Parties)
  BY <1>2, SizingAssumption, FS_Subset
<1> QED BY <1>1, <1>2, <1>3 DEF Parties, ToSet

LEMMA LendableNat ==
  ASSUME NEW in, Typed(in), NEW v \in Sleeves
  PROVE  Lendable(in, v) \in Nat
<1>1. SleeveTarget(in, v) - Exposure(in, v) \in Int
  BY NavFacts
<1>2. Idle(in, v) \in Nat
  BY <1>1, AboveZero DEF Idle
<1> QED BY <1>2 DEF Lendable

LEMMA BorrowFromKeeps ==
  ASSUME NEW in, Typed(in), NEW acc \in Loans(in),
         NEW b \in Sleeves \cap Parties, NEW l \in Sleeves \cap Parties
  PROVE  BorrowFrom(in, b, l, acc) \in Loans(in)
<1> DEFINE need == Above0(Projected(in, b) - SleeveTarget(in, b))
           want == Above0(need - acc.borrowed[b])
           amount == Min({acc.lend[l], want, acc.left})
           next == BorrowFrom(in, b, l, acc)
<1>1. /\ acc.left \in Nat /\ acc.lend \in [Sleeves -> Nat] /\ acc.borrowed \in [Sleeves -> Nat]
      /\ \A v \in Sleeves : acc.lend[v] <= Lendable(in, v)
      /\ SumOver(acc.borrowed, Parties) + SumOver(acc.lend, Parties)
           = SumOver([v \in Sleeves |-> Lendable(in, v)], Parties)
  BY DEF Loans
<1>2. want \in Nat
  <2>1. Projected(in, b) - SleeveTarget(in, b) \in Int
    BY ProjectedNat, NavFacts
  <2>2. need \in Nat
    BY <2>1, AboveZero
  <2> HIDE DEF need
  <2>3. need - acc.borrowed[b] \in Int
    BY <1>1, <2>2
  <2> QED BY <2>3, AboveZero
<1> HIDE DEF want
<1>3. amount \in Nat /\ amount <= acc.lend[l] /\ amount <= acc.left
  <2> DEFINE x == acc.lend[l]
             y == acc.left
  <2>1. x \in Nat /\ y \in Nat /\ x \in Int /\ y \in Int /\ want \in Int
    BY <1>1, <1>2
  <2> HIDE DEF x, y
  <2>2. Min({x, want, y}) \in {x, want, y} /\ Min({x, want, y}) <= x /\ Min({x, want, y}) <= y
    BY <2>1, MinOfThree
  <2>3. Min({x, want, y}) \in Nat
    BY <1>2, <2>1, <2>2
  <2> QED BY <2>2, <2>3 DEF x, y
<1>4. next = IF b = l THEN acc
             ELSE [left |-> acc.left - amount,
                   lend |-> [acc.lend EXCEPT ![l] = @ - amount],
                   borrowed |-> [acc.borrowed EXCEPT ![b] = @ + amount]]
  BY DEF BorrowFrom, want
<1> HIDE DEF amount, next
<1>5. CASE b = l
  BY <1>4, <1>5 DEF next
<1>6. CASE b # l
  <2> DEFINE lend == [acc.lend EXCEPT ![l] = @ - amount]
             borrowed == [acc.borrowed EXCEPT ![b] = @ + amount]
  <2>1. next = [left |-> acc.left - amount, lend |-> lend, borrowed |-> borrowed]
    BY <1>4, <1>6
  <2>2. /\ acc.left - amount \in Nat /\ lend \in [Sleeves -> Nat]
        /\ borrowed \in [Sleeves -> Nat]
        /\ \A v \in Sleeves : lend[v] <= Lendable(in, v)
    <3>1. acc.lend[l] - amount \in Nat /\ acc.borrowed[b] + amount \in Nat
      BY <1>1, <1>3
    <3>2. acc.lend[l] - amount <= acc.lend[l]
      BY <1>1, <1>3
    <3>3. Lendable(in, l) \in Nat
      BY LendableNat
    <3> QED BY <1>1, <1>3, <3>1, <3>2, <3>3
  <2>3. SumOver(borrowed, Parties) = SumOver(acc.borrowed, Parties) + amount
    <3>1. SameBut(acc.borrowed, borrowed, b, Parties)
      BY <1>1, <2>2, PartiesFacts DEF SameBut
    <3>2. borrowed[b] = acc.borrowed[b] + amount /\ acc.borrowed[b] \in Nat
      BY <1>1
    <3>3. IsFiniteSet(Parties) /\ b \in Parties
      BY PartiesFacts
    <3> DEFINE old == acc.borrowed
    <3> HIDE DEF borrowed, old
    <3>4. SumOver(borrowed, Parties) = SumOver(old, Parties) - old[b] + borrowed[b]
          /\ SumOver(old, Parties) \in Int
      BY <3>1, <3>3, SumUpdate DEF old
    <3> QED BY <1>3, <3>2, <3>4 DEF old
  <2>4. SumOver(lend, Parties) = SumOver(acc.lend, Parties) - amount
    <3>1. SameBut(acc.lend, lend, l, Parties)
      BY <1>1, <2>2, PartiesFacts DEF SameBut
    <3>2. lend[l] = acc.lend[l] - amount /\ acc.lend[l] \in Nat
      BY <1>1
    <3>3. IsFiniteSet(Parties) /\ l \in Parties
      BY PartiesFacts
    <3> DEFINE old == acc.lend
    <3> HIDE DEF lend, old
    <3>4. SumOver(lend, Parties) = SumOver(old, Parties) - old[l] + lend[l]
          /\ SumOver(old, Parties) \in Int
      BY <3>1, <3>3, SumUpdate DEF old
    <3> QED BY <1>3, <3>2, <3>4 DEF old
  <2>5. SumOver(borrowed, Parties) + SumOver(lend, Parties)
          = SumOver(acc.borrowed, Parties) + SumOver(acc.lend, Parties)
    <3> DEFINE x == SumOver(acc.borrowed, Parties)
               y == SumOver(acc.lend, Parties)
    <3>1. x \in Int /\ y \in Int
      <4>1. /\ \A v \in Parties : acc.borrowed[v] \in Int
            /\ \A v \in Parties : acc.lend[v] \in Int
        BY <1>1, PartiesFacts
      <4> QED BY <4>1, PartiesFacts, SumFacts
    <3> HIDE DEF x, y, lend, borrowed
    <3> QED BY <1>3, <2>3, <2>4, <3>1 DEF x, y
  <2> HIDE DEF lend, borrowed
  <2>6. next \in Loans(in)
    BY <1>1, <2>1, <2>2, <2>5 DEF Loans
  <2> QED BY <2>6 DEF next
<1> QED BY <1>5, <1>6

(* The last of the numbers from 1 to n that are left.                       *)
LEMMA LastOfPrefix ==
  ASSUME NEW n \in Nat, NEW s \in SUBSET (1..n), s # {}
  PROVE  Max(s) \in s
<1>1. IsFiniteSet(1..n) /\ 1..n \subseteq Int
  BY FS_Interval
<1>2. s \in SUBSET Int /\ IsFiniteSet(s)
  BY <1>1, FS_Subset
<1> QED BY <1>2, GreatestOf

LEMMA BorrowAllKeeps ==
  ASSUME NEW in, Typed(in), NEW b \in Sleeves \cap Parties, NEW start \in Loans(in)
  PROVE  BorrowAll(in, b, start) \in Loans(in)
<1> DEFINE L == Policy.lenders
           S == DOMAIN L
           T == Loans(in)
           Run(iter) ==
             iter = [s \in SUBSET S |->
                       IF s = {} THEN start
                       ELSE BorrowFrom(in, b, L[Max(s)], iter[s \ {Max(s)}])]
           run == CHOOSE iter : Run(iter)
           pick == [s \in SUBSET S |-> Max(s)]
           step == [p \in S \X T |-> BorrowFrom(in, b, L[p[1]], p[2])]
           N == Len(L)
<1>1. BorrowAll(in, b, start) = run[S]
  BY DEF BorrowAll, FoldLeft, MapThenFoldSet
<1>2. S = 1..N /\ N \in Nat /\ \A i \in S : L[i] \in Sleeves \cap Parties
  BY PlanAssumption, LenProperties, PartiesFacts
<1>3. IsFiniteSet(S)
  BY <1>2, FS_Interval
<1>4. ASSUME NEW s \in SUBSET S, s # {} PROVE Max(s) \in s
  <2> HIDE DEF S, N
  <2> QED BY <1>2, <1>4, LastOfPrefix
<1>5. step \in [S \X T -> T]
  <2>1. ASSUME NEW p \in S \X T PROVE BorrowFrom(in, b, L[p[1]], p[2]) \in T
    <3>1. L[p[1]] \in Sleeves \cap Parties /\ p[2] \in T
      <4> HIDE DEF S, T, L
      <4> QED BY <1>2
    <3> HIDE DEF L
    <3> QED BY <3>1, BorrowFromKeeps
  <2> HIDE DEF S, T
  <2> QED BY <2>1
<1>6. PICK iter \in [SUBSET S -> T] : Folds(iter, S, start, pick, step)
  <2>1. \A s \in SUBSET S : s # {} => pick[s] \in s
    <3> HIDE DEF S
    <3> QED BY <1>4
  <2>2. start \in T
    OBVIOUS
  <2> HIDE DEF pick, step, S, T
  <2> QED BY <1>3, <1>5, <2>1, <2>2, FoldExists, Zenon
<1>7. ASSUME NEW s \in SUBSET S, s # {}
      PROVE  step[<<pick[s], iter[s \ {pick[s]}]>>]
               = BorrowFrom(in, b, L[Max(s)], iter[s \ {Max(s)}])
  <2>1. pick[s] = Max(s) /\ Max(s) \in S /\ s \ {Max(s)} \in SUBSET S
    BY <1>4, <1>7
  <2>2. iter[s \ {Max(s)}] \in T
    <3> HIDE DEF S, T
    <3> QED BY <2>1
  <2> HIDE DEF pick, S, T, L
  <2> QED BY <2>1, <2>2
<1>8. Run(iter)
  <2> HIDE DEF pick, step, S, T, L
  <2> QED BY <1>6, <1>7 DEF Folds
<1>9. Run(run)
  <2> HIDE DEF Run
  <2> QED BY <1>8
<1>10. SameSteps(run, iter, S)
  <2>1. run[{}] = iter[{}]
    <3> HIDE DEF run, S, L
    <3> QED BY <1>8, <1>9
  <2>2. ASSUME NEW s \in SUBSET S, s # {}, \A x \in s : run[s \ {x}] = iter[s \ {x}]
        PROVE  run[s] = iter[s]
    <3>1. run[s \ {Max(s)}] = iter[s \ {Max(s)}]
      <4> HIDE DEF run, S
      <4> QED BY <1>4, <2>2
    <3> HIDE DEF run, S, L
    <3> QED BY <1>8, <1>9, <2>2, <3>1
  <2> HIDE DEF run, S
  <2> QED BY <2>1, <2>2 DEF SameSteps
<1>11. run[S] = iter[S] /\ iter[S] \in T
  <2> HIDE DEF run, S, T
  <2> QED BY <1>3, <1>10, FoldsAgree
<1> HIDE DEF run, S
<1> QED BY <1>1, <1>11

(* The capacity that is borrowed is capacity a sleeve without BUYs has lent. *)
LEMMA BorrowingFacts ==
  ASSUME NEW in, Typed(in)
  PROVE  Borrowing(in) \in Loans(in)
<1> DEFINE L == Policy.borrowers
           S == DOMAIN L
           T == Loans(in)
           start == [left |-> IF Policy.softBorrowing THEN BorrowGuard(in) ELSE 0,
                     lend |-> [s \in Sleeves |-> Lendable(in, s)],
                     borrowed |-> [s \in Sleeves |-> 0]]
           Run(iter) ==
             iter = [s \in SUBSET S |->
                       IF s = {} THEN start
                       ELSE BorrowAll(in, L[Max(s)], iter[s \ {Max(s)}])]
           run == CHOOSE iter : Run(iter)
           pick == [s \in SUBSET S |-> Max(s)]
           step == [p \in S \X T |-> BorrowAll(in, L[p[1]], p[2])]
           N == Len(L)
<1>1. Borrowing(in) = run[S]
  BY DEF Borrowing, FoldLeft, MapThenFoldSet
<1>2. S = 1..N /\ N \in Nat /\ \A i \in S : L[i] \in Sleeves \cap Parties
  BY PlanAssumption, LenProperties, PartiesFacts
<1>3. IsFiniteSet(S)
  BY <1>2, FS_Interval
<1>4. ASSUME NEW s \in SUBSET S, s # {} PROVE Max(s) \in s
  <2> HIDE DEF S, N
  <2> QED BY <1>2, <1>4, LastOfPrefix
<1>5. step \in [S \X T -> T]
  <2>1. ASSUME NEW p \in S \X T PROVE BorrowAll(in, L[p[1]], p[2]) \in T
    <3>1. L[p[1]] \in Sleeves \cap Parties /\ p[2] \in T
      <4> HIDE DEF S, T, L
      <4> QED BY <1>2
    <3> HIDE DEF L
    <3> QED BY <3>1, BorrowAllKeeps
  <2> HIDE DEF S, T
  <2> QED BY <2>1
<1>6. start \in T
  <2> DEFINE lend == [s \in Sleeves |-> Lendable(in, s)]
             none == [s \in Sleeves |-> 0]
             guard == IF Policy.softBorrowing THEN BorrowGuard(in) ELSE 0
  <2>1. guard \in Nat
    <3>1. Policy.borrowCap \in Nat /\ Nav(in) \in Nat
      BY PlanAssumption, NavFacts
    <3>2. BorrowGuard(in) \in Nat
      BY <3>1, PctFacts, Zenon DEF BorrowGuard
    <3> QED BY <3>2
  <2>2. lend \in [Sleeves -> Nat] /\ none \in [Sleeves -> Nat]
    BY LendableNat
  <2>3. \A v \in Sleeves : lend[v] = Lendable(in, v) /\ lend[v] <= Lendable(in, v)
    BY LendableNat
  <2>4. SumOver(none, Parties) = 0 /\ SumOver(lend, Parties) \in Int
    <3>1. \A v \in Parties : none[v] = 0 /\ lend[v] \in Int
      BY <2>2, PartiesFacts
    <3> HIDE DEF none, lend
    <3> QED BY <3>1, PartiesFacts, SumZero, SumFacts
  <2>5. SumOver(none, Parties) + SumOver(lend, Parties) = SumOver(lend, Parties)
    <3> DEFINE x == SumOver(none, Parties)
               y == SumOver(lend, Parties)
    <3>1. x = 0 /\ y \in Int
      BY <2>4
    <3> HIDE DEF x, y
    <3>2. x + y = y
      BY <3>1
    <3> QED BY <3>2 DEF x, y
  <2>6. start = [left |-> guard, lend |-> lend, borrowed |-> none]
    OBVIOUS
  <2>7. lend = [v \in Sleeves |-> Lendable(in, v)]
    OBVIOUS
  <2> HIDE DEF start, guard, lend, none
  <2> QED BY <2>1, <2>2, <2>3, <2>5, <2>6, <2>7 DEF Loans
<1> HIDE DEF start
<1>7. PICK iter \in [SUBSET S -> T] : Folds(iter, S, start, pick, step)
  <2>1. \A s \in SUBSET S : s # {} => pick[s] \in s
    <3> HIDE DEF S
    <3> QED BY <1>4
  <2> HIDE DEF pick, step, S, T
  <2> QED BY <1>3, <1>5, <1>6, <2>1, FoldExists, Zenon
<1>8. ASSUME NEW s \in SUBSET S, s # {}
      PROVE  step[<<pick[s], iter[s \ {pick[s]}]>>]
               = BorrowAll(in, L[Max(s)], iter[s \ {Max(s)}])
  <2>1. pick[s] = Max(s) /\ Max(s) \in S /\ s \ {Max(s)} \in SUBSET S
    BY <1>4, <1>8
  <2>2. iter[s \ {Max(s)}] \in T
    <3> HIDE DEF S, T
    <3> QED BY <2>1
  <2> HIDE DEF pick, S, T, L
  <2> QED BY <2>1, <2>2
<1>9. Run(iter)
  <2> HIDE DEF pick, step, S, T, L
  <2> QED BY <1>7, <1>8 DEF Folds
<1>10. Run(run)
  <2> HIDE DEF Run
  <2> QED BY <1>9
<1>11. SameSteps(run, iter, S)
  <2>1. run[{}] = iter[{}]
    <3> HIDE DEF run, S, L
    <3> QED BY <1>9, <1>10
  <2>2. ASSUME NEW s \in SUBSET S, s # {}, \A x \in s : run[s \ {x}] = iter[s \ {x}]
        PROVE  run[s] = iter[s]
    <3>1. run[s \ {Max(s)}] = iter[s \ {Max(s)}]
      <4> HIDE DEF run, S
      <4> QED BY <1>4, <2>2
    <3> HIDE DEF run, S, L
    <3> QED BY <1>9, <1>10, <2>2, <3>1
  <2> HIDE DEF run, S
  <2> QED BY <2>1, <2>2 DEF SameSteps
<1>12. run[S] = iter[S] /\ iter[S] \in T
  <2> HIDE DEF run, S, T
  <2> QED BY <1>3, <1>11, FoldsAgree
<1> HIDE DEF run, S
<1> QED BY <1>1, <1>12

LEMMA CapacityFacts ==
  ASSUME NEW in, Typed(in)
  PROVE  Capacity(in) \in [Sleeves -> Nat]
<1>1. ASSUME NEW v \in Sleeves
      PROVE  SleeveTarget(in, v) + Borrowing(in).borrowed[v] \in Nat
  <2>1. Borrowing(in).borrowed[v] \in Nat
    BY BorrowingFacts DEF Loans
  <2> QED BY <2>1, NavFacts
<1> QED BY <1>1 DEF Capacity

-----------------------------------------------------------------------------
(* Sizing one BUY.                                                          *)

BookRecord ==
  [qty : [Stocks -> Nat], value : [Stocks -> Nat], exposure : [Sleeves -> Nat],
   drawdown : [Sleeves -> Nat], cash : Nat, nav : Nat]

RequestFine(in, r) ==
  /\ r.sym \in Stocks /\ r.sleeve \in Sleeves /\ r.source \in {"trader", "core"}
  /\ r.score \in Int /\ r.rank \in Nat /\ r.target \in Nat /\ r.buffer \in Nat
  /\ r.quantity = in.held[r.sym] /\ r.value = ValueHeld(in, r.sym)
  /\ r.price = LatestClose(in, r.sym)

(* The name that binds is one whose room is the least. *)
LEMMA BindingIsLeast ==
  ASSUME NEW N \in Nat \ {0}, NEW names, DOMAIN names = 1..N, Len(names) = N,
         NEW rooms, \A n \in ToSet(names) : rooms[n] \in Int
  PROVE  /\ Binding(rooms, names) \in ToSet(names)
         /\ \A n \in ToSet(names) : rooms[Binding(rooms, names)] <= rooms[n]
<1> DEFINE values == {rooms[n] : n \in ToSet(names)}
           least == Min(values)
           hits == {i \in 1..Len(names) : rooms[names[i]] = least}
<1>1. IsFiniteSet(1..N)
  BY FS_Interval
<1>2. values = {rooms[names[i]] : i \in 1..N} /\ values \in SUBSET Int /\ values # {}
  <2>1. ToSet(names) = {names[i] : i \in 1..N}
    BY DEF ToSet
  <2>2. values = {rooms[names[i]] : i \in 1..N}
    BY <2>1
  <2>3. 1 \in 1..N
    OBVIOUS
  <2>4. values # {}
    BY <2>2, <2>3
  <2> QED BY <2>2, <2>4
<1>3. IsFiniteSet(values)
  <2> DEFINE f == [i \in 1..N |-> rooms[names[i]]]
  <2>1. f \in Surjection(1..N, values)
    <3> HIDE DEF values
    <3> QED BY <1>2 DEF Surjection
  <2> HIDE DEF f, values
  <2> QED BY <1>1, <2>1, FS_Surjection
<1>4. least \in values /\ \A y \in values : least <= y
  <2> HIDE DEF values
  <2> QED BY <1>2, <1>3, LeastOf
<1> HIDE DEF least
<1>5. hits # {} /\ hits \in SUBSET (1..N)
  BY <1>2, <1>4
<1>6. IsFiniteSet(hits) /\ hits \in SUBSET Int
  <2>1. 1..N \in SUBSET Int
    OBVIOUS
  <2> HIDE DEF hits
  <2>2. IsFiniteSet(hits)
    BY <1>1, <1>5, FS_Subset
  <2> QED BY <1>5, <2>1, <2>2
<1>7. Min(hits) \in hits
  <2> HIDE DEF hits
  <2> QED BY <1>5, <1>6, LeastOf
<1>8. Binding(rooms, names) = names[Min(hits)]
  <2>1. Binding(rooms, names) = names[IF hits # {} THEN Min(hits) ELSE 0]
    BY DEF Binding, SelectInSeq, least
  <2> HIDE DEF hits
  <2> QED BY <1>5, <2>1
<1>9. rooms[Binding(rooms, names)] = least /\ Binding(rooms, names) \in ToSet(names)
  <2> DEFINE k == Min(hits)
  <2>1. k \in 1..N /\ rooms[names[k]] = least
    <3> HIDE DEF k
    <3>1. k \in hits
      BY <1>7 DEF k
    <3> QED BY <3>1
  <2> HIDE DEF k, hits
  <2> QED BY <1>8, <2>1 DEF k, ToSet
<1> QED BY <1>4, <1>9

LEMMA NamesListed ==
  /\ DOMAIN RoomNames = 1..10 /\ Len(RoomNames) = 10
  /\ ToSet(RoomNames) =
       {"cash_buffer", "graph_concentration", "open_positions", "requested_notional",
        "sector_concentration", "sleeve_capacity", "sleeve_trade_risk_cap",
        "stock_exposure", "total_open_trade_risk", "trade_risk"}
  /\ DOMAIN FallbackNames = 1..4 /\ Len(FallbackNames) = 4
  /\ ToSet(FallbackNames) =
       {"available_cash", "open_positions", "requested_notional", "stock_exposure"}
BY DEF RoomNames, FallbackNames, ToSet

(* Dividing an amount by a price that is at least the latest one leaves     *)
(* shares whose worth at the latest price fits the amount.                  *)
LEMMA SharesFit ==
  ASSUME NEW room \in Int, NEW p \in Nat \ {0}, NEW price \in Nat, price <= p,
         room \div p > 0
  PROVE  price * (room \div p) <= room
<1> DEFINE q == room \div p
<1>1. q \in Nat /\ p * q <= room
  <2>1. q \in Int
    OBVIOUS
  <2> QED BY <2>1
<1> HIDE DEF q
<1>2. price * q <= p * q
  <2>1. (p - price) * q \in Nat /\ (p - price) * q = p * q - price * q
    BY <1>1
  <2>2. p * q \in Int /\ price * q \in Int
    BY <1>1
  <2> QED BY <2>1, <2>2
<1>3. p * q \in Int /\ price * q \in Int
  BY <1>1
<1>4. price * q <= room
  BY <1>1, <1>2, <1>3
<1> QED BY <1>4 DEF q

LEMMA CountNat ==
  ASSUME NEW S \in SUBSET Stocks, NEW q
  PROVE  Cardinality({t \in S : q[t] > 0}) \in Nat
BY SizingAssumption, FS_Subset, FS_CardinalityType

LEMMA ScoreNat ==
  ASSUME NEW in, NEW r, RequestFine(in, r), NEW b \in BookRecord
  PROVE  Score(r, b) \in Nat
<1> DEFINE held(S) == Cardinality({t \in S : b.qty[t] > 0})
           x == held(Peers(r.sym, SectorOf))
           y == held(Peers(r.sym, ClusterOf))
<1>1. x \in Nat /\ y \in Nat
  <2>1. Peers(r.sym, SectorOf) \in SUBSET Stocks /\ Peers(r.sym, ClusterOf) \in SUBSET Stocks
    BY DEF Peers
  <2> QED BY <2>1, CountNat
<1>2. Score(r, b) = Above0(r.score - Policy.sectorPenalty * x - Policy.clusterPenalty * y)
  BY DEF Score
<1> HIDE DEF x, y
<1>3. Policy.sectorPenalty * x \in Nat /\ Policy.clusterPenalty * y \in Nat
  BY <1>1, SizingAssumption
<1>4. r.score - Policy.sectorPenalty * x - Policy.clusterPenalty * y \in Int
  BY <1>3 DEF RequestFine
<1> QED BY <1>2, <1>4, AboveZero

LEMMA BandRiskNat ==
  ASSUME NEW n \in Nat
  PROVE  BandRisk(n) \in Nat
<1>1. /\ Policy.rejectBelow \in Nat /\ Policy.normalFrom \in Nat /\ Policy.strongFrom \in Nat
      /\ Policy.normalRisk \in Nat /\ Policy.strongRisk \in Nat
  BY SizingAssumption
<1>2. Policy.normalRisk \div 2 \in Nat
  BY <1>1
<1> QED BY <1>1, <1>2 DEF BandRisk

LEMMA ScaleInt ==
  ASSUME NEW sleeve, NEW b
  PROVE  ScalePct(sleeve, b) \in Int
<1> DEFINE G == {h \in Exceeded(b) : h.action = "reduce"}
           keeps == {g.keep : g \in G}
           own == IF b.drawdown[sleeve] > Policy.sleeveReduceAbove
                  THEN {100 - Policy.sleeveReduceBy} ELSE {}
           all == {100} \cup keeps \cup own
<1>1. IsFiniteSet(keeps) /\ keeps \in SUBSET Int
  <2> DEFINE f == [g \in G |-> g.keep]
  <2>1. IsFiniteSet(G)
    BY SizingAssumption, FS_Subset DEF Exceeded
  <2>2. f \in Surjection(G, keeps)
    BY DEF Surjection
  <2>3. keeps \in SUBSET Int
    BY SizingAssumption DEF Exceeded
  <2> HIDE DEF f, keeps, G
  <2> QED BY <2>1, <2>2, <2>3, FS_Surjection
<1>2. IsFiniteSet(own) /\ own \in SUBSET Int
  <2>1. own = {} \/ own = {100 - Policy.sleeveReduceBy}
    OBVIOUS
  <2>2. 100 - Policy.sleeveReduceBy \in Int
    BY SizingAssumption
  <2> DEFINE n == 100 - Policy.sleeveReduceBy
  <2>3. IsFiniteSet({}) /\ IsFiniteSet({n})
    BY FS_EmptySet, FS_Singleton
  <2> HIDE DEF own, n
  <2>4. own = {} \/ own = {n}
    BY <2>1 DEF n
  <2>5. n \in Int
    BY <2>2 DEF n
  <2> QED BY <2>3, <2>4, <2>5
<1>3. IsFiniteSet(all) /\ all \in SUBSET Int /\ all # {}
  <2>1. IsFiniteSet({100})
    BY FS_Singleton
  <2> HIDE DEF keeps, own
  <2>2. IsFiniteSet({100} \cup keeps)
    BY <1>1, <2>1, FS_Union
  <2>3. IsFiniteSet(all)
    BY <1>2, <2>2, FS_Union
  <2> QED BY <1>1, <1>2, <2>3
<1>4. Min(all) \in all
  <2> HIDE DEF all
  <2> QED BY <1>3, LeastOf
<1>5. ScalePct(sleeve, b) = Min(all)
  BY DEF ScalePct
<1> HIDE DEF all
<1> QED BY <1>3, <1>4, <1>5

LEMMA SizingPriceFacts ==
  ASSUME NEW in, Typed(in), NEW r, RequestFine(in, r)
  PROVE  /\ r.price \in Nat /\ SizingPrice(r) \in Nat /\ r.price <= SizingPrice(r)
         /\ RiskPerShare(r) \in Nat
<1>1. r.price \in Nat /\ r.buffer \in Nat
  BY ValueFacts DEF RequestFine
<1> DEFINE p == r.price * (100 + r.buffer)
           s == p \div 100
<1>2. p \in Nat /\ p >= 100 * r.price
  <2>1. r.price * r.buffer \in Nat /\ p = 100 * r.price + r.price * r.buffer
    BY <1>1
  <2> HIDE DEF p
  <2> QED BY <1>1, <2>1
<1>3. SizingPrice(r) = s
  BY DEF SizingPrice
<1> HIDE DEF p
<1>4. s \in Nat /\ r.price <= s
  BY <1>1, <1>2
<1> HIDE DEF s
<1> DEFINE x == s * Policy.stopLoss
<1>5. x \in Nat
  BY <1>4, SizingAssumption
<1>6. RiskPerShare(r) = x \div 100
  BY <1>3 DEF RiskPerShare
<1> HIDE DEF x
<1>7. x \div 100 \in Nat
  BY <1>5
<1> QED BY <1>1, <1>3, <1>4, <1>6, <1>7

LEMMA RiskToNotionalNat ==
  ASSUME NEW in, Typed(in), NEW r, RequestFine(in, r), NEW risk \in Int, NEW price \in Nat
  PROVE  RiskToNotional(risk, price, r) \in Nat
<1>1. RiskPerShare(r) \in Nat
  BY SizingPriceFacts
<1>2. CASE risk <= 0 \/ RiskPerShare(r) <= 0
  BY <1>2 DEF RiskToNotional
<1>3. CASE ~(risk <= 0 \/ RiskPerShare(r) <= 0)
  <2> DEFINE k == risk \div RiskPerShare(r)
  <2>1. k \in Nat
    <3> DEFINE x == RiskPerShare(r)
    <3>1. x \in Nat /\ x > 0 /\ risk > 0
      BY <1>1, <1>3
    <3> HIDE DEF x
    <3>2. risk \div x \in Nat
      BY <3>1
    <3> QED BY <3>2 DEF x
  <2>2. RiskToNotional(risk, price, r) = price * k
    BY <1>3 DEF RiskToNotional
  <2> HIDE DEF k
  <2>3. price * k \in Nat
    BY <2>1
  <2> QED BY <2>2, <2>3
<1> QED BY <1>2, <1>3

LEMMA ValueOfNat ==
  ASSUME NEW b \in BookRecord, NEW S \in SUBSET Stocks
  PROVE  ValueOf(S, b) \in Nat
<1>1. IsFiniteSet(S) /\ \A s \in S : b.value[s] \in Nat
  BY SizingAssumption, FS_Subset DEF BookRecord
<1> DEFINE f == b.value
<1> HIDE DEF f
<1>2. SumOver(f, S) \in Nat
  BY <1>1, SumNatural DEF f
<1> QED BY <1>2 DEF ValueOf, f

LEMMA GroupRoomNat ==
  ASSUME NEW b \in BookRecord, NEW s \in Stocks, NEW groupOf, NEW cap \in Nat
  PROVE  GroupRoom(s, groupOf, cap, b) \in Nat
<1>1. b.nav \in Nat
  BY DEF BookRecord
<1>2. Pct(cap, b.nav) \in Nat
  BY <1>1, PctFacts, Zenon
<1>3. ValueOf(Peers(s, groupOf), b) \in Nat
  <2>1. Peers(s, groupOf) \in SUBSET Stocks
    BY DEF Peers
  <2> QED BY <2>1, ValueOfNat
<1>4. Pct(cap, b.nav) - ValueOf(Peers(s, groupOf), b) \in Int
  BY <1>2, <1>3
<1>5. Above0(Pct(cap, b.nav) - ValueOf(Peers(s, groupOf), b)) \in Nat
  BY <1>4, AboveZero
<1> QED BY <1>5 DEF GroupRoom, Unlimited

LEMMA OpenPositionRoomNat ==
  ASSUME NEW r, NEW b, NEW limit
  PROVE  OpenPositionRoom(r, b, limit) \in Nat
BY DEF OpenPositionRoom, Unlimited

LEMMA RequestedNat ==
  ASSUME NEW in, Typed(in), NEW r, RequestFine(in, r)
  PROVE  Requested(r) \in Nat
<1>1. r.target \in Nat /\ r.value \in Nat
  BY ValueFacts DEF RequestFine
<1>2. r.target - r.value \in Int
  BY <1>1
<1> QED BY <1>2, AboveZero DEF Requested

LEMMA StockRoomFacts ==
  ASSUME NEW in, Typed(in), NEW r, RequestFine(in, r), NEW n \in Nat
  PROVE  /\ Above0(n - r.value) \in Nat
         /\ Above0(n - r.value) > 0 => Above0(n - r.value) = n - r.value
<1>1. r.value \in Nat
  BY ValueFacts DEF RequestFine
<1>2. n - r.value \in Int
  BY <1>1
<1> QED BY <1>2, AboveZero

LEMMA RoomsNat ==
  ASSUME NEW in, Typed(in), NEW r, RequestFine(in, r), NEW b \in BookRecord,
         NEW capacities \in [Sleeves -> Nat]
  PROVE  \A n \in ToSet(RoomNames) : Rooms(r, b, capacities)[n] \in Nat
<1> DEFINE pctRisk == Pct(BandRisk(Score(r, b)), b.nav)
           risk == (pctRisk * VolatilityPct[r.sym] * ScalePct(r.sleeve, b)) \div 10000
           openRisk == (ValueOf(Stocks \ {r.sym}, b) * Policy.openRisk) \div 100
           rooms == Rooms(r, b, capacities)
<1>1. /\ rooms.cash_buffer = CashRoom(b)
      /\ rooms.graph_concentration = GroupRoom(r.sym, ClusterOf, Policy.clusterCap, b)
      /\ rooms.open_positions = OpenPositionRoom(r, b, Policy.maxOpen)
      /\ rooms.requested_notional = Requested(r)
      /\ rooms.sector_concentration = GroupRoom(r.sym, SectorOf, Policy.sectorCap, b)
      /\ rooms.sleeve_capacity = Above0(capacities[r.sleeve] - b.exposure[r.sleeve])
      /\ rooms.sleeve_trade_risk_cap =
           IF r.sleeve # "experimental" THEN Unlimited
           ELSE RiskToNotional(Pct(Policy.experimentalRisk, b.nav), SizingPrice(r), r)
      /\ rooms.stock_exposure = StockRoom(r, b)
      /\ rooms.total_open_trade_risk =
           RiskToNotional(Above0(Pct(Policy.totalRisk, b.nav) - openRisk), SizingPrice(r), r)
      /\ rooms.trade_risk = RiskToNotional(risk, r.price, r)
  BY DEF Rooms
<1> HIDE DEF rooms
<1>2. /\ b.nav \in Nat /\ b.cash \in Nat /\ b.exposure[r.sleeve] \in Nat
      /\ capacities[r.sleeve] \in Nat
  BY DEF BookRecord, RequestFine
<1>3. /\ Pct(Policy.cashBuffer, b.nav) \in Nat /\ Pct(Policy.experimentalRisk, b.nav) \in Nat
      /\ Pct(Policy.stockCap, b.nav) \in Nat /\ Pct(Policy.totalRisk, b.nav) \in Nat
  <2>1. /\ Policy.cashBuffer \in Nat /\ Policy.experimentalRisk \in Nat
        /\ Policy.stockCap \in Nat /\ Policy.totalRisk \in Nat
    BY SizingAssumption
  <2> QED BY <1>2, <2>1, PctFacts, Zenon
<1>4. rooms.cash_buffer \in Nat
  <2>1. b.cash - Pct(Policy.cashBuffer, b.nav) \in Int
    BY <1>2, <1>3
  <2>2. CashRoom(b) \in Nat
    BY <2>1, AboveZero DEF CashRoom
  <2> QED BY <1>1, <2>2
<1>5. rooms.graph_concentration \in Nat /\ rooms.sector_concentration \in Nat
  <2>1. Policy.clusterCap \in Nat /\ Policy.sectorCap \in Nat /\ r.sym \in Stocks
    BY SizingAssumption DEF RequestFine
  <2>2. /\ GroupRoom(r.sym, ClusterOf, Policy.clusterCap, b) \in Nat
        /\ GroupRoom(r.sym, SectorOf, Policy.sectorCap, b) \in Nat
    BY <2>1, GroupRoomNat, Zenon
  <2> QED BY <1>1, <2>2
<1>6. rooms.open_positions \in Nat /\ rooms.requested_notional \in Nat
  <2>1. OpenPositionRoom(r, b, Policy.maxOpen) \in Nat /\ Requested(r) \in Nat
    BY OpenPositionRoomNat, RequestedNat
  <2> QED BY <1>1, <2>1
<1>7. rooms.sleeve_capacity \in Nat
  <2>1. capacities[r.sleeve] - b.exposure[r.sleeve] \in Int
    BY <1>2
  <2>2. Above0(capacities[r.sleeve] - b.exposure[r.sleeve]) \in Nat
    BY <2>1, AboveZero
  <2> QED BY <1>1, <2>2
<1>8. rooms.stock_exposure \in Nat
  <2>1. StockRoom(r, b) \in Nat
    BY <1>3, StockRoomFacts DEF StockRoom
  <2> QED BY <1>1, <2>1
<1>9. SizingPrice(r) \in Nat /\ r.price \in Nat
  BY SizingPriceFacts
<1>10. rooms.sleeve_trade_risk_cap \in Nat
  <2>1. Pct(Policy.experimentalRisk, b.nav) \in Int
    BY <1>3
  <2>2. RiskToNotional(Pct(Policy.experimentalRisk, b.nav), SizingPrice(r), r) \in Nat
    BY <1>9, <2>1, RiskToNotionalNat
  <2> QED BY <1>1, <2>2 DEF Unlimited
<1>11. rooms.total_open_trade_risk \in Nat
  <2>1. openRisk \in Int
    <3> DEFINE x == ValueOf(Stocks \ {r.sym}, b) * Policy.openRisk
    <3>1. x \in Int
      <4>1. ValueOf(Stocks \ {r.sym}, b) \in Nat /\ Policy.openRisk \in Nat
        BY ValueOfNat, SizingAssumption
      <4> QED BY <4>1
    <3> HIDE DEF x
    <3>2. x \div 100 \in Int
      BY <3>1
    <3> QED BY <3>2 DEF x
  <2> HIDE DEF openRisk
  <2>2. Pct(Policy.totalRisk, b.nav) - openRisk \in Int
    BY <1>3, <2>1
  <2>3. Above0(Pct(Policy.totalRisk, b.nav) - openRisk) \in Int
    BY <2>2, AboveZero
  <2> QED BY <1>1, <1>9, <2>3, RiskToNotionalNat
<1>12. rooms.trade_risk \in Nat
  <2>1. pctRisk \in Nat
    <3>1. BandRisk(Score(r, b)) \in Nat
      BY ScoreNat, BandRiskNat
    <3> QED BY <1>2, <3>1, PctFacts, Zenon
  <2>2. VolatilityPct[r.sym] \in Nat /\ ScalePct(r.sleeve, b) \in Int
    BY SizingAssumption, ScaleInt DEF RequestFine
  <2> DEFINE x == pctRisk * VolatilityPct[r.sym] * ScalePct(r.sleeve, b)
  <2>3. x \in Int
    <3> HIDE DEF pctRisk
    <3> QED BY <2>1, <2>2
  <2>4. risk = x \div 10000
    OBVIOUS
  <2> HIDE DEF x, risk
  <2>5. risk \in Int
    BY <2>3, <2>4
  <2> QED BY <1>1, <1>9, <2>5, RiskToNotionalNat
<1>13. \A n \in ToSet(RoomNames) : rooms[n] \in Nat
  BY <1>4, <1>5, <1>6, <1>7, <1>8, <1>10, <1>11, <1>12, NamesListed
<1> QED BY <1>13 DEF rooms

(* The rooms an approved amount is known to fit.                            *)
DecisionFine(r, d) ==
  /\ d.sym = r.sym /\ d.quantity \in Nat /\ d.approved = r.price * d.quantity
  /\ d.approved \in Nat
  /\ d.quantity > 0 => d.approved > 0 /\ r.price > 0

LEMMA SizedFacts ==
  ASSUME NEW in, Typed(in), NEW r, RequestFine(in, r), NEW b \in BookRecord,
         NEW capacities \in [Sleeves -> Nat]
  PROVE  LET d == Sized(r, b, capacities)
         IN  /\ DecisionFine(r, d) /\ d.sleeve = r.sleeve
             /\ d.quantity > 0 =>
                  /\ d.approved <= CashRoom(b)
                  /\ d.approved <= StockRoom(r, b)
                  /\ d.approved <= GroupRoom(r.sym, SectorOf, Policy.sectorCap, b)
                  /\ d.approved <= Above0(capacities[r.sleeve] - b.exposure[r.sleeve])
<1> DEFINE d == Sized(r, b, capacities)
           rooms == Rooms(r, b, capacities)
           binding == Binding(rooms, RoomNames)
           quantity == rooms[binding] \div SizingPrice(r)
           Fits(e) == /\ e.approved <= CashRoom(b) /\ e.approved <= StockRoom(r, b)
                      /\ e.approved <= GroupRoom(r.sym, SectorOf, Policy.sectorCap, b)
                      /\ e.approved <= Above0(capacities[r.sleeve] - b.exposure[r.sleeve])
<1>1. r.price \in Nat /\ SizingPrice(r) \in Nat /\ r.price <= SizingPrice(r)
      /\ RiskPerShare(r) \in Nat
  BY SizingPriceFacts
<1>2. \/ \E why : d = Refused(r, why)
      \/ /\ r.price > 0
         /\ d.sym = r.sym /\ d.sleeve = r.sleeve /\ d.quantity = quantity
         /\ d.approved = r.price * quantity
  BY <1>1 DEF Sized
<1> HIDE DEF d
<1>3. CASE \E why : d = Refused(r, why)
  <2>1. d.sym = r.sym /\ d.sleeve = r.sleeve /\ d.approved = 0 /\ d.quantity = 0
    BY <1>3 DEF Refused
  <2>2. DecisionFine(r, d)
    BY <1>1, <2>1 DEF DecisionFine
  <2> QED BY <2>1, <2>2 DEF d
<1>4. CASE /\ r.price > 0
           /\ d.sym = r.sym /\ d.sleeve = r.sleeve /\ d.quantity = quantity
           /\ d.approved = r.price * quantity
  <2>1. /\ binding \in ToSet(RoomNames)
        /\ \A n \in ToSet(RoomNames) : rooms[binding] <= rooms[n]
        /\ \A n \in ToSet(RoomNames) : rooms[n] \in Nat
    <3>1. \A n \in ToSet(RoomNames) : rooms[n] \in Nat
      BY RoomsNat
    <3> HIDE DEF rooms
    <3>2. 10 \in Nat \ {0} /\ \A n \in ToSet(RoomNames) : rooms[n] \in Int
      BY <3>1
    <3>3. DOMAIN RoomNames = 1..10 /\ Len(RoomNames) = 10
      BY NamesListed
    <3>4. /\ Binding(rooms, RoomNames) \in ToSet(RoomNames)
          /\ \A n \in ToSet(RoomNames) : rooms[Binding(rooms, RoomNames)] <= rooms[n]
      BY <3>2, <3>3, BindingIsLeast, Zenon
    <3> QED BY <3>1, <3>4
  <2> DEFINE room == rooms[binding]
  <2>2. /\ room \in Int /\ room <= CashRoom(b) /\ room <= StockRoom(r, b)
        /\ room <= GroupRoom(r.sym, SectorOf, Policy.sectorCap, b)
        /\ room <= Above0(capacities[r.sleeve] - b.exposure[r.sleeve])
        /\ room <= Requested(r)
    <3>1. /\ rooms["cash_buffer"] = CashRoom(b) /\ rooms["stock_exposure"] = StockRoom(r, b)
          /\ rooms["sector_concentration"] = GroupRoom(r.sym, SectorOf, Policy.sectorCap, b)
          /\ rooms["sleeve_capacity"] = Above0(capacities[r.sleeve] - b.exposure[r.sleeve])
          /\ rooms["requested_notional"] = Requested(r)
      BY DEF Rooms
    <3>2. /\ {"cash_buffer", "stock_exposure", "sector_concentration", "sleeve_capacity",
              "requested_notional"} \subseteq ToSet(RoomNames)
      BY NamesListed
    <3> HIDE DEF rooms, binding
    <3> QED BY <2>1, <3>1, <3>2
  <2>10. /\ CashRoom(b) \in Int /\ StockRoom(r, b) \in Int
         /\ GroupRoom(r.sym, SectorOf, Policy.sectorCap, b) \in Int
         /\ Above0(capacities[r.sleeve] - b.exposure[r.sleeve]) \in Int
    <3>1. /\ rooms["cash_buffer"] = CashRoom(b) /\ rooms["stock_exposure"] = StockRoom(r, b)
          /\ rooms["sector_concentration"] = GroupRoom(r.sym, SectorOf, Policy.sectorCap, b)
          /\ rooms["sleeve_capacity"] = Above0(capacities[r.sleeve] - b.exposure[r.sleeve])
      BY DEF Rooms
    <3>2. {"cash_buffer", "stock_exposure", "sector_concentration", "sleeve_capacity"}
            \subseteq ToSet(RoomNames)
      BY NamesListed
    <3> HIDE DEF rooms
    <3> QED BY <2>1, <3>1, <3>2
  <2>3. room \in Nat
    <3> HIDE DEF rooms, binding
    <3> QED BY <2>1
  <2> DEFINE p == SizingPrice(r)
  <2> HIDE DEF room, p
  <2>4. p \in Nat \ {0} /\ r.price <= p /\ quantity = room \div p
    BY <1>1, <1>4 DEF p, room
  <2> HIDE DEF quantity
  <2>5. quantity \in Nat
    BY <2>3, <2>4
  <2>6. r.price * quantity \in Nat /\ (quantity > 0 => r.price * quantity > 0)
    BY <1>1, <1>4, <2>5
  <2>7. DecisionFine(r, d)
    BY <1>4, <2>5, <2>6 DEF DecisionFine
  <2>8. quantity > 0 => r.price * quantity <= room
    BY <1>1, <2>2, <2>4, SharesFit
  <2>9. ASSUME d.quantity > 0 PROVE Fits(d)
    <3>1. d.approved <= room /\ d.approved \in Int
      BY <1>4, <2>6, <2>8, <2>9
    <3>2. /\ CashRoom(b) \in Int /\ StockRoom(r, b) \in Int
          /\ GroupRoom(r.sym, SectorOf, Policy.sectorCap, b) \in Int
          /\ Above0(capacities[r.sleeve] - b.exposure[r.sleeve]) \in Int
      BY <2>10
    <3> QED BY <2>2, <3>1, <3>2
  <2> QED BY <1>4, <2>7, <2>9 DEF d
<1> QED BY <1>2, <1>3, <1>4

LEMMA FallbackFacts ==
  ASSUME NEW in, Typed(in), NEW r, RequestFine(in, r), NEW b \in BookRecord
  PROVE  LET d == FallbackSized(r, b)
         IN  /\ DecisionFine(r, d) /\ d.sleeve \in {r.sleeve, "settings_fallback"}
             /\ d.quantity > 0 =>
                  /\ d.sleeve = "settings_fallback"
                  /\ d.approved <= Above0(b.cash)
                  /\ d.approved <= Above0(Pct(Policy.fallbackStockCap, b.nav) - r.value)
<1> DEFINE d == FallbackSized(r, b)
           stock == Above0(Pct(Policy.fallbackStockCap, b.nav) - r.value)
           rooms == [available_cash |-> Above0(b.cash),
                     open_positions |-> OpenPositionRoom(r, b, Policy.fallbackMaxOpen),
                     requested_notional |-> Requested(r),
                     stock_exposure |-> stock]
           binding == Binding(rooms, FallbackNames)
           quantity == rooms[binding] \div r.price
<1>1. r.price \in Nat
  BY SizingPriceFacts
<1>2. \/ \E why : d = Refused(r, why)
      \/ /\ r.price > 0
         /\ d.sym = r.sym /\ d.sleeve = "settings_fallback" /\ d.quantity = quantity
         /\ d.approved = r.price * quantity
  BY <1>1 DEF FallbackSized
<1> HIDE DEF d
<1>3. CASE \E why : d = Refused(r, why)
  <2>1. d.sym = r.sym /\ d.sleeve = r.sleeve /\ d.approved = 0 /\ d.quantity = 0
    BY <1>3 DEF Refused
  <2>2. DecisionFine(r, d)
    BY <1>1, <2>1 DEF DecisionFine
  <2> QED BY <2>1, <2>2 DEF d
<1>4. CASE /\ r.price > 0
           /\ d.sym = r.sym /\ d.sleeve = "settings_fallback" /\ d.quantity = quantity
           /\ d.approved = r.price * quantity
  <2>1. stock \in Nat /\ Above0(b.cash) \in Nat
    <3>1. b.nav \in Nat /\ b.cash \in Int
      BY DEF BookRecord
    <3>2. Policy.fallbackStockCap \in Nat
      BY SizingAssumption
    <3>3. Pct(Policy.fallbackStockCap, b.nav) \in Nat
      BY <3>1, <3>2, PctFacts, Zenon
    <3> QED BY <3>1, <3>3, StockRoomFacts, AboveZero
  <2> HIDE DEF stock
  <2>2. \A n \in ToSet(FallbackNames) : rooms[n] \in Nat
    <3>1. OpenPositionRoom(r, b, Policy.fallbackMaxOpen) \in Nat /\ Requested(r) \in Nat
      BY OpenPositionRoomNat, RequestedNat
    <3> QED BY <2>1, <3>1, NamesListed
  <2>3. binding \in ToSet(FallbackNames) /\ \A n \in ToSet(FallbackNames) : rooms[binding] <= rooms[n]
    <3> HIDE DEF rooms
    <3>1. 4 \in Nat \ {0} /\ \A n \in ToSet(FallbackNames) : rooms[n] \in Int
      BY <2>2
    <3>2. DOMAIN FallbackNames = 1..4 /\ Len(FallbackNames) = 4
      BY NamesListed
    <3>3. /\ Binding(rooms, FallbackNames) \in ToSet(FallbackNames)
          /\ \A n \in ToSet(FallbackNames) : rooms[Binding(rooms, FallbackNames)] <= rooms[n]
      BY <3>1, <3>2, BindingIsLeast, Zenon
    <3> QED BY <3>3
  <2> DEFINE room == rooms[binding]
  <2>4. room \in Nat /\ room <= Above0(b.cash) /\ room <= stock
    <3>1. rooms["available_cash"] = Above0(b.cash) /\ rooms["stock_exposure"] = stock
      OBVIOUS
    <3>2. {"available_cash", "stock_exposure"} \subseteq ToSet(FallbackNames)
      BY NamesListed
    <3> HIDE DEF rooms, binding
    <3> QED BY <2>2, <2>3, <3>1, <3>2
  <2> HIDE DEF room
  <2>5. quantity = room \div r.price
    BY DEF room
  <2> HIDE DEF quantity
  <2>6. quantity \in Nat
    BY <1>1, <1>4, <2>4, <2>5
  <2>7. r.price * quantity \in Nat /\ (quantity > 0 => r.price * quantity > 0)
    BY <1>1, <1>4, <2>6
  <2>8. DecisionFine(r, d)
    BY <1>4, <2>6, <2>7 DEF DecisionFine
  <2>9. quantity > 0 => r.price * quantity <= room
    <3>1. r.price \in Nat \ {0} /\ r.price <= r.price /\ room \in Int
      BY <1>1, <1>4, <2>4
    <3> QED BY <2>5, <3>1, SharesFit
  <2>10. d.quantity > 0 => d.approved <= Above0(b.cash) /\ d.approved <= stock
    BY <1>4, <2>1, <2>4, <2>7, <2>9
  <2> QED BY <1>4, <2>8, <2>10 DEF d, stock
<1> QED BY <1>2, <1>3, <1>4

-----------------------------------------------------------------------------
(* The requests of a run.                                                   *)

LEMMA TraderRequestFine ==
  ASSUME Typed(given), NEW s \in Stocks, given.proposed[s] # "none", NEW buffer \in Nat
  PROVE  /\ RequestFine(given, TraderRequest(s, buffer))
         /\ TraderRequest(s, buffer).sym = s
         /\ TraderRequest(s, buffer).source = "trader"
         /\ TraderRequest(s, buffer).sleeve = StrategySleeve
<1>1. /\ TraderScore[s] \in Int /\ StrategyRank[s] \in Nat /\ StrategySleeve \in Sleeves
      /\ TraderTarget(given, s) \in Nat
  BY AllocationAssumption, PlanAssumption, TraderTargetNat DEF StrategySleeve
<1> QED BY <1>1 DEF TraderRequest, Request, RequestFine

LEMMA CoreRequestFine ==
  ASSUME Typed(given), NEW t \in Trades(given)
  PROVE  /\ RequestFine(given, CoreRequest(t))
         /\ CoreRequest(t).sym = t.sym /\ CoreRequest(t).source = "core"
         /\ CoreRequest(t).sleeve = "core"
<1>1. t.sym \in Stocks /\ t.rank \in Nat /\ t.target \in Nat
  BY TradeFacts DEF TradeFine
<1>2. CoreScore \in Int /\ "core" \in Sleeves /\ Policy.buffer \in Nat
  BY AllocationAssumption, PlanAssumption, SizingAssumption
<1> QED BY <1>1, <1>2 DEF CoreRequest, Request, RequestFine

(* One request a symbol at most; a symbol that is not held and for which    *)
(* there is a request was proposed to be bought or not spoken of.           *)
LEMMA RequestFacts ==
  ASSUME Typed(given), mode \in {"plan", "policy", "fallback"}
  PROVE  /\ IsFiniteSet(Requests)
         /\ \A r \in Requests :
              /\ RequestFine(given, r)
              /\ mode = "plan" => Deployable(given, r.sleeve)
              /\ given.proposed[r.sym] \in {"none", "BUY"}
         /\ \A r, q \in Requests : r.sym = q.sym => r = q
<1> DEFINE buys == {t \in Trades(given) : t.side = "BUY" /\ t.status = "observed"}
           traders == {u \in buys : u.source = "trader"}
           cores == {u \in buys : u.source = "core" /\ given.proposed[u.sym] = "none"}
           asked == {t \in Stocks : given.proposed[t] = "BUY"}
           A == {TraderRequest(t.sym, Policy.buffer) : t \in traders}
           B == {CoreRequest(t) : t \in cores}
           C == {TraderRequest(s, 0) : s \in asked}
<1>1. Requests = IF mode = "plan" THEN A \cup B ELSE C
  BY DEF Requests, PlannedBuys
<1>2. Policy.buffer \in Nat
  BY SizingAssumption
<1>3. ASSUME NEW t \in traders
      PROVE  /\ RequestFine(given, TraderRequest(t.sym, Policy.buffer))
             /\ TraderRequest(t.sym, Policy.buffer).sym = t.sym
             /\ Deployable(given, TraderRequest(t.sym, Policy.buffer).sleeve)
             /\ given.proposed[t.sym] = "BUY"
  <2>1. TradeFine(given, t) /\ t.side = "BUY" /\ t.status = "observed" /\ t.source = "trader"
    BY TradeFacts
  <2>2. t.sym \in Stocks /\ given.proposed[t.sym] = "BUY" /\ Deployable(given, StrategySleeve)
    BY <2>1 DEF TradeFine
  <2> QED BY <1>2, <2>2, TraderRequestFine
<1>4. ASSUME NEW t \in cores
      PROVE  /\ RequestFine(given, CoreRequest(t)) /\ CoreRequest(t).sym = t.sym
             /\ Deployable(given, CoreRequest(t).sleeve)
             /\ given.proposed[t.sym] = "none"
  <2>1. /\ TradeFine(given, t) /\ t.side = "BUY" /\ t.status = "observed" /\ t.source = "core"
        /\ t \in Trades(given)
    BY TradeFacts
  <2>2. Deployable(given, "core")
    BY <2>1 DEF TradeFine
  <2> QED BY <2>1, <2>2, CoreRequestFine
<1>5. ASSUME NEW s \in asked
      PROVE  RequestFine(given, TraderRequest(s, 0)) /\ TraderRequest(s, 0).sym = s
  <2>1. s \in Stocks /\ given.proposed[s] # "none" /\ 0 \in Nat
    OBVIOUS
  <2> QED BY <2>1, TraderRequestFine
<1>6. IsFiniteSet(A) /\ IsFiniteSet(B) /\ IsFiniteSet(C)
  <2> DEFINE f == [t \in traders |-> TraderRequest(t.sym, Policy.buffer)]
             g == [t \in cores |-> CoreRequest(t)]
             h == [s \in asked |-> TraderRequest(s, 0)]
  <2>1. IsFiniteSet(traders) /\ IsFiniteSet(cores) /\ IsFiniteSet(asked)
    BY TradeFacts, SizingAssumption, FS_Subset
  <2>2. f \in Surjection(traders, A)
    <3> HIDE DEF traders
    <3> QED BY DEF Surjection
  <2>3. g \in Surjection(cores, B)
    <3> HIDE DEF cores
    <3> QED BY DEF Surjection
  <2>4. h \in Surjection(asked, C)
    <3> HIDE DEF asked
    <3> QED BY DEF Surjection
  <2> HIDE DEF f, g, h, traders, cores, asked, A, B, C
  <2> QED BY <2>1, <2>2, <2>3, <2>4, FS_Surjection
<1>7. IsFiniteSet(Requests)
  <2> HIDE DEF A, B, C
  <2> QED BY <1>1, <1>6, FS_Union
<1>8. ASSUME NEW r \in Requests
      PROVE  \/ mode = "plan" /\ \E t \in traders : r = TraderRequest(t.sym, Policy.buffer)
             \/ mode = "plan" /\ \E t \in cores : r = CoreRequest(t)
             \/ mode # "plan" /\ \E s \in asked : r = TraderRequest(s, 0)
  <2> HIDE DEF traders, cores, asked
  <2> QED BY <1>1
<1>9. ASSUME NEW r \in Requests
      PROVE  /\ RequestFine(given, r)
             /\ mode = "plan" => Deployable(given, r.sleeve)
             /\ given.proposed[r.sym] \in {"none", "BUY"}
  <2>1. CASE mode = "plan" /\ \E t \in traders : r = TraderRequest(t.sym, Policy.buffer)
    <3> HIDE DEF traders
    <3> QED BY <1>3, <2>1
  <2>2. CASE mode = "plan" /\ \E t \in cores : r = CoreRequest(t)
    <3> HIDE DEF cores
    <3> QED BY <1>4, <2>2
  <2>3. CASE mode # "plan" /\ \E s \in asked : r = TraderRequest(s, 0)
    <3>1. PICK s \in asked : r = TraderRequest(s, 0)
      BY <2>3
    <3>2. given.proposed[s] = "BUY" /\ r.sym = s /\ RequestFine(given, r)
      BY <1>5, <3>1
    <3> QED BY <2>3, <3>2
  <2> QED BY <1>8, <2>1, <2>2, <2>3
<1>10. ASSUME NEW r \in Requests, NEW q \in Requests, r.sym = q.sym PROVE r = q
  <2>1. CASE mode # "plan"
    <3>1. PICK s \in asked : r = TraderRequest(s, 0)
      BY <1>8, <2>1
    <3>2. PICK t \in asked : q = TraderRequest(t, 0)
      BY <1>8, <2>1
    <3> QED BY <1>5, <1>10, <3>1, <3>2
  <2>2. CASE mode = "plan"
    <3>1. ASSUME NEW t \in traders, r = TraderRequest(t.sym, Policy.buffer),
                 NEW u \in traders, q = TraderRequest(u.sym, Policy.buffer)
          PROVE  r = q
      <4>1. t.sym = u.sym
        <5> HIDE DEF traders
        <5> QED BY <1>3, <1>10, <3>1
      <4> QED BY <3>1, <4>1
    <3>2. ASSUME NEW t \in cores, r = CoreRequest(t), NEW u \in cores, q = CoreRequest(u)
          PROVE  r = q
      <4>1. t.sym = u.sym
        <5> HIDE DEF cores
        <5> QED BY <1>4, <1>10, <3>2
      <4>2. t = u
        <5>1. t \in Trades(given) /\ u \in Trades(given) /\ t.source = "core" /\ u.source = "core"
          OBVIOUS
        <5> QED BY <4>1, <5>1, TradeFacts
      <4> QED BY <3>2, <4>2
    <3>3. ASSUME NEW t \in traders, NEW u \in cores,
                 \/ r = TraderRequest(t.sym, Policy.buffer) /\ q = CoreRequest(u)
                 \/ q = TraderRequest(t.sym, Policy.buffer) /\ r = CoreRequest(u)
          PROVE  FALSE
      <4>1. given.proposed[t.sym] = "BUY" /\ given.proposed[u.sym] = "none"
        <5> HIDE DEF traders, cores
        <5> QED BY <1>3, <1>4
      <4>2. t.sym = u.sym
        <5> HIDE DEF traders, cores
        <5> QED BY <1>3, <1>4, <1>10, <3>3
      <4> QED BY <4>1, <4>2
    <3> HIDE DEF traders, cores
    <3> QED BY <1>8, <2>2, <3>1, <3>2, <3>3
  <2> QED BY <2>1, <2>2
<1> QED BY <1>7, <1>9, <1>10

-----------------------------------------------------------------------------
(* The types of a run, and how its ledger comes about.                      *)

Phases == {"idle", "sells", "lifecycle", "order", "buys", "routing", "done"}
Early == {"idle", "sells", "lifecycle", "order"}

Statuses ==
  {"open_position_management", "unchanged_lifecycle", "selected", "allocation_reduced",
   "not_selected", "allocation_rejected"}

RowRecord ==
  [sym : Stocks, rank : Nat, action : Actions \cup {"NO_TRADE"}, status : Statuses,
   target : Nat, quantity : Nat, approved : Nat,
   sleeve : Sleeves \cup {"none", "settings_fallback"}, existing : Nat, proceeds : Nat]

StockCapPct == IF mode = "fallback" THEN Policy.fallbackStockCap ELSE Policy.stockCap

(* A row is a BUY exactly when it was selected; what it takes is its shares *)
(* at the latest close, within the cap of a stock.                          *)
RowFine(row) ==
  /\ row.status \in SelectedStatuses =>
       /\ row.action = "BUY" /\ row.quantity > 0 /\ row.approved > 0
       /\ LatestClose(given, row.sym) > 0
       /\ row.approved = LatestClose(given, row.sym) * row.quantity
       /\ row.target = ValueHeld(given, row.sym) + row.approved
       /\ row.target <= Pct(StockCapPct, Nav(given))
  /\ row.status \notin SelectedStatuses => row.action # "BUY"
  /\ row.status = "open_position_management" => given.held[row.sym] > 0

FineRows == {row \in RowRecord : RowFine(row)}

RunTyped ==
  /\ phase \in Phases /\ mode \in Modes \cup {"none"} /\ (phase # "idle" => mode \in Modes)
  /\ Typed(given) /\ book \in BookRecord /\ book.nav = Nav(given)
  /\ capacity \in [Sleeves -> Nat] /\ funding \in [existing : Nat, proceeds : Nat]
  /\ ledger \in Seq(FineRows)

(* Before the BUYs are sized, the ledger speaks of what is held and of what *)
(* a trader proposed to keep or to sell.                                    *)
LedgerQuiet ==
  /\ phase = "idle" => ledger = <<>>
  /\ phase \in Early =>
       \A i \in DOMAIN ledger :
         /\ ledger[i].status \notin SelectedStatuses
         /\ \/ given.held[ledger[i].sym] > 0
            \/ given.proposed[ledger[i].sym] \notin {"none", "BUY"}

(* Each symbol waits once, and one that is not held has no row yet.         *)
QueueFine ==
  /\ phase \in Early => queue = <<>>
  /\ phase = "buys" =>
       /\ queue \in Seq(Requests)
       /\ \A i, j \in DOMAIN queue : queue[i].sym = queue[j].sym => i = j
       /\ \A i \in DOMAIN queue :
            given.held[queue[i].sym] = 0 => RowsOf(queue[i].sym) = {}

(* The row with which a symbol enters the portfolio is its only one.        *)
EntryOnce ==
  \A i \in DOMAIN ledger :
    ledger[i].status \in SelectedStatuses /\ given.held[ledger[i].sym] = 0
      => RowsOf(ledger[i].sym) = {i}

RunInv == RunTyped /\ LedgerQuiet /\ QueueFine /\ EntryOnce

-----------------------------------------------------------------------------

LEMMA ModeKnown ==
  ASSUME RunTyped, phase # "idle"
  PROVE  mode \in {"plan", "policy", "fallback"}
BY AllocationAssumption DEF RunTyped

LEMMA NoInputTyped == Typed(NoInput)
BY DEF Typed, NoInput, Actions

LEMMA OpeningBookTyped ==
  ASSUME NEW in, Typed(in)
  PROVE  OpeningBook(in) \in BookRecord /\ OpeningBook(in).nav = Nav(in)
         /\ OpeningBook(in).cash = in.cash
<1>1. /\ in.held \in [Stocks -> Nat] /\ in.cash \in Nat /\ Nav(in) \in Nat
      /\ [s \in Stocks |-> ValueHeld(in, s)] \in [Stocks -> Nat]
      /\ [v \in Sleeves |-> Exposure(in, v)] \in [Sleeves -> Nat]
      /\ [v \in Sleeves |-> 0] \in [Sleeves -> Nat]
  BY NavFacts, ValueFacts DEF Typed
<1> QED BY <1>1 DEF OpeningBook, BookRecord

LEMMA RunInvInit == AllocationInit => RunInv
<1> SUFFICES ASSUME AllocationInit PROVE RunInv
  OBVIOUS
<1>1. RunTyped
  <2>1. book \in BookRecord /\ book.nav = Nav(given) /\ Typed(given)
    BY NoInputTyped, OpeningBookTyped DEF AllocationInit
  <2>2. ledger \in Seq(FineRows)
    BY EmptySeq DEF AllocationInit
  <2> QED BY <2>1, <2>2 DEF AllocationInit, RunTyped, Phases
<1>2. LedgerQuiet /\ QueueFine /\ EntryOnce
  <2>1. ledger = <<>> /\ DOMAIN ledger = {} /\ queue = <<>> /\ phase = "idle"
    BY DEF AllocationInit
  <2> QED BY <2>1 DEF LedgerQuiet, QueueFine, EntryOnce
<1> QED BY <1>1, <1>2 DEF RunInv

LEMMA RunInvBegin ==
  ASSUME RunInv, phase = "idle", NEW in \in Inputs, NEW m \in Modes, Begin(in, m)
  PROVE  RunInv'
<1>1. Typed(in) /\ in = given' /\ m = mode' /\ phase' \in {"sells", "lifecycle"}
  BY AllocationAssumption DEF Begin, Typed
<1>2. ledger = <<>> /\ ledger' = <<>> /\ queue' = <<>> /\ DOMAIN ledger' = {}
  BY DEF RunInv, LedgerQuiet, QueueFine, Early, Begin
<1>3. RunTyped'
  <2> DEFINE proceeds == IF m = "plan" THEN Spendable(in) ELSE 0
  <2>1. proceeds \in Nat
    BY <1>1, SpendableNat
  <2>2. /\ book' = [OpeningBook(in) EXCEPT !.cash = @ + proceeds]
        /\ funding' = FundingTracker(in, proceeds)
        /\ capacity' = [v \in Sleeves |-> IF m = "plan" THEN Capacity(in)[v] ELSE SleeveTarget(in, v)]
        /\ pending' = pending
    BY DEF Begin
  <2> HIDE DEF proceeds
  <2>3. book' \in BookRecord /\ book'.nav = Nav(in)
    <3>1. OpeningBook(in) \in BookRecord /\ OpeningBook(in).nav = Nav(in)
      BY <1>1, OpeningBookTyped
    <3>2. OpeningBook(in).cash + proceeds \in Nat
      BY <2>1, <3>1 DEF BookRecord
    <3> HIDE DEF OpeningBook
    <3> QED BY <2>2, <3>1, <3>2 DEF BookRecord
  <2>4. funding' \in [existing : Nat, proceeds : Nat]
    <3>1. in.cash - HardReserve(in) \in Int
      BY <1>1, NavFacts DEF Typed
    <3>2. Above0(in.cash - HardReserve(in)) \in Nat
      BY <3>1, AboveZero
    <3> QED BY <2>1, <2>2, <3>2 DEF FundingTracker
  <2>5. capacity' \in [Sleeves -> Nat]
    <3>1. \A v \in Sleeves : Capacity(in)[v] \in Nat /\ SleeveTarget(in, v) \in Nat
      BY <1>1, CapacityFacts, NavFacts
    <3> QED BY <2>2, <3>1
  <2>6. ledger' \in Seq(FineRows')
    BY <1>2, EmptySeq
  <2>7. Typed(given)'
    BY <1>1
  <2> QED BY <1>1, <2>2, <2>3, <2>4, <2>5, <2>6, <2>7 DEF RunInv, RunTyped, Phases
<1>4. LedgerQuiet' /\ QueueFine' /\ EntryOnce'
  BY <1>1, <1>2 DEF LedgerQuiet, QueueFine, EntryOnce
<1> QED BY <1>3, <1>4 DEF RunInv

LEMMA FineRowsStay ==
  ASSUME UNCHANGED <<given, mode>>
  PROVE  FineRows' = FineRows /\ Requests' = Requests /\ StockCapPct' = StockCapPct
BY DEF FineRows, RowFine, StockCapPct, Requests, PlannedBuys, TraderRequest, CoreRequest, Request

(* Keys of one, of three and of four parts.                                 *)
LEMMA ShortKeys ==
  ASSUME NEW a \in Int, NEW b \in Int, NEW c \in Int, NEW d \in Int
  PROVE  /\ <<a>> \in Seq(Int) /\ Len(<<a>>) = 1
         /\ <<a, b, c>> \in Seq(Int) /\ Len(<<a, b, c>>) = 3
         /\ <<a, b, c, d>> \in Seq(Int) /\ Len(<<a, b, c, d>>) = 4
OBVIOUS

QuietRow(row, s) == row \in FineRows /\ row.sym = s /\ row.status \notin SelectedStatuses

LEMMA LifecycleRowFine ==
  ASSUME Typed(given), NEW s \in Stocks, NEW rank \in Nat,
         NEW action \in {"HOLD", "REDUCE", "EXIT"},
         NEW target \in Nat, NEW quantity \in Nat, NEW approved \in Nat
  PROVE  QuietRow(Row(s, rank, action, LifecycleStatus(s), target, quantity, approved), s)
<1> DEFINE row == Row(s, rank, action, LifecycleStatus(s), target, quantity, approved)
<1>1. LifecycleStatus(s) \in Statuses /\ LifecycleStatus(s) \notin SelectedStatuses
  BY DEF LifecycleStatus, Statuses, SelectedStatuses
<1>2. row \in RowRecord
  BY <1>1 DEF Row, RowRecord, Actions
<1>3. row.sym = s /\ row.status = LifecycleStatus(s) /\ row.action = action
  BY DEF Row
<1> HIDE DEF row
<1>4. row.status = "open_position_management" => given.held[row.sym] > 0
  BY <1>3 DEF LifecycleStatus
<1>5. row \in FineRows
  BY <1>1, <1>2, <1>3, <1>4 DEF FineRows, RowFine
<1>6. QuietRow(row, s)
  BY <1>1, <1>3, <1>5 DEF QuietRow
<1> QED BY <1>6 DEF row

(* Rows that are added before the BUYs are sized.                           *)
LEMMA QuietRows ==
  ASSUME RunInv, phase \in Early, phase' \in Early, phase' # "idle", phase # "idle",
         UNCHANGED <<mode, given, book, capacity, queue, funding, pending>>,
         NEW more \in Seq(FineRows), ledger' = ledger \o more,
         \A i \in DOMAIN more :
           /\ more[i].status \notin SelectedStatuses
           /\ \/ given.held[more[i].sym] > 0
              \/ given.proposed[more[i].sym] \notin {"none", "BUY"}
  PROVE  RunInv'
<1>1. FineRows' = FineRows /\ ledger' \in Seq(FineRows)
  BY FineRowsStay, ConcatProperties DEF RunInv, RunTyped
<1>2. RunTyped'
  BY <1>1 DEF RunInv, RunTyped, Early, Phases
<1>3. ASSUME NEW i \in DOMAIN ledger'
      PROVE  /\ ledger'[i].status \notin SelectedStatuses
             /\ \/ given.held[ledger'[i].sym] > 0
                \/ given.proposed[ledger'[i].sym] \notin {"none", "BUY"}
  <2>1. ledger \in Seq(FineRows) /\ DOMAIN ledger = 1..Len(ledger) /\ Len(ledger) \in Nat
        /\ DOMAIN more = 1..Len(more) /\ Len(more) \in Nat
    BY LenProperties DEF RunInv, RunTyped
  <2>2. DOMAIN ledger' = 1..(Len(ledger) + Len(more))
    BY <1>1, <2>1, ConcatProperties, LenProperties
  <2>3. ledger'[i] = IF i <= Len(ledger) THEN ledger[i] ELSE more[i - Len(ledger)]
    BY <2>1, <2>2, ConcatProperties
  <2>4. CASE i <= Len(ledger)
    <3>1. i \in DOMAIN ledger
      BY <2>1, <2>2, <2>4
    <3> QED BY <2>3, <2>4, <3>1 DEF RunInv, LedgerQuiet
  <2>5. CASE ~(i <= Len(ledger))
    <3>1. i - Len(ledger) \in DOMAIN more
      BY <2>1, <2>2, <2>5
    <3> QED BY <2>3, <2>5, <3>1
  <2> QED BY <2>4, <2>5
<1>4. LedgerQuiet' /\ QueueFine' /\ EntryOnce'
  BY <1>3 DEF RunInv, LedgerQuiet, QueueFine, EntryOnce, Early
<1> QED BY <1>2, <1>4 DEF RunInv

LEMMA RunInvPlanSells ==
  ASSUME RunInv, PlanSells
  PROVE  RunInv'
<1> DEFINE S == PlannedSells
           key == [t \in S |-> TradeKey(t)]
           order == SortedBy(S, key)
           row(t) == Row(t.sym, t.rank, t.action, LifecycleStatus(t.sym), t.target, t.quantity,
                         t.notional)
           more == [i \in DOMAIN order |-> row(order[i])]
<1>1. Typed(given)
  BY DEF RunInv, RunTyped
<1>2. IsFiniteSet(S) /\ S \subseteq Trades(given)
  BY <1>1, TradeFacts, FS_Subset DEF PlannedSells
<1>3. ASSUME NEW t \in S
      PROVE  /\ t.sym \in Stocks /\ t.rank \in Nat /\ t.action \in {"REDUCE", "EXIT"}
             /\ t.target \in Nat /\ t.quantity \in Nat /\ t.notional \in Nat
             /\ given.held[t.sym] > 0
             /\ t.source \in {"trader", "core", "threshold"}
             /\ key[t] = <<t.rank, SourceOrder(t.source), Position[t.sym]>>
  <2>1. TradeFine(given, t) /\ t.side = "SELL"
    BY <1>1, <1>2, TradeFacts DEF PlannedSells
  <2> QED BY <2>1 DEF TradeFine, TradeKey
<1> HIDE DEF key
<1>4. ASSUME NEW t \in S PROVE key[t] \in Seq(Int) /\ Len(key[t]) = 3
  <2>1. t.rank \in Int /\ SourceOrder(t.source) \in Int /\ Position[t.sym] \in Int
    BY <1>3, PlanAssumption DEF SourceOrder
  <2>2. /\ <<t.rank, SourceOrder(t.source), Position[t.sym]>> \in Seq(Int)
        /\ Len(<<t.rank, SourceOrder(t.source), Position[t.sym]>>) = 3
    BY <2>1, ShortKeys, Zenon
  <2> QED BY <1>3, <2>2, Zenon
<1>5. ASSUME NEW t \in S, NEW u \in S, key[t] = key[u] PROVE t = u
  <2>1. t.sym = u.sym
    <3>1. <<t.rank, SourceOrder(t.source), Position[t.sym]>>
            = <<u.rank, SourceOrder(u.source), Position[u.sym]>>
      BY <1>3, <1>5, Zenon
    <3>2. Position[t.sym] = Position[u.sym]
      <4> DEFINE a == Position[t.sym]
                 b == Position[u.sym]
      <4> HIDE DEF a, b
      <4>1. a = b
        BY <3>1 DEF a, b
      <4> QED BY <4>1 DEF a, b
    <3> QED BY <1>3, <3>2, PlanAssumption
  <2>2. ~LexLess(TradeKey(t), TradeKey(u)) \/ t = u
    <3>1. TradeKey(t) = TradeKey(u)
      BY <1>3, <1>5 DEF TradeKey
    <3>2. /\ DOMAIN TradeKey(t) = 1..3
          /\ \A i \in 1..3 : TradeKey(t)[i] \in Int
      <4>1. TradeKey(t) = key[t]
        BY <1>3 DEF TradeKey
      <4> QED BY <1>4, <4>1, LenProperties, ElementOfSeq
    <3> QED BY <3>1, <3>2 DEF LexLess
  <2> QED BY <2>1, <2>2 DEF PlannedSells
<1>6. order \in Seq(S)
  <2>1. Ordered(S, key)
    <3>1. 3 \in Nat
      OBVIOUS
    <3> HIDE DEF S
    <3> QED BY <1>4, <1>5, <3>1, KeysOrder
  <2> HIDE DEF S
  <2> QED BY <1>2, <2>1, SortedFacts
<1>7. DOMAIN order = 1..Len(order) /\ Len(order) \in Nat /\ \A i \in DOMAIN order : order[i] \in S
  <2> HIDE DEF S, order
  <2> QED BY <1>6, LenProperties, ElementOfSeq
<1>8. ledger' = ledger \o more /\ phase = "sells" /\ phase' = "lifecycle"
      /\ UNCHANGED <<mode, given, book, capacity, queue, funding, pending>>
  BY DEF PlanSells, key
<1> HIDE DEF S, order
<1>9. ASSUME NEW t \in S
      PROVE  /\ row(t) \in FineRows /\ row(t).sym = t.sym
             /\ row(t).status \notin SelectedStatuses
  <2>1. /\ t.sym \in Stocks /\ t.rank \in Nat /\ t.action \in {"HOLD", "REDUCE", "EXIT"}
        /\ t.target \in Nat /\ t.quantity \in Nat /\ t.notional \in Nat
    BY <1>3
  <2>2. QuietRow(row(t), t.sym)
    BY <1>1, <2>1, LifecycleRowFine, Zenon
  <2> HIDE DEF row
  <2> QED BY <2>2 DEF QuietRow
<1>10. more \in Seq(FineRows)
  <2>1. more \in [1..Len(order) -> FineRows]
    <3> HIDE DEF row
    <3> QED BY <1>7, <1>9
  <2> HIDE DEF more
  <2> QED BY <1>7, <2>1, SeqDef
<1>11. ASSUME NEW i \in DOMAIN more
       PROVE  /\ more[i].status \notin SelectedStatuses
              /\ given.held[more[i].sym] > 0
  <2>1. order[i] \in S /\ more[i] = row(order[i])
    <3> HIDE DEF row
    <3> QED BY <1>7
  <2> HIDE DEF row, more
  <2> QED BY <1>3, <1>9, <2>1
<1> HIDE DEF more
<1> QED BY <1>8, <1>10, <1>11, QuietRows DEF Early

LEMMA RunInvLifecycle ==
  ASSUME RunInv, Lifecycle
  PROVE  RunInv'
<1> DEFINE S == {s \in Stocks : given.proposed[s] \notin {"none", "BUY"} /\ RowsOf(s) = {}}
           key == [s \in S |-> <<Position[s]>>]
           order == SortedBy(S, key)
           row(s) == Row(s, NoRank, given.proposed[s], LifecycleStatus(s), TraderTarget(given, s),
                         0, 0)
           more == [i \in DOMAIN order |-> row(order[i])]
<1>1. Typed(given)
  BY DEF RunInv, RunTyped
<1>2. IsFiniteSet(S) /\ S \subseteq Stocks
  BY SizingAssumption, FS_Subset
<1>3. ASSUME NEW s \in S
      PROVE  /\ s \in Stocks /\ given.proposed[s] \in {"HOLD", "REDUCE", "EXIT"}
             /\ TraderTarget(given, s) \in Nat /\ key[s] = <<Position[s]>>
  <2>1. given.proposed[s] \in Actions
    BY <1>1 DEF Typed
  <2> QED BY <1>1, <2>1, TraderTargetNat DEF Actions
<1>4. order \in Seq(S)
  <2>1. ASSUME NEW s \in S PROVE key[s] \in Seq(Int) /\ Len(key[s]) = 1
    <3>1. Position[s] \in Int
      BY PlanAssumption
    <3>2. <<Position[s]>> \in Seq(Int) /\ Len(<<Position[s]>>) = 1
      BY <3>1, ShortKeys, Zenon
    <3> HIDE DEF key
    <3> QED BY <1>3, <3>2, Zenon
  <2>2. ASSUME NEW s \in S, NEW t \in S, key[s] = key[t] PROVE s = t
    <3>1. Position[s] = Position[t] /\ s \in Stocks /\ t \in Stocks
      BY <2>2
    <3> QED BY <3>1, PlanAssumption
  <2>3. Ordered(S, key)
    <3>1. 1 \in Nat
      OBVIOUS
    <3> HIDE DEF S, key
    <3> QED BY <2>1, <2>2, <3>1, KeysOrder
  <2> HIDE DEF S, key
  <2> QED BY <1>2, <2>3, SortedFacts
<1>5. DOMAIN order = 1..Len(order) /\ Len(order) \in Nat /\ \A i \in DOMAIN order : order[i] \in S
  <2> HIDE DEF S, order
  <2> QED BY <1>4, LenProperties, ElementOfSeq
<1>6. ledger' = ledger \o more /\ phase = "lifecycle" /\ phase' = "order"
      /\ UNCHANGED <<mode, given, book, capacity, queue, funding, pending>>
  BY DEF Lifecycle
<1>7. ASSUME NEW s \in S PROVE given.proposed[s] \notin {"none", "BUY"}
  OBVIOUS
<1> HIDE DEF S, key, order
<1>8. ASSUME NEW s \in S
      PROVE  /\ row(s) \in FineRows /\ row(s).sym = s
             /\ row(s).status \notin SelectedStatuses
  <2>1. NoRank \in Nat /\ 0 \in Nat
    BY DEF NoRank
  <2>2. QuietRow(row(s), s)
    BY <1>1, <1>3, <2>1, LifecycleRowFine, Zenon
  <2> HIDE DEF row
  <2> QED BY <2>2 DEF QuietRow
<1>9. more \in Seq(FineRows)
  <2>1. more \in [1..Len(order) -> FineRows]
    <3> HIDE DEF row
    <3> QED BY <1>5, <1>8
  <2> HIDE DEF more
  <2> QED BY <1>5, <2>1, SeqDef
<1>10. ASSUME NEW i \in DOMAIN more
       PROVE  /\ more[i].status \notin SelectedStatuses
              /\ given.proposed[more[i].sym] \notin {"none", "BUY"}
  <2>1. order[i] \in S /\ more[i] = row(order[i])
    <3> HIDE DEF row
    <3> QED BY <1>5
  <2> HIDE DEF row, more
  <2> QED BY <1>7, <1>8, <2>1
<1> HIDE DEF more
<1> QED BY <1>6, <1>9, <1>10, QuietRows DEF Early

(* A queue of the requests waits in an order with each symbol once.         *)
LEMMA RunInvOrderBuys ==
  ASSUME RunInv, OrderBuys
  PROVE  RunInv'
<1> DEFINE S == Requests
           key == [r \in S |-> RequestKey(r)]
           order == SortedBy(S, key)
           Early0(r) == 0 - (IF mode = "fallback" THEN r.score ELSE Score(r, book))
           Source0(r) == IF r.source = "trader" THEN 0 ELSE 1
<1>1. Typed(given) /\ book \in BookRecord /\ phase = "order" /\ mode \in {"plan", "policy", "fallback"}
  BY ModeKnown DEF RunInv, RunTyped, OrderBuys
<1>2. /\ IsFiniteSet(S)
      /\ \A r \in S : RequestFine(given, r) /\ given.proposed[r.sym] \in {"none", "BUY"}
      /\ \A r, q \in S : r.sym = q.sym => r = q
  BY <1>1, RequestFacts
<1>3. ASSUME NEW r \in S
      PROVE  key[r] = <<Early0(r), r.rank, Source0(r), Position[r.sym]>>
  BY DEF RequestKey
<1> HIDE DEF key, S
<1>4. ASSUME NEW r \in S PROVE key[r] \in Seq(Int) /\ Len(key[r]) = 4
  <2>1. Early0(r) \in Int /\ r.rank \in Int /\ Source0(r) \in Int /\ Position[r.sym] \in Int
    <3>1. RequestFine(given, r)
      BY <1>2
    <3>2. r.score \in Int /\ Score(r, book) \in Int /\ r.sym \in Stocks /\ r.rank \in Int
      BY <1>1, <3>1, ScoreNat DEF RequestFine
    <3> QED BY <3>2, PlanAssumption
  <2> HIDE DEF Early0, Source0
  <2>2. /\ <<Early0(r), r.rank, Source0(r), Position[r.sym]>> \in Seq(Int)
        /\ Len(<<Early0(r), r.rank, Source0(r), Position[r.sym]>>) = 4
    BY <2>1, ShortKeys, Zenon
  <2> QED BY <1>3, <2>2, Zenon
<1>5. ASSUME NEW r \in S, NEW q \in S, key[r] = key[q] PROVE r = q
  <2> HIDE DEF Early0, Source0
  <2>1. <<Early0(r), r.rank, Source0(r), Position[r.sym]>>
          = <<Early0(q), q.rank, Source0(q), Position[q.sym]>>
    BY <1>3, <1>5, Zenon
  <2>2. Position[r.sym] = Position[q.sym]
    <3> DEFINE a == Position[r.sym]
               b == Position[q.sym]
    <3> HIDE DEF a, b
    <3>1. a = b
      BY <2>1 DEF a, b
    <3> QED BY <3>1 DEF a, b
  <2>3. r.sym \in Stocks /\ q.sym \in Stocks
    BY <1>2 DEF RequestFine
  <2> QED BY <1>2, <2>2, <2>3, PlanAssumption
<1>6. /\ order \in Seq(S)
      /\ \A i, j \in 1..Len(order) : i < j => LexLess(key[order[i]], key[order[j]])
      /\ Ordered(S, key)
  <2>1. 4 \in Nat
    OBVIOUS
  <2>2. Ordered(S, key)
    BY <1>4, <1>5, <2>1, KeysOrder
  <2> QED BY <1>2, <2>2, SortedFacts
<1>7. DOMAIN order = 1..Len(order) /\ Len(order) \in Nat /\ \A i \in DOMAIN order : order[i] \in S
  <2> HIDE DEF order
  <2> QED BY <1>6, LenProperties, ElementOfSeq
<1>8. queue' = order /\ phase' = "buys" /\ UNCHANGED <<mode, given, book, capacity, ledger, funding, pending>>
  BY DEF OrderBuys, key, S
<1> HIDE DEF order, Early0, Source0
<1>9. ASSUME NEW i \in DOMAIN order, NEW j \in DOMAIN order, order[i].sym = order[j].sym
      PROVE  i = j
  <2>1. order[i] = order[j] /\ order[i] \in S
    BY <1>2, <1>7, <1>9
  <2>2. ~LexLess(key[order[i]], key[order[j]]) /\ ~LexLess(key[order[j]], key[order[i]])
    BY <1>6, <2>1 DEF Ordered
  <2> QED BY <1>6, <1>7, <2>2
<1>10. ASSUME NEW i \in DOMAIN order, given.held[order[i].sym] = 0
       PROVE  RowsOf(order[i].sym) = {}
  <2>1. given.proposed[order[i].sym] \in {"none", "BUY"}
    BY <1>2, <1>7
  <2>2. \A k \in DOMAIN ledger : \/ given.held[ledger[k].sym] > 0
                                 \/ given.proposed[ledger[k].sym] \notin {"none", "BUY"}
    BY <1>1 DEF RunInv, LedgerQuiet, Early
  <2> QED BY <1>10, <2>1, <2>2 DEF RowsOf
<1>11. Requests' = S /\ FineRows' = FineRows
  BY <1>8, FineRowsStay DEF S
<1>12. RunTyped'
  BY <1>1, <1>8, <1>11 DEF RunInv, RunTyped, Phases
<1>13. LedgerQuiet' /\ EntryOnce'
  BY <1>8 DEF RunInv, LedgerQuiet, EntryOnce, RowsOf, Early
<1>14. QueueFine'
  <2>1. /\ queue' \in Seq(Requests')
        /\ \A i, j \in DOMAIN queue' : queue'[i].sym = queue'[j].sym => i = j
    BY <1>6, <1>8, <1>9, <1>11
  <2>2. ASSUME NEW i \in DOMAIN queue', given'.held[queue'[i].sym] = 0
        PROVE  {k \in DOMAIN ledger' : ledger'[k].sym = queue'[i].sym} = {}
    <3>1. i \in DOMAIN order /\ queue'[i] = order[i] /\ given' = given /\ ledger' = ledger
      BY <1>8
    <3>2. RowsOf(order[i].sym) = {}
      BY <1>10, <2>2, <3>1
    <3> QED BY <3>1, <3>2 DEF RowsOf
  <2> QED BY <1>8, <2>1, <2>2 DEF QueueFine, Early, RowsOf
<1> QED BY <1>12, <1>13, <1>14 DEF RunInv

-----------------------------------------------------------------------------
(* One BUY is allocated.                                                    *)

Asked == Head(queue)
Decided == IF mode = "fallback" THEN FallbackSized(Asked, book) ELSE Sized(Asked, book, capacity)

(* What the allocation of one BUY does to the run: nothing but a row when   *)
(* no share fits; else the approved amount leaves the cash it fits, and is  *)
(* counted for its stock and its sleeve.                                    *)
Reserve == IF mode = "fallback" THEN 0 ELSE Pct(Policy.cashBuffer, Nav(given))

Taken(d, row) ==
  /\ d.quantity > 0 /\ d.approved > 0 /\ row.status \in SelectedStatuses
  /\ d.approved <= Above0(book.cash - Reserve)
  /\ mode # "fallback" =>
       /\ d.sleeve = Asked.sleeve
       /\ d.approved <= GroupRoom(Asked.sym, SectorOf, Policy.sectorCap, book)
       /\ d.approved <= Above0(capacity[Asked.sleeve] - book.exposure[Asked.sleeve])
  /\ book' = WithPending(book, d)

Left(d, row) ==
  d.quantity = 0 /\ d.approved = 0 /\ row.status \notin SelectedStatuses /\ book' = book

Tracked(d) == IF mode = "plan" THEN d.approved ELSE 0

Funded(d, row) ==
  LET tracked == Tracked(d)
      existing == Min({funding.existing, tracked})
      proceeds == Min({funding.proceeds, tracked - existing})
  IN  /\ row.existing = existing /\ row.proceeds = proceeds
      /\ existing \in Nat /\ proceeds \in Nat
      /\ funding' = [existing |-> funding.existing - existing,
                     proceeds |-> funding.proceeds - proceeds]
      /\ existing <= funding.existing /\ proceeds <= funding.proceeds
      /\ existing + proceeds =
           IF tracked <= funding.existing + funding.proceeds
           THEN tracked ELSE funding.existing + funding.proceeds

Bought(d, row) ==
  /\ phase = "buys" /\ queue \in Seq(Requests) /\ queue # <<>>
  /\ Asked \in Requests /\ RequestFine(given, Asked)
  /\ mode \in {"plan", "policy", "fallback"}
  /\ d.quantity \in Nat /\ d.approved \in Nat /\ d.sym = Asked.sym
  /\ row \in FineRows /\ row.sym = Asked.sym /\ row.approved = d.approved
  /\ Taken(d, row) \/ Left(d, row)
  /\ Funded(d, row)
  /\ ledger' = Append(ledger, row) /\ queue' = Tail(queue)
  /\ UNCHANGED <<phase, mode, given, capacity, pending, orders>>

LEMMA DecidedFacts ==
  ASSUME RunInv, phase = "buys", queue # <<>>
  PROVE  /\ Asked \in Requests /\ RequestFine(given, Asked) /\ queue \in Seq(Requests)
         /\ mode \in {"plan", "policy", "fallback"}
         /\ DecisionFine(Asked, Decided) /\ Decided.sleeve \in Sleeves \cup {"settings_fallback"}
         /\ Decided.quantity > 0 =>
              /\ Decided.approved <= Above0(book.cash - Reserve)
              /\ Decided.approved <= Above0(Pct(StockCapPct, Nav(given)) - Asked.value)
              /\ mode # "fallback" =>
                   /\ Decided.sleeve = Asked.sleeve
                   /\ Decided.approved <= GroupRoom(Asked.sym, SectorOf, Policy.sectorCap, book)
                   /\ Decided.approved <= Above0(capacity[Asked.sleeve] - book.exposure[Asked.sleeve])
<1> DEFINE r == Asked
           d == Decided
<1>1. /\ Typed(given) /\ book \in BookRecord /\ book.nav = Nav(given)
      /\ capacity \in [Sleeves -> Nat] /\ queue \in Seq(Requests)
      /\ mode \in {"plan", "policy", "fallback"}
  BY ModeKnown DEF RunInv, RunTyped, QueueFine
<1>2. r \in Requests
  BY <1>1, HeadTailProperties DEF Asked
<1>3. RequestFine(given, r)
  BY <1>1, <1>2, RequestFacts
<1> HIDE DEF r, d
<1>4. CASE mode = "fallback"
  <2>1. d = FallbackSized(r, book)
    BY <1>4 DEF Decided, r, d
  <2>2. /\ DecisionFine(r, d) /\ d.sleeve \in {r.sleeve, "settings_fallback"}
        /\ d.quantity > 0 =>
             /\ d.sleeve = "settings_fallback" /\ d.approved <= Above0(book.cash)
             /\ d.approved <= Above0(Pct(Policy.fallbackStockCap, book.nav) - r.value)
    BY <1>1, <1>3, <2>1, FallbackFacts
  <2>3. Reserve = 0 /\ book.cash - 0 = book.cash /\ StockCapPct = Policy.fallbackStockCap
    BY <1>1, <1>4 DEF Reserve, StockCapPct, BookRecord
  <2>4. r.sleeve \in Sleeves
    BY <1>3 DEF RequestFine
  <2> QED BY <1>1, <1>2, <1>3, <1>4, <2>2, <2>3, <2>4 DEF r, d
<1>5. CASE mode # "fallback"
  <2>1. d = Sized(r, book, capacity)
    BY <1>5 DEF Decided, r, d
  <2>2. /\ DecisionFine(r, d) /\ d.sleeve = r.sleeve
        /\ d.quantity > 0 =>
             /\ d.approved <= CashRoom(book) /\ d.approved <= StockRoom(r, book)
             /\ d.approved <= GroupRoom(r.sym, SectorOf, Policy.sectorCap, book)
             /\ d.approved <= Above0(capacity[r.sleeve] - book.exposure[r.sleeve])
    BY <1>1, <1>3, <2>1, SizedFacts
  <2>3. /\ CashRoom(book) = Above0(book.cash - Reserve)
        /\ StockRoom(r, book) = Above0(Pct(StockCapPct, Nav(given)) - r.value)
    BY <1>1, <1>5 DEF Reserve, StockCapPct, CashRoom, StockRoom
  <2>4. r.sleeve \in Sleeves
    BY <1>3 DEF RequestFine
  <2> QED BY <1>1, <1>2, <1>3, <1>5, <2>2, <2>3, <2>4 DEF r, d
<1> QED BY <1>4, <1>5

LEMMA BuyStatusFacts ==
  ASSUME NEW d, d.quantity \in Nat
  PROVE  /\ BuyStatus(d) \in Statuses /\ (BuyStatus(d) \in SelectedStatuses <=> d.quantity > 0)
         /\ BuyStatus(d) # "open_position_management"
BY DEF BuyStatus, Statuses, SelectedStatuses

LEMMA FundingFacts ==
  ASSUME NEW a \in Nat, NEW b \in Nat, NEW t \in Nat
  PROVE  LET x == Min({a, t})
             y == Min({b, t - x})
         IN  /\ x \in Nat /\ y \in Nat /\ x <= a /\ y <= b
             /\ x + y = IF t <= a + b THEN t ELSE a + b
<1> DEFINE x == Min({a, t})
<1>1. x = IF a <= t THEN a ELSE t
  BY MinOfTwo
<1> HIDE DEF x
<1> DEFINE y == Min({b, t - x})
<1>2. t - x \in Int
  BY <1>1
<1>3. y = IF b <= t - x THEN b ELSE t - x
  BY <1>2, MinOfTwo
<1> HIDE DEF y
<1>4. /\ x \in Nat /\ y \in Nat /\ x <= a /\ y <= b
      /\ x + y = IF t <= a + b THEN t ELSE a + b
  BY <1>1, <1>3
<1> QED BY <1>4 DEF x, y

LEMMA BuyRowFine ==
  ASSUME Typed(given), NEW r, RequestFine(given, r), NEW d, DecisionFine(r, d),
         d.sleeve \in Sleeves \cup {"settings_fallback"},
         d.quantity > 0 => d.approved <= Above0(Pct(StockCapPct, Nav(given)) - r.value),
         NEW x \in Nat, NEW y \in Nat
  PROVE  /\ BuyRow(r, d, x, y) \in FineRows
         /\ BuyRow(r, d, x, y).sym = r.sym /\ BuyRow(r, d, x, y).approved = d.approved
         /\ BuyRow(r, d, x, y).status = BuyStatus(d)
         /\ BuyRow(r, d, x, y).existing = x /\ BuyRow(r, d, x, y).proceeds = y
<1> DEFINE row == BuyRow(r, d, x, y)
           action == IF BuyStatus(d) \in SelectedStatuses THEN "BUY"
                     ELSE IF r.quantity > 0 THEN "HOLD" ELSE "NO_TRADE"
           rank == IF mode = "plan" THEN r.rank ELSE NoRank
           target == r.value + d.approved
<1>1. /\ r.sym \in Stocks /\ r.rank \in Nat /\ r.value = ValueHeld(given, r.sym)
      /\ r.price = LatestClose(given, r.sym) /\ r.value \in Nat
  BY ValueFacts DEF RequestFine
<1>2. /\ d.quantity \in Nat /\ d.approved \in Nat /\ d.approved = r.price * d.quantity
      /\ d.quantity > 0 => d.approved > 0 /\ r.price > 0
  BY DEF DecisionFine
<1>3. /\ BuyStatus(d) \in Statuses /\ (BuyStatus(d) \in SelectedStatuses <=> d.quantity > 0)
      /\ BuyStatus(d) # "open_position_management"
  BY <1>2, BuyStatusFacts
<1>4. target \in Nat /\ rank \in Nat /\ action \in Actions \cup {"NO_TRADE"}
  BY <1>1, <1>2 DEF NoRank, Actions
<1>5. row = [sym |-> r.sym, rank |-> rank, action |-> action, status |-> BuyStatus(d),
             target |-> target, quantity |-> d.quantity, approved |-> d.approved,
             sleeve |-> d.sleeve, existing |-> x, proceeds |-> y]
  <2> DEFINE s == r.sym
             status == BuyStatus(d)
             plain == Row(s, rank, action, status, target, d.quantity, d.approved)
  <2>1. row = [plain EXCEPT !.sleeve = d.sleeve, !.existing = x, !.proceeds = y]
    BY Zenon DEF BuyRow
  <2> HIDE DEF row, rank, action, target, status, s
  <2>2. plain = [sym |-> s, rank |-> rank, action |-> action, status |-> status,
                 target |-> target, quantity |-> d.quantity, approved |-> d.approved,
                 sleeve |-> "none", existing |-> 0, proceeds |-> 0]
    BY DEF Row
  <2> HIDE DEF plain
  <2>3. row = [sym |-> s, rank |-> rank, action |-> action, status |-> status,
               target |-> target, quantity |-> d.quantity, approved |-> d.approved,
               sleeve |-> d.sleeve, existing |-> x, proceeds |-> y]
    BY <2>1, <2>2
  <2> QED BY <2>3 DEF s, status
<1>6. /\ row.sym = r.sym /\ row.approved = d.approved /\ row.status = BuyStatus(d)
      /\ row.existing = x /\ row.proceeds = y /\ row.action = action
      /\ row.quantity = d.quantity /\ row.target = target
  <2> HIDE DEF row, action, rank, target
  <2> QED BY <1>5
<1>7. row \in RowRecord
  <2> HIDE DEF row, action, rank, target
  <2> QED BY <1>1, <1>2, <1>3, <1>4, <1>5 DEF RowRecord
<1>8. d.quantity > 0 => target <= Pct(StockCapPct, Nav(given))
  <2> SUFFICES ASSUME d.quantity > 0 PROVE target <= Pct(StockCapPct, Nav(given))
    OBVIOUS
  <2> DEFINE cap == Pct(StockCapPct, Nav(given))
  <2>1. cap \in Nat
    <3>1. StockCapPct \in Nat
      <4>1. Policy["stockCap"] \in Nat /\ Policy["fallbackStockCap"] \in Nat
        BY SizingAssumption
      <4> QED BY <4>1 DEF StockCapPct
    <3>2. Nav(given) \in Nat
      BY NavFacts
    <3> QED BY <3>1, <3>2, PctFacts, Zenon
  <2>2. d.approved <= Above0(cap - r.value)
    OBVIOUS
  <2> HIDE DEF cap
  <2>3. cap - r.value \in Int
    BY <1>1, <2>1
  <2>4. Above0(cap - r.value) = IF cap - r.value > 0 THEN cap - r.value ELSE 0
    BY <2>3, AboveZero
  <2>5. d.approved > 0
    BY <1>2
  <2>6. r.value + d.approved <= cap
    BY <1>1, <1>2, <2>1, <2>2, <2>4, <2>5
  <2> QED BY <2>6 DEF cap
<1> HIDE DEF row
<1>9. BuyStatus(d) \notin SelectedStatuses => action # "BUY"
  OBVIOUS
<1>10. BuyStatus(d) \in SelectedStatuses => action = "BUY"
  OBVIOUS
<1> HIDE DEF action
<1>11. RowFine(row)
  BY <1>1, <1>2, <1>3, <1>6, <1>8, <1>9, <1>10 DEF RowFine
<1>12. row \in FineRows
  BY <1>7, <1>11 DEF FineRows
<1> QED BY <1>6, <1>12 DEF row

LEMMA AllocateBuyIsBought ==
  ASSUME RunInv, AllocateBuy
  PROVE  \E d, row : Bought(d, row)
<1> DEFINE r == Asked
           d == Decided
           tracked == IF mode = "plan" /\ BuyStatus(d) \in SelectedStatuses THEN d.approved ELSE 0
           existing == Min({funding.existing, tracked})
           proceeds == Min({funding.proceeds, tracked - existing})
           row == BuyRow(r, d, existing, proceeds)
<1>1. /\ phase = "buys" /\ queue # <<>> /\ ledger' = Append(ledger, row)
      /\ funding' = [existing |-> funding.existing - existing,
                     proceeds |-> funding.proceeds - proceeds]
      /\ book' = IF BuyStatus(d) \in SelectedStatuses THEN WithPending(book, d) ELSE book
      /\ queue' = Tail(queue) /\ UNCHANGED <<phase, mode, given, capacity, pending, orders>>
  BY DEF AllocateBuy, Asked, Decided
<1>2. /\ r \in Requests /\ RequestFine(given, r) /\ queue \in Seq(Requests)
      /\ mode \in {"plan", "policy", "fallback"}
      /\ DecisionFine(r, d) /\ d.sleeve \in Sleeves \cup {"settings_fallback"}
      /\ d.quantity > 0 =>
           /\ d.approved <= Above0(book.cash - Reserve)
           /\ d.approved <= Above0(Pct(StockCapPct, Nav(given)) - r.value)
           /\ mode # "fallback" =>
                /\ d.sleeve = r.sleeve
                /\ d.approved <= GroupRoom(r.sym, SectorOf, Policy.sectorCap, book)
                /\ d.approved <= Above0(capacity[r.sleeve] - book.exposure[r.sleeve])
  BY <1>1, DecidedFacts
<1> HIDE DEF d
<1>3. /\ d.quantity \in Nat /\ d.approved \in Nat /\ d.sym = r.sym
      /\ d.quantity > 0 => d.approved > 0
      /\ d.quantity = 0 => d.approved = 0
  <2>1. d.approved = r.price * d.quantity /\ r.price \in Nat
    BY <1>2, ValueFacts DEF DecisionFine, RequestFine, RunInv, RunTyped
  <2>2. d.quantity = 0 => r.price * d.quantity = 0
    BY <2>1
  <2> QED BY <1>2, <2>1, <2>2 DEF DecisionFine
<1>4. BuyStatus(d) \in SelectedStatuses <=> d.quantity > 0
  BY <1>3, BuyStatusFacts
<1>5. tracked = Tracked(d) /\ tracked \in Nat
  <2>1. d.quantity = 0 \/ d.quantity > 0
    BY <1>3
  <2> QED BY <1>3, <1>4, <2>1 DEF Tracked
<1>6. /\ existing \in Nat /\ proceeds \in Nat
      /\ existing <= funding.existing /\ proceeds <= funding.proceeds
      /\ existing + proceeds = IF tracked <= funding.existing + funding.proceeds
                               THEN tracked ELSE funding.existing + funding.proceeds
  <2>1. funding.existing \in Nat /\ funding.proceeds \in Nat
    BY DEF RunInv, RunTyped
  <2> HIDE DEF tracked
  <2> QED BY <1>5, <2>1, FundingFacts
<1>7. /\ row \in FineRows /\ row.sym = r.sym /\ row.approved = d.approved
      /\ row.status = BuyStatus(d) /\ row.existing = existing /\ row.proceeds = proceeds
  <2>1. Typed(given)
    BY DEF RunInv, RunTyped
  <2> HIDE DEF existing, proceeds, r
  <2> QED BY <1>2, <1>6, <2>1, BuyRowFine
<1>8. Funded(d, row)
  <2>1. existing = Min({funding.existing, Tracked(d)})
        /\ proceeds = Min({funding.proceeds, Tracked(d) - existing})
    BY <1>5
  <2> HIDE DEF existing, proceeds, row, tracked
  <2> QED BY <1>1, <1>5, <1>6, <1>7, <2>1 DEF Funded
<1> HIDE DEF row, existing, proceeds, tracked
<1>9. Taken(d, row) \/ Left(d, row)
  <2>1. CASE d.quantity > 0
    BY <1>1, <1>2, <1>3, <1>4, <1>7, <2>1 DEF Taken, r
  <2>2. CASE d.quantity = 0
    BY <1>1, <1>3, <1>4, <1>7, <2>2 DEF Left
  <2> QED BY <1>3, <2>1, <2>2
<1>10. Bought(d, row)
  BY <1>1, <1>2, <1>3, <1>7, <1>8, <1>9 DEF Bought, r
<1> QED BY <1>10

LEMMA AboveLeaves ==
  ASSUME NEW a \in Nat, NEW n \in Int, a > 0, a <= Above0(n)
  PROVE  Above0(n) = n /\ a <= n
BY AboveZero

LEMMA BookAfter ==
  ASSUME Typed(given), book \in BookRecord, book.nav = Nav(given), Reserve \in Nat,
         NEW d, NEW row, Bought(d, row), Taken(d, row)
  PROVE  /\ book' \in BookRecord /\ book'.nav = Nav(given)
         /\ book'.cash = book.cash - d.approved /\ book'.cash >= Reserve
         /\ book'.value = [book.value EXCEPT ![Asked.sym] = @ + d.approved]
         /\ book'.exposure =
              [v \in Sleeves |-> book.exposure[v] + IF v = d.sleeve THEN d.approved ELSE 0]
<1> DEFINE a == d.approved
           s == d.sym
           qty == [book.qty EXCEPT ![s] = @ + d.quantity]
           value == [book.value EXCEPT ![s] = @ + a]
           exposure == [v \in Sleeves |-> book.exposure[v] + IF v = d.sleeve THEN a ELSE 0]
           cash == Above0(book.cash - a)
<1>1. /\ book.qty \in [Stocks -> Nat] /\ book.value \in [Stocks -> Nat]
      /\ book.exposure \in [Sleeves -> Nat] /\ book.drawdown \in [Sleeves -> Nat]
      /\ book.cash \in Nat /\ book.nav \in Nat /\ DOMAIN book.exposure = Sleeves
      /\ book = [qty |-> book.qty, value |-> book.value, exposure |-> book.exposure,
                 drawdown |-> book.drawdown, cash |-> book.cash, nav |-> book.nav]
  BY DEF BookRecord
<1>2. s = Asked.sym /\ s \in Stocks /\ a \in Nat /\ a > 0 /\ d.quantity \in Nat
  BY DEF Bought, Taken, RequestFine
<1>3. book' = [qty |-> qty, value |-> value, exposure |-> exposure,
               drawdown |-> book.drawdown, cash |-> cash, nav |-> book.nav]
  BY <1>1 DEF Taken, WithPending
<1>4. cash = book.cash - a /\ cash >= Reserve /\ cash \in Nat
  <2>1. book.cash - Reserve \in Int /\ a <= Above0(book.cash - Reserve)
    BY <1>1 DEF Taken
  <2>2. a <= book.cash - Reserve
    BY <1>2, <2>1, AboveLeaves
  <2>3. book.cash - a \in Int /\ book.cash - a >= Reserve
    BY <1>1, <1>2, <2>1, <2>2
  <2>4. Above0(book.cash - a) = IF book.cash - a > 0 THEN book.cash - a ELSE 0
    BY <2>3, AboveZero
  <2> QED BY <1>1, <1>2, <2>3, <2>4
<1>5. qty \in [Stocks -> Nat] /\ value \in [Stocks -> Nat] /\ exposure \in [Sleeves -> Nat]
  BY <1>1, <1>2
<1>6. value = [book.value EXCEPT ![Asked.sym] = @ + a]
  BY <1>2
<1> HIDE DEF qty, value, exposure, cash
<1>7. /\ book'.nav = book.nav /\ book'.cash = cash /\ book'.value = value
      /\ book'.exposure = exposure
  BY <1>3
<1>8. book' \in BookRecord
  BY <1>1, <1>3, <1>4, <1>5 DEF BookRecord
<1> QED BY <1>4, <1>6, <1>7, <1>8 DEF exposure

LEMMA ReserveNat ==
  ASSUME Typed(given)
  PROVE  Reserve \in Nat
<1>1. Policy["cashBuffer"] \in Nat /\ Policy["cashBuffer"] = Policy.cashBuffer
  BY SizingAssumption
<1>2. Nav(given) \in Nat
  BY NavFacts
<1>3. Pct(Policy.cashBuffer, Nav(given)) \in Nat
  BY <1>1, <1>2, PctFacts, Zenon
<1> QED BY <1>3 DEF Reserve

(* The ledger with one row more.                                            *)
LEMMA LedgerAppended ==
  ASSUME ledger \in Seq(FineRows), NEW row \in FineRows, ledger' = Append(ledger, row)
  PROVE  /\ Len(ledger) \in Nat /\ DOMAIN ledger = 1..Len(ledger)
         /\ ledger' \in Seq(FineRows) /\ DOMAIN ledger' = DOMAIN ledger \cup {Len(ledger) + 1}
         /\ Len(ledger) + 1 \notin DOMAIN ledger /\ ledger'[Len(ledger) + 1] = row
         /\ \A i \in DOMAIN ledger : ledger'[i] = ledger[i] /\ ledger[i] \in FineRows
BY AppendProperties, LenProperties, ElementOfSeq

(* What waits behind the BUY that is allocated.                             *)
LEMMA QueueShortened ==
  ASSUME NEW S, NEW q \in Seq(S), q # <<>>
  PROVE  /\ 1 \in DOMAIN q /\ q[1] = Head(q) /\ Tail(q) \in Seq(S)
         /\ \A i \in DOMAIN Tail(q) :
              i + 1 \in DOMAIN q /\ Tail(q)[i] = q[i + 1] /\ i + 1 # 1 /\ i \in Nat
BY HeadTailProperties, LenProperties

LEMMA RunInvBought ==
  ASSUME RunInv, NEW d, NEW row, Bought(d, row)
  PROVE  RunInv'
<1> DEFINE n == Len(ledger) + 1
           r == Asked
<1>1. /\ Typed(given) /\ book \in BookRecord /\ book.nav = Nav(given) /\ ledger \in Seq(FineRows)
      /\ funding.existing \in Nat /\ funding.proceeds \in Nat
  BY DEF RunInv, RunTyped
<1>2. FineRows' = FineRows /\ Requests' = Requests
  BY FineRowsStay DEF Bought
<1>3. /\ DOMAIN ledger' = DOMAIN ledger \cup {n} /\ n \notin DOMAIN ledger
      /\ ledger' \in Seq(FineRows) /\ ledger'[n] = row /\ row.sym = r.sym
      /\ \A i \in DOMAIN ledger : ledger'[i] = ledger[i]
  BY <1>1, LedgerAppended DEF Bought
<1>4. /\ 1 \in DOMAIN queue /\ queue[1] = r /\ queue' \in Seq(Requests)
      /\ \A i \in DOMAIN queue' :
           i + 1 \in DOMAIN queue /\ queue'[i] = queue[i + 1] /\ i + 1 # 1 /\ i \in Nat
  <2>1. queue \in Seq(Requests) /\ queue # <<>> /\ queue' = Tail(queue)
    BY DEF Bought
  <2> QED BY <2>1, QueueShortened DEF Asked
<1>5. /\ \A i, j \in DOMAIN queue : queue[i].sym = queue[j].sym => i = j
      /\ \A i \in DOMAIN queue : given.held[queue[i].sym] = 0 => RowsOf(queue[i].sym) = {}
  BY DEF RunInv, QueueFine, Bought
<1>6. UNCHANGED <<phase, mode, given, capacity, pending>> /\ phase = "buys"
  BY DEF Bought
<1>7. RunTyped'
  <2>1. book' \in BookRecord /\ book'.nav = Nav(given)
    <3>1. CASE Taken(d, row)
      <4> QED BY <1>1, <3>1, BookAfter, ReserveNat, Zenon
    <3>2. CASE Left(d, row)
      BY <1>1, <3>2 DEF Left
    <3> QED BY <3>1, <3>2 DEF Bought
  <2>2. funding' \in [existing : Nat, proceeds : Nat]
    <3> DEFINE x == Min({funding.existing, Tracked(d)})
               y == Min({funding.proceeds, Tracked(d) - x})
    <3>1. /\ funding' = [existing |-> funding.existing - x, proceeds |-> funding.proceeds - y]
          /\ x \in Nat /\ y \in Nat /\ x <= funding.existing /\ y <= funding.proceeds
      BY DEF Bought, Funded
    <3> HIDE DEF x, y
    <3>2. funding.existing - x \in Nat /\ funding.proceeds - y \in Nat
      BY <1>1, <3>1
    <3> QED BY <3>1, <3>2
  <2>3. ledger' \in Seq(FineRows')
    BY <1>2, <1>3
  <2> QED BY <1>6, <2>1, <2>2, <2>3 DEF RunInv, RunTyped
<1>8. LedgerQuiet'
  BY <1>6 DEF LedgerQuiet, Early
<1> HIDE DEF n, r
<1>9. ASSUME NEW i \in DOMAIN queue', given.held[queue'[i].sym] = 0
      PROVE  {k \in DOMAIN ledger' : ledger'[k].sym = queue'[i].sym} = {}
  <2>1. i + 1 \in DOMAIN queue /\ queue'[i] = queue[i + 1] /\ i + 1 # 1
    BY <1>4
  <2>2. RowsOf(queue[i + 1].sym) = {}
    BY <1>5, <1>9, <2>1
  <2>3. queue[i + 1].sym # r.sym
    BY <1>4, <1>5, <2>1
  <2> QED BY <1>3, <2>1, <2>2, <2>3 DEF RowsOf
<1>10. ASSUME NEW i \in DOMAIN queue', NEW j \in DOMAIN queue', queue'[i].sym = queue'[j].sym
       PROVE  i = j
  <2>1. i + 1 = j + 1
    BY <1>4, <1>5, <1>10
  <2> QED BY <1>4, <2>1
<1>11. QueueFine'
  BY <1>2, <1>4, <1>6, <1>9, <1>10 DEF QueueFine, Early, RowsOf
<1>12. ASSUME NEW i \in DOMAIN ledger', ledger'[i].status \in SelectedStatuses,
              given.held[ledger'[i].sym] = 0
       PROVE  {k \in DOMAIN ledger' : ledger'[k].sym = ledger'[i].sym} = {i}
  <2>1. CASE i = n
    <3>1. RowsOf(r.sym) = {}
      BY <1>3, <1>4, <1>5, <1>12, <2>1
    <3> QED BY <1>3, <2>1, <3>1 DEF RowsOf
  <2>2. CASE i \in DOMAIN ledger
    <3>1. RowsOf(ledger[i].sym) = {i} /\ ledger'[i] = ledger[i]
      BY <1>3, <1>12, <2>2 DEF RunInv, EntryOnce
    <3>2. r.sym # ledger[i].sym
      <4>1. given.held[r.sym] = 0 => RowsOf(r.sym) = {}
        BY <1>4, <1>5
      <4> QED BY <1>12, <3>1, <4>1
    <3> QED BY <1>3, <3>1, <3>2 DEF RowsOf
  <2> QED BY <1>3, <2>1, <2>2
<1>13. EntryOnce'
  BY <1>6, <1>12 DEF EntryOnce, RowsOf
<1> QED BY <1>7, <1>8, <1>11, <1>13 DEF RunInv
-----------------------------------------------------------------------------
(* Routing leaves the ledger as it is.                                      *)

LEMMA RunInvRouting ==
  ASSUME RunInv, OpenRouting \/ Route \/ FinishRouting
  PROVE  RunInv'
<1>1. /\ phase' \in {"routing", "done"} /\ phase \in {"buys", "routing"}
      /\ UNCHANGED <<mode, given, book, capacity, ledger, funding>>
  BY DEF OpenRouting, Route, FinishRouting
<1>2. RunTyped'
  BY <1>1, FineRowsStay DEF RunInv, RunTyped, Phases
<1>3. LedgerQuiet' /\ QueueFine' /\ EntryOnce'
  BY <1>1 DEF RunInv, LedgerQuiet, QueueFine, EntryOnce, RowsOf, Early
<1> QED BY <1>2, <1>3 DEF RunInv

LEMMA RunInvStep ==
  ASSUME RunInv, [AllocationNext]_allocationVars
  PROVE  RunInv'
<1>1. CASE phase = "idle" /\ \E in \in Inputs, m \in Modes : Begin(in, m)
  BY <1>1, RunInvBegin
<1>2. CASE PlanSells
  BY <1>2, RunInvPlanSells
<1>3. CASE Lifecycle
  BY <1>3, RunInvLifecycle
<1>4. CASE OrderBuys
  BY <1>4, RunInvOrderBuys
<1>5. CASE AllocateBuy
  BY <1>5, AllocateBuyIsBought, RunInvBought
<1>6. CASE OpenRouting \/ Route \/ FinishRouting
  BY <1>6, RunInvRouting
<1>7. CASE UNCHANGED allocationVars
  <2>1. UNCHANGED <<phase, mode, given, book, capacity, queue, ledger, funding>>
    BY <1>7 DEF allocationVars
  <2>2. FineRows' = FineRows /\ Requests' = Requests
    BY <2>1, FineRowsStay
  <2>3. RunTyped'
    BY <2>1, <2>2 DEF RunInv, RunTyped
  <2>4. LedgerQuiet' /\ QueueFine' /\ EntryOnce'
    BY <2>1, <2>2 DEF RunInv, LedgerQuiet, QueueFine, EntryOnce, RowsOf
  <2> QED BY <2>3, <2>4 DEF RunInv
<1> QED BY <1>1, <1>2, <1>3, <1>4, <1>5, <1>6, <1>7 DEF AllocationNext

LEMMA RunInvHolds == AllocationSpec => []RunInv
<1>1. AllocationInit => RunInv
  BY RunInvInit
<1>2. RunInv /\ [AllocationNext]_allocationVars => RunInv'
  BY RunInvStep
<1> QED BY <1>1, <1>2, PTL DEF AllocationSpec

-----------------------------------------------------------------------------
(* The shares that come back from a stored percentage.                      *)

LEMMA Cancel ==
  ASSUME NEW p \in Nat \ {0}, NEW a \in Int, NEW b \in Int, p * a < p * b
  PROVE  a < b
<1> SUFFICES ASSUME b <= a PROVE FALSE
  OBVIOUS
<1>1. a - b \in Nat /\ p * (a - b) \in Nat /\ p * (a - b) = p * a - p * b
  OBVIOUS
<1> DEFINE x == p * a
           y == p * b
<1>2. x \in Int /\ y \in Int /\ x < y /\ x - y \in Nat
  BY <1>1
<1> HIDE DEF x, y
<1> QED BY <1>2

LEMMA DivBetween ==
  ASSUME NEW l \in Nat \ {0}, NEW m \in Nat \ {0}, NEW y \in Nat,
         l * m - l <= y, y < l * m + l
  PROVE  y \div l \in {m, m - 1}
<1> DEFINE k == y \div l
<1>1. k \in Nat /\ l * k <= y /\ y < l * k + l
  OBVIOUS
<1> HIDE DEF k
<1>2. k + 1 \in Int /\ m + 1 \in Int /\ l * (k + 1) = l * k + l /\ l * (m + 1) = l * m + l
      /\ m - 1 \in Int /\ l * (m - 1) = l * m - l
      /\ l * k \in Int /\ l * m \in Int
  BY <1>1
<1>3. k < m + 1
  <2>1. l * k < l * (m + 1)
    BY <1>1, <1>2
  <2> QED BY <1>1, <1>2, <2>1, Cancel
<1>4. m - 1 < k + 1
  <2>1. l * (m - 1) < l * (k + 1)
    BY <1>1, <1>2
  <2> QED BY <1>2, <2>1, Cancel
<1>5. k \in {m, m - 1}
  BY <1>1, <1>3, <1>4
<1> QED BY <1>5 DEF k

LEMMA StoredShareReturns ==
  ASSUME NEW nav \in Nat \ {0}, NEW p \in Nat \ {0}, NEW l \in Nat \ {0}, NEW m \in Nat \ {0},
         nav < 2 * (p * l), NEW z \in Nat, Nearest((l * m) * p, nav, z)
  PROVE  ((nav * z) \div p) \div l \in {m, m - 1}
<1> DEFINE x == nav * z
           y == x \div p
           t == l * m
           pt == p * t
           pl == p * l
           py == p * y
<1>1. x \in Nat /\ t \in Nat /\ pt \in Nat /\ pl \in Nat /\ t * p = pt
  OBVIOUS
<1>2. 2 * pt <= 2 * x + nav /\ 2 * x <= 2 * pt + nav /\ nav < 2 * pl
  <2> DEFINE n == (l * m) * p
  <2>1. n = pt
    BY <1>1
  <2> HIDE DEF n, x, pt
  <2>2. 2 * n <= 2 * (nav * z) + nav /\ 2 * (nav * z) <= 2 * n + nav
    BY Zenon DEF Nearest, n
  <2> QED BY <2>1, <2>2 DEF x
<1>3. y \in Nat /\ py \in Nat /\ py <= x /\ x < py + p
  <2> HIDE DEF x
  <2> QED BY <1>1
<1>4. p * (t + l) = pt + pl /\ p * (y + 1) = py + p /\ p * (t - l) = pt - pl
  <2> HIDE DEF t, y
  <2> QED BY <1>1, <1>3
<1>5. p * y < p * (t + l)
  <2>1. py < pt + pl
    <3> HIDE DEF py, pt, pl, x
    <3> QED BY <1>1, <1>2, <1>3
  <2> QED BY <1>4, <2>1
<1>6. p * (t - l) < p * (y + 1)
  <2>1. pt - pl < py + p
    <3> HIDE DEF py, pt, pl, x
    <3> QED BY <1>1, <1>2, <1>3
  <2> QED BY <1>4, <2>1
<1>7. y < t + l /\ t - l < y + 1
  <2> HIDE DEF y, t
  <2>1. y < t + l
    BY <1>1, <1>3, <1>5, Cancel
  <2>2. t - l < y + 1
    BY <1>1, <1>3, <1>6, Cancel
  <2> QED BY <2>1, <2>2
<1>8. l * m - l <= y /\ y < l * m + l
  <2>1. t - l <= y /\ y < t + l
    <3> HIDE DEF y, t
    <3> QED BY <1>1, <1>3, <1>7
  <2> QED BY <2>1
<1> HIDE DEF y
<1>9. y \div l \in {m, m - 1}
  BY <1>3, <1>8, DivBetween
<1> QED BY <1>9 DEF y, x

(* The steps of the stored percentage are finer than a share of any stock.  *)
SharesResolved ==
  \A in \in Inputs : \A s \in Stocks :
    LatestClose(in, s) > 0 => Nav(in) < 2 * (PctQuanta * LatestClose(in, s))

SharesResolvedNow ==
  \A s \in Stocks :
    LatestClose(given, s) > 0 => Nav(given) < 2 * (PctQuanta * LatestClose(given, s))

LEMMA QuantityIsAllocated ==
  ASSUME Typed(given), SharesResolvedNow, NEW row \in FineRows, row.status \in SelectedStatuses
  PROVE  ManagerQuantity(row) \in {row.quantity, row.quantity - 1}
<1> DEFINE s == row.sym
           l == LatestClose(given, s)
           h == given.held[s]
           q == row.quantity
           nav == Nav(given)
           m == h + q
           z == StoredTarget(row.target)
<1>1. /\ s \in Stocks /\ q \in Nat /\ q > 0 /\ row.action = "BUY" /\ l > 0
      /\ row.approved = l * q /\ row.approved \in Nat /\ row.approved > 0
      /\ row.target = ValueHeld(given, s) + row.approved
      /\ row.target <= Pct(StockCapPct, nav) /\ row.target \in Nat
  BY DEF FineRows, RowFine, RowRecord
<1>2. /\ h \in Nat /\ l \in Nat /\ ValueHeld(given, s) = h * l /\ ValueHeld(given, s) \in Nat
      /\ nav \in Nat /\ PctQuanta \in Nat \ {0}
  <2>1. /\ h \in Nat /\ l \in Nat /\ (l > 0 => l = Price[s])
        /\ ValueHeld(given, s) = h * Price[s] /\ ValueHeld(given, s) \in Nat
    BY <1>1, ValueFacts
  <2>2. nav \in Nat
    BY NavFacts
  <2> HIDE DEF l, h
  <2> QED BY <1>1, <2>1, <2>2, AllocationAssumption
<1>3. nav > 0
  <2>1. nav = 0 => Pct(StockCapPct, nav) = 0
    BY DEF Pct
  <2>2. row.target > 0
    <3> HIDE DEF l, s
    <3> QED BY <1>1, <1>2
  <2> HIDE DEF nav
  <2> QED BY <1>1, <1>2, <2>1, <2>2
<1>4. nav < 2 * (PctQuanta * l)
  BY <1>1 DEF SharesResolvedNow
<1> HIDE DEF l, h, q, nav
<1>5. m \in Nat \ {0} /\ row.target = l * m
  <2>1. l * m = h * l + l * q
    BY <1>1, <1>2
  <2> QED BY <1>1, <1>2, <2>1
<1>6. z = RoundHalfEven((l * m) * PctQuanta, nav) /\ (l * m) * PctQuanta \in Nat
  BY <1>2, <1>5 DEF StoredTarget, nav
<1> HIDE DEF m, z
<1>7. z \in Nat /\ Nearest((l * m) * PctQuanta, nav, z)
  BY <1>2, <1>3, <1>6, HalfEvenIsNearest
<1>8. ((nav * z) \div PctQuanta) \div l \in {m, m - 1}
  <2>1. nav \in Nat \ {0} /\ l \in Nat \ {0}
    BY <1>1, <1>2, <1>3
  <2> QED BY <1>2, <1>4, <1>5, <1>7, <2>1, StoredShareReturns, Zenon
<1>9. TargetQuantity(row) = ((nav * z) \div PctQuanta) \div l
  <2>1. l # 0
    BY <1>1, <1>2
  <2> QED BY <2>1 DEF TargetQuantity, l, nav, z, s
<1> DEFINE y == TargetQuantity(row)
<1> HIDE DEF y
<1>10. y \in {m, m - 1}
  BY <1>8, <1>9 DEF y
<1>11. y - h \in Int /\ (y - h = q \/ y - h = q - 1)
  BY <1>1, <1>2, <1>10 DEF m
<1>12. Above0(y - h) = IF y - h > 0 THEN y - h ELSE 0
  BY <1>11, AboveZero
<1>13. Above0(y - h) \in {q, q - 1}
  BY <1>1, <1>11, <1>12 DEF q
<1>14. ManagerQuantity(row) = Above0(y - h)
  BY <1>1 DEF ManagerQuantity, y, h, s
<1> QED BY <1>13, <1>14 DEF q
-----------------------------------------------------------------------------
(* Routing: what an order frees and what it takes.                          *)

LEMMA HeldIsPartOfNav ==
  ASSUME NEW in, Typed(in), NEW s \in Stocks
  PROVE  ValueHeld(in, s) <= Nav(in)
<1> DEFINE f == [x \in Stocks |-> ValueHeld(in, x)]
<1>1. IsFiniteSet(Stocks) /\ \A x \in Stocks : f[x] \in Nat /\ f[x] \in Int
  BY SizingAssumption, ValueFacts
<1>2. IsFiniteSet(Stocks \ {s})
  BY <1>1, FS_Subset
<1>3. f[s] = ValueHeld(in, s)
  OBVIOUS
<1> HIDE DEF f
<1>4. SumOver(f, Stocks) = f[s] + SumOver(f, Stocks \ {s})
  BY <1>1, SumFacts
<1>5. SumOver(f, Stocks \ {s}) \in Nat
  BY <1>1, <1>2, SumNatural
<1>6. HeldValue(in, Stocks) = SumOver(f, Stocks) /\ in.cash \in Nat
  BY DEF HeldValue, Typed, f
<1>7. f[s] \in Nat
  BY <1>1
<1> QED BY <1>3, <1>4, <1>5, <1>6, <1>7 DEF Nav

LEMMA DivNat ==
  ASSUME NEW n \in Nat, NEW d \in Nat \ {0}
  PROVE  n \div d \in Nat
OBVIOUS

LEMMA ManagerQuantityNat ==
  ASSUME Typed(given), NEW row \in FineRows,
         row.status \in SelectedStatuses \cup {"open_position_management"}
  PROVE  ManagerQuantity(row) \in Nat
<1> DEFINE s == row.sym
           l == LatestClose(given, s)
           h == given.held[s]
           nav == Nav(given)
           y == TargetQuantity(row)
<1>1. s \in Stocks /\ row.target \in Nat
  BY DEF FineRows, RowRecord
<1>2. /\ h \in Nat /\ l \in Nat /\ nav \in Nat /\ PctQuanta \in Nat \ {0}
      /\ ValueHeld(given, s) = h * Price[s] /\ (l > 0 => l = Price[s])
      /\ ValueHeld(given, s) <= nav /\ ValueHeld(given, s) \in Nat
  <2>1. nav \in Nat /\ ValueHeld(given, s) <= nav
    BY <1>1, NavFacts, HeldIsPartOfNav
  <2> HIDE DEF nav
  <2> QED BY <1>1, <2>1, ValueFacts, AllocationAssumption
<1>3. l > 0 => nav > 0
  <2> SUFFICES ASSUME l > 0, nav = 0 PROVE FALSE
    BY <1>2
  <2>1. CASE row.status \in SelectedStatuses
    <3>1. row.target = ValueHeld(given, s) + row.approved /\ row.approved \in Nat
          /\ row.approved > 0 /\ row.target <= Pct(StockCapPct, nav)
      BY <2>1 DEF FineRows, RowFine, RowRecord
    <3>2. Pct(StockCapPct, nav) = 0
      BY DEF Pct
    <3> HIDE DEF nav, s
    <3> QED BY <1>1, <1>2, <3>1, <3>2
  <2>2. CASE row.status = "open_position_management"
    <3>1. h > 0
      BY <2>2 DEF FineRows, RowFine
    <3>2. h * Price[s] > 0
      <4> HIDE DEF h, l
      <4> QED BY <1>2, <3>1
    <3> HIDE DEF h, l, nav, s
    <3> QED BY <1>2, <3>2
  <2> QED BY <2>1, <2>2
<1>4. y \in Nat
  <2>1. CASE l = 0
    BY <2>1 DEF TargetQuantity
  <2>2. CASE l # 0
    <3> DEFINE z == StoredTarget(row.target)
               a == row.target * PctQuanta
               x == nav * z
    <3>1. a \in Nat /\ nav \in Nat \ {0}
      <4> HIDE DEF l, nav
      <4> QED BY <1>1, <1>2, <1>3, <2>2
    <3>2. z \in Nat
      <4>1. z = RoundHalfEven(a, nav)
        BY DEF StoredTarget
      <4> HIDE DEF a, nav, z
      <4> QED BY <3>1, <4>1, HalfEvenIsNearest
    <3>3. x \in Nat
      <4> HIDE DEF z, nav
      <4> QED BY <3>1, <3>2
    <3>4. y = (x \div PctQuanta) \div l
      BY <2>2 DEF TargetQuantity
    <3> HIDE DEF x, l, y
    <3>5. x \div PctQuanta \in Nat
      BY <1>2, <3>3, DivNat, Zenon
    <3>6. l \in Nat \ {0}
      BY <1>2, <2>2
    <3> QED BY <3>4, <3>5, <3>6, DivNat
  <2> QED BY <2>1, <2>2
<1>5. y - h \in Int /\ h - y \in Int
  <2> HIDE DEF y, h
  <2> QED BY <1>2, <1>4
<1>6. Above0(y - h) \in Nat /\ Above0(h - y) \in Nat
  <2> HIDE DEF y, h
  <2> QED BY <1>5, AboveZero
<1> QED BY <1>2, <1>6 DEF ManagerQuantity

LEMMA NotionalFacts ==
  ASSUME NEW row \in FineRows, NEW n \in Nat
  PROVE  /\ AcceptedNotional(row, n) \in Nat /\ (n = 0 => AcceptedNotional(row, n) = 0)
         /\ row.status \in SelectedStatuses
              => AcceptedNotional(row, n) = n * LatestClose(given, row.sym)
<1> DEFINE q == row.quantity
           a == row.approved
           l == LatestClose(given, row.sym)
           p == a * n
<1>1. q \in Nat /\ a \in Nat
  BY DEF FineRows, RowRecord
<1>2. CASE q = 0
  BY <1>2 DEF AcceptedNotional, FineRows, RowFine
<1>3. CASE q # 0
  <2>1. AcceptedNotional(row, n) = p \div q
    BY <1>3 DEF AcceptedNotional
  <2>2. p \in Nat /\ q \in Nat \ {0} /\ (n = 0 => p = 0)
    <3> HIDE DEF q, a
    <3> QED BY <1>1, <1>3
  <2>3. p \div q \in Nat /\ (p = 0 => p \div q = 0)
    <3> HIDE DEF p, q
    <3> QED BY <2>2
  <2>4. ASSUME row.status \in SelectedStatuses PROVE p \div q = n * l
    <3>1. a = l * q
      BY <2>4 DEF FineRows, RowFine
    <3>2. l \in Nat
      BY SizingAssumption DEF LatestClose, FineRows, RowRecord
    <3> DEFINE k == n * l
    <3>3. k \in Nat /\ p = q * k
      <4> HIDE DEF q, a, l
      <4> QED BY <2>2, <3>1, <3>2
    <3> HIDE DEF k, p, q
    <3>4. (q * k) \div q = k
      BY <2>2, <3>3
    <3> QED BY <3>3, <3>4 DEF k
  <2> HIDE DEF p, q, l
  <2> QED BY <2>1, <2>2, <2>3, <2>4 DEF l
<1> QED BY <1>2, <1>3

LEMMA SellCostZero == SellCost(0) = 0
<1>1. 0 * Policy.sellCost = 0 /\ 0 \div 100 = 0
  BY PlanAssumption
<1> QED BY <1>1 DEF SellCost

LEMMA FreedFacts ==
  ASSUME NEW row \in FineRows, NEW n \in Nat
  PROVE  Freed(row, n) \in Nat /\ (n = 0 => Freed(row, n) = 0)
<1> DEFINE gross == AcceptedNotional(row, n)
           net == Above0(gross - SellCost(gross))
           p == net * Policy.haircut
<1>1. gross \in Nat /\ (n = 0 => gross = 0)
  BY NotionalFacts
<1> HIDE DEF gross
<1>2. SellCost(gross) \in Nat /\ (gross = 0 => SellCost(gross) = 0)
  BY <1>1, SellCostFacts, SellCostZero
<1>3. gross - SellCost(gross) \in Int /\ (n = 0 => gross - SellCost(gross) = 0)
  BY <1>1, <1>2
<1>4. net \in Nat /\ (n = 0 => net = 0)
  BY <1>3, AboveZero
<1>5. Policy.haircut \in Nat
  BY PlanAssumption
<1>6. p \in Nat /\ (n = 0 => p = 0)
  <2> HIDE DEF net
  <2> QED BY <1>4, <1>5
<1>7. p \div 100 \in Nat /\ (p = 0 => p \div 100 = 0)
  <2> HIDE DEF p
  <2> QED BY <1>6
<1>8. Freed(row, n) = p \div 100
  BY DEF Freed, gross
<1> HIDE DEF p
<1> QED BY <1>6, <1>7, <1>8

(* A BUY that is accepted takes what the broker reckons, and no more than   *)
(* the cash that is left.                                                   *)
LEMMA DebitFacts ==
  ASSUME Typed(given), NEW row \in FineRows, row.status \in SelectedStatuses, NEW n \in Nat
  PROVE  /\ Debited(row, n) = BrokerDebit(row, n) /\ BrokerDebit(row, n) \in Nat
         /\ n = 0 => BrokerDebit(row, n) = 0
<1> DEFINE gross == n * LatestClose(given, row.sym)
<1>1. LatestClose(given, row.sym) \in Nat
  BY ValueFacts DEF FineRows, RowRecord
<1>2. gross \in Nat /\ (n = 0 => gross = 0)
  BY <1>1
<1>3. AcceptedNotional(row, n) = gross
  BY NotionalFacts
<1>4. BrokerDebit(row, n) = gross + SellCost(gross) /\ Debited(row, n) = gross + SellCost(gross)
  BY <1>3, Zenon DEF BrokerDebit, Debited
<1> HIDE DEF gross
<1>5. SellCost(gross) \in Nat /\ (gross = 0 => SellCost(gross) = 0)
  BY <1>2, SellCostFacts, SellCostZero
<1> QED BY <1>2, <1>4, <1>5

LEMMA AcceptedFacts ==
  ASSUME Typed(given), pending \in Nat, NEW row \in FineRows,
         row.status \in SelectedStatuses \cup {"open_position_management"},
         NEW approved \in Nat
  PROVE  /\ Accepted(row, approved) \in Nat
         /\ row.action = "BUY" => BrokerDebit(row, Accepted(row, approved)) <= pending
<1>1. CASE row.action = "BUY"
  <2> DEFINE S == {0} \cup {n \in 1..approved : BrokerDebit(row, n) <= pending}
  <2>1. row.status \in SelectedStatuses
    BY <1>1 DEF FineRows, RowFine
  <2>2. S \in SUBSET Int /\ S # {} /\ IsFiniteSet(S)
    <3>1. IsFiniteSet(0..approved) /\ S \subseteq 0..approved
      BY FS_Interval
    <3> QED BY <3>1, FS_Subset
  <2>3. Max(S) \in S
    <3> HIDE DEF S
    <3> QED BY <2>2, GreatestOf
  <2>4. Accepted(row, approved) = Max(S)
    BY <1>1 DEF Accepted
  <2>5. ASSUME NEW n \in S PROVE n \in Nat /\ BrokerDebit(row, n) <= pending
    <3>1. BrokerDebit(row, 0) = 0
      BY <2>1, DebitFacts
    <3> QED BY <2>5, <3>1
  <2> HIDE DEF S
  <2> QED BY <2>3, <2>4, <2>5
<1>2. CASE row.action # "BUY"
  <2>1. ManagerQuantity(row) \in Nat
    BY ManagerQuantityNat
  <2>2. given.held[row.sym] \in Nat
    BY ValueFacts DEF FineRows, RowRecord
  <2>3. Min({given.held[row.sym], ManagerQuantity(row)}) \in Nat
    <3> DEFINE a == given.held[row.sym]
               b == ManagerQuantity(row)
    <3> HIDE DEF a, b
    <3>1. a \in Nat /\ b \in Nat
      BY <2>1, <2>2 DEF a, b
    <3>2. Min({a, b}) \in Nat
      BY <3>1, MinOfTwo
    <3> QED BY <3>2 DEF a, b
  <2> QED BY <1>2, <2>3 DEF Accepted
<1> QED BY <1>1, <1>2
-----------------------------------------------------------------------------
(* The order of routing and the cash that is threaded through it.           *)

(* A sum with one term more. *)
OneTermMore(S, n, f, g) ==
  /\ IsFiniteSet(S) /\ n \notin S /\ g[n] \in Int
  /\ \A x \in S : f[x] \in Int /\ g[x] = f[x]

LEMMA SumGrows ==
  ASSUME NEW S, NEW n, NEW f, NEW g, OneTermMore(S, n, f, g)
  PROVE  SumOver(g, S \cup {n}) = SumOver(f, S) + g[n]
<1> DEFINE T == S \cup {n}
<1>1. IsFiniteSet(T) /\ T \ {n} = S /\ n \in T
  BY FS_Singleton, FS_Union DEF OneTermMore
<1>2. \A x \in T : g[x] \in Int
  BY DEF OneTermMore
<1> HIDE DEF T
<1>3. SumOver(g, T) = g[n] + SumOver(g, S)
  BY <1>1, <1>2, SumFacts
<1>4. SumOver(g, S) = SumOver(f, S) /\ SumOver(f, S) \in Int
  BY SumAgrees, SumFacts DEF OneTermMore
<1> QED BY <1>2, <1>3, <1>4 DEF T

OrderRecord == [sym : Stocks, side : {"BUY", "SELL"}, quantity : Nat \ {0}, debit : Nat]

DebitOf == [i \in DOMAIN orders |-> orders[i].debit]
FreedOf == [i \in DOMAIN orders |-> Freed(Final(orders[i].sym), orders[i].quantity)]

(* Cash and what was taken come from the account and from what was freed.   *)
CashThreaded ==
  pending + SumOver(DebitOf, Queued("BUY")) <= given.cash + SumOver(FreedOf, Queued("SELL"))

(* No SELL waits behind a BUY. *)
SidesInOrder ==
  /\ \A i, j \in DOMAIN queue :
       i < j => SideGroup(Final(queue[i]).action) <= SideGroup(Final(queue[j]).action)
  /\ (\E i \in DOMAIN orders : orders[i].side = "BUY")
       => \A i \in DOMAIN queue : Final(queue[i]).action = "BUY"

RoutingInv ==
  /\ orders \in Seq(OrderRecord)
  /\ phase \notin {"routing", "done"} => orders = <<>>
  /\ SellsBeforeBuys
  /\ phase \in {"routing", "done"} =>
       /\ pending \in Nat /\ \A i \in DOMAIN orders : orders[i].sym \in Routable
       /\ CashThreaded
  /\ phase = "routing" => queue \in Seq(Routable) /\ SidesInOrder

LEMMA FinalFacts ==
  ASSUME RunTyped, NEW s \in Routable
  PROVE  /\ Final(s) \in FineRows /\ Final(s).sym = s /\ s \in Stocks
         /\ Final(s).status \in SelectedStatuses \cup {"open_position_management"}
         /\ Final(s).action \in {"BUY", "REDUCE", "EXIT"}
         /\ Final(s).action = "BUY" => Final(s).status \in SelectedStatuses
<1>1. RowsOf(s) # {} /\ Executable(Final(s)) /\ s \in Stocks
  BY DEF Routable
<1>2. ledger \in Seq(FineRows) /\ DOMAIN ledger = 1..Len(ledger) /\ Len(ledger) \in Nat
  BY LenProperties DEF RunTyped
<1>3. RowsOf(s) \in SUBSET Int /\ IsFiniteSet(RowsOf(s)) /\ RowsOf(s) \subseteq DOMAIN ledger
  <2>1. RowsOf(s) \subseteq 1..Len(ledger) /\ IsFiniteSet(1..Len(ledger))
    BY <1>2, FS_Interval DEF RowsOf
  <2> QED BY <1>2, <2>1, FS_Subset
<1>4. Max(RowsOf(s)) \in RowsOf(s)
  BY <1>1, <1>3, GreatestOf
<1>5. Final(s).sym = s /\ Final(s) \in FineRows
  <2>1. Max(RowsOf(s)) \in DOMAIN ledger /\ ledger[Max(RowsOf(s))].sym = s
    BY <1>4 DEF RowsOf
  <2> QED BY <1>2, <2>1, ElementOfSeq DEF Final
<1>6. Final(s).status \in SelectedStatuses => Final(s).action = "BUY"
  BY <1>5 DEF FineRows, RowFine
<1>7. Final(s).status = "open_position_management" => Final(s).action # "BUY"
  BY <1>5 DEF FineRows, RowFine, SelectedStatuses
<1> QED BY <1>1, <1>5, <1>6, <1>7 DEF Executable

LEMMA RoutingInvInit == AllocationInit => RoutingInv
<1> SUFFICES ASSUME AllocationInit PROVE RoutingInv
  OBVIOUS
<1>1. orders = <<>> /\ phase = "idle" /\ DOMAIN orders = {} /\ orders \in Seq(OrderRecord)
  BY EmptySeq DEF AllocationInit
<1> QED BY <1>1 DEF RoutingInv, SellsBeforeBuys

LEMMA RoutingInvOpen ==
  ASSUME RunTyped, RoutingInv, OpenRouting
  PROVE  RoutingInv'
<1> DEFINE S == Routable
           key == [s \in S |-> RouteKey(s)]
           order == SortedBy(S, key)
           side(s) == SideGroup(Final(s).action)
<1>1. /\ phase = "buys" /\ phase' = "routing" /\ queue' = order /\ pending' = given.cash
      /\ UNCHANGED <<mode, given, ledger, orders>>
  BY DEF OpenRouting, RoutingCash
<1>2. IsFiniteSet(S)
  BY SizingAssumption, FS_Subset DEF Routable
<1>3. ASSUME NEW s \in S
      PROVE  key[s] = <<side(s), Final(s).rank, Position[s]>>
  BY DEF RouteKey
<1>4. ASSUME NEW s \in S PROVE side(s) \in Int /\ Final(s).rank \in Int /\ Position[s] \in Int
                              /\ s \in Stocks
  BY FinalFacts, PlanAssumption DEF SideGroup, FineRows, RowRecord
<1>5. S' = S /\ \A s : side(s)' = side(s)
  <2>1. \A s : Final(s)' = Final(s) /\ RowsOf(s)' = RowsOf(s)
    BY <1>1 DEF Final, RowsOf
  <2> QED BY <2>1 DEF Routable, Executable
<1> HIDE DEF S, key, side
<1>6. ASSUME NEW s \in S PROVE key[s] \in Seq(Int) /\ Len(key[s]) = 3
  <2>1. /\ <<side(s), Final(s).rank, Position[s]>> \in Seq(Int)
        /\ Len(<<side(s), Final(s).rank, Position[s]>>) = 3
    BY <1>4, ShortKeys, Zenon
  <2> QED BY <1>3, <2>1, Zenon
<1>7. ASSUME NEW s \in S, NEW t \in S, key[s] = key[t] PROVE s = t
  <2>1. <<side(s), Final(s).rank, Position[s]>> = <<side(t), Final(t).rank, Position[t]>>
    BY <1>3, <1>7, Zenon
  <2>2. Position[s] = Position[t]
    <3> DEFINE a == Position[s]
               b == Position[t]
    <3> HIDE DEF a, b
    <3>1. a = b
      BY <2>1 DEF a, b
    <3> QED BY <3>1 DEF a, b
  <2> QED BY <1>4, <2>2, PlanAssumption
<1>8. /\ order \in Seq(S)
      /\ \A i, j \in 1..Len(order) : i < j => LexLess(key[order[i]], key[order[j]])
  <2>1. 3 \in Nat
    OBVIOUS
  <2>2. Ordered(S, key)
    BY <1>6, <1>7, <2>1, KeysOrder
  <2> QED BY <1>2, <2>2, SortedFacts
<1> HIDE DEF order
<1>9. DOMAIN order = 1..Len(order) /\ Len(order) \in Nat /\ \A i \in DOMAIN order : order[i] \in S
  BY <1>8, LenProperties, ElementOfSeq
<1>10. ASSUME NEW i \in DOMAIN order, NEW j \in DOMAIN order, i < j
       PROVE  side(order[i]) <= side(order[j])
  <2> DEFINE a == key[order[i]]
             b == key[order[j]]
  <2>1. LexLess(a, b)
    BY <1>8, <1>9, <1>10
  <2>2. DOMAIN a = 1..3 /\ a[1] = side(order[i]) /\ b[1] = side(order[j])
    <3>1. a = <<side(order[i]), Final(order[i]).rank, Position[order[i]]>>
          /\ b = <<side(order[j]), Final(order[j]).rank, Position[order[j]]>>
      BY <1>3, <1>9
    <3> HIDE DEF a, b
    <3> QED BY <3>1
  <2>3. side(order[i]) \in Int /\ side(order[j]) \in Int
    BY <1>4, <1>9
  <2> HIDE DEF a, b
  <2>4. PICK k \in 1..3 : a[k] < b[k] /\ \A m \in 1..(k - 1) : a[m] = b[m]
    BY <2>1, <2>2 DEF LexLess
  <2>5. k = 1 \/ 1 \in 1..(k - 1)
    BY <2>4
  <2> QED BY <2>2, <2>3, <2>4, <2>5
<1>11. orders = <<>> /\ DOMAIN orders = {}
  BY <1>1 DEF RoutingInv
<1>12. CashThreaded'
  <2>1. Queued("BUY")' = {} /\ Queued("SELL")' = {}
    BY <1>1, <1>11 DEF Queued
  <2>2. SumOver(DebitOf', {}) = 0 /\ SumOver(FreedOf', {}) = 0
    BY SumFacts, FS_EmptySet
  <2>3. given.cash \in Nat
    BY DEF RunTyped, Typed
  <2> QED BY <1>1, <2>1, <2>2, <2>3 DEF CashThreaded
<1>13. queue' \in Seq(Routable')
  BY <1>1, <1>5, <1>8 DEF S
<1>14. SidesInOrder'
  <2>1. \A s : SideGroup(Final(s).action)' = SideGroup(Final(s).action)
    BY <1>5 DEF side
  <2>2. \A i, j \in DOMAIN order :
          i < j => SideGroup(Final(order[i]).action) <= SideGroup(Final(order[j]).action)
    BY <1>10 DEF side
  <2>3. \A s : Final(s)' = Final(s)
    BY <1>1 DEF Final, RowsOf
  <2> QED BY <1>1, <1>11, <2>2, <2>3 DEF SidesInOrder, Final, RowsOf
<1>15. pending' \in Nat /\ SellsBeforeBuys' /\ orders' \in Seq(OrderRecord) /\ DOMAIN orders' = {}
  BY <1>1, <1>11 DEF RoutingInv, SellsBeforeBuys, RunTyped, Typed
<1> QED BY <1>1, <1>12, <1>13, <1>14, <1>15 DEF RoutingInv

LEMMA OrdersAppended ==
  ASSUME orders \in Seq(OrderRecord), NEW o \in OrderRecord, orders' = Append(orders, o)
  PROVE  /\ Len(orders) \in Nat /\ DOMAIN orders = 1..Len(orders)
         /\ orders' \in Seq(OrderRecord) /\ DOMAIN orders' = DOMAIN orders \cup {Len(orders) + 1}
         /\ Len(orders) + 1 \notin DOMAIN orders /\ orders'[Len(orders) + 1] = o
         /\ \A i \in DOMAIN orders : orders'[i] = orders[i] /\ orders[i] \in OrderRecord
BY AppendProperties, LenProperties, ElementOfSeq

(* One order more keeps what was threaded if the cash moves with it.        *)
LEMMA CashThreadedGrows ==
  ASSUME RunTyped, orders \in Seq(OrderRecord), CashThreaded,
         \A i \in DOMAIN orders : orders[i].sym \in Routable,
         pending \in Nat, pending' \in Nat, UNCHANGED <<given, ledger>>,
         NEW o \in OrderRecord, orders' = Append(orders, o), o.sym \in Routable,
         IF o.side = "BUY" THEN pending' = pending - o.debit
         ELSE pending' = pending + Freed(Final(o.sym), o.quantity)
  PROVE  CashThreaded'
<1> DEFINE B == Queued("BUY")
           S == Queued("SELL")
<1>1. PICK n \in Nat :
        /\ DOMAIN orders' = DOMAIN orders \cup {n} /\ n \notin DOMAIN orders /\ orders'[n] = o
        /\ \A i \in DOMAIN orders : orders'[i] = orders[i] /\ orders[i] \in OrderRecord
        /\ IsFiniteSet(DOMAIN orders)
  <2>1. /\ Len(orders) \in Nat /\ DOMAIN orders = 1..Len(orders)
        /\ DOMAIN orders' = DOMAIN orders \cup {Len(orders) + 1}
        /\ Len(orders) + 1 \notin DOMAIN orders /\ orders'[Len(orders) + 1] = o
        /\ \A i \in DOMAIN orders : orders'[i] = orders[i] /\ orders[i] \in OrderRecord
    BY OrdersAppended
  <2>2. IsFiniteSet(DOMAIN orders) /\ Len(orders) + 1 \in Nat
    BY <2>1, FS_Interval
  <2> QED BY <2>1, <2>2, Zenon
<1>2. /\ B \subseteq DOMAIN orders /\ S \subseteq DOMAIN orders
      /\ IsFiniteSet(B) /\ IsFiniteSet(S) /\ n \notin B /\ n \notin S
      /\ Queued("BUY")' = (IF o.side = "BUY" THEN B \cup {n} ELSE B)
      /\ Queued("SELL")' = (IF o.side = "BUY" THEN S ELSE S \cup {n})
  <2>1. B \subseteq DOMAIN orders /\ S \subseteq DOMAIN orders
    BY DEF Queued
  <2>2. o.side \in {"BUY", "SELL"}
    BY DEF OrderRecord
  <2> QED BY <1>1, <2>1, <2>2, FS_Subset DEF Queued
<1>3. ASSUME NEW i \in DOMAIN orders
      PROVE  /\ DebitOf[i] \in Int /\ DebitOf'[i] = DebitOf[i]
             /\ FreedOf[i] \in Int /\ FreedOf'[i] = FreedOf[i]
  <2>1. orders[i] \in OrderRecord /\ orders'[i] = orders[i] /\ i \in DOMAIN orders'
    BY <1>1
  <2>2. orders[i].debit \in Nat /\ orders[i].quantity \in Nat /\ orders[i].sym \in Routable
    BY <2>1 DEF OrderRecord
  <2>3. Freed(Final(orders[i].sym), orders[i].quantity) \in Nat
    BY <2>2, FinalFacts, FreedFacts
  <2>4. DebitOf[i] = orders[i].debit /\ DebitOf'[i] = orders[i].debit
    BY <2>1 DEF DebitOf
  <2>5. FreedOf[i] = Freed(Final(orders[i].sym), orders[i].quantity)
    BY DEF FreedOf
  <2>6. FreedOf'[i] = Freed(Final(orders[i].sym), orders[i].quantity)
    <3>1. FreedOf'[i] = Freed(Final(orders[i].sym), orders[i].quantity)'
      BY <2>1 DEF FreedOf
    <3>2. Freed(Final(orders[i].sym), orders[i].quantity)'
            = Freed(Final(orders[i].sym), orders[i].quantity)
      BY <2>1 DEF Freed, AcceptedNotional, SellCost, Final, RowsOf
    <3> QED BY <3>1, <3>2
  <2> QED BY <2>2, <2>3, <2>4, <2>5, <2>6
<1>4. /\ SumOver(DebitOf, B) \in Int /\ SumOver(FreedOf, S) \in Int
      /\ SumOver(DebitOf', B) = SumOver(DebitOf, B)
      /\ SumOver(FreedOf', S) = SumOver(FreedOf, S)
  <2> DEFINE f == DebitOf
             g == DebitOf'
             h == FreedOf
             k == FreedOf'
  <2>1. /\ \A i \in B : f[i] = g[i] /\ f[i] \in Int
        /\ \A i \in S : h[i] = k[i] /\ h[i] \in Int
    BY <1>2, <1>3
  <2> HIDE DEF f, g, h, k, B, S
  <2> QED BY <1>2, <2>1, SumAgrees, SumFacts DEF f, g, h, k
<1>5. given'.cash = given.cash /\ given.cash \in Nat
  BY DEF RunTyped, Typed
<1>6. CASE o.side = "BUY"
  <2>1. DebitOf'[n] = o.debit /\ o.debit \in Nat
    BY <1>1 DEF DebitOf, OrderRecord
  <2>2. SumOver(DebitOf', B \cup {n}) = SumOver(DebitOf, B) + o.debit
    <3>1. /\ \A i \in B : DebitOf[i] \in Int /\ DebitOf'[i] = DebitOf[i]
          /\ DebitOf'[n] = o.debit /\ DebitOf'[n] \in Int
      BY <1>2, <1>3, <2>1
    <3>2. OneTermMore(B, n, DebitOf, DebitOf')
      BY <1>2, <3>1 DEF OneTermMore
    <3>3. SumOver(DebitOf', B \cup {n}) = SumOver(DebitOf, B) + DebitOf'[n]
      BY <3>2, SumGrows
    <3> QED BY <3>1, <3>3
  <2> DEFINE x == SumOver(DebitOf, B)
             y == SumOver(FreedOf, S)
  <2>3. pending + x <= given.cash + y
    BY DEF CashThreaded
  <2>4. CashThreaded' <=> pending' + SumOver(DebitOf', Queued("BUY")')
                            <= given'.cash + SumOver(FreedOf', Queued("SELL")')
    BY DEF CashThreaded
  <2>5. SumOver(DebitOf', Queued("BUY")') = x + o.debit
        /\ SumOver(FreedOf', Queued("SELL")') = y
    BY <1>2, <1>4, <1>6, <2>2
  <2>6. x \in Int /\ y \in Int /\ pending' = pending - o.debit
    BY <1>4, <1>6
  <2> HIDE DEF x, y
  <2> QED BY <1>5, <2>1, <2>3, <2>4, <2>5, <2>6
<1>7. CASE o.side # "BUY"
  <2> DEFINE free == Freed(Final(o.sym), o.quantity)
  <2>1. FreedOf'[n] = free /\ free \in Nat
    <3>1. FreedOf'[n] = Freed(Final(orders[n].sym), orders[n].quantity)'
      BY <1>1 DEF FreedOf
    <3>2. Freed(Final(orders[n].sym), orders[n].quantity)' = free
      BY <1>1 DEF Freed, AcceptedNotional, SellCost, Final, RowsOf
    <3>3. o.quantity \in Nat
      BY DEF OrderRecord
    <3>4. free \in Nat
      BY <3>3, FinalFacts, FreedFacts
    <3> QED BY <3>1, <3>2, <3>4
  <2> HIDE DEF free
  <2>2. SumOver(FreedOf', S \cup {n}) = SumOver(FreedOf, S) + free
    <3>1. /\ \A i \in S : FreedOf[i] \in Int /\ FreedOf'[i] = FreedOf[i]
          /\ FreedOf'[n] = free /\ FreedOf'[n] \in Int
      BY <1>2, <1>3, <2>1
    <3>2. OneTermMore(S, n, FreedOf, FreedOf')
      BY <1>2, <3>1 DEF OneTermMore
    <3>3. SumOver(FreedOf', S \cup {n}) = SumOver(FreedOf, S) + FreedOf'[n]
      BY <3>2, SumGrows
    <3> QED BY <3>1, <3>3
  <2> DEFINE x == SumOver(DebitOf, B)
             y == SumOver(FreedOf, S)
  <2>3. pending + x <= given.cash + y
    BY DEF CashThreaded
  <2>4. CashThreaded' <=> pending' + SumOver(DebitOf', Queued("BUY")')
                            <= given'.cash + SumOver(FreedOf', Queued("SELL")')
    BY DEF CashThreaded
  <2>5. SumOver(DebitOf', Queued("BUY")') = x
        /\ SumOver(FreedOf', Queued("SELL")') = y + free
    BY <1>2, <1>4, <1>7, <2>2
  <2>6. x \in Int /\ y \in Int /\ pending' = pending + free
    BY <1>4, <1>7 DEF free
  <2> HIDE DEF x, y
  <2> QED BY <1>5, <2>1, <2>3, <2>4, <2>5, <2>6
<1> QED BY <1>6, <1>7

LEMMA RoutingInvRoute ==
  ASSUME RunTyped, RoutingInv, Route
  PROVE  RoutingInv'
<1> DEFINE s == Head(queue)
           row == Final(s)
           side == IF row.action = "BUY" THEN "BUY" ELSE "SELL"
<1>1. /\ phase = "routing" /\ phase' = "routing" /\ queue # <<>> /\ queue' = Tail(queue)
      /\ UNCHANGED <<mode, given, ledger>>
  BY DEF Route
<1>2. PICK approved \in Reviewed(row) :
        LET n == Accepted(row, approved)
        IN  /\ orders' = IF n = 0 THEN orders
                         ELSE Append(orders, [sym |-> row.sym, side |-> side, quantity |-> n,
                                              debit |-> BrokerDebit(row, n)])
            /\ pending' = IF side = "SELL" THEN pending + Freed(row, n)
                          ELSE Above0(pending - Debited(row, n))
  BY Zenon DEF Route
<1>3. /\ orders \in Seq(OrderRecord) /\ SellsBeforeBuys /\ pending \in Nat
      /\ \A i \in DOMAIN orders : orders[i].sym \in Routable
      /\ CashThreaded /\ queue \in Seq(Routable) /\ SidesInOrder
      /\ Typed(given)
  BY <1>1 DEF RoutingInv, RunTyped
<1>4. /\ 1 \in DOMAIN queue /\ queue[1] = s /\ Tail(queue) \in Seq(Routable)
      /\ \A i \in DOMAIN Tail(queue) :
           i + 1 \in DOMAIN queue /\ Tail(queue)[i] = queue[i + 1] /\ i + 1 # 1 /\ i \in Nat
      /\ \A i \in DOMAIN queue : queue[i] \in Routable
  BY <1>1, <1>3, QueueShortened, ElementOfSeq, LenProperties
<1>5. /\ row \in FineRows /\ row.sym = s /\ s \in Stocks /\ s \in Routable
      /\ row.status \in SelectedStatuses \cup {"open_position_management"}
      /\ row.action \in {"BUY", "REDUCE", "EXIT"}
      /\ row.action = "BUY" => row.status \in SelectedStatuses
  BY <1>4, FinalFacts
<1> HIDE DEF s
<1>6. approved \in Nat
  <2>1. ManagerQuantity(row) \in Nat
    BY <1>3, <1>5, ManagerQuantityNat
  <2> DEFINE m == ManagerQuantity(row)
  <2>2. approved \in {0, m, m \div 2}
    BY DEF Reviewed
  <2> HIDE DEF m
  <2>3. m \div 2 \in Nat
    BY <2>1 DEF m
  <2> QED BY <2>1, <2>2, <2>3 DEF m
<1> DEFINE n == Accepted(row, approved)
           o == [sym |-> row.sym, side |-> side, quantity |-> n, debit |-> BrokerDebit(row, n)]
<1>7. n \in Nat /\ (row.action = "BUY" => BrokerDebit(row, n) <= pending)
  BY <1>3, <1>5, <1>6, AcceptedFacts
<1>8. /\ orders' = IF n = 0 THEN orders ELSE Append(orders, o)
      /\ pending' = IF side = "SELL" THEN pending + Freed(row, n)
                    ELSE Above0(pending - Debited(row, n))
  BY <1>2
<1> HIDE DEF n
<1>9. BrokerDebit(row, n) \in Nat
  <2>1. LatestClose(given, row.sym) \in Nat
    BY <1>3, <1>5, ValueFacts
  <2> DEFINE gross == n * LatestClose(given, row.sym)
  <2>2. gross \in Nat
    BY <1>7, <2>1
  <2>3. BrokerDebit(row, n) = gross + SellCost(gross)
    BY Zenon DEF BrokerDebit
  <2> HIDE DEF gross
  <2> QED BY <2>2, <2>3, SellCostFacts
<1>10. /\ side = "BUY" => /\ row.action = "BUY" /\ pending' = pending - BrokerDebit(row, n)
                          /\ pending' \in Nat /\ (n = 0 => pending' = pending)
       /\ side # "BUY" => /\ pending' = pending + Freed(row, n) /\ pending' \in Nat
                          /\ (n = 0 => pending' = pending)
  <2>1. CASE row.action = "BUY"
    <3>1. Debited(row, n) = BrokerDebit(row, n) /\ (n = 0 => BrokerDebit(row, n) = 0)
      BY <1>3, <1>5, <1>7, <2>1, DebitFacts
    <3> DEFINE x == BrokerDebit(row, n)
    <3> HIDE DEF x
    <3>2. x \in Nat /\ x <= pending /\ (n = 0 => x = 0) /\ pending' = Above0(pending - x)
      BY <1>7, <1>8, <1>9, <2>1, <3>1 DEF x
    <3>3. Above0(pending - x) = IF pending - x > 0 THEN pending - x ELSE 0
      BY <1>3, <3>2, AboveZero
    <3>4. pending' = pending - x /\ pending' \in Nat /\ (n = 0 => pending' = pending)
      BY <1>3, <3>2, <3>3
    <3> QED BY <2>1, <3>4 DEF x
  <2>2. CASE row.action # "BUY"
    <3>1. Freed(row, n) \in Nat /\ (n = 0 => Freed(row, n) = 0)
      BY <1>5, <1>7, FreedFacts
    <3>2. side = "SELL" /\ pending' = pending + Freed(row, n)
      BY <1>8, <2>2
    <3> QED BY <1>3, <3>1, <3>2
  <2> QED BY <2>1, <2>2
<1>11. o \in OrderRecord \/ n = 0
  BY <1>5, <1>7, <1>9 DEF OrderRecord
<1>12. /\ o.sym = row.sym /\ o.side = side /\ o.quantity = n /\ o.debit = BrokerDebit(row, n)
  OBVIOUS
<1>13. side \in {"BUY", "SELL"} /\ (side = "BUY" <=> row.action = "BUY")
  OBVIOUS
<1> HIDE DEF o, side
<1>14. /\ orders' \in Seq(OrderRecord) /\ CashThreaded'
       /\ \A i \in DOMAIN orders' : orders'[i].sym \in Routable
       /\ \A i \in DOMAIN orders' :
            (i \in DOMAIN orders /\ orders'[i] = orders[i]) \/ orders'[i].side = side
       /\ \A i \in DOMAIN orders' : i \notin DOMAIN orders => \A j \in DOMAIN orders' : j <= i
  <2>1. CASE n = 0
    <3>1. orders' = orders /\ pending' = pending
      BY <1>8, <1>10, <2>1
    <3>2. CashThreaded'
      BY <1>1, <1>3, <3>1 DEF CashThreaded, DebitOf, FreedOf, Queued, Freed, AcceptedNotional,
                              SellCost, Final, RowsOf
    <3> QED BY <1>3, <3>1, <3>2
  <2>2. CASE n # 0
    <3>1. orders' = Append(orders, o) /\ o \in OrderRecord
      BY <1>8, <1>11, <2>2
    <3>2. /\ DOMAIN orders = 1..Len(orders) /\ Len(orders) \in Nat
          /\ orders' \in Seq(OrderRecord) /\ DOMAIN orders' = DOMAIN orders \cup {Len(orders) + 1}
          /\ orders'[Len(orders) + 1] = o
          /\ \A i \in DOMAIN orders : orders'[i] = orders[i]
      BY <1>3, <3>1, OrdersAppended
    <3>3. o.sym \in Routable /\ Final(o.sym) = row
      BY <1>5, <1>12
    <3>4. IF o.side = "BUY" THEN pending' = pending - o.debit
          ELSE pending' = pending + Freed(Final(o.sym), o.quantity)
      BY <1>10, <1>12, <3>3
    <3>5. pending' \in Nat
      BY <1>10
    <3>6. CashThreaded'
      <4> HIDE DEF row
      <4> QED BY <1>1, <1>3, <3>1, <3>3, <3>4, <3>5, CashThreadedGrows
    <3>7. \A i \in DOMAIN orders' : i \notin DOMAIN orders => \A j \in DOMAIN orders' : j <= i
      BY <3>2
    <3> QED BY <1>3, <1>12, <3>2, <3>3, <3>6, <3>7
  <2> QED BY <2>1, <2>2
<1>15. (\E i \in DOMAIN orders : orders[i].side = "BUY") => side = "BUY"
  BY <1>3, <1>4, <1>13 DEF SidesInOrder
<1>16. SellsBeforeBuys'
  <2> SUFFICES ASSUME NEW i \in DOMAIN orders', NEW j \in DOMAIN orders', i < j,
                      orders'[i].side = "BUY"
               PROVE  orders'[j].side = "BUY"
    BY DEF SellsBeforeBuys
  <2>1. DOMAIN orders' = 1..Len(orders') /\ Len(orders') \in Nat
    BY <1>14, LenProperties
  <2>2. i \in DOMAIN orders
    BY <1>14, <2>1
  <2>3. orders'[i] = orders[i] \/ side = "BUY"
    BY <1>14
  <2>4. CASE j \in DOMAIN orders /\ orders'[j] = orders[j] /\ orders'[i] = orders[i]
    BY <1>3, <2>2, <2>4 DEF SellsBeforeBuys
  <2>5. CASE orders'[j].side = side
    BY <1>15, <2>2, <2>3, <2>5
  <2>6. CASE j \in DOMAIN orders /\ orders'[j] = orders[j] /\ orders'[i] # orders[i]
    <3>1. orders' = orders \/ (\A k \in DOMAIN orders : orders'[k] = orders[k])
      <4>1. CASE n = 0
        BY <1>8, <4>1
      <4>2. CASE n # 0
        BY <1>3, <1>8, <1>11, <4>2, OrdersAppended
      <4> QED BY <4>1, <4>2
    <3> QED BY <2>2, <2>6, <3>1
  <2> QED BY <1>14, <2>4, <2>5, <2>6
<1>17. \A t : Final(t)' = Final(t)
  BY <1>1 DEF Final, RowsOf
<1>18. Routable' = Routable
  BY <1>1 DEF Routable, Executable, Final, RowsOf
<1>19. SidesInOrder'
  <2> DEFINE act(t) == Final(t).action
  <2>1. \A i, j \in DOMAIN queue : i < j => SideGroup(act(queue[i])) <= SideGroup(act(queue[j]))
    BY <1>3 DEF SidesInOrder
  <2>2. \A i \in DOMAIN queue : act(queue[i]) \in {"BUY", "REDUCE", "EXIT"}
    BY <1>4, FinalFacts
  <2>3. side = "BUY" <=> act(s) = "BUY"
    BY <1>13
  <2>4. (\E i \in DOMAIN orders : orders[i].side = "BUY") => \A i \in DOMAIN queue : act(queue[i]) = "BUY"
    BY <1>3 DEF SidesInOrder
  <2> HIDE DEF act
  <2>5. \A i, j \in DOMAIN queue' : i < j => SideGroup(act(queue'[i])) <= SideGroup(act(queue'[j]))
    <3> SUFFICES ASSUME NEW i \in DOMAIN queue', NEW j \in DOMAIN queue', i < j
                 PROVE  SideGroup(act(queue'[i])) <= SideGroup(act(queue'[j]))
      OBVIOUS
    <3>1. /\ i + 1 \in DOMAIN queue /\ queue'[i] = queue[i + 1]
          /\ j + 1 \in DOMAIN queue /\ queue'[j] = queue[j + 1] /\ i + 1 < j + 1
      BY <1>1, <1>4
    <3> QED BY <2>1, <3>1
  <2>6. ASSUME NEW k \in DOMAIN orders', orders'[k].side = "BUY", NEW i \in DOMAIN queue'
        PROVE  act(queue'[i]) = "BUY"
    <3>1. i + 1 \in DOMAIN queue /\ queue'[i] = queue[i + 1] /\ 1 < i + 1 /\ 1 \in DOMAIN queue
      BY <1>1, <1>4
    <3>2. CASE k \in DOMAIN orders /\ orders'[k] = orders[k]
      BY <2>4, <2>6, <3>1, <3>2
    <3>3. CASE orders'[k].side = side
      <4>1. SideGroup(act(queue[1])) <= SideGroup(act(queue[i + 1])) /\ act(queue[1]) = "BUY"
        BY <1>4, <2>1, <2>3, <2>6, <3>1, <3>3
      <4>2. act(queue[i + 1]) \in {"BUY", "REDUCE", "EXIT"}
        BY <2>2, <3>1
      <4> QED BY <3>1, <4>1, <4>2 DEF SideGroup
    <3> QED BY <1>14, <3>2, <3>3
  <2>7. \A t : Final(t)'.action = act(t)
    BY <1>17 DEF act
  <2> QED BY <2>5, <2>6, <2>7 DEF SidesInOrder, Final, RowsOf
<1> QED BY <1>1, <1>4, <1>10, <1>14, <1>16, <1>18, <1>19 DEF RoutingInv
(* A run allocates what it was given. *)
FromInput == phase # "idle" => given \in Inputs

RoutedInv == RunInv /\ RoutingInv /\ FromInput

LEMMA RoutingInvStep ==
  ASSUME RoutedInv, [AllocationNext]_allocationVars
  PROVE  RoutingInv' /\ FromInput'
<1>1. RunTyped /\ RoutingInv /\ FromInput
  BY DEF RoutedInv, RunInv
<1>2. CASE phase = "idle" /\ \E in \in Inputs, m \in Modes : Begin(in, m)
  <2>1. PICK in \in Inputs, m \in Modes : Begin(in, m)
    BY <1>2
  <2>2. phase' \notin {"routing", "done"} /\ orders' = orders /\ orders = <<>> /\ given' = in
        /\ DOMAIN orders' = {}
    BY <1>1, <1>2, <2>1 DEF Begin, RoutingInv
  <2> QED BY <1>1, <2>2 DEF RoutingInv, SellsBeforeBuys, FromInput
<1>3. CASE PlanSells \/ Lifecycle \/ OrderBuys \/ AllocateBuy
  <2>1. /\ phase' \notin {"routing", "done"} /\ orders' = orders /\ given' = given
        /\ phase \notin {"idle", "routing", "done"}
    BY <1>3 DEF PlanSells, Lifecycle, OrderBuys, AllocateBuy
  <2> QED BY <1>1, <2>1 DEF RoutingInv, SellsBeforeBuys, FromInput
<1>4. CASE OpenRouting
  <2>1. given' = given /\ phase # "idle"
    BY <1>4 DEF OpenRouting
  <2> QED BY <1>1, <1>4, <2>1, RoutingInvOpen DEF FromInput
<1>5. CASE Route
  <2>1. given' = given /\ phase # "idle"
    BY <1>5 DEF Route
  <2> QED BY <1>1, <1>5, <2>1, RoutingInvRoute DEF FromInput
<1>6. CASE FinishRouting \/ UNCHANGED allocationVars
  <2>1. /\ UNCHANGED <<given, ledger, orders, pending, queue>>
        /\ phase' = phase \/ (phase = "routing" /\ phase' = "done")
    BY <1>6 DEF FinishRouting, allocationVars
  <2>2. /\ Routable' = Routable /\ SidesInOrder' = SidesInOrder
        /\ CashThreaded' = CashThreaded /\ SellsBeforeBuys' = SellsBeforeBuys
    BY <2>1 DEF Routable, Executable, SidesInOrder, CashThreaded, DebitOf, FreedOf, Queued,
                SellsBeforeBuys, Final, RowsOf, Freed, AcceptedNotional, SellCost
  <2> QED BY <1>1, <2>1, <2>2 DEF RoutingInv, FromInput
<1> QED BY <1>2, <1>3, <1>4, <1>5, <1>6 DEF AllocationNext

LEMMA RowsAreFine ==
  ASSUME RunTyped
  PROVE  Rows \subseteq FineRows
BY LenProperties, ElementOfSeq DEF RunTyped, Rows

(* Every run sends to the broker the shares it allocated, or one fewer, its *)
(* SELLs before its BUYs, and no BUY that the account and the haircut share *)
(* of the SELLs before it do not pay (run_allocation.py, portfolio_manager  *)
(* .py, service.py _route_run_execution), for every book, price and policy  *)
(* of which a share costs more than half a step of the stored percentage.   *)
THEOREM ExecutionFollows ==
  ASSUME SharesResolved
  PROVE  AllocationSpec => []ExecutionFollowsAllocation
<1>1. AllocationInit => RoutedInv
  BY RunInvInit, RoutingInvInit DEF RoutedInv, FromInput, AllocationInit
<1>2. RoutedInv /\ [AllocationNext]_allocationVars => RoutedInv'
  BY RunInvStep, RoutingInvStep DEF RoutedInv
<1>3. RoutedInv => ExecutionFollowsAllocation
  <2> SUFFICES ASSUME RoutedInv PROVE ExecutionFollowsAllocation
    OBVIOUS
  <2>1. RunTyped /\ LedgerQuiet /\ RoutingInv /\ FromInput
    BY DEF RoutedInv, RunInv
  <2>2. FinalQuantityIsAllocated
    <3> SUFFICES ASSUME NEW row \in SelectedRows
                 PROVE  ManagerQuantity(row) \in {row.quantity, row.quantity - 1}
      BY DEF FinalQuantityIsAllocated
    <3>1. row \in FineRows /\ row.status \in SelectedStatuses
      BY <2>1, RowsAreFine DEF SelectedRows
    <3>2. phase # "idle"
      BY <2>1 DEF LedgerQuiet, SelectedRows, Rows
    <3>3. SharesResolvedNow
      BY <2>1, <3>2 DEF SharesResolved, SharesResolvedNow, FromInput
    <3>4. Typed(given)
      BY <2>1 DEF RunTyped
    <3> QED BY <3>1, <3>3, <3>4, QuantityIsAllocated
  <2>3. QueuedBuysArePaid
    <3> SUFFICES ASSUME phase \in {"routing", "done"}
                 PROVE  SumOver(DebitOf, Queued("BUY"))
                          <= given.cash + SumOver(FreedOf, Queued("SELL"))
      BY DEF QueuedBuysArePaid, DebitOf, FreedOf
    <3>1. /\ orders \in Seq(OrderRecord) /\ DOMAIN orders = 1..Len(orders) /\ Len(orders) \in Nat
          /\ pending \in Nat /\ CashThreaded /\ \A i \in DOMAIN orders : orders[i].sym \in Routable
      BY <2>1, LenProperties DEF RoutingInv
    <3>2. /\ Queued("BUY") \subseteq DOMAIN orders /\ Queued("SELL") \subseteq DOMAIN orders
          /\ IsFiniteSet(Queued("BUY")) /\ IsFiniteSet(Queued("SELL"))
      <4>1. Queued("BUY") \subseteq DOMAIN orders /\ Queued("SELL") \subseteq DOMAIN orders
        BY DEF Queued
      <4>2. IsFiniteSet(1..Len(orders)) /\ 1..Len(orders) = DOMAIN orders
        BY <3>1, FS_Interval
      <4>3. IsFiniteSet(DOMAIN orders)
        BY <4>2
      <4> QED BY <4>1, <4>3, FS_Subset
    <3>3. ASSUME NEW i \in DOMAIN orders PROVE DebitOf[i] \in Int /\ FreedOf[i] \in Int
      <4>1. orders[i].debit \in Nat /\ orders[i].quantity \in Nat /\ orders[i].sym \in Routable
        <5>1. i \in 1..Len(orders)
          BY <3>1
        <5>2. orders[i] \in OrderRecord
          BY <3>1, <5>1, ElementOfSeq
        <5> QED BY <3>1, <5>2 DEF OrderRecord
      <4>2. Freed(Final(orders[i].sym), orders[i].quantity) \in Nat
        BY <2>1, <4>1, FinalFacts, FreedFacts
      <4> QED BY <4>1, <4>2 DEF DebitOf, FreedOf
    <3>4. SumOver(DebitOf, Queued("BUY")) \in Int /\ SumOver(FreedOf, Queued("SELL")) \in Int
      BY <3>2, <3>3, SumFacts
    <3>5. given.cash \in Nat
      BY <2>1 DEF RunTyped, Typed
    <3> QED BY <3>1, <3>4, <3>5 DEF CashThreaded
  <2> QED BY <2>1, <2>2, <2>3 DEF ExecutionFollowsAllocation, RoutingInv
<1> QED BY <1>1, <1>2, <1>3, PTL DEF AllocationSpec

-----------------------------------------------------------------------------
(* What the selected rows of some stocks take together.                     *)

Chosen(l, K) == {i \in DOMAIN l : l[i].status \in SelectedStatuses /\ l[i].sym \in K}
Before(l, K, n) == {i \in Chosen(l, K) : i <= n}
Total(l, S) == SumOver([i \in S |-> l[i].approved], S)
Spent(l, K) == Total(l, Chosen(l, K))

LEMMA ChosenFinite ==
  ASSUME NEW l \in Seq(FineRows), NEW K
  PROVE  /\ Chosen(l, K) \subseteq DOMAIN l /\ IsFiniteSet(Chosen(l, K))
         /\ \A i \in DOMAIN l : l[i] \in FineRows /\ l[i].approved \in Nat /\ i \in Nat
         /\ Spent(l, K) \in Nat
<1>1. DOMAIN l = 1..Len(l) /\ Len(l) \in Nat
  BY LenProperties
<1>2. IsFiniteSet(1..Len(l))
  BY <1>1, FS_Interval
<1>3. Chosen(l, K) \subseteq DOMAIN l
  BY DEF Chosen
<1>4. IsFiniteSet(Chosen(l, K))
  BY <1>1, <1>2, <1>3, FS_Subset
<1>5. ASSUME NEW i \in DOMAIN l PROVE l[i] \in FineRows /\ l[i].approved \in Nat /\ i \in Nat
  <2>1. l[i] \in FineRows /\ i \in Nat
    BY <1>1, ElementOfSeq
  <2> QED BY <2>1 DEF FineRows, RowRecord
<1>6. Spent(l, K) \in Nat
  <2> DEFINE S == Chosen(l, K)
             f == [i \in S |-> l[i].approved]
  <2>1. \A i \in S : f[i] \in Nat
    BY <1>3, <1>5
  <2> HIDE DEF f, S
  <2>2. SumOver(f, S) \in Nat
    BY <1>4, <2>1, SumNatural DEF S
  <2> QED BY <2>2 DEF Spent, Total, f, S
<1> QED BY <1>3, <1>4, <1>5, <1>6

(* The same rows of a longer ledger take the same. *)
LEMMA TotalStays ==
  ASSUME NEW l, NEW k, NEW S, IsFiniteSet(S),
         \A i \in S : l[i].approved \in Nat /\ k[i].approved = l[i].approved
  PROVE  Total(k, S) = Total(l, S) /\ Total(l, S) \in Nat
<1> DEFINE f == [i \in S |-> l[i].approved]
           g == [i \in S |-> k[i].approved]
<1>1. \A i \in S : f[i] = g[i] /\ f[i] \in Int /\ f[i] \in Nat
  OBVIOUS
<1> HIDE DEF f, g
<1>2. SumOver(f, S) = SumOver(g, S) /\ SumOver(f, S) \in Nat
  BY <1>1, SumAgrees, SumNatural
<1> QED BY <1>2 DEF Total, f, g

(* One more row changes what is taken by what it takes itself. *)
GrownTotals(l, row, k, K) ==
  /\ Spent(k, K) = Spent(l, K) + (IF row.status \in SelectedStatuses /\ row.sym \in K
                                  THEN row.approved ELSE 0)
  /\ \A i \in DOMAIN l : Total(k, Before(k, K, i)) = Total(l, Before(l, K, i))
  /\ Total(k, Before(k, K, Len(l) + 1)) = Spent(k, K)
  /\ Spent(l, K) \in Nat

LEMMA SpentAppended ==
  ASSUME NEW l \in Seq(FineRows), NEW row \in FineRows, NEW K, NEW k, k = Append(l, row)
  PROVE  GrownTotals(l, row, k, K)
<1> DEFINE n == Len(l) + 1
           S == Chosen(l, K)
           in == row.status \in SelectedStatuses /\ row.sym \in K
<1>1. /\ DOMAIN k = DOMAIN l \cup {n} /\ n \notin DOMAIN l /\ k[n] = row /\ n \in Nat
      /\ \A i \in DOMAIN l : k[i] = l[i] /\ i < n /\ i \in Nat
  BY AppendProperties, LenProperties
<1> HIDE DEF n
<1>2. /\ S \subseteq DOMAIN l /\ IsFiniteSet(S)
      /\ \A i \in DOMAIN l : l[i].approved \in Nat
      /\ row.approved \in Nat
  BY ChosenFinite DEF FineRows, RowRecord
<1>3. Chosen(k, K) = IF in THEN S \cup {n} ELSE S
  BY <1>1 DEF Chosen
<1>4. Total(k, S) = Total(l, S) /\ Total(l, S) \in Nat
  <2> HIDE DEF S
  <2>1. \A i \in S : l[i].approved \in Nat /\ k[i].approved = l[i].approved
    BY <1>1, <1>2
  <2> QED BY <1>2, <2>1, TotalStays
<1>5. Total(k, S \cup {n}) = Total(l, S) + row.approved
  <2> DEFINE T == S \cup {n}
             f == [i \in S |-> l[i].approved]
             g == [i \in T |-> k[i].approved]
  <2>1. \A i \in S : f[i] \in Int /\ g[i] = f[i]
    BY <1>1, <1>2
  <2>2. g[n] = row.approved
    BY <1>1
  <2> HIDE DEF f, g, S
  <2>3. OneTermMore(S, n, f, g)
    <3>1. n \notin S
      BY <1>1, <1>2
    <3> QED BY <1>2, <2>1, <2>2, <3>1 DEF OneTermMore
  <2>4. SumOver(g, S \cup {n}) = SumOver(f, S) + g[n]
    BY <2>3, SumGrows
  <2> QED BY <2>2, <2>4 DEF Total, f, g
<1>6. Spent(k, K) = Spent(l, K) + (IF in THEN row.approved ELSE 0)
  <2> HIDE DEF in
  <2>1. CASE in
    BY <1>3, <1>5, <2>1 DEF Spent
  <2>2. CASE ~in
    BY <1>3, <1>4, <2>2 DEF Spent
  <2> QED BY <2>1, <2>2
<1>7. ASSUME NEW i \in DOMAIN l
      PROVE  Total(k, Before(k, K, i)) = Total(l, Before(l, K, i))
  <2> DEFINE B == Before(l, K, i)
  <2>1. Before(k, K, i) = B
    BY <1>1 DEF Before, Chosen
  <2>2. B \subseteq S /\ IsFiniteSet(B)
    BY <1>2, FS_Subset DEF Before
  <2> HIDE DEF B, S
  <2>3. \A j \in B : l[j].approved \in Nat /\ k[j].approved = l[j].approved
    BY <1>1, <1>2, <2>2
  <2>4. Total(k, B) = Total(l, B)
    BY <2>2, <2>3, TotalStays
  <2> QED BY <2>1, <2>4 DEF B
<1>8. Before(k, K, n) = Chosen(k, K)
  BY <1>1 DEF Before, Chosen
<1>9. Spent(l, K) \in Nat
  BY ChosenFinite
<1> QED BY <1>6, <1>7, <1>8, <1>9 DEF GrownTotals, Spent, n

LEMMA SpentQuiet ==
  ASSUME NEW l, NEW K, \A i \in DOMAIN l : l[i].status \notin SelectedStatuses
  PROVE  Spent(l, K) = 0 /\ Chosen(l, K) = {}
<1>1. Chosen(l, K) = {}
  BY DEF Chosen
<1>2. SumOver([i \in {} |-> l[i].approved], {}) = 0
  BY SumFacts, FS_EmptySet
<1> QED BY <1>1, <1>2 DEF Spent, Total

LEMMA HeldValueSplit ==
  ASSUME NEW in, Typed(in), NEW S \in SUBSET Stocks, NEW s \in S
  PROVE  HeldValue(in, S) = ValueHeld(in, s) + HeldValue(in, S \ {s})
<1> DEFINE f == [x \in S |-> ValueHeld(in, x)]
           T == S \ {s}
           g == [x \in T |-> ValueHeld(in, x)]
<1>1. IsFiniteSet(S) /\ IsFiniteSet(T)
  BY SizingAssumption, FS_Subset
<1>2. \A x \in S : f[x] \in Int
  BY ValueFacts
<1>3. \A x \in T : g[x] = f[x] /\ g[x] \in Int
  BY ValueFacts
<1>4. f[s] = ValueHeld(in, s)
  OBVIOUS
<1> HIDE DEF f, g
<1>5. SumOver(f, S) = f[s] + SumOver(f, T)
  BY <1>1, <1>2, SumFacts
<1> HIDE DEF T
<1>6. SumOver(g, T) = SumOver(f, T)
  BY <1>1, <1>3, SumAgrees
<1> QED BY <1>4, <1>5, <1>6 DEF HeldValue, f, g, T
-----------------------------------------------------------------------------
(* The allocator's book counts every BUY, and a stock enters within a cap.  *)

Sector(s) == {t \in Stocks : SectorOf[t] = SectorOf[s]}

ValueInv ==
  \A K \in SUBSET Stocks : SumOver(book.value, K) = HeldValue(given, K) + Spent(ledger, K)

EntryInv ==
  mode \in {"plan", "policy"} =>
    \A i \in DOMAIN ledger :
      /\ ledger[i].status \in SelectedStatuses
      /\ given.held[ledger[i].sym] = 0 /\ SectorOf[ledger[i].sym] # "none"
      => HeldValue(given, Sector(ledger[i].sym))
           + Total(ledger, Before(ledger, Sector(ledger[i].sym), i))
           <= Pct(Policy.sectorCap, Nav(given))

BookInv == RunInv /\ ValueInv /\ EntryInv

(* Without a selected row the book is worth what is held. *)
LEMMA QuietBook ==
  ASSUME NEW in, Typed(in), NEW f, \A s \in Stocks : f[s] = ValueHeld(in, s),
         NEW l, \A i \in DOMAIN l : l[i].status \notin SelectedStatuses,
         NEW K \in SUBSET Stocks
  PROVE  SumOver(f, K) = HeldValue(in, K) + Spent(l, K)
<1> DEFINE g == [s \in K |-> ValueHeld(in, s)]
<1>1. IsFiniteSet(K) /\ HeldValue(in, K) \in Nat
  BY HeldValueFacts
<1>2. \A s \in K : g[s] = f[s] /\ g[s] \in Int
  BY ValueFacts
<1> HIDE DEF g
<1>3. SumOver(g, K) = SumOver(f, K)
  BY <1>1, <1>2, SumAgrees
<1>4. Spent(l, K) = 0
  BY SpentQuiet
<1>5. SumOver(g, K) = HeldValue(in, K)
  BY DEF HeldValue, g
<1> QED BY <1>1, <1>3, <1>4, <1>5

LEMMA OpeningValue ==
  ASSUME NEW in
  PROVE  \A s \in Stocks : OpeningBook(in).value[s] = ValueHeld(in, s)
BY DEF OpeningBook

LEMMA BookInvInit == AllocationInit => BookInv
<1> SUFFICES ASSUME AllocationInit PROVE BookInv
  OBVIOUS
<1>1. RunInv
  BY RunInvInit
<1>2. ledger = <<>> /\ DOMAIN ledger = {} /\ book = OpeningBook(given) /\ given = NoInput
  BY DEF AllocationInit
<1>3. Typed(given)
  BY <1>2, NoInputTyped
<1>4. \A s \in Stocks : book.value[s] = ValueHeld(given, s)
  BY <1>2, OpeningValue
<1>5. ValueInv
  <2> SUFFICES ASSUME NEW K \in SUBSET Stocks
               PROVE  SumOver(book.value, K) = HeldValue(given, K) + Spent(ledger, K)
    BY DEF ValueInv
  <2> DEFINE f == book.value
             l == ledger
  <2>1. /\ \A s \in Stocks : f[s] = ValueHeld(given, s)
        /\ \A i \in DOMAIN l : l[i].status \notin SelectedStatuses
    BY <1>2, <1>4
  <2> HIDE DEF f, l
  <2>2. SumOver(f, K) = HeldValue(given, K) + Spent(l, K)
    BY <1>3, <2>1, QuietBook
  <2> QED BY <2>2 DEF f, l
<1> QED BY <1>1, <1>2, <1>5 DEF BookInv, EntryInv

LEMMA BookInvBegin ==
  ASSUME BookInv, RunInv', phase = "idle", NEW in \in Inputs, NEW m \in Modes, Begin(in, m)
  PROVE  ValueInv' /\ EntryInv'
<1>1. Typed(in) /\ given' = in
  BY AllocationAssumption DEF Begin, Typed
<1>2. ledger' = <<>> /\ DOMAIN ledger' = {}
  BY DEF BookInv, RunInv, LedgerQuiet, Begin
<1>3. book'.value = OpeningBook(in).value
  <2> DEFINE extra == IF m = "plan" THEN Spendable(in) ELSE 0
             start == OpeningBook(in)
  <2>1. book' = [start EXCEPT !.cash = @ + extra]
    BY DEF Begin
  <2>2. start \in BookRecord
    BY <1>1, OpeningBookTyped
  <2> HIDE DEF start, extra
  <2>3. book'.value = start.value
    BY <2>1, <2>2 DEF BookRecord
  <2> QED BY <2>3 DEF start
<1>4. ValueInv'
  <2> SUFFICES ASSUME NEW K \in SUBSET Stocks
               PROVE  SumOver(book'.value, K) = HeldValue(in, K) + Spent(ledger', K)
    BY <1>1 DEF ValueInv
  <2> DEFINE f == book'.value
             l == ledger'
  <2>1. /\ \A s \in Stocks : f[s] = ValueHeld(in, s)
        /\ \A i \in DOMAIN l : l[i].status \notin SelectedStatuses
    BY <1>2, <1>3, OpeningValue
  <2> HIDE DEF f, l
  <2>2. SumOver(f, K) = HeldValue(in, K) + Spent(l, K)
    BY <1>1, <2>1, QuietBook
  <2> QED BY <2>2 DEF f, l
<1> QED BY <1>2, <1>4 DEF EntryInv

(* Rows that select nothing leave the book as it is. *)
LEMMA BookInvQuiet ==
  ASSUME BookInv, RunInv', PlanSells \/ Lifecycle
  PROVE  ValueInv' /\ EntryInv'
<1>1. /\ phase \in Early /\ phase' \in Early /\ UNCHANGED <<mode, given, book>>
  BY DEF PlanSells, Lifecycle, Early
<1>2. /\ \A i \in DOMAIN ledger : ledger[i].status \notin SelectedStatuses
      /\ \A i \in DOMAIN ledger' : ledger'[i].status \notin SelectedStatuses
  BY <1>1 DEF BookInv, RunInv, LedgerQuiet
<1>3. ASSUME NEW K \in SUBSET Stocks PROVE Spent(ledger', K) = Spent(ledger, K)
  <2> DEFINE k == ledger'
             l == ledger
  <2>1. /\ \A i \in DOMAIN l : l[i].status \notin SelectedStatuses
        /\ \A i \in DOMAIN k : k[i].status \notin SelectedStatuses
    BY <1>2
  <2> HIDE DEF k, l
  <2>2. Spent(k, K) = 0 /\ Spent(l, K) = 0
    BY <2>1, SpentQuiet
  <2> QED BY <2>2 DEF k, l
<1>4. ValueInv'
  BY <1>1, <1>3 DEF BookInv, ValueInv
<1> QED BY <1>1, <1>2, <1>4 DEF EntryInv

LEMMA BookInvBought ==
  ASSUME BookInv, NEW d, NEW row, Bought(d, row)
  PROVE  ValueInv' /\ EntryInv'
<1> DEFINE s == row.sym
           a == row.approved
           chosen == row.status \in SelectedStatuses
           l == ledger
           k == ledger'
           f == book.value
           g == book'.value
<1>1. /\ Typed(given) /\ book \in BookRecord /\ book.nav = Nav(given) /\ ledger \in Seq(FineRows)
      /\ RunTyped /\ ValueInv /\ EntryInv
  BY DEF BookInv, RunInv, RunTyped
<1>2. /\ row \in FineRows /\ s = Asked.sym /\ s \in Stocks /\ a = d.approved /\ a \in Nat
      /\ UNCHANGED <<mode, given>> /\ k = Append(l, row) /\ l \in Seq(FineRows)
      /\ (Taken(d, row) \/ Left(d, row)) /\ RequestFine(given, Asked)
  BY <1>1 DEF Bought, FineRows, RowRecord
<1>3. /\ chosen => Taken(d, row)
      /\ f \in [Stocks -> Nat] /\ g \in [Stocks -> Nat]
      /\ g[s] = f[s] + (IF chosen THEN a ELSE 0)
      /\ \A t \in Stocks \ {s} : g[t] = f[t]
  <2>1. CASE Taken(d, row)
    <3>1. g = [f EXCEPT ![s] = @ + a] /\ chosen
      <4>1. book'.value = [book.value EXCEPT ![Asked.sym] = @ + d.approved]
        BY <1>1, <2>1, BookAfter, ReserveNat, Zenon
      <4> QED BY <1>2, <2>1, <4>1 DEF Taken
    <3>2. f \in [Stocks -> Nat]
      BY <1>1 DEF BookRecord
    <3> HIDE DEF f, g, s, a, chosen
    <3> QED BY <1>2, <2>1, <3>1, <3>2
  <2>2. CASE Left(d, row)
    <3>1. g = f /\ ~chosen /\ f \in [Stocks -> Nat]
      BY <1>1, <2>2 DEF Left, BookRecord
    <3> HIDE DEF f, g, s, a, chosen
    <3> QED BY <1>2, <3>1
  <2> QED BY <1>2, <2>1, <2>2
<1>4. ASSUME NEW K \in SUBSET Stocks
      PROVE  /\ SumOver(g, K) = SumOver(f, K) + (IF chosen /\ s \in K THEN a ELSE 0)
             /\ SumOver(f, K) \in Int
  <2>1. IsFiniteSet(K)
    BY HeldValueFacts, <1>1
  <2>2. SameBut(f, g, s, K)
    <3> HIDE DEF f, g, s, a, chosen
    <3> QED BY <1>3 DEF SameBut
  <2>3. CASE s \in K
    <3> HIDE DEF f, g, s, a, chosen
    <3>1. SumOver(g, K) = SumOver(f, K) - f[s] + g[s] /\ SumOver(f, K) \in Int
      BY <2>1, <2>2, <2>3, SumUpdate
    <3>2. f[s] \in Int
      BY <1>2, <1>3
    <3> QED BY <1>2, <1>3, <2>3, <3>1, <3>2
  <2>4. CASE s \notin K
    <3> HIDE DEF f, g, s, a, chosen
    <3>1. \A t \in K : f[t] = g[t] /\ f[t] \in Int
      BY <1>3, <2>4
    <3>2. SumOver(f, K) = SumOver(g, K) /\ SumOver(f, K) \in Int
      BY <2>1, <3>1, SumAgrees, SumFacts
    <3> QED BY <2>4, <3>2
  <2> QED BY <2>3, <2>4
<1>5. ASSUME NEW K
      PROVE  /\ Spent(k, K) = Spent(l, K) + (IF chosen /\ s \in K THEN a ELSE 0)
             /\ \A i \in DOMAIN l : Total(k, Before(k, K, i)) = Total(l, Before(l, K, i))
             /\ Total(k, Before(k, K, Len(l) + 1)) = Spent(k, K)
             /\ Spent(l, K) \in Nat
  <2>1. k = Append(l, row) /\ l \in Seq(FineRows) /\ row \in FineRows
    BY <1>2
  <2> HIDE DEF k, l
  <2>2. GrownTotals(l, row, k, K)
    BY <2>1, SpentAppended, Zenon
  <2> QED BY <2>2 DEF GrownTotals, s, a, chosen
<1>6. ASSUME NEW K \in SUBSET Stocks
      PROVE  /\ SumOver(f, K) = HeldValue(given, K) + Spent(l, K)
             /\ HeldValue(given, K) \in Nat
  BY <1>1, HeldValueFacts DEF ValueInv
<1> HIDE DEF s, a, chosen
<1>7. ValueInv'
  <2> SUFFICES ASSUME NEW K \in SUBSET Stocks
               PROVE  SumOver(g, K) = HeldValue(given, K) + Spent(k, K)
    BY <1>2 DEF ValueInv
  <2> DEFINE x == SumOver(f, K)
             y == Spent(l, K)
             h == HeldValue(given, K)
             e == IF chosen /\ s \in K THEN a ELSE 0
  <2>1. SumOver(g, K) = x + e /\ x \in Int /\ Spent(k, K) = y + e /\ x = h + y /\ h \in Nat
        /\ y \in Nat
    BY <1>4, <1>5, <1>6
  <2>2. e \in Nat
    BY <1>2
  <2> HIDE DEF x, y, h, e, f, g, k, l
  <2>3. x + e = h + (y + e)
    BY <2>1, <2>2
  <2> QED BY <2>1, <2>3 DEF h
<1> HIDE DEF f, g
<1>8. EntryInv'
  <2> DEFINE n == Len(ledger) + 1
             cap == Pct(Policy.sectorCap, Nav(given))
  <2> SUFFICES ASSUME mode \in {"plan", "policy"}, NEW i \in DOMAIN ledger',
                      ledger'[i].status \in SelectedStatuses,
                      given.held[ledger'[i].sym] = 0, SectorOf[ledger'[i].sym] # "none"
               PROVE  HeldValue(given, Sector(ledger'[i].sym))
                        + Total(ledger', Before(ledger', Sector(ledger'[i].sym), i)) <= cap
    <3>1. mode' = mode /\ given' = given
      BY <1>2
    <3> QED BY <3>1 DEF EntryInv
  <2>1. /\ DOMAIN ledger' = DOMAIN ledger \cup {n} /\ ledger'[n] = row
        /\ \A j \in DOMAIN ledger : ledger'[j] = ledger[j]
    BY <1>1, <1>2, LedgerAppended
  <2> HIDE DEF n, cap
  <2>2. CASE i \in DOMAIN ledger
    <3>1. Total(ledger', Before(ledger', Sector(ledger[i].sym), i))
            = Total(ledger, Before(ledger, Sector(ledger[i].sym), i))
      BY <1>5, <2>2
    <3>2. HeldValue(given, Sector(ledger[i].sym))
            + Total(ledger, Before(ledger, Sector(ledger[i].sym), i)) <= cap
      BY <1>1, <2>1, <2>2 DEF EntryInv, cap
    <3> QED BY <2>1, <2>2, <3>1, <3>2
  <2>3. CASE i = n
    <3> DEFINE K == Sector(s)
               P == K \ {s}
               h == HeldValue(given, K)
               y == Spent(ledger, K)
    <3>1. /\ chosen /\ ledger'[i].sym = s /\ given.held[s] = 0 /\ SectorOf[s] # "none"
          /\ K \in SUBSET Stocks /\ P \in SUBSET Stocks /\ s \in K
      BY <1>2, <2>1, <2>3 DEF Sector, s, chosen
    <3>2. a <= GroupRoom(s, SectorOf, Policy.sectorCap, book) /\ a > 0 /\ a \in Nat
      BY <1>2, <1>3, <3>1 DEF Taken
    <3>3. RowsOf(s) = {}
      <4>1. 1 \in DOMAIN queue /\ queue[1] = Asked
        BY QueueShortened DEF Bought, Asked
      <4> QED BY <1>2, <3>1, <4>1 DEF BookInv, RunInv, QueueFine, Bought
    <3>4. Peers(s, SectorOf) = P
      BY <3>1 DEF Peers, Sector
    <3>5. h = HeldValue(given, P)
      <4>1. h = ValueHeld(given, s) + HeldValue(given, P)
        BY <1>1, <3>1, HeldValueSplit
      <4>2. ValueHeld(given, s) = 0
        <5>1. ValueHeld(given, s) = given.held[s] * Price[s] /\ Price[s] \in Nat
          BY <1>1, <1>2, ValueFacts
        <5> QED BY <3>1, <5>1
      <4>3. HeldValue(given, P) \in Nat
        BY <1>6, <3>1
      <4> HIDE DEF h, P
      <4> QED BY <4>1, <4>2, <4>3
    <3>6. y = Spent(ledger, P)
      <4>1. Chosen(ledger, K) = Chosen(ledger, P)
        BY <3>3 DEF Chosen, RowsOf
      <4> QED BY <4>1 DEF Spent
    <3>7. ValueOf(P, book) = h + y
      <4> HIDE DEF h, y, P
      <4> QED BY <1>6, <3>1, <3>5, <3>6 DEF ValueOf, f, l
    <3>8. GroupRoom(s, SectorOf, Policy.sectorCap, book) = Above0(cap - (h + y))
      <4> HIDE DEF h, y, P, K
      <4> QED BY <1>1, <3>1, <3>4, <3>7 DEF GroupRoom, cap
    <3>9. h \in Nat /\ y \in Nat /\ cap \in Nat
      <4>1. Nav(given) \in Nat
        BY <1>1, NavFacts
      <4>2. Policy["sectorCap"] \in Nat
        BY SizingAssumption
      <4>3. cap \in Nat
        BY <4>1, <4>2, PctFacts, Zenon DEF cap
      <4> HIDE DEF K, P
      <4> QED BY <1>5, <1>6, <3>1, <4>3 DEF l
    <3>10. Total(ledger', Before(ledger', K, i)) = y + a
      <4>1. Total(k, Before(k, K, Len(l) + 1)) = Spent(l, K) + a
        <5> HIDE DEF K, l, k
        <5> QED BY <1>5, <3>1
      <4> HIDE DEF K
      <4> QED BY <2>3, <4>1 DEF n
    <3> HIDE DEF h, y, P, K
    <3>11. cap - (h + y) \in Int
      BY <3>9
    <3>12. a <= cap - (h + y)
      BY <3>2, <3>8, <3>11, AboveLeaves
    <3>13. h + (y + a) <= cap
      BY <3>2, <3>9, <3>12
    <3> QED BY <3>1, <3>10, <3>13 DEF h, K
  <2> QED BY <2>1, <2>2, <2>3
<1> QED BY <1>7, <1>8

-----------------------------------------------------------------------------
(* No other step touches the ledger after the book was opened.              *)
LEMMA BookInvStays ==
  ASSUME BookInv, UNCHANGED <<mode, given, book, ledger>>
  PROVE  ValueInv' /\ EntryInv'
<1>1. ValueInv'
  BY DEF BookInv, ValueInv, Spent, Total, Chosen
<1>2. EntryInv'
  BY DEF BookInv, EntryInv, Total, Before, Chosen
<1> QED BY <1>1, <1>2

LEMMA BookInvStep ==
  ASSUME BookInv, [AllocationNext]_allocationVars
  PROVE  BookInv'
<1>1. RunInv'
  BY RunInvStep DEF BookInv
<1>2. CASE phase = "idle" /\ \E in \in Inputs, m \in Modes : Begin(in, m)
  BY <1>1, <1>2, BookInvBegin DEF BookInv
<1>3. CASE PlanSells \/ Lifecycle
  BY <1>1, <1>3, BookInvQuiet DEF BookInv
<1>4. CASE AllocateBuy
  <2>1. PICK d, row : Bought(d, row)
    BY <1>4, AllocateBuyIsBought DEF BookInv
  <2> QED BY <1>1, <2>1, BookInvBought DEF BookInv
<1>5. CASE OrderBuys \/ OpenRouting \/ Route \/ FinishRouting \/ UNCHANGED allocationVars
  <2>1. UNCHANGED <<mode, given, book, ledger>>
    BY <1>5 DEF OrderBuys, OpenRouting, Route, FinishRouting, allocationVars
  <2> QED BY <1>1, <2>1, BookInvStays DEF BookInv
<1> QED BY <1>2, <1>3, <1>4, <1>5 DEF AllocationNext

(* The row with which a stock enters is the last of its rows.               *)
LEMMA EntryRoom ==
  ASSUME BookInv, mode \in {"plan", "policy"}, NEW i \in DOMAIN ledger,
         ledger[i].status \in SelectedStatuses,
         given.held[ledger[i].sym] = 0, SectorOf[ledger[i].sym] # "none"
  PROVE  LET sector == {s \in Stocks : SectorOf[s] = SectorOf[ledger[i].sym]}
             earlier == {j \in DOMAIN ledger : /\ ledger[j].sym \in sector
                                               /\ ledger[j].status \in SelectedStatuses
                                               /\ j <= Max(RowsOf(ledger[i].sym))}
         IN  HeldValue(given, sector) + Approved(earlier) <= Pct(Policy.sectorCap, Nav(given))
<1> DEFINE K == Sector(ledger[i].sym)
           B == Before(ledger, K, i)
           earlier == {j \in DOMAIN ledger : /\ ledger[j].sym \in K
                                             /\ ledger[j].status \in SelectedStatuses
                                             /\ j <= Max(RowsOf(ledger[i].sym))}
<1>1. RowsOf(ledger[i].sym) = {i}
  BY DEF BookInv, RunInv, EntryOnce
<1>2. i \in Int
  <2>1. DOMAIN ledger = 1..Len(ledger) /\ Len(ledger) \in Nat
    BY LenProperties DEF BookInv, RunInv, RunTyped
  <2> QED BY <2>1
<1>3. Max({i}) = i
  BY <1>2 DEF Max
<1>4. earlier = B
  BY <1>1, <1>3 DEF Before, Chosen
<1>5. HeldValue(given, K) + Total(ledger, B) <= Pct(Policy.sectorCap, Nav(given))
  BY DEF BookInv, EntryInv
<1>6. Total(ledger, B) = Approved(earlier)
  BY <1>4 DEF Total, Approved
<1> QED BY <1>5, <1>6 DEF Sector

(* Neither the exposure cap of a stock nor, on entry, the cap of its sector *)
(* is passed by the BUYs of a run, each of which is sized on its own from   *)
(* the rows before it (position_sizing.py, run_allocation.py).              *)
THEOREM EntryCaps == AllocationSpec => []EntryCapsKept
<1>1. AllocationInit => BookInv
  BY BookInvInit
<1>2. BookInv /\ [AllocationNext]_allocationVars => BookInv'
  BY BookInvStep
<1>3. BookInv => EntryCapsKept
  <2> SUFFICES ASSUME BookInv PROVE PositionLimitKept /\ SectorCapOnEntry
    BY DEF EntryCapsKept
  <2>1. ASSUME NEW i \in DOMAIN ledger PROVE ledger[i] \in FineRows
    <3>1. ledger \in Seq(FineRows)
      BY DEF BookInv, RunInv, RunTyped
    <3>2. i \in 1..Len(ledger)
      BY <3>1, LenProperties
    <3> QED BY <3>1, <3>2, ElementOfSeq
  <2>2. PositionLimitKept
    <3> SUFFICES ASSUME NEW row \in SelectedRows
                 PROVE  row.target <= Pct(StockCapPct, Nav(given))
      BY DEF PositionLimitKept, StockCapPct
    <3>1. RowFine(row) /\ row.status \in SelectedStatuses
      BY <2>1 DEF SelectedRows, Rows, FineRows
    <3> QED BY <3>1 DEF RowFine
  <2>3. SectorCapOnEntry
    <3> SUFFICES ASSUME mode \in {"plan", "policy"}, NEW row \in SelectedRows,
                        given.held[row.sym] = 0, SectorOf[row.sym] # "none"
                 PROVE  LET sector == {s \in Stocks : SectorOf[s] = SectorOf[row.sym]}
                            earlier == {j \in DOMAIN ledger :
                                          /\ ledger[j].sym \in sector
                                          /\ ledger[j].status \in SelectedStatuses
                                          /\ j <= Max(RowsOf(row.sym))}
                        IN  HeldValue(given, sector) + Approved(earlier)
                              <= Pct(Policy.sectorCap, Nav(given))
      BY DEF SectorCapOnEntry
    <3>1. PICK i \in DOMAIN ledger : row = ledger[i]
      BY DEF SelectedRows, Rows
    <3>2. ledger[i].status \in SelectedStatuses
      BY <3>1 DEF SelectedRows
    <3> QED BY <3>1, <3>2, EntryRoom
  <2> QED BY <2>2, <2>3
<1> QED BY <1>1, <1>2, <1>3, PTL DEF AllocationSpec

-----------------------------------------------------------------------------
(* The money of a run: what leaves the book is what selected rows take, and *)
(* the funding tracker of a plan counts the same money down.                *)

ReserveWithinBuffer == Policy.hardReserve <= Policy.cashBuffer

PlannedProceeds == IF mode = "plan" THEN Spendable(given) ELSE 0

CashInv ==
  /\ book.cash + Spent(ledger, Stocks) = given.cash + PlannedProceeds
  /\ Spent(ledger, Stocks) > 0 => book.cash >= Reserve

FundingInv ==
  mode = "plan" =>
    /\ funding.existing + funding.proceeds + Spent(ledger, Stocks)
         = Above0(given.cash - HardReserve(given)) + Spendable(given)
    /\ \A i \in DOMAIN ledger :
         ledger[i].status \in SelectedStatuses
           => ledger[i].existing + ledger[i].proceeds = ledger[i].approved

MoneyInv == RunInv /\ CashInv /\ FundingInv

LEMMA MoneyInvInit == AllocationInit => MoneyInv
<1> SUFFICES ASSUME AllocationInit PROVE MoneyInv
  OBVIOUS
<1>1. RunInv
  BY RunInvInit
<1>2. ledger = <<>> /\ DOMAIN ledger = {} /\ mode = "none" /\ book.cash = given.cash
      /\ given.cash = 0
  BY DEF AllocationInit, OpeningBook, NoInput
<1>3. Spent(ledger, Stocks) = 0
  <2> DEFINE l == ledger
  <2>1. \A i \in DOMAIN l : l[i].status \notin SelectedStatuses
    BY <1>2
  <2> HIDE DEF l
  <2>2. Spent(l, Stocks) = 0
    BY <2>1, SpentQuiet
  <2> QED BY <2>2 DEF l
<1>4. CashInv
  BY <1>2, <1>3 DEF CashInv, PlannedProceeds
<1> QED BY <1>1, <1>2, <1>4 DEF MoneyInv, FundingInv

LEMMA MoneyInvBegin ==
  ASSUME MoneyInv, phase = "idle", NEW in \in Inputs, NEW m \in Modes, Begin(in, m)
  PROVE  CashInv' /\ FundingInv'
<1>1. Typed(in) /\ given' = in /\ mode' = m
  BY AllocationAssumption DEF Begin, Typed
<1>2. ledger' = <<>> /\ DOMAIN ledger' = {}
  BY DEF MoneyInv, RunInv, LedgerQuiet, Begin
<1>3. Spent(ledger', Stocks) = 0
  <2> DEFINE l == ledger'
  <2>1. \A i \in DOMAIN l : l[i].status \notin SelectedStatuses
    BY <1>2
  <2> HIDE DEF l
  <2>2. Spent(l, Stocks) = 0
    BY <2>1, SpentQuiet
  <2> QED BY <2>2 DEF l
<1> DEFINE extra == IF m = "plan" THEN Spendable(in) ELSE 0
           above == Above0(in.cash - HardReserve(in))
           start == OpeningBook(in)
<1>4. extra \in Nat /\ in.cash \in Nat /\ above \in Nat
  <2>1. in.cash - HardReserve(in) \in Int
    BY <1>1, NavFacts DEF Typed
  <2> QED BY <1>1, <2>1, SpendableNat, AboveZero DEF Typed
<1>5. book'.cash = in.cash + extra
  <2>1. book' = [start EXCEPT !.cash = @ + extra]
    BY DEF Begin
  <2>2. start \in BookRecord /\ start.cash = in.cash
    BY <1>1, OpeningBookTyped DEF OpeningBook
  <2> HIDE DEF start, extra
  <2> QED BY <2>1, <2>2 DEF BookRecord
<1>6. funding' = [existing |-> above, proceeds |-> extra]
  BY DEF Begin, FundingTracker
<1>7. PlannedProceeds' = extra
  BY <1>1 DEF PlannedProceeds
<1>8. CashInv'
  <2> HIDE DEF extra
  <2> QED BY <1>1, <1>3, <1>4, <1>5, <1>7 DEF CashInv
<1>9. FundingInv'
  <2> SUFFICES ASSUME mode' = "plan"
               PROVE  funding'.existing + funding'.proceeds + Spent(ledger', Stocks)
                        = above + Spendable(in)
    BY <1>1, <1>2 DEF FundingInv
  <2>1. extra = Spendable(in)
    BY <1>1
  <2> HIDE DEF extra, above
  <2> QED BY <1>3, <1>4, <1>6, <2>1
<1> QED BY <1>8, <1>9

LEMMA MoneyInvQuiet ==
  ASSUME MoneyInv, RunInv', PlanSells \/ Lifecycle
  PROVE  CashInv' /\ FundingInv'
<1>1. /\ phase \in Early /\ phase' \in Early /\ UNCHANGED <<mode, given, book, funding>>
  BY DEF PlanSells, Lifecycle, Early
<1>2. /\ \A i \in DOMAIN ledger : ledger[i].status \notin SelectedStatuses
      /\ \A i \in DOMAIN ledger' : ledger'[i].status \notin SelectedStatuses
  BY <1>1 DEF MoneyInv, RunInv, LedgerQuiet
<1>3. Spent(ledger', Stocks) = 0 /\ Spent(ledger, Stocks) = 0
  <2> DEFINE k == ledger'
             l == ledger
  <2>1. /\ \A i \in DOMAIN l : l[i].status \notin SelectedStatuses
        /\ \A i \in DOMAIN k : k[i].status \notin SelectedStatuses
    BY <1>2
  <2> HIDE DEF k, l
  <2>2. Spent(k, Stocks) = 0 /\ Spent(l, Stocks) = 0
    BY <2>1, SpentQuiet
  <2> QED BY <2>2 DEF k, l
<1>4. CashInv'
  BY <1>1, <1>3 DEF MoneyInv, CashInv, PlannedProceeds, Reserve
<1>5. FundingInv'
  BY <1>1, <1>2, <1>3 DEF MoneyInv, FundingInv
<1> QED BY <1>4, <1>5

LEMMA MoneyInvStays ==
  ASSUME MoneyInv, UNCHANGED <<mode, given, book, ledger, funding>>
  PROVE  CashInv' /\ FundingInv'
<1>1. Spent(ledger', Stocks) = Spent(ledger, Stocks)
  OBVIOUS
<1> QED BY <1>1 DEF MoneyInv, CashInv, FundingInv, PlannedProceeds, Reserve

(* What can be funded is at least what the cash room lets a BUY take.       *)
LEMMA MoneyInvBought ==
  ASSUME ReserveWithinBuffer, MoneyInv, NEW d, NEW row, Bought(d, row)
  PROVE  CashInv' /\ FundingInv'
<1> DEFINE a == d.approved
           y == Spent(ledger, Stocks)
           chosen == row.status \in SelectedStatuses
<1>1. /\ Typed(given) /\ book \in BookRecord /\ book.nav = Nav(given) /\ ledger \in Seq(FineRows)
      /\ funding \in [existing : Nat, proceeds : Nat] /\ CashInv /\ FundingInv
      /\ book.cash \in Nat /\ given.cash \in Nat
  BY DEF MoneyInv, RunInv, RunTyped, BookRecord, Typed
<1>2. /\ row \in FineRows /\ row.sym \in Stocks /\ row.approved = a /\ a \in Nat
      /\ UNCHANGED <<mode, given>> /\ ledger' = Append(ledger, row)
      /\ (Taken(d, row) \/ Left(d, row)) /\ Funded(d, row)
  BY DEF Bought, FineRows, RowRecord
<1>3. Funded(d, row) /\ (Taken(d, row) \/ Left(d, row))
  BY DEF Bought
<1>4. Reserve \in Nat /\ Reserve' = Reserve /\ PlannedProceeds' = PlannedProceeds
      /\ PlannedProceeds \in Nat
  <2>1. Reserve \in Nat /\ Spendable(given) \in Nat
    BY <1>1, ReserveNat, SpendableNat
  <2> QED BY <1>2, <2>1 DEF Reserve, PlannedProceeds
<1>5. GrownTotals(ledger, row, ledger', Stocks)
  <2>1. GrownTotals(ledger, row, Append(ledger, row), Stocks)
    BY <1>1, <1>2, SpentAppended, Zenon
  <2> QED BY <1>2, <2>1
<1>6. Spent(ledger', Stocks) = y + (IF chosen THEN a ELSE 0) /\ y \in Nat
  BY <1>2, <1>5 DEF GrownTotals
<1>7. book.cash + y = given.cash + PlannedProceeds
  BY <1>1 DEF CashInv
<1>8. CASE Left(d, row)
  <2>1. ~chosen /\ a = 0 /\ book' = book
    BY <1>8 DEF Left
  <2>2. Spent(ledger', Stocks) = y
    BY <1>6, <2>1
  <2>3. CashInv'
    BY <1>1, <1>2, <1>4, <2>1, <2>2 DEF CashInv
  <2>4. funding' = funding
    <3>1. Tracked(d) = 0
      BY <2>1 DEF Tracked
    <3> DEFINE e == Min({funding.existing, Tracked(d)})
               p == Min({funding.proceeds, Tracked(d) - e})
               u == funding.existing
               v == funding.proceeds
    <3>2. /\ e \in Nat /\ p \in Nat /\ u \in Nat /\ v \in Nat
          /\ e + p = IF Tracked(d) <= u + v THEN Tracked(d) ELSE u + v
          /\ funding' = [existing |-> u - e, proceeds |-> v - p]
      BY <1>1, <1>3 DEF Funded
    <3> HIDE DEF e, p, u, v
    <3>3. e = 0 /\ p = 0
      BY <3>1, <3>2
    <3>4. u - e = u /\ v - p = v
      BY <3>2, <3>3
    <3>5. funding = [existing |-> u, proceeds |-> v]
      BY <1>1 DEF u, v
    <3> QED BY <3>2, <3>4, <3>5
  <2>5. /\ DOMAIN ledger' = DOMAIN ledger \cup {Len(ledger) + 1}
        /\ ledger'[Len(ledger) + 1] = row
        /\ \A j \in DOMAIN ledger : ledger'[j] = ledger[j]
    BY <1>1, <1>2, LedgerAppended
  <2>6. FundingInv'
    BY <1>1, <1>2, <2>1, <2>2, <2>4, <2>5 DEF FundingInv
  <2> QED BY <2>3, <2>6
<1>9. CASE Taken(d, row)
  <2>1. chosen /\ a > 0 /\ book'.cash = book.cash - a /\ book'.cash >= Reserve
    BY <1>1, <1>4, <1>9, BookAfter DEF Taken
  <2>2. Spent(ledger', Stocks) = y + a
    BY <1>6, <2>1
  <2>3. CashInv'
    <3> HIDE DEF a, y, chosen
    <3>1. book'.cash + (y + a) = given.cash + PlannedProceeds
      BY <1>1, <1>2, <1>4, <1>6, <1>7, <2>1
    <3> QED BY <1>2, <1>4, <2>1, <2>2, <3>1 DEF CashInv
  <2>4. FundingInv'
    <3> SUFFICES ASSUME mode = "plan" PROVE FundingInv'
      BY <1>2 DEF FundingInv
    <3> DEFINE above == Above0(given.cash - HardReserve(given))
               e == row.existing
               p == row.proceeds
               u == funding.existing
               v == funding.proceeds
               sp == Spendable(given)
               hard == HardReserve(given)
    <3>1. /\ u \in Nat /\ v \in Nat /\ sp \in Nat /\ hard \in Nat
          /\ u + v + y = above + sp
      BY <1>1, SpendableNat, NavFacts DEF FundingInv
    <3>2. above \in Nat /\ above >= given.cash - hard
      <4>1. given.cash - hard \in Int
        BY <1>1, <3>1
      <4> QED BY <4>1, AboveZero
    <3>3. hard <= Reserve
      <4>1. /\ Policy["hardReserve"] \in Nat /\ Policy["cashBuffer"] \in Nat
            /\ Policy.hardReserve <= Policy.cashBuffer
        BY SizingAssumption, PlanAssumption DEF ReserveWithinBuffer
      <4>2. Policy.hardReserve \in Nat /\ Policy.cashBuffer \in Nat /\ Nav(given) \in Nat
        BY <1>1, <4>1, NavFacts
      <4>3. Pct(Policy.hardReserve, Nav(given)) <= Pct(Policy.cashBuffer, Nav(given))
        BY <4>1, <4>2, PctMonotone, Zenon
      <4> QED BY <4>3 DEF Reserve, HardReserve
    <3>4. /\ e \in Nat /\ p \in Nat
          /\ e + p = IF a <= u + v THEN a ELSE u + v
          /\ funding' = [existing |-> u - e, proceeds |-> v - p]
      BY <1>3 DEF Funded, Tracked
    <3>5. a <= book.cash - Reserve
      <4>1. book.cash - Reserve \in Int /\ a <= Above0(book.cash - Reserve)
        BY <1>1, <1>4, <1>9 DEF Taken
      <4> HIDE DEF a
      <4> QED BY <1>2, <2>1, <4>1, AboveLeaves
    <3>6. PlannedProceeds = sp
      BY DEF PlannedProceeds
    <3> HIDE DEF above, e, p, u, v, sp, hard, a, y, chosen
    <3>7. a <= u + v
      BY <1>1, <1>2, <1>4, <1>6, <1>7, <3>1, <3>2, <3>3, <3>5, <3>6
    <3>8. e + p = a
      BY <3>4, <3>7
    <3>9. (u - e) + (v - p) + (y + a) = above + sp
      BY <1>2, <1>6, <3>1, <3>2, <3>4, <3>8
    <3>10. funding'.existing = u - e /\ funding'.proceeds = v - p
      BY <3>4
    <3>11. /\ DOMAIN ledger' = DOMAIN ledger \cup {Len(ledger) + 1}
           /\ ledger'[Len(ledger) + 1] = row
           /\ \A j \in DOMAIN ledger : ledger'[j] = ledger[j]
      BY <1>1, <1>2, LedgerAppended
    <3>12. \A i \in DOMAIN ledger' :
             ledger'[i].status \in SelectedStatuses
               => ledger'[i].existing + ledger'[i].proceeds = ledger'[i].approved
      <4>1. row.existing + row.proceeds = row.approved
        BY <1>2, <3>8 DEF e, p
      <4> QED BY <1>1, <3>11, <4>1 DEF FundingInv
    <3>13. funding'.existing + funding'.proceeds + Spent(ledger', Stocks)
             = Above0(given.cash - HardReserve(given)) + Spendable(given)
      BY <2>2, <3>9, <3>10 DEF above, sp
    <3> QED BY <1>2, <3>12, <3>13 DEF FundingInv
  <2> QED BY <2>3, <2>4
<1> QED BY <1>3, <1>8, <1>9

LEMMA MoneyInvStep ==
  ASSUME ReserveWithinBuffer, MoneyInv, [AllocationNext]_allocationVars
  PROVE  MoneyInv'
<1>1. RunInv'
  BY RunInvStep DEF MoneyInv
<1>2. CASE phase = "idle" /\ \E in \in Inputs, m \in Modes : Begin(in, m)
  BY <1>1, <1>2, MoneyInvBegin DEF MoneyInv
<1>3. CASE PlanSells \/ Lifecycle
  BY <1>1, <1>3, MoneyInvQuiet DEF MoneyInv
<1>4. CASE AllocateBuy
  <2>1. PICK d, row : Bought(d, row)
    BY <1>4, AllocateBuyIsBought DEF MoneyInv
  <2> QED BY <1>1, <2>1, MoneyInvBought DEF MoneyInv
<1>5. CASE OrderBuys \/ OpenRouting \/ Route \/ FinishRouting \/ UNCHANGED allocationVars
  <2>1. UNCHANGED <<mode, given, book, ledger, funding>>
    BY <1>5 DEF OrderBuys, OpenRouting, Route, FinishRouting, allocationVars
  <2> QED BY <1>1, <2>1, MoneyInvStays DEF MoneyInv
<1> QED BY <1>2, <1>3, <1>4, <1>5 DEF AllocationNext

-----------------------------------------------------------------------------
(* A sleeve fills within its capacity, and only a sleeve with a BUY of its  *)
(* own, which therefore lends nothing, fills at all.                        *)

SleeveFine(in, exposure, v) ==
  /\ exposure[v] <= Max({Capacity(in)[v], Exposure(in, v)})
  /\ ~Deployable(in, v) => exposure[v] = Exposure(in, v)

SleeveInv ==
  mode = "plan" =>
    /\ capacity = Capacity(given)
    /\ \A v \in Sleeves : SleeveFine(given, book.exposure, v)

LentInv == RunInv /\ SleeveInv

LEMMA OpeningSleeves ==
  ASSUME NEW in, Typed(in), NEW v \in Sleeves, NEW exposure, exposure[v] = Exposure(in, v)
  PROVE  SleeveFine(in, exposure, v)
<1>1. Exposure(in, v) \in Int /\ Capacity(in)[v] \in Int
  <2>1. Exposure(in, v) \in Nat /\ Capacity(in) \in [Sleeves -> Nat]
    BY NavFacts, CapacityFacts
  <2> QED BY <2>1
<1>2. Exposure(in, v) <= Max({Capacity(in)[v], Exposure(in, v)})
  <2> DEFINE c == Capacity(in)[v]
             e == Exposure(in, v)
  <2> HIDE DEF c, e
  <2>1. c \in Int /\ e \in Int
    BY <1>1 DEF c, e
  <2>2. e <= Max({c, e})
    BY <2>1, MaxOfTwo
  <2> QED BY <2>2 DEF c, e
<1> QED BY <1>2 DEF SleeveFine

LEMMA SleeveInvBegin ==
  ASSUME NEW in \in Inputs, NEW m \in Modes, Begin(in, m)
  PROVE  SleeveInv'
<1>1. Typed(in) /\ given' = in /\ mode' = m
  BY AllocationAssumption DEF Begin, Typed
<1> SUFFICES ASSUME m = "plan"
             PROVE  /\ capacity' = Capacity(in)
                    /\ \A v \in Sleeves : SleeveFine(in, book'.exposure, v)
  BY <1>1 DEF SleeveInv
<1>2. capacity' = Capacity(in)
  <2>1. capacity' = [v \in Sleeves |-> Capacity(in)[v]]
    BY DEF Begin
  <2>2. Capacity(in) \in [Sleeves -> Nat]
    BY <1>1, CapacityFacts
  <2> DEFINE c == Capacity(in)
  <2> HIDE DEF c
  <2>3. c = [v \in Sleeves |-> c[v]]
    BY <2>2 DEF c
  <2> QED BY <2>1, <2>3 DEF c
<1>3. \A v \in Sleeves : book'.exposure[v] = Exposure(in, v)
  <2> DEFINE start == OpeningBook(in)
             extra == Spendable(in)
  <2>1. book' = [start EXCEPT !.cash = @ + extra]
    BY DEF Begin
  <2>2. start \in BookRecord
    BY <1>1, OpeningBookTyped
  <2>3. \A v \in Sleeves : start.exposure[v] = Exposure(in, v)
    BY DEF OpeningBook
  <2> HIDE DEF start, extra
  <2>4. book'.exposure = start.exposure
    BY <2>1, <2>2 DEF BookRecord
  <2> QED BY <2>3, <2>4
<1>4. ASSUME NEW v \in Sleeves PROVE SleeveFine(in, book'.exposure, v)
  BY <1>1, <1>3, OpeningSleeves
<1> QED BY <1>2, <1>4

LEMMA SleeveInvBought ==
  ASSUME LentInv, NEW d, NEW row, Bought(d, row)
  PROVE  SleeveInv'
<1> SUFFICES ASSUME mode = "plan" PROVE SleeveInv'
  BY DEF SleeveInv, Bought
<1>1. /\ Typed(given) /\ book \in BookRecord /\ book.nav = Nav(given)
      /\ capacity = Capacity(given) /\ capacity \in [Sleeves -> Nat]
      /\ \A v \in Sleeves : SleeveFine(given, book.exposure, v)
      /\ UNCHANGED <<mode, given, capacity>>
  BY DEF LentInv, RunInv, RunTyped, SleeveInv, Bought
<1>2. CASE Left(d, row)
  <2>1. book' = book
    BY <1>2 DEF Left
  <2> QED BY <1>1, <2>1 DEF SleeveInv
<1>3. CASE Taken(d, row)
  <2> DEFINE a == d.approved
             w == d.sleeve
  <2>1. /\ w \in Sleeves /\ w = Asked.sleeve /\ a \in Nat /\ a > 0
        /\ a <= Above0(capacity[w] - book.exposure[w])
        /\ Deployable(given, w)
    <3>1. Asked \in Requests /\ RequestFine(given, Asked) /\ d.approved \in Nat
      BY DEF Bought
    <3>2. Deployable(given, Asked.sleeve) /\ Asked.sleeve \in Sleeves
      BY <1>1, <3>1, RequestFacts DEF RequestFine
    <3> QED BY <1>3, <3>1, <3>2 DEF Taken
  <2>2. book'.exposure = [v \in Sleeves |-> book.exposure[v] + IF v = w THEN a ELSE 0]
    BY <1>1, <1>3, ReserveNat, BookAfter
  <2>3. book.exposure \in [Sleeves -> Nat]
    BY <1>1 DEF BookRecord
  <2> HIDE DEF a, w
  <2>4. ASSUME NEW v \in Sleeves PROVE SleeveFine(given, book'.exposure, v)
    <3>1. CASE v # w
      <4>1. book'.exposure[v] = book.exposure[v]
        BY <2>2, <2>3, <3>1
      <4> QED BY <1>1, <4>1 DEF SleeveFine
    <3>2. CASE v = w
      <4> DEFINE c == Capacity(given)[v]
                 e == Exposure(given, v)
                 x == book.exposure[v]
      <4>1. c \in Int /\ e \in Int /\ x \in Nat /\ a <= Above0(c - x)
        <5>1. c \in Nat /\ e \in Nat
          BY <1>1, NavFacts
        <5> QED BY <1>1, <2>1, <2>3, <3>2, <5>1
      <4>2. book'.exposure[v] = x + a
        BY <2>2, <3>2
      <4> HIDE DEF c, e, x
      <4>3. a <= c - x
        <5>1. c - x \in Int
          BY <4>1
        <5> QED BY <2>1, <4>1, <5>1, AboveLeaves
      <4>4. x + a <= Max({c, e})
        BY <2>1, <4>1, <4>3, MaxOfTwo
      <4> QED BY <2>1, <3>2, <4>2, <4>4 DEF SleeveFine, c, e
    <3> QED BY <3>1, <3>2
  <2> QED BY <1>1, <2>4 DEF SleeveInv
<1> QED BY <1>2, <1>3 DEF Bought

LEMMA LentInvStep ==
  ASSUME LentInv, [AllocationNext]_allocationVars
  PROVE  LentInv'
<1>1. RunInv'
  BY RunInvStep DEF LentInv
<1>2. CASE phase = "idle" /\ \E in \in Inputs, m \in Modes : Begin(in, m)
  BY <1>1, <1>2, SleeveInvBegin DEF LentInv
<1>3. CASE AllocateBuy
  <2>1. PICK d, row : Bought(d, row)
    BY <1>3, AllocateBuyIsBought DEF LentInv
  <2> QED BY <1>1, <2>1, SleeveInvBought DEF LentInv
<1>4. CASE \/ PlanSells \/ Lifecycle \/ OrderBuys \/ OpenRouting \/ Route \/ FinishRouting
           \/ UNCHANGED allocationVars
  <2>1. UNCHANGED <<mode, given, book, capacity>>
    BY <1>4 DEF PlanSells, Lifecycle, OrderBuys, OpenRouting, Route, FinishRouting, allocationVars
  <2>2. SleeveInv'
    BY <2>1 DEF LentInv, SleeveInv
  <2> QED BY <1>1, <2>2 DEF LentInv
<1> QED BY <1>2, <1>3, <1>4 DEF AllocationNext

(* What a sleeve holds and has lent fits what it held or may hold and what  *)
(* it has borrowed.                                                         *)
LEMMA SleeveBalance ==
  ASSUME NEW in, Typed(in), NEW v \in Sleeves, NEW exposure, exposure[v] \in Nat,
         SleeveFine(in, exposure, v), NEW acc \in Loans(in), acc = Borrowing(in)
  PROVE  exposure[v] + Lendable(in, v)
           <= Max({SleeveTarget(in, v), Exposure(in, v)}) + acc.borrowed[v] + acc.lend[v]
<1> DEFINE t == SleeveTarget(in, v)
           e == Exposure(in, v)
           x == exposure[v]
           b == acc.borrowed[v]
           n == acc.lend[v]
           l == Lendable(in, v)
<1>1. /\ t \in Nat /\ e \in Nat /\ x \in Nat /\ b \in Nat /\ n \in Nat /\ l \in Nat
  BY NavFacts, LendableNat DEF Loans
<1>2. Capacity(in)[v] = t + b
  BY DEF Capacity
<1>3. x <= Max({t + b, e}) /\ (~Deployable(in, v) => x = e)
  BY <1>2 DEF SleeveFine
<1>4. l = 0 \/ (~Deployable(in, v) /\ l = Above0(t - e))
  BY DEF Lendable, Idle
<1> HIDE DEF t, e, x, b, n, l
<1>5. t - e \in Int /\ t + b \in Int /\ t \in Int /\ e \in Int
  BY <1>1
<1>6. /\ Above0(t - e) = IF t - e > 0 THEN t - e ELSE 0
      /\ Max({t + b, e}) = IF t + b <= e THEN e ELSE t + b
      /\ Max({t, e}) = IF t <= e THEN e ELSE t
  BY <1>5, AboveZero, MaxOfTwo
<1>7. x + l <= Max({t, e}) + b + n
  BY <1>1, <1>3, <1>4, <1>6
<1> QED BY <1>7 DEF t, e, x, b, n, l

LEMMA ParticipantsKeepTogether ==
  ASSUME LentInv
  PROVE  BorrowingMovesCapacity
<1> SUFFICES ASSUME mode = "plan" PROVE BorrowingMovesCapacity
  BY DEF BorrowingMovesCapacity
<1> DEFINE acc == Borrowing(given)
           P == Parties
           before == [v \in P |-> Max({SleeveTarget(given, v), Exposure(given, v)})]
           x == book.exposure
           lent == [v \in Sleeves |-> Lendable(given, v)]
           b == acc.borrowed
           n == acc.lend
           left == [v \in P |-> x[v] + lent[v]]
           loans == [v \in P |-> b[v] + n[v]]
           right == [v \in P |-> before[v] + loans[v]]
<1>1. /\ Typed(given) /\ x \in [Sleeves -> Nat] /\ acc \in Loans(given)
      /\ \A v \in Sleeves : SleeveFine(given, x, v)
  BY BorrowingFacts DEF LentInv, RunInv, RunTyped, SleeveInv, BookRecord
<1>2. /\ P \subseteq Sleeves /\ IsFiniteSet(P)
      /\ b \in [Sleeves -> Nat] /\ n \in [Sleeves -> Nat]
      /\ SumOver(b, P) + SumOver(n, P) = SumOver(lent, P)
  BY <1>1, PartiesFacts DEF Loans
<1>3. ASSUME NEW v \in P
      PROVE  /\ x[v] \in Nat /\ lent[v] \in Nat /\ b[v] \in Nat /\ n[v] \in Nat /\ before[v] \in Nat
             /\ x[v] + lent[v] <= before[v] + b[v] + n[v]
  <2>1. v \in Sleeves
    BY <1>2
  <2>2. x[v] \in Nat /\ SleeveFine(given, x, v)
    BY <1>1, <2>1
  <2>3. lent[v] = Lendable(given, v) /\ Lendable(given, v) \in Nat
    BY <1>1, <2>1, LendableNat
  <2>4. before[v] = Max({SleeveTarget(given, v), Exposure(given, v)}) /\ before[v] \in Nat
    <3> DEFINE t == SleeveTarget(given, v)
               e == Exposure(given, v)
    <3>1. t \in Nat /\ e \in Nat
      BY <1>1, <2>1, NavFacts
    <3> HIDE DEF t, e
    <3>2. Max({t, e}) \in Nat
      BY <3>1, MaxOfTwo
    <3> QED BY <3>2 DEF t, e
  <2>5. x[v] + Lendable(given, v)
          <= Max({SleeveTarget(given, v), Exposure(given, v)}) + acc.borrowed[v] + acc.lend[v]
    <3> HIDE DEF x, acc
    <3>1. acc = Borrowing(given)
      BY DEF acc
    <3> QED BY <1>1, <2>1, <2>2, <3>1, SleeveBalance
  <2> QED BY <1>2, <2>1, <2>2, <2>3, <2>4, <2>5
<1> HIDE DEF P, x, lent, b, n, before
<1>4. ASSUME NEW v \in P
      PROVE  /\ x[v] \in Int /\ lent[v] \in Int /\ b[v] \in Int /\ n[v] \in Int /\ before[v] \in Int
             /\ left[v] = x[v] + lent[v] /\ loans[v] = b[v] + n[v]
             /\ right[v] = before[v] + loans[v]
             /\ loans[v] \in Int /\ left[v] \in Int /\ right[v] \in Int /\ left[v] <= right[v]
  BY <1>3
<1> HIDE DEF left, loans, right
<1>5. /\ SumOver(left, P) = SumOver(x, P) + SumOver(lent, P)
      /\ SumOver(loans, P) = SumOver(b, P) + SumOver(n, P)
      /\ SumOver(right, P) = SumOver(before, P) + SumOver(loans, P)
  BY <1>2, <1>4, SumAdds
<1>6. SumOver(left, P) <= SumOver(right, P)
  BY <1>2, <1>4, SumMonotone
<1>7. /\ SumOver(x, P) \in Int /\ SumOver(lent, P) \in Int /\ SumOver(before, P) \in Int
      /\ SumOver(b, P) \in Int /\ SumOver(n, P) \in Int
  BY <1>2, <1>4, SumFacts
<1>8. SumOver(x, P) <= SumOver(before, P)
  BY <1>2, <1>5, <1>6, <1>7
<1> QED BY <1>8 DEF BorrowingMovesCapacity, x, before, P, Parties

(* The BUYs of a run together leave the cash buffer alone, a planned BUY is *)
(* paid for entirely, and the sleeves that lend and borrow hold together no *)
(* more than before or than their targets, for every input, every policy of *)
(* which the hard reserve is within the cash buffer, however many BUYs.     *)
THEOREM PlansArePaid ==
  ASSUME ReserveWithinBuffer
  PROVE  AllocationSpec => []PlanIsFunded
<1>1. AllocationInit => MoneyInv /\ LentInv
  <2>1. AllocationInit => mode # "plan"
    BY DEF AllocationInit
  <2> QED BY <2>1, MoneyInvInit, RunInvInit DEF LentInv, SleeveInv
<1>2. MoneyInv /\ LentInv /\ [AllocationNext]_allocationVars => MoneyInv' /\ LentInv'
  BY MoneyInvStep, LentInvStep
<1>3. MoneyInv /\ LentInv => PlanIsFunded
  <2> SUFFICES ASSUME MoneyInv, LentInv PROVE PlanIsFunded
    OBVIOUS
  <2>1. /\ RunTyped /\ CashInv /\ FundingInv /\ ledger \in Seq(FineRows) /\ Typed(given)
        /\ book.cash \in Nat /\ given.cash \in Nat
    BY DEF MoneyInv, RunInv, RunTyped, Typed, BookRecord
  <2>2. BudgetKept
    <3> DEFINE S == {i \in DOMAIN ledger : ledger[i].status \in SelectedStatuses}
               y == Spent(ledger, Stocks)
    <3>1. S = Chosen(ledger, Stocks) /\ y \in Nat
      <4>1. /\ \A i \in DOMAIN ledger : ledger[i] \in FineRows
            /\ Spent(ledger, Stocks) \in Nat
        BY <2>1, ChosenFinite
      <4> QED BY <4>1 DEF Chosen, FineRows, RowRecord
    <3>2. Approved(S) = y
      BY <3>1 DEF Spent, Total, Approved
    <3>3. Reserve \in Nat /\ PlannedProceeds \in Nat
      BY <2>1, ReserveNat, SpendableNat DEF PlannedProceeds
    <3>4. book.cash + y = given.cash + PlannedProceeds /\ (y > 0 => book.cash >= Reserve)
      BY <2>1 DEF CashInv
    <3> HIDE DEF S, y
    <3>5. y > 0 => y <= given.cash + PlannedProceeds - Reserve
      BY <2>1, <3>1, <3>3, <3>4
    <3> QED BY <3>2, <3>5 DEF BudgetKept, S, PlannedProceeds, Reserve
  <2>3. FundingComplete
    BY <2>1 DEF FundingComplete, FundingInv, SelectedRows, Rows
  <2> QED BY <2>2, <2>3, ParticipantsKeepTogether DEF PlanIsFunded
<1> QED BY <1>1, <1>2, <1>3, PTL DEF AllocationSpec

-----------------------------------------------------------------------------
(* Every variable of a run keeps its type: the cash threaded from order to  *)
(* order never falls below zero, and no order without shares is queued.     *)
NothingThreadedYet == phase \notin {"routing", "done"} => pending = 0

THEOREM AllocationTyped == AllocationSpec => []AllocationTypeOK
<1> DEFINE Inv == RoutedInv /\ NothingThreadedYet
<1>1. AllocationInit => Inv
  BY RunInvInit, RoutingInvInit DEF RoutedInv, FromInput, NothingThreadedYet, AllocationInit
<1>2. Inv /\ [AllocationNext]_allocationVars => Inv'
  <2> SUFFICES ASSUME Inv, [AllocationNext]_allocationVars PROVE NothingThreadedYet'
    BY RunInvStep, RoutingInvStep DEF RoutedInv
  <2>1. \/ phase' \in {"routing", "done"}
        \/ phase \notin {"routing", "done"} /\ UNCHANGED pending
        \/ UNCHANGED <<phase, pending>>
    BY DEF AllocationNext, Begin, PlanSells, Lifecycle, OrderBuys, AllocateBuy, OpenRouting,
           Route, FinishRouting, allocationVars
  <2> QED BY <2>1 DEF NothingThreadedYet
<1>3. Inv => AllocationTypeOK
  <2> SUFFICES ASSUME Inv PROVE AllocationTypeOK
    OBVIOUS
  <2>1. /\ RunTyped /\ RoutingInv /\ orders \in Seq(OrderRecord)
        /\ book.cash \in Nat /\ Rows \subseteq FineRows
    BY RowsAreFine DEF RoutedInv, RunInv, RunTyped, BookRecord, RoutingInv
  <2>2. pending \in Nat
    BY <2>1 DEF RoutingInv, NothingThreadedYet
  <2>3. \A i \in DOMAIN orders : orders[i].sym \in Stocks /\ orders[i].quantity \in Nat \ {0}
    <3> SUFFICES ASSUME NEW i \in DOMAIN orders PROVE orders[i] \in OrderRecord
      BY DEF OrderRecord
    <3>1. i \in 1..Len(orders)
      BY <2>1, LenProperties
    <3> QED BY <2>1, <3>1, ElementOfSeq
  <2>4. \A row \in Rows : row.sym \in Stocks /\ row.quantity \in Nat /\ row.approved \in Nat
    BY <2>1 DEF FineRows, RowRecord
  <2> QED BY <2>1, <2>2, <2>3, <2>4 DEF RunTyped, Phases, AllocationTypeOK
<1> QED BY <1>1, <1>2, <1>3, PTL DEF AllocationSpec
=============================================================================
