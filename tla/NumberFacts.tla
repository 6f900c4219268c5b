------------------------------ MODULE NumberFacts ------------------------------
(***************************************************************************)
(* Facts about recursion over the subsets of a finite set, which is what   *)
(* the folds of the community modules are, about sums over sets and their  *)
(* largest elements, and about what rounding does to a quotient.           *)
(***************************************************************************)
EXTENDS Decimals, FiniteSetsExt, FiniteSetTheorems, WellFoundedInduction, TLAPS

(* A set of numbers that holds zero and every successor is Nat. *)
LEMMA ClosedIsNat ==
  ASSUME NEW B \in SUBSET Nat, 0 \in B, \A n \in B : n + 1 \in B
  PROVE  \A n \in Nat : n \in B
<1> SUFFICES ASSUME NEW k \in Nat, k \notin B PROVE FALSE
  OBVIOUS
<1> DEFINE R == {p \in Nat \X Nat : p[1] < p[2]}
<1>1. IsWellFoundedOn(R, Nat)
  BY NatLessThanWellFounded DEF OpToRel
<1>2. PICK n \in Nat \ B : \A m \in Nat \ B : ~(<<m, n>> \in R)
  <2> HIDE DEF R
  <2> QED BY <1>1, WFMin
<1>3. \A m \in Nat : m < n => m \in B
  BY <1>2
<1>4. n # 0 /\ n - 1 \in Nat /\ n - 1 < n
  BY <1>2
<1>5. n - 1 \in B
  BY <1>3, <1>4
<1> QED BY <1>2, <1>5

(* A set of numbers up to n that is not empty has a largest and a smallest. *)
LEMMA LargestOf ==
  ASSUME NEW n \in Nat, NEW S \in SUBSET (1..n), S # {}
  PROVE  /\ \E i \in S : \A j \in S : j <= i
         /\ \E i \in S : \A j \in S : i <= j
<1> DEFINE Ends(T) == /\ \E i \in T : \A j \in T : j <= i
                      /\ \E i \in T : \A j \in T : i <= j
           B == {m \in Nat : \A T \in SUBSET (1..m) : T # {} => Ends(T)}
<1>1. 0 \in B
  <2>1. 1..0 = {}
    OBVIOUS
  <2> QED BY <2>1
<1>2. \A m \in B : m + 1 \in B
  <2> HIDE DEF Ends
  <2> SUFFICES ASSUME NEW m \in Nat, \A T \in SUBSET (1..m) : T # {} => Ends(T),
                      NEW T \in SUBSET (1..(m + 1)), T # {}
               PROVE  Ends(T)
    OBVIOUS
  <2> DEFINE U == T \ {m + 1}
  <2>1. U \in SUBSET (1..m)
    OBVIOUS
  <2>2. CASE U = {}
    <3>1. T = {m + 1}
      BY <2>2
    <3> QED BY <3>1 DEF Ends
  <2>3. CASE U # {}
    <3>1. Ends(U)
      BY <2>1, <2>3
    <3>2. PICK low \in U : \A j \in U : low <= j
      BY <3>1 DEF Ends
    <3>3. PICK high \in U : \A j \in U : j <= high
      BY <3>1 DEF Ends
    <3>4. \A j \in T : j \in U \/ j = m + 1
      OBVIOUS
    <3>5. low \in 1..m /\ high \in 1..m /\ low \in T /\ high \in T
      BY <2>1
    <3>6. \A j \in T : low <= j
      BY <3>2, <3>4, <3>5
    <3>7. \E i \in T : \A j \in T : j <= i
      <4>1. CASE m + 1 \in T
        <5>1. \A j \in T : j <= m + 1
          BY <2>1, <3>4
        <5> QED BY <4>1, <5>1
      <4>2. CASE m + 1 \notin T
        BY <3>3, <3>4, <3>5, <4>2
      <4> QED BY <4>1, <4>2
    <3> QED BY <3>5, <3>6, <3>7 DEF Ends
  <2> QED BY <2>2, <2>3
<1>3. n \in B
  <2>1. B \in SUBSET Nat
    OBVIOUS
  <2> HIDE DEF B
  <2> QED BY <1>1, <1>2, <2>1, ClosedIsNat
<1>4. \A T \in SUBSET (1..n) : T # {} => Ends(T)
  BY <1>3
<1> QED BY <1>4

(* Removing an element of a finite set leaves a finite set one smaller. *)
LEMMA OneSmaller ==
  ASSUME NEW S, IsFiniteSet(S), NEW s \in SUBSET S, NEW x \in s
  PROVE  /\ IsFiniteSet(s) /\ Cardinality(s) \in Nat /\ Cardinality(s) > 0
         /\ Cardinality(s \ {x}) = Cardinality(s) - 1
         /\ Cardinality(s) <= Cardinality(S)
<1>1. IsFiniteSet(s) /\ Cardinality(s) <= Cardinality(S)
  BY FS_Subset
<1>2. Cardinality(s) \in Nat /\ Cardinality(s \ {x}) = Cardinality(s) - 1
  BY <1>1, FS_CardinalityType, FS_RemoveElement
<1>3. Cardinality(s \ {x}) \in Nat
  BY <1>1, FS_CardinalityType, FS_RemoveElement
<1> QED BY <1>1, <1>2, <1>3

(* Subsets of a finite set: what holds of the empty set, and of a set
   whenever it holds of the set without one of its elements. *)
LEMMA SubsetInduction ==
  ASSUME NEW S, IsFiniteSet(S), NEW G \in SUBSET (SUBSET S), {} \in G,
         \A s \in SUBSET S : s # {} /\ (\A x \in s : s \ {x} \in G) => s \in G
  PROVE  G = SUBSET S
<1> DEFINE B == {n \in Nat : \A s \in SUBSET S : Cardinality(s) = n => s \in G}
<1>1. 0 \in B
  <2>1. \A s \in SUBSET S : Cardinality(s) = 0 => s = {}
    BY FS_Subset, FS_EmptySet
  <2> QED BY <2>1
<1>2. \A n \in B : n + 1 \in B
  <2> SUFFICES ASSUME NEW n \in Nat, \A s \in SUBSET S : Cardinality(s) = n => s \in G,
                      NEW s \in SUBSET S, Cardinality(s) = n + 1
               PROVE  s \in G
    OBVIOUS
  <2>1. s # {}
    BY FS_EmptySet
  <2>2. \A x \in s : s \ {x} \in G
    <3> SUFFICES ASSUME NEW x \in s PROVE s \ {x} \in G
      OBVIOUS
    <3>1. Cardinality(s \ {x}) = n
      BY OneSmaller
    <3> QED BY <3>1
  <2> QED BY <2>1, <2>2
<1>3. \A n \in Nat : n \in B
  <2> HIDE DEF B
  <2>1. B \in SUBSET Nat
    BY DEF B
  <2> QED BY <1>1, <1>2, <2>1, ClosedIsNat
<1>4. ASSUME NEW s \in SUBSET S PROVE s \in G
  <2>1. Cardinality(s) \in Nat
    BY FS_Subset, FS_CardinalityType
  <2> QED BY <1>3, <2>1
<1> QED BY <1>4

(* The recursion of a fold: pick an element, fold the rest, and step. *)
Folds(iter, S, base, pick, step) ==
  iter = [s \in SUBSET S |-> IF s = {} THEN base
                             ELSE step[<<pick[s], iter[s \ {pick[s]}]>>]]

(* It has a solution over the subsets of a finite set, with values in T. *)
LEMMA FoldExists ==
  ASSUME NEW S, IsFiniteSet(S), NEW T, NEW base \in T,
         NEW pick, \A s \in SUBSET S : s # {} => pick[s] \in s,
         NEW step \in [S \X T -> T]
  PROVE  \E iter \in [SUBSET S -> T] : Folds(iter, S, base, pick, step)
<1> DEFINE L(n) == {s \in SUBSET S : Cardinality(s) <= n}
           Rec(h, n) == \A s \in L(n) :
             h[s] = IF s = {} THEN base ELSE step[<<pick[s], h[s \ {pick[s]}]>>]
           B == {n \in Nat : \E h \in [L(n) -> T] : Rec(h, n)}
<1>1. ASSUME NEW s \in SUBSET S
      PROVE  Cardinality(s) \in Nat /\ (s # {} => Cardinality(s) > 0)
  <2>1. IsFiniteSet(s) /\ Cardinality(s) \in Nat
    BY FS_Subset, FS_CardinalityType
  <2> QED BY <2>1, FS_EmptySet
<1>2. 0 \in B
  <2>1. \A s \in L(0) : s = {}
    BY <1>1
  <2> DEFINE h == [s \in L(0) |-> base]
  <2>2. h \in [L(0) -> T] /\ Rec(h, 0)
    BY <2>1
  <2> QED BY <2>2
<1>3. ASSUME NEW n \in B PROVE n + 1 \in B
  <2>1. PICK h \in [L(n) -> T] : Rec(h, n)
    OBVIOUS
  <2> DEFINE k == [s \in L(n + 1) |-> IF s \in L(n) THEN h[s]
                                      ELSE step[<<pick[s], h[s \ {pick[s]}]>>]]
  <2>2. {} \in L(n)
    BY FS_EmptySet
  <2>3. ASSUME NEW s \in L(n + 1), s # {}
        PROVE  /\ pick[s] \in S /\ s \ {pick[s]} \in L(n)
               /\ h[s \ {pick[s]}] \in T
               /\ step[<<pick[s], h[s \ {pick[s]}]>>] \in T
    <3>1. pick[s] \in s /\ Cardinality(s \ {pick[s]}) = Cardinality(s) - 1
      BY <2>3, OneSmaller
    <3>2. Cardinality(s) \in Nat /\ n \in Nat
      BY <1>1
    <3>3. pick[s] \in S /\ s \ {pick[s]} \in L(n)
      BY <3>1, <3>2
    <3>4. h[s \ {pick[s]}] \in T
      <4> HIDE DEF L
      <4> QED BY <3>3
    <3> HIDE DEF L
    <3> QED BY <3>3, <3>4
  <2>4. k \in [L(n + 1) -> T]
    <3>1. ASSUME NEW s \in L(n + 1)
          PROVE  (IF s \in L(n) THEN h[s] ELSE step[<<pick[s], h[s \ {pick[s]}]>>]) \in T
      <4> HIDE DEF L
      <4> QED BY <2>2, <2>3
    <3> HIDE DEF L
    <3> QED BY <3>1
  <2>5. L(n) \subseteq L(n + 1)
    BY <1>1
  <2>6. ASSUME NEW s \in L(n + 1)
        PROVE  k[s] = IF s = {} THEN base ELSE step[<<pick[s], k[s \ {pick[s]}]>>]
    <3>1. CASE s = {}
      <4>1. h[s] = base
        <5> HIDE DEF L
        <5> QED BY <2>1, <2>2, <3>1
      <4> HIDE DEF L
      <4> QED BY <2>2, <3>1, <4>1
    <3>2. CASE s # {}
      <4>1. s \ {pick[s]} \in L(n) /\ s \ {pick[s]} \in L(n + 1)
        <5> HIDE DEF L
        <5> QED BY <2>3, <2>5, <3>2
      <4>2. k[s \ {pick[s]}] = h[s \ {pick[s]}]
        <5> HIDE DEF L
        <5> QED BY <4>1
      <4>3. k[s] = step[<<pick[s], h[s \ {pick[s]}]>>]
        <5> HIDE DEF L
        <5> QED BY <2>1, <3>2
      <4> HIDE DEF k, L
      <4> QED BY <3>2, <4>2, <4>3
    <3> QED BY <3>1, <3>2
  <2>7. Rec(k, n + 1)
    <3> HIDE DEF k, L
    <3> QED BY <2>6
  <2>8. \E g \in [L(n + 1) -> T] : Rec(g, n + 1)
    <3> HIDE DEF L, k, Rec
    <3> QED BY <2>4, <2>7
  <2> HIDE DEF L, Rec
  <2> QED BY <2>8
<1>4. \A n \in Nat : n \in B
  <2> HIDE DEF B
  <2>1. B \in SUBSET Nat
    BY DEF B
  <2> QED BY <1>2, <1>3, <2>1, ClosedIsNat
<1>5. Cardinality(S) \in Nat /\ L(Cardinality(S)) = SUBSET S
  BY FS_CardinalityType, FS_Subset
<1>6. PICK h \in [SUBSET S -> T] : Rec(h, Cardinality(S))
  <2> HIDE DEF L, Rec
  <2> QED BY <1>4, <1>5
<1>7. h = [s \in SUBSET S |-> IF s = {} THEN base ELSE step[<<pick[s], h[s \ {pick[s]}]>>]]
  <2>1. \A s \in SUBSET S :
          h[s] = IF s = {} THEN base ELSE step[<<pick[s], h[s \ {pick[s]}]>>]
    BY <1>5, <1>6
  <2> HIDE DEF Rec, L
  <2> QED BY <2>1
<1> QED BY <1>7 DEF Folds

(* Two functions agree that start alike and take the same steps. *)
SameSteps(f, g, S) ==
  /\ f[{}] = g[{}]
  /\ \A s \in SUBSET S :
       s # {} /\ (\A x \in s : f[s \ {x}] = g[s \ {x}]) => f[s] = g[s]

LEMMA FoldsAgree ==
  ASSUME NEW S, IsFiniteSet(S), NEW f, NEW g, SameSteps(f, g, S)
  PROVE  \A s \in SUBSET S : f[s] = g[s]
<1> DEFINE G == {s \in SUBSET S : f[s] = g[s]}
<1>1. {} \in G /\ G \in SUBSET (SUBSET S)
  BY DEF SameSteps
<1>2. \A s \in SUBSET S : s # {} /\ (\A x \in s : s \ {x} \in G) => s \in G
  BY DEF SameSteps
<1>3. G = SUBSET S
  <2> HIDE DEF G
  <2> QED BY <1>1, <1>2, SubsetInduction
<1> QED BY <1>3

-----------------------------------------------------------------------------
(* Sums over a finite set.                                                 *)

(* Whatever element is added last, the sum is that of the others and it;
   sums of integers are integers, and those of naturals are naturals. *)
LEMMA SumFacts ==
  ASSUME NEW S, IsFiniteSet(S), NEW f, \A x \in S : f[x] \in Int
  PROVE  /\ SumOver(f, {}) = 0
         /\ SumOver(f, S) \in Int
         /\ \A x \in S : SumOver(f, S) = f[x] + SumOver(f, S \ {x})
<1> DEFINE any(s) == CHOOSE x \in s : TRUE
           Sums(iter, A) ==
             iter = [s \in SUBSET A |->
                       IF s = {} THEN 0 ELSE f[any(s)] + iter[s \ {any(s)}]]
           sum(A) == CHOOSE iter : Sums(iter, A)
<1>1. \A s \in SUBSET S : s # {} => any(s) \in s
  OBVIOUS
<1>2. ASSUME NEW A \in SUBSET S
      PROVE  Sums(sum(A), A) /\ sum(A) \in [SUBSET A -> Int]
  <2> DEFINE pick == [s \in SUBSET S |-> any(s)]
             step == [p \in A \X Int |-> f[p[1]] + p[2]]
  <2>1. IsFiniteSet(A) /\ step \in [A \X Int -> Int]
    BY FS_Subset
  <2>2. \A s \in SUBSET A : s # {} => pick[s] \in s
    BY <1>1
  <2>3. PICK iter \in [SUBSET A -> Int] : Folds(iter, A, 0, pick, step)
    <3>1. 0 \in Int
      OBVIOUS
    <3> HIDE DEF pick, step
    <3> QED BY <2>1, <2>2, <3>1, FoldExists, Zenon
  <2>4. ASSUME NEW s \in SUBSET A, s # {}
        PROVE  step[<<pick[s], iter[s \ {pick[s]}]>>] = f[any(s)] + iter[s \ {any(s)}]
    <3>1. pick[s] = any(s) /\ any(s) \in A /\ s \ {any(s)} \in SUBSET A
      BY <1>1, <2>4
    <3>2. iter[s \ {any(s)}] \in Int
      BY <3>1
    <3> HIDE DEF pick, any
    <3> QED BY <3>1, <3>2
  <2>5. Sums(iter, A)
    <3> HIDE DEF pick, any, step
    <3> QED BY <2>3, <2>4 DEF Folds
  <2>6. Sums(sum(A), A)
    <3> HIDE DEF Sums
    <3> QED BY <2>5
  <2>7. \A s \in SUBSET A : sum(A)[s] = iter[s]
    <3>1. \A s \in SUBSET A :
            s # {} /\ (\A x \in s : sum(A)[s \ {x}] = iter[s \ {x}])
              => sum(A)[s] = iter[s]
      <4> SUFFICES ASSUME NEW s \in SUBSET A, s # {},
                          sum(A)[s \ {any(s)}] = iter[s \ {any(s)}]
                   PROVE  sum(A)[s] = iter[s]
        BY <1>1
      <4> HIDE DEF any, sum
      <4> QED BY <2>5, <2>6
    <3>2. sum(A)[{}] = iter[{}]
      <4> HIDE DEF any, sum
      <4> QED BY <2>5, <2>6
    <3> HIDE DEF sum
    <3>3. SameSteps(sum(A), iter, A)
      BY <3>1, <3>2 DEF SameSteps
    <3> QED BY <2>1, <3>3, FoldsAgree
  <2>8. sum(A) = [s \in SUBSET A |-> sum(A)[s]]
    <3> HIDE DEF any, sum
    <3> QED BY <2>6
  <2>9. sum(A) \in [SUBSET A -> Int]
    <3> HIDE DEF any, sum, Sums
    <3> QED BY <2>7, <2>8
  <2> HIDE DEF any, sum
  <2> QED BY <2>6, <2>9
<1>3. ASSUME NEW A \in SUBSET S PROVE SumOver(f, A) = sum(A)[A]
  BY DEF SumOver, MapThenSumSet, MapThenFoldSet
<1>4. ASSUME NEW A \in SUBSET S, NEW B \in SUBSET A PROVE sum(A)[B] = sum(B)[B]
  <2>1. IsFiniteSet(B) /\ B \in SUBSET S
    BY FS_Subset
  <2>2. Sums(sum(A), A) /\ Sums(sum(B), B)
    BY <1>2, <2>1
  <2>3. sum(A)[{}] = sum(B)[{}]
    <3> HIDE DEF any, sum
    <3> QED BY <2>2
  <2>4. \A s \in SUBSET B :
          s # {} /\ (\A x \in s : sum(A)[s \ {x}] = sum(B)[s \ {x}])
            => sum(A)[s] = sum(B)[s]
    <3> SUFFICES ASSUME NEW s \in SUBSET B, s # {},
                        sum(A)[s \ {any(s)}] = sum(B)[s \ {any(s)}]
                 PROVE  sum(A)[s] = sum(B)[s]
      BY <1>1
    <3> HIDE DEF any, sum
    <3> QED BY <2>2
  <2> HIDE DEF sum, Sums
  <2>5. SameSteps(sum(A), sum(B), B)
    BY <2>3, <2>4 DEF SameSteps
  <2> QED BY <2>1, <2>5, FoldsAgree
<1> DEFINE total == [A \in SUBSET S |-> SumOver(f, A)]
<1>5. /\ total \in [SUBSET S -> Int] /\ total[{}] = 0
      /\ \A A \in SUBSET S :
           A # {} => any(A) \in A /\ total[A] = f[any(A)] + total[A \ {any(A)}]
  <2>1. ASSUME NEW A \in SUBSET S
        PROVE  /\ SumOver(f, A) \in Int
               /\ A = {} => SumOver(f, A) = 0
               /\ A # {} => SumOver(f, A) = f[any(A)] + SumOver(f, A \ {any(A)})
    <3>1. Sums(sum(A), A) /\ sum(A) \in [SUBSET A -> Int] /\ SumOver(f, A) = sum(A)[A]
      BY <1>2, <1>3
    <3>2. A # {} => SumOver(f, A \ {any(A)}) = sum(A)[A \ {any(A)}]
      <4>1. A \ {any(A)} \in SUBSET A /\ A \ {any(A)} \in SUBSET S
        OBVIOUS
      <4> HIDE DEF any, sum
      <4> QED BY <1>3, <1>4, <4>1
    <3>3. A = {} => sum(A)[A] = 0
      <4> HIDE DEF any, sum
      <4> QED BY <3>1
    <3>4. A # {} => sum(A)[A] = f[any(A)] + sum(A)[A \ {any(A)}]
      <4> HIDE DEF any, sum
      <4> QED BY <3>1
    <3>5. sum(A)[A] \in Int
      <4> HIDE DEF any, sum, Sums
      <4> QED BY <3>1
    <3> HIDE DEF any, sum, Sums
    <3> QED BY <3>1, <3>2, <3>3, <3>4, <3>5
  <2> HIDE DEF any
  <2> QED BY <1>1, <2>1
<1> DEFINE G == {A \in SUBSET S : \A x \in A : total[A] = f[x] + total[A \ {x}]}
<1>6. ASSUME NEW A \in SUBSET S, A # {}, \A x \in A : A \ {x} \in G,
             NEW x \in A
      PROVE  total[A] = f[x] + total[A \ {x}]
  <2> DEFINE y == any(A)
  <2>1. y \in A /\ total[A] = f[y] + total[A \ {y}]
    <3> HIDE DEF total, any
    <3> QED BY <1>5, <1>6
  <2>2. CASE x = y
    <3> HIDE DEF y
    <3> QED BY <2>1, <2>2
  <2>3. CASE x # y
    <3> DEFINE rest == (A \ {y}) \ {x}
    <3>1. rest = (A \ {x}) \ {y} /\ rest \in SUBSET S
      OBVIOUS
    <3>2. total[A \ {y}] = f[x] + total[rest]
      <4> HIDE DEF total, y
      <4> QED BY <1>6, <2>1, <2>3
    <3>3. total[A \ {x}] = f[y] + total[rest]
      <4> HIDE DEF total, y
      <4> QED BY <1>6, <2>1, <2>3, <3>1
    <3>4. total[rest] \in Int /\ f[x] \in Int /\ f[y] \in Int
      <4> HIDE DEF total, y
      <4> QED BY <1>5, <2>1, <3>1
    <3> HIDE DEF total, y, rest
    <3> QED BY <2>1, <3>2, <3>3, <3>4
  <2> QED BY <2>2, <2>3
<1>7. G = SUBSET S
  <2>1. {} \in G
    OBVIOUS
  <2>2. \A s \in SUBSET S : s # {} /\ (\A x \in s : s \ {x} \in G) => s \in G
    <3> HIDE DEF total
    <3> QED BY <1>6
  <2>3. G \in SUBSET (SUBSET S)
    OBVIOUS
  <2> HIDE DEF G
  <2> QED BY <2>1, <2>2, <2>3, SubsetInduction
<1>8. \A x \in S : total[S] = f[x] + total[S \ {x}]
  <2> HIDE DEF total
  <2> QED BY <1>7
<1> QED BY <1>5, <1>8

(* From f to g the terms on T are new, and the others stay. *)
NewOn(T, f, g, S) ==
  \A x \in S : /\ f[x] \in Int /\ g[x] \in Int
               /\ x \in T => f[x] = 0
               /\ x \notin T => g[x] = f[x]

(* A sum whose terms on T were zero grows by the new terms on T. *)
LEMMA SumChange ==
  ASSUME NEW S, IsFiniteSet(S), NEW T, NEW f, NEW g, NewOn(T, f, g, S)
  PROVE  SumOver(g, S) = SumOver(f, S) + SumOver(g, S \cap T)
<1> DEFINE G == {A \in SUBSET S : SumOver(g, A) = SumOver(f, A) + SumOver(g, A \cap T)}
<1>1. ASSUME NEW A \in SUBSET S
      PROVE  /\ IsFiniteSet(A) /\ SumOver(f, {}) = 0 /\ SumOver(g, {}) = 0
             /\ SumOver(f, A) \in Int /\ SumOver(g, A) \in Int
             /\ \A x \in A : /\ SumOver(f, A) = f[x] + SumOver(f, A \ {x})
                             /\ SumOver(g, A) = g[x] + SumOver(g, A \ {x})
  <2>1. IsFiniteSet(A)
    BY FS_Subset
  <2>2. \A x \in A : f[x] \in Int /\ g[x] \in Int
    BY DEF NewOn
  <2>3. /\ SumOver(f, {}) = 0 /\ SumOver(f, A) \in Int
        /\ \A x \in A : SumOver(f, A) = f[x] + SumOver(f, A \ {x})
    BY <2>1, <2>2, SumFacts
  <2>4. /\ SumOver(g, {}) = 0 /\ SumOver(g, A) \in Int
        /\ \A x \in A : SumOver(g, A) = g[x] + SumOver(g, A \ {x})
    BY <2>1, <2>2, SumFacts
  <2> QED BY <2>1, <2>3, <2>4
<1>2. {} \in G
  <2>1. {} \cap T = {} /\ {} \in SUBSET S
    OBVIOUS
  <2>2. SumOver(g, {}) = SumOver(f, {}) + SumOver(g, {})
    BY <1>1, <2>1
  <2> QED BY <2>1, <2>2
<1>3. ASSUME NEW A \in SUBSET S, A # {}, \A x \in A : A \ {x} \in G
      PROVE  A \in G
  <2>1. PICK x \in A : TRUE
    BY <1>3
  <2>2. /\ A \ {x} \in SUBSET S /\ A \cap T \in SUBSET S /\ (A \ {x}) \cap T \in SUBSET S
    OBVIOUS
  <2>3. /\ SumOver(f, A) = f[x] + SumOver(f, A \ {x})
        /\ SumOver(g, A) = g[x] + SumOver(g, A \ {x})
        /\ SumOver(f, A \ {x}) \in Int /\ SumOver(g, A \ {x}) \in Int
        /\ SumOver(g, (A \ {x}) \cap T) \in Int
    BY <1>1, <2>2
  <2>4. SumOver(g, A \ {x}) = SumOver(f, A \ {x}) + SumOver(g, (A \ {x}) \cap T)
    BY <1>3
  <2> DEFINE u == SumOver(f, A \ {x})
             v == SumOver(g, A \ {x})
             w == SumOver(g, (A \ {x}) \cap T)
  <2>5. f[x] \in Int /\ g[x] \in Int
    BY DEF NewOn
  <2>6. CASE x \in T
    <3>1. SumOver(g, A \cap T) = g[x] + SumOver(g, (A \cap T) \ {x})
      BY <1>1, <2>2, <2>6
    <3>2. (A \cap T) \ {x} = (A \ {x}) \cap T
      OBVIOUS
    <3>3. f[x] = 0
      BY <2>6 DEF NewOn
    <3>4. SumOver(g, A \cap T) = g[x] + w
      BY <3>1, <3>2
    <3>5. SumOver(f, A) = f[x] + u /\ SumOver(g, A) = g[x] + v /\ v = u + w
          /\ u \in Int /\ v \in Int /\ w \in Int
      BY <2>3, <2>4
    <3> HIDE DEF u, v, w
    <3>6. SumOver(f, A) + SumOver(g, A \cap T) = u + (g[x] + w)
      BY <3>3, <3>4, <3>5
    <3>7. g[x] + v = u + (g[x] + w)
      BY <2>5, <3>5
    <3> QED BY <3>5, <3>6, <3>7
  <2>7. CASE x \notin T
    <3>1. A \cap T = (A \ {x}) \cap T
      BY <2>7
    <3>2. g[x] = f[x]
      BY <2>7 DEF NewOn
    <3>3. SumOver(g, A \cap T) = w
      BY <3>1
    <3>4. SumOver(f, A) = f[x] + u /\ SumOver(g, A) = g[x] + v /\ v = u + w
          /\ u \in Int /\ v \in Int /\ w \in Int
      BY <2>3, <2>4
    <3> HIDE DEF u, v, w
    <3>5. g[x] + v = (f[x] + u) + w
      BY <2>5, <3>2, <3>4
    <3> QED BY <3>3, <3>4, <3>5
  <2> QED BY <2>6, <2>7
<1>4. G = SUBSET S
  <2>1. G \in SUBSET (SUBSET S)
    OBVIOUS
  <2> HIDE DEF G
  <2> QED BY <1>2, <1>3, <2>1, SubsetInduction
<1> QED BY <1>4

(* One term changed: the sum changes by it, if it was zero and counts. *)
LEMMA SumOneChange ==
  ASSUME NEW S, IsFiniteSet(S), NEW f, NEW g, NEW x,
         \A y \in S : f[y] \in Int /\ g[y] \in Int,
         \A y \in S : y # x => g[y] = f[y],
         x \in S => f[x] = 0
  PROVE  SumOver(g, S) = SumOver(f, S) + (IF x \in S THEN g[x] ELSE 0)
<1>1. SumOver(g, S) = SumOver(f, S) + SumOver(g, S \cap {x})
  <2> DEFINE T == {x}
  <2>1. NewOn(T, f, g, S)
    BY DEF NewOn
  <2> HIDE DEF T
  <2>2. SumOver(g, S) = SumOver(f, S) + SumOver(g, S \cap T)
    BY <2>1, SumChange
  <2> QED BY <2>2 DEF T
<1>2. SumOver(g, {}) = 0 /\ SumOver(f, S) \in Int /\ SumOver(g, S) \in Int
  BY SumFacts
<1>3. CASE x \in S
  <2>1. S \cap {x} = {x} /\ {x} \ {x} = {}
    BY <1>3
  <2>2. IsFiniteSet({x}) /\ \A y \in {x} : g[y] \in Int
    BY <1>3, FS_Singleton
  <2>3. SumOver(g, {x}) = g[x] + SumOver(g, {x} \ {x})
    <3>1. \A y \in {x} : SumOver(g, {x}) = g[y] + SumOver(g, {x} \ {y})
      BY <2>2, SumFacts
    <3> QED BY <3>1
  <2>4. SumOver(g, {x}) = g[x]
    <3>1. g[x] \in Int
      BY <1>3
    <3>2. SumOver(g, {x} \ {x}) = 0
      BY <1>2, <2>1
    <3> DEFINE rest == SumOver(g, {x} \ {x})
               all == SumOver(g, {x})
    <3>3. all = g[x] + rest /\ rest = 0
      BY <2>3, <3>2
    <3> HIDE DEF rest, all
    <3>4. all = g[x]
      BY <3>1, <3>3
    <3> QED BY <3>4 DEF all
  <2> QED BY <1>1, <1>3, <2>1, <2>4
<1>4. CASE x \notin S
  <2>1. S \cap {x} = {}
    BY <1>4
  <2> QED BY <1>1, <1>2, <1>4, <2>1
<1> QED BY <1>3, <1>4

(* Nothing adds up to nothing. *)
LEMMA SumZero ==
  ASSUME NEW S, IsFiniteSet(S), NEW f, \A x \in S : f[x] = 0
  PROVE  SumOver(f, S) = 0
<1>1. SumOver(f, S) = SumOver(f, S) + SumOver(f, S \cap S)
  <2>1. NewOn(S, f, f, S)
    BY DEF NewOn
  <2> QED BY <2>1, SumChange
<1>2. S \cap S = S /\ SumOver(f, S) \in Int
  BY SumFacts
<1> QED BY <1>1, <1>2

(* Terms that are nowhere more add up to no more. *)
LEMMA SumMonotone ==
  ASSUME NEW S, IsFiniteSet(S), NEW f, NEW g,
         \A x \in S : f[x] \in Int /\ g[x] \in Int /\ f[x] <= g[x]
  PROVE  SumOver(f, S) \in Int /\ SumOver(g, S) \in Int /\ SumOver(f, S) <= SumOver(g, S)
<1> DEFINE G == {A \in SUBSET S : SumOver(f, A) <= SumOver(g, A)}
<1>1. ASSUME NEW A \in SUBSET S
      PROVE  /\ SumOver(f, {}) = 0 /\ SumOver(g, {}) = 0
             /\ SumOver(f, A) \in Int /\ SumOver(g, A) \in Int
             /\ \A x \in A : /\ SumOver(f, A) = f[x] + SumOver(f, A \ {x})
                             /\ SumOver(g, A) = g[x] + SumOver(g, A \ {x})
  <2>1. IsFiniteSet(A)
    BY FS_Subset
  <2>2. \A x \in A : f[x] \in Int /\ g[x] \in Int
    OBVIOUS
  <2> QED BY <2>1, <2>2, SumFacts
<1>2. {} \in G
  <2>1. SumOver(f, {}) = 0 /\ SumOver(g, {}) = 0
    BY <1>1
  <2> QED BY <2>1
<1>3. \A s \in SUBSET S : s # {} /\ (\A x \in s : s \ {x} \in G) => s \in G
  <2> SUFFICES ASSUME NEW s \in SUBSET S, s # {}, \A x \in s : s \ {x} \in G
               PROVE  SumOver(f, s) <= SumOver(g, s)
    OBVIOUS
  <2>1. PICK x \in s : TRUE
    OBVIOUS
  <2>2. SumOver(f, s \ {x}) <= SumOver(g, s \ {x}) /\ s \ {x} \in SUBSET S
    BY <2>1
  <2>3. /\ SumOver(f, s \ {x}) \in Int /\ SumOver(g, s \ {x}) \in Int
        /\ SumOver(f, s) = f[x] + SumOver(f, s \ {x})
        /\ SumOver(g, s) = g[x] + SumOver(g, s \ {x})
    BY <1>1, <2>1, <2>2
  <2> QED BY <2>1, <2>2, <2>3
<1>4. G = SUBSET S
  <2>1. G \in SUBSET (SUBSET S)
    OBVIOUS
  <2> HIDE DEF G
  <2> QED BY <1>2, <1>3, <2>1, SubsetInduction
<1>5. S \in G
  <2> HIDE DEF G
  <2> QED BY <1>4
<1> QED BY <1>1, <1>5

(* As many equal terms add up to their product. *)
LEMMA SumConstant ==
  ASSUME NEW S, IsFiniteSet(S), NEW w \in Int, NEW f, \A x \in S : f[x] = w
  PROVE  SumOver(f, S) = w * Cardinality(S)
<1> DEFINE G == {A \in SUBSET S : SumOver(f, A) = w * Cardinality(A)}
<1>1. \A x \in S : f[x] \in Int
  OBVIOUS
<1>2. {} \in G
  <2>1. SumOver(f, {}) = 0 /\ Cardinality({}) = 0
    BY <1>1, SumFacts, FS_EmptySet
  <2> QED BY <2>1
<1>3. \A s \in SUBSET S : s # {} /\ (\A x \in s : s \ {x} \in G) => s \in G
  <2> SUFFICES ASSUME NEW s \in SUBSET S, s # {}, \A x \in s : s \ {x} \in G
               PROVE  SumOver(f, s) = w * Cardinality(s)
    OBVIOUS
  <2>1. PICK x \in s : TRUE
    OBVIOUS
  <2>2. IsFiniteSet(s) /\ \A y \in s : f[y] \in Int
    BY FS_Subset
  <2>3. SumOver(f, s) = f[x] + SumOver(f, s \ {x})
    BY <2>1, <2>2, SumFacts
  <2>4. Cardinality(s \ {x}) = Cardinality(s) - 1 /\ Cardinality(s) \in Nat
    BY <2>1, OneSmaller
  <2>5. SumOver(f, s \ {x}) = w * Cardinality(s \ {x})
    BY <2>1
  <2>6. f[x] = w
    BY <2>1
  <2> DEFINE c == Cardinality(s)
  <2>7. w + w * (c - 1) = w * c
    <3>1. c \in Nat
      BY <2>4
    <3> HIDE DEF c
    <3> QED BY <3>1
  <2> QED BY <2>3, <2>4, <2>5, <2>6, <2>7
<1> QED
  <2>1. G \in SUBSET (SUBSET S)
    OBVIOUS
  <2> HIDE DEF G
  <2>2. G = SUBSET S
    BY <1>2, <1>3, <2>1, SubsetInduction
  <2>3. S \in G
    BY <2>2
  <2> QED BY <2>3 DEF G

(* A common factor can be taken out of a sum.                              *)
LEMMA SumScaled ==
  ASSUME NEW S, IsFiniteSet(S), NEW w \in Int, NEW f, NEW g,
         \A x \in S : f[x] \in Int /\ g[x] = w * f[x]
  PROVE  SumOver(g, S) = w * SumOver(f, S)
<1> DEFINE G == {A \in SUBSET S : SumOver(g, A) = w * SumOver(f, A)}
<1>1. \A x \in S : g[x] \in Int
  OBVIOUS
<1>2. {} \in G
  <2>1. SumOver(f, {}) = 0 /\ SumOver(g, {}) = 0
    BY <1>1, SumFacts
  <2> QED BY <2>1
<1>3. \A s \in SUBSET S : s # {} /\ (\A x \in s : s \ {x} \in G) => s \in G
  <2> SUFFICES ASSUME NEW s \in SUBSET S, s # {}, \A x \in s : s \ {x} \in G
               PROVE  SumOver(g, s) = w * SumOver(f, s)
    OBVIOUS
  <2>1. PICK x \in s : TRUE
    OBVIOUS
  <2>2. IsFiniteSet(s) /\ IsFiniteSet(s \ {x}) /\ \A y \in s : f[y] \in Int /\ g[y] \in Int
    BY <1>1, FS_Subset
  <2>3. /\ SumOver(f, s) = f[x] + SumOver(f, s \ {x}) /\ SumOver(g, s) = g[x] + SumOver(g, s \ {x})
        /\ SumOver(f, s \ {x}) \in Int
    BY <2>1, <2>2, SumFacts
  <2>4. SumOver(g, s \ {x}) = w * SumOver(f, s \ {x}) /\ g[x] = w * f[x] /\ f[x] \in Int
    BY <2>1
  <2> DEFINE u == f[x]
             v == SumOver(f, s \ {x})
  <2>5. w * u + w * v = w * (u + v)
    <3>1. u \in Int /\ v \in Int
      BY <2>3, <2>4
    <3> HIDE DEF u, v
    <3> QED BY <3>1
  <2> QED BY <2>3, <2>4, <2>5
<1> QED
  <2>1. G \in SUBSET (SUBSET S)
    OBVIOUS
  <2> HIDE DEF G
  <2>2. G = SUBSET S
    BY <1>2, <1>3, <2>1, SubsetInduction
  <2>3. S \in G
    BY <2>2
  <2> QED BY <2>3 DEF G

(* The terms of a part of S can be added up over all of S.                  *)
LEMMA MaskedSum ==
  ASSUME NEW S, IsFiniteSet(S), NEW A \in SUBSET S, NEW f, \A x \in A : f[x] \in Int
  PROVE  SumOver(f, A) = SumOver([x \in S |-> IF x \in A THEN f[x] ELSE 0], S)
<1> DEFINE none == [x \in S |-> 0]
           masked == [x \in S |-> IF x \in A THEN f[x] ELSE 0]
<1>1. NewOn(A, none, masked, S)
  BY DEF NewOn
<1>2. \A x \in S : none[x] = 0
  OBVIOUS
<1>3. IsFiniteSet(A) /\ \A x \in A : masked[x] \in Int /\ masked[x] = f[x]
  BY FS_Subset
<1> HIDE DEF none, masked
<1>4. SumOver(masked, S) = SumOver(none, S) + SumOver(masked, S \cap A) /\ SumOver(none, S) = 0
  BY <1>1, <1>2, SumChange, SumZero
<1>5. SumOver(masked, A) <= SumOver(f, A) /\ SumOver(masked, A) \in Int /\ SumOver(f, A) \in Int
  BY <1>3, SumMonotone
<1>6. SumOver(f, A) <= SumOver(masked, A)
  BY <1>3, SumMonotone
<1>7. S \cap A = A
  OBVIOUS
<1>8. SumOver(f, A) = SumOver(masked, S)
  <2> DEFINE a == SumOver(f, A)
             b == SumOver(masked, A)
             c == SumOver(masked, S)
  <2>1. a = b /\ b \in Int
    <3> HIDE DEF a, b
    <3>1. b <= a /\ a <= b /\ a \in Int /\ b \in Int
      BY <1>5, <1>6 DEF a, b
    <3> QED BY <3>1
  <2>2. c = 0 + b
    BY <1>4, <1>7
  <2> HIDE DEF a, b, c
  <2>3. a = c
    BY <2>1, <2>2
  <2> QED BY <2>3 DEF a, c
<1> QED BY <1>8 DEF masked

(* One part weighs no more than another whose terms cover its positive ones. *)
LEMMA SumWithin ==
  ASSUME NEW S, IsFiniteSet(S), NEW A \in SUBSET S, NEW B \in SUBSET S, NEW f, NEW g,
         \A x \in A : f[x] \in Int, \A x \in B : g[x] \in Nat,
         \A x \in A : f[x] <= 0 \/ (x \in B /\ f[x] <= g[x])
  PROVE  /\ SumOver(f, A) \in Int /\ SumOver(g, B) \in Nat
         /\ SumOver(f, A) <= SumOver(g, B)
<1> DEFINE none == [x \in S |-> 0]
           low == [x \in S |-> IF x \in A THEN f[x] ELSE 0]
           high == [x \in S |-> IF x \in B THEN g[x] ELSE 0]
<1>1. SumOver(f, A) = SumOver(low, S) /\ SumOver(g, B) = SumOver(high, S)
  BY MaskedSum
<1>2. \A x \in S : /\ low[x] \in Int /\ high[x] \in Int /\ none[x] \in Int
                   /\ low[x] <= high[x] /\ none[x] <= high[x] /\ none[x] = 0
  OBVIOUS
<1> HIDE DEF none, low, high
<1>3. SumOver(low, S) <= SumOver(high, S) /\ SumOver(low, S) \in Int /\ SumOver(high, S) \in Int
  BY <1>2, SumMonotone
<1>4. SumOver(none, S) <= SumOver(high, S) /\ SumOver(none, S) = 0
  BY <1>2, SumMonotone, SumZero
<1> QED BY <1>1, <1>3, <1>4

(* One of finitely many numbers is the greatest.                            *)
LEMMA GreatestOfFinite ==
  ASSUME NEW S, IsFiniteSet(S), S # {}, NEW f, \A x \in S : f[x] \in Int
  PROVE  \E x \in S : \A y \in S : f[y] <= f[x]
<1> DEFINE G == {A \in SUBSET S : A # {} => \E x \in A : \A y \in A : f[y] <= f[x]}
<1>1. {} \in G /\ G \in SUBSET (SUBSET S)
  OBVIOUS
<1>2. \A s \in SUBSET S : s # {} /\ (\A x \in s : s \ {x} \in G) => s \in G
  <2> SUFFICES ASSUME NEW s \in SUBSET S, s # {}, \A x \in s : s \ {x} \in G
               PROVE  \E x \in s : \A y \in s : f[y] <= f[x]
    OBVIOUS
  <2>1. PICK w \in s : TRUE
    OBVIOUS
  <2>2. CASE s \ {w} = {}
    <3>1. s = {w} /\ f[w] \in Int
      BY <2>1, <2>2
    <3> QED BY <3>1
  <2>3. CASE s \ {w} # {}
    <3>1. PICK x \in s \ {w} : \A y \in s \ {w} : f[y] <= f[x]
      BY <2>1, <2>3
    <3>2. \A y \in s : f[y] \in Int
      OBVIOUS
    <3>3. CASE f[w] <= f[x]
      <4>1. \A y \in s : f[y] <= f[x]
        BY <3>1, <3>3
      <4> QED BY <3>1, <4>1
    <3>4. CASE f[x] <= f[w]
      <4>1. ASSUME NEW y \in s PROVE f[y] <= f[w]
        <5>1. CASE y = w
          BY <3>2, <5>1
        <5>2. CASE y # w
          BY <2>1, <3>1, <3>2, <3>4, <5>2
        <5> QED BY <5>1, <5>2
      <4> QED BY <2>1, <4>1
    <3> QED BY <2>1, <3>2, <3>3, <3>4
  <2> QED BY <2>2, <2>3
<1> HIDE DEF G
<1>3. G = SUBSET S
  BY <1>1, <1>2, SubsetInduction
<1>4. S \in G
  BY <1>3
<1> QED BY <1>4 DEF G

-----------------------------------------------------------------------------
(* Rounding.                                                               *)

(* r is n / d rounded to the nearest step, half to even. *)
Nearest(n, d, r) ==
  /\ r \in Int
  /\ 2 * n <= 2 * (d * r) + d /\ 2 * (d * r) <= 2 * n + d
  /\ 2 * n = 2 * (d * r) + d \/ 2 * (d * r) = 2 * n + d => \E h \in Int : r = 2 * h

LEMMA HalfEvenIsNearest ==
  ASSUME NEW n \in Nat, NEW d \in Nat \ {0}
  PROVE  Nearest(n, d, RoundHalfEven(n, d)) /\ RoundHalfEven(n, d) \in Nat
<1> DEFINE q == n \div d
           r == n % d
<1>1. q \in Nat /\ r \in 0..(d - 1) /\ n = d * q + r
  OBVIOUS
<1>2. q % 2 \in {0, 1} /\ q = 2 * (q \div 2) + (q % 2) /\ q \div 2 \in Int
  <2> HIDE DEF q
  <2> QED BY <1>1
<1>3. PICK h \in Int : q = 2 * h + (q % 2)
  BY <1>2
<1> DEFINE p == d * q
<1>4. p \in Nat /\ d * (q + 1) = p + d
  <2> HIDE DEF q
  <2> QED BY <1>1
<1>5. RoundHalfEven(n, d) = IF 2 * r > d \/ (2 * r = d /\ q % 2 = 1) THEN q + 1 ELSE q
  BY DEF RoundHalfEven
<1>6. CASE 2 * r > d \/ (2 * r = d /\ q % 2 = 1)
  <2>1. q % 2 = 1 => q + 1 = 2 * (h + 1)
    <3> HIDE DEF q
    <3> QED BY <1>1, <1>3
  <2>2. 2 * n <= 2 * (p + d) + d /\ 2 * (p + d) <= 2 * n + d
        /\ 2 * n # 2 * (p + d) + d /\ (2 * (p + d) = 2 * n + d => 2 * r = d)
    <3> HIDE DEF p, r, q
    <3> QED BY <1>1, <1>4, <1>6 DEF p
  <2>3. Nearest(n, d, q + 1)
    <3>1. 2 * r = d => q % 2 = 1
      BY <1>1, <1>6
    <3>2. q + 1 \in Int /\ h + 1 \in Int
      BY <1>1
    <3>3. 2 * (p + d) = 2 * n + d => \E g \in Int : q + 1 = 2 * g
      <4> HIDE DEF p, q, r
      <4> QED BY <2>1, <2>2, <3>1, <3>2
    <3>4. /\ 2 * n <= 2 * (d * (q + 1)) + d /\ 2 * (d * (q + 1)) <= 2 * n + d
          /\ 2 * n # 2 * (d * (q + 1)) + d
          /\ 2 * (d * (q + 1)) = 2 * n + d => \E g \in Int : q + 1 = 2 * g
      <4> HIDE DEF p, q, r
      <4> QED BY <1>4, <2>2, <3>3
    <3> HIDE DEF q, p, r
    <3> QED BY <3>2, <3>4 DEF Nearest
  <2>4. q + 1 \in Nat
    BY <1>1
  <2> HIDE DEF q, r
  <2> QED BY <1>5, <1>6, <2>3, <2>4
<1>7. CASE ~(2 * r > d \/ (2 * r = d /\ q % 2 = 1))
  <2>1. q % 2 = 0 => q = 2 * h
    <3> HIDE DEF q
    <3> QED BY <1>1, <1>3
  <2>2. 2 * n <= 2 * p + d /\ 2 * p <= 2 * n + d
        /\ 2 * p # 2 * n + d /\ (2 * n = 2 * p + d => 2 * r = d)
    <3> HIDE DEF p, r, q
    <3> QED BY <1>1, <1>4, <1>7 DEF p
  <2>3. Nearest(n, d, q)
    <3>1. 2 * r = d => q % 2 = 0
      BY <1>2, <1>7
    <3>2. q \in Int
      BY <1>1
    <3> HIDE DEF q, r
    <3> QED BY <1>4, <2>1, <2>2, <3>1, <3>2 DEF Nearest
  <2> HIDE DEF q, r
  <2> QED BY <1>1, <1>5, <1>7, <2>3
<1> QED BY <1>6, <1>7

LEMMA SignedIsNearest ==
  ASSUME NEW n \in Int, NEW d \in Nat \ {0}
  PROVE  Nearest(n, d, RoundSigned(n, d))
<1>1. CASE n >= 0
  BY <1>1, HalfEvenIsNearest DEF RoundSigned
<1>2. CASE n < 0
  <2> DEFINE r == RoundHalfEven(0 - n, d)
  <2>1. 0 - n \in Nat
    BY <1>2
  <2>2. Nearest(0 - n, d, r) /\ r \in Nat
    BY <2>1, HalfEvenIsNearest
  <2>3. RoundSigned(n, d) = 0 - r
    BY <1>2 DEF RoundSigned
  <2> HIDE DEF r
  <2> DEFINE p == d * r
  <2>4. p \in Int /\ d * (0 - r) = 0 - p
    BY <2>2
  <2>5. 2 * (0 - n) <= 2 * p + d /\ 2 * p <= 2 * (0 - n) + d
    BY <2>2 DEF Nearest
  <2>6. 2 * (0 - n) = 2 * p + d \/ 2 * p = 2 * (0 - n) + d =>
          \E h \in Int : r = 2 * h
    BY <2>2 DEF Nearest
  <2> HIDE DEF p
  <2>7. (\E h \in Int : r = 2 * h) => \E h \in Int : 0 - r = 2 * h
    <3> SUFFICES ASSUME NEW h \in Int, r = 2 * h PROVE \E g \in Int : 0 - r = 2 * g
      OBVIOUS
    <3>1. 0 - h \in Int /\ 0 - r = 2 * (0 - h)
      OBVIOUS
    <3> QED BY <3>1
  <2>8. 0 - r \in Int
    BY <2>2
  <2> QED BY <2>3, <2>4, <2>5, <2>6, <2>7, <2>8 DEF Nearest
<1> QED BY <1>1, <1>2

(* A larger fraction never rounds to less. *)
LEMMA NearestMonotone ==
  ASSUME NEW m \in Int, NEW c \in Nat \ {0}, NEW n \in Int, NEW d \in Nat \ {0},
         m * d <= n * c, NEW r, NEW s, Nearest(m, c, r), Nearest(n, d, s)
  PROVE  r <= s
<1> SUFFICES ASSUME s < r PROVE FALSE
  BY DEF Nearest
<1>1. r \in Int /\ s \in Int
  BY DEF Nearest
<1>2. s + 1 <= r
  BY <1>1
<1>3. 2 * (c * r) <= 2 * m + c /\ 2 * n <= 2 * (d * s) + d
  BY DEF Nearest
<1>4. d * (2 * (c * r)) <= d * (2 * m + c) /\ c * (2 * n) <= c * (2 * (d * s) + d)
  BY <1>1, <1>3
<1> DEFINE k == c * d
<1>5. /\ d * (2 * (c * r)) = 2 * (k * r) /\ d * (2 * m + c) = 2 * (m * d) + k
      /\ c * (2 * n) = 2 * (n * c) /\ c * (2 * (d * s) + d) = 2 * (k * s) + k
      /\ k \in Nat \ {0}
  BY <1>1
<1>6. 2 * (k * r) <= 2 * (m * d) + k /\ 2 * (n * c) <= 2 * (k * s) + k
  BY <1>4, <1>5
<1>7. k * r \in Int /\ k * s \in Int /\ m * d \in Int /\ n * c \in Int
      /\ k * (s + 1) <= k * r /\ k * (s + 1) = k * s + k
  <2> HIDE DEF k
  <2> QED BY <1>1, <1>2, <1>5
<1>8. /\ k * r = k * s + k /\ 2 * (m * d) + k = 2 * (k * r)
      /\ 2 * (n * c) = 2 * (k * s) + k
  <2> DEFINE a == k * r
             b == k * s
             x == m * d
             y == n * c
  <2>1. a \in Int /\ b \in Int /\ x \in Int /\ y \in Int /\ k \in Int
        /\ b + k <= a /\ 2 * a <= 2 * x + k /\ 2 * y <= 2 * b + k /\ x <= y
    BY <1>5, <1>6, <1>7
  <2> HIDE DEF a, b, x, y, k
  <2>2. a = b + k /\ 2 * x + k = 2 * a /\ 2 * y = 2 * b + k
    BY <2>1
  <2> QED BY <2>2 DEF a, b, x, y
<1>9. r = s + 1
  <2>1. k * r = k * (s + 1)
    BY <1>7, <1>8
  <2> HIDE DEF k
  <2> QED BY <1>1, <1>5, <2>1
<1>10. 2 * (c * r) = 2 * m + c
  <2>1. d * (2 * (c * r)) = d * (2 * m + c)
    BY <1>5, <1>8
  <2> DEFINE u == 2 * (c * r)
             v == 2 * m + c
  <2>2. u \in Int /\ v \in Int /\ d * u = d * v
    BY <1>1, <2>1
  <2> HIDE DEF u, v
  <2>3. u = v
    BY <2>2
  <2> QED BY <2>3 DEF u, v
<1>11. 2 * n = 2 * (d * s) + d
  <2>1. c * (2 * n) = c * (2 * (d * s) + d)
    BY <1>5, <1>8
  <2> DEFINE u == 2 * n
             v == 2 * (d * s) + d
  <2>2. u \in Int /\ v \in Int /\ c * u = c * v
    BY <1>1, <2>1
  <2> HIDE DEF u, v
  <2>3. u = v
    BY <2>2
  <2> QED BY <2>3 DEF u, v
<1>12. (\E h \in Int : r = 2 * h) /\ (\E h \in Int : s = 2 * h)
  BY <1>10, <1>11 DEF Nearest
<1>13. PICK g \in Int : r = 2 * g
  BY <1>12
<1>14. PICK h \in Int : s = 2 * h
  BY <1>12
<1> QED BY <1>9, <1>13, <1>14

(* What is at most w steps in size rounds to at most w. *)
LEMMA NearestBounded ==
  ASSUME NEW n \in Int, NEW d \in Nat \ {0}, NEW w \in Nat,
         -(w * d) <= n, n <= w * d, NEW r, Nearest(n, d, r)
  PROVE  r \in -w..w
<1>1. r \in Int /\ 2 * n <= 2 * (d * r) + d /\ 2 * (d * r) <= 2 * n + d
  BY DEF Nearest
<1>2. 2 * (d * r) <= 2 * (w * d) + d /\ -(2 * (w * d)) - d <= 2 * (d * r)
  <2> DEFINE p == d * r
             q == w * d
  <2>1. p \in Int /\ q \in Int /\ -q <= n /\ n <= q
        /\ 2 * n <= 2 * p + d /\ 2 * p <= 2 * n + d
    BY <1>1
  <2> HIDE DEF p, q
  <2>2. 2 * p <= 2 * q + d /\ -(2 * q) - d <= 2 * p
    BY <2>1
  <2> QED BY <2>2 DEF p, q
<1>3. r <= w
  <2> SUFFICES ASSUME w + 1 <= r PROVE FALSE
    BY <1>1
  <2>1. d * (w + 1) <= d * r /\ d * (w + 1) = w * d + d
    BY <1>1
  <2> DEFINE p == d * r
             q == w * d
  <2>2. p \in Int /\ q \in Int /\ q + d <= p /\ 2 * p <= 2 * q + d
    BY <1>1, <1>2, <2>1
  <2> HIDE DEF p, q
  <2> QED BY <2>2
<1>4. -w <= r
  <2> SUFFICES ASSUME r + 1 <= -w PROVE FALSE
    BY <1>1
  <2>1. d * (r + 1) <= d * (-w) /\ d * (r + 1) = d * r + d /\ d * (-w) = -(w * d)
    BY <1>1
  <2> DEFINE p == d * r
             q == w * d
  <2>2. p \in Int /\ q \in Int /\ p + d <= -q /\ -(2 * q) - d <= 2 * p
    BY <1>1, <1>2, <2>1
  <2> HIDE DEF p, q
  <2> QED BY <2>2
<1> QED BY <1>1, <1>3, <1>4

-----------------------------------------------------------------------------
(* Sums whose terms are renamed or replaced.                               *)

(* Equal terms add up to the same. *)
LEMMA SumAgrees ==
  ASSUME NEW S, IsFiniteSet(S), NEW f, NEW g, \A x \in S : f[x] = g[x] /\ f[x] \in Int
  PROVE  SumOver(f, S) = SumOver(g, S)
<1>1. \A x \in S : f[x] \in Int /\ g[x] \in Int /\ f[x] <= g[x] /\ g[x] <= f[x]
  OBVIOUS
<1>2. SumOver(f, S) <= SumOver(g, S) /\ SumOver(f, S) \in Int /\ SumOver(g, S) \in Int
  BY <1>1, SumMonotone
<1>3. SumOver(g, S) <= SumOver(f, S)
  BY <1>1, SumMonotone
<1> QED BY <1>2, <1>3

(* One term replaced by another. *)
SameBut(f, g, x, S) ==
  \A y \in S : f[y] \in Int /\ g[y] \in Int /\ (y # x => g[y] = f[y])

LEMMA SumUpdate ==
  ASSUME NEW S, IsFiniteSet(S), NEW f, NEW g, NEW x \in S, SameBut(f, g, x, S)
  PROVE  SumOver(g, S) = SumOver(f, S) - f[x] + g[x] /\ SumOver(f, S) \in Int
<1> USE DEF SameBut
<1>1. IsFiniteSet(S \ {x})
  BY FS_Subset
<1>2. SumOver(f, S \ {x}) = SumOver(g, S \ {x})
  BY <1>1, SumAgrees
<1>3. SumOver(f, S) = f[x] + SumOver(f, S \ {x}) /\ SumOver(f, S) \in Int
  BY SumFacts
<1>4. SumOver(g, S) = g[x] + SumOver(g, S \ {x}) /\ SumOver(g, S) \in Int
  BY SumFacts
<1>5. SumOver(f, S \ {x}) \in Int
  BY <1>1, SumFacts
<1> DEFINE rest == SumOver(f, S \ {x})
<1>6. /\ SumOver(f, S) = f[x] + rest /\ SumOver(g, S) = g[x] + rest
      /\ rest \in Int /\ f[x] \in Int /\ g[x] \in Int
  BY <1>2, <1>3, <1>4, <1>5
<1> HIDE DEF rest
<1> QED BY <1>6

(* Terms may be counted under other names. *)
LEMMA SumRenamed ==
  ASSUME NEW S, IsFiniteSet(S), NEW name, NEW f,
         \A x, y \in S : name[x] = name[y] => x = y,
         \A x \in S : f[name[x]] \in Int
  PROVE  SumOver(f, {name[x] : x \in S}) = SumOver([x \in S |-> f[name[x]]], S)
<1> DEFINE h == [x \in S |-> f[name[x]]]
           Names(A) == {name[x] : x \in A}
           G == {A \in SUBSET S : IsFiniteSet(Names(A)) /\ SumOver(f, Names(A)) = SumOver(h, A)}
<1>1. {} \in G /\ G \in SUBSET (SUBSET S)
  <2>1. Names({}) = {}
    OBVIOUS
  <2>2. SumOver(f, {}) = 0 /\ SumOver(h, {}) = 0 /\ IsFiniteSet({})
    <3> HIDE DEF h
    <3> QED BY FS_EmptySet, SumFacts
  <2> HIDE DEF h, Names
  <2> QED BY <2>1, <2>2
<1>2. ASSUME NEW s \in SUBSET S, s # {}, \A x \in s : s \ {x} \in G
      PROVE  s \in G
  <2>1. PICK x \in s : TRUE
    BY <1>2
  <2>2. Names(s) \ {name[x]} = Names(s \ {x}) /\ name[x] \in Names(s)
    BY <2>1
  <2>3. IsFiniteSet(Names(s \ {x})) /\ SumOver(f, Names(s \ {x})) = SumOver(h, s \ {x})
    BY <1>2, <2>1
  <2>4. Names(s) = Names(s \ {x}) \cup {name[x]}
    BY <2>2
  <2>5. IsFiniteSet(Names(s))
    <3> DEFINE rest == Names(s \ {x})
    <3>1. IsFiniteSet(rest) /\ Names(s) = rest \cup {name[x]}
      BY <2>3, <2>4
    <3> HIDE DEF Names, rest, h, G
    <3>2. IsFiniteSet(rest \cup {name[x]})
      BY <3>1, FS_AddElement
    <3> QED BY <3>1, <3>2
  <2>6. \A n \in Names(s) : f[n] \in Int
    OBVIOUS
  <2>7. SumOver(f, Names(s)) = f[name[x]] + SumOver(f, Names(s) \ {name[x]})
    <3> HIDE DEF Names, h, G
    <3> QED BY <2>2, <2>5, <2>6, SumFacts
  <2>8. SumOver(h, s) = h[x] + SumOver(h, s \ {x})
    <3>1. IsFiniteSet(s) /\ \A y \in s : h[y] \in Int
      BY FS_Subset
    <3> HIDE DEF Names, h, G
    <3> QED BY <2>1, <3>1, SumFacts
  <2>9. h[x] = f[name[x]]
    OBVIOUS
  <2>10. SumOver(f, Names(s)) = SumOver(h, s)
    <3> HIDE DEF Names, h, G
    <3> QED BY <2>2, <2>3, <2>7, <2>8, <2>9
  <2> HIDE DEF Names, h
  <2> QED BY <2>5, <2>10
<1>3. G = SUBSET S
  <2> HIDE DEF G
  <2> QED BY <1>1, <1>2, SubsetInduction
<1>4. SumOver(f, Names(S)) = SumOver(h, S)
  <2> HIDE DEF Names, h
  <2> QED BY <1>3
<1> QED BY <1>4

(* Two sums over the same set add up term by term. *)
LEMMA SumAdds ==
  ASSUME NEW S, IsFiniteSet(S), NEW f, NEW g, NEW h,
         \A x \in S : f[x] \in Int /\ g[x] \in Int /\ h[x] = f[x] + g[x]
  PROVE  SumOver(h, S) = SumOver(f, S) + SumOver(g, S)
<1> DEFINE G == {A \in SUBSET S : SumOver(h, A) = SumOver(f, A) + SumOver(g, A)}
<1>1. ASSUME NEW A \in SUBSET S
      PROVE  /\ SumOver(f, {}) = 0 /\ SumOver(g, {}) = 0 /\ SumOver(h, {}) = 0
             /\ SumOver(f, A) \in Int /\ SumOver(g, A) \in Int /\ SumOver(h, A) \in Int
             /\ \A x \in A : /\ SumOver(f, A) = f[x] + SumOver(f, A \ {x})
                             /\ SumOver(g, A) = g[x] + SumOver(g, A \ {x})
                             /\ SumOver(h, A) = h[x] + SumOver(h, A \ {x})
  <2>1. IsFiniteSet(A) /\ \A x \in A : f[x] \in Int /\ g[x] \in Int /\ h[x] \in Int
    BY FS_Subset
  <2>2. /\ SumOver(f, {}) = 0 /\ SumOver(f, A) \in Int
        /\ \A x \in A : SumOver(f, A) = f[x] + SumOver(f, A \ {x})
    BY <2>1, SumFacts
  <2>3. /\ SumOver(g, {}) = 0 /\ SumOver(g, A) \in Int
        /\ \A x \in A : SumOver(g, A) = g[x] + SumOver(g, A \ {x})
    BY <2>1, SumFacts
  <2>4. /\ SumOver(h, {}) = 0 /\ SumOver(h, A) \in Int
        /\ \A x \in A : SumOver(h, A) = h[x] + SumOver(h, A \ {x})
    BY <2>1, SumFacts
  <2> QED BY <2>2, <2>3, <2>4
<1>2. {} \in G /\ G \in SUBSET (SUBSET S)
  <2>1. {} \in SUBSET S
    OBVIOUS
  <2> QED BY <1>1, <2>1
<1>3. ASSUME NEW s \in SUBSET S, s # {}, \A x \in s : s \ {x} \in G
      PROVE  s \in G
  <2>1. PICK x \in s : TRUE
    BY <1>3
  <2> DEFINE u == SumOver(f, s \ {x})
             v == SumOver(g, s \ {x})
             w == SumOver(h, s \ {x})
  <2>2. u \in Int /\ v \in Int /\ w \in Int
    BY <1>1
  <2>3. SumOver(f, s) = f[x] + u /\ SumOver(g, s) = g[x] + v /\ SumOver(h, s) = h[x] + w
    BY <1>1, <2>1
  <2>4. w = u + v
    BY <1>3, <2>1
  <2>5. f[x] \in Int /\ g[x] \in Int /\ h[x] = f[x] + g[x]
    BY <2>1
  <2> HIDE DEF u, v, w
  <2>6. SumOver(h, s) = SumOver(f, s) + SumOver(g, s)
    BY <2>2, <2>3, <2>4, <2>5
  <2> QED BY <2>6
<1>4. G = SUBSET S
  <2> HIDE DEF G
  <2> QED BY <1>2, <1>3, SubsetInduction
<1> QED BY <1>4

(* Naturals add up to a natural. *)
LEMMA SumNatural ==
  ASSUME NEW S, IsFiniteSet(S), NEW f, \A x \in S : f[x] \in Nat
  PROVE  SumOver(f, S) \in Nat
<1> DEFINE none == [x \in S |-> 0]
<1>1. \A x \in S : none[x] = 0 /\ none[x] \in Int /\ f[x] \in Int /\ none[x] <= f[x]
  OBVIOUS
<1> HIDE DEF none
<1>2. SumOver(none, S) <= SumOver(f, S) /\ SumOver(none, S) = 0 /\ SumOver(f, S) \in Int
  BY <1>1, SumMonotone, SumZero
<1> QED BY <1>2

-----------------------------------------------------------------------------
(* Recursion over the first n numbers, and the places of finitely many     *)
(* numbers in their order.                                                 *)

Recursion(f, n, base, step) ==
  f = [i \in 0..n |-> IF i = 0 THEN base ELSE step[<<i, f[i - 1]>>]]

LEMMA RecursionExists ==
  ASSUME NEW n \in Nat, NEW T, NEW base \in T, NEW step \in [(1..n) \X T -> T]
  PROVE  \E f \in [0..n -> T] : Recursion(f, n, base, step)
<1> DEFINE Follows(f, m) ==
             \A i \in 0..m : f[i] = IF i = 0 THEN base ELSE step[<<i, f[i - 1]>>]
           B == {m \in Nat : m <= n => \E f \in [0..m -> T] : Follows(f, m)}
<1>1. 0 \in B
  <2> DEFINE f == [i \in 0..0 |-> base]
  <2>1. f \in [0..0 -> T] /\ Follows(f, 0)
    OBVIOUS
  <2> QED BY <2>1
<1>2. ASSUME NEW m \in B PROVE m + 1 \in B
  <2> SUFFICES ASSUME m + 1 <= n PROVE \E f \in [0..(m + 1) -> T] : Follows(f, m + 1)
    OBVIOUS
  <2>1. m \in Nat /\ m <= n
    OBVIOUS
  <2>2. PICK f \in [0..m -> T] : Follows(f, m)
    BY <2>1
  <2> DEFINE g == [i \in 0..(m + 1) |-> IF i <= m THEN f[i] ELSE step[<<i, f[m]>>]]
  <2>3. f[m] \in T /\ step[<<m + 1, f[m]>>] \in T
    BY <2>1
  <2>4. g \in [0..(m + 1) -> T]
    BY <2>1, <2>3
  <2>5. ASSUME NEW i \in 0..(m + 1)
        PROVE  g[i] = IF i = 0 THEN base ELSE step[<<i, g[i - 1]>>]
    <3>1. CASE i <= m
      <4>1. g[i] = f[i] /\ i \in 0..m
        BY <2>1, <3>1
      <4>2. i # 0 => g[i - 1] = f[i - 1]
        BY <2>1, <3>1
      <4>3. f[i] = IF i = 0 THEN base ELSE step[<<i, f[i - 1]>>]
        BY <2>2, <4>1
      <4> HIDE DEF g
      <4> QED BY <4>1, <4>2, <4>3
    <3>2. CASE i = m + 1
      <4>1. g[i] = step[<<i, f[m]>>] /\ g[i - 1] = f[m] /\ i # 0
        BY <2>1, <3>2
      <4> HIDE DEF g
      <4> QED BY <4>1
    <3> QED BY <2>1, <3>1, <3>2
  <2>6. Follows(g, m + 1)
    <3> HIDE DEF g
    <3> QED BY <2>5
  <2> HIDE DEF g, Follows
  <2> QED BY <2>4, <2>6
<1>3. n \in B
  <2>1. B \in SUBSET Nat
    OBVIOUS
  <2> HIDE DEF B
  <2> QED BY <1>1, <1>2, <2>1, ClosedIsNat
<1>4. PICK f \in [0..n -> T] : Follows(f, n)
  BY <1>3
<1>5. f = [i \in 0..n |-> IF i = 0 THEN base ELSE step[<<i, f[i - 1]>>]]
  BY <1>4
<1> QED BY <1>5 DEF Recursion

(* Of n numbers one has i - 1 smaller ones, for each i up to n. *)
LEMMA PlacesExist ==
  ASSUME NEW S \in SUBSET Int, IsFiniteSet(S)
  PROVE  \A i \in 1..Cardinality(S) : \E x \in S : Cardinality({y \in S : y < x}) = i - 1
<1> DEFINE Placed(A) ==
             \A i \in 1..Cardinality(A) : \E x \in A : Cardinality({y \in A : y < x}) = i - 1
           G == {A \in SUBSET S : Placed(A)}
<1>1. {} \in G /\ G \in SUBSET (SUBSET S)
  BY FS_EmptySet
<1>2. ASSUME NEW s \in SUBSET S, s # {}, \A x \in s : s \ {x} \in G
      PROVE  s \in G
  <2> DEFINE id == [x \in S |-> x]
  <2>1. PICK m \in s : \A y \in s : y <= m
    <3>1. \A x \in s : id[x] = x /\ id[x] \in Int
      OBVIOUS
    <3>2. IsFiniteSet(s)
      BY FS_Subset
    <3> HIDE DEF id, G
    <3>3. \E x \in s : \A y \in s : id[y] <= id[x]
      BY <1>2, <3>1, <3>2, GreatestOfFinite
    <3> QED BY <3>1, <3>3
  <2> DEFINE n == Cardinality(s)
  <2>2. n \in Nat \ {0} /\ Cardinality(s \ {m}) = n - 1
    <3> HIDE DEF id, G, Placed
    <3>1. n \in Nat /\ n > 0 /\ Cardinality(s \ {m}) = Cardinality(s) - 1
      BY <2>1, OneSmaller
    <3> QED BY <3>1
  <2>3. ASSUME NEW i \in 1..n PROVE \E x \in s : Cardinality({y \in s : y < x}) = i - 1
    <3>1. CASE i = n
      <4>1. \A y \in s : y < m <=> y # m
        <5>1. \A y \in s : y \in Int /\ y <= m
          BY <2>1
        <5> QED BY <2>1, <5>1
      <4>2. {y \in s : y < m} = s \ {m}
        BY <4>1
      <4> QED BY <2>1, <2>2, <3>1, <4>2
    <3>2. CASE i < n
      <4>1. i \in 1..Cardinality(s \ {m}) /\ Placed(s \ {m})
        <5> HIDE DEF Placed
        <5> QED BY <1>2, <2>1, <2>2, <3>2
      <4>2. PICK x \in s \ {m} : Cardinality({y \in s \ {m} : y < x}) = i - 1
        BY <4>1
      <4>3. {y \in s : y < x} = {y \in s \ {m} : y < x}
        BY <2>1, <4>2
      <4> QED BY <4>2, <4>3
    <3> QED BY <2>2, <3>1, <3>2
  <2> QED BY <2>3
<1>3. G = SUBSET S
  <2> HIDE DEF G
  <2> QED BY <1>1, <1>2, SubsetInduction
<1> QED BY <1>3

-----------------------------------------------------------------------------
(* Products, and the rounding of proportional parts.                       *)

Positive == Nat \ {0}

LEMMA ProductsCommute ==
  ASSUME NEW a \in Positive, NEW b \in Positive, NEW c \in Positive
  PROVE  a * b \in Positive /\ a * (b * c) = b * (a * c)
<1>1. a \in Nat /\ b \in Nat /\ c \in Nat /\ a > 0 /\ b > 0
  BY DEF Positive
<1>2. a * b \in Nat /\ a * b > 0
  BY <1>1
<1>3. a * (b * c) = b * (a * c)
  BY <1>1
<1> QED BY <1>2, <1>3 DEF Positive

(* Whatever element is multiplied in last, the product over a finite set is
   that of the others and it. *)
LEMMA ProductFacts ==
  ASSUME NEW S, IsFiniteSet(S), NEW f, \A x \in S : f[x] \in Positive
  PROVE  /\ ProductOver(f, {}) = 1
         /\ ProductOver(f, S) \in Positive
         /\ \A x \in S : ProductOver(f, S) = f[x] * ProductOver(f, S \ {x})
<1> DEFINE any(s) == CHOOSE x \in s : TRUE
           Products(iter, A) ==
             iter = [s \in SUBSET A |->
                       IF s = {} THEN 1 ELSE f[any(s)] * iter[s \ {any(s)}]]
           product(A) == CHOOSE iter : Products(iter, A)
<1>1. \A s \in SUBSET S : s # {} => any(s) \in s
  OBVIOUS
<1>2. ASSUME NEW A \in SUBSET S
      PROVE  Products(product(A), A) /\ product(A) \in [SUBSET A -> Positive]
  <2> DEFINE pick == [s \in SUBSET S |-> any(s)]
             step == [p \in A \X Positive |-> f[p[1]] * p[2]]
  <2>1. IsFiniteSet(A) /\ step \in [A \X Positive -> Positive]
    BY FS_Subset, ProductsCommute
  <2>2. \A s \in SUBSET A : s # {} => pick[s] \in s
    BY <1>1
  <2>3. PICK iter \in [SUBSET A -> Positive] : Folds(iter, A, 1, pick, step)
    <3>1. 1 \in Positive
      BY DEF Positive
    <3> HIDE DEF pick, step
    <3> QED BY <2>1, <2>2, <3>1, FoldExists, Zenon
  <2>4. ASSUME NEW s \in SUBSET A, s # {}
        PROVE  step[<<pick[s], iter[s \ {pick[s]}]>>] = f[any(s)] * iter[s \ {any(s)}]
    <3>1. pick[s] = any(s) /\ any(s) \in A /\ s \ {any(s)} \in SUBSET A
      BY <1>1, <2>4
    <3>2. iter[s \ {any(s)}] \in Positive
      BY <3>1
    <3> HIDE DEF pick, any
    <3> QED BY <3>1, <3>2
  <2>5. Products(iter, A)
    <3> HIDE DEF pick, any, step
    <3> QED BY <2>3, <2>4 DEF Folds
  <2>6. Products(product(A), A)
    <3> HIDE DEF Products
    <3> QED BY <2>5
  <2>7. \A s \in SUBSET A : product(A)[s] = iter[s]
    <3>1. \A s \in SUBSET A :
            s # {} /\ (\A x \in s : product(A)[s \ {x}] = iter[s \ {x}])
              => product(A)[s] = iter[s]
      <4> SUFFICES ASSUME NEW s \in SUBSET A, s # {},
                          product(A)[s \ {any(s)}] = iter[s \ {any(s)}]
                   PROVE  product(A)[s] = iter[s]
        BY <1>1
      <4> HIDE DEF any, product
      <4> QED BY <2>5, <2>6
    <3>2. product(A)[{}] = iter[{}]
      <4> HIDE DEF any, product
      <4> QED BY <2>5, <2>6
    <3> HIDE DEF product
    <3>3. SameSteps(product(A), iter, A)
      BY <3>1, <3>2 DEF SameSteps
    <3> QED BY <2>1, <3>3, FoldsAgree
  <2>8. product(A) = [s \in SUBSET A |-> product(A)[s]]
    <3> HIDE DEF any, product
    <3> QED BY <2>6
  <2>9. product(A) \in [SUBSET A -> Positive]
    <3> HIDE DEF any, product, Products
    <3> QED BY <2>7, <2>8
  <2> HIDE DEF any, product
  <2> QED BY <2>6, <2>9
<1>3. ASSUME NEW A \in SUBSET S PROVE ProductOver(f, A) = product(A)[A]
  BY DEF ProductOver, FoldSet, MapThenFoldSet
<1>4. ASSUME NEW A \in SUBSET S, NEW B \in SUBSET A PROVE product(A)[B] = product(B)[B]
  <2>1. IsFiniteSet(B) /\ B \in SUBSET S
    BY FS_Subset
  <2>2. Products(product(A), A) /\ Products(product(B), B)
    BY <1>2, <2>1
  <2>3. product(A)[{}] = product(B)[{}]
    <3> HIDE DEF any, product
    <3> QED BY <2>2
  <2>4. \A s \in SUBSET B :
          s # {} /\ (\A x \in s : product(A)[s \ {x}] = product(B)[s \ {x}])
            => product(A)[s] = product(B)[s]
    <3> SUFFICES ASSUME NEW s \in SUBSET B, s # {},
                        product(A)[s \ {any(s)}] = product(B)[s \ {any(s)}]
                 PROVE  product(A)[s] = product(B)[s]
      BY <1>1
    <3> HIDE DEF any, product
    <3> QED BY <2>2
  <2> HIDE DEF product, Products
  <2>5. SameSteps(product(A), product(B), B)
    BY <2>3, <2>4 DEF SameSteps
  <2> QED BY <2>1, <2>5, FoldsAgree
<1> DEFINE total == [A \in SUBSET S |-> ProductOver(f, A)]
<1>5. /\ total \in [SUBSET S -> Positive] /\ total[{}] = 1
      /\ \A A \in SUBSET S :
           A # {} => any(A) \in A /\ total[A] = f[any(A)] * total[A \ {any(A)}]
  <2>1. ASSUME NEW A \in SUBSET S
        PROVE  /\ ProductOver(f, A) \in Positive
               /\ A = {} => ProductOver(f, A) = 1
               /\ A # {} => ProductOver(f, A) = f[any(A)] * ProductOver(f, A \ {any(A)})
    <3>1. /\ Products(product(A), A) /\ product(A) \in [SUBSET A -> Positive]
          /\ ProductOver(f, A) = product(A)[A]
      BY <1>2, <1>3
    <3>2. A # {} => ProductOver(f, A \ {any(A)}) = product(A)[A \ {any(A)}]
      <4>1. A \ {any(A)} \in SUBSET A /\ A \ {any(A)} \in SUBSET S
        OBVIOUS
      <4> HIDE DEF any, product
      <4> QED BY <1>3, <1>4, <4>1
    <3>3. A = {} => product(A)[A] = 1
      <4> HIDE DEF any, product
      <4> QED BY <3>1
    <3>4. A # {} => product(A)[A] = f[any(A)] * product(A)[A \ {any(A)}]
      <4> HIDE DEF any, product
      <4> QED BY <3>1
    <3>5. product(A)[A] \in Positive
      <4> HIDE DEF any, product, Products
      <4> QED BY <3>1
    <3> HIDE DEF any, product, Products
    <3> QED BY <3>1, <3>2, <3>3, <3>4, <3>5
  <2> HIDE DEF any
  <2> QED BY <1>1, <2>1
<1> DEFINE G == {A \in SUBSET S : \A x \in A : total[A] = f[x] * total[A \ {x}]}
<1>6. ASSUME NEW A \in SUBSET S, A # {}, \A x \in A : A \ {x} \in G,
             NEW x \in A
      PROVE  total[A] = f[x] * total[A \ {x}]
  <2> DEFINE y == any(A)
  <2>1. y \in A /\ total[A] = f[y] * total[A \ {y}]
    <3> HIDE DEF total, any
    <3> QED BY <1>5, <1>6
  <2>2. CASE x = y
    <3> HIDE DEF y
    <3> QED BY <2>1, <2>2
  <2>3. CASE x # y
    <3> DEFINE rest == (A \ {y}) \ {x}
    <3>1. rest = (A \ {x}) \ {y} /\ rest \in SUBSET S
      OBVIOUS
    <3>2. total[A \ {y}] = f[x] * total[rest]
      <4> HIDE DEF total, y
      <4> QED BY <1>6, <2>1, <2>3
    <3>3. total[A \ {x}] = f[y] * total[rest]
      <4> HIDE DEF total, y
      <4> QED BY <1>6, <2>1, <2>3, <3>1
    <3>4. total[rest] \in Positive /\ f[x] \in Positive /\ f[y] \in Positive
      <4> HIDE DEF total, y
      <4> QED BY <1>5, <2>1, <3>1
    <3> HIDE DEF total, y, rest
    <3>5. f[y] * (f[x] * total[rest]) = f[x] * (f[y] * total[rest])
      BY <3>4, ProductsCommute, Zenon
    <3> QED BY <2>1, <3>2, <3>3, <3>5, Zenon
  <2> QED BY <2>2, <2>3
<1>7. G = SUBSET S
  <2>1. {} \in G
    OBVIOUS
  <2>2. \A s \in SUBSET S : s # {} /\ (\A x \in s : s \ {x} \in G) => s \in G
    <3> HIDE DEF total
    <3> QED BY <1>6
  <2>3. G \in SUBSET (SUBSET S)
    OBVIOUS
  <2> HIDE DEF G
  <2> QED BY <2>1, <2>2, <2>3, SubsetInduction
<1>8. \A x \in S : total[S] = f[x] * total[S \ {x}]
  <2> HIDE DEF total
  <2> QED BY <1>7
<1> QED BY <1>5, <1>8

(* Factors in comparisons. *)
LEMMA TimesGrows ==
  ASSUME NEW a \in Int, NEW b \in Int, NEW d \in Nat
  PROVE  /\ d * a \in Int
         /\ a <= b => a * d <= b * d
         /\ d > 0 /\ d * a <= d * b => a <= b
<1>1. ASSUME a <= b PROVE a * d <= b * d
  <2>1. (b - a) * d >= 0
    BY <1>1
  <2> QED BY <2>1
<1>2. ASSUME d > 0, d * a <= d * b PROVE a <= b
  <2>1. SUFFICES ASSUME b + 1 <= a PROVE FALSE
    OBVIOUS
  <2>2. d * (a - (b + 1)) >= 0
    BY <2>1
  <2> QED BY <1>2, <2>2
<1> QED BY <1>1, <1>2

LEMMA FactorCancels ==
  ASSUME NEW a \in Int, NEW b \in Int, NEW d \in Nat \ {0}, d * a <= d * b
  PROVE  a <= b
<1>1. d \in Nat /\ d > 0
  OBVIOUS
<1> QED BY <1>1, TimesGrows

(* Proportional parts, each rounded, add up to the whole but for half a step
   for each part. *)
LEMMA PartsAddUp ==
  ASSUME NEW S, IsFiniteSet(S), NEW w, \A x \in S : w[x] \in Nat, NEW amount \in Nat,
         SumOver(w, S) > 0, NEW share,
         \A x \in S : share[x] = RoundHalfEven(amount * w[x], SumOver(w, S))
  PROVE  /\ \A x \in S : share[x] \in Nat
         /\ SumOver(share, S) \in Nat
         /\ 2 * SumOver(share, S) <= 2 * amount + Cardinality(S)
         /\ 2 * amount <= 2 * SumOver(share, S) + Cardinality(S)
<1> DEFINE d == SumOver(w, S)
           n == Cardinality(S)
           sum == SumOver(share, S)
           double == [x \in S |-> (2 * d) * share[x]]
           raw == [x \in S |-> (2 * amount) * w[x]]
           one == [x \in S |-> d]
           high == [x \in S |-> raw[x] + one[x]]
           low == [x \in S |-> double[x] + one[x]]
<1>1. d \in Nat \ {0} /\ n \in Nat
  <2>1. SumOver(w, S) \in Nat
    BY SumNatural
  <2> QED BY <2>1, FS_CardinalityType
<1>2. ASSUME NEW x \in S
      PROVE  /\ share[x] \in Nat /\ amount * w[x] \in Nat
             /\ Nearest(amount * w[x], d, share[x])
  <2>1. amount * w[x] \in Nat
    OBVIOUS
  <2>2. share[x] = RoundHalfEven(amount * w[x], d)
    OBVIOUS
  <2> HIDE DEF d
  <2> QED BY <1>1, <2>1, <2>2, HalfEvenIsNearest
<1>3. sum \in Nat
  BY <1>2, SumNatural
<1> HIDE DEF d, n
<1>4. ASSUME NEW x \in S
      PROVE  /\ double[x] \in Int /\ raw[x] \in Int /\ one[x] \in Int
             /\ high[x] \in Int /\ low[x] \in Int
             /\ double[x] <= high[x] /\ raw[x] <= low[x]
  <2>1. share[x] \in Nat /\ amount * w[x] \in Nat /\ w[x] \in Nat
    BY <1>2
  <2>2. /\ 2 * (amount * w[x]) <= 2 * (d * share[x]) + d
        /\ 2 * (d * share[x]) <= 2 * (amount * w[x]) + d
    BY <1>2 DEF Nearest
  <2>3. double[x] = 2 * (d * share[x]) /\ raw[x] = 2 * (amount * w[x]) /\ one[x] = d
    BY <1>1, <2>1
  <2>4. d * share[x] \in Nat
    BY <1>1, <2>1
  <2>5. high[x] = raw[x] + one[x] /\ low[x] = double[x] + one[x]
    OBVIOUS
  <2> HIDE DEF double, raw, one, high, low
  <2> QED BY <1>1, <2>1, <2>2, <2>3, <2>4, <2>5
<1>5. SumOver(double, S) = (2 * d) * sum
  <2>1. 2 * d \in Int /\ \A x \in S : share[x] \in Int /\ double[x] = (2 * d) * share[x]
    BY <1>1, <1>2
  <2> HIDE DEF double
  <2> QED BY <2>1, SumScaled
<1>6. SumOver(raw, S) = (2 * amount) * d
  <2>1. 2 * amount \in Int /\ \A x \in S : w[x] \in Int /\ raw[x] = (2 * amount) * w[x]
    OBVIOUS
  <2>2. SumOver(raw, S) = (2 * amount) * SumOver(w, S)
    <3> HIDE DEF raw
    <3> QED BY <2>1, SumScaled
  <2> QED BY <2>2 DEF d
<1>7. SumOver(one, S) = d * n
  <2>1. d \in Int /\ \A x \in S : one[x] = d
    BY <1>1
  <2> HIDE DEF one
  <2> QED BY <2>1, SumConstant DEF n
<1>8. SumOver(high, S) = SumOver(raw, S) + SumOver(one, S)
  <2>1. \A x \in S : raw[x] \in Int /\ one[x] \in Int /\ high[x] = raw[x] + one[x]
    BY <1>4
  <2> HIDE DEF raw, one, high
  <2> QED BY <2>1, SumAdds
<1>9. SumOver(low, S) = SumOver(double, S) + SumOver(one, S)
  <2>1. \A x \in S : double[x] \in Int /\ one[x] \in Int /\ low[x] = double[x] + one[x]
    BY <1>4
  <2> HIDE DEF double, one, low
  <2> QED BY <2>1, SumAdds
<1>10. SumOver(double, S) <= SumOver(high, S)
  <2> HIDE DEF double, high
  <2> QED BY <1>4, SumMonotone
<1>11. SumOver(raw, S) <= SumOver(low, S)
  <2> HIDE DEF raw, low
  <2> QED BY <1>4, SumMonotone
<1> HIDE DEF double, raw, one, high, low, sum
<1>12. /\ (2 * d) * sum <= (2 * amount) * d + d * n
       /\ (2 * amount) * d <= (2 * d) * sum + d * n
  BY <1>5, <1>6, <1>7, <1>8, <1>9, <1>10, <1>11
<1>13. /\ d * (2 * sum) <= d * (2 * amount + n)
       /\ d * (2 * amount) <= d * (2 * sum + n)
  BY <1>1, <1>3, <1>12
<1>14. /\ 2 * sum \in Int /\ 2 * amount + n \in Int
       /\ 2 * amount \in Int /\ 2 * sum + n \in Int
  BY <1>1, <1>3
<1>15. 2 * sum <= 2 * amount + n /\ 2 * amount <= 2 * sum + n
  <2>1. 2 * sum <= 2 * amount + n
    BY <1>1, <1>13, <1>14, FactorCancels, Zenon
  <2>2. 2 * amount <= 2 * sum + n
    BY <1>1, <1>13, <1>14, FactorCancels, Zenon
  <2> QED BY <2>1, <2>2
<1> QED BY <1>2, <1>3, <1>15 DEF sum, n
=============================================================================
