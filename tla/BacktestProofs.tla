---------------------------- MODULE BacktestProofs ----------------------------
(***************************************************************************)
(* Proofs about the backtest, for every market, strategy and schedule.     *)
(***************************************************************************)
EXTENDS BacktestProperties, NumberFacts, SequenceTheorems

(* A book in the middle of a day. *)

FillRow == [symbol : Symbols, day : Nat, side : {"BUY", "SELL"}, quantity : Nat]
PositionRow == [quantity : Nat, average : Nat, realized : Int]
Books == [cash : Nat, positions : [Symbols -> PositionRow], fills : Seq(FillRow),
          graphTrades : SUBSET Symbols]

LEMMA CandleFacts ==
  ASSUME btCandles \in Candles, NEW s \in Symbols
  PROVE  /\ Days = 1..Len(btCandles[s]) /\ Len(btCandles[s]) \in Nat
         /\ \A d \in Days : /\ btCandles[s][d].open \in Nat \ {0}
                            /\ btCandles[s][d].close \in Nat \ {0}
<1>1. btCandles[s] \in Seq([open : Nat \ {0}, close : Nat \ {0}])
  BY BacktestAssumption
<1>2. (CHOOSE t \in Symbols : TRUE) \in Symbols
  OBVIOUS
<1>3. Len(btCandles[CHOOSE t \in Symbols : TRUE]) = Len(btCandles[s])
  BY <1>2, BacktestAssumption
<1>4. Len(btCandles[s]) \in Nat
  BY <1>1, LenProperties
<1>5. Days = 1..Len(btCandles[s])
  BY <1>3 DEF Days
<1>6. \A d \in 1..Len(btCandles[s]) : btCandles[s][d] \in [open : Nat \ {0}, close : Nat \ {0}]
  BY <1>1, ElementOfSeq
<1> QED BY <1>4, <1>5, <1>6

LEMMA CostWithin ==
  ASSUME NEW gross \in Nat
  PROVE  CostOf(gross) \in Nat /\ CostOf(gross) <= gross
<1> DEFINE r == CostOf(gross)
<1>1. gross * CostBps \in Nat /\ gross * CostBps <= gross * 10000
  BY BacktestAssumption
<1>2. Nearest(gross * CostBps, 10000, r) /\ r \in Nat
  BY <1>1, HalfEvenIsNearest DEF CostOf
<1>3. 2 * (10000 * r) <= 2 * (gross * CostBps) + 10000
  BY <1>2 DEF Nearest
<1> HIDE DEF r
<1> QED BY <1>1, <1>2, <1>3 DEF r

(* The prices of a day. *)
Quotes == [Symbols -> Nat \ {0}]

LEMMA PriceFacts ==
  ASSUME NEW s \in Symbols, NEW opens \in Quotes
  PROVE  SellPrice(opens[s]) \in Nat /\ BuyPrice(opens[s]) \in Nat \ {0}
<1> DEFINE open == opens[s]
           low == open * (10000 - SlippageBps)
           high == open * (10000 + SlippageBps)
           r == RoundHalfEven(high, 10000)
<1>1. open \in Nat \ {0}
  BY DEF Quotes
<1>2. SlippageBps \in 0..9999
  BY BacktestAssumption
<1>3. low \in Nat /\ high \in Nat /\ high >= 10000
  <2> DEFINE u == 10000 - SlippageBps
             v == 10000 + SlippageBps
             k == open - 1
  <2>1. u \in Nat /\ v \in Nat /\ v >= 10000 /\ k \in Nat /\ open = k + 1
    BY <1>1, <1>2
  <2> HIDE DEF u, v, k, open
  <2>2. open * u \in Nat /\ open * v = k * v + v /\ k * v \in Nat
    BY <1>1, <2>1
  <2>3. open * v \in Nat /\ open * v >= 10000
    BY <2>1, <2>2
  <2> QED BY <2>2, <2>3 DEF u, v
<1>4. RoundHalfEven(low, 10000) \in Nat
  <2> HIDE DEF low
  <2> QED BY <1>3, HalfEvenIsNearest
<1>5. r \in Nat /\ 2 * high <= 2 * (10000 * r) + 10000
  <2> HIDE DEF high
  <2>1. Nearest(high, 10000, r) /\ r \in Nat
    BY <1>3, HalfEvenIsNearest
  <2> QED BY <2>1 DEF Nearest
<1>6. r # 0
  <2> HIDE DEF high, r
  <2> QED BY <1>3, <1>5
<1> QED BY <1>4, <1>5, <1>6 DEF SellPrice, BuyPrice, open

(* One product of naturals, divided without remainder by one of them.       *)
LEMMA QuantityFacts ==
  ASSUME btCandles \in Candles, NEW book \in Books, NEW s \in Symbols, NEW d \in Days,
         NEW opens \in Quotes, NEW equity \in Nat, NEW targets \in Nat \ {0}
  PROVE  LET q == BuyQuantity(book, opens[s], equity, targets)
             gross == BuyPrice(opens[s]) * q
         IN  q \in Nat /\ gross \in Nat /\ CostOf(gross) \in Nat /\ gross + CostOf(gross) <= book.cash
<1> DEFINE price == BuyPrice(opens[s])
           wanted == Min({equity \div (targets * price), book.cash \div price})
           fits == {q \in 1..wanted : price * q + CostOf(price * q) <= book.cash}
           q == BuyQuantity(book, opens[s], equity, targets)
<1>1. price \in Nat \ {0} /\ book.cash \in Nat
  BY PriceFacts DEF Books
<1>2. q = Max({0} \cup fits)
  BY DEF BuyQuantity
<1>3. wanted \in Nat
  <2> DEFINE a == equity \div (targets * price)
             b == book.cash \div price
  <2> HIDE DEF price
  <2>1. targets * price \in Nat \ {0}
    BY <1>1
  <2>2. a \in Nat /\ b \in Nat
    BY <1>1, <2>1
  <2> HIDE DEF a, b
  <2>3. \E x \in {a, b} : \A y \in {a, b} : x <= y
    BY <2>2
  <2>4. Min({a, b}) \in {a, b}
    BY <2>3 DEF Min
  <2> QED BY <2>2, <2>4 DEF a, b
<1>4. fits \in SUBSET (1..wanted)
  OBVIOUS
<1>5. \E x \in {0} \cup fits : \A y \in {0} \cup fits : x >= y
  <2> HIDE DEF fits, wanted
  <2>1. CASE fits = {}
    BY <2>1
  <2>2. CASE fits # {}
    <3>1. PICK x \in fits : \A y \in fits : y <= x
      BY <1>3, <1>4, <2>2, LargestOf
    <3> QED BY <1>3, <1>4, <3>1
  <2> QED BY <2>1, <2>2
<1>6. q \in {0} \cup fits
  <2> HIDE DEF fits, q
  <2> QED BY <1>2, <1>5 DEF Max
<1>7. CASE q = 0
  <2>1. price * q = 0
    BY <1>1, <1>7
  <2>2. CostOf(0) \in Nat /\ CostOf(0) <= 0
    BY CostWithin
  <2> HIDE DEF q, price
  <2> QED BY <1>1, <1>7, <2>1, <2>2 DEF q, price
<1>8. CASE q \in fits
  <2>1. q \in 1..wanted /\ price * q + CostOf(price * q) <= book.cash
    BY <1>8
  <2> HIDE DEF q, price, fits, wanted
  <2>2. q \in Nat /\ price * q \in Nat
    BY <1>1, <1>3, <2>1
  <2>3. CostOf(price * q) \in Nat
    BY <2>2, CostWithin
  <2> QED BY <2>1, <2>2, <2>3 DEF q, price
<1> QED BY <1>6, <1>7, <1>8

(* What the positions cost, less what was realized. *)
AtCost(positions) ==
  SumOver([s \in Symbols |-> positions[s].quantity * positions[s].average - positions[s].realized],
          Symbols)
BuysOf(fs) == {i \in 1..Len(fs) : fs[i].side = "BUY"}
BoughtIn(fs) == SumOver([i \in BuysOf(fs) |-> fs[i].quantity], BuysOf(fs))

(* A book that adds up to the capital, but for half a paisa a share bought. *)
Adds(book) ==
  LET apart == (book.cash + AtCost(book.positions)) - InitialCapital
  IN  0 - BoughtIn(book.fills) <= 2 * apart /\ 2 * apart <= BoughtIn(book.fills)
Known(book) ==
  \A s \in Symbols :
    (\A i \in 1..Len(book.fills) : book.fills[i].symbol # s) =>
      book.positions[s].quantity = 0 /\ book.positions[s].realized = 0
Honest(book) == book \in Books /\ Adds(book) /\ Known(book)

LEMMA BoughtAppend ==
  ASSUME NEW fs \in Seq(FillRow), NEW fill \in FillRow
  PROVE  /\ BoughtIn(fs) \in Nat
         /\ BoughtIn(Append(fs, fill)) =
              BoughtIn(fs) + (IF fill.side = "BUY" THEN fill.quantity ELSE 0)
<1> DEFINE n == Len(fs)
           more == Append(fs, fill)
           A == BuysOf(fs)
           B == BuysOf(more)
           f == [i \in A |-> fs[i].quantity]
           g == [i \in B |-> more[i].quantity]
<1>1. n \in Nat /\ \A i \in 1..n : fs[i] \in FillRow
  BY LenProperties, ElementOfSeq
<1>2. Len(more) = n + 1 /\ more[n + 1] = fill /\ \A i \in 1..n : more[i] = fs[i]
  BY <1>1, AppendProperties
<1>3. IsFiniteSet(A) /\ IsFiniteSet(B)
  <2>1. IsFiniteSet(1..n) /\ IsFiniteSet(1..(n + 1))
    BY <1>1, FS_Interval
  <2>2. A \subseteq 1..n /\ B \subseteq 1..(n + 1)
    BY <1>2 DEF BuysOf
  <2> HIDE DEF A, B
  <2> QED BY <2>1, <2>2, FS_Subset
<1>4. \A i \in A : f[i] \in Nat /\ f[i] = fs[i].quantity
  BY <1>1 DEF BuysOf, FillRow
<1>5. SumOver(f, A) \in Nat
  <2> HIDE DEF f, A
  <2> QED BY <1>3, <1>4, SumNatural
<1>6. B = A \cup (IF fill.side = "BUY" THEN {n + 1} ELSE {}) /\ n + 1 \notin A
  <2>1. 1..(n + 1) = (1..n) \cup {n + 1} /\ n + 1 \notin 1..n
    BY <1>1
  <2> HIDE DEF n
  <2> QED BY <1>2, <2>1 DEF BuysOf, n
<1>7. \A i \in A : i \in B => f[i] = g[i]
  <2>1. A \subseteq 1..n
    BY DEF BuysOf
  <2>2. \A i \in A : f[i] = fs[i].quantity
    BY <1>4
  <2>3. \A i \in B : g[i] = more[i].quantity
    OBVIOUS
  <2> HIDE DEF f, g, A, B, n, more
  <2> QED BY <1>2, <2>1, <2>2, <2>3
<1>10. BoughtIn(fs) = SumOver(f, A) /\ BoughtIn(Append(fs, fill)) = SumOver(g, B)
  BY DEF BoughtIn
<1>8. CASE fill.side = "BUY"
  <2>1. B = A \cup {n + 1} /\ B \ {n + 1} = A /\ n + 1 \in B
    BY <1>6, <1>8
  <2>2. g[n + 1] = fill.quantity /\ fill.quantity \in Nat
    BY <1>2, <2>1 DEF FillRow
  <2> HIDE DEF f, g, A, B, more
  <2>3. \A i \in A : f[i] = g[i] /\ f[i] \in Int /\ g[i] \in Int
    BY <1>4, <1>7, <2>1
  <2>4. SumOver(f, A) = SumOver(g, A)
    BY <1>3, <2>3, SumAgrees
  <2>5. \A i \in B : g[i] \in Int
    BY <2>1, <2>2, <2>3
  <2>6. SumOver(g, B) = g[n + 1] + SumOver(g, B \ {n + 1})
    BY <1>3, <2>1, <2>5, SumFacts
  <2>7. SumOver(g, B) = SumOver(f, A) + fill.quantity
    <3>1. SumOver(g, B) = fill.quantity + SumOver(f, A)
      BY <2>1, <2>2, <2>4, <2>6
    <3> QED BY <1>5, <2>2, <3>1
  <2> QED BY <1>5, <1>8, <1>10, <2>7
<1>9. CASE fill.side # "BUY"
  <2>1. B = A
    BY <1>6, <1>9
  <2> HIDE DEF f, g, A, B, more
  <2>2. \A i \in A : f[i] = g[i] /\ f[i] \in Int
    BY <1>4, <1>7, <2>1
  <2>3. SumOver(f, A) = SumOver(g, A)
    BY <1>3, <2>2, SumAgrees
  <2> QED BY <1>5, <1>9, <1>10, <2>1, <2>3
<1> QED BY <1>8, <1>9

(* What replaces one position changes the cost by the difference.           *)
LEMMA AtCostChanges ==
  ASSUME NEW old \in [Symbols -> PositionRow], NEW s \in Symbols, NEW p \in PositionRow
  PROVE  LET new == [old EXCEPT ![s] = p] IN
         /\ AtCost(old) \in Int
         /\ AtCost(new) = AtCost(old)
                          - (old[s].quantity * old[s].average - old[s].realized)
                          + (p.quantity * p.average - p.realized)
<1> DEFINE new == [old EXCEPT ![s] = p]
           f == [x \in Symbols |-> old[x].quantity * old[x].average - old[x].realized]
           g == [x \in Symbols |-> new[x].quantity * new[x].average - new[x].realized]
<1>1. new \in [Symbols -> PositionRow] /\ new[s] = p /\ \A x \in Symbols : x # s => new[x] = old[x]
  OBVIOUS
<1>2. ASSUME NEW q \in PositionRow PROVE q.quantity * q.average - q.realized \in Int
  <2>1. q.quantity \in Nat /\ q.average \in Nat /\ q.realized \in Int
    BY DEF PositionRow
  <2>2. q.quantity * q.average \in Nat
    BY <2>1
  <2> QED BY <2>1, <2>2
<1> HIDE DEF new
<1>3. \A x \in Symbols : f[x] \in Int /\ g[x] \in Int
  BY <1>1, <1>2
<1>4. \A x \in Symbols : x # s => g[x] = f[x]
  BY <1>1
<1>5. /\ f[s] = old[s].quantity * old[s].average - old[s].realized
      /\ g[s] = p.quantity * p.average - p.realized
  BY <1>1
<1> HIDE DEF f, g
<1>6. SumOver(g, Symbols) = SumOver(f, Symbols) - f[s] + g[s] /\ SumOver(f, Symbols) \in Int
  <2>1. IsFiniteSet(Symbols)
    BY BacktestAssumption
  <2>2. SameBut(f, g, s, Symbols)
    BY <1>3, <1>4 DEF SameBut
  <2> QED BY <2>1, <2>2, SumUpdate
<1>7. AtCost(old) = SumOver(f, Symbols) /\ AtCost(new) = SumOver(g, Symbols)
  BY DEF AtCost, f, g
<1>8. AtCost(old) \in Int /\ AtCost(new) = AtCost(old) - f[s] + g[s]
  BY <1>6, <1>7
<1> QED BY <1>5, <1>8 DEF new

(* Selling out realizes what the sale brings: nothing is gained or lost.    *)
SoldRow(book, s, opens) ==
  LET p == book.positions[s]
      gross == SellPrice(opens[s]) * p.quantity
  IN  [quantity |-> 0, average |-> p.average,
       realized |-> p.realized + (gross - CostOf(gross) - p.average * p.quantity)]

LEMMA SellRecord ==
  ASSUME btCandles \in Candles, NEW book \in Books, NEW s \in Symbols, NEW d \in Days,
         NEW opens \in Quotes
  PROVE  LET q == book.positions[s].quantity
             gross == SellPrice(opens[s]) * q
             sold == Sell(book, s, d, opens)
         IN  /\ SoldRow(book, s, opens) \in PositionRow
             /\ gross \in Nat /\ CostOf(gross) \in Nat /\ CostOf(gross) <= gross
             /\ sold.cash = book.cash + gross - CostOf(gross)
             /\ sold.positions = [book.positions EXCEPT ![s] = SoldRow(book, s, opens)]
             /\ sold.fills = Append(book.fills, [symbol |-> s, day |-> d, side |-> "SELL",
                                                 quantity |-> q])
             /\ sold.graphTrades = book.graphTrades \ {s}
             /\ sold \in Books
<1> DEFINE p == book.positions[s]
           q == p.quantity
           gross == SellPrice(opens[s]) * q
           fill == [symbol |-> s, day |-> d, side |-> "SELL", quantity |-> q]
           sold == Sell(book, s, d, opens)
           pnl == gross - CostOf(gross) - p.average * q
<1>1. /\ book.cash \in Nat /\ book.positions \in [Symbols -> PositionRow]
      /\ book.fills \in Seq(FillRow) /\ book.graphTrades \in SUBSET Symbols
  BY DEF Books
<1>2. p \in PositionRow
  BY <1>1
<1>3. p.quantity \in Nat /\ p.average \in Nat /\ p.realized \in Int
  BY <1>2 DEF PositionRow
<1>4. gross \in Nat /\ CostOf(gross) \in Nat /\ CostOf(gross) <= gross
  <2>1. gross \in Nat
    BY <1>3, PriceFacts
  <2> HIDE DEF gross
  <2> QED BY <2>1, CostWithin
<1>5. SoldRow(book, s, opens) \in PositionRow
  <2>1. p.average * q \in Nat
    BY <1>3
  <2>2. p.realized + pnl \in Int
    <3> HIDE DEF gross, q, p
    <3> QED BY <1>3, <1>4, <2>1 DEF q
  <2>3. SoldRow(book, s, opens) = [quantity |-> 0, average |-> p.average, realized |-> p.realized + pnl]
    BY DEF SoldRow
  <2> HIDE DEF pnl, p
  <2> QED BY <1>3, <2>2, <2>3 DEF PositionRow
<1>6. [book.positions EXCEPT ![s].quantity = 0, ![s].realized = @ + pnl]
        = [book.positions EXCEPT ![s] = SoldRow(book, s, opens)]
  <2> DEFINE left == [book.positions EXCEPT ![s].quantity = 0, ![s].realized = @ + pnl]
             right == [book.positions EXCEPT ![s] = SoldRow(book, s, opens)]
  <2>1. left[s] = SoldRow(book, s, opens)
    <3>1. left[s] = [[p EXCEPT !.quantity = 0] EXCEPT !.realized = @ + pnl]
      BY <1>1
    <3>2. p = [quantity |-> p.quantity, average |-> p.average, realized |-> p.realized]
      BY <1>2 DEF PositionRow
    <3>3. SoldRow(book, s, opens) = [quantity |-> 0, average |-> p.average, realized |-> p.realized + pnl]
      BY DEF SoldRow
    <3> HIDE DEF pnl, left, p
    <3> QED BY <3>1, <3>2, <3>3
  <2>2. DOMAIN left = Symbols /\ \A x \in Symbols : x # s => left[x] = book.positions[x]
    <3> HIDE DEF pnl, p
    <3> QED BY <1>1
  <2>3. left = [x \in Symbols |-> left[x]]
    <3> HIDE DEF pnl, p
    <3> QED BY <1>1
  <2>4. right = [x \in Symbols |-> IF x = s THEN SoldRow(book, s, opens) ELSE book.positions[x]]
    BY <1>1
  <2> HIDE DEF left, right
  <2>5. \A x \in Symbols : left[x] = IF x = s THEN SoldRow(book, s, opens) ELSE book.positions[x]
    BY <2>1, <2>2
  <2>6. left = right
    BY <2>3, <2>4, <2>5
  <2> QED BY <2>6 DEF left, right
<1>7. /\ sold.cash = book.cash + gross - CostOf(gross)
      /\ sold.positions = [book.positions EXCEPT ![s] = SoldRow(book, s, opens)]
      /\ sold.fills = Append(book.fills, fill)
      /\ sold.graphTrades = book.graphTrades \ {s}
  BY <1>6 DEF Sell
<1>8. sold = [cash |-> book.cash + gross - CostOf(gross),
              positions |-> [book.positions EXCEPT ![s] = SoldRow(book, s, opens)],
              fills |-> Append(book.fills, fill), graphTrades |-> book.graphTrades \ {s}]
  BY <1>6 DEF Sell
<1>9. d \in Nat
  BY CandleFacts
<1>10. fill \in FillRow
  BY <1>3, <1>9 DEF FillRow
<1>11. Append(book.fills, fill) \in Seq(FillRow)
  <2> HIDE DEF fill
  <2> QED BY <1>1, <1>10, AppendProperties
<1>12. sold \in Books
  <2>1. book.cash + gross - CostOf(gross) \in Nat
    <3> HIDE DEF gross
    <3> QED BY <1>1, <1>4
  <2>2. [book.positions EXCEPT ![s] = SoldRow(book, s, opens)] \in [Symbols -> PositionRow]
    BY <1>1, <1>5
  <2>3. book.graphTrades \ {s} \in SUBSET Symbols
    BY <1>1
  <2> HIDE DEF sold, gross, fill
  <2> QED BY <1>8, <1>11, <2>1, <2>2, <2>3 DEF Books
<1> QED BY <1>4, <1>5, <1>7, <1>12

LEMMA SellKeeps ==
  ASSUME btCandles \in Candles, NEW book, Honest(book), NEW s \in Symbols, NEW d \in Days,
         NEW opens \in Quotes
  PROVE  /\ Honest(Sell(book, s, d, opens))
         /\ HeldIn(Sell(book, s, d, opens).positions) = HeldIn(book.positions) \ {s}
<1> DEFINE p == book.positions[s]
           q == p.quantity
           gross == SellPrice(opens[s]) * q
           sold == Sell(book, s, d, opens)
           row == SoldRow(book, s, opens)
           fill == [symbol |-> s, day |-> d, side |-> "SELL", quantity |-> q]
<1>1. book \in Books /\ Adds(book) /\ Known(book)
  BY DEF Honest
<1>2. /\ row \in PositionRow
      /\ gross \in Nat /\ CostOf(gross) \in Nat
      /\ sold.cash = book.cash + gross - CostOf(gross)
      /\ sold.positions = [book.positions EXCEPT ![s] = row]
      /\ sold.fills = Append(book.fills, fill)
      /\ sold \in Books
  BY <1>1, SellRecord
<1>3. /\ book.cash \in Nat /\ book.positions \in [Symbols -> PositionRow]
      /\ book.fills \in Seq(FillRow)
  BY <1>1 DEF Books
<1>4. p.quantity \in Nat /\ p.average \in Nat /\ p.realized \in Int
  BY <1>3 DEF PositionRow
<1>5. fill \in FillRow /\ fill.side = "SELL" /\ fill.symbol = s
  BY <1>4, CandleFacts DEF FillRow
<1>6. BoughtIn(book.fills) \in Nat /\ BoughtIn(sold.fills) = BoughtIn(book.fills)
  <2> HIDE DEF fill, sold
  <2>1. /\ BoughtIn(book.fills) \in Nat
        /\ BoughtIn(Append(book.fills, fill)) =
             BoughtIn(book.fills) + (IF fill.side = "BUY" THEN fill.quantity ELSE 0)
    BY <1>3, <1>5, BoughtAppend
  <2> QED BY <1>2, <1>5, <2>1
<1>7. /\ AtCost(book.positions) \in Int
      /\ AtCost(sold.positions) = AtCost(book.positions)
                                  - (p.quantity * p.average - p.realized)
                                  + (row.quantity * row.average - row.realized)
  <2> HIDE DEF row, sold
  <2> QED BY <1>2, <1>3, AtCostChanges
<1>8. sold.cash + AtCost(sold.positions) = book.cash + AtCost(book.positions)
  <2> DEFINE m == p.quantity * p.average
             a == AtCost(book.positions)
             c == CostOf(gross)
  <2>1. /\ row.quantity = 0 /\ row.average = p.average
        /\ row.realized = p.realized + (gross - c - m)
    <3>1. m = p.average * p.quantity
      BY <1>4
    <3> QED BY <3>1 DEF SoldRow
  <2>2. row.quantity * row.average = 0 /\ m \in Nat
    BY <1>4, <2>1
  <2>3. AtCost(sold.positions) = a - (m - p.realized) + (0 - row.realized)
    <3> HIDE DEF row, sold
    <3> QED BY <1>7, <2>2
  <2>4. sold.cash = book.cash + gross - c /\ gross \in Nat /\ c \in Nat /\ a \in Int
    BY <1>2, <1>7
  <2> HIDE DEF m, a, c, gross, row, sold, p
  <2>5. AtCost(sold.positions) = a - (m - p.realized) + (0 - (p.realized + (gross - c - m)))
    BY <2>1, <2>3
  <2>6. a - (m - p.realized) + (0 - (p.realized + (gross - c - m))) = a - gross + c
    BY <1>4, <2>2, <2>4
  <2>7. sold.cash + AtCost(sold.positions) = book.cash + a
    BY <1>3, <2>4, <2>5, <2>6
  <2> QED BY <2>7 DEF a
<1>9. Adds(sold)
  <2> DEFINE u == book.cash + AtCost(book.positions)
             v == sold.cash + AtCost(sold.positions)
             m == BoughtIn(book.fills)
             n == BoughtIn(sold.fills)
  <2>1. 0 - m <= 2 * (u - InitialCapital) /\ 2 * (u - InitialCapital) <= m
    BY <1>1 DEF Adds
  <2>2. m = n /\ u = v
    BY <1>6, <1>8
  <2> HIDE DEF u, v, m, n
  <2>3. 0 - n <= 2 * (v - InitialCapital) /\ 2 * (v - InitialCapital) <= n
    BY <2>1, <2>2
  <2> QED BY <2>3, Zenon DEF Adds, v, n
<1>10. Known(sold)
  <2> SUFFICES ASSUME NEW x \in Symbols, \A i \in 1..Len(sold.fills) : sold.fills[i].symbol # x
               PROVE  sold.positions[x].quantity = 0 /\ sold.positions[x].realized = 0
    BY DEF Known
  <2>1. /\ Len(book.fills) \in Nat /\ Len(sold.fills) = Len(book.fills) + 1
        /\ sold.fills[Len(book.fills) + 1] = fill
        /\ \A i \in 1..Len(book.fills) : sold.fills[i] = book.fills[i]
    <3> HIDE DEF fill, sold
    <3> QED BY <1>2, <1>3, <1>5, AppendProperties, LenProperties
  <2>2. x # s
    <3> HIDE DEF fill, sold
    <3> QED BY <1>5, <2>1
  <2>3. \A i \in 1..Len(book.fills) : book.fills[i].symbol # x
    <3> HIDE DEF fill, sold
    <3> QED BY <2>1
  <2>4. sold.positions[x] = book.positions[x]
    <3> HIDE DEF row, sold
    <3> QED BY <1>2, <1>3, <2>2
  <2> HIDE DEF sold
  <2> QED BY <1>1, <2>3, <2>4 DEF Known
<1>11. HeldIn(sold.positions) = HeldIn(book.positions) \ {s}
  <2>1. row.quantity = 0
    BY DEF SoldRow
  <2> HIDE DEF row, sold
  <2>2. \A x \in Symbols : sold.positions[x] = IF x = s THEN row ELSE book.positions[x]
    BY <1>2, <1>3
  <2> QED BY <2>1, <2>2 DEF HeldIn
<1>12. Honest(sold)
  <2> HIDE DEF sold
  <2> QED BY <1>2, <1>9, <1>10 DEF Honest
<1> QED BY <1>11, <1>12

(* A purchase of what is not held: the average is rounded.                  *)
BoughtRow(book, s, opens, q) ==
  LET p == book.positions[s]
      gross == BuyPrice(opens[s]) * q
  IN  [quantity |-> p.quantity + q,
       average |-> RoundHalfEven(p.average * p.quantity + gross + CostOf(gross), p.quantity + q),
       realized |-> p.realized]

LEMMA BuyRecord ==
  ASSUME btCandles \in Candles, NEW book \in Books, NEW s \in Symbols, NEW d \in Days,
         NEW opens \in Quotes, NEW equity \in Nat, NEW targets \in Nat \ {0},
         NEW q, q = BuyQuantity(book, opens[s], equity, targets), q # 0
  PROVE  LET gross == BuyPrice(opens[s]) * q
             after == Buy(book, s, d, opens, equity, targets)
         IN  /\ q \in Nat /\ gross \in Nat /\ CostOf(gross) \in Nat
             /\ BoughtRow(book, s, opens, q) \in PositionRow
             /\ after.cash = book.cash - gross - CostOf(gross)
             /\ after.positions = [book.positions EXCEPT ![s] = BoughtRow(book, s, opens, q)]
             /\ after.fills = Append(book.fills, [symbol |-> s, day |-> d, side |-> "BUY",
                                                  quantity |-> q])
             /\ after \in Books
<1> DEFINE p == book.positions[s]
           gross == BuyPrice(opens[s]) * q
           spent == p.average * p.quantity + gross + CostOf(gross)
           fill == [symbol |-> s, day |-> d, side |-> "BUY", quantity |-> q]
           row == BoughtRow(book, s, opens, q)
           after == Buy(book, s, d, opens, equity, targets)
           open == IF btSignals[s][d] = NoSignal THEN book.graphTrades
                   ELSE book.graphTrades \cup {s}
<1>1. /\ book.cash \in Nat /\ book.positions \in [Symbols -> PositionRow]
      /\ book.fills \in Seq(FillRow) /\ book.graphTrades \in SUBSET Symbols
  BY DEF Books
<1>2. p \in PositionRow
  BY <1>1
<1>3. p.quantity \in Nat /\ p.average \in Nat /\ p.realized \in Int
  BY <1>2 DEF PositionRow
<1>4. q \in Nat \ {0} /\ gross \in Nat /\ CostOf(gross) \in Nat /\ gross + CostOf(gross) <= book.cash
  BY QuantityFacts
<1>5. row \in PositionRow
  <2>1. p.average * p.quantity \in Nat
    BY <1>3
  <2>2. spent \in Nat /\ p.quantity + q \in Nat \ {0}
    <3> HIDE DEF gross, p
    <3> QED BY <1>3, <1>4, <2>1
  <2>3. RoundHalfEven(spent, p.quantity + q) \in Nat
    <3> HIDE DEF spent, p
    <3> QED BY <2>2, HalfEvenIsNearest
  <2>4. row = [quantity |-> p.quantity + q, average |-> RoundHalfEven(spent, p.quantity + q),
               realized |-> p.realized]
    BY DEF BoughtRow
  <2> HIDE DEF spent, p, row
  <2> QED BY <1>3, <2>2, <2>3, <2>4 DEF PositionRow
<1>6. [book.positions EXCEPT ![s].quantity = p.quantity + q,
                             ![s].average = RoundHalfEven(spent, p.quantity + q)]
        = [book.positions EXCEPT ![s] = row]
  <2> DEFINE share == p.quantity + q
             price == RoundHalfEven(spent, p.quantity + q)
             left == [book.positions EXCEPT ![s].quantity = share, ![s].average = price]
             right == [book.positions EXCEPT ![s] = row]
  <2>1. left[s] = row
    <3>1. left[s] = [[p EXCEPT !.quantity = share] EXCEPT !.average = price]
      <4> HIDE DEF share, price
      <4> QED BY <1>1
    <3>2. p = [quantity |-> p.quantity, average |-> p.average, realized |-> p.realized]
      BY <1>2 DEF PositionRow
    <3>3. row = [quantity |-> share, average |-> price, realized |-> p.realized]
      BY DEF BoughtRow
    <3> HIDE DEF left, p, row, share, price
    <3> QED BY <3>1, <3>2, <3>3
  <2>2. DOMAIN left = Symbols /\ \A x \in Symbols : x # s => left[x] = book.positions[x]
    <3> HIDE DEF share, price
    <3> QED BY <1>1
  <2>3. left = [x \in Symbols |-> left[x]]
    <3> HIDE DEF share, price
    <3> QED BY <1>1
  <2>4. right = [x \in Symbols |-> IF x = s THEN row ELSE book.positions[x]]
    BY <1>1
  <2> HIDE DEF left, right, row
  <2>5. \A x \in Symbols : left[x] = IF x = s THEN row ELSE book.positions[x]
    BY <2>1, <2>2
  <2>6. left = right
    BY <2>3, <2>4, <2>5
  <2> QED BY <2>6 DEF left, right
<1>7. after = [cash |-> book.cash - gross - CostOf(gross),
               positions |-> [book.positions EXCEPT ![s] = row],
               fills |-> Append(book.fills, fill), graphTrades |-> open]
  BY <1>6 DEF Buy
<1>8. fill \in FillRow
  BY <1>4, CandleFacts DEF FillRow
<1>9. Append(book.fills, fill) \in Seq(FillRow)
  <2> HIDE DEF fill
  <2> QED BY <1>1, <1>8, AppendProperties
<1>10. after \in Books
  <2>1. book.cash - gross - CostOf(gross) \in Nat
    <3> HIDE DEF gross
    <3> QED BY <1>1, <1>4
  <2>2. [book.positions EXCEPT ![s] = row] \in [Symbols -> PositionRow]
    BY <1>1, <1>5
  <2>3. open \in SUBSET Symbols
    BY <1>1
  <2> HIDE DEF after, gross, fill, row, open
  <2> QED BY <1>7, <1>9, <2>1, <2>2, <2>3 DEF Books
<1>11. /\ after.cash = book.cash - gross - CostOf(gross)
       /\ after.positions = [book.positions EXCEPT ![s] = row]
       /\ after.fills = Append(book.fills, fill)
  <2> HIDE DEF after, gross, fill, row, open
  <2> QED BY <1>7
<1> QED BY <1>4, <1>5, <1>10, <1>11

LEMMA BuyType ==
  ASSUME btCandles \in Candles, NEW book \in Books, NEW s \in Symbols, NEW d \in Days,
         NEW opens \in Quotes, NEW equity \in Nat, NEW targets \in Nat \ {0}
  PROVE  Buy(book, s, d, opens, equity, targets) \in Books
<1> DEFINE q == BuyQuantity(book, opens[s], equity, targets)
<1>1. CASE q = 0
  BY <1>1 DEF Buy
<1>2. CASE q # 0
  <2> HIDE DEF q
  <2> QED BY <1>2, BuyRecord DEF q
<1> QED BY <1>1, <1>2

LEMMA BuyKeeps ==
  ASSUME btCandles \in Candles, NEW book, Honest(book), NEW s \in Symbols, NEW d \in Days,
         NEW opens \in Quotes, NEW equity \in Nat, NEW targets \in Nat \ {0},
         s \notin HeldIn(book.positions)
  PROVE  /\ Honest(Buy(book, s, d, opens, equity, targets))
         /\ HeldIn(Buy(book, s, d, opens, equity, targets).positions)
              \subseteq HeldIn(book.positions) \cup {s}
<1> DEFINE p == book.positions[s]
           q == BuyQuantity(book, opens[s], equity, targets)
           gross == BuyPrice(opens[s]) * q
           c == CostOf(gross)
           after == Buy(book, s, d, opens, equity, targets)
           row == BoughtRow(book, s, opens, q)
           fill == [symbol |-> s, day |-> d, side |-> "BUY", quantity |-> q]
<1>1. book \in Books /\ Adds(book) /\ Known(book)
  BY DEF Honest
<1>2. CASE q = 0
  <2>1. after = book
    BY <1>2 DEF Buy
  <2> HIDE DEF after
  <2> QED BY <2>1 DEF after
<1>3. CASE q # 0
  <2>1. /\ q \in Nat /\ gross \in Nat /\ c \in Nat /\ row \in PositionRow
        /\ after.cash = book.cash - gross - c
        /\ after.positions = [book.positions EXCEPT ![s] = row]
        /\ after.fills = Append(book.fills, fill)
        /\ after \in Books
    <3> HIDE DEF q
    <3> QED BY <1>1, <1>3, BuyRecord DEF q
  <2>2. /\ book.cash \in Nat /\ book.positions \in [Symbols -> PositionRow]
        /\ book.fills \in Seq(FillRow)
    BY <1>1 DEF Books
  <2>3. p.quantity = 0 /\ p.average \in Nat /\ p.realized \in Int
    BY <2>2 DEF PositionRow, HeldIn
  <2> HIDE DEF q
  <2>4. fill \in FillRow /\ fill.side = "BUY" /\ fill.symbol = s /\ fill.quantity = q
    BY <2>1, CandleFacts DEF FillRow
  <2>5. BoughtIn(book.fills) \in Nat /\ BoughtIn(after.fills) = BoughtIn(book.fills) + q
    <3> HIDE DEF fill, after
    <3>1. /\ BoughtIn(book.fills) \in Nat
          /\ BoughtIn(Append(book.fills, fill)) =
               BoughtIn(book.fills) + (IF fill.side = "BUY" THEN fill.quantity ELSE 0)
      BY <2>2, <2>4, BoughtAppend
    <3> QED BY <2>1, <2>4, <3>1
  <2>6. /\ AtCost(book.positions) \in Int
        /\ AtCost(after.positions) = AtCost(book.positions)
                                     - (p.quantity * p.average - p.realized)
                                     + (row.quantity * row.average - row.realized)
    <3> HIDE DEF row, after
    <3> QED BY <2>1, <2>2, AtCostChanges
  <2> DEFINE r == row.average
             w == q * r
             spent == gross + c
  <2>7. /\ row.quantity = q /\ row.realized = p.realized
        /\ r \in Nat /\ 2 * spent <= 2 * w + q /\ 2 * w <= 2 * spent + q
    <3>1. p.average * p.quantity = 0 /\ p.quantity + q = q
      BY <2>1, <2>3
    <3>2. spent \in Nat /\ q \in Nat \ {0}
      <4> HIDE DEF gross, c
      <4> QED BY <1>3, <2>1
    <3>3. row = [quantity |-> q, average |-> RoundHalfEven(spent, q), realized |-> p.realized]
      <4>1. p.average * p.quantity + gross + CostOf(gross) = spent
        <5> HIDE DEF gross, p
        <5> QED BY <2>1, <3>1
      <4> HIDE DEF spent
      <4> QED BY <3>1, <4>1 DEF BoughtRow
    <3>4. Nearest(spent, q, RoundHalfEven(spent, q)) /\ RoundHalfEven(spent, q) \in Nat
      <4> HIDE DEF spent
      <4> QED BY <3>2, HalfEvenIsNearest
    <3> HIDE DEF row, spent
    <3> QED BY <3>3, <3>4 DEF Nearest
  <2>8. AtCost(after.positions) = AtCost(book.positions) + w /\ w \in Nat
    <3> HIDE DEF p
    <3>1. p.quantity * p.average = 0
      BY <2>3
    <3>2. w \in Nat /\ row.quantity * row.average = w
      <4> HIDE DEF row
      <4> QED BY <2>1, <2>7
    <3> HIDE DEF row, after, w
    <3>3. AtCost(after.positions) = AtCost(book.positions)
                                    - (0 - p.realized) + (w - p.realized)
      BY <2>6, <2>7, <3>1, <3>2
    <3> QED BY <2>3, <2>6, <3>2, <3>3
  <2>9. Adds(after)
    <3> DEFINE u == book.cash + AtCost(book.positions)
               v == after.cash + AtCost(after.positions)
               m == BoughtIn(book.fills)
               n == BoughtIn(after.fills)
    <3>1. 0 - m <= 2 * (u - InitialCapital) /\ 2 * (u - InitialCapital) <= m
      BY <1>1 DEF Adds
    <3>2. n = m + q /\ v = u - spent + w /\ u \in Int /\ m \in Nat /\ spent \in Nat
      <4> HIDE DEF after, gross, c, w
      <4> QED BY <2>1, <2>2, <2>5, <2>6, <2>8
    <3>3. InitialCapital \in Nat
      BY BacktestAssumption
    <3>4. 2 * spent <= 2 * w + q /\ 2 * w <= 2 * spent + q /\ w \in Nat /\ q \in Nat
      BY <2>1, <2>7, <2>8
    <3> HIDE DEF u, v, m, n, w, spent
    <3>5. 0 - n <= 2 * (v - InitialCapital) /\ 2 * (v - InitialCapital) <= n
      BY <3>1, <3>2, <3>3, <3>4
    <3> QED BY <3>5, Zenon DEF Adds, v, n
  <2>10. Known(after)
    <3> SUFFICES ASSUME NEW x \in Symbols, \A i \in 1..Len(after.fills) : after.fills[i].symbol # x
                 PROVE  after.positions[x].quantity = 0 /\ after.positions[x].realized = 0
      BY DEF Known
    <3>1. /\ Len(book.fills) \in Nat /\ Len(after.fills) = Len(book.fills) + 1
          /\ after.fills[Len(book.fills) + 1] = fill
          /\ \A i \in 1..Len(book.fills) : after.fills[i] = book.fills[i]
      <4> HIDE DEF fill, after
      <4> QED BY <2>1, <2>2, <2>4, AppendProperties, LenProperties
    <3> HIDE DEF fill, after, row
    <3>2. x # s
      BY <2>4, <3>1
    <3>3. \A i \in 1..Len(book.fills) : book.fills[i].symbol # x
      BY <3>1
    <3>4. after.positions[x] = book.positions[x]
      BY <2>1, <2>2, <3>2
    <3> QED BY <1>1, <3>3, <3>4 DEF Known
  <2>11. HeldIn(after.positions) \subseteq HeldIn(book.positions) \cup {s}
    <3> HIDE DEF row, after
    <3>1. \A x \in Symbols : x # s => after.positions[x] = book.positions[x]
      BY <2>1, <2>2
    <3> QED BY <3>1 DEF HeldIn
  <2> HIDE DEF after
  <2>12. Honest(after)
    BY <2>1, <2>9, <2>10 DEF Honest
  <2> QED BY <2>11, <2>12 DEF after
<1> QED BY <1>2, <1>3

-----------------------------------------------------------------------------
(* Rebalancing.                                                             *)

LEMMA InOrderFacts ==
  ASSUME NEW A \in SUBSET Symbols
  PROVE  /\ Len(InOrder(A)) \in Nat
         /\ \A i \in 1..Len(InOrder(A)) : InOrder(A)[i] \in A
         /\ \A i, j \in 1..Len(InOrder(A)) : InOrder(A)[i] = InOrder(A)[j] => i = j
<1> DEFINE n == Cardinality(A)
           below(x) == Cardinality({y \in A : y < x})
           f == InOrder(A)
<1>1. IsFiniteSet(A) /\ A \in SUBSET Int /\ n \in Nat
  <2>1. IsFiniteSet(Symbols) /\ Symbols \in SUBSET Int
    BY BacktestAssumption
  <2>2. IsFiniteSet(A) /\ A \in SUBSET Int
    BY <2>1, FS_Subset
  <2> QED BY <2>2, FS_CardinalityType
<1>2. \A i \in 1..n : \E x \in A : below(x) = i - 1
  <2> HIDE DEF n
  <2> QED BY <1>1, PlacesExist DEF n
<1>3. f = [i \in 1..n |-> CHOOSE x \in A : below(x) = i - 1]
  BY DEF InOrder
<1>4. \A i \in 1..n : f[i] \in A /\ below(f[i]) = i - 1
  <2> HIDE DEF n, below, f
  <2> QED BY <1>2, <1>3
<1>5. f \in Seq(A) /\ Len(f) = n
  <2> HIDE DEF n, below, f
  <2>1. f \in [1..n -> A]
    BY <1>3, <1>4
  <2>2. f \in Seq(A)
    BY <1>1, <2>1, SeqDef
  <2>3. DOMAIN f = 1..n /\ DOMAIN f = 1..Len(f) /\ Len(f) \in Nat
    BY <2>1, <2>2, LenProperties
  <2> QED BY <1>1, <2>2, <2>3
<1>6. ASSUME NEW i \in 1..n, NEW j \in 1..n, f[i] = f[j] PROVE i = j
  <2> HIDE DEF f, below
  <2>1. i - 1 = j - 1
    BY <1>4, <1>6
  <2> HIDE DEF n
  <2> QED BY <1>1, <2>1
<1> HIDE DEF n, f, below
<1> QED BY <1>1, <1>4, <1>5, <1>6 DEF f

(* The positions of all that leaves are sold, one after the other.          *)
Sales(f, book, list, d, opens) ==
  f = [i \in 0..Len(list) |-> IF i = 0 THEN book ELSE Sell(f[i - 1], list[i], d, opens)]

LEMMA SalesKeep ==
  ASSUME btCandles \in Candles, NEW d \in Days, NEW opens \in Quotes, NEW book, Honest(book),
         NEW list, Len(list) \in Nat, \A i \in 1..Len(list) : list[i] \in Symbols
  PROVE  Honest((CHOOSE f : Sales(f, book, list, d, opens))[Len(list)])
<1> DEFINE n == Len(list)
           f == CHOOSE g : Sales(g, book, list, d, opens)
<1>1. book \in Books
  BY DEF Honest
<1>2. Sales(f, book, list, d, opens)
  <2> DEFINE step == [x \in (1..n) \X Books |-> Sell(x[2], list[x[1]], d, opens)]
  <2>1. ASSUME NEW i \in 1..n, NEW b \in Books PROVE Sell(b, list[i], d, opens) \in Books
    BY SellRecord
  <2>2. step \in [(1..n) \X Books -> Books]
    BY <2>1
  <2>3. PICK g \in [0..n -> Books] : Recursion(g, n, book, step)
    <3> HIDE DEF n, step
    <3>1. n \in Nat
      BY DEF n
    <3> QED BY <1>1, <2>2, <3>1, RecursionExists
  <2>4. ASSUME NEW i \in 0..n, i # 0 PROVE step[<<i, g[i - 1]>>] = Sell(g[i - 1], list[i], d, opens)
    <3>1. i \in 1..n /\ i - 1 \in 0..n
      BY <2>4
    <3>2. g[i - 1] \in Books /\ <<i, g[i - 1]>> \in (1..n) \X Books
      BY <3>1
    <3> QED BY <3>2
  <2>5. g = [i \in 0..n |-> IF i = 0 THEN book ELSE step[<<i, g[i - 1]>>]]
    BY <2>3 DEF Recursion
  <2>6. g = [i \in 0..n |-> IF i = 0 THEN book ELSE Sell(g[i - 1], list[i], d, opens)]
    <3> HIDE DEF step
    <3> QED BY <2>4, <2>5
  <2>7. Sales(g, book, list, d, opens)
    BY <2>6 DEF Sales
  <2> QED BY <2>7
<1> HIDE DEF f
<1>3. \A i \in 0..n : f[i] = IF i = 0 THEN book ELSE Sell(f[i - 1], list[i], d, opens)
  BY <1>2 DEF Sales
<1> DEFINE B == {i \in Nat : i <= n => Honest(f[i])}
<1>4. 0 \in B
  BY <1>3
<1>5. ASSUME NEW i \in B PROVE i + 1 \in B
  <2> SUFFICES ASSUME i + 1 <= n PROVE Honest(f[i + 1])
    OBVIOUS
  <2>1. i \in Nat /\ Honest(f[i]) /\ i + 1 \in 1..n /\ i + 1 # 0 /\ (i + 1) - 1 = i
    OBVIOUS
  <2>2. f[i + 1] = Sell(f[i], list[i + 1], d, opens)
    BY <1>3, <2>1
  <2>3. list[i + 1] \in Symbols
    BY <2>1
  <2> QED BY <2>1, <2>2, <2>3, SellKeeps
<1>6. n \in B
  <2>1. B \in SUBSET Nat /\ n \in Nat
    OBVIOUS
  <2> HIDE DEF B, n
  <2> QED BY <1>4, <1>5, <2>1, ClosedIsNat
<1> QED BY <1>6 DEF f

(* Then the targets that are missing are bought while positions are free.   *)
Purchases(f, book, list, d, opens, equity, count) ==
  f = [i \in 0..Len(list) |->
         IF i = 0 THEN book
         ELSE IF Cardinality(HeldIn(f[i - 1].positions)) >= MaxOpen THEN f[i - 1]
         ELSE Buy(f[i - 1], list[i], d, opens, equity, count)]

(* The missing targets, each once, and how many targets share the equity. *)
Missed(list, book, count) ==
  /\ Len(list) \in Nat
  /\ \A i \in 1..Len(list) : list[i] \in Symbols \ HeldIn(book.positions)
  /\ \A i, j \in 1..Len(list) : list[i] = list[j] => i = j
  /\ Len(list) > 0 => count \in Nat \ {0}

LEMMA PurchasesKeep ==
  ASSUME btCandles \in Candles, NEW d \in Days, NEW opens \in Quotes, NEW book, Honest(book),
         NEW equity \in Nat, NEW list, NEW count, Missed(list, book, count)
  PROVE  Honest((CHOOSE f : Purchases(f, book, list, d, opens, equity, count))[Len(list)])
<1> DEFINE n == Len(list)
           f == CHOOSE g : Purchases(g, book, list, d, opens, equity, count)
           next(b, i) == IF Cardinality(HeldIn(b.positions)) >= MaxOpen THEN b
                         ELSE Buy(b, list[i], d, opens, equity, count)
           upTo(i) == {list[j] : j \in 1..i}
<1> USE DEF Missed
<1>1. book \in Books
  BY DEF Honest
<1>2. Purchases(f, book, list, d, opens, equity, count)
  <2> DEFINE step == [x \in (1..n) \X Books |-> next(x[2], x[1])]
  <2>1. ASSUME NEW i \in 1..n, NEW b \in Books PROVE next(b, i) \in Books
    <3>1. Buy(b, list[i], d, opens, equity, count) \in Books
      BY BuyType
    <3> QED BY <3>1
  <2> HIDE DEF next
  <2>2. step \in [(1..n) \X Books -> Books]
    BY <2>1
  <2>3. PICK g \in [0..n -> Books] : Recursion(g, n, book, step)
    <3> HIDE DEF n, step
    <3>1. n \in Nat
      BY DEF n
    <3> QED BY <1>1, <2>2, <3>1, RecursionExists
  <2>4. ASSUME NEW i \in 0..n, i # 0 PROVE step[<<i, g[i - 1]>>] = next(g[i - 1], i)
    <3>1. i \in 1..n /\ i - 1 \in 0..n
      BY <2>4
    <3>2. g[i - 1] \in Books /\ <<i, g[i - 1]>> \in (1..n) \X Books
      BY <3>1
    <3> QED BY <3>2
  <2>5. g = [i \in 0..n |-> IF i = 0 THEN book ELSE step[<<i, g[i - 1]>>]]
    BY <2>3 DEF Recursion
  <2>6. g = [i \in 0..n |-> IF i = 0 THEN book ELSE next(g[i - 1], i)]
    <3> HIDE DEF step
    <3> QED BY <2>4, <2>5
  <2>7. Purchases(g, book, list, d, opens, equity, count)
    BY <2>6 DEF Purchases, next
  <2> QED BY <2>7
<1> HIDE DEF f
<1>3. \A i \in 0..n : f[i] = IF i = 0 THEN book ELSE next(f[i - 1], i)
  BY <1>2 DEF Purchases
<1> DEFINE B == {i \in Nat : i <= n => /\ Honest(f[i])
                                      /\ HeldIn(f[i].positions) \subseteq HeldIn(book.positions) \cup upTo(i)}
<1> HIDE DEF next
<1>4. 0 \in B
  BY <1>3
<1>5. ASSUME NEW i \in B PROVE i + 1 \in B
  <2> SUFFICES ASSUME i + 1 <= n
               PROVE  /\ Honest(f[i + 1])
                      /\ HeldIn(f[i + 1].positions) \subseteq HeldIn(book.positions) \cup upTo(i + 1)
    OBVIOUS
  <2> DEFINE s == list[i + 1]
  <2>1. i \in Nat /\ i + 1 \in 1..n /\ i + 1 # 0 /\ (i + 1) - 1 = i
    OBVIOUS
  <2>2. Honest(f[i]) /\ HeldIn(f[i].positions) \subseteq HeldIn(book.positions) \cup upTo(i)
    BY <2>1
  <2>3. f[i + 1] = next(f[i], i + 1)
    BY <1>3, <2>1
  <2>4. s \in Symbols \ HeldIn(book.positions) /\ upTo(i + 1) = upTo(i) \cup {s}
    BY <2>1
  <2>5. s \notin upTo(i)
    BY <2>1
  <2>6. count \in Nat \ {0}
    BY <2>1
  <2> HIDE DEF upTo, n
  <2>7. CASE Cardinality(HeldIn(f[i].positions)) >= MaxOpen
    BY <2>2, <2>3, <2>4, <2>7 DEF next
  <2>8. CASE ~(Cardinality(HeldIn(f[i].positions)) >= MaxOpen)
    <3>1. f[i + 1] = Buy(f[i], s, d, opens, equity, count)
      BY <2>3, <2>8 DEF next
    <3>2. s \in Symbols /\ s \notin HeldIn(f[i].positions)
      BY <2>2, <2>4, <2>5
    <3> HIDE DEF s
    <3>3. /\ Honest(Buy(f[i], s, d, opens, equity, count))
          /\ HeldIn(Buy(f[i], s, d, opens, equity, count).positions) \subseteq HeldIn(f[i].positions) \cup {s}
      BY <2>2, <2>6, <3>2, BuyKeeps
    <3> QED BY <2>2, <2>4, <3>1, <3>3
  <2> QED BY <2>7, <2>8
<1>6. n \in B
  <2>1. B \in SUBSET Nat /\ n \in Nat
    OBVIOUS
  <2> HIDE DEF B, n
  <2> QED BY <1>4, <1>5, <2>1, ClosedIsNat
<1> QED BY <1>6 DEF f

LEMMA ValueIsNat ==
  ASSUME btCandles \in Candles, NEW positions \in [Symbols -> PositionRow], NEW d \in Days
  PROVE  MarketValue(btCandles, positions, d) \in Nat
<1> DEFINE f == [s \in Symbols |-> positions[s].quantity * btCandles[s][d].close]
<1>1. ASSUME NEW s \in Symbols PROVE f[s] \in Nat
  <2>1. positions[s].quantity \in Nat /\ btCandles[s][d].close \in Nat
    BY CandleFacts DEF PositionRow
  <2> QED BY <2>1
<1>2. IsFiniteSet(Symbols)
  BY BacktestAssumption
<1>3. SumOver(f, Symbols) \in Nat
  <2> HIDE DEF f
  <2> QED BY <1>1, <1>2, SumNatural
<1> QED BY <1>3 DEF MarketValue

LEMMA RebalanceKeeps ==
  ASSUME btCandles \in Candles, NEW d \in Days, NEW opens \in Quotes, Honest(Book),
         NEW targets \in SUBSET Symbols, NEW equity \in Nat
  PROVE  Honest(Rebalance(targets, d, opens, equity))
<1> DEFINE outgoing == InOrder(HeldIn(btPositions) \ targets)
           sold == CHOOSE f : Sales(f, Book, outgoing, d, opens)
           flat == sold[Len(outgoing)]
           incoming == InOrder(targets \ HeldIn(flat.positions))
           count == Cardinality(targets)
           bought == CHOOSE f : Purchases(f, flat, incoming, d, opens, equity, count)
<1>1. Rebalance(targets, d, opens, equity) = bought[Len(incoming)]
  BY DEF Rebalance, Sales, Purchases
<1>3. Honest(flat)
  <2> DEFINE list == InOrder(HeldIn(btPositions) \ targets)
             leaving == HeldIn(btPositions) \ targets
  <2>1. leaving \in SUBSET Symbols
    BY DEF HeldIn
  <2>2. Len(list) \in Nat /\ \A i \in 1..Len(list) : list[i] \in Symbols
    <3>1. Len(InOrder(leaving)) \in Nat /\ \A i \in 1..Len(InOrder(leaving)) : InOrder(leaving)[i] \in leaving
      <4> HIDE DEF leaving
      <4> QED BY <2>1, InOrderFacts
    <3> QED BY <2>1, <3>1
  <2> HIDE DEF list
  <2>3. Honest((CHOOSE f : Sales(f, Book, list, d, opens))[Len(list)])
    BY <2>2, SalesKeep
  <2> QED BY <2>3 DEF list
<1> HIDE DEF flat
<1> DEFINE missing == targets \ HeldIn(flat.positions)
<1>4. /\ Len(incoming) \in Nat
      /\ \A i \in 1..Len(incoming) : incoming[i] \in missing
      /\ \A i, j \in 1..Len(incoming) : incoming[i] = incoming[j] => i = j
  <2>1. missing \in SUBSET Symbols
    OBVIOUS
  <2> HIDE DEF missing
  <2>2. /\ Len(InOrder(missing)) \in Nat
        /\ \A i \in 1..Len(InOrder(missing)) : InOrder(missing)[i] \in missing
        /\ \A i, j \in 1..Len(InOrder(missing)) : InOrder(missing)[i] = InOrder(missing)[j] => i = j
    BY <2>1, InOrderFacts
  <2> QED BY <2>2 DEF missing
<1>5. \A i \in 1..Len(incoming) : incoming[i] \in Symbols \ HeldIn(flat.positions)
  <2> HIDE DEF incoming
  <2> QED BY <1>4
<1>6. Len(incoming) > 0 => count \in Nat \ {0}
  <2> SUFFICES ASSUME Len(incoming) > 0 PROVE count \in Nat \ {0}
    OBVIOUS
  <2>1. IsFiniteSet(targets)
    <3>1. IsFiniteSet(Symbols)
      BY BacktestAssumption
    <3> QED BY <3>1, FS_Subset
  <2>2. incoming[1] \in targets
    <3> HIDE DEF incoming
    <3>1. 1 \in 1..Len(incoming)
      BY <1>4
    <3> QED BY <1>4, <3>1
  <2> HIDE DEF incoming
  <2> QED BY <2>1, <2>2, FS_CardinalityType, FS_EmptySet
<1> HIDE DEF incoming, count
<1>7. Missed(incoming, flat, count)
  BY <1>4, <1>5, <1>6 DEF Missed
<1>8. Honest((CHOOSE f : Purchases(f, flat, incoming, d, opens, equity, count))[Len(incoming)])
  BY <1>3, <1>7, PurchasesKeep
<1> QED BY <1>1, <1>8

-----------------------------------------------------------------------------
(* The states of a backtest.  Once it began the books are honest, and what  *)
(* was entered last is the equity of the day before the one to be traded.   *)
BtInv ==
  /\ btStage \in {"idle", "running", "reported", "too_short", "type_error"}
  /\ btStage = "idle" => /\ btPositions = [s \in Symbols |-> Flat]
                         /\ btFills = <<>> /\ btGraphTrades = {} /\ btCash = 0
  /\ btStage # "idle" => /\ btCandles \in Candles /\ Honest(Book)
                         /\ btEquity \in Seq(Nat) /\ Len(btEquity) >= 1
  /\ btStage \in {"running", "reported"} =>
       /\ btDay \in Nat /\ FirstTradeDay <= btDay /\ FirstTradeDay \in Days /\ btDay - 1 \in Days
       /\ btDay > FirstTradeDay =>
            btEquity[Len(btEquity)] = btCash + MarketValue(btCandles, btPositions, btDay - 1)
  /\ ReportAddsUp

LEMMA FirstDay == FirstTradeDay \in Nat /\ FirstTradeDay >= 2
BY BacktestAssumption DEF FirstTradeDay

LEMMA DaysAre ==
  ASSUME btCandles \in Candles
  PROVE  \E n \in Nat : Days = 1..n
BY CandleFacts, BacktestAssumption

LEMMA BtInvInit == BacktestInit => BtInv
BY DEF BacktestInit, BtInv, ReportAddsUp

(* Without a trade the capital is all there is. *)
LEMMA NewBookIsHonest ==
  ASSUME NEW book,
         book = [cash |-> InitialCapital, positions |-> [s \in Symbols |-> Flat],
                 fills |-> <<>>, graphTrades |-> {}]
  PROVE  Honest(book)
<1>1. /\ InitialCapital \in Nat /\ IsFiniteSet(Symbols)
  BY BacktestAssumption
<1>2. Flat \in PositionRow
  BY DEF Flat, PositionRow
<1>3. book \in Books
  <2>1. <<>> \in Seq(FillRow)
    BY EmptySeq
  <2> QED BY <1>1, <1>2, <2>1 DEF Books
<1>4. AtCost(book.positions) = 0
  <2> DEFINE f == [s \in Symbols |-> book.positions[s].quantity * book.positions[s].average
                                     - book.positions[s].realized]
  <2>1. ASSUME NEW s \in Symbols PROVE f[s] = 0
    BY DEF Flat
  <2>2. SumOver(f, Symbols) = 0
    <3> HIDE DEF f
    <3> QED BY <1>1, <2>1, SumZero
  <2> QED BY <2>2 DEF AtCost
<1>5. BoughtIn(book.fills) = 0
  <2> DEFINE f == [i \in BuysOf(book.fills) |-> book.fills[i].quantity]
  <2>1. BuysOf(book.fills) = {}
    BY EmptySeq DEF BuysOf
  <2>2. SumOver(f, {}) = 0
    <3> HIDE DEF f
    <3>1. IsFiniteSet({})
      BY FS_EmptySet
    <3> QED BY <3>1, SumZero
  <2> QED BY <2>1, <2>2 DEF BoughtIn
<1>6. Adds(book)
  <2>1. book.cash = InitialCapital
    OBVIOUS
  <2> QED BY <1>1, <1>4, <1>5, <2>1 DEF Adds
<1>7. Known(book)
  BY DEF Known, Flat
<1> QED BY <1>3, <1>6, <1>7 DEF Honest

LEMMA StartBacktestKeeps ==
  ASSUME BtInv, NEW strategy, NEW table \in Candles, NEW signals,
         StartBacktest(strategy, table, signals)
  PROVE  BtInv'
<1>1. /\ btStage = "idle" /\ btStage' \in {"too_short", "running"}
      /\ btCandles' = table /\ btDay' = FirstTradeDay /\ btCash' = InitialCapital
      /\ btEquity' = <<InitialCapital>> /\ btPositions' = [s \in Symbols |-> Flat]
      /\ btFills' = <<>> /\ btGraphTrades' = {}
  BY DEF StartBacktest, BtInv
<1>2. Honest(Book')
  <2> DEFINE book == Book'
  <2>1. book = [cash |-> InitialCapital, positions |-> [s \in Symbols |-> Flat],
                fills |-> <<>>, graphTrades |-> {}]
    BY <1>1 DEF Book
  <2> HIDE DEF book
  <2>2. Honest(book)
    BY <2>1, NewBookIsHonest
  <2> QED BY <2>2 DEF book
<1>3. btEquity' \in Seq(Nat) /\ Len(btEquity') = 1
  <2>1. InitialCapital \in Nat
    BY BacktestAssumption
  <2> QED BY <1>1, <2>1
<1>4. btStage' = "running" => FirstTradeDay \in Days' /\ FirstTradeDay - 1 \in Days'
  <2> DEFINE s == CHOOSE s \in Symbols : TRUE
             n == Len(table[s])
  <2> SUFFICES ASSUME btStage' = "running" PROVE FirstTradeDay \in Days' /\ FirstTradeDay - 1 \in Days'
    OBVIOUS
  <2>1. ~(n <= Lookback + 1) /\ Days' = 1..n
    BY <1>1 DEF StartBacktest, Days
  <2>2. s \in Symbols /\ table \in [Symbols -> Seq([open : Nat \ {0}, close : Nat \ {0}])]
        /\ Lookback \in Nat
    BY BacktestAssumption
  <2>3. n \in Nat
    BY <2>2, LenProperties
  <2> HIDE DEF n
  <2> QED BY <2>1, <2>2, <2>3 DEF FirstTradeDay
<1>5. btStage' # "idle" /\ btStage' # "reported" /\ FirstTradeDay' = FirstTradeDay
  BY <1>1 DEF FirstTradeDay
<1>6. ReportAddsUp'
  BY <1>5 DEF ReportAddsUp
<1> QED BY <1>1, <1>2, <1>3, <1>4, <1>5, <1>6, FirstDay DEF BtInv

LEMMA FailBacktestKeeps == BtInv /\ FailBacktest => BtInv'
BY DEF BtInv, FailBacktest, Book, Days, MarketValue, ReportAddsUp, FirstTradeDay

LEMMA TargetsAreSymbols == \A table, d : DayTargets(table, d) \in SUBSET Symbols
BY DEF DayTargets, Targets, RankedSymbols

LEMMA TradesKeep ==
  ASSUME btCandles \in Candles, NEW d \in Days, Honest(Book)
  PROVE  Honest(DayTrades(btCandles, d))
<1> DEFINE targets == DayTargets(btCandles, d)
           opens == Opens(btCandles, d)
           equity == btCash + MarketValue(btCandles, btPositions, d)
<1>1. targets \in SUBSET Symbols
  BY TargetsAreSymbols
<1>2. opens \in Quotes
  <2>1. \A s \in Symbols : btCandles[s][d].open \in Nat \ {0}
    BY CandleFacts
  <2> QED BY <2>1 DEF Opens, Quotes
<1>3. equity \in Nat
  <2>1. btCash \in Nat /\ btPositions \in [Symbols -> PositionRow]
    BY DEF Honest, Books, Book
  <2>2. MarketValue(btCandles, btPositions, d) \in Nat
    BY <2>1, ValueIsNat
  <2> QED BY <2>1, <2>2
<1> HIDE DEF targets, opens, equity
<1>4. Honest(Rebalance(targets, d, opens, equity))
  BY <1>1, <1>2, <1>3, RebalanceKeeps
<1> QED BY <1>4 DEF DayTrades, targets, opens, equity

LEMMA TradeDayKeeps ==
  ASSUME BtInv, TradeDay
  PROVE  BtInv'
<1> DEFINE book == IF IsRebalanceDay(btDay)
                   THEN DayTrades(btCandles, btDay) ELSE Book
<1>1. /\ btStage = "running" /\ btDay \in Days /\ btStage' = "running"
      /\ btCandles' = btCandles /\ btDay' = btDay + 1
      /\ btCash' = book.cash /\ btPositions' = book.positions
      /\ btFills' = book.fills /\ btGraphTrades' = book.graphTrades
      /\ btEquity' = Append(btEquity, book.cash + MarketValue(btCandles, book.positions, btDay))
  BY DEF TradeDay
<1>2. /\ btCandles \in Candles /\ Honest(Book) /\ btEquity \in Seq(Nat)
      /\ btDay \in Nat /\ FirstTradeDay <= btDay /\ FirstTradeDay \in Days
  BY <1>1 DEF BtInv
<1>3. Honest(book)
  <2>1. Honest(DayTrades(btCandles, btDay))
    BY <1>1, <1>2, TradesKeep
  <2> QED BY <1>2, <2>1
<1> HIDE DEF book
<1>4. Book' = book
  <2>1. book \in Books
    BY <1>3 DEF Honest
  <2>2. book = [cash |-> book.cash, positions |-> book.positions, fills |-> book.fills,
                graphTrades |-> book.graphTrades]
    BY <2>1 DEF Books
  <2>3. Book' = [cash |-> btCash', positions |-> btPositions', fills |-> btFills',
                 graphTrades |-> btGraphTrades']
    BY DEF Book
  <2> QED BY <1>1, <2>2, <2>3
<1> DEFINE value == book.cash + MarketValue(btCandles, book.positions, btDay)
<1>5. value \in Nat
  <2>1. book.cash \in Nat /\ book.positions \in [Symbols -> PositionRow]
    BY <1>3 DEF Honest, Books
  <2>2. MarketValue(btCandles, book.positions, btDay) \in Nat
    BY <1>1, <1>2, <2>1, ValueIsNat
  <2> QED BY <2>1, <2>2
<1>6. value = btCash' + MarketValue(btCandles, btPositions', btDay)
  BY <1>1
<1>7. MarketValue(btCandles, btPositions', btDay) = MarketValue(btCandles, btPositions, btDay - 1)'
  <2>1. btDay' - 1 = btDay
    BY <1>1, <1>2
  <2>2. [s \in Symbols |-> btPositions'[s].quantity * btCandles[s][btDay].close]
          = [s \in Symbols |-> btPositions'[s].quantity * btCandles'[s][btDay' - 1].close]
    BY <1>1, <2>1, Zenon
  <2> QED BY <2>2, Zenon DEF MarketValue
<1>8. btEquity' \in Seq(Nat) /\ Len(btEquity') >= 1 /\ btEquity'[Len(btEquity')] = value
  <2>1. Len(btEquity) \in Nat /\ btEquity' = Append(btEquity, value)
    BY <1>1, <1>2, LenProperties
  <2> HIDE DEF value
  <2> QED BY <1>2, <1>5, <2>1, AppendProperties
<1>9. Days' = Days /\ FirstTradeDay' = FirstTradeDay
  BY <1>1 DEF Days, FirstTradeDay
<1>10. btDay' \in Nat /\ FirstTradeDay <= btDay' /\ btDay' - 1 = btDay
  BY <1>1, <1>2, FirstDay
<1>11. ReportAddsUp'
  BY <1>1 DEF ReportAddsUp
<1> HIDE DEF value
<1>12. Honest(Book')
  BY <1>3, <1>4
<1>13. btEquity'[Len(btEquity')] = btCash' + MarketValue(btCandles, btPositions, btDay - 1)'
  BY <1>6, <1>7, <1>8
<1>14. btDay' - 1 \in Days' /\ FirstTradeDay' \in Days' /\ FirstTradeDay' <= btDay'
  BY <1>1, <1>2, <1>9, <1>10
<1> QED BY <1>1, <1>2, <1>8, <1>10, <1>11, <1>12, <1>13, <1>14 DEF BtInv

(* What the stored positions realized and would realize, and what they      *)
(* cost, is what they are worth.                                            *)
Result(positions, fs, d) ==
  LET models == {[symbol |-> s, realized |-> positions[s].realized,
                  unrealized |-> positions[s].quantity
                                 * (btCandles[s][d].close - positions[s].average)] :
                   s \in {fs[i].symbol : i \in 1..Len(fs)}}
  IN  SumOver([p \in models |-> p.realized + p.unrealized], models)

LEMMA ResultIsGain ==
  ASSUME btCandles \in Candles, NEW book, Honest(book), NEW d \in Days
  PROVE  /\ Result(book.positions, book.fills, d) \in Int
         /\ AtCost(book.positions) \in Int
         /\ MarketValue(btCandles, book.positions, d)
              = Result(book.positions, book.fills, d) + AtCost(book.positions)
<1> DEFINE ps == book.positions
           fs == book.fills
           traded == {fs[i].symbol : i \in 1..Len(fs)}
           name == [s \in traded |->
                      [symbol |-> s, realized |-> ps[s].realized,
                       unrealized |-> ps[s].quantity * (btCandles[s][d].close - ps[s].average)]]
           models == {name[s] : s \in traded}
           f == [p \in models |-> p.realized + p.unrealized]
           gain == [s \in Symbols |-> ps[s].realized
                                      + ps[s].quantity * (btCandles[s][d].close - ps[s].average)]
           cost == [s \in Symbols |-> ps[s].quantity * ps[s].average - ps[s].realized]
           worth == [s \in Symbols |-> ps[s].quantity * btCandles[s][d].close]
<1>1. ps \in [Symbols -> PositionRow] /\ fs \in Seq(FillRow) /\ Known(book)
  BY DEF Honest, Books
<1>2. IsFiniteSet(Symbols)
  BY BacktestAssumption
<1>3. traded \in SUBSET Symbols
  <2>1. \A i \in 1..Len(fs) : fs[i] \in FillRow
    <3> HIDE DEF fs
    <3> QED BY <1>1, ElementOfSeq, LenProperties
  <2>2. \A i \in 1..Len(fs) : fs[i].symbol \in Symbols
    BY <2>1 DEF FillRow
  <2> QED BY <2>2
<1>4. IsFiniteSet(traded)
  BY <1>2, <1>3, FS_Subset
<1>5. ASSUME NEW s \in Symbols
      PROVE  /\ gain[s] \in Int /\ cost[s] \in Int /\ worth[s] = gain[s] + cost[s]
             /\ s \notin traded => gain[s] = 0
  <2>1. /\ ps[s].quantity \in Nat /\ ps[s].average \in Nat /\ ps[s].realized \in Int
        /\ btCandles[s][d].close \in Nat
    BY <1>1, CandleFacts DEF PositionRow
  <2> DEFINE q == ps[s].quantity
             a == ps[s].average
             r == ps[s].realized
             c == btCandles[s][d].close
  <2>2. gain[s] = r + q * (c - a) /\ cost[s] = q * a - r /\ worth[s] = q * c
    OBVIOUS
  <2>3. q * (c - a) = q * c - q * a /\ q * c \in Nat /\ q * a \in Nat
    <3> HIDE DEF q, a, c
    <3> QED BY <2>1 DEF q, a, c
  <2>4. s \notin traded => q = 0 /\ r = 0
    BY <1>1 DEF Known
  <2> HIDE DEF gain, cost, worth, traded
  <2>5. gain[s] = r + (q * c - q * a) /\ r \in Int
    BY <2>1, <2>2, <2>3
  <2>6. gain[s] \in Int /\ cost[s] \in Int /\ worth[s] = gain[s] + cost[s]
    <3> DEFINE x == q * c
               y == q * a
    <3>1. /\ gain[s] = r + (x - y) /\ cost[s] = y - r /\ worth[s] = x
          /\ x \in Nat /\ y \in Nat /\ r \in Int
      BY <2>2, <2>3, <2>5
    <3> HIDE DEF x, y, q, a, r, c
    <3> QED BY <3>1
  <2>7. s \notin traded => gain[s] = 0
    <3> SUFFICES ASSUME s \notin traded PROVE gain[s] = 0
      OBVIOUS
    <3>1. q = 0 /\ r = 0 /\ c \in Nat /\ a \in Nat
      BY <2>1, <2>4
    <3> HIDE DEF q, a, r, c
    <3> QED BY <2>2, <3>1
  <2> QED BY <2>6, <2>7
<1>6. Result(ps, fs, d) = SumOver(f, models)
  <2>1. models = {[symbol |-> s, realized |-> ps[s].realized,
                   unrealized |-> ps[s].quantity * (btCandles[s][d].close - ps[s].average)] :
                    s \in traded}
    OBVIOUS
  <2> QED BY <2>1, Zenon DEF Result
<1>7. SumOver(f, models) = SumOver([s \in traded |-> f[name[s]]], traded)
  <2>1. \A x, y \in traded : name[x] = name[y] => x = y
    <3>1. \A x \in traded : name[x].symbol = x
      OBVIOUS
    <3> HIDE DEF name
    <3> QED BY <3>1
  <2>2. \A s \in traded : f[name[s]] = gain[s]
    <3>1. \A s \in traded : name[s].realized + name[s].unrealized = gain[s]
      BY <1>3
    <3>2. \A s \in traded : name[s] \in models
      OBVIOUS
    <3> HIDE DEF name, gain, models, traded
    <3> QED BY <3>1, <3>2
  <2>3. \A s \in traded : f[name[s]] \in Int
    BY <1>3, <1>5, <2>2
  <2> HIDE DEF f, name, traded
  <2> QED BY <1>4, <2>1, <2>3, SumRenamed
<1>8. \A s \in traded : f[name[s]] = gain[s]
  <2>1. \A s \in traded : name[s].realized + name[s].unrealized = gain[s]
    BY <1>3
  <2>2. \A s \in traded : name[s] \in models
    OBVIOUS
  <2> HIDE DEF name, gain, models, traded
  <2> QED BY <2>1, <2>2
<1>9. SumOver([s \in traded |-> f[name[s]]], traded) = SumOver(gain, traded)
  <2> DEFINE h == [s \in traded |-> f[name[s]]]
  <2>1. \A s \in traded : h[s] = gain[s] /\ h[s] \in Int
    BY <1>3, <1>5, <1>8
  <2> HIDE DEF h, gain, traded
  <2>2. SumOver(h, traded) = SumOver(gain, traded)
    BY <1>4, <2>1, SumAgrees
  <2> QED BY <2>2 DEF h
<1>10. SumOver(gain, traded) = SumOver(gain, Symbols)
  <2> DEFINE masked == [s \in Symbols |-> IF s \in traded THEN gain[s] ELSE 0]
  <2>1. \A s \in Symbols : masked[s] = gain[s] /\ masked[s] \in Int
    <3> HIDE DEF gain, traded
    <3> QED BY <1>5
  <2>2. SumOver(gain, traded) = SumOver(masked, Symbols)
    <3>1. \A s \in traded : gain[s] \in Int
      BY <1>3, <1>5
    <3> HIDE DEF gain, traded
    <3> QED BY <1>2, <1>3, <3>1, MaskedSum
  <2> HIDE DEF masked, gain, traded
  <2>3. SumOver(masked, Symbols) = SumOver(gain, Symbols)
    BY <1>2, <2>1, SumAgrees
  <2> QED BY <2>2, <2>3
<1>11. /\ SumOver(gain, Symbols) \in Int /\ SumOver(cost, Symbols) \in Int
       /\ SumOver(worth, Symbols) = SumOver(gain, Symbols) + SumOver(cost, Symbols)
  <2> HIDE DEF gain, cost, worth, traded
  <2>1. \A s \in Symbols : gain[s] \in Int /\ cost[s] \in Int /\ worth[s] = gain[s] + cost[s]
    BY <1>5
  <2>2. SumOver(gain, Symbols) \in Int /\ SumOver(cost, Symbols) \in Int
    BY <1>2, <2>1, SumFacts
  <2> QED BY <1>2, <2>1, <2>2, SumAdds
<1>12. AtCost(ps) = SumOver(cost, Symbols) /\ MarketValue(btCandles, ps, d) = SumOver(worth, Symbols)
  BY DEF AtCost, MarketValue
<1>13. Result(ps, fs, d) = SumOver(gain, Symbols)
  <2> HIDE DEF f, name, traded, models, gain
  <2> QED BY <1>6, <1>7, <1>9, <1>10
<1> HIDE DEF gain, cost, worth
<1> QED BY <1>11, <1>12, <1>13

(* On its first day a backtest is at its peak. *)
LEMMA FirstIsNoLoss ==
  ASSUME btEquity \in Seq(Nat), Len(btEquity) >= 1
  PROVE  MaxDrawdown = Min({Drawdown(btEquity[i], PeakUpTo(i)) : i \in 2..Len(btEquity)} \cup {0})
<1> DEFINE v == btEquity[1]
           drop(i) == Drawdown(btEquity[i], PeakUpTo(i))
<1>1. v \in Nat /\ Len(btEquity) \in Nat
  BY LenProperties, ElementOfSeq
<1>2. PeakUpTo(1) = v
  <2>1. {btEquity[j] : j \in 1..1} = {v}
    OBVIOUS
  <2>2. \A x \in {v} : (\A y \in {v} : x >= y) <=> x = v
    BY <1>1
  <2>3. Max({v}) = v
    BY <1>1, <2>2 DEF Max
  <2> QED BY <2>1, <2>3 DEF PeakUpTo
<1>3. drop(1) = 0
  <2>1. v > 0 => RoundSigned(10000 * (v - v), v) = 0
    <3> SUFFICES ASSUME v > 0 PROVE RoundSigned(10000 * (v - v), v) = 0
      OBVIOUS
    <3>1. 10000 * (v - v) = 0
      BY <1>1
    <3> HIDE DEF v
    <3>2. 0 \div v = 0 /\ 0 % v = 0
      BY <1>1
    <3>3. RoundHalfEven(0, v) = 0
      BY <1>1, <3>2 DEF RoundHalfEven
    <3> QED BY <3>1, <3>3 DEF RoundSigned
  <2> QED BY <1>2, <2>1 DEF Drawdown
<1>4. 1..Len(btEquity) = {1} \cup 2..Len(btEquity)
  BY <1>1
<1> HIDE DEF drop
<1>5. {drop(i) : i \in 1..Len(btEquity)} = {drop(i) : i \in 2..Len(btEquity)} \cup {0}
  BY <1>3, <1>4
<1> QED BY <1>5 DEF MaxDrawdown, drop

LEMMA ReportKeeps ==
  ASSUME BtInv, Report
  PROVE  BtInv'
<1>1. /\ btStage = "running" /\ btDay \notin Days /\ btStage' = "reported"
      /\ btReport'.final = btEquity[Len(btEquity)] /\ btReport'.drawdown = MaxDrawdown
      /\ btReport'.positions = PositionModels
      /\ btReport'.pointDrawdowns = {Drawdown(btEquity[i], PeakUpTo(i)) : i \in 2..Len(btEquity)}
      /\ UNCHANGED <<btCandles, btDay, btCash, btPositions, btFills, btGraphTrades, btEquity>>
  BY DEF Report
<1>2. /\ btCandles \in Candles /\ Honest(Book) /\ btEquity \in Seq(Nat) /\ Len(btEquity) >= 1
      /\ btDay \in Nat /\ FirstTradeDay <= btDay /\ FirstTradeDay \in Days /\ btDay - 1 \in Days
      /\ btDay > FirstTradeDay =>
           btEquity[Len(btEquity)] = btCash + MarketValue(btCandles, btPositions, btDay - 1)
  BY <1>1 DEF BtInv
<1>3. btEquity[Len(btEquity)] = btCash + MarketValue(btCandles, btPositions, btDay - 1)
  BY <1>1, <1>2, FirstDay
<1>4. Book.cash = btCash /\ Book.positions = btPositions /\ Book.fills = btFills
  BY DEF Book
<1> DEFINE d == btDay - 1
           result == Result(btPositions, btFills, d)
           cost == AtCost(btPositions)
           apart == (btCash + cost) - InitialCapital
           bought == BoughtIn(btFills)
<1>5. /\ result \in Int /\ cost \in Int /\ MarketValue(btCandles, btPositions, d) = result + cost
  <2>1. d \in Days
    BY <1>2
  <2> HIDE DEF d
  <2>2. /\ Result(Book.positions, Book.fills, d) \in Int /\ AtCost(Book.positions) \in Int
        /\ MarketValue(btCandles, Book.positions, d)
             = Result(Book.positions, Book.fills, d) + AtCost(Book.positions)
    BY <1>2, <2>1, ResultIsGain
  <2> QED BY <1>4, <2>2
<1>6. 0 - bought <= 2 * apart /\ 2 * apart <= bought /\ btCash \in Nat /\ InitialCapital \in Nat
  BY <1>2, <1>4, BacktestAssumption DEF Honest, Adds, Books
<1>7. (btReport'.final - InitialCapital) - result = apart
  <2>1. btReport'.final = btCash + (result + cost)
    BY <1>1, <1>3, <1>5
  <2> HIDE DEF result, cost
  <2> QED BY <1>5, <1>6, <2>1
<1>8. SumOver([p \in btReport'.positions |-> p.realized + p.unrealized], btReport'.positions) = result
  <2>1. SumOver([p \in PositionModels |-> p.realized + p.unrealized], PositionModels) = result
    BY Zenon DEF Result, PositionModels
  <2> QED BY <1>1, <2>1
<1>9. SumOver([i \in {j \in 1..Len(btFills') : btFills'[j].side = "BUY"} |-> btFills'[i].quantity],
              {j \in 1..Len(btFills') : btFills'[j].side = "BUY"}) = bought
  BY <1>1, Zenon DEF BoughtIn, BuysOf
<1>10. btReport'.drawdown = Min(btReport'.pointDrawdowns \cup {0})
  BY <1>1, <1>2, FirstIsNoLoss
<1>11. ReportAddsUp'
  <2> HIDE DEF result, apart, bought
  <2>1. 0 - bought <= 2 * apart /\ 2 * apart <= bought
    BY <1>6 DEF apart, bought
  <2> QED BY <1>7, <1>8, <1>9, <1>10, <2>1 DEF ReportAddsUp
<1>12. Honest(Book')
  BY <1>1, <1>2 DEF Book
<1>13. Days' = Days /\ FirstTradeDay' = FirstTradeDay
       /\ MarketValue(btCandles, btPositions, btDay - 1)' = MarketValue(btCandles, btPositions, btDay - 1)
  BY <1>1 DEF Days, FirstTradeDay, MarketValue
<1> QED BY <1>1, <1>2, <1>3, <1>11, <1>12, <1>13 DEF BtInv

LEMMA BtInvStep == BtInv /\ [BacktestNext]_backtestVars => BtInv'
<1> SUFFICES ASSUME BtInv, [BacktestNext]_backtestVars PROVE BtInv'
  OBVIOUS
<1>1. CASE UNCHANGED backtestVars
  <2>1. Book' = Book /\ Days' = Days /\ FirstTradeDay' = FirstTradeDay
        /\ MarketValue(btCandles, btPositions, btDay - 1)' = MarketValue(btCandles, btPositions, btDay - 1)
        /\ ReportAddsUp' = ReportAddsUp
    BY <1>1 DEF backtestVars, Book, Days, FirstTradeDay, MarketValue, ReportAddsUp
  <2> QED BY <1>1, <2>1 DEF backtestVars, BtInv
<1>2. CASE BacktestStep
  BY <1>2, TradeDayKeeps, FailBacktestKeeps, ReportKeeps DEF BacktestStep
<1>3. CASE btStage = "idle" /\ \E strategy \in StrategyTypes, table \in Candles,
                                  signals \in SignalTables :
                                 StartBacktest(strategy, table, signals)
  BY <1>3, StartBacktestKeeps
<1> QED BY <1>1, <1>2, <1>3 DEF BacktestNext

(* The scores of a day rest on closes up to its n-th. *)
SameUpTo(f, g, n) == \A i \in 1..n : f[i] = g[i] /\ f[i] \in Int

LEMMA ScoresIgnoreTheRest ==
  ASSUME NEW f, NEW g, NEW n \in Nat, NEW strategy, NEW signal,
         SameUpTo(f, g, n)
  PROVE  /\ SymbolScore(strategy, f, n, signal) = SymbolScore(strategy, g, n, signal)
         /\ ReturnOver(f, n) = ReturnOver(g, n)
<1>1. /\ SlowWindow \in Nat /\ FastWindow \in 1..(SlowWindow - 1) /\ ReturnWindow \in Nat
  BY WindowsAssumption
<1> USE DEF SameUpTo
<1>2. ASSUME NEW w \in Nat, w <= n PROVE SumOfLast(f, n, w) = SumOfLast(g, n, w)
  <2> DEFINE S == (n - w + 1)..n
  <2>1. IsFiniteSet(S)
    <3>1. n - w + 1 \in Int
      BY <1>2
    <3> QED BY <3>1, FS_Interval
  <2>2. \A i \in S : f[i] = g[i] /\ f[i] \in Int
    BY <1>2
  <2> HIDE DEF S
  <2>3. SumOver(f, S) = SumOver(g, S)
    BY <2>1, <2>2, SumAgrees
  <2> QED BY <2>3 DEF SumOfLast, S
<1>3. SmaSpread(f, n) = SmaSpread(g, n)
  <2>1. CASE n < SlowWindow
    BY <2>1 DEF SmaSpread
  <2>2. CASE ~(n < SlowWindow)
    <3>1. SlowWindow <= n /\ FastWindow <= n /\ FastWindow \in Nat
      BY <1>1, <2>2
    <3>2. /\ SumOfLast(f, n, FastWindow) = SumOfLast(g, n, FastWindow)
          /\ SumOfLast(f, n, SlowWindow) = SumOfLast(g, n, SlowWindow)
      BY <1>1, <1>2, <3>1
    <3> QED BY <3>2 DEF SmaSpread
  <2> QED BY <2>1, <2>2
<1>4. ReturnOver(f, n) = ReturnOver(g, n)
  <2>1. CASE n <= ReturnWindow
    BY <2>1 DEF ReturnOver
  <2>2. CASE ~(n <= ReturnWindow)
    <3>1. n \in 1..n /\ n - ReturnWindow \in 1..n
      BY <1>1, <2>2
    <3>2. f[n] = g[n] /\ f[n - ReturnWindow] = g[n - ReturnWindow]
      BY <3>1
    <3> QED BY <3>2 DEF ReturnOver
  <2> QED BY <2>1, <2>2
<1>5. SymbolScore(strategy, f, n, signal) = SymbolScore(strategy, g, n, signal)
  BY <1>3 DEF SymbolScore, CombinedScore, MovingAverageScore
<1> QED BY <1>4, <1>5

LEMMA SelectionIsSettled ==
  ASSUME BtInv, btStage = "running", btDay \in Days, NEW table \in Candles,
         SameBefore(table, btDay)
  PROVE  DayTargets(table, btDay) = DayTargets(btCandles, btDay)
<1> DEFINE n == btDay - 1
           p == Closes(table)
           q == Closes(btCandles)
           signals == [s \in Symbols |-> btSignals[s][btDay]]
<1>1. btCandles \in Candles /\ btDay \in Nat /\ FirstTradeDay <= btDay
  BY DEF BtInv
<1>2. n \in Nat
  BY <1>1, FirstDay
<1>3. ASSUME NEW s \in Symbols PROVE \A i \in 1..n : p[s][i] = q[s][i] /\ p[s][i] \in Int
  <2>1. /\ Days = 1..Len(btCandles[s]) /\ Len(btCandles[s]) \in Nat
        /\ \A d \in Days : btCandles[s][d].close \in Nat \ {0}
    BY <1>1, CandleFacts
  <2>2. 1..n \subseteq 1..Len(btCandles[s]) /\ 1..n \subseteq Days
    BY <1>1, <1>2, <2>1
  <2>3. q[s] = [i \in 1..Len(btCandles[s]) |-> btCandles[s][i].close]
        /\ p[s] = [i \in 1..Len(btCandles[s]) |-> table[s][i].close]
    <3>1. Len(table[s]) = Len(btCandles[s])
      BY DEF SameBefore
    <3> QED BY <3>1 DEF Closes
  <2>4. \A i \in 1..n : table[s][i] = btCandles[s][i]
    BY DEF SameBefore
  <2> HIDE DEF p, q, n
  <2> QED BY <2>1, <2>2, <2>3, <2>4
<1> DEFINE score(c) == [s \in Symbols |-> SymbolScore(btStrategy, c[s], n, signals[s])]
           eligible(c) == {s \in Symbols : Eligible(score(c)[s], ReturnOver(c[s], n))}
<1>4. ASSUME NEW s \in Symbols
      PROVE  /\ SymbolScore(btStrategy, p[s], n, signals[s]) = SymbolScore(btStrategy, q[s], n, signals[s])
             /\ ReturnOver(p[s], n) = ReturnOver(q[s], n)
  <2> DEFINE f == p[s]
             g == q[s]
             signal == signals[s]
             m == n
  <2>1. m \in Nat /\ SameUpTo(f, g, m)
    BY <1>2, <1>3 DEF SameUpTo
  <2> HIDE DEF f, g, m, signal
  <2>2. /\ SymbolScore(btStrategy, f, m, signal) = SymbolScore(btStrategy, g, m, signal)
        /\ ReturnOver(f, m) = ReturnOver(g, m)
    BY <2>1, ScoresIgnoreTheRest
  <2> QED BY <2>2 DEF f, g, m, signal
<1>5. score(p) = score(q) /\ eligible(p) = eligible(q)
  <2> HIDE DEF p, q, n, signals
  <2>1. score(p) = score(q)
    BY <1>4
  <2> QED BY <1>4, <2>1
<1>6. /\ DayTargets(table, btDay) = RankedSymbols(score(p), eligible(p), EffectiveBreadth)
      /\ DayTargets(btCandles, btDay) = RankedSymbols(score(q), eligible(q), EffectiveBreadth)
  BY DEF DayTargets, Targets, HistoryUpTo
<1> HIDE DEF score, eligible, p, q
<1> QED BY <1>5, <1>6

(* Candles that agree on the closes of what is held give one equity, and    *)
(* with the same opens the same trades.                                     *)
LEMMA SizingIsSettled ==
  ASSUME BtInv, btStage = "running", btDay \in Days, NEW table \in Candles,
         SameBefore(table, btDay), Opens(table, btDay) = Opens(btCandles, btDay),
         \A s \in HeldIn(btPositions) : table[s][btDay].close = btCandles[s][btDay].close
  PROVE  DayTrades(table, btDay) = DayTrades(btCandles, btDay)
<1> DEFINE worth(c) == [s \in Symbols |-> btPositions[s].quantity * c[s][btDay].close]
<1>1. btCandles \in Candles /\ Honest(Book)
  BY DEF BtInv
<1>2. btPositions \in [Symbols -> PositionRow]
  BY <1>1 DEF Honest, Books, Book
<1>3. ASSUME NEW s \in Symbols PROVE worth(table)[s] = worth(btCandles)[s]
  <2>1. btPositions[s].quantity \in Nat
    BY <1>2 DEF PositionRow
  <2>2. CASE s \in HeldIn(btPositions)
    BY <2>2
  <2>3. CASE s \notin HeldIn(btPositions)
    <3>1. btPositions[s].quantity = 0
      BY <2>1, <2>3 DEF HeldIn
    <3>2. table[s][btDay].close \in Nat /\ btCandles[s][btDay].close \in Nat
      <4>1. table[s] \in Seq([open : Nat \ {0}, close : Nat \ {0}])
        BY BacktestAssumption
      <4>2. Len(table[s]) = Len(btCandles[s]) /\ btDay \in 1..Len(btCandles[s])
            /\ btCandles[s][btDay].close \in Nat
        BY <1>1, CandleFacts DEF SameBefore
      <4>3. table[s][btDay] \in [open : Nat \ {0}, close : Nat \ {0}]
        <5> DEFINE bars == table[s]
        <5>1. bars \in Seq([open : Nat \ {0}, close : Nat \ {0}]) /\ btDay \in 1..Len(bars)
          BY <4>1, <4>2
        <5> HIDE DEF bars
        <5>2. bars[btDay] \in [open : Nat \ {0}, close : Nat \ {0}]
          BY <5>1, ElementOfSeq
        <5> QED BY <5>2 DEF bars
      <4> QED BY <4>2, <4>3
    <3> QED BY <3>1, <3>2
  <2> QED BY <2>2, <2>3
<1>4. worth(table) = worth(btCandles)
  <2> HIDE DEF worth
  <2>1. worth(table) = [s \in Symbols |-> worth(table)[s]]
        /\ worth(btCandles) = [s \in Symbols |-> worth(btCandles)[s]]
    BY DEF worth
  <2> QED BY <1>3, <2>1
<1>5. MarketValue(table, btPositions, btDay) = MarketValue(btCandles, btPositions, btDay)
  BY <1>4 DEF MarketValue
<1>6. DayTargets(table, btDay) = DayTargets(btCandles, btDay)
  BY SelectionIsSettled
<1> QED BY <1>5, <1>6 DEF DayTrades

(* For every market, strategy and schedule, whatever the days bring: the    *)
(* targets of a day rest on the days before it, their sizes on no more of   *)
(* the day than its opens and the closes of what is held, and the stored    *)
(* report adds up to the capital but for half a paisa for every share that  *)
(* was bought (backtesting/engine.py, BacktestEngine.run).                  *)
LEMMA BooksHonest == BacktestInit /\ [][BacktestNext]_backtestVars => []TargetsAndReportStand
<1>1. BtInv => TargetsAndReportStand
  <2> SUFFICES ASSUME BtInv PROVE TargetsAndReportStand
    OBVIOUS
  <2>1. TargetsIgnoreToday
    BY SelectionIsSettled DEF TargetsIgnoreToday
  <2>2. SizingSeesOpensAndHeldCloses
    BY SizingIsSettled DEF SizingSeesOpensAndHeldCloses
  <2> QED BY <2>1, <2>2 DEF TargetsAndReportStand, BtInv
<1> QED BY <1>1, BtInvInit, BtInvStep, PTL

(* So they do in every backtest that goes on to its end.                    *)
THEOREM ReportIsHonest == BacktestSpec => []TargetsAndReportStand
BY BooksHonest, PTL DEF BacktestSpec

(* The books of the backtest keep their types, for every market and         *)
(* strategy, whether or not it ends: cash and positions never go negative.  *)
LEMMA BooksTyped == BacktestInit /\ [][BacktestNext]_backtestVars => []BacktestTypeOK
<1>1. BtInv => BacktestTypeOK
  <2> SUFFICES ASSUME BtInv PROVE BacktestTypeOK
    OBVIOUS
  <2>1. CASE btStage = "idle"
    BY <2>1 DEF BtInv, BacktestTypeOK, Flat
  <2>2. CASE btStage # "idle"
    <3>1. Book \in Books
      BY <2>2 DEF BtInv, Honest
    <3>2. /\ btCash \in Nat /\ btPositions \in [Symbols -> PositionRow]
          /\ btGraphTrades \subseteq Symbols
      BY <3>1 DEF Book, Books
    <3> QED BY <3>2 DEF BtInv, BacktestTypeOK, PositionRow
  <2> QED BY <2>1, <2>2
<1> QED BY <1>1, BtInvInit, BtInvStep, PTL

(* So they do in every backtest that goes on to its end.                    *)
THEOREM BacktestTyped == BacktestSpec => []BacktestTypeOK
BY BooksTyped, PTL DEF BacktestSpec
=============================================================================
