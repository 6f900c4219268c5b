-------------------------------- MODULE Backtest --------------------------------
(***************************************************************************)
(* BacktestEngine.run: over the days all symbols have candles for, it      *)
(* rebalances every so many days on the ranking of a strategy, marks the   *)
(* portfolio at the close of every day and stores one report at the end.   *)
(* Orders fill at the open of the day and are sized by an equity marked at *)
(* its close, the features the targets rest on end the day before, and     *)
(* their graph signals are those of the day.  Money is counted in paise.   *)
(***************************************************************************)
EXTENDS Strategies, Sequences

CONSTANTS
  Candles,         \* tables of candles: [symbol -> sequence of [open, close]], one per day
  SignalTables,    \* graph signals: [symbol -> sequence of signals, one per day]
  StrategyTypes,
  InitialCapital,
  Lookback, RebalanceEvery,
  MaxOpen,         \* max_open_positions
  Breadth,         \* portfolio_breadth
  SlippageBps, CostBps

(* Candles of all symbols cover the same days. *)
ASSUME BacktestAssumption ==
  /\ Symbols \in SUBSET Int /\ Symbols # {} /\ IsFiniteSet(Symbols)
  /\ \A table \in Candles :
       /\ table \in [Symbols -> Seq([open : Nat \ {0}, close : Nat \ {0}])]
       /\ \A s, t \in Symbols : Len(table[s]) = Len(table[t])
  /\ InitialCapital \in Nat /\ Lookback \in Nat /\ RebalanceEvery \in Nat \ {0}
  /\ MaxOpen \in Nat \ {0} /\ Breadth \in Nat \ {0}
  /\ SlippageBps \in 0..9999 /\ CostBps \in 0..10000

VARIABLES
  btStage,         \* "idle", "running", "reported", "too_short", "type_error"
  btStrategy, btCandles, btSignals,
  btDay,           \* day being traded
  btCash, btPositions,
  btFills,         \* fills so far
  btGraphTrades,   \* open trades that rest on a graph signal
  btEquity,        \* equity at the end of the days, the initial capital first
  btReport

backtestVars == <<btStage, btStrategy, btCandles, btSignals, btDay, btCash, btPositions,
                  btFills, btGraphTrades, btEquity, btReport>>

NoReport == [final |-> 0, drawdown |-> 0, positions |-> {}, pointDrawdowns |-> {}]
Flat == [quantity |-> 0, average |-> 0, realized |-> 0]
EffectiveBreadth == Min({Breadth, MaxOpen})

BacktestInit ==
  /\ btStage = "idle" /\ btStrategy = "none" /\ btCandles = <<>> /\ btSignals = <<>>
  /\ btDay = 0 /\ btCash = 0 /\ btPositions = [s \in Symbols |-> Flat]
  /\ btFills = <<>> /\ btGraphTrades = {} /\ btEquity = <<>> /\ btReport = NoReport

-----------------------------------------------------------------------------
Days == 1..Len(btCandles[CHOOSE s \in Symbols : TRUE])
FirstTradeDay == Lookback + 2

(* The closes a decision of day d may read: those before d.                 *)
(* Mutant: the snapshot of the day includes its close. *)
HistoryOfToday(d) == d

HistoryUpTo(d) == d - 1

Closes(table) == [s \in Symbols |-> [i \in 1..Len(table[s]) |-> table[s][i].close]]
IsRebalanceDay(d) == (d - FirstTradeDay) % RebalanceEvery = 0

DayTargets(table, d) ==
  Targets(btStrategy, Closes(table), HistoryUpTo(d), [s \in Symbols |-> btSignals[s][d]],
          EffectiveBreadth)

StartBacktest(strategy, table, signals) ==
  /\ btStage = "idle"
  /\ btStrategy' = strategy /\ btCandles' = table /\ btSignals' = signals
  /\ btStage' = IF Len(table[CHOOSE s \in Symbols : TRUE]) <= Lookback + 1
                THEN "too_short" ELSE "running"
  /\ btDay' = FirstTradeDay /\ btCash' = InitialCapital /\ btEquity' = <<InitialCapital>>
  /\ UNCHANGED <<btPositions, btFills, btGraphTrades, btReport>>

-----------------------------------------------------------------------------
(* A book is the cash, the positions, the fills and the open graph trades   *)
(* in the middle of a day.                                                  *)
Book == [cash |-> btCash, positions |-> btPositions, fills |-> btFills,
         graphTrades |-> btGraphTrades]
HeldIn(positions) == {s \in Symbols : positions[s].quantity > 0}
CostOf(gross) == RoundHalfEven(gross * CostBps, 10000)
SellPrice(open) == RoundHalfEven(open * (10000 - SlippageBps), 10000)
BuyPrice(open) == RoundHalfEven(open * (10000 + SlippageBps), 10000)

(* _sell, and the graph trade it closes *)
Sell(book, s, d, opens) ==
  LET p == book.positions[s]
      gross == SellPrice(opens[s]) * p.quantity
      pnl == gross - CostOf(gross) - p.average * p.quantity
  IN  [cash |-> book.cash + gross - CostOf(gross),
       positions |-> [book.positions EXCEPT ![s].quantity = 0, ![s].realized = @ + pnl],
       fills |-> Append(book.fills, [symbol |-> s, day |-> d, side |-> "SELL",
                                     quantity |-> p.quantity]),
       graphTrades |-> book.graphTrades \ {s}]

(* The largest quantity whose value and cost the cash pays for, up to what  *)
(* the allocation (equity over so many targets) buys.                       *)
BuyQuantity(book, open, equity, targets) ==
  LET price == BuyPrice(open)
      wanted == Min({equity \div (targets * price), book.cash \div price})
  IN  Max({0} \cup {q \in 1..wanted : price * q + CostOf(price * q) <= book.cash})

(* _buy; a symbol bought again averages from a quantity of nothing *)
Buy(book, s, d, opens, equity, targets) ==
  LET q == BuyQuantity(book, opens[s], equity, targets)
      gross == BuyPrice(opens[s]) * q
      p == book.positions[s]
      spent == p.average * p.quantity + gross + CostOf(gross)
  IN  IF q = 0 THEN book
      ELSE [cash |-> book.cash - gross - CostOf(gross),
            positions |-> [book.positions EXCEPT
                             ![s].quantity = p.quantity + q,
                             ![s].average = RoundHalfEven(spent, p.quantity + q)],
            fills |-> Append(book.fills, [symbol |-> s, day |-> d, side |-> "BUY",
                                          quantity |-> q]),
            graphTrades |-> IF btSignals[s][d] = NoSignal THEN book.graphTrades
                            ELSE book.graphTrades \cup {s}]

Opens(table, d) == [s \in Symbols |-> table[s][d].open]
MarketValue(table, positions, d) ==
  SumOver([s \in Symbols |-> positions[s].quantity * table[s][d].close], Symbols)

(* _rebalance: what is not a target is sold, then the targets that are      *)
(* missing are bought, each in the order of the symbols, while positions    *)
(* are free.                                                                *)
InOrder(set) ==
  [i \in 1..Cardinality(set) |-> CHOOSE s \in set : Cardinality({t \in set : t < s}) = i - 1]

Rebalance(targets, d, opens, equity) ==
  LET outgoing == InOrder(HeldIn(btPositions) \ targets)
      sold[i \in 0..Len(outgoing)] ==
        IF i = 0 THEN Book ELSE Sell(sold[i - 1], outgoing[i], d, opens)
      flat == sold[Len(outgoing)]
      incoming == InOrder(targets \ HeldIn(flat.positions))
      bought[i \in 0..Len(incoming)] ==
        IF i = 0 THEN flat
        ELSE IF Cardinality(HeldIn(bought[i - 1].positions)) >= MaxOpen THEN bought[i - 1]
        ELSE Buy(bought[i - 1], incoming[i], d, opens, equity, Cardinality(targets))
  IN  bought[Len(incoming)]

(* The trades of a rebalancing: filled at the opens of the day, sized by    *)
(* what the portfolio is worth at its close (_mark_to_market of the same    *)
(* candles).                                                                *)
DayTrades(table, d) ==
  Rebalance(DayTargets(table, d), d, Opens(table, d),
            btCash + MarketValue(table, btPositions, d))

(* rank_universe of the blended score takes no target_limit, and the engine *)
(* always passes one.                                                       *)
RaisesTypeError(strategy) == strategy = "blended_score"

TradeDay ==
  /\ btStage = "running" /\ btDay \in Days
  /\ ~(IsRebalanceDay(btDay) /\ RaisesTypeError(btStrategy))
  /\ LET book == IF IsRebalanceDay(btDay)
                 THEN DayTrades(btCandles, btDay) ELSE Book
     IN  /\ btCash' = book.cash /\ btPositions' = book.positions
         /\ btFills' = book.fills /\ btGraphTrades' = book.graphTrades
         /\ btEquity' = Append(btEquity, book.cash + MarketValue(btCandles, book.positions, btDay))
  /\ btDay' = btDay + 1
  /\ UNCHANGED <<btStage, btStrategy, btCandles, btSignals, btReport>>

FailBacktest ==
  /\ btStage = "running" /\ btDay \in Days
  /\ IsRebalanceDay(btDay) /\ RaisesTypeError(btStrategy)
  /\ btStage' = "type_error"
  /\ UNCHANGED <<btStrategy, btCandles, btSignals, btDay, btCash, btPositions, btFills,
                 btGraphTrades, btEquity, btReport>>

-----------------------------------------------------------------------------
(* A drawdown in ten-thousandths of the peak: the engine computes it day by *)
(* day, calculate_backtest_metrics from the list of all days.               *)
Drawdown(value, peak) == IF peak > 0 THEN RoundSigned(10000 * (value - peak), peak) ELSE 0
PeakUpTo(i) == Max({btEquity[j] : j \in 1..i})
MaxDrawdown == Min({Drawdown(btEquity[i], PeakUpTo(i)) : i \in 1..Len(btEquity)})

(* _position_models: symbols ever held, at the last close *)
PositionModels ==
  {[symbol |-> s,
    realized |-> btPositions[s].realized,
    unrealized |-> btPositions[s].quantity * (btCandles[s][btDay - 1].close
                                              - btPositions[s].average)] :
     s \in {btFills[i].symbol : i \in 1..Len(btFills)}}

Report ==
  /\ btStage = "running" /\ btDay \notin Days
  /\ btReport' = [final |-> btEquity[Len(btEquity)], drawdown |-> MaxDrawdown,
                  positions |-> PositionModels,
                  pointDrawdowns |-> {Drawdown(btEquity[i], PeakUpTo(i)) : i \in 2..Len(btEquity)}]
  /\ btStage' = "reported"
  /\ UNCHANGED <<btStrategy, btCandles, btSignals, btDay, btCash, btPositions, btFills,
                 btGraphTrades, btEquity>>

BacktestStep == TradeDay \/ FailBacktest \/ Report
BacktestNext ==
  \/ /\ btStage = "idle"
     /\ \E strategy \in StrategyTypes, table \in Candles, signals \in SignalTables :
          StartBacktest(strategy, table, signals)
  \/ BacktestStep

BacktestSpec == BacktestInit /\ [][BacktestNext]_backtestVars /\ WF_backtestVars(BacktestStep)
=============================================================================
