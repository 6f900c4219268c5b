--------------------------- MODULE BacktestProperties ---------------------------
EXTENDS Backtest

(* Every variable has its type. *)
BacktestTypeOK ==
  /\ btStage \in {"idle", "running", "reported", "too_short", "type_error"}
  /\ btCash \in Nat
  /\ \A s \in Symbols : btPositions[s].quantity \in Nat /\ btPositions[s].average \in Nat
  /\ btGraphTrades \subseteq Symbols

(* A table has these days, and what the candles have before day d.          *)
SameBefore(table, d) ==
  \A s \in Symbols : /\ Len(table[s]) = Len(btCandles[s])
                     /\ \A i \in 1..(d - 1) : table[s][i] = btCandles[s][i]

(* The stocks a day trades in are settled before it begins: candles that    *)
(* agree up to the day before give the same targets, whatever the day and   *)
(* the days after it bring.                                                 *)
TargetsIgnoreToday ==
  btStage = "running" /\ btDay \in Days /\ IsRebalanceDay(btDay) =>
    \A table \in Candles :
      SameBefore(table, btDay) => DayTargets(table, btDay) = DayTargets(btCandles, btDay)

(* The number of shares does depend on the day: on its opens, at which the  *)
(* orders fill, and on its closes, at which the engine marks the equity it  *)
(* sizes them by.  It sees no more of the day than that: candles that agree *)
(* on the days before, on the opens of the day and on the closes of the     *)
(* stocks held give the same trades.                                        *)
SizingSeesOpensAndHeldCloses ==
  btStage = "running" /\ btDay \in Days /\ IsRebalanceDay(btDay) =>
    \A table \in Candles :
      /\ SameBefore(table, btDay)
      /\ Opens(table, btDay) = Opens(btCandles, btDay)
      /\ \A s \in HeldIn(btPositions) : table[s][btDay].close = btCandles[s][btDay].close
      => DayTrades(table, btDay) = DayTrades(btCandles, btDay)

(* The report adds up: its final equity is the capital plus what the stored *)
(* positions have realized and what they would realize, up to the rounding  *)
(* of the average costs (half a paisa a share bought), and the drawdown the *)
(* metrics find is the deepest of the stored days.                          *)
ReportAddsUp ==
  btStage = "reported" =>
    LET result == SumOver([p \in btReport.positions |-> p.realized + p.unrealized],
                          btReport.positions)
        buys == {i \in 1..Len(btFills) : btFills[i].side = "BUY"}
        bought == SumOver([i \in buys |-> btFills[i].quantity], buys)
        apart == btReport.final - InitialCapital - result
    IN  /\ 0 - bought <= 2 * apart /\ 2 * apart <= bought
        /\ btReport.drawdown = Min(btReport.pointDrawdowns \cup {0})

(* A backtest picks its stocks from the days before, sizes the orders from  *)
(* no more of the day than its opens and the closes of what it holds, and   *)
(* reports what adds up (backtesting/engine.py, BacktestEngine.run).        *)
TargetsAndReportStand ==
  TargetsIgnoreToday /\ SizingSeesOpensAndHeldCloses /\ ReportAddsUp
=============================================================================
