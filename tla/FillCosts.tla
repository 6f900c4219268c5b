----------------------------- MODULE FillCosts -----------------------------
(***************************************************************************)
(* The arithmetic of a simulated fill: slippage, transaction costs, how a  *)
(* quantity is split into fills, and how much of a BUY the cash can pay.   *)
(* Money is an integer number of units of MONEY_QUANT (0.0001 INR), which  *)
(* is how the broker rounds every amount it stores.                        *)
(***************************************************************************)
EXTENDS Naturals, Integers, Sequences

CONSTANTS
  RateDenominator,        \* 10000: rates are basis points
  SlippageBps,
  BrokerageBps,
  ExchangeTxnBps,
  TaxLevyBps,
  PartialFillThreshold,   \* quantities above it are filled in two parts
  FirstFillPct            \* share of the first part, in percent

ASSUME RatesAssumption ==
  /\ RateDenominator \in Nat \ {0}
  /\ SlippageBps \in Nat /\ SlippageBps < RateDenominator
  /\ BrokerageBps \in Nat
  /\ ExchangeTxnBps \in Nat
  /\ TaxLevyBps \in Nat
ASSUME PlanAssumption ==
  /\ PartialFillThreshold \in Nat \ {0}
  /\ FirstFillPct \in 1..100

(* Decimal.quantize(MONEY_QUANT, ROUND_HALF_UP) of num/den, num >= 0. *)
RoundHalfUp(num, den) == (2 * num + den) \div (2 * den)

FillPrice(side, reference) ==
  IF side = "BUY"
  THEN RoundHalfUp(reference * (RateDenominator + SlippageBps), RateDenominator)
  ELSE RoundHalfUp(reference * (RateDenominator - SlippageBps), RateDenominator)

CostOf(gross) ==
    RoundHalfUp(gross * BrokerageBps, RateDenominator)
  + RoundHalfUp(gross * ExchangeTxnBps, RateDenominator)
  + RoundHalfUp(gross * TaxLevyBps, RateDenominator)

Gross(fill) == fill.price * fill.qty
Debit(fill) == Gross(fill) + CostOf(Gross(fill))
Proceeds(fill) == Gross(fill) - CostOf(Gross(fill))

(* Mutant: the first part of a small order rounds down to nothing.         *)
FirstPartUnclamped(q) == (q * FirstFillPct) \div 100

(* max(1, min(floor(q * pct), q - 1)) *)
FirstPart(q) ==
  LET share == (q * FirstFillPct) \div 100 IN
  IF share < 1 THEN 1 ELSE IF share > q - 1 THEN q - 1 ELSE share

(* Mutant: the second part is lost. *)
FillPlanFirstOnly(q) ==
  IF q <= PartialFillThreshold THEN <<q>> ELSE <<FirstPart(q)>>

FillPlan(q) ==
  IF q <= PartialFillThreshold THEN <<q>> ELSE <<FirstPart(q), q - FirstPart(q)>>

(* Mutant: costs are left out of what a reduced order is thought to cost.  *)
ScaledFillDebitNoCosts(fill, a, n) == RoundHalfUp(Gross(fill) * a, n)

(* What the broker's search thinks a units of an n-unit order cost: the    *)
(* fills of the whole order scaled by a/n, each amount rounded.            *)
ScaledFillDebit(fill, a, n) ==
  RoundHalfUp(Gross(fill) * a, n) + RoundHalfUp(CostOf(Gross(fill)) * a, n)

ScaledDebit(fills, a, n) ==
  ScaledFillDebit(fills[1], a, n)
  + (IF Len(fills) = 2 THEN ScaledFillDebit(fills[2], a, n) ELSE 0)

(* a is where the search that counts down from n stops. *)
IsAffordable(a, n, fills, cash) ==
  /\ a \in 0..n
  /\ a > 0 => ScaledDebit(fills, a, n) <= cash
  /\ \A b \in (a + 1)..n : ScaledDebit(fills, b, n) > cash
=============================================================================
