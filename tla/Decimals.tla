-------------------------------- MODULE Decimals --------------------------------
(***************************************************************************)
(* Decimal.quantize as the portfolio code uses it: to the nearest step,    *)
(* half to even, and sums.  Amounts are counted in the steps they are      *)
(* rounded to.                                                             *)
(***************************************************************************)
EXTENDS Integers, FiniteSetsExt

SumOver(f, S) == MapThenSumSet(LAMBDA s : f[s], S)
ProductOver(f, S) == FoldSet(LAMBDA s, n : f[s] * n, 1, S)

(* n / d in whole steps, for n >= 0 and d > 0. *)
RoundHalfEven(n, d) ==
  LET q == n \div d
      r == n % d
  IN  IF 2 * r > d \/ (2 * r = d /\ q % 2 = 1) THEN q + 1 ELSE q

(* The same for n of either sign. *)
RoundSigned(n, d) == IF n < 0 THEN 0 - RoundHalfEven(0 - n, d) ELSE RoundHalfEven(n, d)
=============================================================================
