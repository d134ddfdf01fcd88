-------------------------------- MODULE Lots --------------------------------
(* Lot rounding, which the two backtest engines and the paper loop each    *)
(* define for themselves, and the arithmetic it needs.                     *)
EXTENDS Integers

Positive(n) == IF n > 0 THEN n ELSE 0
Abs(n)      == IF n < 0 THEN -n ELSE n

(* round() of Python: halves go to the even neighbour.                     *)
RoundHalfEven(n, d) ==
  LET q == n \div d
      r == 2 * (n % d)
  IN  IF r < d \/ (r = d /\ q % 2 = 0) THEN q ELSE q + 1

(* _round_to_lot(), of n / d units.                                        *)
RoundToLot(n, d, lot) == RoundHalfEven(n, d * lot) * lot
=============================================================================
