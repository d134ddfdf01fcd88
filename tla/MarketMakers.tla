---------------------------- MODULE MarketMakers ----------------------------
(***************************************************************************)
(* The quote formulas of the market makers (strategy/library/mm), in exact *)
(* integers: a tick is Unit(p) fine units, so that mids, basis points and  *)
(* the share q / q_max of the inventory stay whole.  A snapshot s shows a  *)
(* best bid and ask, a microprice in quarter ticks and an order-book       *)
(* imbalance obi of -1, 0 or 1; the data layer that computes these two is  *)
(* a placeholder in the repository, so they are inputs here.  p holds the  *)
(* maker's parameters.  The suppression of a side at q_max, which the four *)
(* makers share, belongs to the loop (OneSidedAtLimit).                    *)
(***************************************************************************)
EXTENDS Integers

CONSTANT PointBase      \* the 1e4 of a basis point, smaller in the instances

Unit(p) == 4 * PointBase * p.qMax

QuoteOf(b, n, a, m) ==
  [side \in {"bid", "ask"} |-> IF side = "bid" THEN [px |-> b, size |-> n]
                                               ELSE [px |-> a, size |-> m]]

(* event.mid and event.microprice.                                         *)
Mid(s, p) == 2 * PointBase * p.qMax * (s.bid + s.ask)
Micro(s, p) == PointBase * p.qMax * s.micro

Bps(s, p, bps) == 2 * p.qMax * (s.bid + s.ask) * bps          \* of the mid

Lesser(a, b)  == IF a <= b THEN a ELSE b
Greater(a, b) == IF a >= b THEN a ELSE b

(* Python's round(): to the nearest tick, from half a tick to the even one. *)
RoundTick(px, p) ==
  LET down == px \div Unit(p)
      over == 2 * (px % Unit(p))
  IN  IF over < Unit(p) \/ (over = Unit(p) /\ down % 2 = 0) THEN down ELSE down + 1

(* join_only holds a quote at or behind the touch, then it is rounded.     *)
Joined(s, p, bid, ask) ==
  QuoteOf(RoundTick(Lesser(bid, s.bid * Unit(p)), p), p.size,
          RoundTick(Greater(ask, s.ask * Unit(p)), p), p.size)

Around(s, p, center, half) == Joined(s, p, center - half, center + half)

(* The inventory moves the center against itself, q_max units at the most. *)
Lean(s, p, q) ==
  LET share == Greater(-p.qMax, Lesser(q, p.qMax))
  IN  2 * share * (s.bid + s.ask) * p.skewBps

SymmetricMM(s, p) == Around(s, p, Mid(s, p), Bps(s, p, p.halfBps))

(* vol is vol_gain times the realized volatility, in basis points; half of *)
(* the half-spread is the obi_alpha of the imbalance.                      *)
LinearInventoryMM(s, p, q, vol) ==
  LET half == Bps(s, p, p.halfBps + vol)
  IN  Around(s, p, Micro(s, p) + s.obi * (half \div 2) - Lean(s, p, q), half)

(* risk is gamma * sigma^2 * horizon and width the arrival term, both in    *)
(* fine units.  The side that would add to the inventory is widened.       *)
AvellanedaStoikovMM(s, p, q, risk, width) ==
  LET fair   == Micro(s, p) + s.obi * PointBase * p.qMax * (s.ask - s.bid)
      inside == Lesser(Greater(fair, s.bid * Unit(p)), s.ask * Unit(p))
      half   == (risk + width) \div 2
      soften == half + (half * Greater(q, -q)) \div p.qMax
  IN  Joined(s, p, inside - q * risk - (IF q > 0 THEN soften ELSE half),
                   inside - q * risk + (IF q < 0 THEN soften ELSE half))

(* The predicted drift moves the center; a prediction that beats the cost  *)
(* of crossing by the threshold takes the far touch instead.               *)
WorthCrossing(s, p) ==
  /\ p.takeBps > 0 /\ s.obi # 0
  /\ (p.alphaBps - p.feeBps - p.takeBps) * (s.bid + s.ask) > PointBase * (s.ask - s.bid)

AlphaQuoterMM(s, p, q) ==
  LET rest == Around(s, p, Micro(s, p) + s.obi * Bps(s, p, p.alphaBps) - Lean(s, p, q),
                     Bps(s, p, p.halfBps))
  IN  IF WorthCrossing(s, p)
        THEN IF s.obi > 0 THEN [rest EXCEPT !["bid"] = [px |-> s.ask, size |-> p.takeSize]]
                          ELSE [rest EXCEPT !["ask"] = [px |-> s.bid, size |-> p.takeSize]]
        ELSE rest

(* scripts/build_market_maker.py runs them side by side.                   *)
Quotes(s, p, q, vol, risk, width) ==
  {SymmetricMM(s, p), LinearInventoryMM(s, p, q, vol),
   AvellanedaStoikovMM(s, p, q, risk, width), AlphaQuoterMM(s, p, q)}
=============================================================================
