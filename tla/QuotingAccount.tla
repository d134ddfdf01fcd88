--------------------------- MODULE QuotingAccount ---------------------------
(***************************************************************************)
(* The quoting path of Portfolio (backtest/eventdriven/portfolio.py): the  *)
(* cash, position and mark that fills and books change, the trade log that *)
(* fills append to, and the row that record() adds to the equity curve.  Money is an integer: a price of p ticks is worth     *)
(* 2 * BpsBase * p, so that a mid (half a tick) and a commission (a        *)
(* fraction bps / BpsBase of the notional) stay whole.  A mark of 0 is     *)
(* last_px = NaN; the quoting path keeps prev_mark equal to last_px.       *)
(***************************************************************************)
EXTENDS Matching, Sequences

CONSTANTS
  Margined,       \* instrument.is_margined
  InitialEquity,  \* in money
  BpsBase,        \* the 1e4 of BpsCostModel, smaller in the checked instances
  NoTs            \* last_ts = None

ASSUME AccountAssumption ==
  /\ Margined \in BOOLEAN
  /\ InitialEquity \in Nat
  /\ BpsBase \in Nat \ {0}
  /\ NoTs \notin Nat

Money(px) == 2 * BpsBase * px
MidMoney(bk) == BpsBase * (bk["bid"].best + bk["ask"].best)
Commission(f) == 2 * f.qty * f.px * f.bps

(* An entry of the trade log carries, for its units and its commission, the *)
(* position and the commission paid since the start that they add up to.   *)
Trade   == [ts : Nat, pos : Int, paid : Int]
Account == [pos : Int, cash : Int, mark : Nat, fees : Int, trades : Seq(Trade)]
Row     == [ts : Nat, equity : Int, pos : Int, fees : Int]

InitAccount ==
  [pos |-> 0, cash |-> InitialEquity, mark |-> 0, fees |-> 0, trades |-> << >>]

Holdings(acc) == IF Margined THEN 0 ELSE acc.pos * acc.mark
Equity(acc)   == acc.cash + Holdings(acc)

OpenHeartbeat(acc) == [acc EXCEPT !.fees = 0]

(* What the first n trades of a log add up to.                             *)
After(log, n) == IF n = 0 THEN [pos |-> 0, paid |-> 0]
                          ELSE [pos |-> log[n].pos, paid |-> log[n].paid]

(* apply_fill(): a margined fill realises the variation against the mark,  *)
(* a cash-funded one pays the notional; both pay the commission.           *)
ApplyFill(acc, side, f, ts) ==
  LET delta == IF side = "bid" THEN f.qty ELSE -f.qty
      paid  == IF Margined THEN delta * (Money(f.px) - acc.mark)
                           ELSE delta * Money(f.px)
  IN  IF f.qty = 0
        THEN acc
        ELSE [acc EXCEPT !.cash   = acc.cash - paid - Commission(f),
                         !.pos    = acc.pos + delta,
                         !.fees   = acc.fees + Commission(f),
                         !.trades = Append(acc.trades,
                           [ts   |-> ts,
                            pos  |-> acc.pos + delta,
                            paid |-> After(acc.trades, Len(acc.trades)).paid + Commission(f)])]

ApplyFills(acc, out, ts) ==
  ApplyFill(ApplyFill(acc, "bid", out["bid"].fill, ts), "ask", out["ask"].fill, ts)

(* mark(): a NaN mid is ignored; a margined position settles variation.    *)
Mark(acc, bk) ==
  IF ~TwoSided(bk)
    THEN acc
    ELSE [acc EXCEPT !.mark = MidMoney(bk),
                     !.cash = IF Margined /\ acc.pos # 0 /\ acc.mark # 0
                                THEN acc.cash + acc.pos * (MidMoney(bk) - acc.mark)
                                ELSE acc.cash]

(* record(): one row per heartbeat.                                        *)
RowOf(acc, ts) == [ts |-> ts, equity |-> Equity(acc), pos |-> acc.pos, fees |-> acc.fees]
=============================================================================
