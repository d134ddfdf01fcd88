---------------------------- MODULE TradingRules ----------------------------
(***************************************************************************)
(* What the two weight backtesters share: the book they keep and the       *)
(* models they both call, for sizing, lot rounding, slippage, commission   *)
(* and financing.                                                          *)
(*                                                                         *)
(* Prices are integer ticks, 0 stands for NaN, and money is an integer, a  *)
(* tick being worth BpsBase of it.  Weights are multiples of               *)
(* 1 / WeightBase.  Financing, a float in the code, is rounded down.       *)
(***************************************************************************)
EXTENDS Lots, Sequences, FiniteSetsExt, Functions

CONSTANTS
  Columns,        \* the columns of the price panel, in order
  Terms,          \* the instrument of each column
  BpsBase,        \* the 1e4 of the slippage model, smaller in the instances
  SlipBps,        \* SlippageModel.bps
  PerContract,    \* FuturesCostModel
  PerShare, MinTicket,              \* EquityCostModel
  ShortBps, LeverageBps, CashBps, FinancingBase,   \* FinancingModel
  WeightBase,
  BandNum, BandDen,                 \* rebalance_threshold
  NextOpen,       \* execution.fill is NEXT_OPEN
  SignalLag,
  InitialEquity,
  Bars,           \* the rows the close, open and carry panels may have
  WeightRows      \* the rows the weights panel may have

Ids == Range(Columns)

(* risk is 1, or for DV01 sizing the modified duration over the budget.    *)
Instrument == [margined : BOOLEAN, mult : Nat \ {0}, lot : Nat \ {0},
               shortable : BOOLEAN, risk : Nat \ {0}]

(* The carry of a bar is income in money per unit of mark * position.      *)
Bar == [close : [Ids -> Nat], open : [Ids -> Nat], carry : [Ids -> Int]]

ASSUME RulesAssumption ==
  /\ Columns \in Seq(STRING) /\ IsInjective(Columns)
  /\ Terms \in [Ids -> Instrument]
  /\ BpsBase \in Nat \ {0} /\ SlipBps \in 0..BpsBase
  /\ PerContract \in Nat /\ PerShare \in Nat /\ MinTicket \in Nat
  /\ ShortBps \in Nat /\ LeverageBps \in Nat /\ CashBps \in Nat
  /\ FinancingBase \in Nat \ {0}
  /\ WeightBase \in Nat \ {0}
  /\ BandNum \in Nat /\ BandDen \in Nat \ {0}
  /\ NextOpen \in BOOLEAN
  /\ SignalLag \in Nat
  /\ InitialEquity \in Nat
  /\ Bars \subseteq Bar
  /\ \A weights \in WeightRows : weights \in [DOMAIN weights -> Int]

(* A row of weights is a function on the columns that are not NaN; a row   *)
(* of NaNs only, or no row, holds.                                         *)
Hold == [c \in {} |-> 0]

Book == [cash : Int, pos : [Ids -> Int], mark : [Ids -> Nat]]

EmptyBook == [cash |-> InitialEquity, pos |-> [c \in Ids |-> 0], mark |-> [c \in Ids |-> 0]]

Money(c, px) == BpsBase * px * Terms[c].mult

Notional(b, c) == b.pos[c] * Money(c, b.mark[c])

Holdings(b) == SumFunction([c \in {d \in Ids : ~Terms[d].margined} |-> Notional(b, c)])

Equity(b) == b.cash + Holdings(b)

(* FinancingModel.daily_carry(), on the pre-trade book.                    *)
Financing(b) ==
  LET long  == SumFunction([c \in Ids |-> Positive(Notional(b, c))])
      short == SumFunction([c \in Ids |-> Positive(-Notional(b, c))])
  IN  (short * ShortBps + Positive(long + short - Equity(b)) * LeverageBps
         - Positive(b.cash) * CashBps) \div FinancingBase

(* CompositeSizing.target_units() and _round_to_lot().                     *)
TargetUnits(c, weight, equity, px) ==
  RoundToLot(weight * equity, WeightBase * Money(c, px) * Terms[c].risk, Terms[c].lot)

(* The weight a target gives a column: NaN is 0, and so is a forbidden     *)
(* short.                                                                  *)
ShortsAnything(target, c) ==                  \* mutant: ignores shortable
  IF c \in DOMAIN target THEN target[c] ELSE 0

WeightOf(target, c) ==
  IF c \notin DOMAIN target \/ (target[c] < 0 /\ ~Terms[c].shortable) THEN 0 ELSE target[c]

(* The no-trade band.                                                      *)
Outside(c, delta, px, equity) ==
  BandDen * Abs(delta) * Money(c, px) >= BandNum * equity

(* SlippageModel.fill_price(), in money per unit.                          *)
FillPrice(c, ref, delta) ==
  ref * (IF delta > 0 THEN BpsBase + SlipBps ELSE BpsBase - SlipBps) * Terms[c].mult

Commission(c, delta) ==
  IF Terms[c].margined THEN PerContract * Abs(delta)
                       ELSE Max({MinTicket, PerShare * Abs(delta)})

Slippage(c, ref, delta) == Abs(delta) * ref * SlipBps * Terms[c].mult

(* The price an order refers to: the close of the bar, or under NEXT_OPEN   *)
(* its open when there is one.                                             *)
RefPrice(bar, c) == IF NextOpen /\ bar.open[c] # 0 THEN bar.open[c] ELSE bar.close[c]

(* A recorded day; its turnover is traded / pre, the equity before trades. *)
(* bar and weights are history: what the day was given.                    *)
Row == [equity : Int, pre : Int, book : Book, comm : Int, slip : Int, fin : Int,
        carry : Int, traded : Int, bar : Bar, weights : WeightRows]
=============================================================================
