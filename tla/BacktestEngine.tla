--------------------------- MODULE BacktestEngine ---------------------------
(***************************************************************************)
(* BacktestEngine.run (backtest/engine.py), the vectorized backtester: one *)
(* step per day of the panel, in which the overnight margin is settled,    *)
(* the book financed and rebalanced column by column toward the weights of *)
(* signal_lag days ago, and the row recorded.  It is what the event-driven *)
(* engine promises to do.                                                  *)
(***************************************************************************)
EXTENDS TradingRules

VARIABLES
  book,      \* positions, cash and last_px, after the last day
  targets,   \* weights.reindex(...), up to the last day
  rows       \* the recorded days; bar and weights are history

vars == <<book, targets, rows>>

Init ==
  /\ book = EmptyBook
  /\ targets = << >>
  /\ rows = << >>

(* 1. Variation margin, and the new marks.                                 *)
Settled(bar) ==
  [cash |-> book.cash +
              SumFunction([c \in {d \in Ids : /\ Terms[d].margined /\ book.pos[d] # 0
                                              /\ bar.close[d] # 0 /\ book.mark[d] # 0} |->
                             book.pos[c] * (Money(c, bar.close[c]) - Money(c, book.mark[c]))]),
   pos  |-> book.pos,
   mark |-> [c \in Ids |-> IF bar.close[c] # 0 THEN bar.close[c] ELSE book.mark[c]]]

(* weights.shift(signal_lag), at the last of these days.                   *)
Shifted(rowsOfWeights) ==
  IF Len(rowsOfWeights) > SignalLag THEN rowsOfWeights[Len(rowsOfWeights) - SignalLag] ELSE Hold

(* 3-4. The columns are traded one by one, each sized on the equity before *)
(* any of them: what its target asks for,                                  *)
Change(c, bar, target, equity) ==
  TargetUnits(c, WeightOf(target, c), equity, bar.close[c]) - book.pos[c]

(* if it has a price and the move is outside the band.                     *)
Moved(bar, target, equity) ==
  {c \in Ids :
    /\ target # Hold /\ bar.close[c] # 0
    /\ Change(c, bar, target, equity) # 0
    /\ Outside(c, Change(c, bar, target, equity), bar.close[c], equity)}

(* A margined column only realizes the margin from the fill to the close.  *)
Debit(c, bar, delta) ==
  delta * (FillPrice(c, RefPrice(bar, c), delta)
             - (IF Terms[c].margined THEN Money(c, bar.close[c]) ELSE 0))
    + Commission(c, delta)

Rebalanced(financed, bar, target, equity) ==
  LET moved    == Moved(bar, target, equity)
      delta(c) == Change(c, bar, target, equity)
      ref(c)   == RefPrice(bar, c)
  IN  [book   |-> [financed EXCEPT
                     !.pos  = [c \in Ids |-> IF c \in moved THEN book.pos[c] + delta(c) ELSE book.pos[c]],
                     !.cash = financed.cash - SumFunction([c \in moved |-> Debit(c, bar, delta(c))])],
       comm   |-> SumFunction([c \in moved |-> Commission(c, delta(c))]),
       slip   |-> SumFunction([c \in moved |-> Slippage(c, ref(c), delta(c))]),
       traded |-> SumFunction([c \in moved |-> Abs(delta(c)) * Money(c, ref(c))])]

(* 5. Carry income on the positions of the end of the day.                 *)
Income(b, bar) == SumFunction([c \in Ids |-> b.pos[c] * b.mark[c] * bar.carry[c]])

(* The columns of a weights row that the panel has.                        *)
Known(weights) == Restrict(weights, Ids \cap DOMAIN weights)

Day(bar, weights) ==
  LET settled  == Settled(bar)
      fin      == Financing(settled)
      financed == [settled EXCEPT !.cash = settled.cash - fin]
      target   == Shifted(Append(targets, Known(weights)))
      day      == Rebalanced(financed, bar, target, Equity(settled))
      income   == Income(day.book, bar)
      closed   == [day.book EXCEPT !.cash = day.book.cash + income]
  IN  /\ targets' = Append(targets, Known(weights))
      /\ book' = closed
      /\ rows' = Append(rows, [equity |-> Equity(closed), pre |-> Equity(settled), book |-> closed,
                               comm |-> day.comm, slip |-> day.slip, fin |-> fin,
                               carry |-> income, traded |-> day.traded, bar |-> bar,
                               weights |-> weights])

Next == \E bar \in Bars, weights \in WeightRows : Day(bar, weights)

Spec == Init /\ [][Next]_vars
=============================================================================
