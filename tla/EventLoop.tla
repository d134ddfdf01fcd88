------------------------------ MODULE EventLoop ------------------------------
(***************************************************************************)
(* EventLoop (backtest/eventdriven/engine.py) with the weight path of      *)
(* Portfolio, PanelDataHandler, WeightStrategyAdapter and                  *)
(* SimulatedExecutionHandler: a heap of market, order, fill, signal and    *)
(* record events, one step per event popped.                               *)
(***************************************************************************)
EXTENDS TradingRules

CONSTANTS
  Gaps,      \* how far apart two bars may be; 0 allows a tied timestamp
  MaxBars    \* bound: the length of the panel

ASSUME LoopAssumption == Gaps \subseteq Nat /\ MaxBars \in Nat

VARIABLES
  heap,       \* the pending events
  counter,    \* itertools.count()
  book,       \* positions, cash, last_px (which prev_mark equals)
  history,    \* _signal_history
  current,    \* _current_signal
  count,      \* _mkt_count
  day,        \* the per-heartbeat accumulators; bar and weights are history
  rows,       \* the recorded rows
  sealed      \* history: the book as last recorded

vars == <<heap, counter, book, history, current, count, day, rows, sealed>>

(* Events are popped by timestamp, then priority, then age.  n is their    *)
(* age; a handler numbers what it pushes by offsets, those of the orders   *)
(* being the places of their columns.                                      *)
Event(ts, kind, n, body) == [ts |-> ts, kind |-> kind, n |-> n, body |-> body]

Width == Len(Columns) + 3

Priority == [market |-> 0, order |-> 1, fill |-> 2, signal |-> 4, record |-> 5]

PriorityFirst(e, f) ==                        \* mutant: tuple fields swapped
  \/ Priority[e.kind] < Priority[f.kind]
  \/ Priority[e.kind] = Priority[f.kind] /\ (e.ts < f.ts \/ (e.ts = f.ts /\ e.n < f.n))

Before(e, f) ==
  \/ e.ts < f.ts
  \/ /\ e.ts = f.ts
     /\ \/ Priority[e.kind] < Priority[f.kind]
        \/ Priority[e.kind] = Priority[f.kind] /\ e.n < f.n

Pops(e, kind) ==
  /\ e.kind = kind
  /\ \A f \in heap : f = e \/ Before(e, f)

(* The event is off the heap and the handler's events are pushed.          *)
Replace(e, pushed) ==
  /\ heap' = (heap \ {e}) \cup {[f EXCEPT !.n = counter + f.n] : f \in pushed}
  /\ counter' = counter + Width

NoDay == [equity |-> InitialEquity, fin |-> 0, comm |-> 0, slip |-> 0, traded |-> 0, bar |-> << >>,
          weights |-> << >>]

Init ==
  /\ \E bar \in Bars : heap = {Event(1, "market", 0, bar)}
  /\ counter = 0
  /\ book = EmptyBook
  /\ history = << >>
  /\ current = Hold
  /\ count = 0
  /\ day = NoDay
  /\ rows = << >>
  /\ sealed = EmptyBook

-----------------------------------------------------------------------------
(* Portfolio.on_market(), 1: variation margin and marks.                   *)
MarkedLate(bar) == book                        \* mutant: no margin, old marks

Marked(bar) ==
  LET prints == {c \in Ids : bar.close[c] # 0}
      held   == {c \in prints : Terms[c].margined /\ book.pos[c] # 0 /\ book.mark[c] # 0}
  IN  [book EXCEPT
         !.cash = book.cash + SumFunction([c \in held |->
                    book.pos[c] * (Money(c, bar.close[c]) - Money(c, book.mark[c]))]),
         !.mark = [c \in Ids |-> IF c \in prints THEN bar.close[c] ELSE book.mark[c]]]

(* 3: the target recorded signal_lag heartbeats ago.                       *)
DueLate ==                                    \* mutant: one heartbeat too late
  LET due == count - SignalLag
  IN  IF due \in DOMAIN history THEN history[due] ELSE Hold

Due ==
  LET due == count - SignalLag + 1
  IN  IF due \in DOMAIN history THEN history[due] ELSE Hold

(* 4: the change of a column that the target asks for.                     *)
Delta(bar, c, equity) ==
  TargetUnits(c, WeightOf(Due, c), equity, bar.close[c]) - book.pos[c]

Wanted(bar, equity) ==
  {c \in Ids :
    /\ Due # Hold
    /\ bar.close[c] # 0
    /\ Delta(bar, c, equity) # 0
    /\ Outside(c, Delta(bar, c, equity), bar.close[c], equity)}

Orders(ts, bar, equity) ==
  {Event(ts, "order", k, [ins |-> Columns[k], delta |-> Delta(bar, Columns[k], equity),
                          ref |-> RefPrice(bar, Columns[k])]) :
     k \in {i \in DOMAIN Columns : Columns[i] \in Wanted(bar, equity)}}

TradedBy(orders) ==
  SumFunction([o \in orders |-> Abs(o.body.delta) * Money(o.body.ins, o.body.ref)])

(* WeightStrategyAdapter.on_market(): a signal unless the row is empty.    *)
Signals(ts, weights) ==
  IF weights = Hold THEN {} ELSE {Event(ts, "signal", Width - 2, weights)}

(* What a bar leads to: the portfolio's orders, the signal, the record.    *)
Derived(ts, orders, weights) ==
  orders \cup Signals(ts, weights) \cup {Event(ts, "record", Width - 1, << >>)}

(* A bar; the next one of the stream, if there is one, is pushed last.     *)
OnMarket(e) ==
  /\ Pops(e, "market")
  /\ LET marked == Marked(e.body)
         equity == Equity(marked)
         fin    == Financing(marked)
         orders == Orders(e.ts, e.body, equity)
     IN  /\ book' = [marked EXCEPT !.cash = marked.cash - fin]
         /\ \E weights \in WeightRows :
              /\ day' = [equity |-> equity, fin |-> fin, comm |-> 0, slip |-> 0,
                         traded |-> TradedBy(orders), bar |-> e.body, weights |-> weights]
              /\ \/ Replace(e, Derived(e.ts, orders, weights))
                 \/ /\ count + 1 < MaxBars
                    /\ \E gap \in Gaps, bar \in Bars :
                         Replace(e, Derived(e.ts, orders, weights)
                                      \cup {Event(e.ts + gap, "market", Width, bar)})
  /\ count' = count + 1
  /\ UNCHANGED <<history, current, rows, sealed>>

(* SimulatedExecutionHandler.execute().                                    *)
OnOrder(e) ==
  /\ Pops(e, "order")
  /\ LET o == e.body
     IN  Replace(e, {Event(e.ts, "fill", 1, [ins  |-> o.ins, delta |-> o.delta,
                                             px   |-> FillPrice(o.ins, o.ref, o.delta),
                                             comm |-> Commission(o.ins, o.delta),
                                             slip |-> Slippage(o.ins, o.ref, o.delta)])})
  /\ UNCHANGED <<book, history, current, count, day, rows, sealed>>

(* Portfolio.apply_fill().                                                 *)
PaidInFull(f) == f.delta * f.px               \* mutant: debits margined notional

Paid(f) ==
  IF Terms[f.ins].margined THEN f.delta * (f.px - Money(f.ins, book.mark[f.ins]))
                           ELSE f.delta * f.px

OnFill(e) ==
  /\ Pops(e, "fill")
  /\ Replace(e, {})
  /\ LET f == e.body
     IN  /\ book' = [book EXCEPT !.cash = book.cash - Paid(f) - f.comm,
                                 !.pos[f.ins] = book.pos[f.ins] + f.delta]
         /\ day' = [day EXCEPT !.comm = day.comm + f.comm, !.slip = day.slip + f.slip]
  /\ UNCHANGED <<history, current, count, rows, sealed>>

(* Portfolio.on_signal(): later signals of a heartbeat override earlier.   *)
OnSignal(e) ==
  /\ Pops(e, "signal")
  /\ Replace(e, {})
  /\ LET new == e.body
     IN  current' = [c \in DOMAIN current \cup DOMAIN new |->
                       IF c \in DOMAIN new THEN new[c] ELSE current[c]]
  /\ UNCHANGED <<book, history, count, day, rows, sealed>>

(* Portfolio.record(): carry income, the row, and the lag buffer.          *)
OnRecord(e) ==
  /\ Pops(e, "record")
  /\ Replace(e, {})
  /\ LET income == SumFunction([c \in Ids |-> book.pos[c] * book.mark[c] * day.bar.carry[c]])
         closed == [book EXCEPT !.cash = book.cash + income]
     IN  /\ book' = closed
         /\ sealed' = closed
         /\ rows' = Append(rows, [equity |-> Equity(closed), pre |-> day.equity, book |-> closed,
                                  comm |-> day.comm, slip |-> day.slip, fin |-> day.fin,
                                  carry |-> income, traded |-> day.traded, bar |-> day.bar,
                                  weights |-> day.weights])
  /\ history' = Append(history, current)
  /\ current' = Hold
  /\ UNCHANGED <<count, day>>

Next ==
  \E e \in heap : OnMarket(e) \/ OnOrder(e) \/ OnFill(e) \/ OnSignal(e) \/ OnRecord(e)

Spec == Init /\ [][Next]_vars

-----------------------------------------------------------------------------
(* A bar is taken up only when nothing that an earlier bar led to is left  *)
(* on the heap: orders, fills, signals and the record are all done.        *)
DrainedBeforeNextBar == \A e \in heap : Pops(e, "market") => heap = {e}

(* When the heap is empty every bar has its row and its lag-buffer entry.  *)
AllRecorded == heap = {} => Len(rows) = count /\ Len(history) = count

Previous(i) == IF i = 1 THEN EmptyBook ELSE rows[i - 1].book

(* Every row's change of equity is explained, margined and cash-funded     *)
(* columns alike: the overnight positions' move of mark, the traded units' *)
(* move from the reference price to the close, less slippage, commission   *)
(* and financing, plus carry, each charged once.                           *)
PnlExplained ==
  \A i \in DOMAIN rows :
    LET old == Previous(i)
        new == rows[i].book
        Overnight(c) == old.pos[c] * (Money(c, new.mark[c]) - Money(c, old.mark[c]))
        Intraday(c)  == (new.pos[c] - old.pos[c])
                          * (Money(c, new.mark[c]) - Money(c, RefPrice(rows[i].bar, c)))
    IN  rows[i].equity = Equity(old) + SumFunction([c \in Ids |-> Overnight(c) + Intraday(c)])
                           - rows[i].slip - rows[i].comm - rows[i].fin + rows[i].carry

(* An instrument that is not shortable is short only after the pre-trade   *)
(* equity went negative, which turns every weight's sign around.           *)
NoForbiddenShort ==
  \A i \in DOMAIN rows : \A c \in Ids :
    rows[i].book.pos[c] < 0 /\ ~Terms[c].shortable => \E j \in 1..i : rows[j].pre < 0

(* The two engines agree: the event loop's rows are those of the           *)
(* vectorized engine, which sees of a day only its bar and its weights.    *)
Engine == INSTANCE BacktestEngine WITH book <- sealed, targets <- history

ImplementsEngine == Engine!Spec
=============================================================================
