-------------------------- MODULE QuotingEventLoop --------------------------
(***************************************************************************)
(* QuotingEventLoop (backtest/eventdriven/engine.py): the backtest of a    *)
(* market-making strategy over one recorded symbol.  The data handler      *)
(* yields books and trades in non-decreasing timestamp order; for each     *)
(* event the loop seals the previous heartbeat's row, settles the resting  *)
(* quotes, re-marks and re-quotes.  The loop is studied on every stream in *)
(* time order, a superset of the handler's, which at one timestamp yields  *)
(* the book before the prints.                                             *)
(***************************************************************************)
EXTENDS QuotingAccount

CONSTANTS
  Books,       \* the books the stream may show
  Trades,      \* the prints the stream may show: [px, size]
  QuoteSet,    \* the two-sided quotes the strategy's formula may produce
  QuoteSize,   \* the largest quote_size / take_size of those quotes
  QMax,        \* the strategy's q_max
  MaxEvents    \* bound: the length of the replayed stream

ASSUME StreamAssumption ==
  /\ Books \subseteq Book
  /\ \A bk \in Books : WellFormed(bk)
  /\ Trades \subseteq [px : Prices, size : Nat]
  /\ QuoteSize \in Nat \ {0}
  /\ QuoteSet \subseteq Quote
  /\ \A q \in QuoteSet, side \in Side : q[side].size <= QuoteSize
  /\ QMax \in Nat
  /\ MaxEvents \in Nat

VARIABLES
  seen,     \* events replayed so far
  now,      \* timestamp of the last one
  lastTs,   \* last_ts: the open heartbeat
  orders,   \* the matcher's _bid and _ask
  book,     \* the matcher's _prev_book
  acc,      \* the portfolio
  rows,     \* the recorded equity curve
  done      \* the stream is exhausted and the last row recorded

vars == <<seen, now, lastTs, orders, book, acc, rows, done>>

Init ==
  /\ seen = 0
  /\ now = 0
  /\ lastTs = NoTs
  /\ orders = NoOrders
  /\ book = EmptyBook
  /\ acc = InitAccount
  /\ rows = << >>
  /\ done = FALSE

(***************************************************************************)
(* What a quoting strategy of strategy/library/mm returns: nothing on a    *)
(* book with an empty side, else one quote whose side at the inventory     *)
(* limit is suppressed.  The prices come from floating-point formulas and  *)
(* are left free.                                                          *)
(***************************************************************************)
QuotedPastLimit(quote, pos) ==                \* mutant: > where the code has >=
  [quote EXCEPT !["bid"] = IF pos > QMax THEN NoLeg ELSE @,
                !["ask"] = IF pos < -QMax THEN NoLeg ELSE @]

OneSidedAtLimit(quote, pos) ==
  [quote EXCEPT !["bid"] = IF pos >= QMax THEN NoLeg ELSE @,
                !["ask"] = IF pos <= -QMax THEN NoLeg ELSE @]

StrategyQuotes(bk, pos) ==
  IF TwoSided(bk) THEN {OneSidedAtLimit(q, pos) : q \in QuoteSet} ELSE {}

(* The next event of the stream, at this timestamp or the next.            *)
Arrives(ts) ==
  /\ ~done
  /\ seen < MaxEvents
  /\ ts \in {now, now + 1}
  /\ seen' = seen + 1
  /\ now' = ts

(* The heartbeat that an event at ts runs in: a new timestamp seals the    *)
(* row of the previous one and zeroes the per-heartbeat costs.             *)
SealedRows(ts) ==
  IF ts = lastTs \/ lastTs = NoTs THEN rows ELSE Append(rows, RowOf(acc, lastTs))

Opened(ts) == IF ts = lastTs THEN acc ELSE OpenHeartbeat(acc)

SealLate(ts) ==                               \* mutant: after the event's fills
  /\ lastTs' = ts
  /\ rows' = IF ts = lastTs \/ lastTs = NoTs THEN rows ELSE Append(rows, RowOf(acc', lastTs))

Seal(ts) == lastTs' = ts /\ rows' = SealedRows(ts)

(* Quotes posted against the account as settled and marked by this book.   *)
Requote(bk, kept, settled, ts) ==
  IF StrategyQuotes(bk, settled.pos) = {}
    THEN orders' = kept /\ acc' = settled
    ELSE \E quote \in StrategyQuotes(bk, settled.pos) :
           LET posted == Post(bk, quote)
           IN  orders' = Orders(posted) /\ acc' = ApplyFills(settled, posted, ts)

OnBook(ts, bk) ==
  /\ Arrives(ts)
  /\ book' = bk
  /\ \E drawn \in Draws :
       LET hit     == MatchBook(orders, book, bk, drawn)
           settled == Mark(ApplyFills(Opened(ts), hit, ts), bk)
       IN  Requote(bk, Orders(hit), settled, ts)
  /\ Seal(ts)
  /\ UNCHANGED done

OnTrade(ts, tr) ==
  /\ Arrives(ts)
  /\ LET hit == MatchTrade(orders, tr.px, tr.size)
     IN  orders' = Orders(hit) /\ acc' = ApplyFills(Opened(ts), hit, ts)
  /\ Seal(ts)
  /\ UNCHANGED <<book, done>>

(* The stream may end after any event; the open heartbeat is recorded.     *)
Finish ==
  /\ ~done
  /\ done' = TRUE
  /\ rows' = IF lastTs = NoTs THEN rows ELSE Append(rows, RowOf(acc, lastTs))
  /\ UNCHANGED <<seen, now, lastTs, orders, book, acc>>

Next ==
  \/ \E ts \in {now, now + 1} :
       \/ \E bk \in Books : OnBook(ts, bk)
       \/ \E tr \in Trades : OnTrade(ts, tr)
  \/ Finish

Spec == Init /\ [][Next]_vars

-----------------------------------------------------------------------------
(* Type invariant.                                                         *)
TypeOK ==
  /\ seen \in Nat
  /\ now \in Nat
  /\ lastTs \in Nat \cup {NoTs}
  /\ orders \in [Side -> Order]
  /\ book \in Book
  /\ acc \in Account
  /\ rows \in Seq(Row)
  /\ done \in BOOLEAN

(* The volume the queue model waits for is really shown: the queue ahead   *)
(* of a resting quote never exceeds the size the last book displays at its *)
(* price, so a quote cannot wait for volume that is not there.             *)
QueueIsDisplayed ==
  \A side \in Side :
    Resting(orders[side]) =>
      orders[side].queue <= IF QueueModel THEN book[side].size[orders[side].px] ELSE 0

(* No quote is left resting at or through the opposing touch: a sweep      *)
(* always empties the queue ahead and fills it, and a marketable quote is  *)
(* executed when it is posted (on_book and post between them).             *)
NoStaleCross ==
  FillModel = "cross" =>
    \A side \in Side :
      Resting(orders[side]) => ~Crossed(book, side, orders[side].px)

(* A fill never meets an account without a mark, which would turn the cash *)
(* of a margined instrument into NaN.                                      *)
MarkedBeforeTrading ==
  acc.pos # 0 \/ (\E side \in Side : Resting(orders[side])) => acc.mark # 0

(* The inventory passes a limit by less than one quote, counting what the  *)
(* resting quotes may still add to it.                                     *)
Within(limit, pos, os) ==
  LET cap == limit + QuoteSize
  IN  /\ pos < cap /\ pos > -cap
      /\ Resting(os["bid"]) => pos + os["bid"].size < cap
      /\ Resting(os["ask"]) => pos - os["ask"].size > -cap

(* One-sided quoting at q_max bounds the inventory, however sweeps, prints *)
(* and taker fills interleave.                                             *)
InventoryWithinQMax == Within(QMax, acc.pos, orders)

(* The trades dated at most ts are the first n of the log.                 *)
Cut(log, ts, n) == \A i \in 1..Len(log) : i <= n <=> log[i].ts <= ts

(* A row tells of the trades up to its timestamp and of no later one: its  *)
(* position is what they leave, its commission what those dated exactly    *)
(* then have cost.                                                         *)
Told(row, log) ==
  \E m, n \in 0..Len(log) :
    /\ Cut(log, row.ts - 1, m)
    /\ Cut(log, row.ts, n)
    /\ row.pos = After(log, n).pos
    /\ row.fees = After(log, n).paid - After(log, m).paid

(* The equity curve has one row per timestamp, in order; no fill of a later *)
(* event leaks into a row and none of its own is missing; and every trade  *)
(* is in a row, or in the heartbeat that is still open (run(), which seals *)
(* a heartbeat on the next timestamp's first event, before its fills).     *)
RowsAreCausal ==
  /\ \A i, j \in 1..Len(rows) : i < j => rows[i].ts < rows[j].ts
  /\ \A i \in 1..Len(rows) : Told(rows[i], acc.trades)
  /\ \A k \in 1..Len(acc.trades) :
       \/ ~done /\ acc.trades[k].ts = lastTs
       \/ \E i \in 1..Len(rows) : rows[i].ts = acc.trades[k].ts
=============================================================================
