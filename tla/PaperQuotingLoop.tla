-------------------------- MODULE PaperQuotingLoop --------------------------
(***************************************************************************)
(* PaperQuotingLoop (trading/quoting_loop.py): a quoting strategy run on   *)
(* paper against a streamed book.  It extends the backtest's loop with an  *)
(* inventory cap and a drawdown kill-switch, and handles trades apart from *)
(* heartbeats.                                                             *)
(***************************************************************************)
EXTENDS QuotingEventLoop

CONSTANTS
  MaxInventory,   \* risk.max_inventory
  KillNum,        \* risk.max_drawdown_kill = KillNum / KillDen
  KillDen

ASSUME RiskAssumption ==
  /\ MaxInventory \in Nat
  /\ KillDen \in Nat \ {0}
  /\ KillNum \in 0..KillDen

VARIABLES
  halted,
  peak      \* _peak

paperVars == <<vars, halted, peak>>

PaperInit ==
  /\ Init
  /\ halted = FALSE
  /\ peak = InitialEquity

(* _cap(): the side that would grow the inventory further is suppressed;   *)
(* inv is read before the quote is posted.                                 *)
CapOffByOne(quote, inv) ==                    \* mutant: > where the code has >=
  [quote EXCEPT !["bid"] = IF inv > MaxInventory THEN NoLeg ELSE @,
                !["ask"] = IF inv < -MaxInventory THEN NoLeg ELSE @]

CapSwapped(quote, inv) ==                     \* mutant: the ask test lost its sign
  [quote EXCEPT !["bid"] = IF inv >= MaxInventory THEN NoLeg ELSE @,
                !["ask"] = IF inv <= MaxInventory THEN NoLeg ELSE @]

Cap(quote, inv) ==
  [quote EXCEPT !["bid"] = IF inv >= MaxInventory THEN NoLeg ELSE @,
                !["ask"] = IF inv <= -MaxInventory THEN NoLeg ELSE @]

Breached(equity, high) == KillDen * equity < (KillDen - KillNum) * high

(* Halted: the empty quote cancels both sides.  Otherwise the strategy's   *)
(* quote is capped and posted.                                             *)
PaperRequote(bk, kept, settled, ts, stop) ==
  IF stop
    THEN orders' = Orders(Post(bk, NoQuote)) /\ acc' = settled
  ELSE IF StrategyQuotes(bk, settled.pos) = {}
    THEN orders' = kept /\ acc' = settled
    ELSE \E quote \in StrategyQuotes(bk, settled.pos) :
           LET posted == Post(bk, Cap(quote, settled.pos))
           IN  orders' = Orders(posted) /\ acc' = ApplyFills(settled, posted, ts)

UnlatchedOnBook(ts, bk) ==                    \* mutant: a recovery resumes quoting
  /\ Arrives(ts)
  /\ book' = bk
  /\ \E drawn \in Draws :
       LET hit     == MatchBook(orders, book, bk, drawn)
           settled == Mark(ApplyFills(Opened(ts), hit, ts), bk)
           high    == IF Equity(settled) > peak THEN Equity(settled) ELSE peak
           stop    == Breached(Equity(settled), high)
       IN  /\ peak' = high
           /\ halted' = stop
           /\ PaperRequote(bk, Orders(hit), settled, ts, stop)
  /\ Seal(ts)
  /\ UNCHANGED done

PaperOnBook(ts, bk) ==
  /\ Arrives(ts)
  /\ book' = bk
  /\ \E drawn \in Draws :
       LET hit     == MatchBook(orders, book, bk, drawn)
           settled == Mark(ApplyFills(Opened(ts), hit, ts), bk)
           high    == IF Equity(settled) > peak THEN Equity(settled) ELSE peak
           stop    == halted \/ Breached(Equity(settled), high)
       IN  /\ peak' = high
           /\ halted' = stop
           /\ PaperRequote(bk, Orders(hit), settled, ts, stop)
  /\ Seal(ts)
  /\ UNCHANGED done

(* A print between books fills the resting quotes; it neither opens a      *)
(* heartbeat nor looks at the kill-switch.                                 *)
PaperOnTrade(ts, tr) ==
  /\ Arrives(ts)
  /\ IF halted
       THEN UNCHANGED <<orders, acc>>
       ELSE LET hit == MatchTrade(orders, tr.px, tr.size)
            IN  orders' = Orders(hit) /\ acc' = ApplyFills(acc, hit, ts)
  /\ UNCHANGED <<lastTs, rows, book, done, halted, peak>>

(* run() records the open heartbeat when its stream ends.                  *)
PaperFinish == Finish /\ UNCHANGED <<halted, peak>>

PaperNext ==
  \/ \E ts \in {now, now + 1} :
       \/ \E bk \in Books : PaperOnBook(ts, bk)
       \/ \E tr \in Trades : PaperOnTrade(ts, tr)
  \/ PaperFinish

PaperSpec == PaperInit /\ [][PaperNext]_paperVars

-----------------------------------------------------------------------------
PaperTypeOK ==
  /\ TypeOK
  /\ halted \in BOOLEAN
  /\ peak \in Int

(* The loop's own cap bounds the inventory whatever the strategy quotes:   *)
(* it passes max_inventory by less than one quote.                         *)
InventoryCapped == Within(MaxInventory, acc.pos, orders)

(* The kill-switch cancels everything and nothing rests afterwards.        *)
HaltedIsFlatBook == halted => \A side \in Side : ~Resting(orders[side])

(* Once halted the loop stays halted and the inventory never moves again.  *)
HaltIsFinal ==
  [][halted => halted' /\ acc'.pos = acc.pos /\ acc'.trades = acc.trades]_paperVars

(* "paper and backtest can't drift": without binding risk limits the paper *)
(* loop does what the backtest's loop does on the same stream.             *)
PaperImplementsBacktest == Spec
=============================================================================
