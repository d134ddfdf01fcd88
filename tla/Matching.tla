------------------------------ MODULE Matching ------------------------------
(***************************************************************************)
(* LimitOrderMatchingHandler (backtest/eventdriven/matching.py) for one    *)
(* symbol: two resting quotes matched against order books and trade        *)
(* prints.  The handler is called synchronously by both quoting loops, so  *)
(* its methods are operators from the resting quotes to the new resting    *)
(* quotes and the fills; the loops own the variables.                      *)
(*                                                                         *)
(* Prices are integer ticks and 0 stands for the code's None / NaN price.  *)
(* The markout reference (ref_mid) and slippage feed reports only.         *)
(***************************************************************************)
EXTENDS Integers

CONSTANTS
  Prices,       \* the tick prices of the books, trades and quotes
  QueueModel,   \* queue_model: fills wait for the displayed volume ahead
  FillModel,    \* fill_model: "cross" or "intensity"
  MakerBps,     \* cost_model.bps
  TakerBps      \* taker_cost_model.bps

ASSUME MatchingAssumption ==
  /\ Prices \subseteq Nat \ {0}
  /\ QueueModel \in BOOLEAN
  /\ FillModel \in {"cross", "intensity"}
  /\ MakerBps \in Nat
  /\ TakerBps \in Nat

Side == {"bid", "ask"}
Opposite(side) == IF side = "bid" THEN "ask" ELSE "bid"

(***************************************************************************)
(* A book shows, on each side, its best price (the first level, 0 when the *)
(* side is empty and best_bid / best_ask is NaN) and the size at each      *)
(* price.  No book yet (prev_book is None) is the book that shows nothing. *)
(***************************************************************************)
Level == [best : Prices \cup {0}, size : [Prices -> Nat]]
Book  == [Side -> Level]

EmptyBook == [side \in Side |-> [best |-> 0, size |-> [p \in Prices |-> 0]]]

TwoSided(bk) == bk["bid"].best # 0 /\ bk["ask"].best # 0

(* A venue's book: levels sorted best first, and bid below ask.            *)
WellFormed(bk) ==
  /\ \A side \in Side, p \in Prices :
       /\ bk[side].best = 0 => bk[side].size[p] = 0
       /\ bk[side].best # 0 /\ bk[side].size[p] > 0 =>
            IF side = "bid" THEN p <= bk[side].best ELSE p >= bk[side].best
  /\ TwoSided(bk) => bk["bid"].best < bk["ask"].best

(***************************************************************************)
(* Orders, quotes and fills.  A quote has a leg per side; a leg without a  *)
(* price or a size suppresses the side.                                    *)
(***************************************************************************)
Order == [px : Prices \cup {0}, size : Nat, queue : Nat]
Leg   == [px : Prices \cup {0}, size : Nat]
Quote == [Side -> Leg]
Fill  == [qty : Nat, px : Prices \cup {0}, bps : Nat]

NoOrder == [px |-> 0, size |-> 0, queue |-> 0]
NoLeg   == [px |-> 0, size |-> 0]
NoQuote == [side \in Side |-> NoLeg]
NoFill  == [qty |-> 0, px |-> 0, bps |-> 0]
NoOrders == [side \in Side |-> NoOrder]

Resting(o) == o.size > 0

(* The result of a handler call on one side: what rests and what filled.   *)
Outcome(o, f)  == [order |-> o, fill |-> f]
Orders(out)    == [side \in Side |-> out[side].order]

(* The opposing touch is at or through px: a quote at px is marketable.    *)
Crossed(bk, side, px) ==
  LET touch == bk[Opposite(side)].best
  IN  touch # 0 /\ (IF side = "bid" THEN touch <= px ELSE touch >= px)

(* px is inside the book's own touch: nobody is ahead of a quote there.    *)
Improves(bk, side, px) ==
  LET touch == bk[side].best
  IN  touch # 0 /\ (IF side = "bid" THEN px > touch ELSE px < touch)

QueueAhead(bk, side, px) ==
  IF ~QueueModel \/ Improves(bk, side, px) THEN 0 ELSE bk[side].size[px]

(* post(): each side is cancelled, executed as a taker or left resting.    *)
PostLegNeverTakes(bk, side, leg) ==      \* mutant: a marketable leg rests
  IF leg.px = 0 \/ leg.size = 0
    THEN Outcome(NoOrder, NoFill)
    ELSE Outcome([px |-> leg.px, size |-> leg.size,
                  queue |-> QueueAhead(bk, side, leg.px)], NoFill)

PostLeg(bk, side, leg) ==
  IF leg.px = 0 \/ leg.size = 0
    THEN Outcome(NoOrder, NoFill)
  ELSE IF Crossed(bk, side, leg.px)
    THEN Outcome(NoOrder, [qty |-> leg.size, px |-> bk[Opposite(side)].best,
                           bps |-> TakerBps])
    ELSE Outcome([px |-> leg.px, size |-> leg.size,
                  queue |-> QueueAhead(bk, side, leg.px)], NoFill)

Post(bk, quote) == [side \in Side |-> PostLeg(bk, side, quote[side])]

(* _deplete(): displayed size shrinking at our level moves us up the queue. *)
DepleteUnclamped(o, side, prev, cur) ==       \* mutant: no max(0, ...)
  LET drop == prev[side].size[o.px] - cur[side].size[o.px]
  IN  IF QueueModel /\ Resting(o) /\ o.queue > 0 /\ drop > 0
        THEN [o EXCEPT !.queue = @ - drop] ELSE o

DepleteNever(o, side, prev, cur) == o         \* mutant: forgets the shrinkage

Deplete(o, side, prev, cur) ==
  LET drop == prev[side].size[o.px] - cur[side].size[o.px]
  IN  IF QueueModel /\ Resting(o) /\ o.queue > 0 /\ drop > 0
        THEN [o EXCEPT !.queue = IF o.queue > drop THEN o.queue - drop ELSE 0]
        ELSE o

Passive(o, qty) == [qty |-> qty, px |-> o.px, bps |-> MakerBps]

(* on_book(): a sweep through our price fills the whole quote ("cross"),   *)
(* or the seeded draw says so ("intensity", no draw on a one-sided book).  *)
MatchBookSide(o, side, cur, drawn) ==
  IF /\ Resting(o)
     /\ IF FillModel = "cross" THEN o.queue = 0 /\ Crossed(cur, side, o.px)
                               ELSE drawn /\ TwoSided(cur)
    THEN Outcome(NoOrder, Passive(o, o.size))
    ELSE Outcome(o, NoFill)

Draws == IF FillModel = "cross" THEN {{}} ELSE SUBSET Side

MatchBook(orders, prev, cur, drawn) ==
  [side \in Side |->
     MatchBookSide(Deplete(orders[side], side, prev, cur), side, cur, side \in drawn)]

(* on_trade(): a print at or through our price eats the queue ahead, then  *)
(* fills us with what is left of it, possibly partially.                   *)
Smaller(a, b) == IF a <= b THEN a ELSE b

Reaches(side, o, px) == IF side = "bid" THEN px <= o.px ELSE px >= o.px

MatchTradeSide(o, side, px, size) ==
  LET ahead == Smaller(o.queue, size)
      qty   == IF ahead = o.queue THEN Smaller(o.size, size - ahead) ELSE 0
      left  == [o EXCEPT !.queue = o.queue - ahead, !.size = o.size - qty]
  IN  IF ~Resting(o) \/ ~Reaches(side, o, px)
        THEN Outcome(o, NoFill)
        ELSE Outcome(IF Resting(left) THEN left ELSE NoOrder,
                     IF qty > 0 THEN Passive(o, qty) ELSE NoFill)

MatchTrade(orders, px, size) ==
  [side \in Side |-> MatchTradeSide(orders[side], side, px, size)]
=============================================================================
