---------------------------- MODULE Quoting_proofs ---------------------------
(***************************************************************************)
(* Proofs about the two quoting loops.  The backtest's hold for every set  *)
(* of prices, books, trades and quotes, every inventory limit and both     *)
(* fill models; the paper loop's, which rest on the lemmas about the three *)
(* kinds of step proved for the backtest's, for every strategy, stream,    *)
(* fee schedule and fill model.                                            *)
(***************************************************************************)
EXTENDS PaperQuotingLoop, TLAPS

-----------------------------------------------------------------------------
(* Lemmas about the matcher.                                               *)

OutcomeOK(out) == out \in [order : Order, fill : Fill]

(* What a handler takes in is either filled or still resting.              *)
Splits(size, out) == out.fill.qty + out.order.size = size

LEMMA PriceIsNat == \A px \in Prices \cup {0} : px \in Nat
  BY MatchingAssumption DEF MatchingAssumption

LEMMA NoOrderType == NoOrder \in Order /\ NoFill \in Fill /\ NoLeg \in Leg
  BY DEF NoOrder, NoFill, NoLeg, Order, Fill, Leg

LEMMA PostLegType ==
  ASSUME NEW bk \in Book, NEW side \in Side, NEW leg \in Leg
  PROVE  LET out == PostLeg(bk, side, leg)
         IN  /\ OutcomeOK(out)
             /\ out.fill.qty + out.order.size <= leg.size
             /\ leg = NoLeg => out.order = NoOrder /\ out.fill = NoFill
  <1>1. Opposite(side) \in Side
    BY DEF Opposite, Side
  <1>2. bk[Opposite(side)].best \in Prices \cup {0} /\ bk[side].size \in [Prices -> Nat]
    BY <1>1 DEF Book, Level
  <1>3. leg.px # 0 => QueueAhead(bk, side, leg.px) \in Nat
    BY <1>2 DEF QueueAhead, Leg
  <1>4. TakerBps \in Nat
    BY MatchingAssumption DEF MatchingAssumption
  <1>5. CASE leg.px = 0 \/ leg.size = 0
    BY <1>5, NoOrderType DEF PostLeg, Outcome, OutcomeOK, NoOrder, NoFill, Leg
  <1>6. CASE ~(leg.px = 0 \/ leg.size = 0) /\ Crossed(bk, side, leg.px)
    BY <1>2, <1>4, <1>6, NoOrderType
    DEF PostLeg, Outcome, OutcomeOK, NoOrder, NoFill, NoLeg, Leg, Fill
  <1>7. CASE ~(leg.px = 0 \/ leg.size = 0) /\ ~Crossed(bk, side, leg.px)
    BY <1>3, <1>7, NoOrderType
    DEF PostLeg, Outcome, OutcomeOK, NoOrder, NoFill, NoLeg, Leg, Order
  <1>8. QED BY <1>5, <1>6, <1>7

LEMMA DepleteType ==
  ASSUME NEW o \in Order, NEW side \in Side, NEW prev \in Book, NEW cur \in Book,
         o.px = 0 => ~Resting(o)
  PROVE  LET d == Deplete(o, side, prev, cur)
         IN d \in Order /\ d.size = o.size /\ d.px = o.px
  <1>1. CASE Resting(o)
    <2>1. prev[side].size[o.px] \in Nat /\ cur[side].size[o.px] \in Nat
      BY <1>1 DEF Book, Level, Order
    <2>2. QED BY <2>1 DEF Deplete, Order
  <1>2. CASE ~Resting(o)
    BY <1>2 DEF Deplete, Order
  <1>3. QED BY <1>1, <1>2

LEMMA MatchBookSideType ==
  ASSUME NEW o \in Order, NEW side \in Side, NEW cur \in Book, NEW drawn
  PROVE  LET out == MatchBookSide(o, side, cur, drawn)
         IN  /\ OutcomeOK(out)
             /\ Splits(o.size, out)
             /\ out.order \in {o, NoOrder}
  BY NoOrderType, MatchingAssumption
  DEF MatchBookSide, Outcome, OutcomeOK, Splits, Passive, NoOrder, NoFill, Order, Fill,
      MatchingAssumption

LEMMA MatchTradeSideType ==
  ASSUME NEW o \in Order, NEW side \in Side, NEW px \in Prices, NEW size \in Nat
  PROVE  LET out == MatchTradeSide(o, side, px, size)
         IN  /\ OutcomeOK(out)
             /\ Splits(o.size, out)
             /\ out.order.size # 0 => out.order.px = o.px /\ out.order.queue <= o.queue
  <1> DEFINE ahead == Smaller(o.queue, size)
             qty == IF ahead = o.queue THEN Smaller(o.size, size - ahead) ELSE 0
             left == [o EXCEPT !.queue = o.queue - ahead, !.size = o.size - qty]
  <1>1. ahead \in Nat /\ ahead <= o.queue /\ ahead <= size
    BY DEF Smaller, Order
  <1>2. qty \in Nat /\ qty <= o.size
    BY <1>1 DEF Smaller, Order
  <1>3. left \in Order /\ left.size = o.size - qty /\ left.px = o.px
          /\ left.queue <= o.queue
    <2> HIDE DEF ahead, qty
    <2>1. o.queue - ahead \in Nat /\ o.queue - ahead <= o.queue /\ o.size - qty \in Nat
      BY <1>1, <1>2 DEF Order
    <2>2. QED BY <2>1 DEF Order
  <1>4. Passive(o, qty) \in Fill /\ Passive(o, qty).qty = qty
    BY <1>2, MatchingAssumption DEF Passive, Fill, Order, MatchingAssumption
  <1>5. MatchTradeSide(o, side, px, size) =
          IF ~Resting(o) \/ ~Reaches(side, o, px)
            THEN Outcome(o, NoFill)
            ELSE Outcome(IF Resting(left) THEN left ELSE NoOrder,
                         IF qty > 0 THEN Passive(o, qty) ELSE NoFill)
    BY DEF MatchTradeSide
  <1> HIDE DEF ahead, qty, left
  <1>6. QED
    BY <1>2, <1>3, <1>4, <1>5, NoOrderType
    DEF Outcome, OutcomeOK, Splits, NoOrder, NoFill, Order, Resting

-----------------------------------------------------------------------------
(* Lemmas about the account.                                               *)

LEMMA FillMoney ==
  ASSUME NEW f \in Fill
  PROVE  Money(f.px) \in Int /\ Commission(f) \in Int
  <1>1. f.px \in Nat /\ f.qty \in Nat /\ f.bps \in Nat
    <2>1. f.px \in Prices \cup {0} /\ f.qty \in Nat /\ f.bps \in Nat
      BY DEF Fill
    <2>2. QED BY <2>1, PriceIsNat
  <1>2. BpsBase \in Nat
    BY AccountAssumption DEF AccountAssumption
  <1>3. ASSUME NEW x \in Nat, NEW y \in Nat  PROVE x * y \in Nat
    OBVIOUS
  <1>4. 2 * BpsBase \in Nat /\ 2 * f.qty \in Nat
    BY <1>1, <1>2
  <1>5. (2 * BpsBase) * f.px \in Nat /\ (2 * f.qty) * f.px \in Nat
    BY <1>1, <1>3, <1>4
  <1>6. ((2 * f.qty) * f.px) * f.bps \in Nat
    BY <1>1, <1>3, <1>5
  <1>7. QED BY <1>5, <1>6 DEF Money, Commission

(* What an account that goes from a to b by trades at ts has written down: *)
(* they are at the end of the log and leave the rest of it alone, and an   *)
(* account that balances with its log still does.                          *)
Balanced(a, ts) ==
  /\ \A k \in 1..Len(a.trades) : a.trades[k].ts <= ts
  /\ \E m \in 0..Len(a.trades) :
       /\ Cut(a.trades, ts - 1, m)
       /\ a.pos = After(a.trades, Len(a.trades)).pos
       /\ a.fees = After(a.trades, Len(a.trades)).paid - After(a.trades, m).paid

Extends(old, new, ts) ==
  /\ Len(old) <= Len(new)
  /\ \A k \in 1..Len(old) : new[k] = old[k]
  /\ \A k \in 1..Len(new) : k > Len(old) => new[k].ts = ts

Booked(a, b, ts) ==
  Extends(a.trades, b.trades, ts) /\ (Balanced(a, ts) => Balanced(b, ts))

LEMMA CutStays ==
  ASSUME NEW old \in Seq(Trade), NEW new \in Seq(Trade), NEW ts \in Nat,
         Extends(old, new, ts), NEW u \in Int, u < ts,
         NEW m \in 0..Len(old), Cut(old, u, m)
  PROVE  m \in 0..Len(new) /\ Cut(new, u, m)
  <1>1. Len(old) \in Nat /\ Len(new) \in Nat /\ Len(old) <= Len(new)
    BY DEF Extends
  <1>2. ASSUME NEW k \in 1..Len(new) PROVE k <= m <=> new[k].ts <= u
    <2>1. CASE k \in 1..Len(old)
      BY <2>1 DEF Cut, Extends
    <2>2. CASE k > Len(old)
      <3>1. new[k].ts = ts
        BY <2>2 DEF Extends
      <3>2. QED BY <1>1, <2>2, <3>1
    <2>3. QED BY <1>1, <2>1, <2>2
  <1>3. QED BY <1>1, <1>2 DEF Cut

LEMMA NothingBooked ==
  ASSUME NEW a \in Account, NEW b \in Account, NEW ts,
         b.trades = a.trades, b.pos = a.pos, b.fees = a.fees
  PROVE  Booked(a, b, ts)
  BY DEF Booked, Extends, Balanced, Account

LEMMA BookedTwice ==
  ASSUME NEW a \in Account, NEW b \in Account, NEW c \in Account, NEW ts \in Nat,
         Booked(a, b, ts), Booked(b, c, ts)
  PROVE  Booked(a, c, ts)
  <1>1. Extends(a.trades, c.trades, ts)
    <2> DEFINE la == a.trades  lb == b.trades  lc == c.trades
    <2>1. /\ Len(la) \in Nat /\ Len(lb) \in Nat /\ Len(lc) \in Nat
          /\ Len(la) <= Len(lb) /\ Len(lb) <= Len(lc)
          /\ \A k \in 1..Len(la) : lb[k] = la[k]
          /\ \A k \in 1..Len(lb) : lc[k] = lb[k]
          /\ \A k \in 1..Len(lb) : k > Len(la) => lb[k].ts = ts
          /\ \A k \in 1..Len(lc) : k > Len(lb) => lc[k].ts = ts
      BY DEF Booked, Extends, Account
    <2> HIDE DEF la, lb, lc
    <2>2. \A k \in 1..Len(la) : k \in 1..Len(lb) /\ lc[k] = la[k]
      BY <2>1
    <2>3. \A k \in 1..Len(lc) : k > Len(la) => lc[k].ts = ts
      BY <2>1
    <2>4. QED BY <2>1, <2>2, <2>3 DEF Extends, la, lb, lc
  <1>2. QED BY <1>1 DEF Booked

(* One more trade, and the position and the fees it brings.                *)
LEMMA OneMoreTrade ==
  ASSUME NEW a \in Account, NEW b \in Account, NEW ts \in Nat, NEW paid \in Int,
         NEW t \in Trade, t.ts = ts, t.pos = b.pos,
         t.paid = After(a.trades, Len(a.trades)).paid + paid,
         b.trades = Append(a.trades, t), b.fees = a.fees + paid
  PROVE  Booked(a, b, ts)
  <1> DEFINE old == a.trades
             new == b.trades
             n   == Len(old)
  <1>1. /\ old \in Seq(Trade) /\ new \in Seq(Trade)
        /\ n = Len(old) /\ n \in Nat /\ Len(new) = n + 1
        /\ \A k \in 1..n : new[k] = old[k]
        /\ new[n + 1] = t
    BY DEF Account
  <1>2. /\ \A m \in 0..n : After(new, m) = After(old, m) /\ After(old, m).paid \in Int
        /\ After(new, n + 1).pos = t.pos /\ After(new, n + 1).paid = t.paid
    <2> HIDE DEF old, new
    <2>1. \A m \in 1..n : old[m] \in Trade
      BY <1>1
    <2>2. \A m \in 1..n : old[m].paid \in Int
      BY <2>1 DEF Trade
    <2>3. QED BY <1>1, <2>2 DEF After
  <1>3. Extends(old, new, ts)
    BY <1>1 DEF Extends
  <1>4. ASSUME Balanced(a, ts) PROVE Balanced(b, ts)
    <2>1. PICK m \in 0..n :
            /\ Cut(old, ts - 1, m)
            /\ a.pos = After(old, n).pos
            /\ a.fees = After(old, n).paid - After(old, m).paid
      BY <1>4 DEF Balanced
    <2>2. \A k \in 1..n : old[k].ts <= ts
      BY <1>4 DEF Balanced
    <2> HIDE DEF old, new, n
    <2>3. \A k \in 1..Len(new) : new[k].ts <= ts
      BY <1>1, <2>2
    <2>4. m \in 0..Len(new) /\ Cut(new, ts - 1, m)
      BY <1>1, <1>3, <2>1, CutStays
    <2>5. b.fees = After(new, Len(new)).paid - After(new, m).paid
      <3>1. /\ After(new, Len(new)).paid = After(old, n).paid + paid
            /\ After(new, m).paid = After(old, m).paid
            /\ After(old, n).paid \in Int /\ After(old, m).paid \in Int
        BY <1>1, <1>2, <2>1 DEF old, n
      <3>2. QED BY <2>1, <3>1
    <2>6. b.pos = After(new, Len(new)).pos
      BY <1>1, <1>2
    <2>7. QED BY <2>3, <2>4, <2>5, <2>6 DEF Balanced, new
  <1>5. QED BY <1>3, <1>4 DEF Booked

LEMMA ApplyFillType ==
  ASSUME NEW a \in Account, NEW side \in Side, NEW f \in Fill, NEW ts \in Nat
  PROVE  LET b == ApplyFill(a, side, f, ts)
         IN  /\ b \in Account
             /\ b.pos = IF side = "bid" THEN a.pos + f.qty ELSE a.pos - f.qty
             /\ b.mark = a.mark
             /\ Booked(a, b, ts)
             /\ f.qty = 0 => b = a
  <1>1. Money(f.px) \in Int /\ Commission(f) \in Int
    BY FillMoney
  <1> HIDE DEF Money, Commission
  <1> DEFINE delta == IF side = "bid" THEN f.qty ELSE -f.qty
             paid == IF Margined THEN delta * (Money(f.px) - a.mark)
                                 ELSE delta * Money(f.px)
             trade == [ts |-> ts, pos |-> a.pos + delta,
                       paid |-> After(a.trades, Len(a.trades)).paid + Commission(f)]
  <1>2. delta \in Int
    BY DEF Fill
  <1>3. paid \in Int
    <2> HIDE DEF delta
    <2> QED BY <1>1, <1>2 DEF Account
  <1>4. ApplyFill(a, side, f, ts) =
          IF f.qty = 0 THEN a
          ELSE [a EXCEPT !.cash = a.cash - paid - Commission(f), !.pos = a.pos + delta,
                         !.fees = a.fees + Commission(f), !.trades = Append(a.trades, trade)]
    BY DEF ApplyFill
  <1>5. f.qty \in Nat /\ a.pos \in Int
    BY DEF Fill, Account
  <1> HIDE DEF paid
  <1>6. delta = IF side = "bid" THEN f.qty ELSE -f.qty
    OBVIOUS
  <1> HIDE DEF delta
  <1>7. trade \in Trade
    <2>1. After(a.trades, Len(a.trades)).paid \in Int
      <3>1. a.trades \in Seq(Trade) /\ Len(a.trades) \in Nat
        BY DEF Account
      <3>2. CASE Len(a.trades) = 0
        BY <3>2 DEF After
      <3>3. CASE Len(a.trades) # 0
        <4>1. a.trades[Len(a.trades)] \in Trade
          BY <3>1, <3>3
        <4>2. QED BY <3>3, <4>1 DEF After, Trade
      <3>4. QED BY <3>2, <3>3
    <2>2. QED BY <1>1, <1>2, <1>5, <2>1 DEF Trade
  <1>8. /\ trade.ts = ts /\ trade.pos = a.pos + delta
        /\ trade.paid = After(a.trades, Len(a.trades)).paid + Commission(f)
    OBVIOUS
  <1> HIDE DEF trade
  <1> DEFINE cash == a.cash - paid - Commission(f)
             fees == a.fees + Commission(f)
             log  == Append(a.trades, trade)
             b == [a EXCEPT !.cash = cash, !.pos = a.pos + delta, !.fees = fees,
                            !.trades = log]
  <1>9. cash \in Int /\ fees \in Int /\ a.pos + delta \in Int /\ log \in Seq(Trade)
    BY <1>1, <1>2, <1>3, <1>7 DEF Account
  <1>10. ApplyFill(a, side, f, ts) = IF f.qty = 0 THEN a ELSE b
    BY <1>4
  <1>11. fees = a.fees + Commission(f) /\ log = Append(a.trades, trade)
    OBVIOUS
  <1> HIDE DEF cash, fees, log
  <1>12. b \in Account /\ b.pos = a.pos + delta /\ b.mark = a.mark
           /\ b.trades = log /\ b.fees = fees
    BY <1>9 DEF Account
  <1> HIDE DEF b
  <1>13. Booked(a, b, ts)
    BY <1>1, <1>7, <1>8, <1>11, <1>12, OneMoreTrade
  <1>14. Booked(a, a, ts)
    BY NothingBooked
  <1>15. QED BY <1>2, <1>5, <1>6, <1>10, <1>12, <1>13, <1>14

LEMMA ApplyFillsType ==
  ASSUME NEW a \in Account, NEW out, NEW ts \in Nat,
         out["bid"].fill \in Fill, out["ask"].fill \in Fill
  PROVE  LET b == ApplyFills(a, out, ts)
         IN  /\ b \in Account
             /\ b.pos = a.pos + out["bid"].fill.qty - out["ask"].fill.qty
             /\ b.mark = a.mark
             /\ Booked(a, b, ts)
             /\ out["bid"].fill.qty = 0 /\ out["ask"].fill.qty = 0 => b = a
  <1> DEFINE c == ApplyFill(a, "bid", out["bid"].fill, ts)
  <1>1. c \in Account /\ c.pos = a.pos + out["bid"].fill.qty /\ c.mark = a.mark
          /\ Booked(a, c, ts)
          /\ (out["bid"].fill.qty = 0 => c = a)
    BY ApplyFillType DEF Side
  <1>2. ApplyFills(a, out, ts) = ApplyFill(c, "ask", out["ask"].fill, ts)
    BY DEF ApplyFills
  <1> HIDE DEF c
  <1>3. LET b == ApplyFill(c, "ask", out["ask"].fill, ts)
        IN  /\ b \in Account
            /\ b.pos = c.pos - out["ask"].fill.qty
            /\ b.mark = c.mark
            /\ Booked(c, b, ts)
            /\ out["ask"].fill.qty = 0 => b = c
    BY <1>1, ApplyFillType DEF Side
  <1>4. /\ a.pos \in Int /\ c.pos \in Int
        /\ out["bid"].fill.qty \in Nat /\ out["ask"].fill.qty \in Nat
    BY <1>1 DEF Account, Fill
  <1>5. Booked(a, ApplyFills(a, out, ts), ts)
    BY <1>1, <1>2, <1>3, BookedTwice
  <1>6. QED BY <1>1, <1>2, <1>3, <1>4, <1>5

LEMMA MarkType ==
  ASSUME NEW a \in Account, NEW bk \in Book
  PROVE  LET b == Mark(a, bk)
         IN  b \in Account /\ b.pos = a.pos /\ b.trades = a.trades /\ b.fees = a.fees
  <1>1. bk["bid"].best \in Nat /\ bk["ask"].best \in Nat
    BY PriceIsNat DEF Book, Level, Side
  <1>2. MidMoney(bk) \in Nat
    BY <1>1, AccountAssumption DEF MidMoney, AccountAssumption
  <1>3. a.pos * (MidMoney(bk) - a.mark) \in Int
    BY <1>2 DEF Account
  <1> DEFINE cash == IF Margined /\ a.pos # 0 /\ a.mark # 0
                       THEN a.cash + a.pos * (MidMoney(bk) - a.mark)
                       ELSE a.cash
             b == [a EXCEPT !.mark = MidMoney(bk), !.cash = cash]
  <1>4. cash \in Int
    BY <1>3 DEF Account
  <1>5. Mark(a, bk) = IF ~TwoSided(bk) THEN a ELSE b
    BY DEF Mark
  <1> HIDE DEF cash, MidMoney
  <1>6. b \in Account /\ b.pos = a.pos /\ b.trades = a.trades /\ b.fees = a.fees
    BY <1>2, <1>4 DEF Account
  <1>7. QED BY <1>5, <1>6

LEMMA RowType ==
  ASSUME NEW a \in Account, NEW ts \in Nat
  PROVE  RowOf(a, ts) \in Row
  <1>1. a.pos * a.mark \in Int
    BY DEF Account
  <1>2. Equity(a) \in Int
    BY <1>1 DEF Equity, Holdings, Account
  <1>3. QED BY <1>2 DEF RowOf, Row, Account

-----------------------------------------------------------------------------
(* What the resting quotes satisfy against the last book, for any prices   *)
(* and either fill model: the invariants about the matcher in one place.   *)
OrdersOK(os, bk) ==
  /\ os \in [Side -> Order]
  /\ \A side \in Side : Resting(os[side]) =>
       /\ os[side].px # 0
       /\ os[side].queue <= IF QueueModel THEN bk[side].size[os[side].px] ELSE 0
       /\ FillModel = "cross" => ~Crossed(bk, side, os[side].px)

(* Queue depletion keeps the queue within what is displayed, and empties   *)
(* it when the opposing touch reaches the quote.                           *)
LEMMA DepleteKeepsUp ==
  ASSUME NEW o \in Order, NEW side \in Side, NEW prev \in Book, NEW cur \in Book,
         Resting(o), o.px # 0, WellFormed(cur),
         o.queue <= IF QueueModel THEN prev[side].size[o.px] ELSE 0
  PROVE  LET d == Deplete(o, side, prev, cur)
         IN  /\ d.queue <= IF QueueModel THEN cur[side].size[o.px] ELSE 0
             /\ Crossed(cur, side, o.px) => d.queue = 0
  <1> DEFINE d == Deplete(o, side, prev, cur)
  <1>1. /\ o.px \in Prices /\ o.queue \in Nat
        /\ prev[side].size[o.px] \in Nat /\ cur[side].size[o.px] \in Nat
    BY DEF Order, Book, Level
  <1>2. CASE ~QueueModel
    BY <1>1, <1>2 DEF Deplete
  <1>3. CASE QueueModel
    <2>1. d.queue <= cur[side].size[o.px] /\ d.queue \in Nat
      BY <1>1, <1>3 DEF Deplete, Order
    <2>2. ASSUME Crossed(cur, side, o.px)
          PROVE  cur[side].size[o.px] = 0
      <3>1. o.px \in Nat /\ cur["bid"].best \in Nat /\ cur["ask"].best \in Nat
        BY <1>1, PriceIsNat DEF Book, Level, Side
      <3>2. CASE side = "bid"
        BY <1>1, <2>2, <3>1, <3>2 DEF Crossed, Opposite, WellFormed, TwoSided, Side
      <3>3. CASE side = "ask"
        BY <1>1, <2>2, <3>1, <3>3 DEF Crossed, Opposite, WellFormed, TwoSided, Side
      <3>4. QED BY <3>2, <3>3 DEF Side
    <2>3. QED BY <1>1, <1>3, <2>1, <2>2
  <1>4. QED BY <1>2, <1>3

(* The quotes that survive a book are in order against that book.          *)
LEMMA MatchBookOrders ==
  ASSUME NEW os, NEW prev \in Book, NEW cur \in Book, NEW drawn,
         OrdersOK(os, prev), WellFormed(cur)
  PROVE  LET hit == MatchBook(os, prev, cur, drawn)
         IN  /\ OrdersOK(Orders(hit), cur)
             /\ \A side \in Side : hit[side].fill \in Fill /\ Splits(os[side].size, hit[side])
  <1> DEFINE hit == MatchBook(os, prev, cur, drawn)
  <1>1. ASSUME NEW side \in Side
        PROVE  LET out == hit[side]
               IN  /\ OutcomeOK(out)
                   /\ Splits(os[side].size, out)
                   /\ Resting(out.order) =>
                        /\ out.order.px # 0
                        /\ out.order.queue <=
                             IF QueueModel THEN cur[side].size[out.order.px] ELSE 0
                        /\ FillModel = "cross" => ~Crossed(cur, side, out.order.px)
    <2> DEFINE o == os[side]
               d == Deplete(o, side, prev, cur)
               out == MatchBookSide(d, side, cur, side \in drawn)
    <2>1. o \in Order /\ (o.px = 0 => ~Resting(o))
      BY DEF OrdersOK
    <2>2. d \in Order /\ d.size = o.size /\ d.px = o.px
      BY <2>1, DepleteType
    <2>3. hit[side] = out
      BY DEF MatchBook
    <2>4. OutcomeOK(out) /\ Splits(o.size, out) /\ out.order \in {d, NoOrder}
      BY <2>2, MatchBookSideType
    <2>5. ASSUME Resting(out.order)
          PROVE  /\ out.order = d /\ Resting(o)
                 /\ FillModel = "cross" => ~(d.queue = 0 /\ Crossed(cur, side, d.px))
      <3>1. d.size \in Nat /\ out.order.size > 0
        BY <2>2, <2>5 DEF Resting, Order
      <3>2. out.order = d /\ Resting(d)
        BY <2>4, <2>5 DEF NoOrder, Resting
      <3>3. NoOrder # d
        BY <3>2 DEF NoOrder, Resting
      <3>4. FillModel = "cross" => ~(d.queue = 0 /\ Crossed(cur, side, d.px))
        <4> HIDE DEF d
        <4> QED BY <3>2, <3>3 DEF MatchBookSide, Outcome
      <3>5. QED BY <2>2, <3>2, <3>4 DEF Resting
    <2>6. Resting(o) =>
            /\ d.queue <= IF QueueModel THEN cur[side].size[o.px] ELSE 0
            /\ Crossed(cur, side, o.px) => d.queue = 0
      BY <2>1, DepleteKeepsUp DEF OrdersOK
    <2> HIDE DEF o, d, out
    <2>7. Resting(out.order) =>
            /\ out.order.px # 0
            /\ out.order.queue <= IF QueueModel THEN cur[side].size[out.order.px] ELSE 0
            /\ FillModel = "cross" => ~Crossed(cur, side, out.order.px)
      BY <2>1, <2>2, <2>5, <2>6
    <2>8. QED BY <2>3, <2>4, <2>7 DEF o
  <1> HIDE DEF hit
  <1>2. Orders(hit) \in [Side -> Order]
    BY <1>1 DEF Orders, OutcomeOK
  <1>3. \A side \in Side : Orders(hit)[side] = hit[side].order
    BY DEF Orders
  <1>4. OrdersOK(Orders(hit), cur)
    BY <1>1, <1>2, <1>3 DEF OrdersOK
  <1>5. \A side \in Side : hit[side].fill \in Fill /\ Splits(os[side].size, hit[side])
    BY <1>1 DEF OutcomeOK
  <1>6. QED BY <1>4, <1>5 DEF hit

LEMMA MatchTradeOrders ==
  ASSUME NEW os, NEW bk \in Book, NEW px \in Prices, NEW size \in Nat,
         OrdersOK(os, bk)
  PROVE  LET hit == MatchTrade(os, px, size)
         IN  /\ OrdersOK(Orders(hit), bk)
             /\ \A side \in Side : hit[side].fill \in Fill /\ Splits(os[side].size, hit[side])
  <1> DEFINE hit == MatchTrade(os, px, size)
  <1>1. \A side \in Side : os[side] \in Order /\ hit[side] = MatchTradeSide(os[side], side, px, size)
    BY DEF OrdersOK, MatchTrade
  <1>2. ASSUME NEW side \in Side
        PROVE  LET out == hit[side]
               IN  /\ OutcomeOK(out)
                   /\ Splits(os[side].size, out)
                   /\ out.order.size # 0 => out.order.px = os[side].px
                                             /\ out.order.queue <= os[side].queue
    BY <1>1, MatchTradeSideType
  <1> HIDE DEF hit
  <1>3. ASSUME NEW side \in Side, Resting(hit[side].order)
        PROVE  LET o == hit[side].order
               IN  /\ o.px # 0
                   /\ o.queue <= IF QueueModel THEN bk[side].size[o.px] ELSE 0
                   /\ FillModel = "cross" => ~Crossed(bk, side, o.px)
    <2> DEFINE o == hit[side].order
               limit == IF QueueModel THEN bk[side].size[o.px] ELSE 0
    <2>1. o \in Order /\ o.px = os[side].px /\ o.queue <= os[side].queue /\ o.size # 0
      BY <1>2, <1>3 DEF OutcomeOK, Resting
    <2>2. Resting(os[side]) /\ os[side] \in Order
      BY <1>1, <1>2, <2>1 DEF OutcomeOK, Splits, Resting, Order, Fill
    <2>3. o.px # 0 /\ os[side].queue <= limit /\ (FillModel = "cross" => ~Crossed(bk, side, o.px))
      BY <2>1, <2>2 DEF OrdersOK
    <2>4. limit \in Nat /\ o.queue \in Nat /\ os[side].queue \in Nat
      BY <2>1, <2>2, <2>3 DEF Order, Book, Level
    <2> HIDE DEF o, limit
    <2>5. o.queue <= limit
      BY <2>1, <2>3, <2>4
    <2>6. QED BY <2>3, <2>5 DEF o, limit
  <1>4. Orders(hit) \in [Side -> Order]
    BY <1>2 DEF Orders, OutcomeOK
  <1>5. \A side \in Side : Orders(hit)[side] = hit[side].order
    BY DEF Orders
  <1>6. OrdersOK(Orders(hit), bk)
    BY <1>3, <1>4, <1>5 DEF OrdersOK
  <1>7. \A side \in Side : hit[side].fill \in Fill /\ Splits(os[side].size, hit[side])
    BY <1>2 DEF OutcomeOK
  <1>8. QED BY <1>6, <1>7 DEF hit

(* Posting leaves each side empty, or resting in order against the book.   *)
LEMMA PostOrders ==
  ASSUME NEW bk \in Book, NEW quote \in Quote
  PROVE  LET posted == Post(bk, quote)
         IN  /\ OrdersOK(Orders(posted), bk)
             /\ \A side \in Side :
                  /\ posted[side].fill \in Fill
                  /\ posted[side].fill.qty + posted[side].order.size <= quote[side].size
                  /\ quote[side] = NoLeg => posted[side].order = NoOrder
                                             /\ posted[side].fill = NoFill
  <1> DEFINE posted == Post(bk, quote)
  <1>1. ASSUME NEW side \in Side
        PROVE  /\ OutcomeOK(posted[side])
               /\ posted[side].fill.qty + posted[side].order.size <= quote[side].size
               /\ quote[side] = NoLeg => posted[side].order = NoOrder
                                          /\ posted[side].fill = NoFill
    BY PostLegType DEF Post, Quote
  <1>2. ASSUME NEW side \in Side, Resting(posted[side].order)
        PROVE  LET o == posted[side].order
               IN  /\ o.px # 0
                   /\ o.queue <= IF QueueModel THEN bk[side].size[o.px] ELSE 0
                   /\ ~Crossed(bk, side, o.px)
    <2> DEFINE leg == quote[side]
    <2>1. posted[side] = PostLeg(bk, side, leg)
      BY DEF Post
    <2>2. leg.px # 0 /\ ~Crossed(bk, side, leg.px)
            /\ posted[side].order = [px |-> leg.px, size |-> leg.size,
                                     queue |-> QueueAhead(bk, side, leg.px)]
      BY <1>2, <2>1 DEF PostLeg, Outcome, NoOrder, Resting
    <2>3. leg.px \in Prices
      BY <2>2 DEF Quote, Leg
    <2>4. bk[side].size[leg.px] \in Nat
      BY <2>3 DEF Book, Level
    <2>5. QueueAhead(bk, side, leg.px) <= IF QueueModel THEN bk[side].size[leg.px] ELSE 0
      BY <2>4 DEF QueueAhead
    <2> HIDE DEF posted, leg
    <2>6. QED BY <2>2, <2>5
  <1> HIDE DEF posted
  <1>3. Orders(posted) \in [Side -> Order]
    BY <1>1 DEF Orders, OutcomeOK
  <1>4. \A side \in Side : Orders(posted)[side] = posted[side].order
    BY DEF Orders
  <1>5. OrdersOK(Orders(posted), bk)
    BY <1>2, <1>3, <1>4 DEF OrdersOK
  <1>6. QED BY <1>1, <1>5 DEF posted, OutcomeOK

-----------------------------------------------------------------------------
(* Inventory arithmetic: filling resting quotes moves size from "may still *)
(* fill" to "filled", and posting starts from a suppressed side or from an *)
(* inventory inside the limit.                                             *)
LEMMA FillsStayWithin ==
  ASSUME NEW limit \in Nat, NEW pos \in Int, NEW os \in [Side -> Order], NEW hit,
         \A side \in Side : hit[side].fill \in Fill /\ hit[side].order \in Order
                            /\ Splits(os[side].size, hit[side]),
         Within(limit, pos, os)
  PROVE  Within(limit, pos + hit["bid"].fill.qty - hit["ask"].fill.qty, Orders(hit))
  <1> DEFINE cap == limit + QuoteSize
             qb == hit["bid"].fill.qty   sb == hit["bid"].order.size
             qa == hit["ask"].fill.qty   sa == hit["ask"].order.size
  <1>1. /\ qb \in Nat /\ sb \in Nat /\ os["bid"].size = qb + sb
        /\ qa \in Nat /\ sa \in Nat /\ os["ask"].size = qa + sa
    BY DEF Side, Fill, Order, Splits
  <1>2. cap \in Nat
    BY StreamAssumption DEF StreamAssumption
  <1>3. /\ pos < cap /\ pos > -cap
        /\ os["bid"].size > 0 => pos + os["bid"].size < cap
        /\ os["ask"].size > 0 => pos - os["ask"].size > -cap
    BY DEF Within, Resting
  <1>4. Orders(hit)["bid"].size = sb /\ Orders(hit)["ask"].size = sa
    BY DEF Orders, Side
  <1> HIDE DEF cap, qb, qa, sb, sa
  <1>5. LET new == pos + qb - qa
        IN  /\ new < cap /\ new > -cap
            /\ sb > 0 => new + sb < cap
            /\ sa > 0 => new - sa > -cap
    BY <1>1, <1>2, <1>3
  <1>6. QED BY <1>4, <1>5 DEF Within, Resting, cap, qb, qa, sb, sa

LEMMA PostStaysWithin ==
  ASSUME NEW limit \in Nat, NEW pos \in Int, NEW posted, NEW quote \in Quote,
         pos < limit + QuoteSize, pos > -(limit + QuoteSize),
         pos >= limit => quote["bid"] = NoLeg,
         pos <= -limit => quote["ask"] = NoLeg,
         \A side \in Side :
           /\ quote[side].size <= QuoteSize
           /\ posted[side].fill \in Fill /\ posted[side].order \in Order
           /\ posted[side].fill.qty + posted[side].order.size <= quote[side].size
  PROVE  Within(limit, pos + posted["bid"].fill.qty - posted["ask"].fill.qty, Orders(posted))
  <1> DEFINE cap == limit + QuoteSize
             qb == posted["bid"].fill.qty   sb == posted["bid"].order.size
             qa == posted["ask"].fill.qty   sa == posted["ask"].order.size
             nb == quote["bid"].size        na == quote["ask"].size
  <1>1. /\ qb \in Nat /\ sb \in Nat /\ nb \in Nat /\ qb + sb <= nb /\ nb <= QuoteSize
        /\ qa \in Nat /\ sa \in Nat /\ na \in Nat /\ qa + sa <= na /\ na <= QuoteSize
    BY DEF Side, Fill, Order, Quote, Leg
  <1>2. QuoteSize \in Nat
    BY StreamAssumption DEF StreamAssumption
  <1>3. (pos >= limit => nb = 0) /\ (pos <= -limit => na = 0)
    BY DEF NoLeg
  <1>4. Orders(posted)["bid"].size = sb /\ Orders(posted)["ask"].size = sa
    BY DEF Orders, Side
  <1> HIDE DEF qb, qa, sb, sa, nb, na
  <1>5. LET new == pos + qb - qa
        IN  /\ new < cap /\ new > -cap
            /\ sb > 0 => new + sb < cap
            /\ sa > 0 => new - sa > -cap
    BY <1>1, <1>2, <1>3
  <1>6. QED BY <1>4, <1>5 DEF Within, Resting, qb, qa, sb, sa

(* The three kinds of step as they change the account and the quotes.      *)
Sound(a, os, bk) ==
  /\ a \in Account
  /\ OrdersOK(os, bk)
  /\ a.pos # 0 \/ (\E side \in Side : Resting(os[side])) => a.mark # 0

LEMMA MarkIsPositive ==
  ASSUME NEW bk \in Book, TwoSided(bk)
  PROVE  MidMoney(bk) \in Nat /\ MidMoney(bk) # 0
  <1>1. bk["bid"].best \in Nat \ {0} /\ bk["ask"].best \in Nat \ {0}
    BY PriceIsNat DEF Book, Level, Side, TwoSided
  <1>2. BpsBase \in Nat \ {0}
    BY AccountAssumption DEF AccountAssumption
  <1>3. ASSUME NEW x \in Nat \ {0}, NEW y \in Nat \ {0}  PROVE x * y \in Nat \ {0}
    OBVIOUS
  <1>4. bk["bid"].best + bk["ask"].best \in Nat \ {0}
    BY <1>1
  <1>5. QED BY <1>2, <1>3, <1>4 DEF MidMoney

(* A book settles the resting quotes and re-marks.                         *)
LEMMA SettleStep ==
  ASSUME NEW a, NEW os, NEW prev \in Book, NEW bk \in Book, NEW drawn, NEW ts \in Nat,
         NEW limit \in Nat,
         WellFormed(bk), Sound(a, os, prev), Within(limit, a.pos, os)
  PROVE  LET hit == MatchBook(os, prev, bk, drawn)
             settled == Mark(ApplyFills(a, hit, ts), bk)
         IN  /\ Sound(settled, Orders(hit), bk)
             /\ Within(limit, settled.pos, Orders(hit))
             /\ TwoSided(bk) => settled.mark # 0
             /\ Booked(a, settled, ts)
             /\ (\A side \in Side : ~Resting(os[side])) =>
                  settled.pos = a.pos /\ settled.trades = a.trades
  <1> DEFINE hit == MatchBook(os, prev, bk, drawn)
             filled == ApplyFills(a, hit, ts)
             settled == Mark(filled, bk)
  <1>1. /\ a \in Account /\ os \in [Side -> Order]
        /\ a.pos \in Int
    BY DEF Sound, OrdersOK, Account
  <1>2. /\ OrdersOK(Orders(hit), bk)
        /\ \A side \in Side : hit[side].fill \in Fill /\ Splits(os[side].size, hit[side])
    BY MatchBookOrders DEF Sound
  <1>3. \A side \in Side : hit[side].order \in Order /\ Orders(hit)[side] = hit[side].order
    BY <1>2 DEF OrdersOK, Orders
  <1> HIDE DEF hit
  <1>4. /\ filled \in Account /\ filled.mark = a.mark
        /\ Booked(a, filled, ts)
        /\ filled.pos = a.pos + hit["bid"].fill.qty - hit["ask"].fill.qty
        /\ hit["bid"].fill.qty = 0 /\ hit["ask"].fill.qty = 0 => filled = a
    BY <1>1, <1>2, ApplyFillsType DEF Side
  <1>5. Within(limit, filled.pos, Orders(hit))
    BY <1>1, <1>2, <1>3, <1>4, FillsStayWithin
  <1>6. \A side \in Side : hit[side].fill.qty # 0 \/ Resting(hit[side].order) => Resting(os[side])
    BY <1>1, <1>2, <1>3 DEF Splits, Resting, Order, Fill
  <1>7. filled.pos # 0 \/ (\E side \in Side : Resting(Orders(hit)[side])) => filled.mark # 0
    BY <1>3, <1>4, <1>6 DEF Sound, Side
  <1> HIDE DEF filled
  <1>8. /\ settled \in Account /\ settled.pos = filled.pos
        /\ settled.trades = filled.trades /\ settled.fees = filled.fees
    BY <1>4, MarkType
  <1>9. settled.mark = IF TwoSided(bk) THEN MidMoney(bk) ELSE filled.mark
    BY <1>4 DEF Mark, Account
  <1>10. TwoSided(bk) => settled.mark # 0
    BY <1>9, MarkIsPositive
  <1>11. Sound(settled, Orders(hit), bk)
    BY <1>2, <1>7, <1>8, <1>9, <1>10 DEF Sound
  <1>12. (\A side \in Side : ~Resting(os[side])) => filled = a
    BY <1>4, <1>6 DEF Side
  <1>13. Booked(a, settled, ts)
    BY <1>1, <1>4, <1>8, NothingBooked, BookedTwice
  <1>14. QED BY <1>4, <1>5, <1>8, <1>10, <1>11, <1>12, <1>13 DEF hit, filled

(* A print fills the resting quotes; marks and book stay.                  *)
LEMMA TradeStep ==
  ASSUME NEW a, NEW os, NEW bk \in Book, NEW px \in Prices, NEW size \in Nat,
         NEW ts \in Nat, NEW limit \in Nat,
         Sound(a, os, bk), Within(limit, a.pos, os)
  PROVE  LET hit == MatchTrade(os, px, size)
             filled == ApplyFills(a, hit, ts)
         IN  /\ Sound(filled, Orders(hit), bk)
             /\ Within(limit, filled.pos, Orders(hit))
             /\ Booked(a, filled, ts)
  <1> DEFINE hit == MatchTrade(os, px, size)
             filled == ApplyFills(a, hit, ts)
  <1>1. /\ a \in Account /\ os \in [Side -> Order]
        /\ a.pos \in Int
    BY DEF Sound, OrdersOK, Account
  <1>2. /\ OrdersOK(Orders(hit), bk)
        /\ \A side \in Side : hit[side].fill \in Fill /\ Splits(os[side].size, hit[side])
    BY MatchTradeOrders DEF Sound
  <1>3. \A side \in Side : hit[side].order \in Order /\ Orders(hit)[side] = hit[side].order
    BY <1>2 DEF OrdersOK, Orders
  <1> HIDE DEF hit
  <1>4. /\ filled \in Account /\ filled.mark = a.mark
        /\ Booked(a, filled, ts)
        /\ filled.pos = a.pos + hit["bid"].fill.qty - hit["ask"].fill.qty
        /\ hit["bid"].fill.qty = 0 /\ hit["ask"].fill.qty = 0 => filled = a
    BY <1>1, <1>2, ApplyFillsType DEF Side
  <1>5. Within(limit, filled.pos, Orders(hit))
    BY <1>1, <1>2, <1>3, <1>4, FillsStayWithin
  <1>6. \A side \in Side : hit[side].fill.qty # 0 \/ Resting(hit[side].order) => Resting(os[side])
    BY <1>1, <1>2, <1>3 DEF Splits, Resting, Order, Fill
  <1>7. filled.pos # 0 \/ (\E side \in Side : Resting(Orders(hit)[side])) => filled.mark # 0
    BY <1>3, <1>4, <1>6 DEF Sound, Side
  <1>8. QED BY <1>2, <1>4, <1>5, <1>7 DEF Sound, hit

(* A quote posted against a marked account.                                *)
LEMMA PostStep ==
  ASSUME NEW a \in Account, NEW bk \in Book, NEW quote \in Quote, NEW ts \in Nat,
         NEW limit \in Nat,
         a.mark # 0, a.pos < limit + QuoteSize, a.pos > -(limit + QuoteSize),
         \A side \in Side : quote[side].size <= QuoteSize,
         a.pos >= limit => quote["bid"] = NoLeg,
         a.pos <= -limit => quote["ask"] = NoLeg
  PROVE  LET posted == Post(bk, quote)
             after  == ApplyFills(a, posted, ts)
         IN  /\ Sound(after, Orders(posted), bk)
             /\ Within(limit, after.pos, Orders(posted))
             /\ Booked(a, after, ts)
  <1> DEFINE posted == Post(bk, quote)
             after == ApplyFills(a, posted, ts)
  <1>1. /\ OrdersOK(Orders(posted), bk)
        /\ \A side \in Side :
             /\ posted[side].fill \in Fill
             /\ posted[side].fill.qty + posted[side].order.size <= quote[side].size
    BY PostOrders
  <1>2. \A side \in Side : posted[side].order \in Order
    BY <1>1 DEF OrdersOK, Orders
  <1>3. a.pos \in Int
    BY DEF Account
  <1> HIDE DEF posted
  <1>4. /\ after \in Account /\ after.mark = a.mark
        /\ Booked(a, after, ts)
        /\ after.pos = a.pos + posted["bid"].fill.qty - posted["ask"].fill.qty
    BY <1>1, ApplyFillsType DEF Side
  <1>5. Within(limit, after.pos, Orders(posted))
    BY <1>1, <1>2, <1>3, <1>4, PostStaysWithin
  <1>6. QED BY <1>1, <1>4, <1>5 DEF Sound, posted

-----------------------------------------------------------------------------
(* The inductive invariant of the backtest's loop.  The account balances   *)
(* with its trade log, and the rows tell what the log says.                *)
RowsTell(rs, log) ==
  /\ \A i, j \in 1..Len(rs) : i < j => rs[i].ts < rs[j].ts
  /\ \A i \in 1..Len(rs) : Told(rs[i], log)

(* The rows end before the open heartbeat and have the trades before it.   *)
Behind(rs, log, ts) ==
  /\ \A i \in 1..Len(rs) : rs[i].ts < ts
  /\ \A k \in 1..Len(log) : log[k].ts = ts \/ \E i \in 1..Len(rs) : rs[i].ts = log[k].ts

Recorded(rs, log) ==
  \A k \in 1..Len(log) : \E i \in 1..Len(rs) : rs[i].ts = log[k].ts

Inv ==
  /\ TypeOK
  /\ Sound(acc, orders, book)
  /\ InventoryWithinQMax
  /\ RowsTell(rows, acc.trades)
  /\ IF lastTs = NoTs
       THEN rows = << >> /\ acc.trades = << >> /\ acc.pos = 0
       ELSE /\ lastTs <= now
            /\ Balanced(acc, lastTs)
            /\ ~done => Behind(rows, acc.trades, lastTs)
            /\ done => Recorded(rows, acc.trades)

LEMMA InvIsCausal == Inv => RowsAreCausal
  <1> SUFFICES ASSUME Inv PROVE RowsAreCausal
    OBVIOUS
  <1>1. RowsTell(rows, acc.trades)
    BY DEF Inv
  <1>2. CASE lastTs = NoTs
    <2>1. Len(acc.trades) = 0
      BY <1>2 DEF Inv
    <2>2. QED BY <1>1, <2>1 DEF RowsAreCausal, RowsTell
  <1>3. CASE lastTs # NoTs /\ ~done
    BY <1>1, <1>3 DEF Inv, RowsAreCausal, RowsTell, Behind
  <1>4. CASE lastTs # NoTs /\ done
    BY <1>1, <1>4 DEF Inv, RowsAreCausal, RowsTell, Recorded
  <1>5. QED BY <1>2, <1>3, <1>4

LEMMA EmptyBookType == EmptyBook \in Book
  BY DEF EmptyBook, Book, Level

LEMMA InitInv == Init => Inv
  <1> SUFFICES ASSUME Init PROVE Inv
    OBVIOUS
  <1> USE DEF Init
  <1>1. acc \in Account /\ orders \in [Side -> Order]
    <2>1. InitialEquity \in Int
      BY AccountAssumption DEF AccountAssumption
    <2>2. acc \in Account
      BY <2>1 DEF InitAccount, Account
    <2>3. orders \in [Side -> Order]
      BY NoOrderType DEF NoOrders
    <2>4. QED BY <2>2, <2>3
  <1>2. TypeOK
    <2>1. rows \in Seq(Row)
      OBVIOUS
    <2>2. book \in Book
      BY EmptyBookType
    <2>3. QED BY <1>1, <2>1, <2>2 DEF TypeOK
  <1>3. \A side \in Side : ~Resting(orders[side])
    BY DEF NoOrders, NoOrder, Resting
  <1>4. Sound(acc, orders, book)
    BY <1>1, <1>3 DEF Sound, OrdersOK, InitAccount
  <1>5. InventoryWithinQMax
    BY <1>3, StreamAssumption
    DEF InventoryWithinQMax, Within, InitAccount, StreamAssumption, Side
  <1>6. /\ rows = << >> /\ acc.trades = << >> /\ acc.pos = 0 /\ lastTs = NoTs
        /\ RowsTell(rows, acc.trades)
    <2>1. Len(rows) = 0 /\ rows = << >> /\ acc.trades = << >> /\ acc.pos = 0 /\ lastTs = NoTs
      BY DEF InitAccount
    <2>2. QED BY <2>1 DEF RowsTell
  <1>7. QED BY <1>2, <1>4, <1>5, <1>6 DEF Inv

(* The row of a balanced account tells what its log says.                  *)
LEMMA BalancedIsTold ==
  ASSUME NEW a \in Account, NEW ts \in Nat, Balanced(a, ts)
  PROVE  Told(RowOf(a, ts), a.trades)
  <1> DEFINE log == a.trades
             r == RowOf(a, ts)
  <1>1. r.ts = ts /\ r.pos = a.pos /\ r.fees = a.fees
    BY DEF RowOf
  <1>2. Len(log) \in Nat /\ \A k \in 1..Len(log) : log[k].ts <= ts
    BY DEF Account, Balanced
  <1>3. PICK m \in 0..Len(log) :
          /\ Cut(log, ts - 1, m)
          /\ a.pos = After(log, Len(log)).pos
          /\ a.fees = After(log, Len(log)).paid - After(log, m).paid
    BY DEF Balanced
  <1> HIDE DEF log, r
  <1>4. Len(log) \in 0..Len(log) /\ Cut(log, ts, Len(log))
    BY <1>2 DEF Cut
  <1>5. QED BY <1>1, <1>3, <1>4 DEF Told, log, r

(* A row goes on telling the truth when later trades are booked.           *)
LEMMA ToldStaysTold ==
  ASSUME NEW old \in Seq(Trade), NEW new \in Seq(Trade), NEW ts \in Nat,
         Extends(old, new, ts), NEW r \in Row, r.ts < ts, Told(r, old)
  PROVE  Told(r, new)
  <1>1. PICK m \in 0..Len(old), n \in 0..Len(old) :
          /\ Cut(old, r.ts - 1, m) /\ Cut(old, r.ts, n)
          /\ r.pos = After(old, n).pos
          /\ r.fees = After(old, n).paid - After(old, m).paid
    BY DEF Told
  <1>2. /\ Len(old) \in Nat /\ Len(new) \in Nat /\ Len(old) <= Len(new) /\ r.ts \in Nat
        /\ \A k \in 1..Len(old) : new[k] = old[k]
        /\ \A k \in 1..Len(new) : k > Len(old) => new[k].ts = ts
    BY DEF Extends, Row
  <1>3. m \in 0..Len(new) /\ Cut(new, r.ts - 1, m)
    BY <1>1, <1>2, CutStays
  <1>4. n \in 0..Len(new) /\ Cut(new, r.ts, n)
    BY <1>1, <1>2, CutStays
  <1>5. After(new, n) = After(old, n) /\ After(new, m) = After(old, m)
    BY <1>2 DEF After
  <1>6. QED BY <1>1, <1>3, <1>4, <1>5 DEF Told

LEMMA OpenedAccount ==
  ASSUME acc \in Account, NEW ts
  PROVE  /\ Opened(ts) \in Account /\ Opened(ts).pos = acc.pos
         /\ Opened(ts).mark = acc.mark /\ Opened(ts).trades = acc.trades
  BY DEF Opened, OpenHeartbeat, Account

(* An event at ts opens a heartbeat, or goes on with it.                   *)
LEMMA OpenedStep ==
  ASSUME Inv, ~done, NEW ts \in {now, now + 1}
  PROVE  /\ Sound(Opened(ts), orders, book)
         /\ Opened(ts).pos = acc.pos
         /\ Opened(ts).trades = acc.trades
         /\ Balanced(Opened(ts), ts)
  <1>1. /\ acc \in Account /\ now \in Nat /\ lastTs \in Nat \cup {NoTs} /\ ts \in Nat
        /\ lastTs # NoTs => lastTs <= now
    BY DEF Inv, TypeOK
  <1>2. /\ Opened(ts) \in Account /\ Opened(ts).pos = acc.pos
        /\ Opened(ts).mark = acc.mark /\ Opened(ts).trades = acc.trades
        /\ Opened(ts).fees = IF ts = lastTs THEN acc.fees ELSE 0
    BY <1>1 DEF Opened, OpenHeartbeat, Account
  <1>3. Balanced(Opened(ts), ts)
    <2> DEFINE log == acc.trades
               n   == Len(log)
    <2>1. CASE ts = lastTs
      <3>1. Balanced(acc, lastTs)
        BY <1>1, <2>1, AccountAssumption DEF Inv, AccountAssumption
      <3>2. QED BY <1>2, <2>1, <3>1 DEF Balanced
    <2>2. CASE ts # lastTs
      <3>1. /\ \A k \in 1..n : log[k] \in Trade /\ log[k].ts < ts
            /\ acc.pos = After(log, n).pos
            /\ n \in Nat
        <4>1. n \in Nat /\ \A k \in 1..n : log[k] \in Trade
          BY <1>1 DEF Account
        <4>2. CASE lastTs = NoTs
          BY <4>1, <4>2 DEF Inv, After
        <4>3. CASE lastTs # NoTs
          <5>1. Balanced(acc, lastTs) /\ lastTs < ts
            BY <1>1, <2>2, <4>3 DEF Inv
          <5>2. \A k \in 1..n : log[k].ts <= lastTs
            BY <5>1 DEF Balanced
          <5>3. \A k \in 1..n : log[k].ts < ts
            BY <1>1, <4>1, <4>3, <5>1, <5>2 DEF Trade
          <5>4. QED BY <4>1, <5>1, <5>3 DEF Balanced
        <4>4. QED BY <4>2, <4>3
      <3>2. After(log, n).paid \in Int
        BY <3>1 DEF After, Trade
      <3> HIDE DEF log, n
      <3>3. n \in 0..n /\ 0 = After(log, n).paid - After(log, n).paid
        BY <3>1, <3>2
      <3>4. \A k \in 1..n : log[k].ts <= ts /\ log[k].ts <= ts - 1
        BY <1>1, <3>1 DEF Trade
      <3>5. Cut(log, ts - 1, n)
        BY <3>1, <3>4 DEF Cut, n
      <3>6. Opened(ts).fees = 0
        BY <1>2, <2>2
      <3>7. QED BY <1>2, <3>1, <3>3, <3>4, <3>5, <3>6 DEF Balanced, log, n
    <2>3. QED BY <2>1, <2>2
  <1>4. QED BY <1>2, <1>3 DEF Inv, Sound

(* Appending the row of the open heartbeat.                                *)
LEMMA RowAdded ==
  ASSUME NEW rs \in Seq(Row), NEW r \in Row, NEW log,
         RowsTell(rs, log), Behind(rs, log, r.ts), Told(r, log)
  PROVE  LET new == Append(rs, r)
         IN  /\ new \in Seq(Row) /\ RowsTell(new, log) /\ Recorded(new, log)
             /\ \A i \in 1..Len(new) : new[i].ts <= r.ts
  <1> DEFINE new == Append(rs, r)
  <1>1. /\ new \in Seq(Row) /\ Len(new) = Len(rs) + 1 /\ Len(rs) \in Nat
        /\ \A i \in 1..Len(rs) : new[i] = rs[i]
        /\ new[Len(rs) + 1] = r
    OBVIOUS
  <1>2. \A i \in 1..Len(rs) : rs[i].ts \in Nat /\ rs[i].ts < r.ts
    <2>1. \A i \in 1..Len(rs) : rs[i] \in Row
      OBVIOUS
    <2>2. QED BY <2>1 DEF Row, Behind
  <1> HIDE DEF new
  <1>3. \A i \in 1..Len(new) : i = Len(rs) + 1 \/ i \in 1..Len(rs)
    BY <1>1
  <1>4. \A i \in 1..Len(new) : Told(new[i], log)
    BY <1>1, <1>3 DEF RowsTell
  <1>5. ASSUME NEW i \in 1..Len(new), NEW j \in 1..Len(new), i < j
        PROVE  new[i].ts < new[j].ts
    <2>1. i \in 1..Len(rs) /\ new[i] = rs[i]
      BY <1>1, <1>3, <1>5
    <2>2. CASE j = Len(rs) + 1
      BY <1>1, <1>2, <2>1, <2>2
    <2>3. CASE j \in 1..Len(rs)
      BY <1>1, <1>5, <2>1, <2>3 DEF RowsTell
    <2>4. QED BY <1>3, <2>2, <2>3
  <1>6. Recorded(new, log)
    <2>1. Len(rs) + 1 \in 1..Len(new) /\ \A i \in 1..Len(rs) : i \in 1..Len(new)
      BY <1>1
    <2>2. QED BY <1>1, <2>1 DEF Recorded, Behind
  <1>7. r.ts \in Nat
    BY DEF Row
  <1>8. \A i \in 1..Len(new) : new[i].ts <= r.ts
    BY <1>1, <1>2, <1>3, <1>7
  <1>9. QED BY <1>1, <1>4, <1>5, <1>6, <1>8 DEF RowsTell, new

(* Sealing leaves one true row per timestamp, all before the new one.      *)
LEMMA SealStep ==
  ASSUME Inv, ~done, NEW ts \in {now, now + 1}, Seal(ts)
  PROVE  /\ ts \in Nat /\ lastTs' = ts /\ rows' \in Seq(Row)
         /\ RowsTell(rows', acc.trades)
         /\ Behind(rows', acc.trades, ts)
  <1>1. /\ ts \in Nat /\ now \in Nat /\ lastTs \in Nat \cup {NoTs} /\ rows \in Seq(Row)
        /\ acc \in Account
        /\ lastTs # NoTs => lastTs <= now
        /\ RowsTell(rows, acc.trades) /\ NoTs \notin Nat
    BY AccountAssumption DEF Inv, TypeOK, AccountAssumption
  <1>2. lastTs' = ts /\ rows' = SealedRows(ts)
    BY DEF Seal
  <1>3. CASE lastTs = NoTs
    <2>1. rows' = rows /\ Len(rows) = 0 /\ Len(acc.trades) = 0
      BY <1>2, <1>3 DEF SealedRows, Inv
    <2>2. QED BY <1>1, <1>2, <2>1 DEF Behind
  <1>4. CASE lastTs = ts
    <2>1. rows' = rows /\ Behind(rows, acc.trades, ts)
      BY <1>1, <1>2, <1>4 DEF SealedRows, Inv
    <2>2. QED BY <1>1, <1>2, <2>1
  <1>5. CASE lastTs # NoTs /\ lastTs # ts
    <2> DEFINE r == RowOf(acc, lastTs)
    <2>1. lastTs \in Nat /\ lastTs < ts /\ Balanced(acc, lastTs) /\ Behind(rows, acc.trades, lastTs)
      BY <1>1, <1>5 DEF Inv
    <2>2. r \in Row /\ r.ts = lastTs /\ Told(r, acc.trades)
      <3>1. Told(r, acc.trades)
        BY <1>1, <2>1, BalancedIsTold
      <3>2. r \in Row /\ r.ts = lastTs
        BY <1>1, <2>1, RowType DEF RowOf
      <3>3. QED BY <3>1, <3>2
    <2>3. rows' = Append(rows, r)
      BY <1>2, <1>5 DEF SealedRows
    <2> HIDE DEF r
    <2>4. /\ rows' \in Seq(Row) /\ RowsTell(rows', acc.trades) /\ Recorded(rows', acc.trades)
          /\ \A i \in 1..Len(rows') : rows'[i].ts <= lastTs
      BY <1>1, <2>1, <2>2, <2>3, RowAdded
    <2>5. \A i \in 1..Len(rows') : rows'[i].ts \in Nat
      <3>1. \A i \in 1..Len(rows') : rows'[i] \in Row
        BY <2>4
      <3>2. QED BY <3>1 DEF Row
    <2>6. Behind(rows', acc.trades, ts)
      BY <1>1, <2>1, <2>4, <2>5 DEF Behind, Recorded
    <2>7. QED BY <1>1, <1>2, <2>4, <2>6
  <1>6. QED BY <1>3, <1>4, <1>5

(* What the rows tell once the fills of the event are booked too.          *)
LEMMA BookedRows ==
  ASSUME NEW rs \in Seq(Row), NEW a \in Account, NEW b \in Account, NEW ts \in Nat,
         RowsTell(rs, a.trades), Behind(rs, a.trades, ts), Booked(a, b, ts)
  PROVE  RowsTell(rs, b.trades) /\ Behind(rs, b.trades, ts)
  <1> DEFINE old == a.trades
             new == b.trades
  <1>1. /\ old \in Seq(Trade) /\ new \in Seq(Trade) /\ Extends(old, new, ts)
        /\ RowsTell(rs, old) /\ Behind(rs, old, ts)
    BY DEF Account, Booked
  <1> HIDE DEF old, new
  <1>2. \A i \in 1..Len(rs) : rs[i] \in Row
    OBVIOUS
  <1>3. ASSUME NEW i \in 1..Len(rs) PROVE Told(rs[i], new)
    <2>1. rs[i] \in Row /\ rs[i].ts < ts /\ Told(rs[i], old)
      BY <1>1, <1>2 DEF RowsTell, Behind
    <2>2. QED BY <1>1, <2>1, ToldStaysTold
  <1>4. RowsTell(rs, new)
    BY <1>1, <1>3 DEF RowsTell
  <1>5. ASSUME NEW k \in 1..Len(new)
        PROVE  new[k].ts = ts \/ \E i \in 1..Len(rs) : rs[i].ts = new[k].ts
    <2>1. Len(old) \in Nat /\ Len(new) \in Nat
      BY <1>1
    <2>2. CASE k \in 1..Len(old)
      BY <1>1, <2>2 DEF Extends, Behind
    <2>3. CASE k > Len(old)
      BY <1>1, <2>3 DEF Extends
    <2>4. QED BY <2>1, <2>2, <2>3
  <1>6. Behind(rs, new, ts)
    BY <1>1, <1>5 DEF Behind
  <1>7. QED BY <1>4, <1>6 DEF new

(* The strategy's quotes are well formed, and one-sided at the limit.      *)
LEMMA StrategyQuotesType ==
  ASSUME NEW bk, NEW pos \in Int, NEW quote \in StrategyQuotes(bk, pos)
  PROVE  /\ TwoSided(bk)
         /\ quote \in Quote
         /\ \A side \in Side : quote[side].size <= QuoteSize
         /\ pos >= QMax => quote["bid"] = NoLeg
         /\ pos <= -QMax => quote["ask"] = NoLeg
  <1>1. PICK q \in QuoteSet : quote = OneSidedAtLimit(q, pos)
    BY DEF StrategyQuotes
  <1>2. /\ q \in Quote
        /\ \A side \in Side : q[side].size <= QuoteSize
        /\ QuoteSize \in Nat
    BY StreamAssumption DEF StreamAssumption
  <1>3. NoLeg \in Leg /\ NoLeg.size = 0
    BY NoOrderType DEF NoLeg
  <1>4. \A side \in Side : quote[side] \in {q[side], NoLeg}
    BY <1>1, <1>2 DEF OneSidedAtLimit, Quote, Side
  <1>5. quote \in Quote
    BY <1>1, <1>2, <1>3 DEF OneSidedAtLimit, Quote, Side
  <1>6. \A side \in Side : quote[side].size <= QuoteSize
    BY <1>2, <1>3, <1>4
  <1>7. /\ pos >= QMax => quote["bid"] = NoLeg
        /\ pos <= -QMax => quote["ask"] = NoLeg
    BY <1>1, <1>2 DEF OneSidedAtLimit, Quote, Side
  <1>8. QED BY <1>5, <1>6, <1>7 DEF StrategyQuotes

LEMMA OnBookInv ==
  ASSUME Inv, NEW ts \in {now, now + 1}, NEW bk \in Books, OnBook(ts, bk)
  PROVE  Inv'
  <1>1. /\ now \in Nat /\ seen \in Nat /\ book \in Book /\ done \in BOOLEAN
        /\ QMax \in Nat /\ bk \in Book /\ WellFormed(bk) /\ QuoteSize \in Nat \ {0}
    BY StreamAssumption DEF Inv, TypeOK, StreamAssumption
  <1>2. /\ ~done /\ seen' = seen + 1 /\ now' = ts /\ Seal(ts) /\ book' = bk /\ done' = done
        /\ ts \in Nat
    BY <1>1 DEF OnBook, Arrives
  <1>3. /\ lastTs' = ts /\ rows' \in Seq(Row)
        /\ RowsTell(rows', acc.trades) /\ Behind(rows', acc.trades, ts)
    BY <1>2, SealStep
  <1>4. /\ Sound(Opened(ts), orders, book) /\ Opened(ts).pos = acc.pos
        /\ Opened(ts).trades = acc.trades /\ Balanced(Opened(ts), ts)
        /\ Opened(ts) \in Account
    BY <1>2, OpenedStep DEF Sound
  <1>5. PICK drawn \in Draws :
          LET hit     == MatchBook(orders, book, bk, drawn)
              settled == Mark(ApplyFills(Opened(ts), hit, ts), bk)
          IN  Requote(bk, Orders(hit), settled, ts)
    BY DEF OnBook
  <1> DEFINE hit == MatchBook(orders, book, bk, drawn)
             settled == Mark(ApplyFills(Opened(ts), hit, ts), bk)
  <1>6. Within(QMax, Opened(ts).pos, orders)
    BY <1>4 DEF Inv, InventoryWithinQMax
  <1>7. /\ Sound(settled, Orders(hit), bk)
        /\ Within(QMax, settled.pos, Orders(hit))
        /\ TwoSided(bk) => settled.mark # 0
        /\ Booked(Opened(ts), settled, ts)
    BY <1>1, <1>2, <1>4, <1>6, SettleStep
  <1>8. Requote(bk, Orders(hit), settled, ts)
    BY <1>5
  <1> HIDE DEF hit, settled
  <1>9. /\ Sound(acc', orders', bk)
        /\ Within(QMax, acc'.pos, orders')
        /\ Booked(Opened(ts), acc', ts)
    <2>1. CASE StrategyQuotes(bk, settled.pos) = {}
      BY <1>7, <1>8, <2>1 DEF Requote
    <2>2. CASE StrategyQuotes(bk, settled.pos) # {}
      <3>1. PICK quote \in StrategyQuotes(bk, settled.pos) :
              /\ orders' = Orders(Post(bk, quote))
              /\ acc' = ApplyFills(settled, Post(bk, quote), ts)
        BY <1>8, <2>2 DEF Requote
      <3>2. settled \in Account /\ settled.pos \in Int
        BY <1>7 DEF Sound, Account
      <3>3. /\ TwoSided(bk) /\ quote \in Quote
            /\ \A side \in Side : quote[side].size <= QuoteSize
            /\ settled.pos >= QMax => quote["bid"] = NoLeg
            /\ settled.pos <= -QMax => quote["ask"] = NoLeg
        BY <3>2, StrategyQuotesType
      <3>4. settled.pos < QMax + QuoteSize /\ settled.pos > -(QMax + QuoteSize)
        BY <1>7 DEF Within
      <3>5. /\ Sound(acc', orders', bk)
            /\ Within(QMax, acc'.pos, orders')
            /\ Booked(settled, acc', ts)
        BY <1>1, <1>2, <1>7, <3>1, <3>2, <3>3, <3>4, PostStep
      <3>6. acc' \in Account
        BY <3>5 DEF Sound
      <3>7. QED BY <1>2, <1>4, <1>7, <3>2, <3>5, <3>6, BookedTwice
    <2>3. QED BY <2>1, <2>2
  <1>10. acc' \in Account /\ orders' \in [Side -> Order]
    BY <1>9 DEF Sound, OrdersOK
  <1>11. TypeOK'
    BY <1>1, <1>2, <1>3, <1>10 DEF TypeOK
  <1>12. /\ RowsTell(rows', acc'.trades) /\ Behind(rows', acc'.trades, ts)
         /\ Balanced(acc', ts)
    BY <1>2, <1>3, <1>4, <1>9, <1>10, BookedRows DEF Booked
  <1>13. ts # NoTs /\ ts <= now'
    BY <1>1, <1>2, AccountAssumption DEF AccountAssumption
  <1>14. QED BY <1>2, <1>3, <1>9, <1>11, <1>12, <1>13 DEF Inv, InventoryWithinQMax

LEMMA OnTradeInv ==
  ASSUME Inv, NEW ts \in {now, now + 1}, NEW tr \in Trades, OnTrade(ts, tr)
  PROVE  Inv'
  <1>1. /\ now \in Nat /\ seen \in Nat /\ book \in Book /\ done \in BOOLEAN
        /\ QMax \in Nat /\ tr.px \in Prices /\ tr.size \in Nat
    BY StreamAssumption DEF Inv, TypeOK, StreamAssumption
  <1>2. /\ ~done /\ seen' = seen + 1 /\ now' = ts /\ Seal(ts) /\ book' = book /\ done' = done
        /\ ts \in Nat
    BY <1>1 DEF OnTrade, Arrives
  <1>3. /\ lastTs' = ts /\ rows' \in Seq(Row)
        /\ RowsTell(rows', acc.trades) /\ Behind(rows', acc.trades, ts)
    BY <1>2, SealStep
  <1>4. /\ Sound(Opened(ts), orders, book) /\ Opened(ts).pos = acc.pos
        /\ Opened(ts).trades = acc.trades /\ Balanced(Opened(ts), ts)
        /\ Opened(ts) \in Account
    BY <1>2, OpenedStep DEF Sound
  <1> DEFINE hit == MatchTrade(orders, tr.px, tr.size)
  <1>5. orders' = Orders(hit) /\ acc' = ApplyFills(Opened(ts), hit, ts)
    BY DEF OnTrade
  <1>6. Within(QMax, Opened(ts).pos, orders)
    BY <1>4 DEF Inv, InventoryWithinQMax
  <1>7. /\ Sound(acc', orders', book)
        /\ Within(QMax, acc'.pos, orders')
        /\ Booked(Opened(ts), acc', ts)
    BY <1>1, <1>2, <1>4, <1>5, <1>6, TradeStep
  <1>8. acc' \in Account /\ orders' \in [Side -> Order]
    BY <1>7 DEF Sound, OrdersOK
  <1>9. TypeOK'
    BY <1>1, <1>2, <1>3, <1>8 DEF TypeOK
  <1>10. /\ RowsTell(rows', acc'.trades) /\ Behind(rows', acc'.trades, ts)
         /\ Balanced(acc', ts)
    BY <1>2, <1>3, <1>4, <1>7, <1>8, BookedRows DEF Booked
  <1>11. ts # NoTs /\ ts <= now'
    BY <1>1, <1>2, AccountAssumption DEF AccountAssumption
  <1>12. QED BY <1>2, <1>3, <1>7, <1>9, <1>10, <1>11 DEF Inv, InventoryWithinQMax

(* The last row is the open heartbeat's, later than every row before it.   *)
LEMMA FinishInv ==
  ASSUME Inv, Finish
  PROVE  Inv'
  <1>1. /\ ~done /\ done'
        /\ rows' = IF lastTs = NoTs THEN rows ELSE Append(rows, RowOf(acc, lastTs))
        /\ UNCHANGED <<seen, now, lastTs, orders, book, acc>>
    BY DEF Finish
  <1>2. /\ rows \in Seq(Row) /\ acc \in Account /\ lastTs \in Nat \cup {NoTs}
        /\ RowsTell(rows, acc.trades)
    BY DEF Inv, TypeOK
  <1>3. Sound(acc, orders, book)' /\ InventoryWithinQMax'
    BY <1>1 DEF Inv, InventoryWithinQMax
  <1>4. CASE lastTs = NoTs
    <2>1. rows' = rows
      BY <1>1, <1>4
    <2>2. TypeOK'
      BY <1>1, <2>1 DEF Inv, TypeOK
    <2>3. QED BY <1>1, <1>2, <1>3, <1>4, <2>1, <2>2 DEF Inv
  <1>5. CASE lastTs # NoTs
    <2> DEFINE r == RowOf(acc, lastTs)
    <2>1. /\ lastTs \in Nat /\ lastTs <= now
          /\ Balanced(acc, lastTs) /\ Behind(rows, acc.trades, lastTs)
      BY <1>1, <1>2, <1>5 DEF Inv
    <2>2. r \in Row /\ r.ts = lastTs /\ Told(r, acc.trades)
      BY <1>2, <2>1, RowType, BalancedIsTold DEF RowOf
    <2>3. rows' = Append(rows, r)
      BY <1>1, <1>5
    <2> HIDE DEF r
    <2>4. rows' \in Seq(Row) /\ RowsTell(rows', acc.trades) /\ Recorded(rows', acc.trades)
      BY <1>2, <2>1, <2>2, <2>3, RowAdded
    <2>5. TypeOK'
      BY <1>1, <2>4 DEF Inv, TypeOK
    <2>6. QED BY <1>1, <1>3, <1>5, <2>1, <2>4, <2>5 DEF Inv
  <1>6. QED BY <1>4, <1>5

LEMMA NextInv == Inv /\ [Next]_vars => Inv'
  <1> SUFFICES ASSUME Inv, [Next]_vars PROVE Inv'
    OBVIOUS
  <1>1. CASE \E ts \in {now, now + 1}, bk \in Books : OnBook(ts, bk)
    BY <1>1, OnBookInv
  <1>2. CASE \E ts \in {now, now + 1}, tr \in Trades : OnTrade(ts, tr)
    BY <1>2, OnTradeInv
  <1>3. CASE Finish
    BY <1>3, FinishInv
  <1>4. CASE UNCHANGED vars
    BY <1>4 DEF Inv, vars, TypeOK, Sound, OrdersOK, InventoryWithinQMax, Within
  <1>5. QED BY <1>1, <1>2, <1>3, <1>4 DEF Next

THEOREM SpecInv == Spec => []Inv
  BY InitInv, NextInv, PTL DEF Spec

-----------------------------------------------------------------------------
(* The state of the loop keeps its types: in particular no fill is larger  *)
(* than its quote and every row is a number.                               *)
THEOREM BacktestTypeOK == Spec => []TypeOK
  <1>1. Inv => TypeOK
    BY DEF Inv
  <1>2. QED BY SpecInv, <1>1, PTL

(* One-sided quoting at q_max bounds the inventory of any strategy quoting *)
(* at most QuoteSize, on any stream and under either fill model.           *)
THEOREM BacktestInventory == Spec => []InventoryWithinQMax
  <1>1. Inv => InventoryWithinQMax
    BY DEF Inv
  <1>2. QED BY SpecInv, <1>1, PTL

(* Every row of the equity curve says what the trades up to its timestamp  *)
(* leave and what those at it have cost, whatever was traded since; and no *)
(* trade is missing from the curve.                                        *)
THEOREM BacktestRowsAreCausal == Spec => []RowsAreCausal
  BY SpecInv, InvIsCausal, PTL

(* The queue a quote waits behind is displayed by the last book, no quote  *)
(* rests through the touch, and no fill meets an account without a mark.   *)
THEOREM BacktestMatching ==
  Spec => [](QueueIsDisplayed /\ NoStaleCross /\ MarkedBeforeTrading)
  <1>1. Inv => QueueIsDisplayed /\ NoStaleCross /\ MarkedBeforeTrading
    BY DEF Inv, Sound, OrdersOK, QueueIsDisplayed, NoStaleCross, MarkedBeforeTrading
  <1>2. QED BY SpecInv, <1>1, PTL

-----------------------------------------------------------------------------
(* The paper loop.                                                         *)

(* The inductive invariant: no quote outlives the halt, and the account    *)
(* and its quotes stay within the cap and sound for the last book.         *)
PaperInv ==
  /\ PaperTypeOK
  /\ Sound(acc, orders, book)
  /\ InventoryCapped
  /\ HaltedIsFlatBook

(* What _cap() leaves of a quote.                                          *)
LEMMA CapType ==
  ASSUME NEW quote \in Quote, NEW inv \in Int,
         \A side \in Side : quote[side].size <= QuoteSize
  PROVE  /\ Cap(quote, inv) \in Quote
         /\ \A side \in Side : Cap(quote, inv)[side].size <= QuoteSize
         /\ inv >= MaxInventory => Cap(quote, inv)["bid"] = NoLeg
         /\ inv <= -MaxInventory => Cap(quote, inv)["ask"] = NoLeg
  <1>1. NoLeg \in Leg /\ NoLeg.size = 0
    BY NoOrderType DEF NoLeg
  <1>2. QuoteSize \in Nat
    BY StreamAssumption DEF StreamAssumption
  <1>3. \A side \in Side : Cap(quote, inv)[side] \in {quote[side], NoLeg}
    BY DEF Cap, Quote, Side
  <1>4. Cap(quote, inv) \in Quote
    BY <1>1 DEF Cap, Quote, Side
  <1>5. \A side \in Side : Cap(quote, inv)[side].size <= QuoteSize
    BY <1>1, <1>2, <1>3
  <1>6. /\ inv >= MaxInventory => Cap(quote, inv)["bid"] = NoLeg
        /\ inv <= -MaxInventory => Cap(quote, inv)["ask"] = NoLeg
    BY DEF Cap, Quote, Side
  <1>7. QED BY <1>4, <1>5, <1>6

(* The empty quote of a halted loop cancels both sides.                    *)
LEMMA CancelAll ==
  ASSUME NEW bk \in Book
  PROVE  \A side \in Side : Orders(Post(bk, NoQuote))[side] = NoOrder
  <1>1. SUFFICES ASSUME NEW side \in Side
                 PROVE  PostLeg(bk, side, NoLeg).order = NoOrder
    BY DEF Orders, Post, NoQuote
  <1>2. QED BY <1>1, PostLegType, NoOrderType

LEMMA PaperInitInv == PaperInit => PaperInv
  <1> SUFFICES ASSUME PaperInit PROVE PaperInv
    OBVIOUS
  <1>1. Init /\ halted = FALSE /\ peak \in Int
    BY AccountAssumption DEF PaperInit, AccountAssumption
  <1>2. TypeOK /\ Sound(acc, orders, book)
    BY <1>1, InitInv DEF Inv
  <1>3. \A side \in Side : ~Resting(orders[side])
    BY <1>1 DEF Init, NoOrders, NoOrder, Resting
  <1>4. acc.pos = 0 /\ MaxInventory \in Nat /\ QuoteSize \in Nat \ {0}
    BY <1>1, RiskAssumption, StreamAssumption
    DEF Init, InitAccount, RiskAssumption, StreamAssumption
  <1>5. InventoryCapped
    BY <1>3, <1>4 DEF InventoryCapped, Within, Side
  <1>6. QED BY <1>1, <1>2, <1>5 DEF PaperInv, PaperTypeOK, HaltedIsFlatBook

(* A heartbeat of the paper loop.  From a halted state it trades nothing.  *)
LEMMA PaperOnBookInv ==
  ASSUME PaperInv, NEW ts \in {now, now + 1}, NEW bk \in Books, PaperOnBook(ts, bk)
  PROVE  /\ PaperInv'
         /\ halted => halted' /\ acc'.pos = acc.pos /\ acc'.trades = acc.trades
  <1>1. /\ now \in Nat /\ seen \in Nat /\ book \in Book /\ done \in BOOLEAN
        /\ lastTs \in Nat \cup {NoTs} /\ rows \in Seq(Row) /\ acc \in Account
        /\ halted \in BOOLEAN /\ peak \in Int
        /\ MaxInventory \in Nat /\ bk \in Book /\ WellFormed(bk) /\ QuoteSize \in Nat \ {0}
    BY RiskAssumption, StreamAssumption
    DEF PaperInv, PaperTypeOK, TypeOK, RiskAssumption, StreamAssumption
  <1>2. /\ seen' = seen + 1 /\ now' = ts /\ Seal(ts) /\ book' = bk /\ done' = done
        /\ ts \in Nat
    BY <1>1 DEF PaperOnBook, Arrives
  <1>3. lastTs' = ts /\ rows' \in Seq(Row)
    <2>1. lastTs # NoTs => RowOf(acc, lastTs) \in Row
      BY <1>1, RowType
    <2>2. QED BY <1>1, <1>2, <2>1 DEF Seal, SealedRows
  <1>4. Sound(Opened(ts), orders, book) /\ Opened(ts).pos = acc.pos
        /\ Opened(ts).trades = acc.trades
    <2>1. /\ Opened(ts) \in Account /\ Opened(ts).pos = acc.pos
          /\ Opened(ts).mark = acc.mark /\ Opened(ts).trades = acc.trades
      BY <1>1, OpenedAccount
    <2>2. QED BY <2>1 DEF PaperInv, Sound
  <1>5. PICK drawn \in Draws :
          LET hit     == MatchBook(orders, book, bk, drawn)
              settled == Mark(ApplyFills(Opened(ts), hit, ts), bk)
              high    == IF Equity(settled) > peak THEN Equity(settled) ELSE peak
              stop    == halted \/ Breached(Equity(settled), high)
          IN  /\ peak' = high
              /\ halted' = stop
              /\ PaperRequote(bk, Orders(hit), settled, ts, stop)
    BY DEF PaperOnBook
  <1> DEFINE hit == MatchBook(orders, book, bk, drawn)
             settled == Mark(ApplyFills(Opened(ts), hit, ts), bk)
             high == IF Equity(settled) > peak THEN Equity(settled) ELSE peak
             stop == halted \/ Breached(Equity(settled), high)
  <1>6. Within(MaxInventory, Opened(ts).pos, orders)
    BY <1>4 DEF PaperInv, InventoryCapped
  <1>7. /\ Sound(settled, Orders(hit), bk)
        /\ Within(MaxInventory, settled.pos, Orders(hit))
        /\ TwoSided(bk) => settled.mark # 0
        /\ (\A side \in Side : ~Resting(orders[side])) =>
             settled.pos = acc.pos /\ settled.trades = acc.trades
    BY <1>1, <1>2, <1>4, <1>6, SettleStep
  <1>8. /\ peak' = high /\ halted' = stop
        /\ PaperRequote(bk, Orders(hit), settled, ts, stop)
    BY <1>5
  <1> HIDE DEF hit, settled
  <1>9. settled \in Account /\ settled.pos \in Int
    BY <1>7 DEF Sound, Account
  <1>10. peak' \in Int /\ halted' \in BOOLEAN
    <2>1. Equity(settled) \in Int
      BY <1>9, RowType DEF RowOf, Row
    <2>2. peak' \in Int
      BY <1>1, <1>8, <2>1
    <2>3. QED BY <1>8, <2>2
  <1> HIDE DEF high, stop
  <1>11. CASE halted'
    <2>1. /\ orders' = Orders(Post(bk, NoQuote)) /\ acc' = settled
      BY <1>8, <1>11 DEF PaperRequote
    <2>2. \A side \in Side : orders'[side] = NoOrder /\ ~Resting(orders'[side])
      BY <1>1, <2>1, CancelAll DEF NoOrder, Resting
    <2>3. orders' \in [Side -> Order]
      BY <2>1, <2>2, NoOrderType DEF Orders
    <2>4. Sound(acc', orders', bk)
      <3>1. acc'.pos # 0 => acc'.mark # 0
        BY <1>7, <2>1 DEF Sound
      <3>2. QED BY <1>9, <2>1, <2>2, <2>3, <3>1 DEF Sound, OrdersOK
    <2>5. Within(MaxInventory, acc'.pos, orders')
      BY <1>7, <2>1, <2>2 DEF Within, Side
    <2>6. halted => acc'.pos = acc.pos /\ acc'.trades = acc.trades
      BY <1>7, <2>1 DEF PaperInv, HaltedIsFlatBook
    <2>7. TypeOK'
      BY <1>1, <1>2, <1>3, <1>9, <2>1, <2>3 DEF TypeOK
    <2>8. QED BY <1>2, <1>10, <1>11, <2>2, <2>4, <2>5, <2>6, <2>7
              DEF PaperInv, PaperTypeOK, InventoryCapped, HaltedIsFlatBook
  <1>12. CASE ~halted'
    <2>1. ~halted /\ ~stop
      BY <1>8, <1>12 DEF stop
    <2>2. Sound(acc', orders', bk) /\ Within(MaxInventory, acc'.pos, orders')
      <3>1. CASE StrategyQuotes(bk, settled.pos) = {}
        BY <1>7, <1>8, <2>1, <3>1 DEF PaperRequote
      <3>2. CASE StrategyQuotes(bk, settled.pos) # {}
        <4>1. PICK quote \in StrategyQuotes(bk, settled.pos) :
                /\ orders' = Orders(Post(bk, Cap(quote, settled.pos)))
                /\ acc' = ApplyFills(settled, Post(bk, Cap(quote, settled.pos)), ts)
          BY <1>8, <2>1, <3>2 DEF PaperRequote
        <4>2. /\ TwoSided(bk) /\ quote \in Quote
              /\ \A side \in Side : quote[side].size <= QuoteSize
          BY <1>9, StrategyQuotesType
        <4> DEFINE capped == Cap(quote, settled.pos)
        <4>3. /\ capped \in Quote
              /\ \A side \in Side : capped[side].size <= QuoteSize
              /\ settled.pos >= MaxInventory => capped["bid"] = NoLeg
              /\ settled.pos <= -MaxInventory => capped["ask"] = NoLeg
          BY <1>9, <4>2, CapType
        <4> HIDE DEF capped
        <4>4. /\ settled.pos < MaxInventory + QuoteSize
              /\ settled.pos > -(MaxInventory + QuoteSize)
          BY <1>7 DEF Within
        <4>5. /\ Sound(ApplyFills(settled, Post(bk, capped), ts), Orders(Post(bk, capped)), bk)
              /\ Within(MaxInventory, ApplyFills(settled, Post(bk, capped), ts).pos,
                        Orders(Post(bk, capped)))
          BY <1>1, <1>2, <1>7, <1>9, <4>2, <4>3, <4>4, PostStep
        <4>6. QED BY <4>1, <4>5 DEF capped
      <3>3. QED BY <3>1, <3>2
    <2>3. acc' \in Account /\ orders' \in [Side -> Order]
      BY <2>2 DEF Sound, OrdersOK
    <2>4. TypeOK'
      BY <1>1, <1>2, <1>3, <2>3 DEF TypeOK
    <2>5. QED BY <1>2, <1>10, <1>12, <2>1, <2>2, <2>4
              DEF PaperInv, PaperTypeOK, InventoryCapped, HaltedIsFlatBook
  <1>13. QED BY <1>11, <1>12

(* A print; a halted loop ignores it.                                      *)
LEMMA PaperOnTradeInv ==
  ASSUME PaperInv, NEW ts \in {now, now + 1}, NEW tr \in Trades, PaperOnTrade(ts, tr)
  PROVE  /\ PaperInv'
         /\ halted => halted' /\ acc'.pos = acc.pos /\ acc'.trades = acc.trades
  <1>1. /\ now \in Nat /\ seen \in Nat /\ book \in Book
        /\ MaxInventory \in Nat /\ tr.px \in Prices /\ tr.size \in Nat
    BY RiskAssumption, StreamAssumption
    DEF PaperInv, PaperTypeOK, TypeOK, RiskAssumption, StreamAssumption
  <1>2. /\ seen' = seen + 1 /\ now' = ts /\ ts \in Nat
        /\ UNCHANGED <<lastTs, rows, book, done, halted, peak>>
    BY <1>1 DEF PaperOnTrade, Arrives
  <1>3. CASE halted
    <2>1. UNCHANGED <<orders, acc>>
      BY <1>3 DEF PaperOnTrade
    <2>2. QED BY <1>1, <1>2, <1>3, <2>1
              DEF PaperInv, PaperTypeOK, TypeOK, Sound, OrdersOK, InventoryCapped, Within,
                  HaltedIsFlatBook
  <1>4. CASE ~halted
    <2> DEFINE hit == MatchTrade(orders, tr.px, tr.size)
    <2>1. orders' = Orders(hit) /\ acc' = ApplyFills(acc, hit, ts)
      BY <1>4 DEF PaperOnTrade
    <2>2. Sound(acc', orders', book) /\ Within(MaxInventory, acc'.pos, orders')
      BY <1>1, <1>2, <2>1, TradeStep DEF PaperInv, InventoryCapped
    <2>3. acc' \in Account /\ orders' \in [Side -> Order]
      BY <2>2 DEF Sound, OrdersOK
    <2>4. PaperTypeOK'
      BY <1>1, <1>2, <2>3 DEF PaperInv, PaperTypeOK, TypeOK
    <2>5. QED BY <1>2, <1>4, <2>2, <2>4 DEF PaperInv, InventoryCapped, HaltedIsFlatBook
  <1>5. QED BY <1>3, <1>4

LEMMA PaperFinishInv ==
  ASSUME PaperInv, PaperFinish
  PROVE  PaperInv' /\ UNCHANGED <<halted, acc>>
  <1>1. /\ done' /\ UNCHANGED <<seen, now, lastTs, orders, book, acc, halted, peak>>
        /\ rows' = IF lastTs = NoTs THEN rows ELSE Append(rows, RowOf(acc, lastTs))
    BY DEF PaperFinish, Finish
  <1>2. rows \in Seq(Row) /\ acc \in Account /\ lastTs \in Nat \cup {NoTs}
    BY DEF PaperInv, PaperTypeOK, TypeOK
  <1>3. lastTs # NoTs => RowOf(acc, lastTs) \in Row
    BY <1>2, RowType
  <1>4. rows' \in Seq(Row)
    BY <1>1, <1>2, <1>3
  <1>5. PaperTypeOK'
    BY <1>1, <1>4 DEF PaperInv, PaperTypeOK, TypeOK
  <1>6. QED BY <1>1, <1>5
            DEF PaperInv, Sound, OrdersOK, InventoryCapped, Within, HaltedIsFlatBook

LEMMA PaperNextInv ==
  ASSUME PaperInv, [PaperNext]_paperVars
  PROVE  /\ PaperInv'
         /\ halted => halted' /\ acc'.pos = acc.pos /\ acc'.trades = acc.trades
  <1>1. CASE \E ts \in {now, now + 1}, bk \in Books : PaperOnBook(ts, bk)
    BY <1>1, PaperOnBookInv
  <1>2. CASE \E ts \in {now, now + 1}, tr \in Trades : PaperOnTrade(ts, tr)
    BY <1>2, PaperOnTradeInv
  <1>3. CASE PaperFinish
    BY <1>3, PaperFinishInv
  <1>4. CASE UNCHANGED paperVars
    BY <1>4 DEF PaperInv, PaperTypeOK, paperVars, vars, TypeOK, Sound, OrdersOK,
                InventoryCapped, Within, HaltedIsFlatBook
  <1>5. QED BY <1>1, <1>2, <1>3, <1>4 DEF PaperNext

THEOREM PaperSpecInv == PaperSpec => []PaperInv
  <1>1. PaperInv /\ [PaperNext]_paperVars => PaperInv'
    BY PaperNextInv
  <1>2. QED BY <1>1, PaperInitInv, PTL DEF PaperSpec

-----------------------------------------------------------------------------
(* The paper loop keeps its types.                                         *)
THEOREM PaperTypes == PaperSpec => []PaperTypeOK
  <1>1. PaperInv => PaperTypeOK
    BY DEF PaperInv
  <1>2. QED BY PaperSpecInv, <1>1, PTL

(* Whatever the strategy quotes, the inventory passes max_inventory by     *)
(* less than one quote.                                                    *)
THEOREM PaperInventoryCapped == PaperSpec => []InventoryCapped
  <1>1. PaperInv => InventoryCapped
    BY DEF PaperInv
  <1>2. QED BY PaperSpecInv, <1>1, PTL

(* Under the risk checks too, a quote waits for displayed volume only.     *)
THEOREM PaperQueues == PaperSpec => []QueueIsDisplayed
  <1>1. PaperInv => QueueIsDisplayed
    BY DEF PaperInv, Sound, OrdersOK, QueueIsDisplayed
  <1>2. QED BY PaperSpecInv, <1>1, PTL

(* No quote rests at or through the touch it should have met.              *)
THEOREM PaperTouch == PaperSpec => []NoStaleCross
  <1>1. PaperInv => NoStaleCross
    BY DEF PaperInv, Sound, OrdersOK, NoStaleCross
  <1>2. QED BY PaperSpecInv, <1>1, PTL

(* The kill-switch leaves no quote resting, at the halt or at any time     *)
(* after it.                                                               *)
THEOREM PaperHaltCancels == PaperSpec => []HaltedIsFlatBook
  <1>1. PaperInv => HaltedIsFlatBook
    BY DEF PaperInv
  <1>2. QED BY PaperSpecInv, <1>1, PTL

(* The halt is final: no step takes it back or trades after it.            *)
THEOREM PaperHaltIsFinal == PaperSpec => HaltIsFinal
  <1>1. PaperInv /\ [PaperNext]_paperVars =>
          [halted => halted' /\ acc'.pos = acc.pos /\ acc'.trades = acc.trades]_paperVars
    BY PaperNextInv
  <1>2. QED BY PaperSpecInv, <1>1, PTL DEF PaperSpec, HaltIsFinal

-----------------------------------------------------------------------------
(* Parity with the backtest.                                               *)

(* The strategy's own limit leaves nothing for the loop's cap to suppress. *)
LEMMA CapIsIdle ==
  ASSUME QMax <= MaxInventory, NEW bk, NEW inv \in Int, NEW quote \in StrategyQuotes(bk, inv)
  PROVE  Cap(quote, inv) = quote
  <1>1. QMax \in Nat /\ MaxInventory \in Nat
    BY RiskAssumption, StreamAssumption DEF RiskAssumption, StreamAssumption
  <1>2. PICK q \in Quote : quote = OneSidedAtLimit(q, inv)
    BY StreamAssumption DEF StrategyQuotes, StreamAssumption
  <1>3. /\ quote \in [Side -> Leg]
        /\ inv >= QMax => quote["bid"] = NoLeg
        /\ inv <= -QMax => quote["ask"] = NoLeg
    BY <1>2, NoOrderType DEF OneSidedAtLimit, Quote, Side
  <1>4. (inv >= MaxInventory => inv >= QMax) /\ (inv <= -MaxInventory => inv <= -QMax)
    BY <1>1
  <1>5. QED BY <1>3, <1>4 DEF Cap, Side

(* Until it halts, the paper loop takes a book as the backtest does.       *)
LEMMA BookParity ==
  ASSUME PaperInv, QMax <= MaxInventory,
         NEW ts \in {now, now + 1}, NEW bk \in Books, PaperOnBook(ts, bk), ~halted'
  PROVE  OnBook(ts, bk)
  <1> DEFINE Settled(drawn) == Mark(ApplyFills(Opened(ts), MatchBook(orders, book, bk, drawn), ts), bk)
  <1>1. PICK drawn \in Draws :
          LET hit  == MatchBook(orders, book, bk, drawn)
              high == IF Equity(Settled(drawn)) > peak THEN Equity(Settled(drawn)) ELSE peak
              stop == halted \/ Breached(Equity(Settled(drawn)), high)
          IN  halted' = stop /\ PaperRequote(bk, Orders(hit), Settled(drawn), ts, stop)
    BY DEF PaperOnBook
  <1>2. Settled(drawn).pos \in Int
    <2>1. /\ now \in Nat /\ ts \in Nat /\ bk \in Book /\ WellFormed(bk) /\ book \in Book
          /\ MaxInventory \in Nat
      BY RiskAssumption, StreamAssumption
      DEF PaperInv, PaperTypeOK, TypeOK, RiskAssumption, StreamAssumption
    <2>2. Sound(Opened(ts), orders, book) /\ Within(MaxInventory, Opened(ts).pos, orders)
      <3>1. Sound(acc, orders, book) /\ Within(MaxInventory, acc.pos, orders) /\ acc \in Account
        BY DEF PaperInv, PaperTypeOK, TypeOK, InventoryCapped
      <3>2. /\ Opened(ts) \in Account /\ Opened(ts).pos = acc.pos
            /\ Opened(ts).mark = acc.mark /\ Opened(ts).trades = acc.trades
        BY <3>1 DEF Opened, OpenHeartbeat, Account
      <3>3. QED BY <3>1, <3>2 DEF Sound
    <2>3. Sound(Settled(drawn), Orders(MatchBook(orders, book, bk, drawn)), bk)
      BY <2>1, <2>2, SettleStep
    <2>4. QED BY <2>3 DEF Sound, Account
  <1> HIDE DEF Settled
  <1>3. PaperRequote(bk, Orders(MatchBook(orders, book, bk, drawn)), Settled(drawn), ts, FALSE)
    BY <1>1
  <1>4. Requote(bk, Orders(MatchBook(orders, book, bk, drawn)), Settled(drawn), ts)
    <2>1. \A quote \in StrategyQuotes(bk, Settled(drawn).pos) : Cap(quote, Settled(drawn).pos) = quote
      BY <1>2, CapIsIdle
    <2>2. QED BY <1>3, <2>1 DEF PaperRequote, Requote
  <1>5. QED BY <1>4 DEF PaperOnBook, OnBook, Settled

(* So does a print at the timestamp of the open heartbeat.                 *)
LEMMA TradeParity ==
  ASSUME NEW ts, NEW tr \in Trades, PaperOnTrade(ts, tr), ~halted', now' = lastTs
  PROVE  OnTrade(ts, tr)
  <1>1. ts = lastTs /\ ~halted
    BY DEF PaperOnTrade, Arrives
  <1>2. SealedRows(ts) = rows /\ Opened(ts) = acc
    BY <1>1 DEF SealedRows, Opened
  <1>3. QED BY <1>1, <1>2 DEF PaperOnTrade, OnTrade, Seal

(* A step after which the loop is not halted and by which no print opens a *)
(* heartbeat.                                                              *)
Comparable ==
  ~halted' /\ ((\E tr \in Trades : PaperOnTrade(now', tr)) => now' = lastTs)

LEMMA StepParity ==
  ASSUME PaperInv, QMax <= MaxInventory, PaperNext, Comparable
  PROVE  Next
  <1>1. ASSUME NEW ts \in {now, now + 1}, NEW bk \in Books, PaperOnBook(ts, bk) PROVE Next
    BY <1>1, BookParity DEF Comparable, Next
  <1>2. ASSUME NEW ts \in {now, now + 1}, NEW tr \in Trades, PaperOnTrade(ts, tr) PROVE Next
    <2>1. now' = ts
      BY <1>2 DEF PaperOnTrade, Arrives
    <2>2. now' = lastTs /\ ~halted'
      BY <1>2, <2>1 DEF Comparable
    <2>3. OnTrade(ts, tr)
      BY <1>2, <2>2, TradeParity
    <2>4. QED BY <2>3 DEF Next
  <1>3. CASE PaperFinish
    BY <1>3 DEF PaperFinish, Next
  <1>4. QED BY <1>1, <1>2, <1>3 DEF PaperNext

(* If the strategy's limit is at most the loop's, every step of the paper  *)
(* loop is one of the backtest's, until the loop halts and save for prints *)
(* at a timestamp of their own: those the paper loop adds to the heartbeat *)
(* before, while the backtest opens one for them.                          *)
THEOREM PaperStepsAreBacktestSteps ==
  QMax <= MaxInventory => (PaperSpec => [][Comparable => [Next]_vars]_paperVars)
  <1> SUFFICES ASSUME QMax <= MaxInventory
               PROVE  PaperSpec => [][Comparable => [Next]_vars]_paperVars
    OBVIOUS
  <1>1. PaperInv /\ [PaperNext]_paperVars => [Comparable => [Next]_vars]_paperVars
    BY StepParity
  <1>2. QED BY PaperSpecInv, <1>1, PTL DEF PaperSpec

(* Paper and backtest do not drift: on a stream of books, a paper loop     *)
(* that never halts is a backtest.                                         *)
THEOREM PaperIsBacktest ==
  QMax <= MaxInventory /\ Trades = {} => (PaperSpec /\ []~halted => PaperImplementsBacktest)
  <1> SUFFICES ASSUME QMax <= MaxInventory, Trades = {}
               PROVE  PaperSpec /\ []~halted => PaperImplementsBacktest
    OBVIOUS
  <1>1. PaperInit => Init
    BY DEF PaperInit
  <1>2. PaperInv /\ [PaperNext]_paperVars /\ ~halted' => [Next]_vars
    <2> SUFFICES ASSUME PaperInv, [PaperNext]_paperVars, ~halted' PROVE [Next]_vars
      OBVIOUS
    <2>1. CASE PaperNext
      BY <2>1, StepParity DEF Comparable
    <2>2. CASE UNCHANGED paperVars
      BY <2>2 DEF paperVars
    <2>3. QED BY <2>1, <2>2
  <1>3. QED BY PaperSpecInv, <1>1, <1>2, PTL DEF PaperSpec, Spec, PaperImplementsBacktest
=============================================================================
