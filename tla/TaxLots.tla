------------------------------- MODULE TaxLots -------------------------------
(***************************************************************************)
(* The tax lots of a book (tax/lots.py) under apply_orders (tax/apply.py): *)
(* a batch is opened with its prices and method, its orders buy and sell   *)
(* one by one, and the report flags the wash sales and adds up the gains   *)
(* and the tax.  harvest_candidates() reads the book in any state.         *)
(*                                                                         *)
(* Quantities, prices and days are integers and tax is in units of 1/100,  *)
(* the rates being percentages.                                            *)
(***************************************************************************)
EXTENDS Lots, FiniteSetsExt

CONSTANTS
  Instruments,
  Quantities,           \* the quantities of orders
  PriceMaps,            \* the prices a batch may come with
  ShortRate, LongRate,  \* TaxRates, in percent
  LongTermDays,         \* LONG_TERM_DAYS
  WindowDays,           \* window_days of the wash sale
  MinLoss,              \* min_loss of the harvest
  LastDate, MaxOrders    \* bounds

ASSUME TaxAssumption ==
  /\ Quantities \subseteq Nat \ {0}
  /\ \A px \in PriceMaps : /\ DOMAIN px \subseteq Instruments
                           /\ \A ins \in DOMAIN px : px[ins] \in Nat \ {0}
  /\ ShortRate \in Nat /\ LongRate \in 0..ShortRate
  /\ LongTermDays \in Nat /\ WindowDays \in Nat /\ MinLoss \in Nat \ {0}
  /\ LastDate \in Nat /\ MaxOrders \in Nat

LotMethod == {"fifo", "lifo", "hifo", "min_tax"}

VARIABLES
  when,      \* the day
  book,      \* the open lots; n numbers them in the order of their purchase
  batch,     \* the apply_orders at work: prices, method, buys and realized
  report,    \* the TaxReport of the call that has just returned
  n,         \* orders so far
  bought,    \* history: every purchase
  quantity, cost   \* history: of each instrument, bought less sold

lotVars == <<when, book, batch, report, n, bought, quantity, cost>>
history == <<bought, quantity, cost>>

NoBatch  == [open |-> FALSE, prices |-> << >>, method |-> "fifo", buys |-> {}, realized |-> {}]
NoReport == [gains |-> {}, st |-> 0, lt |-> 0, wash |-> 0, tax |-> 0]

LotsInit ==
  /\ when = 0
  /\ book = {}
  /\ batch = NoBatch
  /\ report = NoReport
  /\ n = 0
  /\ bought = {}
  /\ quantity = [ins \in Instruments |-> 0]
  /\ cost = [ins \in Instruments |-> 0]

-----------------------------------------------------------------------------
LotsOf(ins) == {lot \in book : lot.ins = ins}
Held(ins)   == SumFunction([lot \in LotsOf(ins) |-> lot.qty])

LongTerm(acquired) == when - acquired > LongTermDays

TaxOn(gain, long) == gain * (IF long THEN LongRate ELSE ShortRate)

(* LotBook._order(): the sort key of a lot, the least sold first.          *)
KeyByPosition(lot, method, price) ==          \* mutant: the tax of the lot, not of a share
  CASE method = "fifo"    -> lot.acquired
    [] method = "lifo"    -> -lot.acquired
    [] method = "hifo"    -> -lot.price
    [] method = "min_tax" -> lot.qty * TaxOn(price - lot.price, LongTerm(lot.acquired))

Key(lot, method, price) ==
  CASE method = "fifo"    -> lot.acquired
    [] method = "lifo"    -> -lot.acquired
    [] method = "hifo"    -> -lot.price
    [] method = "min_tax" -> TaxOn(price - lot.price, LongTerm(lot.acquired))

(* What a sale of qty takes of a lot; the sort is stable.                  *)
Take(lot, qty, method, price) ==
  LET k     == Key(lot, method, price)
      Before(other) == LET j == Key(other, method, price)
                       IN  j < k \/ (j = k /\ other.n < lot.n)
      ahead == SumFunction([other \in {l \in LotsOf(lot.ins) : Before(l)} |-> other.qty])
  IN  Min({lot.qty, Positive(qty - ahead)})

(* LotBook.sell(): the gains realized, clamped to what is held.            *)
Sold(ins, qty, method, price) ==
  LET Took(lot) == Take(lot, qty, method, price)
  IN  {[n |-> n, lot |-> lot.n, ins |-> ins, qty |-> Took(lot), basis |-> Took(lot) * lot.price,
        gain |-> Took(lot) * (price - lot.price), long |-> LongTerm(lot.acquired), sold |-> when] :
          lot \in {l \in LotsOf(ins) : Took(l) > 0}}

(* What is left of the lots; an emptied one is dropped.                    *)
LeftWhole(sold) ==                            \* mutant: a lot is sold whole or kept whole
  {lot \in book : \A r \in sold : r.lot # lot.n \/ r.qty < lot.qty}

Left(sold) ==
  LET Took(lot) == SumFunction([r \in {x \in sold : x.lot = lot.n} |-> r.qty])
  IN  {[lot EXCEPT !.qty = lot.qty - Took(lot)] : lot \in {l \in book : Took(l) < l.qty}}

(* flag_wash_sales(): a loss on what was bought around the sale.           *)
WashedBefore(r, buys) ==                      \* mutant: only by earlier purchases
  r.gain < 0 /\ \E b \in buys : b.ins = r.ins /\ r.sold - b.day \in 1..WindowDays

Washed(r, buys) ==
  r.gain < 0 /\ \E b \in buys : b.ins = r.ins /\ Abs(r.sold - b.day) <= WindowDays

(* harvest_candidates(): the instruments whose losing lots are worth it.   *)
Worthwhile(prices, instruments) ==
  LET Losers(ins)  == {lot \in LotsOf(ins) : lot.price > prices[ins]}
      EstLoss(ins) == SumFunction([lot \in Losers(ins) |-> lot.qty * (lot.price - prices[ins])])
  IN  {[ins |-> ins, qty |-> SumFunction([lot \in Losers(ins) |-> lot.qty]), loss |-> EstLoss(ins)] :
          ins \in {i \in instruments : EstLoss(i) >= MinLoss}}

HarvestEvenRecent(prices, recent) ==          \* mutant: recent purchases do not block
  Worthwhile(prices, DOMAIN prices)

Harvest(prices, recent) == Worthwhile(prices, DOMAIN prices \ recent)

-----------------------------------------------------------------------------
(* recent_buys: the caller knows every purchase, or passes none.           *)
Open(prices, method) ==
  /\ ~batch.open
  /\ \E known \in {{}, bought} :
       batch' = [open |-> TRUE, prices |-> prices, method |-> method,
                 buys |-> known, realized |-> {}]
  /\ report' = NoReport
  /\ UNCHANGED <<when, book, n, history>>

Buy(ins, qty) ==
  LET price == batch.prices[ins]
  IN  /\ batch.open /\ ins \in DOMAIN batch.prices
      /\ n < MaxOrders
      /\ book' = book \cup {[n |-> n, ins |-> ins, qty |-> qty, price |-> price,
                                acquired |-> when]}
      /\ batch' = [batch EXCEPT !.buys = batch.buys \cup {[ins |-> ins, day |-> when]}]
      /\ n' = n + 1
      /\ bought' = bought \cup {[ins |-> ins, day |-> when]}
      /\ quantity' = [quantity EXCEPT ![ins] = quantity[ins] + qty]
      /\ cost' = [cost EXCEPT ![ins] = cost[ins] + qty * price]
      /\ UNCHANGED <<when, report>>

Sell(ins, qty) ==
  /\ batch.open /\ ins \in DOMAIN batch.prices
  /\ n < MaxOrders
  /\ LET sold == Sold(ins, qty, batch.method, batch.prices[ins])
     IN  /\ book' = Left(sold)
         /\ batch' = [batch EXCEPT !.realized = batch.realized \cup sold]
         /\ quantity' = [quantity EXCEPT ![ins] = quantity[ins]
                           - SumFunction([r \in sold |-> r.qty])]
         /\ cost' = [cost EXCEPT ![ins] = cost[ins] - SumFunction([r \in sold |-> r.basis])]
  /\ n' = n + 1
  /\ UNCHANGED <<when, report, bought>>

(* An order for an instrument without a price raises: the orders before it *)
(* have changed the book, and their gains are in no report.                *)
PriceMissing ==
  /\ batch.open
  /\ DOMAIN batch.prices # Instruments
  /\ batch' = NoBatch
  /\ UNCHANGED <<when, book, report, n, history>>

(* The end of apply_orders(): the wash sales, the sums and the tax.        *)
Report ==
  /\ batch.open
  /\ LET Total(S)   == SumFunction([r \in S |-> r.gain])
         gains      == batch.realized
         wash       == {r \in gains : Washed(r, batch.buys)}
         Side(long) == {r \in gains : r.long = long}
     IN  report' = [gains |-> gains, st |-> Total(Side(FALSE)), lt |-> Total(Side(TRUE)),
                    wash |-> -Total(wash),
                    tax |-> TaxOn(Total(Side(FALSE) \ wash), FALSE)
                              + TaxOn(Total(Side(TRUE) \ wash), TRUE)]
  /\ batch' = NoBatch
  /\ UNCHANGED <<when, book, n, history>>

NextDay ==
  /\ ~batch.open
  /\ when < LastDate
  /\ when' = when + 1
  /\ report' = NoReport
  /\ UNCHANGED <<book, batch, n, history>>

LotsNext ==
  \/ \E prices \in PriceMaps, method \in LotMethod : Open(prices, method)
  \/ \E ins \in Instruments, qty \in Quantities : Buy(ins, qty) \/ Sell(ins, qty)
  \/ PriceMissing \/ Report \/ NextDay

LotsSpec == LotsInit /\ [][LotsNext]_lotVars

-----------------------------------------------------------------------------
Lot  == [n : Nat, ins : Instruments, qty : Nat \ {0}, price : Nat \ {0}, acquired : 0..LastDate]
Gain == [n : Nat, lot : Nat, ins : Instruments, qty : Nat \ {0}, basis : Nat, gain : Int,
         long : BOOLEAN, sold : 0..LastDate]

(* Through partial sales, clamped sales and every method, the open lots    *)
(* hold the shares bought and not sold, at the cost not yet realized.      *)
BooksBalance ==
  \A ins \in Instruments :
    /\ Held(ins) = quantity[ins]
    /\ SumFunction([lot \in LotsOf(ins) |-> lot.qty * lot.price]) = cost[ins]

(* The ways to take that many shares out of the lots of an instrument.     *)
Splits(ins, shares) ==
  {take \in [LotsOf(ins) -> 0..shares] :
     /\ \A lot \in LotsOf(ins) : take[lot] <= lot.qty
     /\ SumFunction([lot \in LotsOf(ins) |-> take[lot]]) = shares}

(* The lots of ins that a step sells shares of are the best for its method *)
(* of all ways to sell as many: highest cost first realizes the smallest   *)
(* gain, MIN_TAX owes the least tax, FIFO and LIFO sell the oldest and the *)
(* newest.                                                                 *)
SellsTheBest(ins) ==
  LET sold  == {r \in batch'.realized \ batch.realized : r.ins = ins}
      price == batch.prices[ins]
      made  == [lot \in LotsOf(ins) |-> SumFunction([r \in {x \in sold : x.lot = lot.n} |-> r.qty])]
      Total(take, F(_)) == SumFunction([lot \in LotsOf(ins) |-> take[lot] * F(lot)])
      Gained(lot) == price - lot.price
      Owed(lot)   == TaxOn(price - lot.price, LongTerm(lot.acquired))
      Age(lot)    == when - lot.acquired
  IN  sold # {} =>
        \A take \in Splits(ins, SumFunction([r \in sold |-> r.qty])) :
          CASE batch.method = "hifo"    -> Total(made, Gained) <= Total(take, Gained)
            [] batch.method = "min_tax" -> Total(made, Owed) <= Total(take, Owed)
            [] batch.method = "fifo"    -> Total(made, Age) >= Total(take, Age)
            [] batch.method = "lifo"    -> Total(made, Age) <= Total(take, Age)

(* Every sale sells the best lots, whatever partial lots it leaves.        *)
BestLots == [][\A ins \in Instruments : SellsTheBest(ins)]_lotVars

(* A loss on an instrument bought on the day of the sale, before it or     *)
(* after it in the batch, or within the window before it if the caller     *)
(* knows, offsets no gain; the other losses do.                            *)
WashedLossesCount ==
  [][ batch.open /\ report' # report =>
        LET known(r)  == \E b \in bought : /\ b.ins = r.ins
                                           /\ r.sold - b.day \in 0..WindowDays
                                           /\ b \in batch.buys
            counted   == {r \in batch.realized : r.gain >= 0 \/ ~known(r)}
        IN  /\ report'.tax = SumFunction([r \in counted |-> TaxOn(r.gain, r.long)])
            /\ report'.st + report'.lt + report'.wash
                 = SumFunction([r \in counted |-> r.gain]) ]_lotVars

(* What the harvest promises is there: with every purchase of the window   *)
(* passed in, selling the candidate by highest cost or least tax realizes  *)
(* exactly the estimated loss, none of it washed, and saves no more tax    *)
(* than estimated.                                                         *)
HarvestIsReal ==
  \A prices \in PriceMaps, method \in {"hifo", "min_tax"} :
    \A c \in Harvest(prices, {b.ins : b \in {x \in bought : when - x.day <= WindowDays}}) :
      LET sold == Sold(c.ins, c.qty, method, prices[c.ins])
      IN  /\ SumFunction([r \in sold |-> r.gain]) = -c.loss
          /\ \A r \in sold : ~Washed(r, bought)
          /\ SumFunction([r \in sold |-> -TaxOn(r.gain, r.long)]) <= c.loss * ShortRate
=============================================================================
