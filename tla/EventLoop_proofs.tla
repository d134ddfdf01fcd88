-------------------------- MODULE EventLoop_proofs --------------------------
(***************************************************************************)
(* The event loop, for any panel whose timestamps are all different:       *)
(* it drains a bar before it takes up the next one and leaves no bar       *)
(* unrecorded; every row's change of equity is explained; no forbidden     *)
(* short is opened; and its rows are those of the vectorized engine.       *)
(***************************************************************************)
EXTENDS EventLoop, Sums

Bare(e) == e = Event(e.ts, e.kind, e.n, e.body)

(* The shape of the heap: what one bar led to, with its record among it,   *)
(* and at most the one bar that follows, which is later.                   *)
Shape(h) ==
  /\ \A e \in h : /\ Bare(e) /\ e.ts \in Nat /\ e.n \in Nat
                  /\ e.kind \in {"market", "order", "fill", "signal", "record"}
  /\ \A e, f \in h : e.kind = "market" /\ f.kind = "market" => e = f
  /\ \A e, f \in h : e.kind = "record" /\ f.kind = "record" => e = f
  /\ \A e, f \in h : e.kind # "market" /\ f.kind # "market" => e.ts = f.ts
  /\ \A e, f \in h : e.kind = "market" /\ f.kind # "market" => f.ts < e.ts

HasRecord(h) == \E e \in h : e.kind = "record"

Led(h) == \A e \in h : e.kind # "market" => HasRecord(h)

Proper(s) == s \in Seq({s[i] : i \in DOMAIN s})

IInv ==
  /\ Shape(heap) /\ Led(heap)
  /\ counter \in Nat /\ count \in Nat
  /\ Proper(rows) /\ Proper(history)
  /\ Len(history) = Len(rows)
  /\ count = Len(rows) + (IF HasRecord(heap) THEN 1 ELSE 0)

Renumbered(s, k) == {[f EXCEPT !.n = k + f.n] : f \in s}

-----------------------------------------------------------------------------
LEMMA Renumber ==
  ASSUME NEW f, Bare(f), NEW k
  PROVE  [f EXCEPT !.n = k] = Event(f.ts, f.kind, k, f.body)
BY DEF Bare, Event

LEMMA EventFields ==
  ASSUME NEW ts, NEW kind, NEW n, NEW body
  PROVE  LET e == Event(ts, kind, n, body)
         IN  e.ts = ts /\ e.kind = kind /\ e.n = n /\ e.body = body /\ Bare(e)
BY DEF Bare, Event

LEMMA WidthIsNat == Width \in Nat /\ Width >= 3
BY RulesAssumption DEF Width

LEMMA Grows ==
  ASSUME NEW s, Proper(s), NEW x
  PROVE  Proper(Append(s, x)) /\ Len(Append(s, x)) = Len(s) + 1 /\ Len(s) \in Nat
<1> DEFINE S == {s[i] : i \in DOMAIN s}
           a == Append(s, x)
<1>1. s \in Seq(S)
  BY DEF Proper
<1> HIDE DEF S
<1>2. a \in Seq(S \cup {x}) /\ Len(a) = Len(s) + 1 /\ Len(s) \in Nat
  BY <1>1
<1>3. a \in Seq({a[i] : i \in DOMAIN a})
  <2> HIDE DEF a
  <2>1. \A i \in 1..Len(a) : a[i] \in {a[j] : j \in DOMAIN a}
    BY <1>2
  <2> QED
    BY <2>1, <1>2
<1> QED
  BY <1>2, <1>3 DEF Proper

LEMMA DrainedByShape ==
  ASSUME Shape(heap) PROVE DrainedBeforeNextBar
<1> SUFFICES ASSUME NEW e \in heap, Pops(e, "market"), NEW f \in heap, f # e
             PROVE  FALSE
  BY DEF DrainedBeforeNextBar
<1>1. e.kind = "market" /\ Before(e, f)
  BY DEF Pops
<1>2. e.ts \in Nat /\ f.ts \in Nat /\ f.ts < e.ts
  BY <1>1 DEF Shape
<1> QED
  BY <1>1, <1>2 DEF Before

(* What a bar leads to has the shape, alone or with the bar after it.      *)
Ordered(s, ts) ==
  \A o \in s : Bare(o) /\ o.ts = ts /\ o.kind = "order" /\ o.n \in Nat

LEMMA OrdersAreOrdered ==
  ASSUME NEW ts, NEW bar, NEW equity
  PROVE  Ordered(Orders(ts, bar, equity), ts)
<1> SUFFICES ASSUME NEW o \in Orders(ts, bar, equity)
             PROVE  Bare(o) /\ o.ts = ts /\ o.kind = "order" /\ o.n \in Nat
  BY DEF Ordered
<1>1. PICK k \in DOMAIN Columns : \E body : o = Event(ts, "order", k, body)
  BY DEF Orders
<1>2. k \in Nat
  BY RulesAssumption
<1> QED
  BY <1>1, <1>2, EventFields

LEMMA DerivedShape ==
  ASSUME NEW ts \in Nat, NEW orders, Ordered(orders, ts), NEW weights, NEW k \in Nat,
         NEW next, next = {} \/ \E gap \in Nat \ {0} : \E bar :
                                   next = {Event(ts + gap, "market", Width, bar)}
  PROVE  LET h == Renumbered(Derived(ts, orders, weights) \cup next, k)
         IN  Shape(h) /\ HasRecord(h)
<1> DEFINE D == Derived(ts, orders, weights)
           h == Renumbered(D \cup next, k)
           rec == Event(ts, "record", Width - 1, << >>)
<1>1. \A d \in D : /\ Bare(d) /\ d.ts = ts /\ d.n \in Nat
                   /\ d.kind \in {"order", "signal", "record"}
                   /\ d.kind = "record" => d = rec
  <2> TAKE d \in D
  <2>1. CASE d \in orders
    BY <2>1 DEF Ordered
  <2>2. CASE d = Event(ts, "signal", Width - 2, weights)
    BY <2>2, EventFields, WidthIsNat
  <2>3. CASE d = rec
    BY <2>3, EventFields, WidthIsNat
  <2> QED
    BY <2>1, <2>2, <2>3 DEF Derived, Signals
<1>2. rec \in D
  BY DEF Derived
<1>3. \A d \in next : /\ Bare(d) /\ d.ts \in Nat /\ ts < d.ts /\ d.n \in Nat
                      /\ d.kind = "market"
                      /\ \A f \in next : f = d
  <2>1. CASE next = {}
    BY <2>1
  <2>2. CASE next # {}
    <3>1. PICK gap \in Nat \ {0} : \E bar : next = {Event(ts + gap, "market", Width, bar)}
      BY <2>2
    <3>2. PICK bar : next = {Event(ts + gap, "market", Width, bar)}
      BY <3>1
    <3>3. ts + gap \in Nat /\ ts < ts + gap
      OBVIOUS
    <3> QED
      BY <3>2, <3>3, EventFields, WidthIsNat
  <2> QED
    BY <2>1, <2>2
<1> HIDE DEF D, rec
<1>4. \A e \in h : \E d \in D \cup next :
        e = Event(d.ts, d.kind, k + d.n, d.body)
  <2> TAKE e \in h
  <2>1. PICK d \in D \cup next : e = [d EXCEPT !.n = k + d.n]
    BY DEF Renumbered
  <2>2. Bare(d)
    BY <1>1, <1>3
  <2> QED
    BY <2>1, <2>2, Renumber
<1>5. \A e \in h : \E d \in D \cup next :
        /\ e = Event(d.ts, d.kind, k + d.n, d.body)
        /\ Bare(e) /\ e.ts = d.ts /\ e.kind = d.kind /\ e.n \in Nat
  BY <1>1, <1>3, <1>4, EventFields
<1>6. HasRecord(h)
  <2>1. rec.kind = "record"
    BY EventFields DEF rec
  <2>2. [rec EXCEPT !.n = k + rec.n] \in h
    BY <1>2 DEF Renumbered
  <2>3. [rec EXCEPT !.n = k + rec.n].kind = "record"
    BY <2>1, <1>1, <1>2, Renumber, EventFields
  <2> QED
    BY <2>2, <2>3 DEF HasRecord
<1> HIDE DEF h
<1>7. \A e \in h : /\ Bare(e) /\ e.ts \in Nat /\ e.n \in Nat
                   /\ e.kind \in {"market", "order", "fill", "signal", "record"}
  BY <1>1, <1>3, <1>5
<1>8. \A e, f \in h : e.kind = "market" /\ f.kind = "market" => e = f
  BY <1>1, <1>3, <1>5
<1>9. \A e, f \in h : e.kind = "record" /\ f.kind = "record" => e = f
  BY <1>1, <1>3, <1>5
<1>10. \A e, f \in h : e.kind # "market" /\ f.kind # "market" => e.ts = f.ts
  BY <1>1, <1>3, <1>5
<1>11. \A e, f \in h : e.kind = "market" /\ f.kind # "market" => f.ts < e.ts
  BY <1>1, <1>3, <1>5
<1>12. Shape(h)
  BY <1>7, <1>8, <1>9, <1>10, <1>11 DEF Shape
<1> QED
  BY <1>6, <1>12 DEF h, D

(* An order popped is replaced by its fill, of the same time.              *)
LEMMA FillShape ==
  ASSUME NEW h, Shape(h), HasRecord(h), NEW e \in h, e.kind = "order",
         NEW body, NEW k \in Nat
  PROVE  LET g == (h \ {e}) \cup Renumbered({Event(e.ts, "fill", 1, body)}, k)
         IN  Shape(g) /\ HasRecord(g)
<1> DEFINE fill == Event(e.ts, "fill", k + 1, body)
           g == (h \ {e}) \cup Renumbered({Event(e.ts, "fill", 1, body)}, k)
<1>1. [Event(e.ts, "fill", 1, body) EXCEPT !.n = k + 1] = fill
  BY DEF Event
<1>2. Renumbered({Event(e.ts, "fill", 1, body)}, k) = {fill}
  <2>1. Event(e.ts, "fill", 1, body).n = 1
    BY EventFields
  <2> QED
    BY <1>1, <2>1 DEF Renumbered
<1>3. Bare(fill) /\ fill.ts = e.ts /\ fill.kind = "fill" /\ fill.n \in Nat
  BY EventFields
<1> HIDE DEF fill
<1>4. g = (h \ {e}) \cup {fill}
  BY <1>2
<1> HIDE DEF g
<1>5. HasRecord(g)
  BY <1>4 DEF HasRecord
<1>6. Shape(g)
  BY <1>3, <1>4 DEF Shape
<1> QED
  BY <1>5, <1>6 DEF g

(* A fill or a signal popped leaves the rest.                              *)
LEMMA RestShape ==
  ASSUME NEW h, Shape(h), HasRecord(h), NEW e \in h, e.kind \in {"fill", "signal"}
  PROVE  Shape(h \ {e}) /\ HasRecord(h \ {e})
BY DEF Shape, HasRecord

(* The record is popped last: at most the next bar is left.                *)
LEMMA RecordLast ==
  ASSUME Shape(heap), NEW e \in heap, Pops(e, "record")
  PROVE  Shape(heap \ {e}) /\ ~HasRecord(heap \ {e}) /\ Led(heap \ {e}) /\ HasRecord(heap)
<1>1. \A f \in heap \ {e} : f.kind = "market"
  <2> SUFFICES ASSUME NEW f \in heap, f # e, f.kind # "market" PROVE FALSE
    OBVIOUS
  <2>1. e.kind = "record" /\ Before(e, f)
    BY DEF Pops
  <2>2. f.kind \in {"order", "fill", "signal"} /\ f.ts = e.ts /\ e.ts \in Nat
    BY <2>1 DEF Shape
  <2>3. Priority["record"] = 5 /\ Priority[f.kind] < 5 /\ Priority[f.kind] \in Nat
    BY <2>2 DEF Priority
  <2> QED
    BY <2>1, <2>2, <2>3 DEF Before
<1>2. Shape(heap \ {e})
  BY DEF Shape
<1>3. HasRecord(heap)
  BY DEF HasRecord, Pops
<1> QED
  BY <1>1, <1>2, <1>3 DEF HasRecord, Led

LEMMA EmptyPush ==
  ASSUME NEW k PROVE Renumbered({}, k) = {}
BY DEF Renumbered

LEMMA ReplaceIs ==
  ASSUME NEW e, NEW pushed, Replace(e, pushed), counter \in Nat
  PROVE  heap' = (heap \ {e}) \cup Renumbered(pushed, counter) /\ counter' \in Nat
<1>1. counter' \in Nat
  <2>1. \A a, b \in Nat : a + b \in Nat
    OBVIOUS
  <2> QED
    BY <2>1, WidthIsNat DEF Replace
<1> QED
  BY <1>1 DEF Replace, Renumbered

-----------------------------------------------------------------------------
LEMMA InitIInv == Init => IInv
<1> SUFFICES ASSUME Init PROVE IInv
  OBVIOUS
<1>1. PICK bar \in Bars : heap = {Event(1, "market", 0, bar)}
  BY DEF Init
<1>2. LET e == Event(1, "market", 0, bar)
      IN  e.ts = 1 /\ e.kind = "market" /\ e.n = 0 /\ Bare(e)
  BY EventFields
<1>3. Shape(heap) /\ Led(heap) /\ ~HasRecord(heap)
  BY <1>1, <1>2 DEF Shape, Led, HasRecord
<1>4. Proper(rows) /\ Proper(history) /\ Len(rows) = 0 /\ Len(history) = 0
  BY DEF Init, Proper
<1> QED
  BY <1>3, <1>4 DEF Init, IInv

LEMMA MarketIInv ==
  ASSUME 0 \notin Gaps, IInv, NEW e \in heap, OnMarket(e)
  PROVE  IInv'
<1> DEFINE marked == Marked(e.body)
           equity == Equity(marked)
           orders == Orders(e.ts, e.body, equity)
<1>1. heap = {e} /\ e.kind = "market" /\ e.ts \in Nat
  BY DrainedByShape DEF IInv, OnMarket, DrainedBeforeNextBar, Pops, Shape
<1> DEFINE Follows(next) ==
             next = {} \/ \E gap \in Nat \ {0} : \E bar :
                             next = {Event(e.ts + gap, "market", Width, bar)}
<1>2. \E weights : \E next : Follows(next) /\ Replace(e, Derived(e.ts, orders, weights) \cup next)
  <2>1. PICK weights \in WeightRows :
          \/ Replace(e, Derived(e.ts, orders, weights))
          \/ \E gap \in Gaps, bar \in Bars :
               Replace(e, Derived(e.ts, orders, weights)
                            \cup {Event(e.ts + gap, "market", Width, bar)})
    BY DEF OnMarket
  <2> HIDE DEF orders
  <2>2. CASE Replace(e, Derived(e.ts, orders, weights))
    <3>1. Derived(e.ts, orders, weights) = Derived(e.ts, orders, weights) \cup {}
      OBVIOUS
    <3> QED
      BY <2>2, <3>1
  <2>3. CASE \E gap \in Gaps, bar \in Bars :
               Replace(e, Derived(e.ts, orders, weights)
                            \cup {Event(e.ts + gap, "market", Width, bar)})
    <3>1. Gaps \subseteq Nat \ {0}
      BY LoopAssumption
    <3> QED
      BY <2>3, <3>1
  <2> QED
    BY <2>1, <2>2, <2>3
<1>3. PICK weights : \E next : Follows(next) /\ Replace(e, Derived(e.ts, orders, weights) \cup next)
  BY <1>2
<1>3a. PICK next : Follows(next) /\ Replace(e, Derived(e.ts, orders, weights) \cup next)
  BY <1>3
<1>4. Ordered(orders, e.ts)
  BY OrdersAreOrdered
<1> HIDE DEF orders
<1>5. heap' = Renumbered(Derived(e.ts, orders, weights) \cup next, counter) /\ counter' \in Nat
  <2>1. counter \in Nat
    BY DEF IInv
  <2>2. heap' = (heap \ {e}) \cup Renumbered(Derived(e.ts, orders, weights) \cup next, counter)
    BY <1>3a, <2>1, ReplaceIs
  <2>3. heap \ {e} = {}
    BY <1>1
  <2>4. counter' \in Nat
    BY <1>3a, <2>1, ReplaceIs
  <2> QED
    BY <2>2, <2>3, <2>4
<1>6. Shape(heap') /\ HasRecord(heap')
  BY <1>1, <1>3a, <1>4, <1>5, DerivedShape DEF IInv
<1>7. ~HasRecord(heap)
  BY <1>1 DEF HasRecord
<1>8. count' = count + 1 /\ rows' = rows /\ history' = history
  BY DEF OnMarket
<1>9. count \in Nat /\ count = Len(rows)
  BY <1>7 DEF IInv
<1>10. Led(heap')
  BY <1>6 DEF Led
<1>11. count' = Len(rows') + 1 /\ count' \in Nat
  <2>1. \A a \in Nat : a + 1 \in Nat
    OBVIOUS
  <2> QED
    BY <1>8, <1>9, <2>1
<1>12. Proper(rows') /\ Proper(history') /\ Len(history') = Len(rows')
  BY <1>8 DEF IInv
<1> QED
  BY <1>5, <1>6, <1>10, <1>11, <1>12 DEF IInv

LEMMA QuietIInv ==
  ASSUME IInv, Shape(heap'), HasRecord(heap) => HasRecord(heap'), HasRecord(heap') => HasRecord(heap),
         Led(heap'), counter' \in Nat, UNCHANGED <<count, rows, history>>
  PROVE  IInv'
BY DEF IInv

LEMMA StepIInv ==
  ASSUME 0 \notin Gaps, IInv, [Next]_vars
  PROVE  IInv'
<1>1. CASE UNCHANGED vars
  BY <1>1 DEF vars, IInv, Shape, Led, HasRecord
<1>2. ASSUME NEW e \in heap, OnMarket(e) PROVE IInv'
  BY <1>2, MarketIInv
<1>3. ASSUME NEW e \in heap, OnOrder(e) PROVE IInv'
  <2>1. e.kind = "order" /\ Shape(heap) /\ HasRecord(heap) /\ counter \in Nat
    BY <1>3 DEF OnOrder, Pops, IInv, Led
  <2>2. PICK body : Replace(e, {Event(e.ts, "fill", 1, body)})
    BY <1>3 DEF OnOrder
  <2>3. Shape(heap') /\ HasRecord(heap') /\ counter' \in Nat
    <3>1. heap' = (heap \ {e}) \cup Renumbered({Event(e.ts, "fill", 1, body)}, counter)
      BY <2>1, <2>2, ReplaceIs
    <3>2. counter' \in Nat
      BY <2>1, <2>2, ReplaceIs
    <3> QED
      BY <2>1, <3>1, <3>2, FillShape
  <2>4. UNCHANGED <<count, rows, history>>
    BY <1>3 DEF OnOrder
  <2> QED
    BY <2>1, <2>3, <2>4, QuietIInv DEF Led
<1>4. ASSUME NEW e \in heap, OnFill(e) \/ OnSignal(e) PROVE IInv'
  <2>1. e.kind \in {"fill", "signal"} /\ Shape(heap) /\ HasRecord(heap) /\ counter \in Nat
    BY <1>4 DEF OnFill, OnSignal, Pops, IInv, Led
  <2>2. Replace(e, {}) /\ UNCHANGED <<count, rows, history>>
    BY <1>4 DEF OnFill, OnSignal
  <2>3. heap' = heap \ {e} /\ counter' \in Nat
    BY <2>1, <2>2, ReplaceIs, EmptyPush
  <2>4. Shape(heap') /\ HasRecord(heap')
    BY <2>1, <2>3, RestShape
  <2> QED
    BY <2>1, <2>2, <2>3, <2>4, QuietIInv DEF Led
<1>5. ASSUME NEW e \in heap, OnRecord(e) PROVE IInv'
  <2>1. Pops(e, "record") /\ Replace(e, {})
    BY <1>5 DEF OnRecord
  <2>2. heap' = heap \ {e} /\ counter' \in Nat
    BY <2>1, ReplaceIs, EmptyPush DEF IInv
  <2>3. Shape(heap') /\ ~HasRecord(heap') /\ Led(heap') /\ HasRecord(heap)
    BY <2>1, <2>2, RecordLast DEF IInv
  <2>4. PICK row : rows' = Append(rows, row)
    BY <1>5 DEF OnRecord
  <2>5. history' = Append(history, current) /\ count' = count
    BY <1>5 DEF OnRecord
  <2>6. /\ Proper(rows') /\ Len(rows') = Len(rows) + 1
        /\ Proper(history') /\ Len(history') = Len(history) + 1
    BY <2>4, <2>5, Grows DEF IInv
  <2>7. count = Len(rows) + 1 /\ count \in Nat /\ Len(history) = Len(rows) /\ Len(rows) \in Nat
    BY <2>3, Grows DEF IInv
  <2>8. count' = Len(rows') /\ Len(history') = Len(rows') /\ count' \in Nat
    BY <2>5, <2>6, <2>7
  <2>9. count' = Len(rows') + 0
    BY <2>6, <2>7, <2>8
  <2> QED
    BY <2>2, <2>3, <2>6, <2>8, <2>9 DEF IInv
<1> QED
  BY <1>1, <1>2, <1>3, <1>4, <1>5 DEF Next

-----------------------------------------------------------------------------
(* Of a panel without tied timestamps the loop takes up a bar only when    *)
(* everything the bar before led to is done.                               *)
THEOREM DrainsBeforeNextBar ==
  ASSUME 0 \notin Gaps PROVE Spec => []DrainedBeforeNextBar
<1>1. IInv => DrainedBeforeNextBar
  BY DrainedByShape DEF IInv
<1> QED
  BY <1>1, InitIInv, StepIInv, PTL DEF Spec

(* It ends with one row and one lag-buffer entry for every bar.            *)
THEOREM EveryBarRecorded ==
  ASSUME 0 \notin Gaps PROVE Spec => []AllRecorded
<1>1. IInv => AllRecorded
  <2> SUFFICES ASSUME IInv, heap = {} PROVE Len(rows) = count /\ Len(history) = count
    BY DEF AllRecorded
  <2>1. ~HasRecord(heap)
    BY DEF HasRecord
  <2> QED
    BY <2>1, Grows DEF IInv
<1> QED
  BY <1>1, InitIInv, StepIInv, PTL DEF Spec
-----------------------------------------------------------------------------
(* The day of the vectorized engine, for any book it may begin with: the   *)
(* book of the morning, what the target of the day asks for,               *)
Morning(old, bar) ==
  [cash |-> old.cash +
              SumFunction([c \in {d \in Ids : /\ Terms[d].margined /\ old.pos[d] # 0
                                              /\ bar.close[d] # 0 /\ old.mark[d] # 0} |->
                             old.pos[c] * (Money(c, bar.close[c]) - Money(c, old.mark[c]))]),
   pos  |-> old.pos,
   mark |-> [c \in Ids |-> IF bar.close[c] # 0 THEN bar.close[c] ELSE old.mark[c]]]

Target(past) ==
  LET due == Len(past) - SignalLag + 1
  IN  IF due \in DOMAIN past THEN past[due] ELSE Hold

Move(old, bar, target, c) ==
  TargetUnits(c, WeightOf(target, c), Equity(Morning(old, bar)), bar.close[c]) - old.pos[c]

Movers(old, bar, target) ==
  {c \in Ids :
    /\ target # Hold /\ bar.close[c] # 0
    /\ Move(old, bar, target, c) # 0
    /\ Outside(c, Move(old, bar, target, c), bar.close[c], Equity(Morning(old, bar)))}

(* and what a column that has been filled has cost.                        *)
Cost(c, bar, delta) ==
  delta * (FillPrice(c, RefPrice(bar, c), delta)
             - (IF Terms[c].margined THEN Money(c, bar.close[c]) ELSE 0))
    + Commission(c, delta)

Costs(old, bar, target, done) ==
  SumFunction([c \in done |-> Cost(c, bar, Move(old, bar, target, c))])
Commissions(old, bar, target, done) ==
  SumFunction([c \in done |-> Commission(c, Move(old, bar, target, c))])
Slippages(old, bar, target, done) ==
  SumFunction([c \in done |-> Slippage(c, RefPrice(bar, c), Move(old, bar, target, c))])
Turnover(old, bar, target) ==
  SumFunction([c \in Movers(old, bar, target) |->
                 Abs(Move(old, bar, target, c)) * Money(c, RefPrice(bar, c))])

(* The book of a day, when the columns of done have been filled.           *)
BookOf(old, bar, target, done) ==
  LET m == Morning(old, bar)
  IN  [cash |-> m.cash - Financing(m) - Costs(old, bar, target, done),
       pos  |-> [c \in Ids |-> IF c \in done THEN old.pos[c] + Move(old, bar, target, c)
                                              ELSE old.pos[c]],
       mark |-> m.mark]

DayOf(old, bar, weights, target, done) ==
  LET m == Morning(old, bar)
  IN  [equity |-> Equity(m), fin |-> Financing(m),
       comm |-> Commissions(old, bar, target, done), slip |-> Slippages(old, bar, target, done),
       traded |-> Turnover(old, bar, target), bar |-> bar, weights |-> weights]

(* A book whose positions all have a mark.                                 *)
Valued(b) == b \in Book /\ \A c \in Ids : b.pos[c] # 0 => b.mark[c] # 0

Weighted(w) == w \in [DOMAIN w -> Int]

LEMMA IdsFinite == IsFiniteSet(Ids)
<1>1. Columns \in Seq(STRING)
  BY RulesAssumption
<1>2. Len(Columns) \in Nat /\ DOMAIN Columns = 1..Len(Columns)
  BY <1>1
<1>3. IsFiniteSet(1..Len(Columns))
  BY <1>2, FS_Interval
<1>4. [i \in 1..Len(Columns) |-> Columns[i]] \in Surjection(1..Len(Columns), Ids)
  BY <1>2 DEF Ids, Range, Surjection
<1> QED
  BY <1>3, <1>4, FS_Surjection

LEMMA TermsAre ==
  ASSUME NEW c \in Ids
  PROVE  /\ Terms[c].margined \in BOOLEAN /\ Terms[c].mult \in Nat \ {0} /\ Terms[c].lot \in Nat \ {0}
         /\ Terms[c].shortable \in BOOLEAN /\ Terms[c].risk \in Nat \ {0}
BY RulesAssumption DEF Instrument

LEMMA MoneyIs ==
  ASSUME NEW c \in Ids, NEW px \in Nat
  PROVE  Money(c, px) \in Nat /\ (px # 0 => Money(c, px) # 0)
<1>1. BpsBase \in Nat \ {0} /\ Terms[c].mult \in Nat \ {0}
  BY RulesAssumption, TermsAre
<1>2. PICK m \in Nat : m = BpsBase * px /\ (px # 0 => m # 0)
  BY <1>1
<1>3. m * Terms[c].mult \in Nat /\ (m # 0 => m * Terms[c].mult # 0)
  BY <1>1
<1> QED
  BY <1>2, <1>3 DEF Money

LEMMA BarIs ==
  ASSUME NEW bar \in Bars, NEW c \in Ids
  PROVE  bar.close[c] \in Nat /\ bar.open[c] \in Nat /\ bar.carry[c] \in Int /\ RefPrice(bar, c) \in Nat
<1>1. bar \in Bar
  BY RulesAssumption
<1> QED
  BY <1>1 DEF Bar, RefPrice

LEMMA NotionalIs ==
  ASSUME NEW b \in Book, NEW c \in Ids
  PROVE  Notional(b, c) \in Int
<1>1. b.pos[c] \in Int /\ Money(c, b.mark[c]) \in Int
  BY MoneyIs DEF Book
<1> QED
  BY <1>1 DEF Notional

(* A sum over columns is a number.                                         *)
LEMMA SumIs ==
  ASSUME NEW s \in SUBSET Ids, NEW f, DOMAIN f = s, \A c \in s : f[c] \in Int
  PROVE  SumFunction(f) \in Int /\ SumFunction(f) = SumFunctionOnSet(f, s)
<1>1. IsFiniteSet(s)
  BY IdsFinite, FS_Subset
<1> QED
  BY <1>1, SumInt DEF SumFunction

LEMMA EquityIs ==
  ASSUME NEW b \in Book
  PROVE  Equity(b) \in Int /\ Holdings(b) \in Int /\ Financing(b) \in Int
<1>1. Holdings(b) \in Int
  <2> DEFINE s == {d \in Ids : ~Terms[d].margined}
             f == [c \in s |-> Notional(b, c)]
  <2>1. \A c \in s : f[c] \in Int
    BY NotionalIs
  <2>2. DOMAIN f = s /\ s \in SUBSET Ids
    OBVIOUS
  <2> HIDE DEF f, s
  <2>3. SumFunction(f) \in Int
    BY <2>1, <2>2, SumIs
  <2> QED
    BY <2>3 DEF f, s, Holdings
<1>2. Equity(b) \in Int
  BY <1>1 DEF Equity, Book
<1> DEFINE f == [c \in Ids |-> Positive(Notional(b, c))]
           g == [c \in Ids |-> Positive(-Notional(b, c))]
<1>3. SumFunction(f) \in Int /\ SumFunction(g) \in Int
  <2>1. (\A c \in Ids : f[c] \in Int /\ g[c] \in Int) /\ DOMAIN f = Ids /\ DOMAIN g = Ids /\ Ids \in SUBSET Ids
    BY NotionalIs DEF Positive
  <2> HIDE DEF f, g
  <2> QED
    BY <2>1, SumIs
<1>4. Financing(b) \in Int
  <2> DEFINE F == SumFunction(f)
             G == SumFunction(g)
             num == G * ShortBps + Positive(F + G - Equity(b)) * LeverageBps - Positive(b.cash) * CashBps
  <2>1. ShortBps \in Int /\ LeverageBps \in Int /\ CashBps \in Int /\ FinancingBase \in Nat \ {0} /\ b.cash \in Int
    BY RulesAssumption DEF Book
  <2>2. Financing(b) = num \div FinancingBase
    BY DEF Financing
  <2>3. F \in Int /\ G \in Int
    BY <1>3
  <2> HIDE DEF F, G, f, g
  <2>4. num \in Int
    <3>1. Positive(F + G - Equity(b)) \in Int /\ Positive(b.cash) \in Int
      BY <1>2, <2>1, <2>3 DEF Positive
    <3>2. G * ShortBps \in Int /\ Positive(F + G - Equity(b)) * LeverageBps \in Int /\ Positive(b.cash) * CashBps \in Int
      BY <2>1, <2>3, <3>1
    <3> QED
      BY <3>2
  <2> HIDE DEF num
  <2> QED
    BY <2>1, <2>2, <2>4
<1> QED
  BY <1>1, <1>2, <1>4

LEMMA MorningIs ==
  ASSUME NEW old \in Book, NEW bar \in Bars
  PROVE  /\ Morning(old, bar) \in Book
         /\ Equity(Morning(old, bar)) \in Int /\ Financing(Morning(old, bar)) \in Int
<1> DEFINE s == {d \in Ids : /\ Terms[d].margined /\ old.pos[d] # 0 /\ bar.close[d] # 0 /\ old.mark[d] # 0}
           f == [c \in s |-> old.pos[c] * (Money(c, bar.close[c]) - Money(c, old.mark[c]))]
<1>1. \A c \in s : f[c] \in Int
  <2> SUFFICES ASSUME NEW c \in s PROVE f[c] \in Int
    OBVIOUS
  <2>1. old.pos[c] \in Int /\ Money(c, bar.close[c]) \in Int /\ Money(c, old.mark[c]) \in Int
    BY BarIs, MoneyIs DEF Book
  <2> QED
    BY <2>1
<1>2. s \in SUBSET Ids /\ DOMAIN f = s
  OBVIOUS
<1> HIDE DEF f, s
<1>3. SumFunction(f) \in Int
  BY <1>1, <1>2, SumIs
<1>4. Morning(old, bar).cash = old.cash + SumFunction(f)
  BY DEF Morning, f, s
<1>5. Morning(old, bar) \in Book
  <2>1. \A c \in Ids : bar.close[c] \in Nat
    BY BarIs
  <2>2. old.cash + SumFunction(f) \in Int
    BY <1>3 DEF Book
  <2>3. /\ Morning(old, bar) = [cash |-> Morning(old, bar).cash, pos |-> Morning(old, bar).pos,
                                mark |-> Morning(old, bar).mark]
        /\ Morning(old, bar).pos = old.pos
        /\ Morning(old, bar).mark = [c \in Ids |-> IF bar.close[c] # 0 THEN bar.close[c] ELSE old.mark[c]]
    BY DEF Morning
  <2> QED
    BY <1>4, <2>1, <2>2, <2>3 DEF Book
<1> QED
  BY <1>5, EquityIs

(* What is sized on an equity that is not negative has the weight's sign.  *)
LEMMA UnitsAre ==
  ASSUME NEW c \in Ids, NEW weight \in Int, NEW equity \in Int, NEW px \in Nat \ {0}
  PROVE  /\ TargetUnits(c, weight, equity, px) \in Int
         /\ weight >= 0 /\ equity >= 0 => TargetUnits(c, weight, equity, px) >= 0
<1>1. PICK n \in Int : n = weight * equity /\ (weight >= 0 /\ equity >= 0 => n >= 0)
  OBVIOUS
<1>2. PICK d \in Nat \ {0} : d = WeightBase * Money(c, px) * Terms[c].risk * Terms[c].lot
  <2>1. WeightBase \in Nat \ {0} /\ Money(c, px) \in Nat \ {0} /\ Terms[c].risk \in Nat \ {0} /\ Terms[c].lot \in Nat \ {0}
    BY RulesAssumption, TermsAre, MoneyIs
  <2>2. PICK a \in Nat \ {0} : a = WeightBase * Money(c, px)
    BY <2>1
  <2>3. PICK b \in Nat \ {0} : b = a * Terms[c].risk
    BY <2>1
  <2>4. b * Terms[c].lot \in Nat \ {0}
    BY <2>1
  <2> QED
    BY <2>2, <2>3, <2>4
<1>3. PICK q \in Int, r \in 0..(d - 1) : q = n \div d /\ r = n % d /\ n = d * q + r
  BY DivMod
<1>4. n >= 0 => q >= 0
  <2> SUFFICES ASSUME n >= 0, q <= -1 PROVE FALSE
    BY <1>3
  <2>1. PICK m \in Int : m = d * (-q - 1) /\ m >= 0
    <3>1. \A a, b \in Nat : a * b \in Nat
      OBVIOUS
    <3> QED
      BY <3>1
  <2>2. d * q = -m - d
    BY <2>1
  <2> QED
    BY <1>3, <2>1, <2>2
<1>5. RoundHalfEven(n, d) \in {q, q + 1}
  BY <1>3 DEF RoundHalfEven
<1>6. TargetUnits(c, weight, equity, px) = RoundHalfEven(n, d) * Terms[c].lot
  BY <1>1, <1>2 DEF TargetUnits, RoundToLot
<1>7. PICK k \in Int : k = RoundHalfEven(n, d) /\ (n >= 0 => k >= 0)
  BY <1>4, <1>5
<1>8. k * Terms[c].lot \in Int /\ (k >= 0 => k * Terms[c].lot >= 0)
  BY TermsAre
<1> QED
  BY <1>1, <1>6, <1>7, <1>8

LEMMA WeightIs ==
  ASSUME NEW w, Weighted(w), NEW c \in Ids
  PROVE  WeightOf(w, c) \in Int /\ (~Terms[c].shortable => WeightOf(w, c) >= 0)
BY DEF WeightOf, Weighted

LEMMA MoveIs ==
  ASSUME NEW old \in Book, NEW bar \in Bars, NEW w, Weighted(w), NEW c \in Ids, bar.close[c] # 0
  PROVE  Move(old, bar, w, c) \in Int
<1>1. TargetUnits(c, WeightOf(w, c), Equity(Morning(old, bar)), bar.close[c]) \in Int
  BY WeightIs, UnitsAre, MorningIs, BarIs
<1> QED
  BY <1>1 DEF Move, Book

LEMMA PricesAre ==
  ASSUME NEW c \in Ids, NEW ref \in Nat, NEW delta \in Int
  PROVE  /\ FillPrice(c, ref, delta) \in Int
         /\ Commission(c, delta) \in Int
         /\ Slippage(c, ref, delta) \in Int
         /\ delta * FillPrice(c, ref, delta) = delta * Money(c, ref) + Slippage(c, ref, delta)
<1>1. BpsBase \in Nat /\ SlipBps \in Nat /\ PerContract \in Nat /\ PerShare \in Nat /\ MinTicket \in Nat
  BY RulesAssumption
<1>2. Terms[c].mult \in Nat
  BY TermsAre
<1>3. Commission(c, delta) \in Int
  <2>1. PerContract * Abs(delta) \in Int /\ PerShare * Abs(delta) \in Int
    BY <1>1 DEF Abs
  <2>2. \A a, b \in Int : Max({a, b}) \in Int
    <3> SUFFICES ASSUME NEW a \in Int, NEW b \in Int PROVE Max({a, b}) \in Int
      OBVIOUS
    <3>1. \E x \in {a, b} : \A y \in {a, b} : x >= y
      OBVIOUS
    <3>2. Max({a, b}) \in {a, b}
      BY <3>1 DEF Max
    <3> QED
      BY <3>2
  <2> QED
    BY <1>1, <2>1, <2>2 DEF Commission
<1>4. PICK rm \in Nat : rm = ref * Terms[c].mult
  BY <1>2
<1>5. PICK base \in Int, slip \in Int : base = BpsBase * rm /\ slip = SlipBps * rm
  BY <1>1
<1>6. Money(c, ref) = base
  BY <1>1, <1>2, <1>4, <1>5 DEF Money
<1>7. FillPrice(c, ref, delta) = IF delta > 0 THEN base + slip ELSE base - slip
  <2>1. ref * (BpsBase + SlipBps) * Terms[c].mult = base + slip
    BY <1>1, <1>2, <1>4, <1>5
  <2>2. ref * (BpsBase - SlipBps) * Terms[c].mult = base - slip
    BY <1>1, <1>2, <1>4, <1>5
  <2> QED
    BY <2>1, <2>2 DEF FillPrice
<1>8. Slippage(c, ref, delta) = Abs(delta) * slip
  <2>1. Abs(delta) \in Int
    BY DEF Abs
  <2>2. Abs(delta) * ref * SlipBps * Terms[c].mult = Abs(delta) * (SlipBps * (ref * Terms[c].mult))
    BY <1>1, <1>2, <2>1
  <2> QED
    BY <1>4, <1>5, <2>2 DEF Slippage
<1>9. delta * (IF delta > 0 THEN base + slip ELSE base - slip) = delta * base + Abs(delta) * slip
  BY DEF Abs
<1>10. Abs(delta) * slip \in Int
  BY DEF Abs
<1> QED
  BY <1>3, <1>5, <1>6, <1>7, <1>8, <1>9, <1>10

(* A sum over some columns, and over all of them.                          *)
LEMMA SumPadded ==
  ASSUME NEW s \in SUBSET Ids, NEW f, DOMAIN f = s, NEW g,
         \A c \in Ids : g[c] \in Int /\ g[c] = IF c \in s THEN f[c] ELSE 0
  PROVE  SumFunction(f) = SumFunctionOnSet(g, Ids) /\ SumFunction(f) \in Int
<1>1. IsFiniteSet(s)
  BY IdsFinite, FS_Subset
<1>2. SumFunction(f) = SumFunctionOnSet(g, s)
  BY <1>1, SumOver
<1>3. SumFunctionOnSet(g, s) = SumFunctionOnSet(g, Ids)
  BY IdsFinite, SumRest
<1>4. SumFunctionOnSet(g, Ids) \in Int
  BY IdsFinite, SumInt
<1> QED
  BY <1>2, <1>3, <1>4

Overnight(old, new, c) == old.pos[c] * (Money(c, new.mark[c]) - Money(c, old.mark[c]))
Intraday(old, new, bar, c) ==
  (new.pos[c] - old.pos[c]) * (Money(c, new.mark[c]) - Money(c, RefPrice(bar, c)))

(* Column by column: what it is worth and the margin, less the cost.       *)
LEMMA ColumnExplained ==
  ASSUME NEW old, Valued(old), NEW bar \in Bars, NEW w, Weighted(w), NEW c \in Ids,
         NEW new, new = BookOf(old, bar, w, Movers(old, bar, w)),
         NEW delta, delta = Move(old, bar, w, c),
         NEW moved \in BOOLEAN, moved <=> c \in Movers(old, bar, w),
         NEW held \in BOOLEAN,
         held <=> Terms[c].margined /\ old.pos[c] # 0 /\ bar.close[c] # 0 /\ old.mark[c] # 0
  PROVE  (IF Terms[c].margined THEN 0 ELSE new.pos[c] * Money(c, new.mark[c]))
           + (IF held THEN old.pos[c] * (Money(c, bar.close[c]) - Money(c, old.mark[c])) ELSE 0)
           - (IF moved THEN Cost(c, bar, delta) ELSE 0)
         = (IF Terms[c].margined THEN 0 ELSE old.pos[c] * Money(c, old.mark[c]))
           + (Overnight(old, new, c) + Intraday(old, new, bar, c))
           - (IF moved THEN Slippage(c, RefPrice(bar, c), delta) ELSE 0)
           - (IF moved THEN Commission(c, delta) ELSE 0)
<1>0. old \in Book
  BY DEF Valued
<1>1. /\ new.pos[c] = old.pos[c] + (IF moved THEN delta ELSE 0)
      /\ new.mark[c] = IF bar.close[c] # 0 THEN bar.close[c] ELSE old.mark[c]
      /\ moved => bar.close[c] # 0
  <2>1. old.pos[c] = old.pos[c] + 0
    BY <1>0 DEF Book
  <2> QED
    BY <2>1 DEF BookOf, Morning, Movers
<1>2. PICK p \in Int : p = old.pos[c]
  BY <1>0 DEF Book
<1>3. /\ bar.close[c] \in Nat /\ old.mark[c] \in Nat /\ RefPrice(bar, c) \in Nat /\ new.mark[c] \in Nat
      /\ p # 0 => old.mark[c] # 0
  BY <1>0, <1>1, <1>2, BarIs DEF Book, Valued
<1>4. PICK mo \in Nat, mn \in Nat, mr \in Nat, mc \in Nat :
        /\ mo = Money(c, old.mark[c]) /\ mn = Money(c, new.mark[c])
        /\ mr = Money(c, RefPrice(bar, c)) /\ mc = Money(c, bar.close[c])
  BY <1>3, MoneyIs
<1>5. mn = IF bar.close[c] # 0 THEN mc ELSE mo
  BY <1>1, <1>4
<1>7. (IF held THEN p * (mc - mo) ELSE 0) = IF Terms[c].margined THEN p * (mn - mo) ELSE 0
  <2>1. CASE ~Terms[c].margined
    BY <2>1
  <2>2. CASE Terms[c].margined /\ held
    BY <2>2, <1>5
  <2>3. CASE Terms[c].margined /\ ~held
    <3>1. p = 0 \/ mn = mo
      BY <2>3, <1>2, <1>3, <1>5
    <3>2. p * (mn - mo) = 0
      BY <3>1
    <3> QED
      BY <2>3, <3>2
  <2> QED
    BY <2>1, <2>2, <2>3
<1>8. CASE moved
  <2>1. delta \in Int /\ mn = mc
    BY <1>0, <1>1, <1>5, <1>8, MoveIs
  <2>2. PICK fp \in Int, comm \in Int, slip \in Int :
          /\ fp = FillPrice(c, RefPrice(bar, c), delta) /\ comm = Commission(c, delta)
          /\ slip = Slippage(c, RefPrice(bar, c), delta)
          /\ delta * fp = delta * mr + slip
    <3>1. PICK ref \in Nat : ref = RefPrice(bar, c)
      BY <1>3
    <3>2. /\ FillPrice(c, ref, delta) \in Int /\ Commission(c, delta) \in Int
          /\ Slippage(c, ref, delta) \in Int
          /\ delta * FillPrice(c, ref, delta) = delta * Money(c, ref) + Slippage(c, ref, delta)
      BY <2>1, PricesAre
    <3> QED
      BY <1>4, <3>1, <3>2
  <2>3. Cost(c, bar, delta) = delta * (fp - (IF Terms[c].margined THEN mn ELSE 0)) + comm
    BY <1>4, <2>1, <2>2 DEF Cost
  <2>4. new.pos[c] = p + delta
    BY <1>1, <1>2, <1>8
  <2>5. /\ Overnight(old, new, c) = p * (mn - mo)
        /\ Intraday(old, new, bar, c) = delta * (mn - mr)
    <3>1. (p + delta) - p = delta
      BY <2>1
    <3> QED
      BY <1>2, <1>4, <2>4, <3>1 DEF Overnight, Intraday
  <2>6. CASE Terms[c].margined
    <3>1. 0 + p * (mn - mo) - (delta * (fp - mn) + comm) = 0 + (p * (mn - mo) + delta * (mn - mr)) - slip - comm
      BY <2>1, <2>2
    <3> QED
      BY <1>2, <1>4, <1>7, <1>8, <2>2, <2>3, <2>4, <2>5, <2>6, <3>1
  <2>7. CASE ~Terms[c].margined
    <3>1. (p + delta) * mn + 0 - (delta * (fp - 0) + comm) = p * mo + (p * (mn - mo) + delta * (mn - mr)) - slip - comm
      BY <2>1, <2>2
    <3> QED
      BY <1>2, <1>4, <1>7, <1>8, <2>2, <2>3, <2>4, <2>5, <2>7, <3>1
  <2> QED
    BY <2>6, <2>7
<1>9. CASE ~moved
  <2>1. new.pos[c] = p
    BY <1>1, <1>2, <1>9
  <2>2. /\ Overnight(old, new, c) = p * (mn - mo)
        /\ Intraday(old, new, bar, c) = 0
    <3>1. p - p = 0 /\ 0 * (mn - mr) = 0
      OBVIOUS
    <3> QED
      BY <1>2, <1>4, <2>1, <3>1 DEF Overnight, Intraday
  <2>3. CASE Terms[c].margined
    <3>1. 0 + p * (mn - mo) - 0 = 0 + (p * (mn - mo) + 0) - 0 - 0
      OBVIOUS
    <3> QED
      BY <1>2, <1>4, <1>7, <1>9, <2>1, <2>2, <2>3, <3>1
  <2>4. CASE ~Terms[c].margined
    <3>1. p * mn + 0 - 0 = p * mo + (p * (mn - mo) + 0) - 0 - 0
      OBVIOUS
    <3> QED
      BY <1>2, <1>4, <1>7, <1>9, <2>1, <2>2, <2>4, <3>1
  <2> QED
    BY <2>3, <2>4
<1> QED
  BY <1>8, <1>9

LEMMA CostIs ==
  ASSUME NEW c \in Ids, NEW bar \in Bars, NEW delta \in Int
  PROVE  /\ Cost(c, bar, delta) \in Int /\ Commission(c, delta) \in Int
         /\ Slippage(c, RefPrice(bar, c), delta) \in Int
<1>1. PICK ref \in Nat : ref = RefPrice(bar, c)
  BY BarIs
<1>2. FillPrice(c, ref, delta) \in Int /\ Commission(c, delta) \in Int /\ Slippage(c, ref, delta) \in Int
  BY PricesAre
<1>3. Money(c, bar.close[c]) \in Int
  BY BarIs, MoneyIs
<1>4. PICK x \in Int : x = FillPrice(c, ref, delta) - (IF Terms[c].margined THEN Money(c, bar.close[c]) ELSE 0)
  BY <1>2, <1>3
<1>5. delta * x + Commission(c, delta) \in Int
  BY <1>2
<1> QED
  BY <1>1, <1>2, <1>4, <1>5 DEF Cost

LEMMA MoversMove ==
  ASSUME NEW old \in Book, NEW bar \in Bars, NEW w, Weighted(w), NEW c \in Movers(old, bar, w)
  PROVE  c \in Ids /\ bar.close[c] # 0 /\ Move(old, bar, w, c) \in Int
BY MoveIs DEF Movers

(* The book of the day is a book, all of whose positions have a mark.      *)
LEMMA BookOfIs ==
  ASSUME NEW old, Valued(old), NEW bar \in Bars, NEW w, Weighted(w),
         NEW done \in SUBSET Movers(old, bar, w)
  PROVE  /\ Valued(BookOf(old, bar, w, done))
         /\ Costs(old, bar, w, done) \in Int /\ Commissions(old, bar, w, done) \in Int
         /\ Slippages(old, bar, w, done) \in Int
<1> DEFINE delta(c) == Move(old, bar, w, c)
           new == BookOf(old, bar, w, done)
<1>0. old \in Book
  BY DEF Valued
<1>1. done \in SUBSET Ids /\ \A c \in done : delta(c) \in Int /\ bar.close[c] # 0
  BY <1>0, MoversMove
<1>2. Costs(old, bar, w, done) \in Int
  <2> DEFINE f == [c \in done |-> Cost(c, bar, delta(c))]
  <2>1. (\A c \in done : f[c] \in Int) /\ DOMAIN f = done
    BY <1>1, CostIs
  <2> HIDE DEF f
  <2>2. SumFunction(f) \in Int
    BY <1>1, <2>1, SumIs
  <2> QED
    BY <2>2 DEF f, Costs
<1>3. Commissions(old, bar, w, done) \in Int
  <2> DEFINE f == [c \in done |-> Commission(c, delta(c))]
  <2>1. (\A c \in done : f[c] \in Int) /\ DOMAIN f = done
    BY <1>1, CostIs
  <2> HIDE DEF f
  <2>2. SumFunction(f) \in Int
    BY <1>1, <2>1, SumIs
  <2> QED
    BY <2>2 DEF f, Commissions
<1>4. Slippages(old, bar, w, done) \in Int
  <2> DEFINE f == [c \in done |-> Slippage(c, RefPrice(bar, c), delta(c))]
  <2>1. (\A c \in done : f[c] \in Int) /\ DOMAIN f = done
    BY <1>1, CostIs
  <2> HIDE DEF f
  <2>2. SumFunction(f) \in Int
    BY <1>1, <2>1, SumIs
  <2> QED
    BY <2>2 DEF f, Slippages
<1>5. new \in Book
  <2>1. PICK m \in Book : m = Morning(old, bar)
    BY <1>0, MorningIs
  <2>2. m.cash \in Int /\ Financing(m) \in Int /\ m.mark \in [Ids -> Nat]
    BY EquityIs DEF Book
  <2>3. m.cash - Financing(m) - Costs(old, bar, w, done) \in Int
    BY <1>2, <2>2
  <2>4. [c \in Ids |-> IF c \in done THEN old.pos[c] + delta(c) ELSE old.pos[c]] \in [Ids -> Int]
    BY <1>0, <1>1 DEF Book
  <2> QED
    BY <2>1, <2>2, <2>3, <2>4 DEF BookOf, Book
<1>6. ASSUME NEW c \in Ids, new.pos[c] # 0 PROVE new.mark[c] # 0
  <2>1. new.mark[c] = IF bar.close[c] # 0 THEN bar.close[c] ELSE old.mark[c]
    BY DEF BookOf, Morning
  <2>2. CASE c \in done
    BY <1>1, <2>1, <2>2
  <2>3. CASE c \notin done
    BY <1>6, <2>1, <2>3 DEF BookOf, Valued
  <2> QED
    BY <2>2, <2>3
<1> QED
  BY <1>2, <1>3, <1>4, <1>5, <1>6 DEF Valued

(* The equity of the evening, from that of the evening before.             *)
LEMMA DayExplained ==
  ASSUME NEW old, Valued(old), NEW bar \in Bars, NEW w, Weighted(w), NEW income \in Int,
         NEW movers, movers = Movers(old, bar, w),
         NEW b, b = BookOf(old, bar, w, movers),
         NEW new, new = [b EXCEPT !.cash = b.cash + income]
  PROVE  /\ Valued(new)
         /\ Equity(new) =
              Equity(old) + SumFunction([c \in Ids |-> Overnight(old, new, c) + Intraday(old, new, bar, c)])
                - Slippages(old, bar, w, movers) - Commissions(old, bar, w, movers)
                - Financing(Morning(old, bar)) + income
<1> DEFINE delta(c) == Move(old, bar, w, c)
           held == {d \in Ids : /\ Terms[d].margined /\ old.pos[d] # 0
                                /\ bar.close[d] # 0 /\ old.mark[d] # 0}
           plain == {d \in Ids : ~Terms[d].margined}
           H1 == [c \in Ids |-> IF Terms[c].margined THEN 0 ELSE b.pos[c] * Money(c, b.mark[c])]
           H0 == [c \in Ids |-> IF Terms[c].margined THEN 0 ELSE old.pos[c] * Money(c, old.mark[c])]
           G  == [c \in Ids |-> IF c \in held THEN old.pos[c] * (Money(c, bar.close[c]) - Money(c, old.mark[c]))
                                              ELSE 0]
           K  == [c \in Ids |-> IF c \in movers THEN Cost(c, bar, delta(c)) ELSE 0]
           S  == [c \in Ids |-> IF c \in movers THEN Slippage(c, RefPrice(bar, c), delta(c)) ELSE 0]
           C  == [c \in Ids |-> IF c \in movers THEN Commission(c, delta(c)) ELSE 0]
           E  == [c \in Ids |-> Overnight(old, b, c) + Intraday(old, b, bar, c)]
           Sum(f) == SumFunctionOnSet(f, Ids)
<1>0. old \in Book
  BY DEF Valued
<1>1. Valued(b) /\ b \in Book
  <2>1. movers \in SUBSET Movers(old, bar, w)
    OBVIOUS
  <2> QED
    BY <2>1, BookOfIs DEF Valued
<1>2. /\ new = [cash |-> b.cash + income, pos |-> b.pos, mark |-> b.mark] /\ new \in Book
      /\ new.pos = b.pos /\ new.mark = b.mark /\ new.cash = b.cash + income
  BY <1>1 DEF Book
<1>3. Valued(new)
  BY <1>1, <1>2 DEF Valued
<1>4. movers \in SUBSET Ids /\ \A c \in movers : delta(c) \in Int
  BY <1>0, MoversMove DEF Movers
<1>5. ASSUME NEW c \in Ids
      PROVE  /\ H1[c] \in Int /\ H0[c] \in Int /\ G[c] \in Int /\ K[c] \in Int
             /\ S[c] \in Int /\ C[c] \in Int /\ E[c] \in Int
  <2>1. /\ b.pos[c] \in Int /\ old.pos[c] \in Int /\ bar.close[c] \in Nat /\ old.mark[c] \in Nat
        /\ b.mark[c] \in Nat /\ RefPrice(bar, c) \in Nat
    BY <1>0, <1>1, BarIs DEF Book
  <2>2. /\ Money(c, bar.close[c]) \in Int /\ Money(c, old.mark[c]) \in Int /\ Money(c, b.mark[c]) \in Int
        /\ Money(c, RefPrice(bar, c)) \in Int
    BY <2>1, MoneyIs
  <2>3. H1[c] \in Int /\ H0[c] \in Int /\ G[c] \in Int
    BY <2>1, <2>2
  <2>4. K[c] \in Int /\ S[c] \in Int /\ C[c] \in Int
    BY <1>4, CostIs
  <2>5. Overnight(old, b, c) \in Int /\ Intraday(old, b, bar, c) \in Int
    BY <2>1, <2>2 DEF Overnight, Intraday
  <2> QED
    BY <2>3, <2>4, <2>5
<1>6. ASSUME NEW c \in Ids
      PROVE  H1[c] + G[c] - K[c] = H0[c] + E[c] - S[c] - C[c]
  <2>1. PICK moved \in BOOLEAN : moved <=> c \in movers
    OBVIOUS
  <2>2. PICK hold \in BOOLEAN : hold <=> c \in held
    OBVIOUS
  <2>3. /\ H1[c] = IF Terms[c].margined THEN 0 ELSE b.pos[c] * Money(c, b.mark[c])
        /\ H0[c] = IF Terms[c].margined THEN 0 ELSE old.pos[c] * Money(c, old.mark[c])
        /\ G[c] = IF hold THEN old.pos[c] * (Money(c, bar.close[c]) - Money(c, old.mark[c])) ELSE 0
        /\ K[c] = IF moved THEN Cost(c, bar, delta(c)) ELSE 0
        /\ S[c] = IF moved THEN Slippage(c, RefPrice(bar, c), delta(c)) ELSE 0
        /\ C[c] = IF moved THEN Commission(c, delta(c)) ELSE 0
        /\ E[c] = Overnight(old, b, c) + Intraday(old, b, bar, c)
    BY <2>1, <2>2
  <2>4. hold <=> Terms[c].margined /\ old.pos[c] # 0 /\ bar.close[c] # 0 /\ old.mark[c] # 0
    BY <2>2
  <2>5. moved <=> c \in Movers(old, bar, w)
    BY <2>1
  <2> HIDE DEF H1, H0, G, K, S, C, E, held
  <2>6. (IF Terms[c].margined THEN 0 ELSE b.pos[c] * Money(c, b.mark[c]))
           + (IF hold THEN old.pos[c] * (Money(c, bar.close[c]) - Money(c, old.mark[c])) ELSE 0)
           - (IF moved THEN Cost(c, bar, delta(c)) ELSE 0)
         = (IF Terms[c].margined THEN 0 ELSE old.pos[c] * Money(c, old.mark[c]))
           + (Overnight(old, b, c) + Intraday(old, b, bar, c))
           - (IF moved THEN Slippage(c, RefPrice(bar, c), delta(c)) ELSE 0)
           - (IF moved THEN Commission(c, delta(c)) ELSE 0)
    BY <2>4, <2>5, ColumnExplained
  <2> QED
    BY <2>3, <2>6
<1>7. Holdings(b) = Sum(H1) /\ Holdings(old) = Sum(H0)
  <2> DEFINE h1 == [c \in plain |-> Notional(b, c)]
             h0 == [c \in plain |-> Notional(old, c)]
  <2>1. Holdings(b) = SumFunction(h1) /\ Holdings(old) = SumFunction(h0)
    BY DEF Holdings
  <2>2. /\ \A c \in Ids : H1[c] \in Int /\ H1[c] = IF c \in plain THEN h1[c] ELSE 0
        /\ \A c \in Ids : H0[c] \in Int /\ H0[c] = IF c \in plain THEN h0[c] ELSE 0
    BY <1>5 DEF Notional
  <2>3. plain \in SUBSET Ids /\ DOMAIN h1 = plain /\ DOMAIN h0 = plain
    OBVIOUS
  <2> HIDE DEF H1, H0, h1, h0, plain
  <2>4. SumFunction(h1) = SumFunctionOnSet(H1, Ids)
    BY <2>2, <2>3, SumPadded
  <2>5. SumFunction(h0) = SumFunctionOnSet(H0, Ids)
    BY <2>2, <2>3, SumPadded
  <2> QED
    BY <2>1, <2>4, <2>5
<1>8. Morning(old, bar).cash = old.cash + Sum(G)
  <2> DEFINE g == [c \in held |-> old.pos[c] * (Money(c, bar.close[c]) - Money(c, old.mark[c]))]
  <2>1. \A c \in Ids : G[c] \in Int /\ G[c] = IF c \in held THEN g[c] ELSE 0
    BY <1>5
  <2>2. Morning(old, bar).cash = old.cash + SumFunction(g)
    BY DEF Morning
  <2>3. held \in SUBSET Ids /\ DOMAIN g = held
    OBVIOUS
  <2> HIDE DEF G, g, held
  <2>4. SumFunction(g) = SumFunctionOnSet(G, Ids)
    BY <2>1, <2>3, SumPadded
  <2> QED
    BY <2>2, <2>4
<1>9. /\ Costs(old, bar, w, movers) = Sum(K) /\ Slippages(old, bar, w, movers) = Sum(S)
      /\ Commissions(old, bar, w, movers) = Sum(C)
  <2>1. /\ \A c \in Ids : K[c] \in Int /\ K[c] = IF c \in movers THEN [d \in movers |-> Cost(d, bar, delta(d))][c] ELSE 0
        /\ \A c \in Ids : S[c] \in Int /\ S[c] = IF c \in movers THEN [d \in movers |-> Slippage(d, RefPrice(bar, d), delta(d))][c] ELSE 0
        /\ \A c \in Ids : C[c] \in Int /\ C[c] = IF c \in movers THEN [d \in movers |-> Commission(d, delta(d))][c] ELSE 0
    BY <1>5
  <2> HIDE DEF K, S, C
  <2>2. /\ SumFunction([d \in movers |-> Cost(d, bar, delta(d))]) = Sum(K)
        /\ SumFunction([d \in movers |-> Slippage(d, RefPrice(bar, d), delta(d))]) = Sum(S)
        /\ SumFunction([d \in movers |-> Commission(d, delta(d))]) = Sum(C)
    BY <1>4, <2>1, SumPadded
  <2> QED
    BY <2>2 DEF Costs, Slippages, Commissions
<1>10. SumFunction([c \in Ids |-> Overnight(old, new, c) + Intraday(old, new, bar, c)]) = Sum(E)
  <2>1. [c \in Ids |-> Overnight(old, new, c) + Intraday(old, new, bar, c)] = E
    BY <1>2 DEF Overnight, Intraday
  <2> QED
    BY <2>1 DEF SumFunction
<1> HIDE DEF H1, H0, G, K, S, C, E, Sum
<1>11. /\ Sum(H1) \in Int /\ Sum(H0) \in Int /\ Sum(G) \in Int /\ Sum(K) \in Int
       /\ Sum(S) \in Int /\ Sum(C) \in Int /\ Sum(E) \in Int
  BY <1>5, IdsFinite, SumInt DEF Sum
<1>12. Sum(H1) + Sum(G) - Sum(K) = Sum(H0) + Sum(E) - Sum(S) - Sum(C)
  <2> DEFINE L1 == [c \in Ids |-> H1[c] + 1 * G[c]]
             L2 == [c \in Ids |-> L1[c] + (-1) * K[c]]
             R1 == [c \in Ids |-> H0[c] + 1 * E[c]]
             R2 == [c \in Ids |-> R1[c] + (-1) * S[c]]
             R3 == [c \in Ids |-> R2[c] + (-1) * C[c]]
  <2>1. \A c \in Ids : L1[c] \in Int /\ L2[c] \in Int /\ R1[c] \in Int /\ R2[c] \in Int /\ R3[c] \in Int
    BY <1>5
  <2>2. \A c \in Ids : L2[c] = R3[c]
    BY <1>5, <1>6
  <2>3. \A c \in Ids : /\ L1[c] = H1[c] + 1 * G[c] /\ L2[c] = L1[c] + (-1) * K[c]
                       /\ R1[c] = H0[c] + 1 * E[c] /\ R2[c] = R1[c] + (-1) * S[c]
                       /\ R3[c] = R2[c] + (-1) * C[c]
    OBVIOUS
  <2> HIDE DEF L1, L2, R1, R2, R3
  <2>4. Sum(L1) = Sum(H1) + 1 * Sum(G)
    BY <1>5, <2>1, <2>3, IdsFinite, SumLinear DEF Sum
  <2>5. Sum(L2) = Sum(L1) + (-1) * Sum(K)
    BY <1>5, <2>1, <2>3, IdsFinite, SumLinear DEF Sum
  <2>6. Sum(R1) = Sum(H0) + 1 * Sum(E)
    BY <1>5, <2>1, <2>3, IdsFinite, SumLinear DEF Sum
  <2>7. Sum(R2) = Sum(R1) + (-1) * Sum(S)
    BY <1>5, <2>1, <2>3, IdsFinite, SumLinear DEF Sum
  <2>8. Sum(R3) = Sum(R2) + (-1) * Sum(C)
    BY <1>5, <2>1, <2>3, IdsFinite, SumLinear DEF Sum
  <2>9. Sum(L2) = Sum(R3)
    BY <2>2, IdsFinite, SumCong DEF Sum
  <2> HIDE DEF Sum
  <2> QED
    BY <1>11, <2>4, <2>5, <2>6, <2>7, <2>8, <2>9
<1>13. PICK fin \in Int : fin = Financing(Morning(old, bar))
  BY <1>0, MorningIs
<1>14. b.cash = old.cash + Sum(G) - fin - Sum(K)
  <2>1. b.cash = Morning(old, bar).cash - fin - Costs(old, bar, w, movers)
    BY <1>13 DEF BookOf
  <2>2. old.cash \in Int
    BY <1>0 DEF Book
  <2> QED
    BY <1>8, <1>9, <1>11, <2>1, <2>2
<1>15. Equity(new) = b.cash + income + Sum(H1)
  <2>1. Holdings(new) = Holdings(b)
    <3>1. \A c \in Ids : Notional(new, c) = Notional(b, c)
      BY <1>2 DEF Notional
    <3>2. [c \in plain |-> Notional(new, c)] = [c \in plain |-> Notional(b, c)]
      BY <3>1
    <3> QED
      BY <3>2 DEF Holdings
  <2> QED
    BY <1>2, <1>7, <2>1 DEF Equity
<1>16. Equity(old) = old.cash + Sum(H0) /\ old.cash \in Int /\ b.cash \in Int
  BY <1>0, <1>1, <1>7 DEF Equity, Book
<1>17. Equity(new) = Equity(old) + Sum(E) - Sum(S) - Sum(C) - fin + income
  <2> HIDE DEF Sum
  <2> QED
    BY <1>11, <1>12, <1>14, <1>15, <1>16
<1> QED
  BY <1>3, <1>9, <1>10, <1>13, <1>17

-----------------------------------------------------------------------------
(* While a bar is being worked off, each column that its target moves      *)
(* still has one event to come, an order or its fill, or else is filled.   *)
OrderOf(old, bar, w, c) ==
  [ins |-> c, delta |-> Move(old, bar, w, c), ref |-> RefPrice(bar, c)]

FillOf(old, bar, w, c) ==
  LET delta == Move(old, bar, w, c)
      ref   == RefPrice(bar, c)
  IN  [ins |-> c, delta |-> delta, px |-> FillPrice(c, ref, delta),
       comm |-> Commission(c, delta), slip |-> Slippage(c, ref, delta)]

Pending(h) == {e \in h : e.kind \in {"order", "fill"}}

Open(h) == {e.body.ins : e \in Pending(h)}

Agrees(h, old, bar, w) ==
  /\ \A e \in Pending(h) : \E c \in Movers(old, bar, w) :
       e.body = IF e.kind = "order" THEN OrderOf(old, bar, w, c) ELSE FillOf(old, bar, w, c)
  /\ \A e, f \in Pending(h) : e.body.ins = f.body.ins => e = f

(* The weights of the day are on their way, or have arrived.               *)
Signalled(h, cur, weights) ==
  /\ \A e \in h : e.kind = "signal" => e.body = weights /\ cur = Hold
  /\ \A e, f \in h : e.kind = "signal" /\ f.kind = "signal" => e = f
  /\ (\E e \in h : e.kind = "signal") \/ cur = weights

Worked(h, b, d, cur, old, w, bar, weights) ==
  LET done == Movers(old, bar, w) \ Open(h)
  IN  /\ b = BookOf(old, bar, w, done)
      /\ d = DayOf(old, bar, weights, w, done)
      /\ Agrees(h, old, bar, w)
      /\ Signalled(h, cur, weights)

InDay(h, b, d, cur, old, w) ==
  \E bar \in Bars, weights \in WeightRows : Worked(h, b, d, cur, old, w, bar, weights)

Past(past) == \A i \in DOMAIN past : Weighted(past[i])

Offered(h) == \A e \in h : e.kind = "market" => e.body \in Bars

BookInv ==
  /\ IInv
  /\ Offered(heap) /\ Past(history)
  /\ Valued(sealed) /\ sealed = Previous(Len(rows) + 1)
  /\ HasRecord(heap) => InDay(heap, book, day, current, sealed, Target(history))
  /\ ~HasRecord(heap) => book = sealed /\ current = Hold

LEMMA PendingIs ==
  ASSUME NEW h, NEW old, NEW bar, NEW w, Agrees(h, old, bar, w), NEW e \in Pending(h)
  PROVE  /\ e.body.ins \in Movers(old, bar, w)
         /\ e.kind = "order" => e.body = OrderOf(old, bar, w, e.body.ins)
         /\ e.kind = "fill" => e.body = FillOf(old, bar, w, e.body.ins)
<1>1. PICK c \in Movers(old, bar, w) :
        e.body = IF e.kind = "order" THEN OrderOf(old, bar, w, c) ELSE FillOf(old, bar, w, c)
  BY DEF Agrees
<1>2. OrderOf(old, bar, w, c).ins = c /\ FillOf(old, bar, w, c).ins = c
  BY DEF OrderOf, FillOf
<1> QED
  BY <1>1, <1>2

LEMMA NothingFilled ==
  ASSUME NEW old, NEW bar, NEW w
  PROVE  Costs(old, bar, w, {}) = 0 /\ Commissions(old, bar, w, {}) = 0 /\ Slippages(old, bar, w, {}) = 0
<1>1. \A f : DOMAIN f = {} => SumFunction(f) = 0
  BY SumEmpty DEF SumFunction
<1> QED
  BY <1>1 DEF Costs, Commissions, Slippages

(* What Portfolio.apply_fill() makes of a book and of a day.               *)
PaidOn(b, f) ==
  IF Terms[f.ins].margined THEN f.delta * (f.px - Money(f.ins, b.mark[f.ins])) ELSE f.delta * f.px

Filled(b, f) ==
  [b EXCEPT !.cash = b.cash - PaidOn(b, f) - f.comm, !.pos[f.ins] = b.pos[f.ins] + f.delta]

Charged(d, f) == [d EXCEPT !.comm = d.comm + f.comm, !.slip = d.slip + f.slip]

(* One more column filled.                                                 *)
LEMMA OneFilled ==
  ASSUME NEW old, Valued(old), NEW bar \in Bars, NEW w, Weighted(w),
         NEW done \in SUBSET Movers(old, bar, w), NEW c \in Movers(old, bar, w) \ done, NEW weights
  PROVE  /\ Filled(BookOf(old, bar, w, done), FillOf(old, bar, w, c)) = BookOf(old, bar, w, done \cup {c})
         /\ Charged(DayOf(old, bar, weights, w, done), FillOf(old, bar, w, c))
              = DayOf(old, bar, weights, w, done \cup {c})
<1>a. PICK f : f = FillOf(old, bar, w, c)
  OBVIOUS
<1>b. PICK b : b = BookOf(old, bar, w, done)
  OBVIOUS
<1>c. PICK d : d = DayOf(old, bar, weights, w, done)
  OBVIOUS
<1>d. PICK paid : paid = IF Terms[c].margined THEN f.delta * (f.px - Money(c, b.mark[c])) ELSE f.delta * f.px
  OBVIOUS
<1>e. f.ins = c
  BY <1>a DEF FillOf
<1> DEFINE delta == Move(old, bar, w, c)
           more == done \cup {c}
<1>0. old \in Book
  BY DEF Valued
<1>1. /\ done \in SUBSET Ids /\ c \in Ids /\ c \notin done /\ IsFiniteSet(done)
      /\ \A x \in more : Move(old, bar, w, x) \in Int /\ bar.close[x] # 0
  BY <1>0, MoversMove, IdsFinite, FS_Subset
<1>2. /\ f.delta = delta /\ f.px = FillPrice(c, RefPrice(bar, c), delta)
      /\ f.comm = Commission(c, delta) /\ f.slip = Slippage(c, RefPrice(bar, c), delta)
  BY <1>a DEF FillOf
<1>3. b.mark[c] = bar.close[c]
  BY <1>1, <1>b DEF BookOf, Morning
<1>4. /\ FillPrice(c, RefPrice(bar, c), delta) \in Int /\ Money(c, bar.close[c]) \in Int /\ delta \in Int
      /\ Cost(c, bar, delta) \in Int /\ Commission(c, delta) \in Int
      /\ Slippage(c, RefPrice(bar, c), delta) \in Int
  <2>1. RefPrice(bar, c) \in Nat /\ bar.close[c] \in Nat /\ c \in Ids
    BY <1>1, BarIs
  <2>2. PICK dl \in Int : dl = delta
    BY <1>1
  <2>3. PICK ref \in Nat : ref = RefPrice(bar, c)
    BY <2>1
  <2>4. FillPrice(c, ref, dl) \in Int /\ Slippage(c, ref, dl) \in Int /\ Commission(c, dl) \in Int
    BY <2>1, PricesAre
  <2>5. Money(c, bar.close[c]) \in Int
    BY <2>1, MoneyIs
  <2>6. Cost(c, bar, dl) \in Int
    BY <2>1, CostIs
  <2> HIDE DEF delta
  <2> QED
    BY <2>2, <2>3, <2>4, <2>5, <2>6
<1>5. paid \in Int /\ paid + f.comm = Cost(c, bar, delta)
  <2>1. PICK fp \in Int : fp = FillPrice(c, RefPrice(bar, c), delta)
    BY <1>4
  <2>2. CASE Terms[c].margined
    BY <1>d, <1>2, <1>3, <1>4, <2>1, <2>2 DEF Cost
  <2>3. CASE ~Terms[c].margined
    <3>1. fp - 0 = fp
      OBVIOUS
    <3> QED
      BY <1>d, <1>2, <1>3, <1>4, <2>1, <2>3, <3>1 DEF Cost
  <2> QED
    BY <2>2, <2>3
<1>6. Costs(old, bar, w, more) = Costs(old, bar, w, done) + Cost(c, bar, delta) /\ Costs(old, bar, w, done) \in Int
  <2> DEFINE g == [x \in more |-> Cost(x, bar, Move(old, bar, w, x))]
             h == [x \in done |-> Cost(x, bar, Move(old, bar, w, x))]
  <2>1. (\A x \in more : g[x] \in Int) /\ (\A x \in done : h[x] = g[x]) /\ g[c] = Cost(c, bar, delta)
    BY <1>1, CostIs
  <2>2. DOMAIN h = done /\ DOMAIN g = more
    OBVIOUS
  <2> HIDE DEF g, h
  <2>3. SumFunction(g) = SumFunction(h) + g[c] /\ SumFunction(h) \in Int
    <3>1. SumFunction(g) = SumFunctionOnSet(g, done \cup {c})
      BY <2>2 DEF SumFunction
    <3>2. SumFunctionOnSet(g, done \cup {c}) = g[c] + SumFunctionOnSet(g, done)
      BY <1>1, <2>1, SumAdd
    <3>3. SumFunction(h) = SumFunctionOnSet(g, done)
      BY <1>1, <2>1, <2>2, SumOver
    <3>4. SumFunctionOnSet(g, done) \in Int /\ g[c] \in Int
      BY <1>1, <2>1, SumInt
    <3> QED
      BY <3>1, <3>2, <3>3, <3>4
  <2> QED
    BY <2>1, <2>3 DEF Costs, g, h
<1>7. Commissions(old, bar, w, more) = Commissions(old, bar, w, done) + f.comm
  <2> DEFINE g == [x \in more |-> Commission(x, Move(old, bar, w, x))]
             h == [x \in done |-> Commission(x, Move(old, bar, w, x))]
  <2>1. (\A x \in more : g[x] \in Int) /\ (\A x \in done : h[x] = g[x]) /\ g[c] = f.comm
    BY <1>1, <1>2, CostIs
  <2>2. DOMAIN h = done /\ DOMAIN g = more
    OBVIOUS
  <2> HIDE DEF g, h
  <2>3. SumFunction(g) = SumFunction(h) + g[c]
    <3>1. SumFunction(g) = SumFunctionOnSet(g, done \cup {c})
      BY <2>2 DEF SumFunction
    <3>2. SumFunctionOnSet(g, done \cup {c}) = g[c] + SumFunctionOnSet(g, done)
      BY <1>1, <2>1, SumAdd
    <3>3. SumFunction(h) = SumFunctionOnSet(g, done)
      BY <1>1, <2>1, <2>2, SumOver
    <3>4. SumFunctionOnSet(g, done) \in Int /\ g[c] \in Int
      BY <1>1, <2>1, SumInt
    <3> QED
      BY <3>1, <3>2, <3>3, <3>4
  <2> QED
    BY <2>1, <2>3 DEF Commissions, g, h
<1>8. Slippages(old, bar, w, more) = Slippages(old, bar, w, done) + f.slip
  <2> DEFINE g == [x \in more |-> Slippage(x, RefPrice(bar, x), Move(old, bar, w, x))]
             h == [x \in done |-> Slippage(x, RefPrice(bar, x), Move(old, bar, w, x))]
  <2>1. (\A x \in more : g[x] \in Int) /\ (\A x \in done : h[x] = g[x]) /\ g[c] = f.slip
    BY <1>1, <1>2, CostIs
  <2>2. DOMAIN h = done /\ DOMAIN g = more
    OBVIOUS
  <2> HIDE DEF g, h
  <2>3. SumFunction(g) = SumFunction(h) + g[c]
    <3>1. SumFunction(g) = SumFunctionOnSet(g, done \cup {c})
      BY <2>2 DEF SumFunction
    <3>2. SumFunctionOnSet(g, done \cup {c}) = g[c] + SumFunctionOnSet(g, done)
      BY <1>1, <2>1, SumAdd
    <3>3. SumFunction(h) = SumFunctionOnSet(g, done)
      BY <1>1, <2>1, <2>2, SumOver
    <3>4. SumFunctionOnSet(g, done) \in Int /\ g[c] \in Int
      BY <1>1, <2>1, SumInt
    <3> QED
      BY <3>1, <3>2, <3>3, <3>4
  <2> QED
    BY <2>1, <2>3 DEF Slippages, g, h
<1>9. BookOf(old, bar, w, more) =
        [b EXCEPT !.cash = b.cash - paid - f.comm, !.pos[c] = b.pos[c] + f.delta]
  <2>1. PICK m \in Book : m = Morning(old, bar)
    BY <1>0, MorningIs
  <2>2. PICK fin \in Int, cash \in Int : fin = Financing(m) /\ cash = m.cash
    BY <2>1, EquityIs DEF Book
  <2>3. /\ b.cash = cash - fin - Costs(old, bar, w, done)
        /\ BookOf(old, bar, w, more).cash = cash - fin - Costs(old, bar, w, more)
    BY <1>b, <2>1, <2>2 DEF BookOf
  <2>4. BookOf(old, bar, w, more).cash = b.cash - paid - f.comm
    <3>1. b.cash - paid - f.comm = b.cash - (paid + f.comm)
      <4>1. b.cash \in Int /\ f.comm \in Int
        BY <1>2, <1>4, <1>6, <2>2, <2>3
      <4> QED
        BY <1>5, <4>1
    <3>2. PICK k \in Int, x \in Int : k = Costs(old, bar, w, done) /\ x = Cost(c, bar, delta)
      BY <1>4, <1>6
    <3>3. b.cash = cash - fin - k /\ BookOf(old, bar, w, more).cash = cash - fin - (k + x)
      BY <1>6, <2>3, <3>2
    <3> QED
      BY <1>5, <3>1, <3>2, <3>3
  <2>5. BookOf(old, bar, w, more).pos = [b.pos EXCEPT ![c] = b.pos[c] + f.delta]
    BY <1>1, <1>2, <1>b DEF BookOf
  <2>6. /\ b = [cash |-> b.cash, pos |-> b.pos, mark |-> Morning(old, bar).mark]
        /\ BookOf(old, bar, w, more) = [cash |-> BookOf(old, bar, w, more).cash,
                                        pos |-> BookOf(old, bar, w, more).pos,
                                        mark |-> Morning(old, bar).mark]
    BY <1>b DEF BookOf
  <2>7. PICK x, y, z, k, l :
          /\ x = b.cash /\ y = b.pos /\ z = Morning(old, bar).mark
          /\ k = b.cash - paid - f.comm /\ l = b.pos[c] + f.delta
    OBVIOUS
  <2>8. b = [cash |-> x, pos |-> y, mark |-> z]
    BY <2>6, <2>7
  <2>9. BookOf(old, bar, w, more) = [cash |-> k, pos |-> [y EXCEPT ![c] = l], mark |-> z]
    BY <2>4, <2>5, <2>6, <2>7
  <2>10. [b EXCEPT !.cash = k, !.pos[c] = l] = [cash |-> k, pos |-> [y EXCEPT ![c] = l], mark |-> z]
    <3>1. \A r : r = [cash |-> k, pos |-> y, mark |-> z]
                  => [r EXCEPT !.pos[c] = l] = [cash |-> k, pos |-> [y EXCEPT ![c] = l], mark |-> z]
      OBVIOUS
    <3>2. [b EXCEPT !.cash = k] = [cash |-> k, pos |-> y, mark |-> z]
      BY <2>8
    <3>3. [b EXCEPT !.cash = k, !.pos[c] = l] = [[b EXCEPT !.cash = k] EXCEPT !.pos[c] = l]
      OBVIOUS
    <3> QED
      BY <3>1, <3>2, <3>3
  <2> QED
    BY <2>7, <2>9, <2>10
<1>10. DayOf(old, bar, weights, w, more) = [d EXCEPT !.comm = d.comm + f.comm, !.slip = d.slip + f.slip]
  <2>1. PICK e, fin, t, x, y, k, l :
          /\ d = [equity |-> e, fin |-> fin, comm |-> x, slip |-> y, traded |-> t, bar |-> bar, weights |-> weights]
          /\ DayOf(old, bar, weights, w, more) =
               [equity |-> e, fin |-> fin, comm |-> k, slip |-> l, traded |-> t, bar |-> bar, weights |-> weights]
          /\ k = x + f.comm /\ l = y + f.slip
    BY <1>c, <1>7, <1>8 DEF DayOf
  <2>2. d.comm + f.comm = k /\ d.slip + f.slip = l
    BY <2>1
  <2>3. [d EXCEPT !.comm = k, !.slip = l] =
          [equity |-> e, fin |-> fin, comm |-> k, slip |-> l, traded |-> t, bar |-> bar, weights |-> weights]
    <3>1. [d EXCEPT !.comm = k] =
            [equity |-> e, fin |-> fin, comm |-> k, slip |-> y, traded |-> t, bar |-> bar, weights |-> weights]
      BY <2>1
    <3>2. \A r : r = [equity |-> e, fin |-> fin, comm |-> k, slip |-> y, traded |-> t, bar |-> bar, weights |-> weights]
            => [r EXCEPT !.slip = l] =
                 [equity |-> e, fin |-> fin, comm |-> k, slip |-> l, traded |-> t, bar |-> bar, weights |-> weights]
      OBVIOUS
    <3>3. [d EXCEPT !.comm = k, !.slip = l] = [[d EXCEPT !.comm = k] EXCEPT !.slip = l]
      OBVIOUS
    <3> QED
      BY <3>1, <3>2, <3>3
  <2> QED
    BY <2>1, <2>2, <2>3
<1>11. PaidOn(b, f) = paid
  BY <1>d, <1>e DEF PaidOn
<1>12. Filled(b, f) = BookOf(old, bar, w, more)
  BY <1>9, <1>11, <1>e DEF Filled
<1>13. Charged(d, f) = DayOf(old, bar, weights, w, more)
  BY <1>10 DEF Charged
<1> QED
  BY <1>12, <1>13, <1>a, <1>b, <1>c

OrdersOf(ts, old, bar, w) ==
  {Event(ts, "order", k, OrderOf(old, bar, w, Columns[k])) :
     k \in {i \in DOMAIN Columns : Columns[i] \in Movers(old, bar, w)}}

NextBar(ts, next) ==
  next = {} \/ \E gap \in Nat \ {0} : \E nb \in Bars : next = {Event(ts + gap, "market", Width, nb)}

(* What a bar leads to: an order for each column that moves.               *)
LEMMA DerivedAgrees ==
  ASSUME NEW ts \in Nat, NEW old, NEW bar, NEW w, NEW weights, NEW k \in Nat,
         NEW orders, orders = OrdersOf(ts, old, bar, w),
         NEW next, NextBar(ts, next),
         NEW h, h = Renumbered(Derived(ts, orders, weights) \cup next, k)
  PROVE  /\ Offered(h) /\ Agrees(h, old, bar, w) /\ Open(h) = Movers(old, bar, w)
         /\ Signalled(h, Hold, weights)
<1> DEFINE D == Derived(ts, orders, weights) \cup next
           Cols == {i \in DOMAIN Columns : Columns[i] \in Movers(old, bar, w)}
           O(i) == Event(ts, "order", k + i, OrderOf(old, bar, w, Columns[i]))
           sig == Event(ts, "signal", Width - 2, weights)
           rec == Event(ts, "record", Width - 1, << >>)
<1>1. /\ D = orders \cup Signals(ts, weights) \cup {rec} \cup next
      /\ orders = {Event(ts, "order", i, OrderOf(old, bar, w, Columns[i])) : i \in Cols}
      /\ Signals(ts, weights) = IF weights = Hold THEN {} ELSE {sig}
  BY DEF Derived, OrdersOf, Signals
<1>2. \A d \in orders : \E i \in Cols : d = Event(ts, "order", i, OrderOf(old, bar, w, Columns[i]))
  BY <1>1
<1>3. \A d \in next : /\ Bare(d) /\ d.kind = "market" /\ d.body \in Bars
  <2>1. CASE next = {}
    BY <2>1
  <2>2. CASE next # {}
    <3>1. PICK gap \in Nat \ {0} : \E nb \in Bars : next = {Event(ts + gap, "market", Width, nb)}
      BY <2>2 DEF NextBar
    <3>2. PICK nb \in Bars : next = {Event(ts + gap, "market", Width, nb)}
      BY <3>1
    <3> QED
      BY <3>2, EventFields
  <2> QED
    BY <2>1, <2>2
<1>4. \A d \in D : Bare(d)
  BY <1>1, <1>2, <1>3, EventFields
<1> HIDE DEF D, sig, rec, Cols
<1>5. h = Renumbered(D, k)
  BY DEF D
<1>6. \A e \in h : \E d \in D : e = Event(d.ts, d.kind, k + d.n, d.body)
  BY <1>4, <1>5, Renumber DEF Renumbered
<1>7. \A d \in D : Event(d.ts, d.kind, k + d.n, d.body) \in h
  <2> TAKE d \in D
  <2>1. [d EXCEPT !.n = k + d.n] \in h
    BY <1>5 DEF Renumbered
  <2>2. [d EXCEPT !.n = k + d.n] = Event(d.ts, d.kind, k + d.n, d.body)
    BY <1>4, Renumber
  <2> QED
    BY <2>1, <2>2
<1>8. /\ sig.ts = ts /\ sig.kind = "signal" /\ sig.body = weights
      /\ rec.ts = ts /\ rec.kind = "record"
  BY EventFields DEF sig, rec
<1>9. \A i \in Cols : LET d == Event(ts, "order", i, OrderOf(old, bar, w, Columns[i]))
                      IN  d.ts = ts /\ d.kind = "order" /\ d.n = i /\ d.body = OrderOf(old, bar, w, Columns[i])
  BY EventFields
<1>10. \A e \in h :
         \/ \E i \in Cols : e = O(i)
         \/ weights # Hold /\ e = Event(ts, "signal", k + sig.n, weights)
         \/ e = Event(ts, "record", k + rec.n, rec.body)
         \/ \E d \in next : e = Event(d.ts, "market", k + d.n, d.body)
  <2> TAKE e \in h
  <2>1. PICK d \in D : e = Event(d.ts, d.kind, k + d.n, d.body)
    BY <1>6
  <2>2. CASE d \in orders
    <3>1. PICK i \in Cols : d = Event(ts, "order", i, OrderOf(old, bar, w, Columns[i]))
      BY <1>2, <2>2
    <3>2. e = O(i)
      BY <1>9, <2>1, <3>1
    <3> QED
      BY <3>2
  <2>3. CASE weights # Hold /\ d = sig
    BY <1>8, <2>1, <2>3
  <2>4. CASE d = rec
    BY <1>8, <2>1, <2>4
  <2>5. CASE d \in next
    BY <1>3, <2>1, <2>5
  <2> QED
    BY <1>1, <2>2, <2>3, <2>4, <2>5
<1>11. \A i \in Cols : O(i) \in h
  <2> TAKE i \in Cols
  <2>1. Event(ts, "order", i, OrderOf(old, bar, w, Columns[i])) \in D
    BY <1>1
  <2> QED
    BY <1>7, <1>9, <2>1
<1>12. weights # Hold => Event(ts, "signal", k + sig.n, weights) \in h
  BY <1>1, <1>7, <1>8
<1>13. /\ \A i \in Cols : O(i).kind = "order" /\ O(i).body = OrderOf(old, bar, w, Columns[i])
       /\ Event(ts, "signal", k + sig.n, weights).kind = "signal"
       /\ Event(ts, "signal", k + sig.n, weights).body = weights
       /\ Event(ts, "record", k + rec.n, rec.body).kind = "record"
       /\ \A d \in next : /\ Event(d.ts, "market", k + d.n, d.body).kind = "market"
                          /\ Event(d.ts, "market", k + d.n, d.body).body = d.body
  BY EventFields
<1> HIDE DEF O
<1>14. Pending(h) = {O(i) : i \in Cols}
  <2>1. \A e \in Pending(h) : \E i \in Cols : e = O(i)
    BY <1>10, <1>13 DEF Pending
  <2>2. \A i \in Cols : O(i) \in Pending(h)
    BY <1>11, <1>13 DEF Pending
  <2> QED
    BY <2>1, <2>2
<1>15. \A c : OrderOf(old, bar, w, c).ins = c
  BY DEF OrderOf
<1>16. Open(h) = Movers(old, bar, w)
  <2>1. Open(h) = {Columns[i] : i \in Cols}
    <3>1. \A i \in Cols : O(i).body.ins = Columns[i]
      BY <1>13, <1>15
    <3>2. \A x \in Open(h) : \E i \in Cols : x = Columns[i]
      <4> TAKE x \in Open(h)
      <4>1. PICK e \in Pending(h) : x = e.body.ins
        BY DEF Open
      <4>2. PICK i \in Cols : e = O(i)
        BY <1>14
      <4> QED
        BY <3>1, <4>1, <4>2
    <3>3. \A i \in Cols : O(i) \in Pending(h)
      BY <1>14
    <3>4. \A i \in Cols : O(i).body.ins \in Open(h)
      BY <3>3 DEF Open
    <3>5. \A i \in Cols : Columns[i] \in Open(h)
      BY <3>1, <3>4
    <3> QED
      BY <3>2, <3>5
  <2>2. \A c \in Movers(old, bar, w) : \E i \in Cols : c = Columns[i]
    BY DEF Cols, Movers, Ids, Range
  <2> QED
    BY <2>1, <2>2 DEF Cols
<1>17. Agrees(h, old, bar, w)
  <2>1. \A e \in Pending(h) : \E c \in Movers(old, bar, w) :
          e.body = IF e.kind = "order" THEN OrderOf(old, bar, w, c) ELSE FillOf(old, bar, w, c)
    <3> SUFFICES ASSUME NEW e \in Pending(h)
                 PROVE  \E c \in Movers(old, bar, w) : e.kind = "order" /\ e.body = OrderOf(old, bar, w, c)
      OBVIOUS
    <3>1. PICK i \in Cols : e = O(i)
      BY <1>14
    <3>2. Columns[i] \in Movers(old, bar, w)
      BY DEF Cols
    <3> QED
      BY <1>13, <3>1, <3>2
  <2>2. ASSUME NEW e \in Pending(h), NEW f \in Pending(h), e.body.ins = f.body.ins PROVE e = f
    <3>1. PICK i \in Cols, j \in Cols : e = O(i) /\ f = O(j)
      BY <1>14
    <3>2. Columns[i] = Columns[j]
      BY <1>13, <1>15, <2>2, <3>1
    <3>3. i = j
      BY <3>2, RulesAssumption DEF IsInjective, Cols
    <3> QED
      BY <3>1, <3>3
  <2> QED
    BY <2>1, <2>2 DEF Agrees
<1>18. Offered(h)
  <2> SUFFICES ASSUME NEW e \in h, e.kind = "market" PROVE e.body \in Bars
    BY DEF Offered
  <2>1. PICK d \in next : e = Event(d.ts, "market", k + d.n, d.body)
    BY <1>10, <1>13
  <2> QED
    BY <1>3, <1>13, <2>1
<1>19. Signalled(h, Hold, weights)
  <2>1. \A e \in h : e.kind = "signal" => e = Event(ts, "signal", k + sig.n, weights)
    BY <1>10, <1>13
  <2> QED
    BY <1>12, <1>13, <2>1 DEF Signalled
<1> QED
  BY <1>16, <1>17, <1>18, <1>19

(* With nothing filled the day has just begun.                             *)
LEMMA DayBegins ==
  ASSUME NEW old \in Book, NEW bar \in Bars, NEW w, NEW m, m = Morning(old, bar)
  PROVE  [m EXCEPT !.cash = m.cash - Financing(m)] = BookOf(old, bar, w, {})
<1>1. m \in Book /\ m.pos = old.pos
  BY MorningIs DEF Morning
<1>2. m.cash \in Int /\ Financing(m) \in Int
  BY <1>1, EquityIs DEF Book
<1>3. BookOf(old, bar, w, {}).cash = m.cash - Financing(m)
  BY <1>2, NothingFilled DEF BookOf
<1>4. BookOf(old, bar, w, {}).pos = m.pos
  BY <1>1 DEF BookOf, Book
<1>5. BookOf(old, bar, w, {}) = [cash |-> m.cash - Financing(m), pos |-> m.pos, mark |-> m.mark]
  BY <1>3, <1>4 DEF BookOf
<1> QED
  BY <1>1, <1>5 DEF Book

LEMMA TurnoverIs ==
  ASSUME NEW ts \in Nat, NEW old \in Book, NEW bar \in Bars, NEW w, Weighted(w)
  PROVE  TradedBy(OrdersOf(ts, old, bar, w)) = Turnover(old, bar, w)
<1> DEFINE movers == Movers(old, bar, w)
           Place(c) == CHOOSE i \in DOMAIN Columns : Columns[i] = c
           b == [c \in movers |-> Event(ts, "order", Place(c), OrderOf(old, bar, w, c))]
           f == [o \in OrdersOf(ts, old, bar, w) |-> Abs(o.body.delta) * Money(o.body.ins, o.body.ref)]
           g == [c \in movers |-> Abs(Move(old, bar, w, c)) * Money(c, RefPrice(bar, c))]
<1>1. movers \in SUBSET Ids /\ IsFiniteSet(movers)
  <2>1. movers \in SUBSET Ids
    BY DEF Movers
  <2> QED
    BY <2>1, IdsFinite, FS_Subset
<1>2. \A c \in Ids : Place(c) \in DOMAIN Columns /\ Columns[Place(c)] = c
  BY DEF Ids, Range
<1>3. \A i \in DOMAIN Columns : Place(Columns[i]) = i
  BY <1>2, RulesAssumption DEF IsInjective, Ids, Range
<1> HIDE DEF Place
<1>4. OrdersOf(ts, old, bar, w) = {b[c] : c \in movers}
  <2>1. ASSUME NEW o \in OrdersOf(ts, old, bar, w) PROVE \E c \in movers : o = b[c]
    <3>1. PICK i \in DOMAIN Columns : Columns[i] \in movers /\ o = Event(ts, "order", i, OrderOf(old, bar, w, Columns[i]))
      BY DEF OrdersOf
    <3> QED
      BY <1>3, <3>1
  <2>2. ASSUME NEW c \in movers PROVE b[c] \in OrdersOf(ts, old, bar, w)
    <3>1. Place(c) \in DOMAIN Columns /\ Columns[Place(c)] = c
      BY <1>1, <1>2
    <3> QED
      BY <3>1 DEF OrdersOf
  <2> QED
    BY <2>1, <2>2
<1>5. \A c \in movers : /\ b[c].body.ins = c /\ b[c].body.delta = Move(old, bar, w, c)
                        /\ b[c].body.ref = RefPrice(bar, c)
  BY EventFields DEF OrderOf
<1>6. \A c \in movers : b[c] \in OrdersOf(ts, old, bar, w)
  BY <1>4
<1>7. \A c \in movers : f[b[c]] = g[c] /\ g[c] \in Int
  <2> SUFFICES ASSUME NEW c \in movers PROVE f[b[c]] = g[c] /\ g[c] \in Int
    OBVIOUS
  <2>1. f[b[c]] = g[c]
    <3> HIDE DEF b
    <3> QED
      BY <1>5, <1>6
  <2>2. Move(old, bar, w, c) \in Int /\ c \in Ids
    BY MoversMove
  <2>3. Abs(Move(old, bar, w, c)) \in Int /\ Money(c, RefPrice(bar, c)) \in Int
    BY <2>2, BarIs, MoneyIs DEF Abs
  <2>4. g[c] \in Int
    BY <2>3
  <2> QED
    BY <2>1, <2>4
<1>8. \A x, y \in movers : b[x] = b[y] => x = y
  BY <1>5
<1> HIDE DEF b, f, g, movers
<1>9. SumFunctionOnSet(f, {b[c] : c \in movers}) = SumFunctionOnSet(g, movers)
  BY <1>1, <1>7, <1>8, SumImage
<1> QED
  BY <1>4, <1>9 DEF TradedBy, Turnover, SumFunction, f, g, movers

-----------------------------------------------------------------------------
LEMMA HoldIs == Weighted(Hold) /\ DOMAIN Hold = {} /\ Hold = [c \in {} |-> 0]
BY DEF Weighted, Hold

LEMMA TargetIs ==
  ASSUME NEW past, Past(past) PROVE Weighted(Target(past))
BY HoldIs DEF Target, Past

LEMMA InitBookInv == Init => BookInv
<1> SUFFICES ASSUME Init PROVE BookInv
  OBVIOUS
<1>1. IInv
  BY InitIInv
<1>2. PICK bar \in Bars : heap = {Event(1, "market", 0, bar)}
  BY DEF Init
<1>3. Event(1, "market", 0, bar).kind = "market" /\ Event(1, "market", 0, bar).body = bar
  BY EventFields
<1>4. Offered(heap) /\ ~HasRecord(heap)
  BY <1>2, <1>3 DEF Offered, HasRecord
<1>5. Past(history)
  BY DEF Init, Past
<1>6. Valued(EmptyBook)
  <2>1. InitialEquity \in Int
    BY RulesAssumption
  <2> QED
    BY <2>1 DEF Valued, Book, EmptyBook
<1>7. EmptyBook = Previous(Len(rows) + 1)
  BY DEF Init, Previous
<1> QED
  BY <1>1, <1>4, <1>5, <1>6, <1>7 DEF Init, BookInv

(* What the event loop computes of a bar when its book is a given one.     *)
LEMMA BarIsWorked ==
  ASSUME NEW bar \in Bars, book \in Book, count = Len(history), Len(history) \in Nat,
         NEW ts
  PROVE  /\ Marked(bar) = Morning(book, bar)
         /\ Due = Target(history)
         /\ Orders(ts, bar, Equity(Marked(bar))) = OrdersOf(ts, book, bar, Target(history))
<1> DEFINE prints == {c \in Ids : bar.close[c] # 0}
           held == {c \in prints : Terms[c].margined /\ book.pos[c] # 0 /\ book.mark[c] # 0}
           same == {d \in Ids : /\ Terms[d].margined /\ book.pos[d] # 0
                                /\ bar.close[d] # 0 /\ book.mark[d] # 0}
           Gain(s) == SumFunction([c \in s |->
                        book.pos[c] * (Money(c, bar.close[c]) - Money(c, book.mark[c]))])
           mark == [c \in Ids |-> IF bar.close[c] # 0 THEN bar.close[c] ELSE book.mark[c]]
<1>1. Marked(bar) = Morning(book, bar)
  <2>1. held = same
    OBVIOUS
  <2>2. [c \in Ids |-> IF c \in prints THEN bar.close[c] ELSE book.mark[c]] = mark
    OBVIOUS
  <2>3. Marked(bar) = [book EXCEPT !.cash = book.cash + Gain(held), !.mark = mark]
    BY <2>2 DEF Marked
  <2>4. Morning(book, bar) = [cash |-> book.cash + Gain(same), pos |-> book.pos, mark |-> mark]
    BY DEF Morning
  <2>5. book = [cash |-> book.cash, pos |-> book.pos, mark |-> book.mark]
    BY DEF Book
  <2> HIDE DEF Gain, held, same, mark
  <2> QED
    BY <2>1, <2>3, <2>4, <2>5
<1>2. Due = Target(history)
  BY DEF Due, Target
<1>3. ASSUME NEW c
      PROVE  Delta(bar, c, Equity(Marked(bar))) = Move(book, bar, Target(history), c)
  BY <1>1, <1>2 DEF Delta, Move
<1>4. Wanted(bar, Equity(Marked(bar))) = Movers(book, bar, Target(history))
  BY <1>1, <1>2, <1>3 DEF Wanted, Movers
<1>5. Orders(ts, bar, Equity(Marked(bar))) = OrdersOf(ts, book, bar, Target(history))
  <2>1. \A c : [ins |-> c, delta |-> Delta(bar, c, Equity(Marked(bar))), ref |-> RefPrice(bar, c)]
                 = OrderOf(book, bar, Target(history), c)
    BY <1>3 DEF OrderOf
  <2> QED
    BY <1>4, <2>1 DEF Orders, OrdersOf
<1> QED
  BY <1>1, <1>2, <1>5

LEMMA MarketBookInv ==
  ASSUME 0 \notin Gaps, BookInv, NEW e \in heap, OnMarket(e)
  PROVE  BookInv'
<1> DEFINE bar == e.body
           w == Target(history)
           m == Morning(sealed, bar)
           orders == OrdersOf(e.ts, sealed, bar, w)
<1>1. heap = {e} /\ e.kind = "market" /\ e.ts \in Nat /\ counter \in Nat
  BY DrainedByShape DEF BookInv, IInv, OnMarket, DrainedBeforeNextBar, Pops, Shape
<1>2. ~HasRecord(heap)
  BY <1>1 DEF HasRecord
<1>3. /\ book = sealed /\ current = Hold /\ sealed \in Book /\ bar \in Bars
      /\ count = Len(history) /\ Len(history) \in Nat
  <2>1. count = Len(rows) + 0 \/ count = Len(rows)
    BY <1>2 DEF BookInv, IInv
  <2>2. Len(history) = Len(rows) /\ Len(rows) \in Nat
    BY Grows DEF BookInv, IInv
  <2> QED
    BY <1>1, <1>2, <2>1, <2>2 DEF BookInv, Valued, Offered
<1>4. /\ Marked(bar) = m /\ Orders(e.ts, bar, Equity(m)) = orders
  BY <1>3, BarIsWorked
<1>5. IInv'
  BY MarketIInv DEF BookInv
<1>6. /\ book' = [m EXCEPT !.cash = m.cash - Financing(m)]
      /\ \E weights \in WeightRows :
           /\ day' = [equity |-> Equity(m), fin |-> Financing(m), comm |-> 0, slip |-> 0,
                      traded |-> TradedBy(orders), bar |-> bar, weights |-> weights]
           /\ \/ Replace(e, Derived(e.ts, orders, weights))
              \/ \E gap \in Gaps, nb \in Bars :
                   Replace(e, Derived(e.ts, orders, weights)
                                \cup {Event(e.ts + gap, "market", Width, nb)})
      /\ UNCHANGED <<history, current, rows, sealed>>
  <2> HIDE DEF m, orders
  <2> QED
    BY <1>4 DEF OnMarket
<1>7. Weighted(w)
  BY TargetIs DEF BookInv
<1>8. PICK weights \in WeightRows :
           /\ day' = [equity |-> Equity(m), fin |-> Financing(m), comm |-> 0, slip |-> 0,
                      traded |-> TradedBy(orders), bar |-> bar, weights |-> weights]
           /\ \/ Replace(e, Derived(e.ts, orders, weights))
              \/ \E gap \in Gaps, nb \in Bars :
                   Replace(e, Derived(e.ts, orders, weights)
                                \cup {Event(e.ts + gap, "market", Width, nb)})
  BY <1>6
<1> HIDE DEF orders
<1>9. PICK next : /\ NextBar(e.ts, next)
                  /\ Replace(e, Derived(e.ts, orders, weights) \cup next)
  <2>1. CASE Replace(e, Derived(e.ts, orders, weights))
    <3>1. Derived(e.ts, orders, weights) = Derived(e.ts, orders, weights) \cup {}
      OBVIOUS
    <3> QED
      BY <2>1, <3>1 DEF NextBar
  <2>2. CASE \E gap \in Gaps, nb \in Bars :
               Replace(e, Derived(e.ts, orders, weights)
                            \cup {Event(e.ts + gap, "market", Width, nb)})
    <3>1. Gaps \subseteq Nat \ {0}
      BY LoopAssumption
    <3> QED
      BY <2>2, <3>1 DEF NextBar
  <2> QED
    BY <1>8, <2>1, <2>2
<1>10. heap' = Renumbered(Derived(e.ts, orders, weights) \cup next, counter)
  <2>1. heap' = (heap \ {e}) \cup Renumbered(Derived(e.ts, orders, weights) \cup next, counter)
    BY <1>1, <1>9, ReplaceIs
  <2> QED
    BY <1>1, <2>1
<1>11. /\ Offered(heap') /\ Agrees(heap', sealed, bar, w) /\ Open(heap') = Movers(sealed, bar, w)
       /\ Signalled(heap', Hold, weights)
  <2>1. PICK os : os = orders
    OBVIOUS
  <2>2. PICK h : h = heap'
    OBVIOUS
  <2>3. os = OrdersOf(e.ts, sealed, bar, w) /\ h = Renumbered(Derived(e.ts, os, weights) \cup next, counter)
    BY <1>10, <2>1, <2>2 DEF orders
  <2>4. NextBar(e.ts, next) /\ e.ts \in Nat /\ counter \in Nat
    BY <1>1, <1>9
  <2> HIDE DEF w, bar, orders
  <2>5. /\ Offered(h) /\ Agrees(h, sealed, bar, w) /\ Open(h) = Movers(sealed, bar, w)
        /\ Signalled(h, Hold, weights)
    BY <2>3, <2>4, DerivedAgrees
  <2> QED
    BY <2>2, <2>5
<1>12. book' = BookOf(sealed, bar, w, {})
  BY <1>3, <1>6, DayBegins
<1>13. day' = DayOf(sealed, bar, weights, w, {})
  <2>1. TradedBy(orders) = Turnover(sealed, bar, w)
    BY <1>1, <1>3, <1>7, TurnoverIs DEF orders
  <2> QED
    BY <1>8, <2>1, NothingFilled DEF DayOf
<1>14. InDay(heap', book', day', current', sealed', Target(history'))
  <2>1. Movers(sealed, bar, w) \ Open(heap') = {}
    BY <1>11
  <2>2. Worked(heap', book', day', current, sealed, w, bar, weights)
    BY <1>3, <1>11, <1>12, <1>13, <2>1 DEF Worked
  <2> QED
    BY <1>3, <1>6, <2>2 DEF InDay
<1>15. HasRecord(heap')
  <2>1. rows' = rows /\ count' = count + 1
    BY DEF OnMarket
  <2>2. Len(rows) = Len(history)
    BY DEF BookInv, IInv
  <2> QED
    BY <1>3, <1>5, <2>1, <2>2 DEF IInv
<1>16. Past(history') /\ Valued(sealed') /\ sealed' = Previous(Len(rows) + 1)'
  BY <1>6 DEF BookInv, Previous
<1> QED
  BY <1>5, <1>11, <1>14, <1>15, <1>16 DEF BookInv

(* The events of a day that is being worked off.                           *)
LEMMA InTheDay ==
  ASSUME BookInv, NEW e \in heap, e.kind # "market"
  PROVE  /\ HasRecord(heap)
         /\ \E bar \in Bars, weights \in WeightRows :
              Worked(heap, book, day, current, sealed, Target(history), bar, weights)
BY DEF BookInv, IInv, Led, InDay

LEMMA QuietBookInv ==
  ASSUME BookInv, IInv', Offered(heap'), HasRecord(heap'), UNCHANGED <<history, rows, sealed>>,
         InDay(heap', book', day', current', sealed, Target(history))
  PROVE  BookInv'
<1>1. Past(history') /\ Valued(sealed') /\ sealed' = Previous(Len(rows) + 1)'
  BY DEF BookInv, Previous
<1>2. InDay(heap', book', day', current', sealed', Target(history'))
  OBVIOUS
<1> QED
  BY <1>1, <1>2 DEF BookInv

LEMMA OrderBookInv ==
  ASSUME 0 \notin Gaps, BookInv, NEW e \in heap, OnOrder(e)
  PROVE  BookInv'
<1> DEFINE w == Target(history)
<1>1. e.kind = "order" /\ Shape(heap) /\ counter \in Nat
  BY DEF BookInv, IInv, OnOrder, Pops
<1>2. IInv'
  <2>1. Next
    BY DEF Next
  <2> QED
    BY <2>1, StepIInv DEF BookInv
<1>3. HasRecord(heap)
  BY <1>1, InTheDay
<1>4. PICK bar \in Bars, weights \in WeightRows : Worked(heap, book, day, current, sealed, w, bar, weights)
  BY <1>1, InTheDay
<1>5. Agrees(heap, sealed, bar, w) /\ Signalled(heap, current, weights)
  BY <1>4 DEF Worked
<1>6. e \in Pending(heap)
  BY <1>1 DEF Pending
<1>7. e.body.ins \in Movers(sealed, bar, w) /\ e.body = OrderOf(sealed, bar, w, e.body.ins)
  BY <1>1, <1>5, <1>6, PendingIs
<1>8. PICK c \in Movers(sealed, bar, w) : c = e.body.ins /\ e.body = OrderOf(sealed, bar, w, c)
  BY <1>7
<1> DEFINE body == FillOf(sealed, bar, w, c)
           new == Event(e.ts, "fill", counter + 1, body)
<1>9. Replace(e, {Event(e.ts, "fill", 1, body)})
  <2>1. /\ e.body.ins = c /\ e.body.delta = Move(sealed, bar, w, c) /\ e.body.ref = RefPrice(bar, c)
    BY <1>8 DEF OrderOf
  <2>2. [ins  |-> e.body.ins, delta |-> e.body.delta,
         px   |-> FillPrice(e.body.ins, e.body.ref, e.body.delta),
         comm |-> Commission(e.body.ins, e.body.delta),
         slip |-> Slippage(e.body.ins, e.body.ref, e.body.delta)] = body
    BY <2>1 DEF FillOf
  <2> HIDE DEF body
  <2> QED
    BY <2>2 DEF OnOrder
<1> HIDE DEF body, w
<1>10. heap' = (heap \ {e}) \cup {new}
  <2>1. Event(e.ts, "fill", 1, body).n = 1
    BY EventFields
  <2>2. [Event(e.ts, "fill", 1, body) EXCEPT !.n = counter + 1] = new
    BY DEF Event
  <2>3. Renumbered({Event(e.ts, "fill", 1, body)}, counter) = {new}
    BY <2>1, <2>2 DEF Renumbered
  <2> QED
    BY <1>1, <1>9, <2>3, ReplaceIs
<1>11. new.kind = "fill" /\ new.body = body /\ body.ins = c
  BY EventFields DEF body, FillOf
<1> HIDE DEF new
<1>12. Pending(heap') = (Pending(heap) \ {e}) \cup {new}
  BY <1>10, <1>11 DEF Pending
<1>13. Open(heap') = Open(heap)
  <2>1. \A x \in Open(heap') : x \in Open(heap)
    <3> TAKE x \in Open(heap')
    <3>1. PICK f \in Pending(heap') : x = f.body.ins
      BY DEF Open
    <3>2. CASE f = new
      BY <1>6, <1>8, <1>11, <3>1, <3>2 DEF Open
    <3>3. CASE f # new
      BY <1>12, <3>1, <3>3 DEF Open
    <3> QED
      BY <3>2, <3>3
  <2>2. \A x \in Open(heap) : x \in Open(heap')
    <3> TAKE x \in Open(heap)
    <3>1. PICK f \in Pending(heap) : x = f.body.ins
      BY DEF Open
    <3>2. CASE f = e
      BY <1>8, <1>11, <1>12, <3>1, <3>2 DEF Open
    <3>3. CASE f # e
      BY <1>12, <3>1, <3>3 DEF Open
    <3> QED
      BY <3>2, <3>3
  <2> QED
    BY <2>1, <2>2
<1>14. Agrees(heap', sealed, bar, w)
  <2>1. \A f \in Pending(heap') : \E x \in Movers(sealed, bar, w) :
          f.body = IF f.kind = "order" THEN OrderOf(sealed, bar, w, x) ELSE FillOf(sealed, bar, w, x)
    <3> TAKE f \in Pending(heap')
    <3>1. CASE f = new
      BY <1>11, <3>1 DEF body
    <3>2. CASE f # new
      BY <1>5, <1>12, <3>2 DEF Agrees
    <3> QED
      BY <3>1, <3>2
  <2>2. \A f, g \in Pending(heap') : f.body.ins = g.body.ins => f = g
    <3>1. \A f \in Pending(heap) \ {e} : f.body.ins # c
      BY <1>5, <1>6, <1>8 DEF Agrees
    <3>2. \A f, g \in Pending(heap) : f.body.ins = g.body.ins => f = g
      BY <1>5 DEF Agrees
    <3> QED
      BY <1>11, <1>12, <3>1, <3>2
  <2> QED
    BY <2>1, <2>2 DEF Agrees
<1>15. Signalled(heap', current, weights)
  BY <1>1, <1>5, <1>10, <1>11 DEF Signalled
<1>16. Offered(heap')
  BY <1>10, <1>11 DEF Offered, BookInv
<1>17. HasRecord(heap')
  BY <1>1, <1>3, <1>10 DEF HasRecord
<1>18. UNCHANGED <<book, history, current, day, rows, sealed>>
  BY DEF OnOrder
<1>19. Worked(heap', book, day, current, sealed, w, bar, weights)
  BY <1>4, <1>13, <1>14, <1>15 DEF Worked
<1>20. InDay(heap', book', day', current', sealed, Target(history))
  BY <1>18, <1>19 DEF InDay, w
<1> QED
  BY <1>2, <1>16, <1>17, <1>18, <1>20, QuietBookInv

LEMMA FillBookInv ==
  ASSUME 0 \notin Gaps, BookInv, NEW e \in heap, OnFill(e)
  PROVE  BookInv'
<1> DEFINE w == Target(history)
<1>1. e.kind = "fill" /\ counter \in Nat /\ Valued(sealed) /\ Weighted(w)
  BY TargetIs DEF BookInv, IInv, OnFill, Pops
<1>2. IInv'
  <2>1. Next
    BY DEF Next
  <2> QED
    BY <2>1, StepIInv DEF BookInv
<1>3. HasRecord(heap)
  BY <1>1, InTheDay
<1>4. PICK bar \in Bars, weights \in WeightRows : Worked(heap, book, day, current, sealed, w, bar, weights)
  BY <1>1, InTheDay
<1> DEFINE movers == Movers(sealed, bar, w)
           done == movers \ Open(heap)
<1> HIDE DEF w
<1>5. /\ Agrees(heap, sealed, bar, w) /\ Signalled(heap, current, weights)
      /\ book = BookOf(sealed, bar, w, done) /\ day = DayOf(sealed, bar, weights, w, done)
  BY <1>4 DEF Worked
<1>6. e \in Pending(heap)
  BY <1>1 DEF Pending
<1>7. e.body.ins \in movers /\ e.body = FillOf(sealed, bar, w, e.body.ins) /\ e.body.ins \in Open(heap)
  BY <1>1, <1>5, <1>6, PendingIs DEF Open
<1>8. PICK c \in movers : c = e.body.ins
  BY <1>7
<1>9. heap' = heap \ {e}
  BY <1>1, ReplaceIs, EmptyPush DEF OnFill
<1>10. Pending(heap') = Pending(heap) \ {e}
  BY <1>9 DEF Pending
<1>11. Open(heap') = Open(heap) \ {c}
  <2>1. \A f \in Pending(heap) \ {e} : f.body.ins # c
    BY <1>5, <1>6, <1>8 DEF Agrees
  <2>2. \A x \in Open(heap') : x \in Open(heap) /\ x # c
    BY <1>10, <2>1 DEF Open
  <2>3. \A x \in Open(heap) : x # c => x \in Open(heap')
    <3> TAKE x \in Open(heap)
    <3>1. PICK f \in Pending(heap) : x = f.body.ins
      BY DEF Open
    <3> QED
      BY <1>8, <1>10, <3>1 DEF Open
  <2> QED
    BY <2>2, <2>3
<1>12. movers \ Open(heap') = done \cup {c} /\ c \notin done
  BY <1>7, <1>8, <1>11
<1>13. Agrees(heap', sealed, bar, w)
  BY <1>5, <1>10 DEF Agrees
<1>14. Signalled(heap', current, weights)
  BY <1>1, <1>5, <1>9 DEF Signalled
<1>15. PICK f : f = e.body /\ f = FillOf(sealed, bar, w, c) /\ f.ins = c
  BY <1>7, <1>8
<1>16. Paid(f) = PaidOn(book, f)
  BY DEF Paid, PaidOn
<1>17. book' = Filled(book, f) /\ day' = Charged(day, f) /\ UNCHANGED <<history, current, rows, sealed>>
  BY <1>15, <1>16 DEF OnFill, Filled, Charged
<1>18. done \in SUBSET Movers(sealed, bar, w) /\ c \in Movers(sealed, bar, w) \ done
  BY <1>12
<1> HIDE DEF done, movers
<1>19. /\ book' = BookOf(sealed, bar, w, done \cup {c})
       /\ day' = DayOf(sealed, bar, weights, w, done \cup {c})
  BY <1>1, <1>5, <1>15, <1>17, <1>18, OneFilled
<1>20. InDay(heap', book', day', current', sealed, Target(history))
  <2>1. Worked(heap', book', day', current, sealed, w, bar, weights)
    BY <1>12, <1>13, <1>14, <1>19 DEF Worked, movers
  <2> QED
    BY <1>17, <2>1 DEF InDay, w
<1>21. Offered(heap') /\ HasRecord(heap')
  BY <1>1, <1>3, <1>9 DEF Offered, BookInv, HasRecord
<1> QED
  BY <1>2, <1>17, <1>20, <1>21, QuietBookInv

LEMMA SignalBookInv ==
  ASSUME 0 \notin Gaps, BookInv, NEW e \in heap, OnSignal(e)
  PROVE  BookInv'
<1> DEFINE w == Target(history)
<1>1. e.kind = "signal" /\ counter \in Nat
  BY DEF BookInv, IInv, OnSignal, Pops
<1>2. IInv'
  <2>1. Next
    BY DEF Next
  <2> QED
    BY <2>1, StepIInv DEF BookInv
<1>3. HasRecord(heap)
  BY <1>1, InTheDay
<1>4. PICK bar \in Bars, weights \in WeightRows : Worked(heap, book, day, current, sealed, w, bar, weights)
  BY <1>1, InTheDay
<1>5. heap' = heap \ {e}
  BY <1>1, ReplaceIs, EmptyPush DEF OnSignal
<1>6. Pending(heap') = Pending(heap)
  BY <1>1, <1>5 DEF Pending
<1>7. Open(heap') = Open(heap) /\ (Agrees(heap, sealed, bar, w) => Agrees(heap', sealed, bar, w))
  BY <1>6 DEF Open, Agrees
<1>8. e.body = weights /\ current = Hold
  BY <1>1, <1>4 DEF Worked, Signalled
<1>9. current' = weights
  <2>1. weights \in [DOMAIN weights -> Int]
    BY RulesAssumption
  <2>2. DOMAIN current \cup DOMAIN weights = DOMAIN weights
    BY <1>8, HoldIs
  <2>3. current' = [c \in DOMAIN current \cup DOMAIN weights |->
                      IF c \in DOMAIN weights THEN weights[c] ELSE current[c]]
    BY <1>8 DEF OnSignal
  <2> QED
    BY <2>1, <2>2, <2>3
<1>10. Signalled(heap', current', weights)
  <2>1. \A f \in heap' : f.kind # "signal"
    BY <1>1, <1>4, <1>5 DEF Worked, Signalled
  <2> QED
    BY <1>9, <2>1 DEF Signalled
<1>11. UNCHANGED <<book, history, day, rows, sealed>>
  BY DEF OnSignal
<1>12. InDay(heap', book', day', current', sealed, Target(history))
  <2>1. Worked(heap', book, day, current', sealed, w, bar, weights)
    BY <1>4, <1>7, <1>10 DEF Worked
  <2> QED
    BY <1>11, <2>1 DEF InDay
<1>13. Offered(heap') /\ HasRecord(heap')
  BY <1>1, <1>3, <1>5 DEF Offered, BookInv, HasRecord
<1> QED
  BY <1>2, <1>11, <1>12, <1>13, QuietBookInv

-----------------------------------------------------------------------------
(* What a day comes to, once its record is popped.                         *)
IncomeOf(b, bar) == SumFunction([c \in Ids |-> b.pos[c] * b.mark[c] * bar.carry[c]])

Closed(b, bar) == [b EXCEPT !.cash = b.cash + IncomeOf(b, bar)]

Traded(old, bar, w) == BookOf(old, bar, w, Movers(old, bar, w))

Evening(old, bar, w) == Closed(Traded(old, bar, w), bar)

RowOf(old, bar, w, weights) ==
  [equity |-> Equity(Evening(old, bar, w)), pre |-> Equity(Morning(old, bar)),
   book |-> Evening(old, bar, w),
   comm |-> Commissions(old, bar, w, Movers(old, bar, w)),
   slip |-> Slippages(old, bar, w, Movers(old, bar, w)),
   fin |-> Financing(Morning(old, bar)), carry |-> IncomeOf(Traded(old, bar, w), bar),
   traded |-> Turnover(old, bar, w), bar |-> bar, weights |-> weights]

LEMMA IncomeIs ==
  ASSUME NEW b \in Book, NEW bar \in Bars PROVE IncomeOf(b, bar) \in Int
<1> DEFINE f == [c \in Ids |-> b.pos[c] * b.mark[c] * bar.carry[c]]
<1>1. \A c \in Ids : f[c] \in Int
  <2> TAKE c \in Ids
  <2>1. b.pos[c] \in Int /\ b.mark[c] \in Int /\ bar.carry[c] \in Int
    BY BarIs DEF Book
  <2> QED
    BY <2>1
<1>2. DOMAIN f = Ids /\ Ids \in SUBSET Ids
  OBVIOUS
<1> HIDE DEF f
<1>3. SumFunction(f) \in Int
  BY <1>1, <1>2, SumIs
<1> QED
  BY <1>3 DEF f, IncomeOf

LEMMA EveningIs ==
  ASSUME NEW old, Valued(old), NEW bar \in Bars, NEW w, Weighted(w)
  PROVE  /\ Valued(Evening(old, bar, w))
         /\ Evening(old, bar, w).pos = Traded(old, bar, w).pos
<1>1. Valued(Traded(old, bar, w))
  <2>1. Movers(old, bar, w) \in SUBSET Movers(old, bar, w)
    OBVIOUS
  <2> QED
    BY <2>1, BookOfIs DEF Traded
<1>2. PICK b \in Book : b = Traded(old, bar, w) /\ Valued(b)
  BY <1>1 DEF Valued
<1>3. b.cash + IncomeOf(b, bar) \in Int
  BY IncomeIs DEF Book
<1>4. Closed(b, bar) = [cash |-> b.cash + IncomeOf(b, bar), pos |-> b.pos, mark |-> b.mark]
  BY DEF Closed, Book
<1>5. Valued(Closed(b, bar)) /\ Closed(b, bar).pos = b.pos
  BY <1>2, <1>3, <1>4 DEF Valued, Book
<1> QED
  BY <1>2, <1>5 DEF Evening

LEMMA RecordWorks ==
  ASSUME BookInv, NEW e \in heap, OnRecord(e)
  PROVE  \E bar \in Bars, weights \in WeightRows :
           /\ sealed' = Evening(sealed, bar, Target(history)) /\ book' = sealed'
           /\ rows' = Append(rows, RowOf(sealed, bar, Target(history), weights))
           /\ history' = Append(history, weights) /\ current' = Hold
<1> DEFINE w == Target(history)
<1>1. Pops(e, "record") /\ e.kind = "record" /\ Shape(heap) /\ counter \in Nat
  BY DEF BookInv, IInv, OnRecord, Pops
<1>2. PICK bar \in Bars, weights \in WeightRows : Worked(heap, book, day, current, sealed, w, bar, weights)
  BY <1>1, InTheDay
<1> HIDE DEF w
<1>3. \A f \in heap : f.kind \in {"record", "market"}
  <2>1. ~HasRecord(heap \ {e}) /\ Led(heap \ {e})
    BY <1>1, RecordLast
  <2> QED
    BY <1>1, <2>1 DEF Led, HasRecord
<1>4. Open(heap) = {}
  BY <1>3 DEF Open, Pending
<1>5. current = weights
  BY <1>2, <1>3 DEF Worked, Signalled
<1>6. /\ book = Traded(sealed, bar, w)
      /\ day = DayOf(sealed, bar, weights, w, Movers(sealed, bar, w))
  <2>1. Movers(sealed, bar, w) \ Open(heap) = Movers(sealed, bar, w)
    BY <1>4
  <2> QED
    BY <1>2, <2>1 DEF Worked, Traded
<1>7. day.bar = bar
  BY <1>6 DEF DayOf
<1> DEFINE income == SumFunction([c \in Ids |-> book.pos[c] * book.mark[c] * day.bar.carry[c]])
           closed == [book EXCEPT !.cash = book.cash + income]
<1>8. income = IncomeOf(Traded(sealed, bar, w), bar) /\ closed = Evening(sealed, bar, w)
  BY <1>6, <1>7 DEF IncomeOf, Evening, Closed
<1>9. /\ book' = closed /\ sealed' = closed
      /\ rows' = Append(rows, [equity |-> Equity(closed), pre |-> day.equity, book |-> closed,
                               comm |-> day.comm, slip |-> day.slip, fin |-> day.fin,
                               carry |-> income, traded |-> day.traded, bar |-> day.bar,
                               weights |-> day.weights])
      /\ history' = Append(history, current) /\ current' = Hold
  BY DEF OnRecord
<1> HIDE DEF income, closed
<1>10. [equity |-> Equity(closed), pre |-> day.equity, book |-> closed,
        comm |-> day.comm, slip |-> day.slip, fin |-> day.fin,
        carry |-> income, traded |-> day.traded, bar |-> day.bar,
        weights |-> day.weights] = RowOf(sealed, bar, w, weights)
  <2>1. /\ day.equity = Equity(Morning(sealed, bar)) /\ day.fin = Financing(Morning(sealed, bar))
        /\ day.comm = Commissions(sealed, bar, w, Movers(sealed, bar, w))
        /\ day.slip = Slippages(sealed, bar, w, Movers(sealed, bar, w))
        /\ day.traded = Turnover(sealed, bar, w) /\ day.bar = bar /\ day.weights = weights
    BY <1>6 DEF DayOf
  <2> QED
    BY <1>8, <2>1 DEF RowOf
<1> QED
  BY <1>5, <1>8, <1>9, <1>10 DEF w

LEMMA Appended ==
  ASSUME NEW s, Proper(s), NEW x
  PROVE  /\ Len(s) \in Nat /\ DOMAIN s = 1..Len(s) /\ DOMAIN Append(s, x) = 1..(Len(s) + 1)
         /\ Append(s, x)[Len(s) + 1] = x /\ \A i \in 1..Len(s) : Append(s, x)[i] = s[i]
<1> DEFINE S == {s[i] : i \in DOMAIN s}
<1>1. s \in Seq(S \cup {x})
  <2>1. s \in Seq(S)
    BY DEF Proper
  <2> HIDE DEF S
  <2> QED
    BY <2>1
<1> HIDE DEF S
<1> QED
  BY <1>1

LEMMA RecordBookInv ==
  ASSUME 0 \notin Gaps, BookInv, NEW e \in heap, OnRecord(e)
  PROVE  BookInv'
<1>1. PICK bar \in Bars, weights \in WeightRows :
           /\ sealed' = Evening(sealed, bar, Target(history)) /\ book' = sealed'
           /\ rows' = Append(rows, RowOf(sealed, bar, Target(history), weights))
           /\ history' = Append(history, weights) /\ current' = Hold
  BY RecordWorks
<1>2. IInv'
  <2>1. Next
    BY DEF Next
  <2> QED
    BY <2>1, StepIInv DEF BookInv
<1>3. heap' = heap \ {e} /\ ~HasRecord(heap')
  <2>1. Pops(e, "record") /\ Shape(heap) /\ counter \in Nat
    BY DEF BookInv, IInv, OnRecord
  <2>2. heap' = heap \ {e}
    BY <2>1, ReplaceIs, EmptyPush DEF OnRecord
  <2> QED
    BY <2>1, <2>2, RecordLast
<1>4. Offered(heap')
  BY <1>3 DEF BookInv, Offered
<1>5. Past(history')
  <2>1. Weighted(weights)
    BY RulesAssumption DEF Weighted
  <2>2. Proper(history) /\ Past(history)
    BY DEF BookInv, IInv
  <2>3. \A i \in 1..Len(history) : Weighted(history[i])
    BY <2>2, Appended DEF Past
  <2>4. \A i \in 1..(Len(history) + 1) : i = Len(history) + 1 \/ i \in 1..Len(history)
    BY <2>2, Appended
  <2> QED
    BY <1>1, <2>1, <2>2, <2>3, <2>4, Appended DEF Past
<1>6. Valued(sealed')
  BY <1>1, TargetIs, EveningIs DEF BookInv
<1>7. sealed' = Previous(Len(rows) + 1)'
  <2>1. Proper(rows)
    BY DEF BookInv, IInv
  <2>2. PICK n \in Nat : n = Len(rows)
    BY <2>1, Appended
  <2>3. Len(rows') = n + 1 /\ rows'[n + 1] = RowOf(sealed, bar, Target(history), weights)
    BY <1>1, <2>1, <2>2, Appended, Grows
  <2>4. (n + 1) + 1 # 1 /\ ((n + 1) + 1) - 1 = n + 1
    OBVIOUS
  <2>5. Previous(Len(rows) + 1)' = rows'[n + 1].book
    BY <2>3, <2>4 DEF Previous
  <2> QED
    BY <1>1, <2>3, <2>5 DEF RowOf
<1> QED
  BY <1>1, <1>2, <1>3, <1>4, <1>5, <1>6, <1>7 DEF BookInv

LEMMA StepBookInv ==
  ASSUME 0 \notin Gaps, BookInv, [Next]_vars
  PROVE  BookInv'
<1>1. CASE UNCHANGED vars
  <2>1. IInv'
    BY <1>1, StepIInv DEF BookInv
  <2>2. /\ heap' = heap /\ book' = book /\ day' = day /\ current' = current /\ sealed' = sealed
        /\ history' = history /\ rows' = rows
    BY <1>1 DEF vars
  <2>3. Previous(Len(rows) + 1)' = Previous(Len(rows) + 1)
    BY <2>2 DEF Previous
  <2> QED
    BY <2>1, <2>2, <2>3 DEF BookInv
<1>2. ASSUME NEW e \in heap, OnMarket(e) PROVE BookInv'
  BY <1>2, MarketBookInv
<1>3. ASSUME NEW e \in heap, OnOrder(e) PROVE BookInv'
  BY <1>3, OrderBookInv
<1>4. ASSUME NEW e \in heap, OnFill(e) PROVE BookInv'
  BY <1>4, FillBookInv
<1>5. ASSUME NEW e \in heap, OnSignal(e) PROVE BookInv'
  BY <1>5, SignalBookInv
<1>6. ASSUME NEW e \in heap, OnRecord(e) PROVE BookInv'
  BY <1>6, RecordBookInv
<1> QED
  BY <1>1, <1>2, <1>3, <1>4, <1>5, <1>6 DEF Next

(* The rows grow by a day's row, which begins from the last one's book, or *)
(* they stay.                                                              *)
LEMMA RowsGrow ==
  ASSUME BookInv, [Next]_vars
  PROVE  \/ UNCHANGED <<sealed, history, rows>>
         \/ \E bar \in Bars, weights \in WeightRows :
              /\ sealed' = Evening(sealed, bar, Target(history))
              /\ rows' = Append(rows, RowOf(sealed, bar, Target(history), weights))
              /\ history' = Append(history, weights)
<1>1. CASE UNCHANGED vars
  BY <1>1 DEF vars
<1>2. ASSUME NEW e \in heap, OnMarket(e) \/ OnOrder(e) \/ OnFill(e) \/ OnSignal(e)
      PROVE  UNCHANGED <<sealed, history, rows>>
  BY <1>2 DEF OnMarket, OnOrder, OnFill, OnSignal
<1>3. ASSUME NEW e \in heap, OnRecord(e)
      PROVE  \E bar \in Bars, weights \in WeightRows :
               /\ sealed' = Evening(sealed, bar, Target(history))
               /\ rows' = Append(rows, RowOf(sealed, bar, Target(history), weights))
               /\ history' = Append(history, weights)
  BY <1>3, RecordWorks
<1> QED
  BY <1>1, <1>2, <1>3 DEF Next

RowExplained(row, old) ==
  row.equity = Equity(old)
                 + SumFunction([c \in Ids |-> Overnight(old, row.book, c) + Intraday(old, row.book, row.bar, c)])
                 - row.slip - row.comm - row.fin + row.carry

LEMMA ExplainedRows == PnlExplained <=> \A i \in DOMAIN rows : RowExplained(rows[i], Previous(i))
BY DEF PnlExplained, RowExplained, Overnight, Intraday

LEMMA DayRowExplained ==
  ASSUME NEW old, Valued(old), NEW bar \in Bars, NEW w, Weighted(w), NEW weights
  PROVE  RowExplained(RowOf(old, bar, w, weights), old)
<1>1. PICK b \in Book : b = Traded(old, bar, w)
  <2>1. Movers(old, bar, w) \in SUBSET Movers(old, bar, w)
    OBVIOUS
  <2> QED
    BY <2>1, BookOfIs DEF Traded, Valued
<1>2. PICK income \in Int : income = IncomeOf(b, bar)
  BY IncomeIs
<1>3. PICK movers : movers = Movers(old, bar, w)
  OBVIOUS
<1>4. PICK new : new = [b EXCEPT !.cash = b.cash + income]
  OBVIOUS
<1>5. b = BookOf(old, bar, w, movers) /\ new = Evening(old, bar, w)
  BY <1>1, <1>2, <1>3, <1>4 DEF Traded, Evening, Closed
<1>6. Equity(new) =
        Equity(old) + SumFunction([c \in Ids |-> Overnight(old, new, c) + Intraday(old, new, bar, c)])
          - Slippages(old, bar, w, movers) - Commissions(old, bar, w, movers)
          - Financing(Morning(old, bar)) + income
  BY <1>3, <1>4, <1>5, DayExplained
<1>7. LET row == RowOf(old, bar, w, weights)
      IN  /\ row.equity = Equity(new) /\ row.book = new /\ row.bar = bar
          /\ row.slip = Slippages(old, bar, w, movers) /\ row.comm = Commissions(old, bar, w, movers)
          /\ row.fin = Financing(Morning(old, bar)) /\ row.carry = income
  BY <1>1, <1>2, <1>3, <1>5 DEF RowOf
<1> QED
  BY <1>6, <1>7 DEF RowExplained

LEMMA StepPnl ==
  ASSUME BookInv, PnlExplained, [Next]_vars
  PROVE  PnlExplained'
<1>1. CASE UNCHANGED <<sealed, history, rows>>
  BY <1>1 DEF PnlExplained, Previous
<1>2. CASE ~UNCHANGED <<sealed, history, rows>>
  <2>1. PICK bar \in Bars, weights \in WeightRows :
          rows' = Append(rows, RowOf(sealed, bar, Target(history), weights))
    BY <1>2, RowsGrow
  <2>2. PICK row : row = RowOf(sealed, bar, Target(history), weights)
    OBVIOUS
  <2>3. RowExplained(row, sealed)
    BY <2>2, TargetIs, DayRowExplained DEF BookInv
  <2>4. PICK n \in Nat : n = Len(rows)
    BY Appended DEF BookInv, IInv
  <2>5. /\ DOMAIN rows = 1..n /\ DOMAIN rows' = 1..(n + 1)
        /\ rows'[n + 1] = row /\ \A i \in 1..n : rows'[i] = rows[i]
    BY <2>1, <2>2, <2>4, Appended DEF BookInv, IInv
  <2>6. \A i \in 1..(n + 1) : Previous(i)' = Previous(i)
    <3> TAKE i \in 1..(n + 1)
    <3>1. CASE i = 1
      BY <3>1 DEF Previous
    <3>2. CASE i # 1
      <4>1. i - 1 \in 1..n
        BY <3>2
      <4> QED
        BY <2>5, <3>2, <4>1 DEF Previous
    <3> QED
      BY <3>1, <3>2
  <2>7. \A i \in 1..n : RowExplained(rows[i], Previous(i))
    BY <2>5, ExplainedRows
  <2>8. Previous(n + 1) = sealed
    BY <2>4 DEF BookInv
  <2>9. ASSUME NEW i \in 1..(n + 1) PROVE RowExplained(rows'[i], Previous(i))
    <3>1. CASE i = n + 1
      BY <2>3, <2>5, <2>8, <3>1
    <3>2. CASE i # n + 1
      BY <2>5, <2>7, <3>2
    <3> QED
      BY <3>1, <3>2
  <2>10. \A i \in DOMAIN rows' : RowExplained(rows'[i], Previous(i)')
    BY <2>5, <2>6, <2>9
  <2> QED
    BY <2>10 DEF PnlExplained, RowExplained, Overnight, Intraday
<1> QED
  BY <1>1, <1>2

(* A column that may not be shorted is short after a day only if the day's *)
(* equity was negative or it was short before.                             *)
LEMMA ShortAgain ==
  ASSUME NEW old, Valued(old), NEW bar \in Bars, NEW w, Weighted(w), NEW weights,
         NEW c \in Ids, ~Terms[c].shortable, RowOf(old, bar, w, weights).book.pos[c] < 0
  PROVE  RowOf(old, bar, w, weights).pre < 0 \/ old.pos[c] < 0
<1>1. RowOf(old, bar, w, weights).book.pos[c] = Traded(old, bar, w).pos[c]
  BY EveningIs DEF RowOf
<1>2. CASE c \in Movers(old, bar, w)
  <2>1. Traded(old, bar, w).pos[c] = old.pos[c] + Move(old, bar, w, c)
    BY <1>2 DEF Traded, BookOf
  <2>2. PICK units : units = TargetUnits(c, WeightOf(w, c), Equity(Morning(old, bar)), bar.close[c])
    OBVIOUS
  <2>3. PICK pre \in Int : pre = Equity(Morning(old, bar))
    BY MorningIs DEF Valued
  <2>4. PICK weight \in Int : weight = WeightOf(w, c) /\ weight >= 0
    BY WeightIs
  <2>5. bar.close[c] \in Nat \ {0}
    BY <1>2, BarIs DEF Movers
  <2>6. units \in Int /\ (pre >= 0 => units >= 0)
    BY <2>2, <2>3, <2>4, <2>5, UnitsAre
  <2>7. old.pos[c] \in Int
    BY DEF Valued, Book
  <2>8. Traded(old, bar, w).pos[c] = units
    BY <2>1, <2>2, <2>6, <2>7 DEF Move
  <2>9. RowOf(old, bar, w, weights).pre = pre
    BY <2>3 DEF RowOf
  <2> QED
    BY <1>1, <2>3, <2>6, <2>8, <2>9
<1>3. CASE c \notin Movers(old, bar, w)
  BY <1>1, <1>3 DEF Traded, BookOf
<1> QED
  BY <1>2, <1>3

LEMMA StepShort ==
  ASSUME BookInv, NoForbiddenShort, [Next]_vars
  PROVE  NoForbiddenShort'
<1>1. CASE UNCHANGED <<sealed, history, rows>>
  BY <1>1 DEF NoForbiddenShort
<1>2. CASE ~UNCHANGED <<sealed, history, rows>>
  <2>1. PICK bar \in Bars, weights \in WeightRows :
          rows' = Append(rows, RowOf(sealed, bar, Target(history), weights))
    BY <1>2, RowsGrow
  <2>2. PICK row : row = RowOf(sealed, bar, Target(history), weights)
    OBVIOUS
  <2>3. PICK n \in Nat : n = Len(rows)
    BY Appended DEF BookInv, IInv
  <2>4. /\ DOMAIN rows = 1..n /\ DOMAIN rows' = 1..(n + 1)
        /\ rows'[n + 1] = row /\ \A i \in 1..n : rows'[i] = rows[i]
    BY <2>1, <2>2, <2>3, Appended DEF BookInv, IInv
  <2>5. ASSUME NEW i \in 1..(n + 1), NEW c \in Ids, rows'[i].book.pos[c] < 0, ~Terms[c].shortable
        PROVE  \E j \in 1..i : rows'[j].pre < 0
    <3>1. CASE i # n + 1
      <4>1. \E j \in 1..i : rows[j].pre < 0
        BY <2>4, <2>5, <3>1 DEF NoForbiddenShort
      <4> QED
        BY <2>4, <3>1, <4>1
    <3>2. CASE i = n + 1
      <4>1. row.pre < 0 \/ sealed.pos[c] < 0
        BY <2>2, <2>4, <2>5, <3>2, TargetIs, ShortAgain DEF BookInv
      <4>2. CASE row.pre < 0
        BY <2>4, <3>2, <4>2
      <4>3. CASE sealed.pos[c] < 0
        <5>1. n # 0 /\ sealed = rows[n].book
          <6>1. sealed = Previous(n + 1)
            BY <2>3 DEF BookInv
          <6>2. EmptyBook.pos[c] = 0
            BY DEF EmptyBook
          <6> QED
            BY <4>3, <6>1, <6>2 DEF Previous
        <5>2. n \in DOMAIN rows
          BY <2>4, <5>1
        <5>3. \E j \in 1..n : rows[j].pre < 0
          BY <2>5, <4>3, <5>1, <5>2 DEF NoForbiddenShort
        <5> QED
          BY <2>4, <3>2, <5>3
      <4> QED
        BY <4>1, <4>2, <4>3
    <3> QED
      BY <3>1, <3>2
  <2> QED
    BY <2>4, <2>5 DEF NoForbiddenShort
<1> QED
  BY <1>1, <1>2

-----------------------------------------------------------------------------
(* Every row's change of equity is accounted for, to the last tick, over   *)
(* any panel without tied timestamps: what is held overnight and traded    *)
(* intraday, every fee charged once.                                       *)
THEOREM PnlIsExplained ==
  ASSUME 0 \notin Gaps PROVE Spec => []PnlExplained
<1>1. Init => PnlExplained
  BY DEF Init, PnlExplained
<1> QED
  BY <1>1, InitBookInv, StepBookInv, StepPnl, PTL DEF Spec

(* Instruments that cannot be shorted never are, while equity is positive. *)
THEOREM ShortsAreAllowed ==
  ASSUME 0 \notin Gaps PROVE Spec => []NoForbiddenShort
<1>1. Init => NoForbiddenShort
  BY DEF Init, NoForbiddenShort
<1> QED
  BY <1>1, InitBookInv, StepBookInv, StepShort, PTL DEF Spec

-----------------------------------------------------------------------------
(* The instance of BacktestEngine holds copies of the rules, which come to *)
(* the same.                                                               *)
LEMMA EngineSums ==
  ASSUME NEW f PROVE Engine!SumFunction(f) = SumFunction(f)
<1>1. SumFunction(f) = Iteration(f, DOMAIN f)[DOMAIN f]
  BY SumUnfolds DEF SumFunction
<1>2. Engine!SumFunction(f) = Iteration(f, DOMAIN f)[DOMAIN f]
  BY DEF Engine!SumFunction, Engine!SumFunctionOnSet, Engine!FoldFunctionOnSet,
         Engine!MapThenFoldSet, Adds, Pick, Iteration
<1> QED
  BY <1>1, <1>2

LEMMA EnginePrices ==
  /\ Engine!Ids = Ids /\ Engine!Hold = Hold
  /\ \A n : Engine!Positive(n) = Positive(n)
  /\ \A n : Engine!Abs(n) = Abs(n)
  /\ \A c, px : Engine!Money(c, px) = Money(c, px)
  /\ \A bar, c : Engine!RefPrice(bar, c) = RefPrice(bar, c)
  /\ \A c, ref, delta : Engine!FillPrice(c, ref, delta) = FillPrice(c, ref, delta)
  /\ \A target, c : Engine!WeightOf(target, c) = WeightOf(target, c)
<1>1. Engine!Ids = Ids /\ Engine!Hold = Hold
  BY DEF Engine!Ids, Ids, Engine!Range, Range, Engine!Hold, Hold
<1>2. \A n : Engine!Positive(n) = Positive(n)
  BY DEF Engine!Positive, Positive
<1>3. \A n : Engine!Abs(n) = Abs(n)
  BY DEF Engine!Abs, Abs
<1>4. \A c, px : Engine!Money(c, px) = Money(c, px)
  BY DEF Engine!Money, Money
<1>5. \A bar, c : Engine!RefPrice(bar, c) = RefPrice(bar, c)
  BY DEF Engine!RefPrice, RefPrice
<1>6. \A c, ref, delta : Engine!FillPrice(c, ref, delta) = FillPrice(c, ref, delta)
  BY DEF Engine!FillPrice, FillPrice
<1>7. \A target, c : Engine!WeightOf(target, c) = WeightOf(target, c)
  BY DEF Engine!WeightOf, WeightOf
<1> QED
  BY <1>1, <1>2, <1>3, <1>4, <1>5, <1>6, <1>7

LEMMA EngineCosts ==
  /\ \A c, delta : Engine!Commission(c, delta) = Commission(c, delta)
  /\ \A c, ref, delta : Engine!Slippage(c, ref, delta) = Slippage(c, ref, delta)
  /\ \A c, delta, px, equity : Engine!Outside(c, delta, px, equity) = Outside(c, delta, px, equity)
  /\ \A c, weight, equity, px :
       Engine!TargetUnits(c, weight, equity, px) = TargetUnits(c, weight, equity, px)
<1>1. \A c, delta : Engine!Commission(c, delta) = Commission(c, delta)
  BY Zenon DEF Engine!Commission, Commission, Engine!Abs, Abs, Engine!Max, Max
<1>2. \A c, ref, delta : Engine!Slippage(c, ref, delta) = Slippage(c, ref, delta)
  BY Zenon DEF Engine!Slippage, Slippage, Engine!Abs, Abs
<1>3. \A c, delta, px, equity : Engine!Outside(c, delta, px, equity) = Outside(c, delta, px, equity)
  BY Zenon DEF Engine!Outside, Outside, Engine!Abs, Abs, Engine!Money, Money
<1>4. \A n, d, lot : Engine!RoundToLot(n, d, lot) = RoundToLot(n, d, lot)
  BY Zenon DEF Engine!RoundToLot, RoundToLot, Engine!RoundHalfEven, RoundHalfEven
<1>5. \A c, weight, equity, px :
       Engine!TargetUnits(c, weight, equity, px) = TargetUnits(c, weight, equity, px)
  BY <1>4, EnginePrices, Zenon DEF Engine!TargetUnits, TargetUnits
<1> QED
  BY <1>1, <1>2, <1>3, <1>5

LEMMA EngineBooks ==
  /\ \A b : Engine!Equity(b) = Equity(b)
  /\ \A b : Engine!Financing(b) = Financing(b)
  /\ Engine!EmptyBook = EmptyBook
<1>1. \A b, c : Engine!Notional(b, c) = Notional(b, c)
  BY EnginePrices DEF Engine!Notional, Notional
<1>2. \A b : Engine!Holdings(b) = Holdings(b)
  BY <1>1, EnginePrices, EngineSums DEF Engine!Holdings, Holdings
<1>3. \A b : Engine!Equity(b) = Equity(b)
  BY <1>2 DEF Engine!Equity, Equity
<1>4. \A b : Engine!Financing(b) = Financing(b)
  BY <1>1, <1>3, EnginePrices, EngineSums DEF Engine!Financing, Financing
<1>5. Engine!EmptyBook = EmptyBook
  BY EnginePrices DEF Engine!EmptyBook, EmptyBook
<1> QED
  BY <1>3, <1>4, <1>5

-----------------------------------------------------------------------------
(* The day of the vectorized engine is the one the event loop works off.   *)
LEMMA EngineTarget ==
  ASSUME SignalLag >= 1, Proper(history), NEW weights, Weighted(weights), DOMAIN weights \subseteq Ids
  PROVE  /\ Engine!Known(weights) = weights
         /\ Engine!Shifted(Append(history, weights)) = Target(history)
<1>1. Engine!Known(weights) = weights
  <2>1. Ids \cap DOMAIN weights = DOMAIN weights
    OBVIOUS
  <2>2. weights = [c \in DOMAIN weights |-> weights[c]]
    BY DEF Weighted
  <2> QED
    BY <2>1, <2>2, EnginePrices DEF Engine!Known, Engine!Restrict
<1>2. Engine!Shifted(Append(history, weights)) = Target(history)
  <2>1. PICK n \in Nat : n = Len(history)
    BY Appended
  <2>2. /\ Len(Append(history, weights)) = n + 1 /\ DOMAIN history = 1..n
        /\ \A i \in 1..n : Append(history, weights)[i] = history[i]
    BY <2>1, Appended, Grows
  <2>3. SignalLag \in Nat
    BY RulesAssumption
  <2>4. CASE n + 1 > SignalLag
    <3>1. (n + 1) - SignalLag \in 1..n /\ n - SignalLag + 1 = (n + 1) - SignalLag
      BY <2>3, <2>4
    <3> QED
      BY <2>1, <2>2, <2>4, <3>1, EnginePrices DEF Engine!Shifted, Target
  <2>5. CASE ~(n + 1 > SignalLag)
    <3>1. n - SignalLag + 1 \notin 1..n
      BY <2>3, <2>5
    <3> QED
      BY <2>1, <2>2, <2>5, <3>1, EnginePrices DEF Engine!Shifted, Target
  <2> QED
    BY <2>4, <2>5
<1> QED
  BY <1>1, <1>2

LEMMA EngineMorning ==
  ASSUME NEW bar PROVE Engine!Settled(bar) = Morning(sealed, bar)
BY EnginePrices, EngineSums DEF Engine!Settled, Morning

LEMMA EngineTrades ==
  ASSUME NEW bar, NEW w, NEW m, m = Morning(sealed, bar), m \in Book,
         NEW financed, financed = [m EXCEPT !.cash = m.cash - Financing(m)],
         NEW movers, movers = Movers(sealed, bar, w)
  PROVE  Engine!Rebalanced(financed, bar, w, Equity(m)) =
           [book |-> Traded(sealed, bar, w),
            comm |-> Commissions(sealed, bar, w, movers), slip |-> Slippages(sealed, bar, w, movers),
            traded |-> Turnover(sealed, bar, w)]
<1>1. \A c : Engine!Change(c, bar, w, Equity(m)) = Move(sealed, bar, w, c)
  BY EnginePrices, EngineCosts DEF Engine!Change, Move
<1>2. Engine!Moved(bar, w, Equity(m)) = movers
  BY <1>1, EnginePrices, EngineCosts DEF Engine!Moved, Movers
<1>3. \A c : Engine!Debit(c, bar, Move(sealed, bar, w, c)) = Cost(c, bar, Move(sealed, bar, w, c))
  BY EnginePrices, EngineCosts DEF Engine!Debit, Cost
<1>4. /\ SumFunction([c \in movers |-> Engine!Debit(c, bar, Engine!Change(c, bar, w, Equity(m)))])
           = Costs(sealed, bar, w, movers)
      /\ SumFunction([c \in movers |-> Commission(c, Engine!Change(c, bar, w, Equity(m)))])
           = Commissions(sealed, bar, w, movers)
      /\ SumFunction([c \in movers |-> Slippage(c, RefPrice(bar, c), Engine!Change(c, bar, w, Equity(m)))])
           = Slippages(sealed, bar, w, movers)
      /\ SumFunction([c \in movers |-> Abs(Engine!Change(c, bar, w, Equity(m))) * Money(c, RefPrice(bar, c))])
           = Turnover(sealed, bar, w)
  BY <1>1, <1>3 DEF Costs, Commissions, Slippages, Turnover
<1>5. [financed EXCEPT
         !.pos  = [c \in Ids |-> IF c \in movers
                                   THEN sealed.pos[c] + Engine!Change(c, bar, w, Equity(m))
                                   ELSE sealed.pos[c]],
         !.cash = financed.cash - Costs(sealed, bar, w, movers)]
        = Traded(sealed, bar, w)
  <2>1. PICK y, q, k : y = m.cash - Financing(m) /\ q = m.pos /\ k = m.mark
    OBVIOUS
  <2>2. financed = [cash |-> y, pos |-> q, mark |-> k]
    BY <2>1 DEF Book
  <2>3. PICK x : x = y - Costs(sealed, bar, w, movers)
    OBVIOUS
  <2>4. PICK p : p = [c \in Ids |-> IF c \in movers THEN sealed.pos[c] + Move(sealed, bar, w, c)
                                                   ELSE sealed.pos[c]]
    OBVIOUS
  <2>5. [c \in Ids |-> IF c \in movers THEN sealed.pos[c] + Engine!Change(c, bar, w, Equity(m))
                                      ELSE sealed.pos[c]] = p
    BY <1>1, <2>4
  <2>6. financed.cash - Costs(sealed, bar, w, movers) = x
    BY <2>2, <2>3
  <2>7. Traded(sealed, bar, w) = [cash |-> x, pos |-> p, mark |-> k]
    BY <2>1, <2>3, <2>4 DEF Traded, BookOf
  <2>8. [financed EXCEPT !.pos = p, !.cash = x] = [cash |-> x, pos |-> p, mark |-> k]
    <3>1. [financed EXCEPT !.pos = p] = [cash |-> y, pos |-> p, mark |-> k]
      <4>1. \A r : r = [cash |-> y, pos |-> q, mark |-> k]
                  => [r EXCEPT !.pos = p] = [cash |-> y, pos |-> p, mark |-> k]
        OBVIOUS
      <4> QED
        BY <2>2, <4>1, Zenon
    <3>2. \A r : r = [cash |-> y, pos |-> p, mark |-> k]
                => [r EXCEPT !.cash = x] = [cash |-> x, pos |-> p, mark |-> k]
      OBVIOUS
    <3>3. [financed EXCEPT !.pos = p, !.cash = x] = [[financed EXCEPT !.pos = p] EXCEPT !.cash = x]
      BY <2>2
    <3> QED
      BY <3>1, <3>2, <3>3
  <2> QED
    BY <2>5, <2>6, <2>7, <2>8, Zenon
<1> QED
  BY <1>2, <1>4, <1>5, EnginePrices, EngineCosts, EngineSums DEF Engine!Rebalanced

LEMMA EngineStep ==
  ASSUME SignalLag >= 1, \A weights \in WeightRows : DOMAIN weights \subseteq Ids,
         BookInv, [Next]_vars
  PROVE  [Engine!Next]_(Engine!vars)
<1>1. CASE UNCHANGED <<sealed, history, rows>>
  BY <1>1 DEF Engine!vars
<1>2. CASE ~UNCHANGED <<sealed, history, rows>>
  <2> DEFINE w == Target(history)
  <2>1. PICK bar \in Bars, weights \in WeightRows :
              /\ sealed' = Evening(sealed, bar, w)
              /\ rows' = Append(rows, RowOf(sealed, bar, w, weights))
              /\ history' = Append(history, weights)
    BY <1>2, RowsGrow
  <2>2. Weighted(weights) /\ DOMAIN weights \subseteq Ids /\ Proper(history) /\ sealed \in Book
    BY RulesAssumption DEF Weighted, BookInv, IInv, Valued
  <2>3. Engine!Known(weights) = weights /\ Engine!Shifted(Append(history, weights)) = w
    BY <2>2, EngineTarget
  <2> HIDE DEF w
  <2>4. PICK k \in Book : k = Morning(sealed, bar)
    BY <2>2, MorningIs
  <2>5. PICK fin : fin = Financing(k)
    OBVIOUS
  <2>6. PICK financed : financed = [k EXCEPT !.cash = k.cash - fin]
    OBVIOUS
  <2>7. PICK movers : movers = Movers(sealed, bar, w)
    OBVIOUS
  <2>8. PICK d : d = Engine!Rebalanced(financed, bar, w, Equity(k))
    OBVIOUS
  <2>9. d = [book |-> Traded(sealed, bar, w),
             comm |-> Commissions(sealed, bar, w, movers), slip |-> Slippages(sealed, bar, w, movers),
             traded |-> Turnover(sealed, bar, w)]
    BY <2>4, <2>5, <2>6, <2>7, <2>8, EngineTrades
  <2>10. Engine!Income(d.book, bar) = IncomeOf(Traded(sealed, bar, w), bar)
    BY <2>9, EnginePrices, EngineSums DEF Engine!Income, IncomeOf
  <2>11. PICK closed : closed = [d.book EXCEPT !.cash = d.book.cash + Engine!Income(d.book, bar)]
    OBVIOUS
  <2>12. closed = Evening(sealed, bar, w)
    BY <2>9, <2>10, <2>11 DEF Evening, Closed
  <2>13. RowOf(sealed, bar, w, weights) =
           [equity |-> Equity(closed), pre |-> Equity(k), book |-> closed,
            comm |-> d.comm, slip |-> d.slip, fin |-> fin,
            carry |-> Engine!Income(d.book, bar), traded |-> d.traded, bar |-> bar,
            weights |-> weights]
    BY <2>4, <2>5, <2>7, <2>9, <2>10, <2>12 DEF RowOf
  <2>14. Engine!Settled(bar) = k
    BY <2>4, EngineMorning
  <2>15. /\ Engine!Financing(k) = fin /\ Engine!Equity(k) = Equity(k)
         /\ Engine!Equity(closed) = Equity(closed)
    BY <2>5, EngineBooks
  <2>16. Engine!Day(bar, weights)
    <3> HIDE <2>9, <2>10
    <3> QED
      BY <2>1, <2>3, <2>6, <2>8, <2>11, <2>12, <2>13, <2>14, <2>15, Zenon DEF Engine!Day
  <2> QED
    BY <2>16 DEF Engine!Next
<1> QED
  BY <1>1, <1>2

(* The two engines agree, row for row, for any panel without tied          *)
(* timestamps, when signals take effect on a later day and weights name    *)
(* columns of the panel only.                                              *)
THEOREM EventLoopIsEngine ==
  ASSUME 0 \notin Gaps, SignalLag >= 1, \A weights \in WeightRows : DOMAIN weights \subseteq Ids
  PROVE  Spec => ImplementsEngine
<1>1. Init => Engine!Init
  BY EngineBooks DEF Init, Engine!Init
<1>2. BookInv /\ [Next]_vars => [Engine!Next]_(Engine!vars)
  BY EngineStep
<1> QED
  BY <1>1, <1>2, InitBookInv, StepBookInv, PTL DEF Spec, ImplementsEngine, Engine!Spec
=============================================================================
