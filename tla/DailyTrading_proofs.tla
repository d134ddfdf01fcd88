------------------------- MODULE DailyTrading_proofs -------------------------
(***************************************************************************)
(* The daily loop and the tax lots of its book.  The loop aims within its  *)
(* limits, ends a complete cycle on target and then has nothing left to    *)
(* order.  The lots balance the books, sales take the best of them, washed *)
(* losses offset nothing and a harvest realizes what it announces.         *)
(***************************************************************************)
EXTENDS PaperLoop, TaxLots, Sums

Proper(b) == b = NoBar \/ b.px \in Prices

OrderSet == [n : Nat, ins : Ids, qty : Int]

Record(p) ==
  p = [n |-> p.n, target |-> p.target, prices |-> p.prices, equity |-> p.equity, pos |-> p.pos,
       orders |-> p.orders, panel |-> p.panel, gaps |-> p.gaps, overlapped |-> p.overlapped,
       done |-> p.done]

Types ==
  /\ market \in [Ids -> Prices]
  /\ DOMAIN provider = Ids /\ \A c \in Ids : Proper(provider[c])
  /\ DOMAIN lake = Ids /\ \A c \in Ids : Proper(lake[c])
  /\ cash \in Int /\ pos \in [Ids -> Int]
  /\ pending \subseteq OrderSet /\ queue \subseteq OrderSet
  /\ cycles \in Nat

(* What was planned, for plan p.                                           *)
Move(p, c) ==
  LET unit == WeightBase * p.prices[c] * Mult[c]
  IN  RoundToLot(p.target[c] * p.equity - p.pos[c] * unit, unit, LotSize[c])

Worth(p, c) == Move(p, c) # 0 /\ Abs(Move(p, c)) * p.prices[c] * Mult[c] >= MinTrade

Planned(p) ==
  /\ p.equity \in Int /\ p.n \in Nat
  /\ DOMAIN p.prices \subseteq Ids
  /\ \A c \in DOMAIN p.prices :
       /\ p.target[c] \in Int /\ Abs(p.target[c]) <= MaxPosition
       /\ p.prices[c] \in Prices /\ p.panel[c].px = p.prices[c] /\ p.pos[c] \in Int
  /\ p.orders = {[n |-> p.n, ins |-> c, qty |-> Move(p, c)] : c \in {i \in DOMAIN p.prices : Worth(p, i)}}

-----------------------------------------------------------------------------
LEMMA IdsFinite == IsFiniteSet(Ids)
  <1>1. Columns \in Seq(STRING)
    BY LoopAssumption DEF LoopAssumption
  <1>2. Len(Columns) \in Nat /\ DOMAIN Columns = 1..Len(Columns)
    BY <1>1
  <1>3. IsFiniteSet(1..Len(Columns))
    BY <1>2, FS_Interval
  <1>4. [i \in 1..Len(Columns) |-> Columns[i]] \in Surjection(1..Len(Columns), Ids)
    BY <1>2 DEF Ids, Range, Surjection
  <1>5. QED BY <1>3, <1>4, FS_Surjection

LEMMA EquityIsInt == ASSUME Types PROVE Equity \in Int
  <1> DEFINE worth == [c \in Ids |-> pos[c] * market[c] * Mult[c]]
  <1>1. \A c \in Ids : worth[c] \in Int
    <2> SUFFICES ASSUME NEW c \in Ids PROVE worth[c] \in Int
      OBVIOUS
    <2>1. pos[c] \in Int /\ market[c] \in Prices
      BY DEF Types
    <2>2. market[c] \in Nat \ {0} /\ Mult[c] \in Nat \ {0}
      BY <2>1, LoopAssumption DEF LoopAssumption
    <2>3. QED BY <2>1, <2>2
  <1>2. DOMAIN worth = Ids
    OBVIOUS
  <1> HIDE DEF worth
  <1>3. SumFunction(worth) \in Int
    BY <1>1, <1>2, IdsFinite, SumInt DEF SumFunction
  <1>4. QED BY <1>3 DEF Types, Equity, worth

(* One unit of a planned move.                                             *)
LEMMA UnitOf ==
  ASSUME NEW p, Planned(p), NEW c \in DOMAIN p.prices
  PROVE  /\ p.prices[c] * Mult[c] \in Nat \ {0} /\ LotSize[c] \in Nat \ {0}
         /\ WeightBase * p.prices[c] * Mult[c] \in Nat \ {0}
         /\ WeightBase * p.prices[c] * Mult[c] = WeightBase * (p.prices[c] * Mult[c])
         /\ p.target[c] * p.equity \in Int
  <1>1. p.prices[c] \in Nat \ {0} /\ Mult[c] \in Nat \ {0} /\ LotSize[c] \in Nat \ {0} /\ WeightBase \in Nat \ {0}
    BY LoopAssumption DEF LoopAssumption, Planned
  <1>2. p.target[c] * p.equity \in Int
    BY DEF Planned
  <1>3. QED BY <1>1, <1>2

(* A move ends within half a lot of the target.                            *)
LEMMA RoundToLotNear ==
  ASSUME NEW amount \in Int, NEW d \in Nat \ {0}, NEW lot \in Nat \ {0}
  PROVE  /\ RoundToLot(amount, d, lot) \in Int
         /\ Abs(2 * (amount - d * RoundToLot(amount, d, lot))) <= d * lot
         /\ Abs(2 * amount) <= d * lot => RoundToLot(amount, d, lot) = 0
  <1>1. d * lot \in Nat \ {0}
    OBVIOUS
  <1>2. PICK k \in Int : k = RoundHalfEven(amount, d * lot) /\ Abs(2 * (amount - (d * lot) * k)) <= d * lot
    BY <1>1, RoundNear
  <1>3. RoundToLot(amount, d, lot) = k * lot /\ (d * lot) * k = d * (k * lot)
    BY <1>2 DEF RoundToLot
  <1>4. Abs(2 * amount) <= d * lot => k = 0
    BY <1>1, <1>2, RoundZero
  <1>5. QED BY <1>2, <1>3, <1>4

(* A planned order keeps the position within the limit, save half a lot;   *)
(* a plan not worth ordering leaves it near the target; and one that would *)
(* be made again from where it leads is not worth ordering.                *)
Aim(p, c, x) ==
  Abs(2 * (p.target[c] * p.equity - WeightBase * x * (p.prices[c] * Mult[c])))

LEMMA Spread ==
  ASSUME NEW a \in Int, NEW v \in Int, NEW x \in Int, NEW k \in Int
  PROVE  a * (x + k) * v = (a * v) * x + (a * v) * k
  OBVIOUS

LEMMA MoveAims ==
  ASSUME NEW p, Planned(p), NEW c \in DOMAIN p.prices
  PROVE  /\ Move(p, c) \in Int
         /\ Aim(p, c, p.pos[c] + Move(p, c)) <= WeightBase * (p.prices[c] * Mult[c]) * LotSize[c]
         /\ Aim(p, c, p.pos[c]) <= WeightBase * (p.prices[c] * Mult[c]) * LotSize[c] => Move(p, c) = 0
  <1>1. PICK a \in Nat \ {0}, v \in Nat \ {0}, unit \in Nat \ {0}, lot \in Nat \ {0} :
          /\ a = WeightBase /\ v = p.prices[c] * Mult[c] /\ lot = LotSize[c]
          /\ unit = a * v /\ unit = WeightBase * p.prices[c] * Mult[c]
    BY UnitOf, LoopAssumption DEF LoopAssumption
  <1>2. PICK w \in Int, x \in Int : w = p.target[c] * p.equity /\ x = p.pos[c]
    BY UnitOf DEF Planned
  <1>3. PICK amount \in Int : amount = w - x * unit
    OBVIOUS
  <1>4. Move(p, c) = RoundToLot(amount, unit, lot)
    BY <1>1, <1>2, <1>3 DEF Move
  <1>5. PICK k \in Int : /\ k = Move(p, c) /\ Abs(2 * (amount - unit * k)) <= unit * lot
                         /\ Abs(2 * amount) <= unit * lot => k = 0
    BY <1>4, RoundToLotNear
  <1>6. a * (x + k) * v = unit * x + unit * k /\ a * x * v = unit * x
    BY <1>1, Spread
  <1>7. 2 * (w - a * (x + k) * v) = 2 * (amount - unit * k) /\ 2 * (w - a * x * v) = 2 * amount
    BY <1>3, <1>6
  <1>8. Aim(p, c, x + k) <= unit * lot /\ (Aim(p, c, x) <= unit * lot => k = 0)
    BY <1>1, <1>2, <1>5, <1>7 DEF Aim
  <1>9. QED BY <1>1, <1>2, <1>5, <1>8

-----------------------------------------------------------------------------
(* While the orders of the last plan are sent, and after they all were, it *)
(* accounts for every position since it was made, provided that no earlier *)
(* order was about.                                                        *)
Live == plan.done \/ stage = "submit"

Arrived(o) == o \notin queue \cup pending /\ o.ins \notin plan.gaps

Tracked ==
  /\ plan.done => queue = {}
  /\ stage = "submit" => queue # {}
  /\ Live /\ ~plan.overlapped =>
       /\ pending \subseteq plan.orders /\ queue \subseteq plan.orders
       /\ queue \cap pending = {}
       /\ \A o \in queue \cup pending : o.ins \notin plan.gaps
       /\ \A o \in plan.orders :
            pos[o.ins] = plan.pos[o.ins] + IF Arrived(o) THEN o.qty ELSE 0
       /\ \A c \in Ids : (\A o \in plan.orders : o.ins # c) => pos[c] = plan.pos[c]

IInv == Types /\ Record(plan) /\ Planned(plan) /\ Tracked

LEMMA OrdersOfPlan ==
  ASSUME NEW p, Planned(p)
  PROVE  /\ p.orders \subseteq OrderSet
         /\ \A o \in p.orders : /\ o.ins \in DOMAIN p.prices /\ o.n = p.n /\ o.qty = Move(p, o.ins)
                                /\ Worth(p, o.ins)
         /\ \A o, q \in p.orders : o.ins = q.ins => o = q
         /\ \A c \in DOMAIN p.prices : Worth(p, c) => \E o \in p.orders : o.ins = c
  <1>1. \A c \in DOMAIN p.prices : Move(p, c) \in Int
    BY MoveAims
  <1> HIDE DEF Move, Worth
  <1>2. /\ p.n \in Nat /\ DOMAIN p.prices \subseteq Ids
        /\ p.orders = {[n |-> p.n, ins |-> c, qty |-> Move(p, c)] : c \in {i \in DOMAIN p.prices : Worth(p, i)}}
    BY DEF Planned
  <1>3. \A o \in p.orders : /\ o.ins \in DOMAIN p.prices /\ o.n = p.n /\ o.qty = Move(p, o.ins)
                             /\ Worth(p, o.ins) /\ o \in OrderSet
                             /\ o = [n |-> p.n, ins |-> o.ins, qty |-> Move(p, o.ins)]
    BY <1>1, <1>2 DEF OrderSet
  <1>4. ASSUME NEW c \in DOMAIN p.prices, Worth(p, c) PROVE \E o \in p.orders : o.ins = c
    <2>1. [n |-> p.n, ins |-> c, qty |-> Move(p, c)] \in p.orders
      BY <1>2, <1>4
    <2>2. QED BY <2>1
  <1>5. QED BY <1>3, <1>4

LEMMA InitInv == Init => IInv
  <1> SUFFICES ASSUME Init PROVE IInv
    OBVIOUS
  <1> USE DEF Init, NoPlan
  <1>1. Types
    BY LoopAssumption DEF Types, LoopAssumption, Proper
  <1>2. Record(plan)
    BY DEF Record
  <1>3. Planned(plan)
    BY DEF Planned
  <1>4. Tracked
    BY DEF Tracked, Live
  <1>5. QED BY <1>1, <1>2, <1>3, <1>4 DEF IInv

(* The weigh step makes a plan.                                            *)
LEMMA WeighInv ==
  ASSUME IInv, NEW row \in WeightRows, Weigh(Restrict(row, DOMAIN row \cap DOMAIN Panel))
  PROVE  IInv'
  <1> DEFINE r == Restrict(row, DOMAIN row \cap DOMAIN Panel)
             target == Targets(r)
             prices == LastRow(target)
             orders == Orders(target, prices, Equity)
  <1>1. /\ Approved(r) /\ queue' = orders /\ stage' = IF orders = {} THEN "idle" ELSE "submit"
        /\ plan' = [n |-> cycles, target |-> target, prices |-> prices, equity |-> Equity,
                    pos |-> pos, orders |-> orders, panel |-> Panel, gaps |-> {},
                    overlapped |-> pending # {}, done |-> orders = {}]
        /\ UNCHANGED <<outside, lake, account, cycles, crashes>>
    BY DEF Weigh
  <1>2. DOMAIN Panel \subseteq Ids /\ \A c \in DOMAIN Panel : Panel[c] = lake[c] /\ lake[c].px \in Prices
    BY DEF Panel, Restrict, IInv, Types, Proper
  <1>3. /\ DOMAIN r \subseteq DOMAIN Panel
        /\ \A c \in DOMAIN r : r[c] \in Int /\ Abs(r[c]) <= MaxPosition
    BY <1>1, LoopAssumption DEF LoopAssumption, Approved, Restrict
  <1>4. /\ DOMAIN target \subseteq DOMAIN r
        /\ \A c \in DOMAIN target : target[c] = r[c]
    BY DEF Targets, Restrict
  <1>5. /\ DOMAIN prices \subseteq DOMAIN target
        /\ \A c \in DOMAIN prices : prices[c] = lake[c].px
    BY DEF LastRow
  <1>6. Equity \in Int
    BY EquityIsInt DEF IInv
  <1> HIDE DEF r, target, prices
  <1>7. /\ \A c : Move(plan', c) = Delta(c, target[c], prices[c], Equity)
        /\ plan'.equity = Equity /\ plan'.n = cycles /\ plan'.target = target /\ plan'.prices = prices
        /\ plan'.pos = pos /\ plan'.orders = orders /\ plan'.panel = Panel /\ plan'.gaps = {}
        /\ plan'.overlapped = (pending # {}) /\ plan'.done = (orders = {})
    BY <1>1 DEF Move, Delta
  <1>8. orders = {[n |-> plan'.n, ins |-> c, qty |-> Move(plan', c)] :
                    c \in {i \in DOMAIN plan'.prices : Worth(plan', i)}}
    BY <1>7 DEF Orders, Worth
  <1>9. Planned(plan')
    <2>1. \A c \in DOMAIN prices : /\ target[c] \in Int /\ Abs(target[c]) <= MaxPosition
                                   /\ prices[c] \in Prices /\ Panel[c].px = prices[c] /\ pos[c] \in Int
      BY <1>2, <1>3, <1>4, <1>5 DEF IInv, Types
    <2>2. cycles \in Nat /\ DOMAIN prices \subseteq Ids
      BY <1>2, <1>3, <1>4, <1>5 DEF IInv, Types
    <2> HIDE DEF orders
    <2>3. QED BY <1>6, <1>7, <1>8, <2>1, <2>2 DEF Planned
  <1>10. Record(plan')
    BY <1>1, <1>7 DEF Record
  <1>11. orders \subseteq OrderSet
    BY <1>7, <1>9, OrdersOfPlan
  <1> HIDE DEF orders
  <1>12. Types'
    BY <1>1, <1>11 DEF IInv, Types, outside, account
  <1>13. \A o \in orders : o.ins \in Ids /\ pos[o.ins] \in Int
    BY <1>11 DEF IInv, Types, OrderSet
  <1>14. \A c \in Ids : pos[c] \in Int
    BY DEF IInv, Types
  <1>15. /\ queue' = orders /\ pending' = pending /\ pos' = pos
         /\ stage' = "submit" <=> orders # {}
    BY <1>1 DEF account
  <1>16. Tracked'
    <2>1. plan'.done => queue' = {}
      BY <1>7, <1>15
    <2>2. stage' = "submit" => queue' # {}
      BY <1>15
    <2>3. ASSUME ~plan'.overlapped
          PROVE  /\ pending' = {} /\ \A o \in plan'.orders : o \in queue'
                 /\ queue' \subseteq plan'.orders
      BY <2>3, <1>7, <1>15
    <2>4. QED BY <1>7, <1>13, <1>14, <1>15, <2>1, <2>2, <2>3 DEF Tracked, Arrived
  <1>17. QED BY <1>9, <1>10, <1>12, <1>16 DEF IInv

LEMMA SubmitInv == ASSUME IInv, NEW o \in queue, Submit(o) PROVE IInv'
  <1>1. PICK refused \in BOOLEAN :
          /\ queue' = queue \ {o} /\ stage' = IF queue \ {o} = {} THEN "idle" ELSE "submit"
          /\ pending' = IF refused THEN pending ELSE pending \cup {o}
          /\ plan' = [plan EXCEPT !.gaps = IF refused THEN plan.gaps \cup {o.ins} ELSE plan.gaps,
                                  !.done = queue \ {o} = {}]
    BY DEF Submit
  <1>2. stage = "submit" /\ UNCHANGED <<outside, lake, cash, pos, cycles, crashes>>
    BY DEF Submit
  <1>3. /\ Record(plan') /\ plan'.n = plan.n /\ plan'.target = plan.target /\ plan'.prices = plan.prices
        /\ plan'.equity = plan.equity /\ plan'.pos = plan.pos /\ plan'.orders = plan.orders
        /\ plan'.panel = plan.panel /\ plan'.overlapped = plan.overlapped
        /\ plan'.done = (queue \ {o} = {})
        /\ plan'.gaps = IF refused THEN plan.gaps \cup {o.ins} ELSE plan.gaps
    BY <1>1 DEF IInv, Record
  <1>4. Planned(plan')
    BY <1>3 DEF IInv, Planned, Move, Worth
  <1>5. Types'
    BY <1>1, <1>2 DEF IInv, Types, outside
  <1>6. Tracked'
    <2>1. (plan'.done => queue' = {}) /\ (stage' = "submit" => queue' # {})
      BY <1>1, <1>3
    <2>2. SUFFICES ASSUME ~plan.overlapped
                   PROVE  /\ pending' \subseteq plan.orders /\ queue' \subseteq plan.orders
                          /\ queue' \cap pending' = {}
                          /\ \A q \in queue' \cup pending' : q.ins \notin plan'.gaps
                          /\ \A q \in plan.orders :
                               pos[q.ins] = plan.pos[q.ins] + IF Arrived(q)' THEN q.qty ELSE 0
                          /\ \A c \in Ids : (\A q \in plan.orders : q.ins # c) => pos[c] = plan.pos[c]
      BY <1>2, <1>3, <2>1 DEF Tracked
    <2>3. /\ pending \subseteq plan.orders /\ queue \subseteq plan.orders /\ queue \cap pending = {}
          /\ \A q \in queue \cup pending : q.ins \notin plan.gaps
          /\ \A q \in plan.orders : pos[q.ins] = plan.pos[q.ins] + IF Arrived(q) THEN q.qty ELSE 0
          /\ \A c \in Ids : (\A q \in plan.orders : q.ins # c) => pos[c] = plan.pos[c]
      BY <1>2, <2>2 DEF IInv, Tracked, Live
    <2>4. \A q, s \in plan.orders : q.ins = s.ins => q = s
      BY OrdersOfPlan DEF IInv
    <2>5. \A q \in plan.orders : Arrived(q)' <=> Arrived(q)
      BY <1>1, <1>3, <2>3, <2>4 DEF Arrived
    <2>6. \A q \in queue' \cup pending' : q.ins \notin plan'.gaps
      BY <1>1, <1>3, <2>3, <2>4
    <2>7. QED BY <1>1, <2>3, <2>5, <2>6
  <1>7. QED BY <1>3, <1>4, <1>5, <1>6 DEF IInv

LEMMA FillInv == ASSUME IInv, NEW o \in pending, Fill(o) PROVE IInv'
  <1>1. PICK px \in Prices : cash' = cash - o.qty * px * Mult[o.ins]
    BY DEF Fill
  <1>2. /\ pos' = [pos EXCEPT ![o.ins] = pos[o.ins] + o.qty]
        /\ pending' = pending \ {o}
        /\ UNCHANGED <<outside, lake, stage, queue, plan, cycles, crashes>>
    BY DEF Fill
  <1>3. o.ins \in Ids /\ o.qty \in Int /\ pos \in [Ids -> Int]
    BY DEF IInv, Types, OrderSet
  <1>4. cash' \in Int
    <2>1. px \in Nat \ {0} /\ Mult[o.ins] \in Nat \ {0}
      BY <1>3, LoopAssumption DEF LoopAssumption
    <2>2. QED BY <1>1, <1>3, <2>1 DEF IInv, Types
  <1>5. Types'
    BY <1>2, <1>3, <1>4 DEF IInv, Types, outside
  <1>6. Tracked'
    <2>1. SUFFICES ASSUME Live, ~plan.overlapped
                   PROVE  /\ \A q \in plan.orders :
                               pos'[q.ins] = plan.pos[q.ins] + IF Arrived(q)' THEN q.qty ELSE 0
                          /\ \A c \in Ids : (\A q \in plan.orders : q.ins # c) => pos'[c] = plan.pos[c]
      BY <1>2 DEF Tracked, Live, IInv
    <2>2. /\ pending \subseteq plan.orders /\ queue \subseteq plan.orders /\ queue \cap pending = {}
          /\ \A q \in queue \cup pending : q.ins \notin plan.gaps
          /\ \A q \in plan.orders : pos[q.ins] = plan.pos[q.ins] + IF Arrived(q) THEN q.qty ELSE 0
          /\ \A c \in Ids : (\A q \in plan.orders : q.ins # c) => pos[c] = plan.pos[c]
      BY <2>1 DEF IInv, Tracked
    <2>3. /\ \A q, s \in plan.orders : q.ins = s.ins => q = s
          /\ plan.orders \subseteq OrderSet
      BY OrdersOfPlan DEF IInv
    <2>4. o \in plan.orders /\ ~Arrived(o) /\ Arrived(o)' /\ pos[o.ins] = plan.pos[o.ins] + 0
      BY <1>2, <2>2 DEF Arrived
    <2>5. pos'[o.ins] = plan.pos[o.ins] + o.qty
      <3>1. plan.pos[o.ins] \in Int
        BY <2>4, OrdersOfPlan DEF IInv, Planned
      <3>2. pos'[o.ins] = pos[o.ins] + o.qty
        BY <1>2, <1>3
      <3>3. QED BY <1>3, <2>4, <3>1, <3>2
    <2>6. \A q \in plan.orders \ {o} : pos'[q.ins] = pos[q.ins] /\ (Arrived(q)' <=> Arrived(q))
      BY <1>2, <1>3, <2>3, <2>4 DEF Arrived, OrderSet
    <2>7. \A c \in Ids \ {o.ins} : pos'[c] = pos[c]
      BY <1>2, <1>3
    <2>8. QED BY <2>2, <2>4, <2>5, <2>6, <2>7
  <1>7. QED BY <1>2, <1>5, <1>6 DEF IInv

LEMMA ExpireInv == ASSUME IInv, NEW o \in pending, Expire(o) PROVE IInv'
  <1>1. /\ pending' = pending \ {o}
        /\ plan' = [plan EXCEPT !.gaps = IF o.n = plan.n THEN plan.gaps \cup {o.ins} ELSE plan.gaps]
        /\ UNCHANGED <<outside, lake, cash, pos, stage, queue, cycles, crashes>>
    BY DEF Expire
  <1>2. /\ Record(plan') /\ plan'.n = plan.n /\ plan'.target = plan.target /\ plan'.prices = plan.prices
        /\ plan'.equity = plan.equity /\ plan'.pos = plan.pos /\ plan'.orders = plan.orders
        /\ plan'.panel = plan.panel /\ plan'.overlapped = plan.overlapped /\ plan'.done = plan.done
        /\ plan'.gaps = IF o.n = plan.n THEN plan.gaps \cup {o.ins} ELSE plan.gaps
    BY <1>1 DEF IInv, Record
  <1>3. Planned(plan')
    BY <1>2 DEF IInv, Planned, Move, Worth
  <1>4. Types'
    BY <1>1 DEF IInv, Types, outside
  <1>5. Tracked'
    <2>1. SUFFICES ASSUME Live, ~plan.overlapped
                   PROVE  /\ \A q \in queue \cup pending' : q.ins \notin plan'.gaps
                          /\ \A q \in plan.orders : Arrived(q)' <=> Arrived(q)
      BY <1>1, <1>2 DEF Tracked, Live, IInv
    <2>2. /\ pending \subseteq plan.orders /\ queue \subseteq plan.orders /\ queue \cap pending = {}
          /\ \A q \in queue \cup pending : q.ins \notin plan.gaps
      BY <2>1 DEF IInv, Tracked
    <2>3. /\ \A q, s \in plan.orders : q.ins = s.ins => q = s
          /\ o.n = plan.n
      BY <2>2, OrdersOfPlan DEF IInv
    <2>4. QED BY <1>1, <1>2, <2>2, <2>3 DEF Arrived
  <1>6. QED BY <1>2, <1>3, <1>4, <1>5 DEF IInv

LEMMA GapFilledTypes ==
  ASSUME Types, NEW l \in GapFilled
  PROVE  DOMAIN l = Ids /\ \A c \in Ids : Proper(l[c])
  BY DEF GapFilled, Types, Proper

LEMMA QuietInv ==
  ASSUME IInv, Start \/ GapFill \/ Stop \/ Crash \/ Close \/ (\E c \in Ids : Publish(c)) \/ UNCHANGED vars
  PROVE  IInv'
  <1>1. plan' = plan /\ pos' = pos /\ pending' = pending /\ cash' = cash
    BY DEF Start, GapFill, Stop, Crash, Close, Publish, vars, account
  <1>2. /\ queue' = queue \/ queue' = {}
        /\ stage' = "submit" => stage = "submit" /\ queue' = queue
        /\ plan.done => queue' = {}
        /\ stage # "submit" => queue' = queue \/ queue' = {}
    BY DEF Start, GapFill, Stop, Crash, Close, Publish, vars, account, IInv, Tracked
  <1>3. Types'
    <2>1. CASE Start \/ Stop \/ UNCHANGED vars
      BY <2>1 DEF Start, Stop, vars, IInv, Types, outside, account
    <2>2. CASE GapFill
      BY <2>2, GapFilledTypes DEF GapFill, IInv, Types, outside, account
    <2>3. CASE Crash
      <3>1. DOMAIN lake' = Ids /\ \A c \in Ids : Proper(lake'[c])
        BY <2>3, GapFilledTypes DEF Crash, IInv, Types
      <3>2. QED BY <2>3, <3>1 DEF Crash, IInv, Types, outside, account
    <2>4. CASE Close
      BY <2>4 DEF Close, IInv, Types, outside, account
    <2>5. CASE \E c \in Ids : Publish(c)
      BY <2>5 DEF Publish, Proper, IInv, Types, outside, account
    <2>6. QED BY <2>1, <2>2, <2>3, <2>4, <2>5
  <1>4. Tracked'
    <2>1. CASE plan.done
      BY <2>1, <1>1, <1>2 DEF IInv, Tracked, Live, Arrived
    <2>2. CASE ~plan.done
      BY <2>2, <1>1, <1>2 DEF IInv, Tracked, Live, Arrived
    <2>3. QED BY <2>1, <2>2
  <1>5. Planned(plan') /\ Record(plan')
    BY <1>1 DEF IInv
  <1>6. QED BY <1>3, <1>4, <1>5 DEF IInv

LEMMA NextInv == IInv /\ [Next]_vars => IInv'
  <1> SUFFICES ASSUME IInv, [Next]_vars PROVE IInv'
    OBVIOUS
  <1>1. QED BY WeighInv, SubmitInv, FillInv, ExpireInv, QuietInv DEF Next

LEMMA Invariance == Spec => []IInv
  BY InitInv, NextInv, PTL DEF Spec

-----------------------------------------------------------------------------
LEMMA Bounded ==
  ASSUME NEW a \in Int, NEW e \in Int, NEW m \in Nat, Abs(a) <= m
  PROVE  Abs(a * e) <= m * Abs(e)
  <1>1. CASE e >= 0
    <2>1. -m <= a /\ a <= m
      BY DEF Abs
    <2>2. -(m * e) <= a * e /\ a * e <= m * e
      BY <1>1, <2>1
    <2>3. QED BY <1>1, <2>2 DEF Abs
  <1>2. CASE e < 0
    <2>1. PICK f \in Nat : f = -e
      BY <1>2
    <2>2. -m <= a /\ a <= m
      BY DEF Abs
    <2>3. -(m * f) <= a * f /\ a * f <= m * f
      BY <2>1, <2>2
    <2>4. a * e = -(a * f)
      BY <2>1
    <2>5. QED BY <1>2, <2>1, <2>3, <2>4 DEF Abs
  <1>3. QED BY <1>1, <1>2

(* A planned order does not aim beyond the limit, save half a lot.         *)
LEMMA AimsOfPlan == IInv => AimsWithinLimits
  <1> SUFFICES ASSUME IInv, NEW o \in plan.orders
               PROVE  2 * WeightBase * Abs(plan.pos[o.ins] + o.qty) * (plan.prices[o.ins] * Mult[o.ins])
                        <= 2 * MaxPosition * Abs(plan.equity)
                             + WeightBase * (plan.prices[o.ins] * Mult[o.ins]) * LotSize[o.ins]
    BY DEF AimsWithinLimits
  <1>1. Planned(plan) /\ o.ins \in DOMAIN plan.prices /\ o.qty = Move(plan, o.ins)
    BY OrdersOfPlan DEF IInv
  <1>2. PICK a \in Nat \ {0}, v \in Nat \ {0}, lot \in Nat \ {0} :
          a = WeightBase /\ v = plan.prices[o.ins] * Mult[o.ins] /\ lot = LotSize[o.ins]
    BY <1>1, UnitOf, LoopAssumption DEF LoopAssumption
  <1>3. PICK x \in Int, t \in Int, e \in Int, m \in Nat :
          /\ x = plan.pos[o.ins] + o.qty /\ t = plan.target[o.ins] /\ e = plan.equity
          /\ m = MaxPosition /\ Abs(t) <= m
    <2>1. /\ plan.pos[o.ins] \in Int /\ plan.target[o.ins] \in Int /\ plan.equity \in Int
          /\ Abs(plan.target[o.ins]) <= MaxPosition
      BY <1>1 DEF Planned
    <2>2. o.qty \in Int
      BY <1>1, MoveAims
    <2>3. MaxPosition \in Nat
      BY LoopAssumption DEF LoopAssumption
    <2>4. plan.pos[o.ins] + o.qty \in Int
      BY <2>1, <2>2
    <2>5. QED BY <2>1, <2>3, <2>4
  <1>4. Abs(2 * (t * e - a * x * v)) <= a * v * lot
    BY <1>1, <1>2, <1>3, MoveAims DEF Aim
  <1>5. PICK w \in Int, y \in Int, me \in Int, avl \in Int :
          w = t * e /\ y = a * x * v /\ me = m * Abs(e) /\ avl = a * v * lot
    <2>1. Abs(e) \in Int
      BY <1>3 DEF Abs
    <2>2. t * e \in Int /\ a * x * v \in Int /\ m * Abs(e) \in Int /\ a * v * lot \in Int
      BY <1>2, <1>3, <2>1
    <2>3. QED BY <2>2
  <1>6. Abs(w) <= me
    BY <1>3, <1>5, Bounded
  <1>7. 2 * Abs(y) <= 2 * me + avl
    BY <1>4, <1>5, <1>6 DEF Abs
  <1>8. 2 * a * Abs(x) * v = 2 * Abs(y)
    <2>1. CASE x >= 0
      <3>1. a * x * v >= 0 /\ Abs(x) = x
        BY <1>2, <2>1 DEF Abs
      <3>2. Abs(y) = a * x * v
        BY <1>5, <3>1 DEF Abs
      <3>3. QED BY <3>1, <3>2
    <2>2. CASE x < 0
      <3>1. PICK z \in Nat : z = -x
        BY <2>2
      <3>2. a * x * v = -(a * z * v) /\ a * z * v >= 0 /\ Abs(x) = z
        BY <1>2, <2>2, <3>1 DEF Abs
      <3>3. Abs(y) = a * z * v
        BY <1>5, <3>2 DEF Abs
      <3>4. QED BY <3>2, <3>3
    <2>3. QED BY <2>1, <2>2
  <1>9. 2 * m * Abs(e) = 2 * me
    BY <1>3, <1>5 DEF Abs
  <1>10. QED BY <1>2, <1>3, <1>5, <1>7, <1>8, <1>9

(* Where a complete cycle leaves a column it had a price for.              *)
LEMMA Settled ==
  ASSUME IInv, Complete, NEW c \in DOMAIN plan.prices
  PROVE  \/ pos[c] = plan.pos[c] + Move(plan, c)
         \/ pos[c] = plan.pos[c] /\ ~Worth(plan, c)
  <1>1. /\ \A o \in plan.orders :
             pos[o.ins] = plan.pos[o.ins] + IF Arrived(o) THEN o.qty ELSE 0
        /\ \A i \in Ids : (\A o \in plan.orders : o.ins # i) => pos[i] = plan.pos[i]
        /\ \A o \in plan.orders : Arrived(o)
    BY DEF IInv, Tracked, Live, Complete, Arrived
  <1>2. CASE Worth(plan, c)
    <2>1. PICK o \in plan.orders : o.ins = c /\ o.qty = Move(plan, c)
      BY <1>2, OrdersOfPlan DEF IInv
    <2>2. QED BY <1>1, <2>1
  <1>3. CASE ~Worth(plan, c)
    <2>1. \A o \in plan.orders : o.ins # c
      BY <1>3, OrdersOfPlan DEF IInv
    <2>2. c \in Ids
      BY DEF IInv, Planned
    <2>3. QED BY <1>1, <1>3, <2>1, <2>2
  <1>4. QED BY <1>2, <1>3

LEMMA TargetsMet == IInv => OnTarget
  <1> SUFFICES ASSUME IInv, Complete, NEW c \in DOMAIN plan.prices
               PROVE  Near(c, plan.target[c])
    BY DEF OnTarget
  <1>1. Planned(plan) /\ plan.panel[c].px = plan.prices[c]
    BY DEF IInv, Planned
  <1>2. PICK a \in Nat \ {0}, v \in Nat \ {0}, lot \in Nat \ {0}, d \in Nat :
          a = WeightBase /\ v = plan.prices[c] * Mult[c] /\ lot = LotSize[c] /\ d = MinTrade
    BY <1>1, UnitOf, LoopAssumption DEF LoopAssumption
  <1>3. PICK x \in Int, k \in Int, w \in Int :
          x = plan.pos[c] /\ k = Move(plan, c) /\ w = plan.target[c] * plan.equity
    BY <1>1, MoveAims DEF Planned
  <1>4. Abs(2 * (w - a * (x + k) * v)) <= a * v * lot
    BY <1>1, <1>2, <1>3, MoveAims DEF Aim
  <1>5. SUFFICES 2 * Abs(w - a * pos[c] * v) <= a * (v * lot + 2 * d)
    BY <1>1, <1>2, <1>3 DEF Near
  <1>6. a * (v * lot + 2 * d) = a * v * lot + 2 * (a * d) /\ a * d \in Nat /\ a * v * lot \in Nat
    BY <1>2
  <1>7. PICK y \in Int, z \in Int, l \in Nat, ad \in Nat :
          y = a * x * v /\ z = a * k * v /\ l = a * v * lot /\ ad = a * d
    BY <1>2, <1>3, <1>6
  <1>8. a * (x + k) * v = y + z
    BY <1>2, <1>3, <1>7
  <1>9. 2 * Abs(w - (y + z)) <= l
    BY <1>3, <1>4, <1>7, <1>8 DEF Abs
  <1>10. CASE pos[c] = x + k
    <2>1. a * pos[c] * v = y + z
      BY <1>8, <1>10
    <2>2. PICK t \in Int : t = a * (v * lot + 2 * d) /\ l <= t
      BY <1>2, <1>6, <1>7
    <2>3. 2 * Abs(w - a * pos[c] * v) <= l
      BY <1>9, <2>1
    <2>4. 2 * Abs(w - (y + z)) <= t
      BY <1>3, <1>7, <1>9, <2>2 DEF Abs
    <2>5. QED BY <2>1, <2>2, <2>4
  <1>11. CASE pos[c] = x /\ ~Worth(plan, c)
    <2>1. a * pos[c] * v = y
      BY <1>7, <1>11
    <2>2. Abs(z) <= ad
      <3>a. plan.prices[c] \in Int /\ Mult[c] \in Int /\ Abs(k) \in Int
        <4>1. plan.prices[c] \in Prices /\ c \in Ids
          BY <1>1 DEF Planned
        <4>2. plan.prices[c] \in Nat \ {0} /\ Mult[c] \in Nat \ {0}
          BY <4>1, LoopAssumption DEF LoopAssumption
        <4>3. QED BY <1>3, <4>2 DEF Abs
      <3>b. PICK u \in Int : u = Abs(k) * plan.prices[c] * Mult[c]
        BY <3>a
      <3>1. k = 0 \/ Abs(k) * plan.prices[c] * Mult[c] < d
        BY <1>2, <1>3, <1>11, <3>b DEF Worth
      <3>2. Abs(k) * plan.prices[c] * Mult[c] = Abs(k) * v
        BY <1>2, <3>a
      <3>3. PICK kk \in Nat : kk = Abs(k)
        BY <1>3 DEF Abs
      <3>4. kk * v <= d
        BY <1>2, <3>1, <3>2, <3>3 DEF Abs
      <3>5. PICK kv \in Nat : kv = kk * v
        BY <1>2, <3>3
      <3>6. a * kv <= a * d
        BY <1>2, <3>4, <3>5
      <3>7. z = a * kv \/ z = -(a * kv)
        BY <1>2, <1>3, <1>7, <3>3, <3>5 DEF Abs
      <3>8. a * kv \in Nat
        BY <1>2, <3>5
      <3>9. QED BY <1>7, <3>6, <3>7, <3>8 DEF Abs
    <2>3. QED BY <1>6, <1>7, <1>9, <2>1, <2>2, <1>3 DEF Abs
  <1>12. QED BY <1>3, <1>10, <1>11, Settled

LEMMA StepRedo ==
  ASSUME IInv, [Next]_vars, Complete, plan'.n > plan.n, plan'.target = plan.target,
         plan'.prices = plan.prices, plan'.equity = plan.equity
  PROVE  plan'.orders = {}
  <1>1. IInv' /\ Planned(plan)
    BY NextInv DEF IInv
  <1>2. plan.n \in Nat
    BY <1>1 DEF Planned
  <1>3. PICK row \in WeightRows : Weigh(Restrict(row, DOMAIN row \cap DOMAIN Panel))
    <2>1. ASSUME NEW o \in queue, Submit(o) PROVE plan'.n = plan.n
      BY <2>1 DEF Submit, IInv, Record
    <2>2. ASSUME NEW o \in pending, Fill(o) \/ Expire(o) PROVE plan'.n = plan.n
      BY <2>2 DEF Fill, Expire, IInv, Record
    <2>3. ASSUME Start \/ GapFill \/ Stop \/ Crash \/ Close \/ (\E c \in Ids : Publish(c)) \/ UNCHANGED vars
          PROVE plan'.n = plan.n
      BY <2>3 DEF Start, GapFill, Stop, Crash, Close, Publish, vars
    <2>4. QED BY <1>2, <2>1, <2>2, <2>3 DEF Next
  <1>4. plan'.pos = pos
    BY <1>3 DEF Weigh
  <1> SUFFICES ASSUME NEW o \in plan'.orders PROVE FALSE
    OBVIOUS
  <1> DEFINE c == o.ins
  <1>5. c \in DOMAIN plan.prices /\ Worth(plan', c) /\ Planned(plan')
    <2>1. Planned(plan')
      BY <1>1 DEF IInv
    <2>2. QED BY <2>1, OrdersOfPlan
  <1>6. \A x : Aim(plan', c, x) = Aim(plan, c, x)
    BY DEF Aim
  <1>7. CASE pos[c] = plan.pos[c] + Move(plan, c)
    <2>1. Aim(plan', c, plan'.pos[c]) <= WeightBase * (plan'.prices[c] * Mult[c]) * LotSize[c]
      BY <1>1, <1>4, <1>5, <1>6, <1>7, MoveAims
    <2>2. Move(plan', c) = 0
      BY <1>5, <2>1, MoveAims
    <2>3. QED BY <1>5, <2>2 DEF Worth
  <1>8. CASE pos[c] = plan.pos[c] /\ ~Worth(plan, c)
    <2>1. Move(plan', c) = Move(plan, c)
      BY <1>4, <1>8 DEF Move
    <2>2. QED BY <1>5, <1>8, <2>1 DEF Worth
  <1>9. QED BY <1>5, <1>7, <1>8, Settled

(* No order aims beyond max_position of the equity it was planned on.      *)
THEOREM LimitsAimed == Spec => []AimsWithinLimits
  BY Invariance, AimsOfPlan, PTL

(* A complete cycle leaves every priced column on its target, whatever     *)
(* earlier cycles were refused, expired or died in the middle of.          *)
THEOREM TargetsReached == Spec => []OnTarget
  BY Invariance, TargetsMet, PTL

(* Run again on the same inputs, a complete cycle orders nothing.          *)
THEOREM CycleIsIdempotent == Spec => NothingToRedo
  <1>1. IInv /\ [Next]_vars
          => [plan'.n > plan.n /\ Complete /\ plan'.target = plan.target
                /\ plan'.prices = plan.prices /\ plan'.equity = plan.equity
                => plan'.orders = {}]_vars
    BY StepRedo
  <1>2. QED BY <1>1, Invariance, PTL DEF Spec, NothingToRedo

-----------------------------------------------------------------------------
(* The tax lots.                                                           *)
LotTypes ==
  /\ when \in Nat /\ n \in Nat
  /\ IsFiniteSet(book)
  /\ \A lot \in book :
       /\ lot = [n |-> lot.n, ins |-> lot.ins, qty |-> lot.qty, price |-> lot.price,
                 acquired |-> lot.acquired]
       /\ lot.n \in Nat /\ lot.n < n /\ lot.ins \in Instruments
       /\ lot.qty \in Nat \ {0} /\ lot.price \in Nat \ {0} /\ lot.acquired \in Nat
  /\ \A lot, other \in book : lot.n = other.n => lot = other

(* The shares of every lot, and the lots that are sold before one.         *)
Shares == [lot \in book |-> lot.qty]

Ahead(lot, method, price) ==
  LET k == Key(lot, method, price)
      Before(other) == LET j == Key(other, method, price)
                       IN  j < k \/ (j = k /\ other.n < lot.n)
  IN  {l \in LotsOf(lot.ins) : Before(l)}

LEMMA MinOfTwo ==
  ASSUME NEW a \in Int, NEW b \in Int
  PROVE  Min({a, b}) = IF a <= b THEN a ELSE b
  <1> DEFINE m == IF a <= b THEN a ELSE b
  <1>1. m \in {a, b} /\ \A y \in {a, b} : m <= y
    OBVIOUS
  <1>2. \A x \in {a, b} : (\A y \in {a, b} : x <= y) => x = m
    OBVIOUS
  <1> HIDE DEF m
  <1>3. Min({a, b}) = m
    BY <1>1, <1>2 DEF Min
  <1>4. QED BY <1>3 DEF m

LEMMA SharesOfLots ==
  ASSUME LotTypes, NEW T \in SUBSET book
  PROVE  /\ IsFiniteSet(T) /\ SumFunctionOnSet(Shares, T) \in Nat
         /\ SumFunction([lot \in T |-> lot.qty]) = SumFunctionOnSet(Shares, T)
         /\ \A U \in SUBSET T : SumFunctionOnSet(Shares, U) <= SumFunctionOnSet(Shares, T)
  <1>1. IsFiniteSet(T) /\ \A lot \in T : Shares[lot] = lot.qty /\ Shares[lot] \in Nat
    BY FS_Subset DEF LotTypes, Shares
  <1>2. SumFunctionOnSet(Shares, T) \in Nat
    BY <1>1, SumSubset
  <1>3. SumFunction([lot \in T |-> lot.qty]) = SumFunctionOnSet(Shares, T)
    BY <1>1, SumOver
  <1>4. \A U \in SUBSET T : SumFunctionOnSet(Shares, U) <= SumFunctionOnSet(Shares, T)
    BY <1>1, SumSubset
  <1>5. QED BY <1>1, <1>2, <1>3, <1>4

(* How much of a lot is taken, by what is ahead of it.                     *)
LEMMA TakeIs ==
  ASSUME LotTypes, NEW lot \in book, NEW qty \in Nat, NEW method, NEW price
  PROVE  LET left == qty - SumFunctionOnSet(Shares, Ahead(lot, method, price))
         IN  /\ left \in Int
             /\ Take(lot, qty, method, price)
                  = IF left >= lot.qty THEN lot.qty ELSE Positive(left)
             /\ Take(lot, qty, method, price) \in 0..lot.qty
  <1> DEFINE ahead == SumFunctionOnSet(Shares, Ahead(lot, method, price))
  <1>1. Ahead(lot, method, price) \subseteq book
    BY DEF Ahead, LotsOf
  <1>2. ahead \in Nat /\ SumFunction([l \in Ahead(lot, method, price) |-> l.qty]) = ahead
    BY <1>1, SharesOfLots
  <1>3. Take(lot, qty, method, price) = Min({lot.qty, Positive(qty - ahead)})
    BY <1>2 DEF Take, Ahead
  <1>4. lot.qty \in Nat \ {0}
    BY DEF LotTypes
  <1> HIDE DEF ahead
  <1>5. Positive(qty - ahead) \in Int
    BY <1>2 DEF Positive
  <1>6. Take(lot, qty, method, price)
          = IF lot.qty <= Positive(qty - ahead) THEN lot.qty ELSE Positive(qty - ahead)
    BY <1>3, <1>4, <1>5, MinOfTwo
  <1>7. QED BY <1>2, <1>4, <1>6 DEF Positive, ahead

(* A sale lists each lot it takes shares of once.                          *)
Slip(lot, ins, qty, method, price) ==
  [n |-> n, lot |-> lot.n, ins |-> ins, qty |-> Take(lot, qty, method, price),
   basis |-> Take(lot, qty, method, price) * lot.price,
   gain |-> Take(lot, qty, method, price) * (price - lot.price),
   long |-> LongTerm(lot.acquired), sold |-> when]

Sellers(ins, qty, method, price) == {lot \in LotsOf(ins) : Take(lot, qty, method, price) > 0}

LEMMA SoldIs ==
  ASSUME NEW ins, NEW qty, NEW method, NEW price
  PROVE  Sold(ins, qty, method, price)
           = {Slip(lot, ins, qty, method, price) : lot \in Sellers(ins, qty, method, price)}
  BY DEF Sold, Slip, Sellers

LEMMA SoldSum ==
  ASSUME LotTypes, NEW ins, NEW qty \in Nat, NEW method, NEW price, NEW f, NEW g,
         \A lot \in LotsOf(ins) :
           /\ g[lot] \in Int
           /\ Take(lot, qty, method, price) = 0 => g[lot] = 0
           /\ Take(lot, qty, method, price) > 0 => f[Slip(lot, ins, qty, method, price)] = g[lot]
  PROVE  /\ IsFiniteSet(Sold(ins, qty, method, price))
         /\ SumFunctionOnSet(f, Sold(ins, qty, method, price)) = SumFunctionOnSet(g, LotsOf(ins))
  <1> DEFINE S == Sellers(ins, qty, method, price)
             b == [lot \in S |-> Slip(lot, ins, qty, method, price)]
  <1>1. LotsOf(ins) \subseteq book /\ S \subseteq LotsOf(ins)
    BY DEF LotsOf, Sellers
  <1>2. IsFiniteSet(LotsOf(ins)) /\ IsFiniteSet(S)
    BY <1>1, FS_Subset DEF LotTypes
  <1>3. \A lot \in LotsOf(ins) : Take(lot, qty, method, price) \in Nat
    <2> SUFFICES ASSUME NEW lot \in LotsOf(ins) PROVE Take(lot, qty, method, price) \in Nat
      OBVIOUS
    <2>1. Take(lot, qty, method, price) \in 0..lot.qty /\ lot.qty \in Nat
      BY <1>1, TakeIs DEF LotTypes
    <2>2. QED BY <2>1
  <1>4. \A lot \in S : f[b[lot]] = g[lot] /\ g[lot] \in Int
    BY <1>1 DEF Sellers
  <1>5. \A lot \in LotsOf(ins) \ S : g[lot] = 0
    BY <1>3 DEF Sellers
  <1>6. \A x, y \in S : b[x] = b[y] => x = y
    <2> SUFFICES ASSUME NEW x \in S, NEW y \in S, b[x] = b[y] PROVE x = y
      OBVIOUS
    <2>1. b[x].lot = x.n /\ b[y].lot = y.n
      BY DEF Slip
    <2>2. QED BY <1>1, <2>1 DEF LotTypes
  <1>7. {b[lot] : lot \in S} = Sold(ins, qty, method, price)
    BY SoldIs
  <1> HIDE DEF S, b
  <1>8. IsFiniteSet({b[lot] : lot \in S}) /\ SumFunctionOnSet(f, {b[lot] : lot \in S}) = SumFunctionOnSet(g, S)
    BY <1>2, <1>4, <1>6, SumImage
  <1>9. SumFunctionOnSet(g, S) = SumFunctionOnSet(g, LotsOf(ins))
    BY <1>1, <1>2, <1>5, SumRest
  <1>10. QED BY <1>7, <1>8, <1>9

-----------------------------------------------------------------------------
(* What a sale takes of any lot of the book.                               *)
Taken(lot, ins, qty, method, price) == IF lot.ins = ins THEN Take(lot, qty, method, price) ELSE 0

LEMMA TakenIs ==
  ASSUME LotTypes, NEW lot \in book, NEW ins, NEW qty \in Nat, NEW method, NEW price
  PROVE  /\ Taken(lot, ins, qty, method, price) \in 0..lot.qty
         /\ SumFunction([r \in {x \in Sold(ins, qty, method, price) : x.lot = lot.n} |-> r.qty])
              = Taken(lot, ins, qty, method, price)
  <1> DEFINE slips == {x \in Sold(ins, qty, method, price) : x.lot = lot.n}
             f == [r \in slips |-> r.qty]
             T == Taken(lot, ins, qty, method, price)
  <1>1. Take(lot, qty, method, price) \in 0..lot.qty /\ lot.qty \in Nat
    BY TakeIs DEF LotTypes
  <1>2. T \in 0..lot.qty
    BY <1>1 DEF Taken
  <1>3. \A x \in Sold(ins, qty, method, price) :
          \E l \in Sellers(ins, qty, method, price) : x = Slip(l, ins, qty, method, price)
    BY SoldIs
  <1>4. \A l \in Sellers(ins, qty, method, price) : l \in book /\ l.ins = ins
    BY DEF Sellers, LotsOf
  <1>5. \A l \in book : Slip(l, ins, qty, method, price).lot = l.n
    BY DEF Slip
  <1>6. CASE lot \in Sellers(ins, qty, method, price)
    <2>1. slips = {Slip(lot, ins, qty, method, price)}
      <3>1. Slip(lot, ins, qty, method, price) \in slips
        BY <1>5, <1>6, SoldIs
      <3>2. ASSUME NEW x \in slips PROVE x = Slip(lot, ins, qty, method, price)
        BY <1>3, <1>4, <1>5 DEF LotTypes
      <3>3. QED BY <3>1, <3>2
    <2>2. Slip(lot, ins, qty, method, price).qty = T
      BY <1>4, <1>6 DEF Slip, Taken
    <2>3. f[Slip(lot, ins, qty, method, price)] = T
      BY <2>1, <2>2
    <2>4. DOMAIN f = {Slip(lot, ins, qty, method, price)} /\ T \in Int
      BY <1>2, <2>1
    <2> HIDE DEF f, T
    <2>5. SumFunctionOnSet(f, {Slip(lot, ins, qty, method, price)}) = T
      BY <2>3, <2>4, SumOne
    <2>6. SumFunction(f) = T
      BY <2>4, <2>5 DEF SumFunction
    <2>7. QED BY <1>2, <2>6 DEF f, T
  <1>7. CASE lot \notin Sellers(ins, qty, method, price)
    <2>1. slips = {}
      BY <1>3, <1>4, <1>5, <1>7 DEF LotTypes
    <2>2. T = 0
      BY <1>1, <1>7 DEF Taken, Sellers, LotsOf
    <2>3. DOMAIN f = {}
      BY <2>1
    <2> HIDE DEF f
    <2>4. SumFunction(f) = 0
      BY <2>3, SumEmpty DEF SumFunction
    <2>5. QED BY <1>2, <2>2, <2>4 DEF f
  <1>8. QED BY <1>6, <1>7

Rest(lot, ins, qty, method, price) ==
  [lot EXCEPT !.qty = lot.qty - Taken(lot, ins, qty, method, price)]

Kept(ins, qty, method, price) == {lot \in book : Taken(lot, ins, qty, method, price) < lot.qty}

LEMMA LeftIs ==
  ASSUME LotTypes, NEW ins, NEW qty \in Nat, NEW method, NEW price
  PROVE  Left(Sold(ins, qty, method, price))
           = {Rest(lot, ins, qty, method, price) : lot \in Kept(ins, qty, method, price)}
  <1> DEFINE Took(lot) == SumFunction([r \in {x \in Sold(ins, qty, method, price) : x.lot = lot.n} |-> r.qty])
  <1>1. \A lot \in book : Took(lot) = Taken(lot, ins, qty, method, price)
    BY TakenIs
  <1>2. Left(Sold(ins, qty, method, price))
          = {[lot EXCEPT !.qty = lot.qty - Took(lot)] : lot \in {l \in book : Took(l) < l.qty}}
    BY DEF Left
  <1> HIDE DEF Took
  <1>3. QED BY <1>1, <1>2 DEF Rest, Kept

LEMMA RestIs ==
  ASSUME LotTypes, NEW ins, NEW qty \in Nat, NEW method, NEW price,
         NEW lot \in Kept(ins, qty, method, price)
  PROVE  LET rest == Rest(lot, ins, qty, method, price)
         IN  /\ rest = [n |-> lot.n, ins |-> lot.ins, price |-> lot.price, acquired |-> lot.acquired,
                        qty |-> lot.qty - Taken(lot, ins, qty, method, price)]
             /\ rest.qty \in Nat \ {0}
  <1>1. lot \in book /\ Taken(lot, ins, qty, method, price) < lot.qty
    BY DEF Kept
  <1>2. Taken(lot, ins, qty, method, price) \in 0..lot.qty /\ lot.qty \in Nat
    BY <1>1, TakenIs DEF LotTypes
  <1>3. lot = [n |-> lot.n, ins |-> lot.ins, qty |-> lot.qty, price |-> lot.price, acquired |-> lot.acquired]
    BY <1>1 DEF LotTypes
  <1>4. QED BY <1>1, <1>2, <1>3 DEF Rest

(* The lots of an instrument after a sale, and sums with a weight w.       *)
LeftOf(i, ins, qty, method, price) == {lot \in Left(Sold(ins, qty, method, price)) : lot.ins = i}

Weighed(i, w) == [lot \in LotsOf(i) |-> lot.qty * w[lot]]

Drawn(i, w, ins, qty, method, price) ==
  [lot \in LotsOf(i) |-> Taken(lot, ins, qty, method, price) * w[lot]]

Weighs(f, i, w, ins, qty, method, price) ==
  /\ \A lot \in LotsOf(i) : w[lot] \in Int
  /\ \A lot \in Kept(ins, qty, method, price) :
       lot.ins = i => f[Rest(lot, ins, qty, method, price)]
                        = (lot.qty - Taken(lot, ins, qty, method, price)) * w[lot]

LEMMA LeftSum ==
  ASSUME LotTypes, NEW ins, NEW qty \in Nat, NEW method, NEW price, NEW i, NEW f, NEW w,
         Weighs(f, i, w, ins, qty, method, price)
  PROVE  LET t == Drawn(i, w, ins, qty, method, price)
         IN  /\ IsFiniteSet(LeftOf(i, ins, qty, method, price))
             /\ SumFunctionOnSet(f, LeftOf(i, ins, qty, method, price))
                  = SumFunctionOnSet(Weighed(i, w), LotsOf(i)) - SumFunctionOnSet(t, LotsOf(i))
             /\ SumFunctionOnSet(Weighed(i, w), LotsOf(i)) \in Int
             /\ SumFunctionOnSet(t, LotsOf(i)) \in Int
  <1> DEFINE T(lot) == Taken(lot, ins, qty, method, price)
             R(lot) == Rest(lot, ins, qty, method, price)
             left == {lot \in Left(Sold(ins, qty, method, price)) : lot.ins = i}
             S == {lot \in LotsOf(i) : T(lot) < lot.qty}
             b == [lot \in S |-> R(lot)]
             g == [lot \in LotsOf(i) |-> lot.qty * w[lot]]
             t == [lot \in LotsOf(i) |-> T(lot) * w[lot]]
             h == [lot \in LotsOf(i) |-> (lot.qty - T(lot)) * w[lot]]
  <1>1. LotsOf(i) \subseteq book /\ S \subseteq LotsOf(i) /\ S \subseteq Kept(ins, qty, method, price)
        /\ IsFiniteSet(LotsOf(i)) /\ IsFiniteSet(S)
    BY FS_Subset DEF LotsOf, Kept, LotTypes
  <1>2. \A lot \in S : R(lot).n = lot.n /\ R(lot).ins = lot.ins
    BY <1>1, RestIs
  <1>3. left = {b[lot] : lot \in S}
    <2>1. \A lot \in Kept(ins, qty, method, price) : R(lot).ins = lot.ins
      BY RestIs
    <2>2. S = {lot \in Kept(ins, qty, method, price) : lot.ins = i}
      BY DEF Kept, LotsOf
    <2>3. Left(Sold(ins, qty, method, price)) = {R(lot) : lot \in Kept(ins, qty, method, price)}
      BY LeftIs
    <2> HIDE DEF R, S
    <2>4. QED BY <2>1, <2>2, <2>3
  <1>4. \A x, y \in S : b[x] = b[y] => x = y
    BY <1>1, <1>2 DEF LotTypes
  <1>5. \A lot \in LotsOf(i) : /\ T(lot) \in Nat /\ T(lot) <= lot.qty /\ lot.qty \in Nat
                               /\ w[lot] \in Int
    <2> SUFFICES ASSUME NEW lot \in LotsOf(i) PROVE T(lot) \in Nat /\ T(lot) <= lot.qty /\ lot.qty \in Nat
      BY DEF Weighs
    <2>1. T(lot) \in 0..lot.qty /\ lot.qty \in Nat
      BY <1>1, TakenIs DEF LotTypes
    <2>2. QED BY <2>1
  <1>6. \A lot \in S : f[b[lot]] = h[lot]
    BY <1>1 DEF LotsOf, Weighs
  <1> HIDE DEF T, R
  <1>7. \A lot \in LotsOf(i) : /\ g[lot] \in Int /\ t[lot] \in Int /\ h[lot] \in Int
                               /\ h[lot] = g[lot] + (-1) * t[lot]
    <2> SUFFICES ASSUME NEW lot \in LotsOf(i)
                 PROVE  /\ g[lot] \in Int /\ t[lot] \in Int /\ h[lot] \in Int
                        /\ h[lot] = g[lot] + (-1) * t[lot]
      OBVIOUS
    <2>1. PICK q \in Int, u \in Int, v \in Int : q = lot.qty /\ u = T(lot) /\ v = w[lot]
      BY <1>5
    <2>2. g[lot] = q * v /\ t[lot] = u * v /\ h[lot] = (q - u) * v
      BY <2>1
    <2>3. (q - u) * v = q * v + (-1) * (u * v)
      BY <2>1
    <2>4. QED BY <2>2, <2>3
  <1>8. \A lot \in LotsOf(i) \ S : h[lot] = 0
    BY <1>5
  <1> HIDE DEF S, b, g, t, h, left
  <1>9. IsFiniteSet(left) /\ SumFunctionOnSet(f, left) = SumFunctionOnSet(h, S)
    <2>1. \A lot \in S : f[b[lot]] = h[lot] /\ h[lot] \in Int
      BY <1>1, <1>6, <1>7
    <2>2. IsFiniteSet({b[lot] : lot \in S}) /\ SumFunctionOnSet(f, {b[lot] : lot \in S}) = SumFunctionOnSet(h, S)
      BY <1>1, <1>4, <2>1, SumImage
    <2>3. QED BY <1>3, <2>2
  <1>10. SumFunctionOnSet(h, S) = SumFunctionOnSet(h, LotsOf(i))
    BY <1>1, <1>7, <1>8, SumRest
  <1>11. SumFunctionOnSet(h, LotsOf(i)) = SumFunctionOnSet(g, LotsOf(i)) + (-1) * SumFunctionOnSet(t, LotsOf(i))
    BY <1>1, <1>7, SumLinear
  <1>12. SumFunctionOnSet(g, LotsOf(i)) \in Int /\ SumFunctionOnSet(t, LotsOf(i)) \in Int
    BY <1>1, <1>7, SumInt
  <1>13. SumFunctionOnSet(f, left) = SumFunctionOnSet(g, LotsOf(i)) - SumFunctionOnSet(t, LotsOf(i))
    BY <1>9, <1>10, <1>11, <1>12
  <1>14. left = LeftOf(i, ins, qty, method, price) /\ g = Weighed(i, w)
         /\ t = Drawn(i, w, ins, qty, method, price)
    BY DEF left, g, t, T, LeftOf, Weighed, Drawn
  <1>15. QED BY <1>9, <1>12, <1>13, <1>14

(* What the lots of i held, what they hold after a sale and what it took,  *)
(* each share at the weight w of its lot.                                  *)
Ledger(held, after, out, i, w, ins, qty, method, price) ==
  /\ \A lot \in book : w[lot] \in Int
  /\ DOMAIN held = LotsOf(i) /\ \A lot \in LotsOf(i) : held[lot] = lot.qty * w[lot]
  /\ DOMAIN after = LeftOf(i, ins, qty, method, price)
  /\ \A lot \in Kept(ins, qty, method, price) :
       lot.ins = i => after[Rest(lot, ins, qty, method, price)]
                        = (lot.qty - Taken(lot, ins, qty, method, price)) * w[lot]
  /\ DOMAIN out = Sold(ins, qty, method, price)
  /\ \A lot \in Sellers(ins, qty, method, price) :
       out[Slip(lot, ins, qty, method, price)] = Take(lot, qty, method, price) * w[lot]

LEMMA SaleMoves ==
  ASSUME LotTypes, NEW ins, NEW qty \in Nat, NEW method, NEW price, NEW i, NEW w,
         NEW held, NEW after, NEW out, Ledger(held, after, out, i, w, ins, qty, method, price)
  PROVE  /\ SumFunction(out) \in Int /\ SumFunction(held) \in Int
         /\ SumFunction(after) = SumFunction(held) - IF i = ins THEN SumFunction(out) ELSE 0
  <1> DEFINE T(lot) == Taken(lot, ins, qty, method, price)
             g == Weighed(i, w)
             t == Drawn(i, w, ins, qty, method, price)
             o == [lot \in LotsOf(ins) |-> T(lot) * w[lot]]
  <1>1. LotsOf(i) \subseteq book /\ IsFiniteSet(LotsOf(i)) /\ LotsOf(ins) \subseteq book
        /\ IsFiniteSet(LotsOf(ins))
    BY FS_Subset DEF LotsOf, LotTypes
  <1>2. /\ SumFunctionOnSet(after, DOMAIN after)
             = SumFunctionOnSet(g, LotsOf(i)) - SumFunctionOnSet(t, LotsOf(i))
        /\ SumFunctionOnSet(g, LotsOf(i)) \in Int /\ SumFunctionOnSet(t, LotsOf(i)) \in Int
    <2>1. \A lot \in LotsOf(i) : w[lot] \in Int
      BY <1>1 DEF Ledger
    <2>2. DOMAIN after = LeftOf(i, ins, qty, method, price)
      BY DEF Ledger
    <2>3. Weighs(after, i, w, ins, qty, method, price)
      BY <2>1 DEF Weighs, Ledger
    <2>4. /\ SumFunctionOnSet(after, LeftOf(i, ins, qty, method, price))
               = SumFunctionOnSet(Weighed(i, w), LotsOf(i))
                   - SumFunctionOnSet(Drawn(i, w, ins, qty, method, price), LotsOf(i))
          /\ SumFunctionOnSet(Weighed(i, w), LotsOf(i)) \in Int
          /\ SumFunctionOnSet(Drawn(i, w, ins, qty, method, price), LotsOf(i)) \in Int
      BY <2>3, LeftSum
    <2>5. QED BY <2>2, <2>4
  <1>11. \A lot \in LotsOf(i) : g[lot] = lot.qty * w[lot]
    BY DEF Weighed
  <1>3. SumFunction(held) = SumFunctionOnSet(g, LotsOf(i))
    BY <1>1, <1>11, SumCong DEF SumFunction, Ledger
  <1>4. SumFunction(after) = SumFunctionOnSet(after, DOMAIN after)
    BY DEF SumFunction
  <1>5. \A lot \in LotsOf(ins) : T(lot) = Take(lot, qty, method, price) /\ T(lot) \in Nat
    <2> SUFFICES ASSUME NEW lot \in LotsOf(ins)
                 PROVE  T(lot) = Take(lot, qty, method, price) /\ T(lot) \in Nat
      OBVIOUS
    <2>1. T(lot) = Take(lot, qty, method, price)
      BY DEF Taken, LotsOf
    <2>2. Take(lot, qty, method, price) \in 0..lot.qty /\ lot.qty \in Nat
      BY <1>1, TakeIs DEF LotTypes
    <2>3. QED BY <2>1, <2>2
  <1> HIDE DEF T
  <1>6. \A lot \in LotsOf(ins) :
          /\ o[lot] \in Int
          /\ Take(lot, qty, method, price) = 0 => o[lot] = 0
          /\ Take(lot, qty, method, price) > 0 => out[Slip(lot, ins, qty, method, price)] = o[lot]
    <2> SUFFICES ASSUME NEW lot \in LotsOf(ins)
                 PROVE  /\ o[lot] \in Int
                        /\ Take(lot, qty, method, price) = 0 => o[lot] = 0
                        /\ Take(lot, qty, method, price) > 0 => out[Slip(lot, ins, qty, method, price)] = o[lot]
      OBVIOUS
    <2>1. PICK k \in Nat, v \in Int : k = Take(lot, qty, method, price) /\ k = T(lot) /\ v = w[lot]
      BY <1>1, <1>5 DEF Ledger
    <2>2. o[lot] = k * v /\ (k = 0 => k * v = 0) /\ k * v \in Int
      BY <2>1
    <2>3. Take(lot, qty, method, price) > 0 => out[Slip(lot, ins, qty, method, price)] = k * v
      BY <2>1 DEF Sellers, Ledger
    <2>4. QED BY <2>1, <2>2, <2>3
  <1> HIDE DEF o, t, g
  <1>7. SumFunction(out) = SumFunctionOnSet(o, LotsOf(ins)) /\ SumFunctionOnSet(o, LotsOf(ins)) \in Int
    <2>1. SumFunctionOnSet(out, Sold(ins, qty, method, price)) = SumFunctionOnSet(o, LotsOf(ins))
      BY <1>6, SoldSum
    <2>2. SumFunctionOnSet(o, LotsOf(ins)) \in Int
      BY <1>1, <1>6, SumInt
    <2>3. QED BY <2>1, <2>2 DEF SumFunction, Ledger
  <1>8. CASE i = ins
    <2>1. t = o
      BY <1>8 DEF t, o, T, Drawn
    <2>2. QED BY <1>2, <1>3, <1>4, <1>7, <1>8, <2>1
  <1>9. CASE i # ins
    <2>1. \A lot \in LotsOf(i) : t[lot] = 0
      <3>1. \A lot \in LotsOf(i) : T(lot) = 0 /\ w[lot] \in Int
        BY <1>1, <1>9 DEF T, Taken, LotsOf, Ledger
      <3>2. QED BY <3>1 DEF t, T, Drawn
    <2>2. SumFunctionOnSet(t, LotsOf(i)) = 0
      BY <1>1, <2>1, SumZero
    <2>3. QED BY <1>2, <1>3, <1>4, <1>7, <1>9, <2>2
  <1>10. QED BY <1>8, <1>9

-----------------------------------------------------------------------------
Batches ==
  /\ batch = [open |-> batch.open, prices |-> batch.prices, method |-> batch.method,
              buys |-> batch.buys, realized |-> batch.realized]
  /\ batch.open \in BOOLEAN
  /\ batch.open => batch.prices \in PriceMaps /\ batch.method \in LotMethod
  /\ ~batch.open => batch = NoBatch
  /\ batch.buys \subseteq bought
  /\ \A b \in bought : b.day \in Nat /\ b.day <= when
  /\ IsFiniteSet(batch.realized)
  /\ \A r \in batch.realized :
       r.n \in Nat /\ r.n < n /\ r.gain \in Int /\ r.long \in BOOLEAN /\ r.sold = when

Accounts == quantity \in [Instruments -> Int] /\ cost \in [Instruments -> Int]

LotInv == LotTypes /\ Batches /\ Accounts /\ BooksBalance

LEMMA LotsInitInv == LotsInit => LotInv
  <1> SUFFICES ASSUME LotsInit PROVE LotInv
    OBVIOUS
  <1> USE DEF LotsInit, NoBatch
  <1>1. LotTypes
    BY FS_EmptySet DEF LotTypes
  <1>2. Batches
    BY FS_EmptySet DEF Batches
  <1>3. Accounts
    BY DEF Accounts
  <1>4. BooksBalance
    <2>1. \A ins \in Instruments : LotsOf(ins) = {}
      BY DEF LotsOf
    <2>2. \A f : DOMAIN f = {} => SumFunction(f) = 0
      BY SumEmpty DEF SumFunction
    <2>3. QED BY <2>1, <2>2 DEF BooksBalance, Held
  <1>5. QED BY <1>1, <1>2, <1>3, <1>4 DEF LotInv

LEMMA PriceIs ==
  ASSUME LotInv, batch.open, NEW ins \in DOMAIN batch.prices
  PROVE  batch.prices[ins] \in Nat \ {0} /\ ins \in Instruments
  BY TaxAssumption DEF TaxAssumption, LotInv, Batches

LEMMA BuyInv ==
  ASSUME LotInv, NEW ins \in Instruments, NEW qty \in Quantities, Buy(ins, qty)
  PROVE  LotInv'
  <1> DEFINE price == batch.prices[ins]
             lot == [n |-> n, ins |-> ins, qty |-> qty, price |-> price, acquired |-> when]
  <1>1. /\ batch.open /\ ins \in DOMAIN batch.prices
        /\ book' = book \cup {lot}
        /\ batch' = [batch EXCEPT !.buys = batch.buys \cup {[ins |-> ins, day |-> when]}]
        /\ n' = n + 1 /\ UNCHANGED <<when, report>>
        /\ bought' = bought \cup {[ins |-> ins, day |-> when]}
        /\ quantity' = [quantity EXCEPT ![ins] = quantity[ins] + qty]
        /\ cost' = [cost EXCEPT ![ins] = cost[ins] + qty * price]
    BY DEF Buy
  <1>2. price \in Nat \ {0} /\ qty \in Nat \ {0} /\ n \in Nat /\ when \in Nat
    BY <1>1, PriceIs, TaxAssumption DEF TaxAssumption, LotInv, LotTypes
  <1>3. lot \notin book /\ lot.n = n /\ lot.ins = ins /\ lot.qty = qty /\ lot.price = price
    BY <1>2 DEF LotInv, LotTypes
  <1> HIDE DEF price
  <1>4. LotTypes'
    <2>1. IsFiniteSet(book')
      BY <1>1, FS_AddElement DEF LotInv, LotTypes
    <2>2. \A l \in book' : /\ l = [n |-> l.n, ins |-> l.ins, qty |-> l.qty, price |-> l.price,
                                   acquired |-> l.acquired]
                           /\ l.n \in Nat /\ l.n < n' /\ l.ins \in Instruments
                           /\ l.qty \in Nat \ {0} /\ l.price \in Nat \ {0} /\ l.acquired \in Nat
      BY <1>1, <1>2 DEF LotInv, LotTypes
    <2>3. \A l, k \in book' : l.n = k.n => l = k
      BY <1>1, <1>2 DEF LotInv, LotTypes
    <2>4. QED BY <1>1, <1>2, <2>1, <2>2, <2>3 DEF LotTypes
  <1>5. Batches'
    <2>1. /\ batch'.open = batch.open /\ batch'.prices = batch.prices /\ batch'.method = batch.method
          /\ batch'.buys = batch.buys \cup {[ins |-> ins, day |-> when]}
          /\ batch'.realized = batch.realized
          /\ batch' = [open |-> batch'.open, prices |-> batch'.prices, method |-> batch'.method,
                       buys |-> batch'.buys, realized |-> batch'.realized]
      BY <1>1 DEF LotInv, Batches
    <2>2. /\ batch'.open \in BOOLEAN /\ batch'.open
          /\ batch'.prices \in PriceMaps /\ batch'.method \in LotMethod
          /\ batch'.buys \subseteq bought'
          /\ IsFiniteSet(batch'.realized)
      BY <1>1, <2>1 DEF LotInv, Batches
    <2>3. \A b \in bought' : b.day \in Nat /\ b.day <= when'
      BY <1>1, <1>2 DEF LotInv, Batches
    <2>4. \A r \in batch'.realized :
            r.n \in Nat /\ r.n < n' /\ r.gain \in Int /\ r.long \in BOOLEAN /\ r.sold = when'
      BY <1>1, <1>2, <2>1 DEF LotInv, Batches
    <2>5. QED BY <2>1, <2>2, <2>3, <2>4 DEF Batches
  <1>6. Accounts'
    BY <1>1, <1>2 DEF LotInv, Accounts
  <1>7. BooksBalance'
    <2> SUFFICES ASSUME NEW i \in Instruments
                 PROVE  /\ SumFunction([l \in LotsOf(i)' |-> l.qty]) = quantity'[i]
                        /\ SumFunction([l \in LotsOf(i)' |-> l.qty * l.price]) = cost'[i]
      BY DEF BooksBalance, Held
    <2>1. /\ SumFunction([l \in LotsOf(i) |-> l.qty]) = quantity[i]
          /\ SumFunction([l \in LotsOf(i) |-> l.qty * l.price]) = cost[i]
      BY DEF LotInv, BooksBalance, Held
    <2> DEFINE f == [l \in LotsOf(i)' |-> l.qty]
               g == [l \in LotsOf(i)' |-> l.qty * l.price]
    <2>2. CASE i # ins
      <3>1. LotsOf(i)' = LotsOf(i)
        BY <1>1, <2>2 DEF LotsOf
      <3>2. quantity'[i] = quantity[i] /\ cost'[i] = cost[i]
        BY <1>1, <2>2 DEF LotInv, Accounts
      <3>3. QED BY <2>1, <3>1, <3>2
    <2>3. CASE i = ins
      <3>1. LotsOf(i)' = LotsOf(i) \cup {lot} /\ lot \notin LotsOf(i)
        BY <1>1, <1>3, <2>3 DEF LotsOf
      <3>2. IsFiniteSet(LotsOf(i)) /\ LotsOf(i) \subseteq book
        BY FS_Subset DEF LotsOf, LotInv, LotTypes
      <3>3. \A l \in LotsOf(i) \cup {lot} : /\ f[l] = l.qty /\ f[l] \in Int
                                            /\ g[l] = l.qty * l.price /\ g[l] \in Int
        BY <1>2, <3>1, <3>2 DEF LotInv, LotTypes
      <3>4. f[lot] = qty /\ g[lot] = qty * price
        BY <1>3, <3>3
      <3>5. DOMAIN f = LotsOf(i) \cup {lot} /\ DOMAIN g = LotsOf(i) \cup {lot}
        BY <3>1
      <3> HIDE DEF f, g, lot
      <3>6. /\ SumFunctionOnSet(f, LotsOf(i) \cup {lot}) = f[lot] + SumFunctionOnSet(f, LotsOf(i))
            /\ SumFunctionOnSet(g, LotsOf(i) \cup {lot}) = g[lot] + SumFunctionOnSet(g, LotsOf(i))
        BY <3>1, <3>2, <3>3, SumAdd
      <3>7. /\ SumFunction([l \in LotsOf(i) |-> l.qty]) = SumFunctionOnSet(f, LotsOf(i))
            /\ SumFunction([l \in LotsOf(i) |-> l.qty * l.price]) = SumFunctionOnSet(g, LotsOf(i))
        BY <3>2, <3>3, SumOver
      <3>8. SumFunction(f) = qty + quantity[i] /\ SumFunction(g) = qty * price + cost[i]
        BY <2>1, <3>4, <3>5, <3>6, <3>7 DEF SumFunction
      <3>9. quantity'[i] = quantity[i] + qty /\ cost'[i] = cost[i] + qty * price
        BY <1>1, <2>3 DEF LotInv, Accounts
      <3>10. quantity[i] \in Int /\ cost[i] \in Int /\ qty * price \in Int /\ qty \in Int
        BY <1>2 DEF LotInv, Accounts
      <3>11. QED BY <3>8, <3>9, <3>10 DEF f, g
    <2>4. QED BY <2>2, <2>3
  <1>8. QED BY <1>4, <1>5, <1>6, <1>7 DEF LotInv

LEMMA SaleFinite ==
  ASSUME LotTypes, NEW ins, NEW qty \in Nat, NEW method, NEW price
  PROVE  /\ IsFiniteSet(Sold(ins, qty, method, price))
         /\ IsFiniteSet(Left(Sold(ins, qty, method, price)))
  <1> DEFINE S == Sellers(ins, qty, method, price)
             K == Kept(ins, qty, method, price)
             b == [lot \in S |-> Slip(lot, ins, qty, method, price)]
             c == [lot \in K |-> Rest(lot, ins, qty, method, price)]
  <1>1. IsFiniteSet(S) /\ IsFiniteSet(K)
    BY FS_Subset DEF LotTypes, Sellers, LotsOf, Kept
  <1>2. {b[lot] : lot \in S} = Sold(ins, qty, method, price)
    BY SoldIs
  <1>3. {c[lot] : lot \in K} = Left(Sold(ins, qty, method, price))
    BY LeftIs
  <1> HIDE DEF S, K, b, c
  <1>4. IsFiniteSet({b[lot] : lot \in S}) /\ IsFiniteSet({c[lot] : lot \in K})
    BY <1>1, FiniteImage
  <1>5. QED BY <1>2, <1>3, <1>4

FromLot(r, lot, ins, qty, method, price) ==
  /\ r = Slip(lot, ins, qty, method, price)
  /\ r.n = n /\ r.lot = lot.n /\ r.ins = ins /\ r.qty = Take(lot, qty, method, price)
  /\ r.qty \in Nat \ {0} /\ r.basis \in Nat /\ r.gain \in Int
  /\ r.basis = r.qty * lot.price /\ r.gain = r.qty * (price - lot.price)
  /\ r.long \in BOOLEAN /\ r.sold = when

LEMMA SlipIs ==
  ASSUME LotTypes, NEW ins, NEW qty \in Nat, NEW method, NEW price \in Int,
         NEW r \in Sold(ins, qty, method, price)
  PROVE  \E lot \in LotsOf(ins) : FromLot(r, lot, ins, qty, method, price)
  <1>1. PICK lot \in Sellers(ins, qty, method, price) : r = Slip(lot, ins, qty, method, price)
    BY SoldIs
  <1>2. lot \in LotsOf(ins) /\ lot \in book /\ Take(lot, qty, method, price) > 0
    BY <1>1 DEF Sellers, LotsOf
  <1>3. PICK k \in Nat : k = Take(lot, qty, method, price)
    <2>1. Take(lot, qty, method, price) \in 0..lot.qty /\ lot.qty \in Nat
      BY <1>2, TakeIs DEF LotTypes
    <2>2. QED BY <2>1
  <1>4. PICK p \in Nat : p = lot.price
    BY <1>2 DEF LotTypes
  <1>5. k * p \in Nat /\ k * (price - p) \in Int /\ k > 0
    BY <1>2, <1>3, <1>4
  <1>6. LongTerm(lot.acquired) \in BOOLEAN
    BY DEF LongTerm
  <1>7. FromLot(r, lot, ins, qty, method, price)
    BY <1>1, <1>2, <1>3, <1>4, <1>5, <1>6 DEF Slip, FromLot
  <1>8. QED BY <1>2, <1>7

LEMMA SellInv ==
  ASSUME LotInv, NEW ins \in Instruments, NEW qty \in Quantities, Sell(ins, qty)
  PROVE  LotInv'
  <1> DEFINE method == batch.method
             price == batch.prices[ins]
             sold == Sold(ins, qty, method, price)
  <1>1. /\ batch.open /\ ins \in DOMAIN batch.prices
        /\ book' = Left(sold)
        /\ batch' = [batch EXCEPT !.realized = batch.realized \cup sold]
        /\ quantity' = [quantity EXCEPT ![ins] = quantity[ins] - SumFunction([r \in sold |-> r.qty])]
        /\ cost' = [cost EXCEPT ![ins] = cost[ins] - SumFunction([r \in sold |-> r.basis])]
        /\ n' = n + 1 /\ UNCHANGED <<when, report, bought>>
    BY DEF Sell
  <1>2. price \in Nat \ {0} /\ qty \in Nat /\ n \in Nat /\ LotTypes
    BY <1>1, PriceIs, TaxAssumption DEF TaxAssumption, LotInv, LotTypes
  <1> HIDE DEF price, method
  <1>3. /\ book' = {Rest(lot, ins, qty, method, price) : lot \in Kept(ins, qty, method, price)}
        /\ IsFiniteSet(book') /\ IsFiniteSet(sold)
    BY <1>1, <1>2, LeftIs, SaleFinite
  <1>4. \A lot \in Kept(ins, qty, method, price) :
          LET rest == Rest(lot, ins, qty, method, price)
          IN  /\ lot \in book /\ rest.n = lot.n /\ rest.ins = lot.ins
              /\ rest.price = lot.price /\ rest.acquired = lot.acquired
              /\ rest.qty = lot.qty - Taken(lot, ins, qty, method, price)
              /\ rest.qty \in Nat \ {0}
              /\ rest = [n |-> rest.n, ins |-> rest.ins, qty |-> rest.qty, price |-> rest.price,
                         acquired |-> rest.acquired]
    <2> SUFFICES ASSUME NEW lot \in Kept(ins, qty, method, price)
                 PROVE  LET rest == Rest(lot, ins, qty, method, price)
                        IN  /\ lot \in book /\ rest.n = lot.n /\ rest.ins = lot.ins
                            /\ rest.price = lot.price /\ rest.acquired = lot.acquired
                            /\ rest.qty = lot.qty - Taken(lot, ins, qty, method, price)
                            /\ rest.qty \in Nat \ {0}
                            /\ rest = [n |-> rest.n, ins |-> rest.ins, qty |-> rest.qty,
                                       price |-> rest.price, acquired |-> rest.acquired]
      OBVIOUS
    <2>1. lot \in book
      BY DEF Kept
    <2>2. QED BY <1>2, <2>1, RestIs
  <1> HIDE DEF sold
  <1>5. LotTypes'
    <2>1. \A l \in book' :
            /\ l = [n |-> l.n, ins |-> l.ins, qty |-> l.qty, price |-> l.price, acquired |-> l.acquired]
            /\ l.n \in Nat /\ l.n < n' /\ l.ins \in Instruments
            /\ l.qty \in Nat \ {0} /\ l.price \in Nat \ {0} /\ l.acquired \in Nat
      BY <1>1, <1>2, <1>3, <1>4 DEF LotTypes
    <2>2. \A l, k \in book' : l.n = k.n => l = k
      BY <1>2, <1>3, <1>4 DEF LotTypes
    <2>3. QED BY <1>1, <1>2, <1>3, <2>1, <2>2 DEF LotTypes
  <1>6. Batches'
    <2>1. /\ batch'.open = batch.open /\ batch'.prices = batch.prices /\ batch'.method = batch.method
          /\ batch'.buys = batch.buys /\ batch'.realized = batch.realized \cup sold
          /\ batch' = [open |-> batch'.open, prices |-> batch'.prices, method |-> batch'.method,
                       buys |-> batch'.buys, realized |-> batch'.realized]
      BY <1>1 DEF LotInv, Batches
    <2>2. /\ batch'.open \in BOOLEAN /\ batch'.open
          /\ batch'.prices \in PriceMaps /\ batch'.method \in LotMethod
          /\ batch'.buys \subseteq bought'
          /\ \A b \in bought' : b.day \in Nat /\ b.day <= when'
      BY <1>1, <2>1 DEF LotInv, Batches
    <2>3. IsFiniteSet(batch'.realized)
      <3>1. IsFiniteSet(batch.realized)
        BY DEF LotInv, Batches
      <3>2. IsFiniteSet(batch.realized \cup sold)
        BY <1>3, <3>1, FS_Union
      <3>3. QED BY <2>1, <3>2
    <2>4. \A r \in sold : r.n = n /\ r.gain \in Int /\ r.long \in BOOLEAN /\ r.sold = when
      <3> SUFFICES ASSUME NEW r \in sold
                   PROVE  r.n = n /\ r.gain \in Int /\ r.long \in BOOLEAN /\ r.sold = when
        OBVIOUS
      <3>1. r \in Sold(ins, qty, method, price) /\ price \in Int
        BY <1>2 DEF sold
      <3>2. PICK lot \in LotsOf(ins) : FromLot(r, lot, ins, qty, method, price)
        BY <1>2, <3>1, SlipIs
      <3>3. QED BY <3>2 DEF FromLot
    <2>5. \A r \in batch'.realized :
            r.n \in Nat /\ r.n < n' /\ r.gain \in Int /\ r.long \in BOOLEAN /\ r.sold = when'
      BY <1>1, <1>2, <2>1, <2>4 DEF LotInv, Batches
    <2>6. QED BY <2>1, <2>2, <2>3, <2>5 DEF Batches
  <1>7. ASSUME NEW i \in Instruments
        PROVE  /\ SumFunction([r \in sold |-> r.qty]) \in Int
               /\ SumFunction([l \in LotsOf(i)' |-> l.qty])
                    = quantity[i] - IF i = ins THEN SumFunction([r \in sold |-> r.qty]) ELSE 0
    <2> DEFINE w == [lot \in book |-> 1]
               held == [lot \in LotsOf(i) |-> lot.qty]
               after == [lot \in LeftOf(i, ins, qty, method, price) |-> lot.qty]
               out == [r \in sold |-> r.qty]
    <2>1. LotsOf(i)' = LeftOf(i, ins, qty, method, price)
      BY <1>1 DEF LotsOf, LeftOf, sold
    <2>2. \A lot \in book : w[lot] \in Int /\ w[lot] = 1
      OBVIOUS
    <2>3. DOMAIN held = LotsOf(i) /\ \A lot \in LotsOf(i) : held[lot] = lot.qty * w[lot]
      BY <1>2 DEF LotsOf, LotTypes
    <2>4. DOMAIN after = LeftOf(i, ins, qty, method, price)
      OBVIOUS
    <2>5. \A lot \in Kept(ins, qty, method, price) :
            lot.ins = i => after[Rest(lot, ins, qty, method, price)]
                             = (lot.qty - Taken(lot, ins, qty, method, price)) * w[lot]
      <3> SUFFICES ASSUME NEW lot \in Kept(ins, qty, method, price), lot.ins = i
                   PROVE  after[Rest(lot, ins, qty, method, price)]
                            = (lot.qty - Taken(lot, ins, qty, method, price)) * w[lot]
        OBVIOUS
      <3>1. Rest(lot, ins, qty, method, price) \in LeftOf(i, ins, qty, method, price)
        BY <1>1, <1>3, <1>4 DEF LeftOf, sold
      <3>2. PICK q \in Nat : /\ q = lot.qty - Taken(lot, ins, qty, method, price)
                             /\ Rest(lot, ins, qty, method, price).qty = q /\ lot \in book
        BY <1>4
      <3>3. QED BY <2>2, <3>1, <3>2
    <2>6. DOMAIN out = Sold(ins, qty, method, price)
      BY DEF sold
    <2>7. \A lot \in Sellers(ins, qty, method, price) :
            out[Slip(lot, ins, qty, method, price)] = Take(lot, qty, method, price) * w[lot]
      <3> SUFFICES ASSUME NEW lot \in Sellers(ins, qty, method, price)
                   PROVE  out[Slip(lot, ins, qty, method, price)] = Take(lot, qty, method, price) * w[lot]
        OBVIOUS
      <3>1. lot \in book /\ Slip(lot, ins, qty, method, price) \in sold
        BY SoldIs DEF Sellers, LotsOf, sold
      <3>2. PICK q \in Int : q = Take(lot, qty, method, price)
        <4>1. Take(lot, qty, method, price) \in 0..lot.qty
          BY <1>2, <3>1, TakeIs
        <4>2. QED BY <4>1
      <3>3. out[Slip(lot, ins, qty, method, price)] = q
        BY <3>1, <3>2 DEF Slip
      <3>4. QED BY <2>2, <3>1, <3>2, <3>3
    <2>8. SumFunction(held) = quantity[i]
      BY DEF LotInv, BooksBalance, Held
    <2> HIDE DEF w, held, after, out
    <2>9. /\ SumFunction(out) \in Int /\ SumFunction(held) \in Int
          /\ SumFunction(after) = SumFunction(held) - IF i = ins THEN SumFunction(out) ELSE 0
      <3>1. Ledger(held, after, out, i, w, ins, qty, method, price)
        BY <2>2, <2>3, <2>4, <2>5, <2>6, <2>7 DEF Ledger
      <3>2. QED BY <1>2, <3>1, SaleMoves
    <2>10. QED BY <2>1, <2>8, <2>9 DEF after, out
  <1>8. ASSUME NEW i \in Instruments
        PROVE  /\ SumFunction([r \in sold |-> r.basis]) \in Int
               /\ SumFunction([l \in LotsOf(i)' |-> l.qty * l.price])
                    = cost[i] - IF i = ins THEN SumFunction([r \in sold |-> r.basis]) ELSE 0
    <2> DEFINE w == [lot \in book |-> lot.price]
               held == [lot \in LotsOf(i) |-> lot.qty * lot.price]
               after == [lot \in LeftOf(i, ins, qty, method, price) |-> lot.qty * lot.price]
               out == [r \in sold |-> r.basis]
    <2>1. LotsOf(i)' = LeftOf(i, ins, qty, method, price)
      BY <1>1 DEF LotsOf, LeftOf, sold
    <2>2. \A lot \in book : w[lot] \in Int /\ w[lot] = lot.price
      BY <1>2 DEF LotTypes
    <2>3. DOMAIN held = LotsOf(i) /\ \A lot \in LotsOf(i) : held[lot] = lot.qty * w[lot]
      BY DEF LotsOf
    <2>4. DOMAIN after = LeftOf(i, ins, qty, method, price)
      OBVIOUS
    <2>5. \A lot \in Kept(ins, qty, method, price) :
            lot.ins = i => after[Rest(lot, ins, qty, method, price)]
                             = (lot.qty - Taken(lot, ins, qty, method, price)) * w[lot]
      <3> SUFFICES ASSUME NEW lot \in Kept(ins, qty, method, price), lot.ins = i
                   PROVE  after[Rest(lot, ins, qty, method, price)]
                            = (lot.qty - Taken(lot, ins, qty, method, price)) * w[lot]
        OBVIOUS
      <3>1. Rest(lot, ins, qty, method, price) \in LeftOf(i, ins, qty, method, price)
        BY <1>1, <1>3, <1>4 DEF LeftOf, sold
      <3>2. PICK q \in Nat : /\ q = lot.qty - Taken(lot, ins, qty, method, price)
                             /\ Rest(lot, ins, qty, method, price).qty = q /\ lot \in book
                             /\ Rest(lot, ins, qty, method, price).price = lot.price
        BY <1>4
      <3>3. after[Rest(lot, ins, qty, method, price)] = q * lot.price
        BY <3>1, <3>2
      <3>4. QED BY <2>2, <3>2, <3>3
    <2>6. DOMAIN out = Sold(ins, qty, method, price)
      BY DEF sold
    <2>7. \A lot \in Sellers(ins, qty, method, price) :
            out[Slip(lot, ins, qty, method, price)] = Take(lot, qty, method, price) * w[lot]
      <3> SUFFICES ASSUME NEW lot \in Sellers(ins, qty, method, price)
                   PROVE  out[Slip(lot, ins, qty, method, price)] = Take(lot, qty, method, price) * w[lot]
        OBVIOUS
      <3>1. lot \in book /\ Slip(lot, ins, qty, method, price) \in sold
        BY SoldIs DEF Sellers, LotsOf, sold
      <3>2. out[Slip(lot, ins, qty, method, price)] = Take(lot, qty, method, price) * lot.price
        BY <3>1 DEF Slip
      <3>3. QED BY <2>2, <3>1, <3>2
    <2>8. SumFunction(held) = cost[i]
      BY DEF LotInv, BooksBalance
    <2> HIDE DEF w, held, after, out
    <2>9. /\ SumFunction(out) \in Int /\ SumFunction(held) \in Int
          /\ SumFunction(after) = SumFunction(held) - IF i = ins THEN SumFunction(out) ELSE 0
      <3>1. Ledger(held, after, out, i, w, ins, qty, method, price)
        BY <2>2, <2>3, <2>4, <2>5, <2>6, <2>7 DEF Ledger
      <3>2. QED BY <1>2, <3>1, SaleMoves
    <2>10. QED BY <2>1, <2>8, <2>9 DEF after, out
  <1>9. Accounts'
    <2>1. /\ quantity \in [Instruments -> Int] /\ cost \in [Instruments -> Int]
          /\ SumFunction([r \in sold |-> r.qty]) \in Int /\ SumFunction([r \in sold |-> r.basis]) \in Int
      BY <1>7, <1>8 DEF LotInv, Accounts
    <2>2. PICK a \in Int, b \in Int :
            a = SumFunction([r \in sold |-> r.qty]) /\ b = SumFunction([r \in sold |-> r.basis])
      BY <2>1
    <2>3. /\ quantity' = [quantity EXCEPT ![ins] = quantity[ins] - a]
          /\ cost' = [cost EXCEPT ![ins] = cost[ins] - b]
      BY <1>1, <2>2
    <2>4. QED BY <2>1, <2>3 DEF Accounts
  <1>10. BooksBalance'
    <2> SUFFICES ASSUME NEW i \in Instruments
                 PROVE  /\ SumFunction([l \in LotsOf(i)' |-> l.qty]) = quantity'[i]
                        /\ SumFunction([l \in LotsOf(i)' |-> l.qty * l.price]) = cost'[i]
      BY DEF BooksBalance, Held
    <2>1. /\ quantity'[i] = quantity[i] - IF i = ins THEN SumFunction([r \in sold |-> r.qty]) ELSE 0
          /\ cost'[i] = cost[i] - IF i = ins THEN SumFunction([r \in sold |-> r.basis]) ELSE 0
      BY <1>1 DEF LotInv, Accounts
    <2>2. QED BY <1>7, <1>8, <2>1
  <1>11. QED BY <1>5, <1>6, <1>9, <1>10 DEF LotInv

LEMMA LotsQuietInv ==
  ASSUME LotInv,
         \/ \E prices \in PriceMaps, method \in LotMethod : Open(prices, method)
         \/ PriceMissing \/ Report \/ NextDay \/ UNCHANGED lotVars
  PROVE  LotInv'
  <1>1. UNCHANGED <<book, n, history>>
    BY DEF Open, PriceMissing, Report, NextDay, lotVars, history
  <1>2. when' = when \/ (when' = when + 1 /\ batch' = batch /\ ~batch.open)
    BY DEF Open, PriceMissing, Report, NextDay, lotVars
  <1>3. LotTypes'
    BY <1>1, <1>2 DEF LotInv, LotTypes
  <1>4. Accounts' /\ BooksBalance'
    BY <1>1 DEF history, LotInv, Accounts, BooksBalance, Held, LotsOf
  <1>5. \A b \in bought' : b.day \in Nat /\ b.day <= when'
    BY <1>1, <1>2 DEF history, LotInv, Batches, LotTypes
  <1>6. Batches'
    <2>1. CASE batch' = NoBatch
      BY <1>1, <1>5, <2>1, FS_EmptySet DEF Batches, NoBatch
    <2>2. CASE batch' = batch
      BY <1>1, <1>2, <1>5, <2>2 DEF history, LotInv, Batches, NoBatch
    <2>3. ASSUME NEW prices \in PriceMaps, NEW method \in LotMethod, Open(prices, method)
          PROVE  Batches'
      <3>1. PICK known \in {{}, bought} :
              batch' = [open |-> TRUE, prices |-> prices, method |-> method, buys |-> known, realized |-> {}]
        BY <2>3 DEF Open
      <3>2. QED BY <1>1, <1>5, <3>1, FS_EmptySet DEF history, Batches
    <2>4. QED BY <2>1, <2>2, <2>3 DEF PriceMissing, Report, NextDay, lotVars
  <1>7. QED BY <1>3, <1>4, <1>6 DEF LotInv

LEMMA LotsNextInv == LotInv /\ [LotsNext]_lotVars => LotInv'
  BY BuyInv, SellInv, LotsQuietInv DEF LotsNext

LEMMA LotsInvariance == LotsSpec => []LotInv
  BY LotsInitInv, LotsNextInv, PTL DEF LotsSpec

(* No share and no cost is lost or counted twice.                          *)
THEOREM LotsBalance == LotsSpec => []BooksBalance
  <1>1. LotInv => BooksBalance
    BY DEF LotInv
  <1>2. QED BY <1>1, LotsInvariance, PTL

-----------------------------------------------------------------------------
Gains(S) == SumFunction([r \in S |-> r.gain])

Taxes(S) == SumFunction([r \in S |-> TaxOn(r.gain, r.long)])

LEMMA GainsOf ==
  ASSUME Batches, NEW S \in SUBSET batch.realized
  PROVE  /\ IsFiniteSet(S) /\ Gains(S) \in Int /\ Taxes(S) \in Int
         /\ \A T \in SUBSET S : Gains(S) = Gains(T) + Gains(S \ T) /\ Taxes(S) = Taxes(T) + Taxes(S \ T)
         /\ \A long \in BOOLEAN : (\A r \in S : r.long = long) => TaxOn(Gains(S), long) = Taxes(S)
  <1> DEFINE G == [r \in S |-> r.gain]
             X == [r \in S |-> TaxOn(r.gain, r.long)]
             zero == [r \in S |-> 0]
  <1>1. IsFiniteSet(S) /\ \A r \in S : r.gain \in Int /\ r.long \in BOOLEAN
    BY FS_Subset DEF Batches
  <1>2. LongRate \in Int /\ ShortRate \in Int
    BY TaxAssumption DEF TaxAssumption
  <1>3. \A r \in S : /\ G[r] = r.gain /\ G[r] \in Int
                     /\ X[r] = TaxOn(r.gain, r.long) /\ X[r] \in Int
    <2> SUFFICES ASSUME NEW r \in S PROVE TaxOn(r.gain, r.long) \in Int
      BY <1>1
    <2>1. PICK g \in Int : g = r.gain
      BY <1>1
    <2>2. g * LongRate \in Int /\ g * ShortRate \in Int
      BY <1>2
    <2>3. QED BY <2>1, <2>2 DEF TaxOn
  <1>4. \A T \in SUBSET S : Gains(T) = SumFunctionOnSet(G, T) /\ Taxes(T) = SumFunctionOnSet(X, T)
    <2> SUFFICES ASSUME NEW T \in SUBSET S
                 PROVE  Gains(T) = SumFunctionOnSet(G, T) /\ Taxes(T) = SumFunctionOnSet(X, T)
      OBVIOUS
    <2> DEFINE a == [r \in T |-> r.gain]
               b == [r \in T |-> TaxOn(r.gain, r.long)]
    <2>1. IsFiniteSet(T)
      BY <1>1, FS_Subset
    <2>2. DOMAIN a = T /\ DOMAIN b = T /\ \A r \in T : a[r] = G[r] /\ b[r] = X[r]
      OBVIOUS
    <2> HIDE DEF a, b, G, X
    <2>3. SumFunction(a) = SumFunctionOnSet(G, T) /\ SumFunction(b) = SumFunctionOnSet(X, T)
      BY <2>1, <2>2, SumOver
    <2>4. QED BY <2>3 DEF Gains, Taxes, a, b
  <1> HIDE DEF G, X
  <1>5. Gains(S) \in Int /\ Taxes(S) \in Int
    BY <1>1, <1>3, <1>4, SumInt
  <1>6. \A T \in SUBSET S : Gains(S) = Gains(T) + Gains(S \ T) /\ Taxes(S) = Taxes(T) + Taxes(S \ T)
    <2> SUFFICES ASSUME NEW T \in SUBSET S
                 PROVE  Gains(S) = Gains(T) + Gains(S \ T) /\ Taxes(S) = Taxes(T) + Taxes(S \ T)
      OBVIOUS
    <2>1. /\ SumFunctionOnSet(G, S) = SumFunctionOnSet(G, T) + SumFunctionOnSet(G, S \ T)
          /\ SumFunctionOnSet(X, S) = SumFunctionOnSet(X, T) + SumFunctionOnSet(X, S \ T)
      BY <1>1, <1>3, SumSplit
    <2>2. S \ T \in SUBSET S
      OBVIOUS
    <2>3. QED BY <1>4, <2>1, <2>2
  <1>7. ASSUME NEW long \in BOOLEAN, \A r \in S : r.long = long
        PROVE  TaxOn(Gains(S), long) = Taxes(S)
    <2>1. PICK rate \in Int : rate = IF long THEN LongRate ELSE ShortRate
      BY <1>2
    <2>2. \A r \in S : X[r] = zero[r] + rate * G[r] /\ zero[r] \in Int
      <3> SUFFICES ASSUME NEW r \in S PROVE X[r] = zero[r] + rate * G[r]
        OBVIOUS
      <3>1. PICK g \in Int : g = r.gain /\ g = G[r]
        BY <1>3
      <3>2. X[r] = g * rate
        BY <1>3, <1>7, <2>1, <3>1 DEF TaxOn
      <3>3. g * rate = 0 + rate * g
        OBVIOUS
      <3>4. QED BY <3>1, <3>2, <3>3
    <2> HIDE DEF zero
    <2>3. SumFunctionOnSet(X, S) = SumFunctionOnSet(zero, S) + rate * SumFunctionOnSet(G, S)
      BY <1>1, <1>3, <2>2, SumLinear
    <2>4. SumFunctionOnSet(zero, S) = 0
      BY <1>1, SumZero DEF zero
    <2>5. Taxes(S) = 0 + rate * Gains(S) /\ Gains(S) \in Int
      BY <1>4, <1>5, <2>3, <2>4
    <2>6. QED BY <2>1, <2>5 DEF TaxOn
  <1>8. QED BY <1>1, <1>5, <1>6, <1>7

LEMMA Counts ==
  ASSUME LotInv, Report
  PROVE  LET known(r)  == \E b \in bought : /\ b.ins = r.ins
                                             /\ r.sold - b.day \in 0..WindowDays
                                             /\ b \in batch.buys
             counted   == {r \in batch.realized : r.gain >= 0 \/ ~known(r)}
         IN  /\ report'.tax = SumFunction([r \in counted |-> TaxOn(r.gain, r.long)])
             /\ report'.st + report'.lt + report'.wash = SumFunction([r \in counted |-> r.gain])
  <1> DEFINE known(r)  == \E b \in bought : /\ b.ins = r.ins
                                             /\ r.sold - b.day \in 0..WindowDays
                                             /\ b \in batch.buys
             counted   == {r \in batch.realized : r.gain >= 0 \/ ~known(r)}
             gains == batch.realized
             wash == {r \in gains : Washed(r, batch.buys)}
             Side(long) == {r \in gains : r.long = long}
  <1>1. Batches /\ when \in Nat /\ WindowDays \in Nat
    BY TaxAssumption DEF LotInv, LotTypes, TaxAssumption
  <1>2. \A r \in gains : Washed(r, batch.buys) <=> (r.gain < 0 /\ known(r))
    <2> SUFFICES ASSUME NEW r \in gains
                 PROVE  Washed(r, batch.buys) <=> (r.gain < 0 /\ known(r))
      OBVIOUS
    <2>1. r.sold = when
      BY <1>1 DEF Batches
    <2>2. \A b \in batch.buys : b \in bought /\ (Abs(r.sold - b.day) <= WindowDays
                                                   <=> r.sold - b.day \in 0..WindowDays)
      BY <1>1, <2>1 DEF Batches, Abs
    <2>3. QED BY <2>2 DEF Washed
  <1>3. \A r \in gains : r.gain \in Int /\ r.long \in BOOLEAN
    BY <1>1 DEF Batches
  <1> HIDE DEF known
  <1>4. counted = gains \ wash
    BY <1>2, <1>3
  <1>5. /\ report'.st = Gains(Side(FALSE)) /\ report'.lt = Gains(Side(TRUE))
        /\ report'.wash = -Gains(wash)
        /\ report'.tax = TaxOn(Gains(Side(FALSE) \ wash), FALSE) + TaxOn(Gains(Side(TRUE) \ wash), TRUE)
    BY DEF Report, Gains
  <1>6. /\ Side(FALSE) = gains \ Side(TRUE) /\ Side(TRUE) \subseteq gains
        /\ Side(FALSE) \ wash = counted \ (Side(TRUE) \ wash) /\ Side(TRUE) \ wash \subseteq counted
        /\ \A r \in Side(FALSE) \ wash : r.long = FALSE
        /\ \A r \in Side(TRUE) \ wash : r.long = TRUE
    BY <1>3, <1>4
  <1> HIDE DEF counted, wash, Side
  <1>7. wash \subseteq gains /\ counted \subseteq gains
    BY <1>4 DEF wash
  <1>8. /\ Gains(gains) = Gains(Side(TRUE)) + Gains(Side(FALSE))
        /\ Gains(gains) = Gains(wash) + Gains(counted)
        /\ Taxes(counted) = Taxes(Side(TRUE) \ wash) + Taxes(Side(FALSE) \ wash)
    <2> DEFINE T == Side(TRUE)
               U == Side(TRUE) \ wash
    <2>1. T \in SUBSET gains /\ Gains(gains) = Gains(T) + Gains(gains \ T)
      BY <1>1, <1>6, GainsOf
    <2>2. Gains(gains) = Gains(wash) + Gains(gains \ wash)
      BY <1>1, <1>7, GainsOf
    <2>3. counted \in SUBSET gains /\ U \in SUBSET counted
      BY <1>6, <1>7
    <2> HIDE DEF T, U
    <2>4. Taxes(counted) = Taxes(U) + Taxes(counted \ U)
      BY <1>1, <2>3, GainsOf
    <2>5. gains \ T = Side(FALSE) /\ gains \ wash = counted /\ counted \ U = Side(FALSE) \ wash
      BY <1>4, <1>6 DEF T, U
    <2>6. QED BY <2>1, <2>2, <2>4, <2>5 DEF T, U
  <1>9. /\ Gains(Side(TRUE)) \in Int /\ Gains(Side(FALSE)) \in Int /\ Gains(wash) \in Int
        /\ Gains(counted) \in Int /\ Gains(gains) \in Int
        /\ Taxes(Side(TRUE) \ wash) \in Int /\ Taxes(Side(FALSE) \ wash) \in Int
    BY <1>1, <1>6, <1>7, GainsOf
  <1>10. /\ TaxOn(Gains(Side(FALSE) \ wash), FALSE) = Taxes(Side(FALSE) \ wash)
         /\ TaxOn(Gains(Side(TRUE) \ wash), TRUE) = Taxes(Side(TRUE) \ wash)
    <2>1. Side(FALSE) \ wash \in SUBSET gains /\ Side(TRUE) \ wash \in SUBSET gains
      BY <1>6, <1>7
    <2>2. QED BY <1>1, <1>6, <2>1, GainsOf
  <1>11. report'.tax = Taxes(counted)
    <2>1. PICK a \in Int, b \in Int : a = Taxes(Side(TRUE) \ wash) /\ b = Taxes(Side(FALSE) \ wash)
      BY <1>9
    <2>2. report'.tax = b + a /\ Taxes(counted) = a + b
      BY <1>5, <1>8, <1>10, <2>1
    <2>3. QED BY <2>1, <2>2
  <1>12. report'.st + report'.lt + report'.wash = Gains(counted)
    <2>1. PICK a \in Int, b \in Int, c \in Int, d \in Int :
            a = Gains(Side(TRUE)) /\ b = Gains(Side(FALSE)) /\ c = Gains(wash) /\ d = Gains(counted)
      BY <1>9
    <2>2. a + b = c + d
      BY <1>8, <2>1
    <2>3. report'.st + report'.lt + report'.wash = b + a + (-c)
      BY <1>5, <2>1
    <2>4. b + a + (-c) = d
      BY <2>2
    <2>5. QED BY <2>1, <2>3, <2>4
  <1>13. QED BY <1>11, <1>12 DEF Gains, Taxes, counted, known

(* A report leaves out the losses a known purchase washes, and no other.   *)
THEOREM WashSalesFlagged == LotsSpec => WashedLossesCount
  <1>1. LotInv /\ [LotsNext]_lotVars /\ batch.open /\ report' # report => Report
    BY DEF LotsNext, Open, Buy, Sell, PriceMissing, NextDay, lotVars
  <1>2. LotInv /\ [LotsNext]_lotVars
          => [batch.open /\ report' # report =>
               LET known(r)  == \E b \in bought : /\ b.ins = r.ins
                                                  /\ r.sold - b.day \in 0..WindowDays
                                                  /\ b \in batch.buys
                   counted   == {r \in batch.realized : r.gain >= 0 \/ ~known(r)}
               IN  /\ report'.tax = SumFunction([r \in counted |-> TaxOn(r.gain, r.long)])
                   /\ report'.st + report'.lt + report'.wash
                        = SumFunction([r \in counted |-> r.gain])]_lotVars
    BY <1>1, Counts
  <1>3. QED BY <1>2, LotsInvariance, PTL DEF LotsSpec, WashedLossesCount

-----------------------------------------------------------------------------
LEMMA KeyIsInt ==
  ASSUME LotTypes, NEW method \in LotMethod, NEW price \in Int, NEW lot \in book
  PROVE  Key(lot, method, price) \in Int
  <1>1. lot.acquired \in Int /\ lot.price \in Int
    BY DEF LotTypes
  <1>2. TaxOn(price - lot.price, LongTerm(lot.acquired)) \in Int
    <2>1. PICK g \in Int : g = price - lot.price
      BY <1>1
    <2>2. g * LongRate \in Int /\ g * ShortRate \in Int
      BY <2>1, TaxAssumption DEF TaxAssumption
    <2>3. QED BY <2>1, <2>2 DEF TaxOn
  <1>3. CASE method = "fifo"
    BY <1>1, <1>3 DEF Key
  <1>4. CASE method = "lifo"
    BY <1>1, <1>4 DEF Key
  <1>5. CASE method = "hifo"
    BY <1>1, <1>5 DEF Key
  <1>6. CASE method = "min_tax"
    BY <1>2, <1>6 DEF Key
  <1>7. QED BY <1>3, <1>4, <1>5, <1>6 DEF LotMethod

(* A sale empties the lots whose key is smaller than that of the last one  *)
(* it takes from, and leaves those alone whose key is greater.             *)
LEMMA Pivot ==
  ASSUME LotTypes, NEW ins, NEW qty \in Nat, NEW method \in LotMethod, NEW price \in Int,
         NEW first \in LotsOf(ins), Take(first, qty, method, price) > 0
  PROVE  \E k \in Int : \A lot \in LotsOf(ins) :
           /\ Key(lot, method, price) < k => Take(lot, qty, method, price) = lot.qty
           /\ Key(lot, method, price) > k => Take(lot, qty, method, price) = 0
  <1> DEFINE S == Sellers(ins, qty, method, price)
             key == [lot \in book |-> Key(lot, method, price)]
  <1>1. LotsOf(ins) \subseteq book /\ S \subseteq LotsOf(ins) /\ first \in S /\ IsFiniteSet(S)
        /\ IsFiniteSet(LotsOf(ins)) /\ \A lot \in LotsOf(ins) : lot.ins = ins
    BY FS_Subset DEF LotTypes, LotsOf, Sellers
  <1>2. \A lot \in LotsOf(ins) : key[lot] = Key(lot, method, price) /\ key[lot] \in Int
    BY <1>1, KeyIsInt
  <1>3. PICK last \in S : \A lot \in S : key[lot] <= key[last]
    <2>1. \A lot \in S : key[lot] \in Int
      BY <1>1, <1>2
    <2> HIDE DEF S, key
    <2>2. QED BY <1>1, <2>1, Greatest
  <1>4. \A lot \in LotsOf(ins) : Take(lot, qty, method, price) \in 0..lot.qty /\ lot.qty \in Nat
    BY <1>1, TakeIs DEF LotTypes
  <1>5. last \in LotsOf(ins) /\ last \in book /\ key[last] \in Int /\ Take(last, qty, method, price) > 0
    BY <1>1, <1>2 DEF Sellers
  <1> HIDE DEF key
  <1>6. ASSUME NEW lot \in LotsOf(ins), key[lot] > key[last]
        PROVE  Take(lot, qty, method, price) = 0
    <2>1. lot \notin S
      BY <1>2, <1>3, <1>5, <1>6
    <2>2. QED BY <1>4, <2>1 DEF Sellers
  <1>7. ASSUME NEW lot \in LotsOf(ins), key[lot] < key[last]
        PROVE  Take(lot, qty, method, price) = lot.qty
    <2> DEFINE A(l) == Ahead(l, method, price)
    <2>1. lot \in book /\ lot.qty \in Nat
      BY <1>1, <1>4
    <2>2. A(last) \subseteq book /\ A(lot) \cup {lot} \subseteq A(last) /\ lot \notin A(lot)
          /\ A(lot) \subseteq book
      <3>1. A(last) = {l \in LotsOf(ins) : key[l] < key[last] \/ (key[l] = key[last] /\ l.n < last.n)}
        BY <1>1, <1>2, <1>5 DEF Ahead
      <3>2. A(lot) = {l \in LotsOf(ins) : key[l] < key[lot] \/ (key[l] = key[lot] /\ l.n < lot.n)}
        BY <1>1, <1>2 DEF Ahead
      <3>3. \A l \in A(lot) : key[l] < key[last]
        BY <1>2, <1>5, <1>7, <3>2
      <3>4. lot \notin A(lot)
        BY <1>1, <1>2, <3>2 DEF LotTypes
      <3> HIDE DEF A
      <3>5. QED BY <1>1, <1>7, <3>1, <3>2, <3>3, <3>4
    <2> HIDE DEF A
    <2>3. PICK x \in Nat, y \in Nat : /\ x = SumFunctionOnSet(Shares, A(lot))
                                      /\ y = SumFunctionOnSet(Shares, A(last))
      BY <2>2, SharesOfLots
    <2>4. lot.qty + x <= y
      <3>1. IsFiniteSet(A(lot)) /\ \A l \in A(lot) \cup {lot} : Shares[l] \in Int
        BY <2>1, <2>2, FS_Subset DEF LotTypes, Shares
      <3>2. SumFunctionOnSet(Shares, A(lot) \cup {lot}) = Shares[lot] + SumFunctionOnSet(Shares, A(lot))
        BY <2>2, <3>1, SumAdd
      <3>3. SumFunctionOnSet(Shares, A(lot) \cup {lot}) <= SumFunctionOnSet(Shares, A(last))
        BY <2>2, SharesOfLots
      <3>4. Shares[lot] = lot.qty
        BY <2>1 DEF Shares
      <3>5. QED BY <2>3, <3>2, <3>3, <3>4
    <2>5. Take(last, qty, method, price)
            = IF qty - y >= last.qty THEN last.qty ELSE Positive(qty - y)
      BY <1>5, <2>3, TakeIs DEF A
    <2>6. qty - y > 0
      BY <1>4, <1>5, <2>3, <2>5 DEF Positive
    <2>7. Take(lot, qty, method, price) = IF qty - x >= lot.qty THEN lot.qty ELSE Positive(qty - x)
      BY <2>1, <2>3, TakeIs DEF A
    <2>8. QED BY <2>1, <2>3, <2>4, <2>6, <2>7
  <1>8. QED BY <1>2, <1>5, <1>6, <1>7

(* Of all ways to take as many shares, a sale has the smallest sum of keys.*)
LEMMA Greedy ==
  ASSUME LotTypes, NEW ins, NEW qty \in Nat, NEW method \in LotMethod, NEW price \in Int,
         NEW first \in LotsOf(ins), Take(first, qty, method, price) > 0,
         NEW made, \A lot \in LotsOf(ins) : made[lot] = Take(lot, qty, method, price),
         NEW take, \A lot \in LotsOf(ins) : take[lot] \in 0..lot.qty,
         SumFunctionOnSet(made, LotsOf(ins)) = SumFunctionOnSet(take, LotsOf(ins))
  PROVE  SumFunctionOnSet([lot \in LotsOf(ins) |-> made[lot] * Key(lot, method, price)], LotsOf(ins))
           <= SumFunctionOnSet([lot \in LotsOf(ins) |-> take[lot] * Key(lot, method, price)], LotsOf(ins))
  <1> DEFINE L == LotsOf(ins)
             q == [lot \in L |-> made[lot] * Key(lot, method, price)]
             p == [lot \in L |-> take[lot] * Key(lot, method, price)]
             d == [lot \in L |-> take[lot] - made[lot]]
             pq == [lot \in L |-> p[lot] - q[lot]]
  <1>1. PICK k \in Int : \A lot \in L :
           /\ Key(lot, method, price) < k => Take(lot, qty, method, price) = lot.qty
           /\ Key(lot, method, price) > k => Take(lot, qty, method, price) = 0
    BY Pivot
  <1> DEFINE e == [lot \in L |-> pq[lot] + (-k) * d[lot]]
             zero == [lot \in L |-> 0]
  <1>2. L \subseteq book /\ IsFiniteSet(L)
    BY FS_Subset DEF LotTypes, LotsOf
  <1>3. \A lot \in L : /\ made[lot] \in Int /\ take[lot] \in Int /\ p[lot] \in Int /\ q[lot] \in Int
                       /\ d[lot] \in Int /\ pq[lot] \in Int /\ e[lot] \in Int /\ e[lot] >= 0
                       /\ pq[lot] = p[lot] + (-1) * q[lot]
                       /\ d[lot] = take[lot] + (-1) * made[lot]
                       /\ e[lot] = pq[lot] + (-k) * d[lot]
    <2> SUFFICES ASSUME NEW lot \in L
                 PROVE /\ made[lot] \in Int /\ take[lot] \in Int /\ p[lot] \in Int /\ q[lot] \in Int
                       /\ d[lot] \in Int /\ pq[lot] \in Int /\ e[lot] \in Int /\ e[lot] >= 0
                       /\ pq[lot] = p[lot] + (-1) * q[lot]
                       /\ d[lot] = take[lot] + (-1) * made[lot]
                       /\ e[lot] = pq[lot] + (-k) * d[lot]
      OBVIOUS
    <2>1. PICK m \in Nat, t \in Nat, c \in Nat, x \in Int :
            /\ m = made[lot] /\ t = take[lot] /\ c = lot.qty /\ x = Key(lot, method, price)
            /\ m <= c /\ t <= c
      <3>1. Take(lot, qty, method, price) \in 0..lot.qty /\ lot.qty \in Nat
        BY <1>2, TakeIs DEF LotTypes
      <3>2. Key(lot, method, price) \in Int
        BY <1>2, KeyIsInt
      <3>3. made[lot] \in Nat /\ made[lot] <= lot.qty /\ take[lot] \in Nat /\ take[lot] <= lot.qty
        BY <3>1
      <3>4. QED BY <3>1, <3>2, <3>3
    <2>2. (x < k => m = c) /\ (x > k => m = 0)
      BY <1>1, <2>1
    <2>3. p[lot] = t * x /\ q[lot] = m * x /\ d[lot] = t - m /\ pq[lot] = t * x - m * x
          /\ e[lot] = (t * x - m * x) + (-k) * (t - m)
      BY <2>1
    <2>4. (t * x - m * x) + (-k) * (t - m) = (t - m) * (x - k)
      BY <2>1
    <2>5. (t - m) * (x - k) >= 0
      <3>1. CASE x < k
        <4>1. t - m <= 0 /\ x - k <= 0
          BY <2>1, <2>2, <3>1
        <4>2. QED BY <2>1, <4>1
      <3>2. CASE x >= k
        <4>1. (t - m >= 0 \/ x - k = 0) /\ x - k >= 0
          BY <2>1, <2>2, <3>2
        <4>2. QED BY <2>1, <4>1
      <3>3. QED BY <2>1, <3>1, <3>2
    <2>6. QED BY <2>1, <2>3, <2>4, <2>5
  <1> HIDE DEF L, p, q, d, pq, e, zero
  <1>4. /\ SumFunctionOnSet(pq, L) = SumFunctionOnSet(p, L) + (-1) * SumFunctionOnSet(q, L)
        /\ SumFunctionOnSet(d, L) = SumFunctionOnSet(take, L) + (-1) * SumFunctionOnSet(made, L)
        /\ SumFunctionOnSet(e, L) = SumFunctionOnSet(pq, L) + (-k) * SumFunctionOnSet(d, L)
    BY <1>2, <1>3, SumLinear
  <1>5. /\ SumFunctionOnSet(p, L) \in Int /\ SumFunctionOnSet(q, L) \in Int
        /\ SumFunctionOnSet(take, L) \in Int /\ SumFunctionOnSet(made, L) \in Int
    BY <1>2, <1>3, SumInt
  <1>6. SumFunctionOnSet(take, L) = SumFunctionOnSet(made, L)
    BY DEF L
  <1>7. SumFunctionOnSet(d, L) = 0
    BY <1>4, <1>5, <1>6
  <1>8. SumFunctionOnSet(e, L) = SumFunctionOnSet(pq, L) + 0
    BY <1>4, <1>7
  <1>9. SumFunctionOnSet(e, L) >= 0
    <2>1. \A lot \in L : zero[lot] = 0
      BY DEF zero
    <2>2. SumFunctionOnSet(zero, L) = 0
      BY <1>2, <2>1, SumZero
    <2>3. \A lot \in L : zero[lot] \in Int /\ e[lot] \in Int /\ zero[lot] <= e[lot]
      BY <1>3, <2>1
    <2>4. SumFunctionOnSet(zero, L) <= SumFunctionOnSet(e, L)
      BY <1>2, <2>3, SumMonotone
    <2>5. SumFunctionOnSet(e, L) \in Int
      BY <1>2, <1>3, SumInt
    <2>6. QED BY <2>2, <2>4, <2>5
  <1>10. SumFunctionOnSet(q, L) <= SumFunctionOnSet(p, L)
    BY <1>4, <1>5, <1>8, <1>9
  <1>11. QED BY <1>10 DEF L, p, q

(* What a sale made of its lots, and another way to sell as many shares.   *)
Rivals(made, take, ins, qty, method, price) ==
  /\ \E lot \in LotsOf(ins) : Take(lot, qty, method, price) > 0
  /\ \A lot \in LotsOf(ins) : made[lot] = Take(lot, qty, method, price)
  /\ \A lot \in LotsOf(ins) : take[lot] \in 0..lot.qty
  /\ SumFunctionOnSet(made, LotsOf(ins)) = SumFunctionOnSet(take, LotsOf(ins))

(* Values that rise, for s = 1, or fall, for s = -1, with the key.         *)
Ranked(value, c, s, ins, method, price) ==
  \A lot \in LotsOf(ins) : value[lot] = c + s * Key(lot, method, price)

Valued(take, value, ins) == SumFunction([lot \in LotsOf(ins) |-> take[lot] * value[lot]])

KeySum(take, ins, method, price) ==
  SumFunctionOnSet([lot \in LotsOf(ins) |-> take[lot] * Key(lot, method, price)], LotsOf(ins))

LEMMA ValueOf ==
  ASSUME LotTypes, NEW ins, NEW method \in LotMethod, NEW price \in Int, NEW take,
         \A lot \in LotsOf(ins) : take[lot] \in Int,
         NEW value, NEW c \in Int, NEW s \in Int, Ranked(value, c, s, ins, method, price)
  PROVE  /\ KeySum(take, ins, method, price) \in Int /\ SumFunctionOnSet(take, LotsOf(ins)) \in Int
         /\ Valued(take, value, ins)
              = c * SumFunctionOnSet(take, LotsOf(ins)) + s * KeySum(take, ins, method, price)
  <1> DEFINE L == LotsOf(ins)
             p == [lot \in L |-> take[lot] * Key(lot, method, price)]
             v == [lot \in L |-> take[lot] * value[lot]]
             zero == [lot \in L |-> 0]
             ct == [lot \in L |-> zero[lot] + c * take[lot]]
  <1>1. L \subseteq book /\ IsFiniteSet(L)
    BY FS_Subset DEF LotTypes, LotsOf
  <1>2. \A lot \in L : /\ take[lot] \in Int /\ zero[lot] \in Int /\ p[lot] \in Int /\ ct[lot] \in Int
                       /\ ct[lot] = zero[lot] + c * take[lot]
                       /\ v[lot] = ct[lot] + s * p[lot]
    <2> SUFFICES ASSUME NEW lot \in L
                 PROVE /\ take[lot] \in Int /\ zero[lot] \in Int /\ p[lot] \in Int /\ ct[lot] \in Int
                       /\ ct[lot] = zero[lot] + c * take[lot]
                       /\ v[lot] = ct[lot] + s * p[lot]
      OBVIOUS
    <2>1. PICK t \in Int, x \in Int : t = take[lot] /\ x = Key(lot, method, price)
      BY <1>1, KeyIsInt
    <2>2. p[lot] = t * x /\ zero[lot] = 0 /\ ct[lot] = 0 + c * t /\ v[lot] = t * (c + s * x)
      BY <2>1 DEF Ranked
    <2>3. t * (c + s * x) = (0 + c * t) + s * (t * x)
      BY <2>1
    <2>4. QED BY <2>1, <2>2, <2>3
  <1>3. DOMAIN v = L
    OBVIOUS
  <1> HIDE DEF L, p, v, zero, ct
  <1>4. /\ SumFunctionOnSet(ct, L) = SumFunctionOnSet(zero, L) + c * SumFunctionOnSet(take, L)
        /\ SumFunctionOnSet(v, L) = SumFunctionOnSet(ct, L) + s * SumFunctionOnSet(p, L)
    <2>1. \A lot \in L : zero[lot] \in Int /\ take[lot] \in Int /\ ct[lot] = zero[lot] + c * take[lot]
      BY <1>2
    <2>2. \A lot \in L : ct[lot] \in Int /\ p[lot] \in Int /\ v[lot] = ct[lot] + s * p[lot]
      BY <1>2
    <2>3. SumFunctionOnSet(ct, L) = SumFunctionOnSet(zero, L) + c * SumFunctionOnSet(take, L)
      BY <1>1, <2>1, SumLinear
    <2>4. SumFunctionOnSet(v, L) = SumFunctionOnSet(ct, L) + s * SumFunctionOnSet(p, L)
      BY <1>1, <2>2, SumLinear
    <2>5. QED BY <2>3, <2>4
  <1>5. SumFunctionOnSet(p, L) \in Int /\ SumFunctionOnSet(take, L) \in Int
    BY <1>1, <1>2, SumInt
  <1>6. SumFunctionOnSet(zero, L) = 0
    BY <1>1, SumZero DEF zero
  <1>7. SumFunctionOnSet(v, L) = c * SumFunctionOnSet(take, L) + s * SumFunctionOnSet(p, L)
    BY <1>4, <1>5, <1>6
  <1>8. Valued(take, value, ins) = SumFunctionOnSet(v, L)
    BY <1>3 DEF Valued, SumFunction, v, L
  <1>9. QED BY <1>5, <1>7, <1>8 DEF p, L, KeySum

LEMMA BestValue ==
  ASSUME LotTypes, NEW ins, NEW qty \in Nat, NEW method \in LotMethod, NEW price \in Int,
         NEW made, NEW take, Rivals(made, take, ins, qty, method, price),
         NEW value, NEW c \in Int, NEW s \in {1, -1}, Ranked(value, c, s, ins, method, price)
  PROVE  /\ s = 1 => Valued(made, value, ins) <= Valued(take, value, ins)
         /\ s = -1 => Valued(made, value, ins) >= Valued(take, value, ins)
  <1> DEFINE L == LotsOf(ins)
             q == KeySum(made, ins, method, price)
             p == KeySum(take, ins, method, price)
  <1>1. L \subseteq book
    BY DEF LotsOf
  <1>2. \A lot \in L : made[lot] \in Int /\ take[lot] \in Int
    <2> SUFFICES ASSUME NEW lot \in L PROVE made[lot] \in Int /\ take[lot] \in Int
      OBVIOUS
    <2>1. Take(lot, qty, method, price) \in 0..lot.qty /\ lot.qty \in Nat
      BY <1>1, TakeIs DEF LotTypes
    <2>2. QED BY <2>1 DEF Rivals
  <1>3. q <= p
    BY Greedy DEF Rivals, KeySum
  <1>10. s \in Int
    OBVIOUS
  <1>4. q \in Int /\ SumFunctionOnSet(made, L) \in Int
        /\ Valued(made, value, ins) = c * SumFunctionOnSet(made, L) + s * q
    <2>1. \A lot \in LotsOf(ins) : made[lot] \in Int
      BY <1>2
    <2>2. /\ KeySum(made, ins, method, price) \in Int /\ SumFunctionOnSet(made, LotsOf(ins)) \in Int
          /\ Valued(made, value, ins)
               = c * SumFunctionOnSet(made, LotsOf(ins)) + s * KeySum(made, ins, method, price)
      BY <1>10, <2>1, ValueOf
    <2>3. QED BY <2>2
  <1>5. p \in Int /\ SumFunctionOnSet(take, L) \in Int
        /\ Valued(take, value, ins) = c * SumFunctionOnSet(take, L) + s * p
    <2>1. \A lot \in LotsOf(ins) : take[lot] \in Int
      BY <1>2
    <2>2. /\ KeySum(take, ins, method, price) \in Int /\ SumFunctionOnSet(take, LotsOf(ins)) \in Int
          /\ Valued(take, value, ins)
               = c * SumFunctionOnSet(take, LotsOf(ins)) + s * KeySum(take, ins, method, price)
      BY <1>10, <2>1, ValueOf
    <2>3. QED BY <2>2
  <1>6. SumFunctionOnSet(made, L) = SumFunctionOnSet(take, L)
    BY DEF Rivals
  <1> HIDE DEF L, p, q
  <1>7. PICK m \in Int : m = c * SumFunctionOnSet(made, L)
    BY <1>4
  <1>8. Valued(made, value, ins) = m + s * q /\ Valued(take, value, ins) = m + s * p
    BY <1>4, <1>5, <1>6, <1>7
  <1>9. QED BY <1>3, <1>4, <1>5, <1>8

(* What a step that sells shares of ins has realized.                      *)
LEMMA SaleOf ==
  ASSUME LotInv, [LotsNext]_lotVars, NEW ins,
         {r \in batch'.realized \ batch.realized : r.ins = ins} # {}
  PROVE  \E qty \in Quantities :
           /\ batch.open /\ ins \in DOMAIN batch.prices
           /\ {r \in batch'.realized \ batch.realized : r.ins = ins}
                = Sold(ins, qty, batch.method, batch.prices[ins])
  <1>1. PICK r \in batch'.realized \ batch.realized : r.ins = ins
    OBVIOUS
  <1>2. PICK i \in Instruments, qty \in Quantities : Sell(i, qty)
    <2>1. ASSUME NEW i \in Instruments, NEW qty \in Quantities, Buy(i, qty)
          PROVE  batch'.realized = batch.realized
      BY <2>1 DEF Buy, LotInv, Batches
    <2>2. ASSUME NEW prices \in PriceMaps, NEW method \in LotMethod, Open(prices, method)
          PROVE  batch'.realized = {}
      BY <2>2 DEF Open
    <2>3. PriceMissing \/ Report => batch'.realized = {}
      <3>1. PriceMissing => batch' = NoBatch
        BY DEF PriceMissing
      <3>2. Report => batch' = NoBatch
        BY DEF Report
      <3>3. QED BY <3>1, <3>2 DEF NoBatch
    <2>4. NextDay \/ UNCHANGED lotVars => batch'.realized = batch.realized
      BY DEF NextDay, lotVars
    <2>5. QED BY <1>1, <2>1, <2>2, <2>3, <2>4 DEF LotsNext
  <1> DEFINE price == batch.prices[i]
             sold == Sold(i, qty, batch.method, price)
  <1>3. /\ batch.open /\ i \in DOMAIN batch.prices
        /\ batch' = [batch EXCEPT !.realized = batch.realized \cup sold]
    BY <1>2 DEF Sell
  <1>4. batch'.realized = batch.realized \cup sold
    BY <1>3 DEF LotInv, Batches
  <1>5. price \in Int /\ qty \in Nat /\ LotTypes /\ n \in Nat
    BY <1>3, PriceIs, TaxAssumption DEF TaxAssumption, LotInv, LotTypes
  <1>6. \A x \in sold : x.n = n /\ x.ins = i
    <2> SUFFICES ASSUME NEW x \in sold PROVE x.n = n /\ x.ins = i
      OBVIOUS
    <2> HIDE DEF price
    <2>1. PICK lot \in LotsOf(i) : FromLot(x, lot, i, qty, batch.method, price)
      BY <1>5, SlipIs
    <2>2. QED BY <2>1 DEF FromLot
  <1>7. \A x \in batch.realized : x.n < n /\ x.n \in Nat
    BY DEF LotInv, Batches
  <1> HIDE DEF sold
  <1>8. i = ins /\ {x \in batch'.realized \ batch.realized : x.ins = ins} = sold
    BY <1>1, <1>4, <1>5, <1>6, <1>7
  <1>9. QED BY <1>3, <1>8 DEF sold

LEMMA StepBest ==
  ASSUME LotInv, [LotsNext]_lotVars, NEW ins \in Instruments
  PROVE  SellsTheBest(ins)
  <1> DEFINE L      == LotsOf(ins)
             sold   == {r \in batch'.realized \ batch.realized : r.ins = ins}
             price  == batch.prices[ins]
             method == batch.method
             made   == [lot \in L |-> SumFunction([r \in {x \in sold : x.lot = lot.n} |-> r.qty])]
             shares == SumFunction([r \in sold |-> r.qty])
             gained == [lot \in L |-> price - lot.price]
             owed   == [lot \in L |-> TaxOn(price - lot.price, LongTerm(lot.acquired))]
             age    == [lot \in L |-> when - lot.acquired]
  <1>1. SUFFICES ASSUME sold # {}, NEW take \in Splits(ins, shares)
                 PROVE  /\ method = "hifo" => Valued(made, gained, ins) <= Valued(take, gained, ins)
                        /\ method = "min_tax" => Valued(made, owed, ins) <= Valued(take, owed, ins)
                        /\ method = "fifo" => Valued(made, age, ins) >= Valued(take, age, ins)
                        /\ method = "lifo" => Valued(made, age, ins) <= Valued(take, age, ins)
                        /\ method \in LotMethod
    BY DEF SellsTheBest, Valued, LotMethod
  <1>2. PICK qty \in Quantities : /\ batch.open /\ ins \in DOMAIN batch.prices
                                  /\ sold = Sold(ins, qty, method, price)
    BY <1>1, SaleOf
  <1>3. price \in Int /\ qty \in Nat /\ method \in LotMethod /\ LotTypes /\ when \in Int
    BY <1>2, PriceIs, TaxAssumption DEF TaxAssumption, LotInv, LotTypes, Batches
  <1>4. L \subseteq book /\ IsFiniteSet(L)
        /\ \A lot \in L : lot.ins = ins /\ lot.price \in Int /\ lot.acquired \in Int /\ lot.qty \in Nat
    BY <1>3, FS_Subset DEF LotTypes, LotsOf
  <1> HIDE DEF sold, price, method
  <1>5. \A lot \in L : made[lot] = Take(lot, qty, method, price) /\ made[lot] \in 0..lot.qty
    <2> SUFFICES ASSUME NEW lot \in L
                 PROVE  made[lot] = Take(lot, qty, method, price) /\ made[lot] \in 0..lot.qty
      OBVIOUS
    <2>1. made[lot] = Taken(lot, ins, qty, method, price)
      BY <1>2, <1>3, <1>4, TakenIs
    <2>2. Take(lot, qty, method, price) \in 0..lot.qty
      BY <1>3, <1>4, TakeIs
    <2>3. QED BY <1>4, <2>1, <2>2 DEF Taken
  <1>6. \E lot \in L : Take(lot, qty, method, price) > 0
    <2>1. Sellers(ins, qty, method, price) # {}
      BY <1>1, <1>2, SoldIs
    <2>2. QED BY <2>1 DEF Sellers
  <1>7. SumFunctionOnSet(made, L) = shares
    <2> DEFINE f == [r \in sold |-> r.qty]
    <2>1. \A lot \in L : /\ made[lot] \in Int
                         /\ Take(lot, qty, method, price) = 0 => made[lot] = 0
                         /\ Take(lot, qty, method, price) > 0 => f[Slip(lot, ins, qty, method, price)] = made[lot]
      <3> SUFFICES ASSUME NEW lot \in L, Take(lot, qty, method, price) > 0
                   PROVE  f[Slip(lot, ins, qty, method, price)] = made[lot]
        BY <1>4, <1>5
      <3>1. Slip(lot, ins, qty, method, price) \in sold
        BY <1>2, SoldIs DEF Sellers
      <3>2. Slip(lot, ins, qty, method, price).qty = Take(lot, qty, method, price)
        BY DEF Slip
      <3>3. QED BY <1>5, <3>1, <3>2
    <2>2. DOMAIN f = Sold(ins, qty, method, price)
      BY <1>2
    <2> HIDE DEF f, made
    <2>3. SumFunctionOnSet(f, Sold(ins, qty, method, price)) = SumFunctionOnSet(made, L)
      BY <1>3, <2>1, SoldSum
    <2>4. QED BY <2>2, <2>3 DEF SumFunction, f
  <1> HIDE DEF made, shares
  <1>8. /\ take \in [L -> 0..shares] /\ \A lot \in L : take[lot] <= lot.qty
        /\ SumFunction([lot \in L |-> take[lot]]) = shares
    BY DEF Splits
  <1>9. SumFunctionOnSet(take, L) = shares
    <2>1. SumFunction([lot \in L |-> take[lot]]) = SumFunctionOnSet(take, L)
      BY <1>4, SumOver
    <2>2. QED BY <1>8, <2>1
  <1>10. \A lot \in L : take[lot] \in 0..lot.qty
    BY <1>4, <1>8
  <1>11. Rivals(made, take, ins, qty, method, price)
    BY <1>5, <1>6, <1>7, <1>9, <1>10 DEF Rivals
  <1>12. ASSUME method = "hifo" PROVE Valued(made, gained, ins) <= Valued(take, gained, ins)
    <2>1. Ranked(gained, price, 1, ins, method, price)
      BY <1>3, <1>4, <1>12 DEF Ranked, Key
    <2> HIDE DEF gained
    <2>2. QED BY <1>3, <1>11, <2>1, BestValue
  <1>13. ASSUME method = "min_tax" PROVE Valued(made, owed, ins) <= Valued(take, owed, ins)
    <2>1. Ranked(owed, 0, 1, ins, method, price)
      <3> SUFFICES ASSUME NEW lot \in L PROVE owed[lot] = 0 + 1 * Key(lot, method, price)
        BY DEF Ranked
      <3>1. Key(lot, method, price) = owed[lot]
        BY <1>13 DEF Key
      <3>2. Key(lot, method, price) \in Int
        BY <1>3, <1>4, KeyIsInt
      <3>3. QED BY <3>1, <3>2
    <2> HIDE DEF owed
    <2>2. PICK c \in Int, s \in {1, -1} : c = 0 /\ s = 1
      OBVIOUS
    <2>3. Ranked(owed, c, s, ins, method, price)
      BY <2>1, <2>2
    <2>4. QED BY <1>3, <1>11, <2>2, <2>3, BestValue
  <1>14. ASSUME method = "fifo" PROVE Valued(made, age, ins) >= Valued(take, age, ins)
    <2>1. Ranked(age, when, -1, ins, method, price)
      BY <1>3, <1>4, <1>14 DEF Ranked, Key
    <2> HIDE DEF age
    <2>2. QED BY <1>3, <1>11, <2>1, BestValue
  <1>15. ASSUME method = "lifo" PROVE Valued(made, age, ins) <= Valued(take, age, ins)
    <2>1. Ranked(age, when, 1, ins, method, price)
      BY <1>3, <1>4, <1>15 DEF Ranked, Key
    <2> HIDE DEF age
    <2>2. QED BY <1>3, <1>11, <2>1, BestValue
  <1>16. QED BY <1>3, <1>12, <1>13, <1>14, <1>15

(* Selling share by share in the order of the key is optimal for every     *)
(* method.                                                                 *)
THEOREM GreedyIsOptimal == LotsSpec => BestLots
  <1>1. LotInv /\ [LotsNext]_lotVars => [\A ins \in Instruments : SellsTheBest(ins)]_lotVars
    BY StepBest
  <1>2. QED BY <1>1, LotsInvariance, PTL DEF LotsSpec, BestLots

-----------------------------------------------------------------------------
Losing(ins, price) == {lot \in LotsOf(ins) : lot.price > price}

(* Highest cost and least tax sell a losing lot before any other one, as   *)
(* long as every gain is taxed.                                            *)
LEMMA LosersFirst ==
  ASSUME LotTypes, LongRate > 0, NEW method \in {"hifo", "min_tax"}, NEW price \in Int,
         NEW loser \in book, loser.price > price, NEW other \in book, other.price <= price
  PROVE  Key(loser, method, price) < Key(other, method, price)
  <1>1. loser.price \in Int /\ other.price \in Int
    BY DEF LotTypes
  <1>2. CASE method = "hifo"
    BY <1>1, <1>2 DEF Key
  <1>3. CASE method = "min_tax"
    <2>1. PICK a \in Int, b \in Int, s \in Int, l \in Int :
            /\ a = price - loser.price /\ b = price - other.price /\ s = ShortRate /\ l = LongRate
            /\ a < 0 /\ b >= 0 /\ s > 0 /\ l > 0
      BY <1>1, TaxAssumption DEF TaxAssumption
    <2>2. a * s < 0 /\ a * l < 0 /\ b * s >= 0 /\ b * l >= 0
      BY <2>1
    <2>3. Key(loser, method, price) \in {a * s, a * l} /\ Key(other, method, price) \in {b * s, b * l}
      BY <1>3, <2>1 DEF Key, TaxOn
    <2>4. QED BY <2>1, <2>2, <2>3
  <1>4. QED BY <1>2, <1>3

(* Selling as many shares as are losing takes exactly the losing lots.     *)
LEMMA HarvestTakes ==
  ASSUME LotTypes, LongRate > 0, NEW method \in {"hifo", "min_tax"}, NEW price \in Int, NEW ins,
         NEW qty \in Nat, qty = SumFunctionOnSet(Shares, Losing(ins, price)), NEW lot \in LotsOf(ins)
  PROVE  Take(lot, qty, method, price) = IF lot.price > price THEN lot.qty ELSE 0
  <1> DEFINE A == Ahead(lot, method, price)
             N == Losing(ins, price)
  <1>1. /\ lot \in book /\ lot.ins = ins /\ N \subseteq book /\ A \subseteq book /\ A \subseteq LotsOf(ins)
        /\ lot.qty \in Nat \ {0}
    BY DEF LotsOf, Losing, Ahead, LotTypes
  <1>2. \A l \in book : l.price \in Int /\ Key(l, method, price) \in Int /\ l.n \in Nat
    BY KeyIsInt DEF LotMethod, LotTypes
  <1>3. A = {l \in LotsOf(ins) : \/ Key(l, method, price) < Key(lot, method, price)
                                 \/ Key(l, method, price) = Key(lot, method, price) /\ l.n < lot.n}
    BY <1>1 DEF Ahead
  <1>4. PICK x \in Nat : x = SumFunctionOnSet(Shares, A)
    BY <1>1, SharesOfLots
  <1>5. Take(lot, qty, method, price) = IF qty - x >= lot.qty THEN lot.qty ELSE Positive(qty - x)
    BY <1>1, <1>4, TakeIs
  <1> HIDE DEF A
  <1>6. CASE lot.price > price
    <2>1. A \cup {lot} \subseteq N /\ lot \notin A
      <3>1. lot \notin A
        BY <1>1, <1>2, <1>3
      <3>2. ASSUME NEW l \in A PROVE l \in N
        <4>1. l \in book /\ Key(l, method, price) <= Key(lot, method, price)
          BY <1>1, <1>2, <1>3
        <4>2. ~(l.price <= price)
          BY <1>1, <1>2, <1>6, <4>1, LosersFirst
        <4>3. QED BY <1>1, <1>2, <4>1, <4>2 DEF Losing
      <3>3. QED BY <1>6, <3>1, <3>2 DEF Losing
    <2> HIDE DEF N
    <2>2. IsFiniteSet(A) /\ \A l \in A \cup {lot} : Shares[l] \in Int
      BY <1>1, FS_Subset DEF LotTypes, Shares
    <2>3. SumFunctionOnSet(Shares, A \cup {lot}) = Shares[lot] + SumFunctionOnSet(Shares, A)
      BY <2>1, <2>2, SumAdd
    <2>4. SumFunctionOnSet(Shares, A \cup {lot}) <= SumFunctionOnSet(Shares, N)
      BY <1>1, <2>1, SharesOfLots
    <2>5. Shares[lot] = lot.qty
      BY <1>1 DEF Shares
    <2>6. lot.qty + x <= qty
      BY <1>4, <2>3, <2>4, <2>5 DEF N
    <2>7. QED BY <1>1, <1>4, <1>5, <1>6, <2>6
  <1>7. CASE ~(lot.price > price)
    <2>1. N \subseteq A
      <3> SUFFICES ASSUME NEW l \in N PROVE l \in A
        OBVIOUS
      <3>1. l \in book /\ l \in LotsOf(ins) /\ l.price > price
        BY <1>1 DEF Losing
      <3>2. Key(l, method, price) < Key(lot, method, price)
        BY <1>1, <1>2, <1>7, <3>1, LosersFirst
      <3>3. QED BY <1>3, <3>1, <3>2
    <2>2. qty <= x
      BY <1>1, <1>4, <2>1, SharesOfLots
    <2>3. QED BY <1>1, <1>4, <1>5, <1>7, <2>2 DEF Positive
  <1>8. QED BY <1>6, <1>7

(* A harvest of qty shares of ins at price realizes the loss.              *)
Promised(ins, qty, method, price, loss) ==
  /\ loss \in Int
  /\ SumFunction([r \in Sold(ins, qty, method, price) |-> r.gain]) = -loss
  /\ SumFunction([r \in Sold(ins, qty, method, price) |-> -TaxOn(r.gain, r.long)]) <= loss * ShortRate

LEMMA HarvestSums ==
  ASSUME LotTypes, LongRate > 0, NEW method \in {"hifo", "min_tax"}, NEW price \in Int, NEW ins,
         NEW qty \in Nat, qty = SumFunctionOnSet(Shares, Losing(ins, price))
  PROVE  Promised(ins, qty, method, price,
                  SumFunction([lot \in Losing(ins, price) |-> lot.qty * (lot.price - price)]))
  <1> DEFINE L == LotsOf(ins)
             N == Losing(ins, price)
             sold == Sold(ins, qty, method, price)
             gain == [r \in sold |-> r.gain]
             saved == [r \in sold |-> -TaxOn(r.gain, r.long)]
             short == [r \in sold |-> 0 + (-ShortRate) * gain[r]]
             zero == [r \in sold |-> 0]
             none == [lot \in L |-> 0]
             loss == [lot \in N |-> lot.qty * (lot.price - price)]
             lost == [lot \in L |-> lot.qty * (lot.price - price)]
             g == [lot \in L |-> IF lot.price > price THEN none[lot] + (-1) * lost[lot] ELSE 0]
  <1>1. L \subseteq book /\ N \subseteq L /\ IsFiniteSet(L) /\ IsFiniteSet(N) /\ IsFiniteSet(sold)
    BY SaleFinite, FS_Subset DEF LotTypes, LotsOf, Losing
  <1>2. \A lot \in L : /\ lot.qty \in Nat \ {0} /\ lot.price \in Int
                       /\ Take(lot, qty, method, price) = IF lot.price > price THEN lot.qty ELSE 0
    BY <1>1, HarvestTakes DEF LotTypes
  <1>3. \A lot \in L : lost[lot] \in Int /\ g[lot] \in Int /\ none[lot] = 0
    BY <1>2
  <1>4. \A lot \in N : lot.price > price /\ lot \in L /\ loss[lot] = lost[lot]
                       /\ g[lot] = none[lot] + (-1) * loss[lot]
    BY <1>1 DEF Losing
  <1>5. \A lot \in L \ N : g[lot] = 0
    BY DEF Losing
  <1>6. \A r \in sold : gain[r] = r.gain /\ r.gain \in Int /\ r.gain <= 0 /\ r.long \in BOOLEAN
    <2> SUFFICES ASSUME NEW r \in sold PROVE r.gain \in Int /\ r.gain <= 0 /\ r.long \in BOOLEAN
      OBVIOUS
    <2>1. PICK lot \in L : FromLot(r, lot, ins, qty, method, price)
      BY SlipIs
    <2>2. r.qty \in Nat \ {0} /\ r.qty = Take(lot, qty, method, price)
          /\ r.gain = r.qty * (price - lot.price) /\ r.gain \in Int /\ r.long \in BOOLEAN
      BY <2>1 DEF FromLot
    <2>3. PICK q \in Nat, d \in Int : q = r.qty /\ d = price - lot.price /\ d < 0
      BY <1>2, <2>2
    <2>4. q * d <= 0
      BY <2>3
    <2>5. QED BY <2>2, <2>3, <2>4
  <1>7. \A lot \in L :
          /\ Take(lot, qty, method, price) = 0 => g[lot] = 0
          /\ Take(lot, qty, method, price) > 0 => gain[Slip(lot, ins, qty, method, price)] = g[lot]
    <2> SUFFICES ASSUME NEW lot \in L
                 PROVE  /\ Take(lot, qty, method, price) = 0 => g[lot] = 0
                        /\ Take(lot, qty, method, price) > 0 => gain[Slip(lot, ins, qty, method, price)] = g[lot]
      OBVIOUS
    <2>1. CASE ~(lot.price > price)
      <3>1. Take(lot, qty, method, price) = 0
        BY <1>2, <2>1
      <3>2. g[lot] = 0
        BY <2>1
      <3>3. QED BY <3>1, <3>2
    <2>2. CASE lot.price > price
      <3>1. Take(lot, qty, method, price) = lot.qty /\ lot.qty > 0
        BY <1>2, <2>2
      <3>2. Slip(lot, ins, qty, method, price) \in sold
        BY <3>1, SoldIs DEF Sellers
      <3>3. gain[Slip(lot, ins, qty, method, price)] = lot.qty * (price - lot.price)
        BY <3>1, <3>2 DEF Slip
      <3>4. PICK q \in Nat, x \in Int : q = lot.qty /\ x = lot.price
        BY <1>2
      <3>5. q * (price - x) = 0 + (-1) * (q * (x - price))
        BY <3>4
      <3>6. g[lot] = 0 + (-1) * (q * (x - price))
        BY <2>2, <3>4
      <3>7. QED BY <3>1, <3>3, <3>4, <3>5, <3>6
    <2>3. QED BY <2>1, <2>2
  <1>8. DOMAIN gain = sold /\ DOMAIN loss = N /\ DOMAIN saved = sold
        /\ \A r \in sold : zero[r] = 0 /\ short[r] = zero[r] + (-ShortRate) * gain[r]
    OBVIOUS
  <1>9. ShortRate \in Nat /\ LongRate \in 0..ShortRate
    BY TaxAssumption DEF TaxAssumption
  <1>10. \A r \in sold : saved[r] \in Int /\ short[r] \in Int /\ saved[r] <= short[r]
    <2> SUFFICES ASSUME NEW r \in sold
                 PROVE  saved[r] \in Int /\ short[r] \in Int /\ saved[r] <= short[r]
      OBVIOUS
    <2>1. PICK h \in Nat, s \in Nat, l \in Nat :
            h = -r.gain /\ r.gain = -h /\ s = ShortRate /\ l = LongRate /\ l <= s
      BY <1>6, <1>9
    <2>2. h * l <= h * s /\ h * l \in Nat /\ h * s \in Nat
      BY <2>1
    <2>3. short[r] = 0 + (-s) * (-h)
      BY <1>6, <1>8, <2>1
    <2>4. saved[r] \in {-((-h) * l), -((-h) * s)}
      BY <2>1 DEF TaxOn
    <2>5. -((-h) * l) = h * l /\ -((-h) * s) = h * s /\ 0 + (-s) * (-h) = h * s
      BY <2>1
    <2>6. QED BY <2>2, <2>3, <2>4, <2>5
  <1> HIDE DEF sold, gain, saved, short, zero, none, loss, lost, g, L, N
  <1>11. SumFunctionOnSet(gain, sold) = SumFunctionOnSet(g, L)
    <2>1. \A lot \in LotsOf(ins) :
            /\ g[lot] \in Int
            /\ Take(lot, qty, method, price) = 0 => g[lot] = 0
            /\ Take(lot, qty, method, price) > 0 => gain[Slip(lot, ins, qty, method, price)] = g[lot]
      BY <1>3, <1>7 DEF L
    <2>2. SumFunctionOnSet(gain, Sold(ins, qty, method, price)) = SumFunctionOnSet(g, LotsOf(ins))
      BY <2>1, SoldSum
    <2>3. QED BY <2>2 DEF sold, L
  <1>12. SumFunctionOnSet(g, N) = SumFunctionOnSet(g, L)
    BY <1>1, <1>3, <1>5, SumRest
  <1>13. SumFunctionOnSet(g, N) = SumFunctionOnSet(none, N) + (-1) * SumFunctionOnSet(loss, N)
    <2>1. \A lot \in N : none[lot] \in Int /\ loss[lot] \in Int /\ g[lot] = none[lot] + (-1) * loss[lot]
      BY <1>3, <1>4
    <2>2. QED BY <1>1, <2>1, SumLinear
  <1>14. SumFunctionOnSet(none, N) = 0
    <2>1. \A lot \in N : none[lot] = 0
      BY <1>3, <1>4
    <2>2. QED BY <1>1, <2>1, SumZero
  <1>15. SumFunctionOnSet(loss, N) \in Int
    <2>1. \A lot \in N : loss[lot] \in Int
      BY <1>3, <1>4
    <2>2. QED BY <1>1, <2>1, SumInt
  <1>16. SumFunctionOnSet(gain, sold) = -SumFunctionOnSet(loss, N)
    BY <1>11, <1>12, <1>13, <1>14, <1>15
  <1>17. SumFunctionOnSet(saved, sold) <= SumFunctionOnSet(short, sold)
    BY <1>1, <1>10, SumMonotone
  <1>18. SumFunctionOnSet(short, sold) = SumFunctionOnSet(zero, sold) + (-ShortRate) * SumFunctionOnSet(gain, sold)
    <2>1. PICK k \in Int : k = -ShortRate
      BY <1>9
    <2>2. \A r \in sold : zero[r] \in Int /\ gain[r] \in Int /\ short[r] = zero[r] + k * gain[r]
      BY <1>6, <1>8, <2>1
    <2>3. SumFunctionOnSet(short, sold) = SumFunctionOnSet(zero, sold) + k * SumFunctionOnSet(gain, sold)
      BY <1>1, <2>2, SumLinear
    <2>4. QED BY <2>1, <2>3
  <1>19. SumFunctionOnSet(zero, sold) = 0
    BY <1>1, <1>8, SumZero
  <1>20. PICK l \in Int, s \in Nat : l = SumFunctionOnSet(loss, N) /\ s = ShortRate
    BY <1>9, <1>15
  <1>21. SumFunctionOnSet(short, sold) = 0 + (-s) * (-l)
    BY <1>16, <1>18, <1>19, <1>20
  <1>22. 0 + (-s) * (-l) = l * s
    BY <1>20
  <1>23. SumFunctionOnSet(saved, sold) <= l * s
    BY <1>17, <1>21, <1>22
  <1>24. /\ SumFunction(gain) = -l /\ SumFunction(saved) <= l * s /\ SumFunction(loss) = l
    BY <1>8, <1>16, <1>20, <1>23 DEF SumFunction
  <1>25. QED BY <1>20, <1>24 DEF Promised, gain, saved, loss, sold, N

LEMMA HarvestHolds == LotInv /\ LongRate > 0 => HarvestIsReal
  <1> DEFINE Recent == {b.ins : b \in {x \in bought : when - x.day <= WindowDays}}
  <1> SUFFICES ASSUME LotInv, LongRate > 0,
                      NEW prices \in PriceMaps, NEW method \in {"hifo", "min_tax"},
                      NEW c \in Harvest(prices, Recent)
               PROVE  LET sold == Sold(c.ins, c.qty, method, prices[c.ins])
                      IN  /\ SumFunction([r \in sold |-> r.gain]) = -c.loss
                          /\ \A r \in sold : ~Washed(r, bought)
                          /\ SumFunction([r \in sold |-> -TaxOn(r.gain, r.long)]) <= c.loss * ShortRate
    BY DEF HarvestIsReal
  <1> DEFINE ins == c.ins
             price == prices[ins]
             N == Losing(ins, price)
             sold == Sold(ins, c.qty, method, price)
  <1>1. /\ ins \in DOMAIN prices \ Recent
        /\ c.qty = SumFunction([lot \in N |-> lot.qty])
        /\ c.loss = SumFunction([lot \in N |-> lot.qty * (lot.price - price)])
    <2>1. c \in Worthwhile(prices, DOMAIN prices \ Recent)
      BY DEF Harvest
    <2>2. PICK i \in DOMAIN prices \ Recent :
            c = [ins  |-> i,
                 qty  |-> SumFunction([lot \in {l \in LotsOf(i) : l.price > prices[i]} |-> lot.qty]),
                 loss |-> SumFunction([lot \in {l \in LotsOf(i) : l.price > prices[i]} |->
                                         lot.qty * (lot.price - prices[i])])]
      BY <2>1 DEF Worthwhile
    <2>3. c.ins = i
      BY <2>2
    <2>4. QED BY <2>2, <2>3 DEF Losing
  <1>2. price \in Int /\ LotTypes /\ when \in Nat /\ WindowDays \in Nat
    BY <1>1, TaxAssumption DEF TaxAssumption, LotInv, LotTypes
  <1>3. c.qty \in Nat /\ c.qty = SumFunctionOnSet(Shares, N)
    <2>1. N \in SUBSET book
      BY DEF Losing, LotsOf
    <2> HIDE DEF N
    <2>2. QED BY <1>1, <1>2, <2>1, SharesOfLots
  <1>4. ASSUME NEW r \in sold PROVE ~Washed(r, bought)
    <2> HIDE DEF price
    <2>1. PICK lot \in LotsOf(ins) : FromLot(r, lot, ins, c.qty, method, price)
      BY <1>2, <1>3, SlipIs
    <2>2. r.ins = ins /\ r.sold = when
      BY <2>1 DEF FromLot
    <2>3. \A b \in bought : b.ins = ins => ~(Abs(when - b.day) <= WindowDays)
      <3> SUFFICES ASSUME NEW b \in bought, b.ins = ins PROVE ~(Abs(when - b.day) <= WindowDays)
        OBVIOUS
      <3>1. ~(when - b.day <= WindowDays) /\ b.day \in Nat /\ b.day <= when
        BY <1>1 DEF LotInv, Batches
      <3>2. QED BY <1>2, <3>1 DEF Abs
    <2>4. QED BY <2>2, <2>3 DEF Washed
  <1>5. /\ SumFunction([r \in sold |-> r.gain]) = -c.loss
        /\ SumFunction([r \in sold |-> -TaxOn(r.gain, r.long)]) <= c.loss * ShortRate
    <2>1. c.loss = SumFunction([lot \in Losing(ins, price) |-> lot.qty * (lot.price - price)])
      BY <1>1
    <2>2. c.qty \in Nat /\ c.qty = SumFunctionOnSet(Shares, Losing(ins, price))
      BY <1>3
    <2> HIDE DEF price, ins
    <2>3. Promised(ins, c.qty, method, price, c.loss)
      BY <1>2, <2>1, <2>2, HarvestSums
    <2>4. QED BY <2>3 DEF Promised
  <1>6. QED BY <1>4, <1>5

(* What a harvest announces, it realizes, provided that long-term gains    *)
(* are taxed at all: at a rate of zero MIN_TAX cannot tell a long losing   *)
(* lot from a long winning one.                                            *)
THEOREM HarvestRealizes == LongRate > 0 => (LotsSpec => []HarvestIsReal)
  <1> SUFFICES ASSUME LongRate > 0 PROVE LotsSpec => []HarvestIsReal
    OBVIOUS
  <1>1. LotInv => HarvestIsReal
    BY HarvestHolds
  <1>2. QED BY <1>1, LotsInvariance, PTL
=============================================================================
