------------------------------ MODULE PaperLoop ------------------------------
(***************************************************************************)
(* PaperLoop.run_once (trading/loop.py) with the lake it fills, the risk   *)
(* gate, diff_to_orders and the broker it submits to.                      *)
(*                                                                         *)
(* A cycle takes three kinds of step: the gap-fill, the planning from the  *)
(* panel to the orders, and one submission at a time.  Between them the    *)
(* broker fills what it has, the market closes another day, or the process *)
(* dies; a cycle may be run again the same day.  Of an instrument's bars   *)
(* only the last matters.  Prices and money are integers, weights          *)
(* multiples of 1 / WeightBase.                                            *)
(***************************************************************************)
EXTENDS Lots, Sequences, FiniteSetsExt, Functions

CONSTANTS
  Columns,        \* the universe, in order
  Mult, LotSize,  \* contract_multiplier and lot_size of each column
  WeightBase,
  WeightRows,     \* the rows the strategy may return, NaN columns left out
  MaxGross, MaxNet, MaxPosition,   \* RiskLimits, in 1 / WeightBase
  MinTrade,       \* min_trade_notional
  Prices, Cash,   \* the closes there may be, and the account's opening cash
  MaxDays, MaxCycles, MaxCrashes   \* bounds

Ids == Range(Columns)

ASSUME LoopAssumption ==
  /\ Columns \in Seq(STRING)
  /\ \A i, j \in DOMAIN Columns : Columns[i] = Columns[j] => i = j
  /\ Mult \in [Ids -> Nat \ {0}] /\ LotSize \in [Ids -> Nat \ {0}]
  /\ WeightBase \in Nat \ {0}
  /\ \A w \in WeightRows : DOMAIN w \subseteq Ids /\ \A c \in DOMAIN w : w[c] \in Int
  /\ MaxGross \in Nat /\ MaxNet \in Nat /\ MaxPosition \in Nat
  /\ MinTrade \in Nat /\ Cash \in Nat
  /\ Prices \subseteq Nat \ {0}
  /\ MaxDays \in Nat /\ MaxCycles \in Nat /\ MaxCrashes \in Nat

VARIABLES
  day,        \* the market's days so far
  market,     \* the last close of each column
  provider,   \* the last bar the data provider has of each column
  lake,       \* the last bar the DataStore has of each column
  cash, pos,  \* the broker's account
  pending,    \* the orders the broker has accepted and not filled
  stage,      \* where run_once is: "idle", "fetch", "weigh" or "submit"
  queue,      \* the orders of the cycle not submitted yet
  plan,       \* what the cycle planned: locals of run_once, and history
  cycles, crashes

vars == <<day, market, provider, lake, cash, pos, pending, stage, queue, plan, cycles, crashes>>

outside == <<day, market, provider>>
account == <<cash, pos, pending>>

NoBar == [day |-> 0, px |-> 0]

(* gaps: orders refused or expired; overlapped: an earlier order was still *)
(* pending when the account was read.                                      *)
NoPlan == [n |-> 0, target |-> << >>, prices |-> << >>, equity |-> 0, pos |-> << >>,
           orders |-> {}, panel |-> << >>, gaps |-> {}, overlapped |-> FALSE, done |-> FALSE]

Init ==
  /\ day = 1
  /\ market \in [Ids -> Prices]
  /\ provider = [c \in Ids |-> NoBar]
  /\ lake = [c \in Ids |-> NoBar]
  /\ cash = Cash
  /\ pos = [c \in Ids |-> 0]
  /\ pending = {}
  /\ stage = "idle"
  /\ queue = {}
  /\ plan = NoPlan
  /\ cycles = 0
  /\ crashes = 0

-----------------------------------------------------------------------------
(* RiskGate.check_weights(): the row's gross, net and largest weight.      *)
ApprovedUnchecked(row) ==                     \* mutant: no limit per position
  LET cols == DOMAIN row
  IN  /\ SumFunction([c \in cols |-> Abs(row[c])]) <= MaxGross
      /\ Abs(SumFunction([c \in cols |-> row[c]])) <= MaxNet

Approved(row) ==
  LET cols == DOMAIN row
  IN  /\ SumFunction([c \in cols |-> Abs(row[c])]) <= MaxGross
      /\ Abs(SumFunction([c \in cols |-> row[c]])) <= MaxNet
      /\ \A c \in cols : Abs(row[c]) <= MaxPosition

(* DataStore.load_panel(): the columns with a bar, and their newest day.   *)
Panel   == Restrict(lake, {c \in Ids : lake[c] # NoBar})
LastDay == Max({lake[c].day : c \in Ids})

(* The last row of the panel; a column whose bar is older is NaN in it.    *)
LastRow(target) == [c \in {i \in DOMAIN target : lake[i].day = LastDay} |-> lake[c].px]

Targets(row) == Restrict(row, {c \in DOMAIN row : row[c] # 0})

Equity == cash + SumFunction([c \in Ids |-> pos[c] * market[c] * Mult[c]])

(* diff_to_orders(): the lots from the position to the target, if they are *)
(* not dust.                                                               *)
FromFlat(c, weight, price, equity) ==         \* mutant: the position is forgotten
  RoundToLot(weight * equity, WeightBase * price * Mult[c], LotSize[c])

Delta(c, weight, price, equity) ==
  LET unit == WeightBase * price * Mult[c]
  IN  RoundToLot(weight * equity - pos[c] * unit, unit, LotSize[c])

Orders(target, prices, equity) ==
  LET Move(c) == Delta(c, target[c], prices[c], equity)
  IN  {[n |-> cycles, ins |-> c, qty |-> Move(c)] :
         c \in {i \in DOMAIN prices : /\ Move(i) # 0
                                     /\ Abs(Move(i)) * prices[i] * Mult[i] >= MinTrade}}

-----------------------------------------------------------------------------
Start ==
  /\ stage = "idle"
  /\ cycles < MaxCycles
  /\ stage' = "fetch"
  /\ cycles' = cycles + 1
  /\ UNCHANGED <<outside, lake, account, queue, plan, crashes>>

(* 1. Each instrument is fetched and saved, or left as it was, or its file *)
(* is torn by a write that failed and load() takes it for an empty one.    *)
GapFilled ==
  LET Outcomes(c) == {lake[c]} \cup IF provider[c] = NoBar THEN {} ELSE {provider[c], NoBar}
  IN  {l \in [Ids -> UNION {Outcomes(c) : c \in Ids}] : \A c \in Ids : l[c] \in Outcomes(c)}

GapFill ==
  /\ stage = "fetch"
  /\ lake' \in GapFilled
  /\ stage' = "weigh"
  /\ UNCHANGED <<outside, account, queue, plan, cycles, crashes>>

(* 2-4. No panel, no weights, or a row the gate refuses; or get_account()  *)
(* raises.                                                                 *)
Stop ==
  /\ stage = "weigh"
  /\ stage' = "idle"
  /\ UNCHANGED <<outside, lake, account, queue, plan, cycles, crashes>>

(* 2-5. From the panel to the orders.                                      *)
Weigh(row) ==
  /\ stage = "weigh"
  /\ Panel # << >>
  /\ Approved(row)
  /\ LET target == Targets(row)
         prices == LastRow(target)
         orders == Orders(target, prices, Equity)
     IN  /\ queue' = orders
         /\ stage' = IF orders = {} THEN "idle" ELSE "submit"
         /\ plan' = [n |-> cycles, target |-> target, prices |-> prices, equity |-> Equity,
                     pos |-> pos, orders |-> orders, panel |-> Panel, gaps |-> {},
                     overlapped |-> pending # {}, done |-> orders = {}]
  /\ UNCHANGED <<outside, lake, account, cycles, crashes>>

(* 6. An order, in whatever order the strategy named its columns, is       *)
(* accepted, even if the answer is lost, or refused; then the rest follow. *)
Submit(o) ==
  /\ stage = "submit"
  /\ \E refused \in BOOLEAN :
       /\ queue' = queue \ {o}
       /\ stage' = IF queue \ {o} = {} THEN "idle" ELSE "submit"
       /\ pending' = IF refused THEN pending ELSE pending \cup {o}
       /\ plan' = [plan EXCEPT !.gaps = IF refused THEN plan.gaps \cup {o.ins} ELSE plan.gaps,
                               !.done = queue \ {o} = {}]
  /\ UNCHANGED <<outside, lake, cash, pos, cycles, crashes>>

(* The process dies, with part of the gap-fill done or of the orders sent. *)
Crash ==
  /\ stage # "idle"
  /\ crashes < MaxCrashes
  /\ stage' = "idle"
  /\ queue' = {}
  /\ crashes' = crashes + 1
  /\ lake' \in IF stage = "fetch" THEN GapFilled ELSE {lake}
  /\ UNCHANGED <<outside, account, plan, cycles>>

-----------------------------------------------------------------------------
(* The broker: a market order for the day is filled, or refused or expired *)
(* later on.                                                               *)
Fill(o) ==
  /\ \E px \in Prices : cash' = cash - o.qty * px * Mult[o.ins]
  /\ pos' = [pos EXCEPT ![o.ins] = pos[o.ins] + o.qty]
  /\ pending' = pending \ {o}
  /\ UNCHANGED <<outside, lake, stage, queue, plan, cycles, crashes>>

Expire(o) ==
  /\ pending' = pending \ {o}
  /\ plan' = [plan EXCEPT !.gaps = IF o.n = plan.n THEN plan.gaps \cup {o.ins} ELSE plan.gaps]
  /\ UNCHANGED <<outside, lake, cash, pos, stage, queue, cycles, crashes>>

(* The provider gets the bar of the day.                                   *)
Publish(c) ==
  /\ provider[c].day < day
  /\ provider' = [provider EXCEPT ![c] = [day |-> day, px |-> market[c]]]
  /\ UNCHANGED <<day, market, lake, account, stage, queue, plan, cycles, crashes>>

(* Another close: a cycle does not last a day, and the orders of the day   *)
(* are no longer pending.                                                  *)
Close ==
  /\ stage = "idle" /\ pending = {}
  /\ day < MaxDays
  /\ day' = day + 1
  /\ market' \in [Ids -> Prices]
  /\ UNCHANGED <<provider, lake, account, stage, queue, plan, cycles, crashes>>

Next ==
  \/ Start \/ GapFill \/ Stop \/ Crash \/ Close
  \/ \E row \in WeightRows : Weigh(Restrict(row, DOMAIN row \cap DOMAIN Panel))
  \/ \E o \in queue : Submit(o)
  \/ \E o \in pending : Fill(o) \/ Expire(o)
  \/ \E c \in Ids : Publish(c)

Spec == Init /\ [][Next]_vars

-----------------------------------------------------------------------------
Order == [n : 1..MaxCycles, ins : Ids, qty : Int]

(* No order aims beyond max_position of the equity it was planned on, save *)
(* the half lot of the rounding.                                           *)
AimsWithinLimits ==
  \A o \in plan.orders :
    LET unit == plan.prices[o.ins] * Mult[o.ins]
    IN  2 * WeightBase * Abs(plan.pos[o.ins] + o.qty) * unit
          <= 2 * MaxPosition * Abs(plan.equity) + WeightBase * unit * LotSize[o.ins]

(* The cycle ran to its end, no order was pending when it read the account *)
(* and all of its orders are filled.                                       *)
Complete ==
  /\ plan.done /\ pending = {}
  /\ plan.gaps = {} /\ ~plan.overlapped

Near(c, weight) ==
  LET unit == plan.panel[c].px * Mult[c]
  IN  2 * Abs(weight * plan.equity - WeightBase * pos[c] * unit)
        <= WeightBase * (unit * LotSize[c] + 2 * MinTrade)

(* After a complete cycle every column with a target and a price is within *)
(* half a lot and the dust of its target, whatever was refused, expired or *)
(* cut short before it.                                                    *)
OnTarget == Complete => \A c \in DOMAIN plan.prices : Near(c, plan.target[c])

(* Run again, on the same prices and equity and toward the same target, a  *)
(* complete cycle submits nothing.                                         *)
NothingToRedo ==
  [][ /\ plan'.n > plan.n /\ Complete /\ plan'.target = plan.target
      /\ plan'.prices = plan.prices /\ plan'.equity = plan.equity
      => plan'.orders = {} ]_vars

(* Every column with a price that is not in the target is sold, as the     *)
(* backtest engine does for a weight of 0 or NaN.                          *)
ExitsAreSold ==
  Complete => \A c \in DOMAIN plan.panel :
    c \notin DOMAIN plan.target
      /\ plan.panel[c].day = Max({plan.panel[i].day : i \in DOMAIN plan.panel})
      => Near(c, 0)
=============================================================================
