-------------------------- MODULE QuotingInstances --------------------------
(* The streams that the quoting loops are checked on: five ticks; books    *)
(* that move by a tick, widen, sweep two ticks or lose a side; prints that *)
(* fill partially or reach both quotes; and what the makers quote.         *)
EXTENDS MarketMakers

Ticks == 1..5

Ladder(best, size) ==
  [best |-> best, size |-> [p \in Ticks |-> IF p = best THEN size ELSE 0]]

(* best bid b showing n, best ask a showing m; 0 leaves the side empty.    *)
BookOf(b, n, a, m) ==
  [side \in {"bid", "ask"} |-> IF side = "bid" THEN Ladder(b, n) ELSE Ladder(a, m)]

(* A recorded stream: the replay handler skips books with an empty side.   *)
RecordedBooks == {BookOf(2, 2, 3, 1), BookOf(2, 1, 4, 1), BookOf(1, 1, 2, 1),
                  BookOf(4, 1, 5, 1)}

(* A live stream also shows them.                                          *)
LiveBooks == RecordedBooks \cup {BookOf(1, 1, 0, 0)}

SomeTrades == {[px |-> 2, size |-> 1], [px |-> 2, size |-> 3], [px |-> 3, size |-> 2]}

NoTrades == {}

(* What the four makers, long one unit, make of a book whose touch and     *)
(* depth lean to the bid, and the taker of one whose depth leans to the    *)
(* ask: quotes that join the touch, stand a tick behind it and take it.    *)
Makers == [qMax |-> 2, size |-> 2, takeSize |-> 1, halfBps |-> 1, skewBps |-> 2,
           alphaBps |-> 5, feeBps |-> 1, takeBps |-> 1]

Touch(micro, obi) == [bid |-> 2, ask |-> 3, micro |-> micro, obi |-> obi]

SomeQuotes ==
  Quotes(Touch(11, 1), Makers, 1, 3, 16, 40) \cup {AlphaQuoterMM(Touch(10, -1), Makers, 1)}
=============================================================================
