----------------------------- MODULE MCPaperLoop -----------------------------
(* Two stocks, the second in lots of two, and five rows of weights: long   *)
(* and long, long and short, an exit, one column NaN, one row too big.     *)
EXTENDS PaperLoop

MCColumns == <<"a", "b">>
Pair(x, y) == [c \in {"a", "b"} |-> IF c = "a" THEN x ELSE y]
MCMult == Pair(1, 1)
MCLotSize == Pair(1, 2)
MCWeightRows == {Pair(2, 1), Pair(1, -2), Pair(0, 2), [c \in {"a"} |-> 1], Pair(3, 0)}
=============================================================================
