----------------------------- MODULE MCEventLoop -----------------------------
(* A margined future and a cash-funded stock that cannot be shorted.       *)
EXTENDS EventLoop

MCColumns == <<"fut", "stk">>

MCTerms == [c \in {"fut", "stk"} |->
  IF c = "fut"
    THEN [margined |-> TRUE, mult |-> 2, lot |-> 1, shortable |-> TRUE, risk |-> 1]
    ELSE [margined |-> FALSE, mult |-> 1, lot |-> 2, shortable |-> FALSE, risk |-> 1]]

Panel(f, s) == [c \in {"fut", "stk"} |-> IF c = "fut" THEN f ELSE s]

(* Both print, one does not, an open away from the close, carry, and a     *)
(* rise that leaves a short future's book with negative equity.            *)
MCBars == {
  [close |-> Panel(4, 5), open |-> Panel(0, 0), carry |-> Panel(0, 0)],
  [close |-> Panel(5, 0), open |-> Panel(4, 0), carry |-> Panel(1, 2)],
  [close |-> Panel(0, 3), open |-> Panel(0, 4), carry |-> Panel(0, -1)],
  [close |-> Panel(9, 6), open |-> Panel(5, 5), carry |-> Panel(0, 0)]}

(* Hold, both long, a long against a short, a forbidden short, one column. *)
MCWeightRows == {
  [c \in {} |-> 0],
  [c \in {"fut", "stk"} |-> 3],
  [c \in {"fut", "stk"} |-> IF c = "fut" THEN -6 ELSE 4],
  [c \in {"stk"} |-> -2]}
=============================================================================
