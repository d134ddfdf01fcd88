------------------------------- MODULE MCIngest -------------------------------
(* Every script on two items, alone; and on one item, beside it, on the    *)
(* store they share, the terminal's updates or the other 13F pull.         *)
EXTENDS Ingest, TLC

On(s, items) == s @@ [items |-> items, span |-> Rows]

Lately(s) == s @@ [items |-> <<"a">>, span |-> Newest(Rows)]

Alone == {"script" :> On(s, <<"a", "b">>) : s \in Scripts}

Beside(s, t) == "script" :> On(s, <<"a">>) @@ "other" :> t

Together == {Beside(PullEquityPool, Lately(Manager)), Beside(PullFx, Lately(Manager)),
             Beside(Manager, Lately(ManagerGet)), Beside(Pull13F, On(Pull13FBulk, <<"a">>))}

EveryJob == Alone \cup Together
===============================================================================
