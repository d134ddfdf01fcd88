------------------------------ MODULE MCTaxLots ------------------------------
(* Two stocks; a low, a high and a middle price, and a batch without a     *)
(* price for the second stock.                                             *)
EXTENDS TaxLots

MCPriceMaps == {[i \in {"a", "b"} |-> 2], [i \in {"a", "b"} |-> IF i = "a" THEN 5 ELSE 1],
                [i \in {"a"} |-> 3]}
=============================================================================
