----------------------------- MODULE MCResearch -----------------------------
(* Three names, two of them in one sector and all three legs of a spread;  *)
(* windows of one to three bars, and folds that touch, overlap and leave   *)
(* gaps, with and without a purge gap.                                     *)
EXTENDS Research

MCNames == {"a", "b", "c"}

MCGroups == [i \in MCNames |-> IF i = "c" THEN "energy" ELSE "tech"]

MCListed == [i \in MCNames |-> IF i = "b" THEN 3 ELSE 1]

MCConfigs ==
  [train: {4}, test: {1, 2}, step: {1, 2, 3}, purge: {0, 1}]

Causal ==
  Allocators \cup {"demo", "factor", "book", "pairs", "butterfly", "fixed", "model", "barra", "minvar"}

Documented == {"mdp", "mdp_vol", "value", "multi", "ml"}
=============================================================================
