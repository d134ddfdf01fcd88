-------------------------- MODULE MCModelRepository --------------------------
(* Two writers and a reader over three versions, with up to two faults.    *)
EXTENDS ModelRepository, TLC

Writers == Permutations(Threads)
=============================================================================
