--------------------------- MODULE MCManagedClient ---------------------------
(* A client with a burst of two.  The threshold is above max_retries + 1,  *)
(* so that it takes more than one call to open the circuit, and the outage *)
(* may end or begin in any step.                                           *)
EXTENDS ManagedClient
=============================================================================
