----------------------------- MODULE MCCounter -----------------------------
(* Instances of Counter for TLC.                                            *)
EXTENDS CounterRefinement

CONSTANTS t1, t2, t3

=============================================================================
