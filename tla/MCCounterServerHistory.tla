----------------------- MODULE MCCounterServerHistory -----------------------
(* Instances of CounterServerHistory for TLC.                               *)
EXTENDS CounterServerHistory, TLC

CONSTANTS t1, t2, c1, c2, c3
=============================================================================
