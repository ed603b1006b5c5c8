---------------------------- MODULE MCClientList ----------------------------
(* Instances of ClientList for TLC.                                         *)
EXTENDS ClientList, TLC

CONSTANTS c1, c2, c3, c4, c5, cpu, mem, net

Symmetry == Permutations(Clients) \cup Permutations(Topics)
=============================================================================
