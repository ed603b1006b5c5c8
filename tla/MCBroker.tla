------------------------------ MODULE MCBroker ------------------------------
(* Instances of Broker for TLC.                                             *)
EXTENDS Broker, TLC

CONSTANTS p1, p2, s1, s2, cpu, mem

BrokerSymmetry == Permutations(Publishers) \cup Permutations((Clients \ Publishers) \ Mortal) \cup Permutations(Topics)
=============================================================================
