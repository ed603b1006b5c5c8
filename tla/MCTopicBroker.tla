---------------------------- MODULE MCTopicBroker ----------------------------
(* Instances of TopicBroker for TLC.                                        *)
EXTENDS TopicBroker, TLC

CONSTANTS c1, c2, c3, c4, cpu, mem, net

Symmetry == Permutations(Clients) \cup Permutations(Topics)
=============================================================================
