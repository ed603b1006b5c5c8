-------------------------- MODULE MCThreadServers --------------------------
(* Instances of ThreadServers for TLC.                                      *)
EXTENDS ThreadServers, TLC

MCRequests == {<<"WRITE", "WRITE", "READ">>}
=============================================================================
