-------------------------- MODULE OrderedShutdown --------------------------
(***************************************************************************)
(* What the shutdown protocol of RP2_relojes promises: when all are ready, *)
(* the machines go down one after the other, in a fixed order, each once   *)
(* the one before has acknowledged, and the coordinator last.  A machine   *)
(* that fails may stop the protocol; it never makes it skip a step.        *)
(***************************************************************************)
EXTENDS Naturals, Sequences

CONSTANT Order      \* the machines, in the order they go down

VARIABLES
  ready,      \* the machines that are ready to shut down
  down,       \* how many have acknowledged their shutdown
  finished    \* the coordinator knows that all have

vars == <<ready, down, finished>>

Machines == {Order[i] : i \in 1..Len(Order)}

Init == ready = {} /\ down = 0 /\ finished = FALSE

Ready(m) ==
  /\ ready' = ready \cup {m}
  /\ UNCHANGED <<down, finished>>

Acknowledge ==
  /\ ready = Machines /\ down < Len(Order)
  /\ down' = down + 1
  /\ UNCHANGED <<ready, finished>>

Finish ==
  /\ down = Len(Order)
  /\ finished' = TRUE
  /\ UNCHANGED <<ready, down>>

Next == (\E m \in Machines : Ready(m)) \/ Acknowledge \/ Finish

Spec == Init /\ [][Next]_vars
=============================================================================
