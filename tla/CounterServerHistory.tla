------------------------ MODULE CounterServerHistory ------------------------
(***************************************************************************)
(* CounterServer with history variables: what had been answered to any     *)
(* client when a client connected, and which answers the end of the server *)
(* has taken back.                                                         *)
(*                                                                         *)
(* A server that died before the first line of its file leaves an empty    *)
(* file, and the next one counts from whatever is in its line buffer       *)
(* (counter.c:48), from something else at every start.  What a server      *)
(* without a single line in its file has told is forgotten when it ends.   *)
(***************************************************************************)
EXTENDS CounterServer

VARIABLES
  known,       \* per client thread, a set of answers
  forgotten    \* the answered clients whose number was lost with the server

history == <<known, forgotten>>

HistoryInit ==
  /\ ServerInit
  /\ known = [c \in Clients |-> {}] /\ forgotten = {}

HistoryNext ==
  /\ ServerNext
  /\ known' = [c \in Clients |->
       IF client[c] = "start" /\ client'[c] = "connected"
       THEN {response[d] : d \in Answered \ forgotten}
       ELSE known[c]]
  /\ forgotten' = IF main' = "down" /\ file' = <<>> THEN Answered' ELSE forgotten

HistorySpec == HistoryInit /\ [][HistoryNext]_<<server_vars, history>>

FairHistorySpec == HistorySpec /\ ServerFairness

-----------------------------------------------------------------------------
\* A client that connects after somebody was told n is told at least n, and more
\* if it increments, also when the server crashed and restarted in between,
\* unless the server that told n ended before its file had any line.
AnswersNeverGoBack ==
  \A c \in Answered : \A n \in known[c] :
    /\ response[c] >= n
    /\ request[c] = COUNTER_INCREMENT => response[c] > n
=============================================================================
