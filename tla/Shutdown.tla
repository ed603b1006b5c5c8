------------------------------ MODULE Shutdown ------------------------------
(***************************************************************************)
(* The shutdown protocol of RP2_relojes: P1 and P3 tell P2 that they are   *)
(* ready, P2 orders P1 and then P3 to shut down, and each acknowledges.    *)
(*                                                                         *)
(* A process keeps no program counter: its thread loops over a switch on   *)
(* its Lamport clock, so the clock alone says what it does next.           *)
(***************************************************************************)
EXTENDS Naturals, Sequences

P1 == "P1"
P2 == "P2"
P3 == "P3"
Processes == {P1, P2, P3}
Peers == {P1, P3}

\* enum operations
READY_TO_SHUTDOWN == "READY_TO_SHUTDOWN"
SHUTDOWN_NOW == "SHUTDOWN_NOW"
SHUTDOWN_ACK == "SHUTDOWN_ACK"

VARIABLES
  local_clock_lamport,
  state,        \* per process; "failed": err, a signal; "unexpected": errx
  queue,        \* P2's connections that are not accepted yet
  connfd,       \* P2's accepted connections: connfdp1 and then connfdp3
  chan          \* the messages sent and not yet received, per direction

vars == <<local_clock_lamport, state, queue, connfd, chan>>

States == {"start", "running", "ended", "failed", "unexpected"}
Links == {<<p, P2>> : p \in Peers} \cup {<<P2, p>> : p \in Peers}
Messages == [origin : Processes,
             action : {READY_TO_SHUTDOWN, SHUTDOWN_NOW, SHUTDOWN_ACK},
             clock_lamport : Nat]

Closed(p) == state[p] \in {"ended", "failed", "unexpected"}
Stop(p, s) == state' = [state EXCEPT ![p] = s]

Init ==
  /\ local_clock_lamport = [p \in Processes |-> 0]
  /\ state = [p \in Processes |-> "start"]
  /\ queue = <<>> /\ connfd = <<>>
  /\ chan = [l \in Links |-> <<>>]

(***************************************************************************)
(* proxy.c.                                                                *)
(***************************************************************************)
setup_server ==
  /\ state[P2] = "start"
  /\ Stop(P2, "running")
  /\ UNCHANGED <<local_clock_lamport, queue, connfd, chan>>

\* connect is retried until P2 listens.
setup_client(p) ==
  /\ state[p] = "start" /\ state[P2] = "running"
  /\ Stop(p, "running")
  /\ queue' = Append(queue, p)
  /\ UNCHANGED <<local_clock_lamport, connfd, chan>>

accept_new_client ==
  /\ Len(connfd) < 2 /\ queue # <<>>
  /\ connfd' = Append(connfd, Head(queue))
  /\ queue' = Tail(queue)
  /\ UNCHANGED <<local_clock_lamport, state, chan>>

maximum(a, b) == IF a > b THEN a ELSE b

\* The clock goes up before the send.  "Send failed", and the process ends, if the
\* peer has closed the connection, though the first send after that may succeed;
\* either way nobody reads the message.
send_message(p, to, a) ==
  /\ local_clock_lamport' = [local_clock_lamport EXCEPT ![p] = @ + 1]
  /\ chan' = [chan EXCEPT ![<<p, to>>] =
       Append(@, [origin |-> p, action |-> a, clock_lamport |-> local_clock_lamport'[p]])]
  /\ UNCHANGED state \/ (Closed(to) /\ Stop(p, "failed"))
  /\ UNCHANGED <<queue, connfd>>

\* recv_message, and the test of the message's type that follows every call.
recv_message(p, from, expected) ==
  /\ chan[<<from, p>>] # <<>>
  /\ LET msg == Head(chan[<<from, p>>]) IN
       /\ local_clock_lamport' =
            [local_clock_lamport EXCEPT ![p] = maximum(@, msg.clock_lamport) + 1]
       /\ Stop(p, IF msg.action = expected THEN "running" ELSE "unexpected")
  /\ chan' = [chan EXCEPT ![<<from, p>>] = Tail(@)]

\* "Connection closed", after the last message was read.
recv_closed(p, from) ==
  /\ Closed(from) /\ chan[<<from, p>>] = <<>>
  /\ Stop(p, "failed")
  /\ UNCHANGED <<local_clock_lamport, queue, connfd, chan>>

Recv(p, from, expected) ==
  (recv_message(p, from, expected) /\ UNCHANGED <<queue, connfd>>) \/ recv_closed(p, from)

End(p) ==
  /\ Stop(p, "ended")
  /\ UNCHANGED <<local_clock_lamport, queue, connfd, chan>>

(***************************************************************************)
(* The loops of p1.c, p2.c and p3.c.                                       *)
(***************************************************************************)
p1_thread_comm ==
  LET lcl == local_clock_lamport[P1] IN
  /\ state[P1] = "running"
  /\ \/ lcl = 0 /\ send_message(P1, P2, READY_TO_SHUTDOWN)
     \/ lcl \in 1..4 /\ Recv(P1, P2, SHUTDOWN_NOW)
     \/ lcl = 5 /\ send_message(P1, P2, SHUTDOWN_ACK)
     \/ lcl >= 6 /\ End(P1)

p3_thread_comm ==
  LET lcl == local_clock_lamport[P3] IN
  /\ state[P3] = "running"
  /\ \/ lcl = 0 /\ send_message(P3, P2, READY_TO_SHUTDOWN)
     \/ lcl \in 1..8 /\ Recv(P3, P2, SHUTDOWN_NOW)
     \/ lcl = 9 /\ send_message(P3, P2, SHUTDOWN_ACK)
     \/ lcl >= 10 /\ End(P3)

\* Mutant: the connections stay in the order they were accepted in.
recv_ready_unswapped ==
  Recv(P2, connfd[2], READY_TO_SHUTDOWN)

\* The second ready message tells which connection is P1's.
recv_ready ==
  \/ /\ recv_message(P2, connfd[2], READY_TO_SHUTDOWN)
     /\ connfd' = IF Head(chan[<<connfd[2], P2>>]).origin = P1 /\ state'[P2] = "running"
                  THEN <<connfd[2], connfd[1]>> ELSE connfd
     /\ UNCHANGED queue
  \/ recv_closed(P2, connfd[2])

\* Mutant: the last acknowledgement is not awaited.
p2_loop_unacknowledged ==
  LET lcl == local_clock_lamport[P2] IN
     \/ lcl = 0 /\ Recv(P2, connfd[1], READY_TO_SHUTDOWN)
     \/ lcl \in 1..2 /\ recv_ready
     \/ lcl = 3 /\ send_message(P2, connfd[1], SHUTDOWN_NOW)
     \/ lcl \in 4..6 /\ Recv(P2, connfd[1], SHUTDOWN_ACK)
     \/ lcl = 7 /\ send_message(P2, connfd[2], SHUTDOWN_NOW)
     \/ lcl >= 8 /\ End(P2)

\* Mutant: case 2 is grouped with the next case, not with the one before.
p2_loop_early ==
  LET lcl == local_clock_lamport[P2] IN
     \/ lcl = 0 /\ Recv(P2, connfd[1], READY_TO_SHUTDOWN)
     \/ lcl = 1 /\ recv_ready
     \/ lcl \in 2..3 /\ send_message(P2, connfd[1], SHUTDOWN_NOW)
     \/ lcl \in 4..6 /\ Recv(P2, connfd[1], SHUTDOWN_ACK)
     \/ lcl = 7 /\ send_message(P2, connfd[2], SHUTDOWN_NOW)
     \/ lcl \in 8..10 /\ Recv(P2, connfd[2], SHUTDOWN_ACK)
     \/ lcl >= 11 /\ End(P2)

p2_loop ==
  LET lcl == local_clock_lamport[P2] IN
     \/ lcl = 0 /\ Recv(P2, connfd[1], READY_TO_SHUTDOWN)
     \/ lcl \in 1..2 /\ recv_ready
     \/ lcl = 3 /\ send_message(P2, connfd[1], SHUTDOWN_NOW)
     \/ lcl \in 4..6 /\ Recv(P2, connfd[1], SHUTDOWN_ACK)
     \/ lcl = 7 /\ send_message(P2, connfd[2], SHUTDOWN_NOW)
     \/ lcl \in 8..10 /\ Recv(P2, connfd[2], SHUTDOWN_ACK)
     \/ lcl >= 11 /\ End(P2)

p2_thread_comm ==
  /\ state[P2] = "running"
  /\ accept_new_client \/ (Len(connfd) = 2 /\ p2_loop)

\* A process is killed, at any point.
Crash(p) ==
  /\ state[p] = "running"
  /\ Stop(p, "failed")
  /\ UNCHANGED <<local_clock_lamport, queue, connfd, chan>>

Step(p) ==
  \/ p \in Peers /\ setup_client(p)
  \/ p = P1 /\ p1_thread_comm
  \/ p = P3 /\ p3_thread_comm
  \/ p = P2 /\ (setup_server \/ p2_thread_comm)

Next == \E p \in Processes : Step(p) \/ Crash(p)

Spec == Init /\ [][Next]_vars

\* The kernel runs every process that can go on.
FairSpec == Spec /\ \A p \in Processes : WF_vars(Step(p))

-----------------------------------------------------------------------------

\* The events of the protocol as the labels of the three switches name them:
\* event k is the one that takes its process's clock to k.
EventOf == <<P1, P2, P2, P2, P1, P1, P2, P2, P3, P3, P2>>

\* The Lamport clock tells the phase: whoever's clock has reached k knows that
\* all events up to k have happened, wherever they happen.  (Event 1 is P1's
\* ready message; P3's has the clock 1 too and is event 2's or 3's cause.)
ClockTellsPhase ==
  \A p \in Processes : \A k \in 3..local_clock_lamport[p] :
    /\ local_clock_lamport[P1] >= 1 /\ local_clock_lamport[P3] >= 1
    /\ local_clock_lamport[EventOf[k]] >= k

\* No process ever gets a message of another type than the one it waits for,
\* whichever of P1 and P3 connects, is accepted or sends first, and whoever dies.
NothingUnexpected == \A p \in Processes : state[p] # "unexpected"

\* Once all are connected nobody hangs: each process ends, or sees that another
\* one has died and ends for that.
NobodyHangs ==
  (\A p \in Processes : state[p] # "start") ~> (\A p \in Processes : Closed(p))

\* The abstract protocol: P1 goes down before P3.  Who is ready, who has
\* acknowledged, and whether P2 knows it, is all in the clocks.
Ordered == INSTANCE OrderedShutdown WITH
  Order <- <<P1, P3>>,
  ready <- {p \in Peers : local_clock_lamport[p] >= 1},
  down <- IF local_clock_lamport[P3] >= 10 THEN 2
          ELSE IF local_clock_lamport[P1] >= 6 THEN 1 ELSE 0,
  finished <- state[P2] = "ended"

\* p2.c:3-8: first all are ready, then P1 goes down, then P3, then P2 is done.
ImplementsOrderedShutdown == Ordered!Spec
=============================================================================
