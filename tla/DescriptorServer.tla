-------------------------- MODULE DescriptorServer --------------------------
(***************************************************************************)
(* RP1's ServidorMultiHilo/server.c over its proxy.c: every thread loops:  *)
(* accept, simple_recv, simple_send, close_server.  simple_recv itself     *)
(* closes the descriptor when the client has gone, and the thread goes on  *)
(* with the number, which accept may have given away by then.              *)
(*                                                                         *)
(* A recv that waits keeps its connection, whatever becomes of the number. *)
(* The client sends 256 bytes and the thread receives 255: one is left.    *)
(***************************************************************************)
EXTENDS Connections

CONSTANT Fds    \* descriptor numbers, enough for every thread

ASSUME FdsAssumption == Fds \subseteq Nat \ {0}

VARIABLES
  descriptor,   \* per number, the connection it stands for
  connfd,       \* per thread, the number that accept returned
  receiving     \* per thread, the connection on which it waits

DescriptorInit ==
  /\ descriptor = [d \in Fds |-> NoClient]
  /\ connfd = [t \in Threads |-> 0]
  /\ receiving = [t \in Threads |-> NoClient]

Free == {d \in Fds : descriptor[d] = NoClient}
Connection(t) == descriptor[connfd[t]]

\* accept gives the lowest free number.
accept_new_client(t) ==
  /\ up /\ pc[t] = "accept" /\ backlog # <<>>
  /\ \E d \in Free :
       /\ \A e \in Free : d <= e
       /\ connfd' = [connfd EXCEPT ![t] = d]
       /\ descriptor' = [descriptor EXCEPT ![d] = Head(backlog)]
  /\ own' = [own EXCEPT ![t] = Head(backlog)]
  /\ backlog' = Tail(backlog)
  /\ Goto(t, "recv")
  /\ UNCHANGED <<up, unread, inbox, shut, reset, client, raced, receiving>>

\* recv looks the number up; it may be closed by now.
simple_recv(t) ==
  /\ up /\ pc[t] = "recv"
  /\ receiving' = [receiving EXCEPT ![t] = Connection(t)]
  /\ Goto(t, IF Connection(t) = NoClient THEN "send" ELSE "receiving")
  /\ UNCHANGED <<up, network, client, own, raced, descriptor, connfd>>

\* The connection ends with the last that refers to it.
Released(c, table, waiting) ==
  IF c = NoClient \/ (\E d \in Fds : table[d] = c) \/ (\E t \in Threads : waiting[t] = c)
  THEN shut ELSE shut \cup {c}

\* Mutant: simple_recv closes the descriptor whatever recv has returned.
simple_recv_returns_closing(t) ==
  LET c == receiving[t] IN
  /\ up /\ pc[t] = "receiving" /\ Readable(c)
  /\ TakeUnread(c)
  /\ receiving' = [receiving EXCEPT ![t] = NoClient]
  /\ shut' = Released(c, descriptor, receiving')
  /\ Goto(t, "close_received")
  /\ UNCHANGED <<up, backlog, inbox, client, own, raced, descriptor, connfd>>

\* recv returns the message, 0, or an error.
simple_recv_returns(t) ==
  LET c == receiving[t] IN
  /\ up /\ pc[t] = "receiving" /\ Readable(c)
  /\ TakeUnread(c)
  /\ receiving' = [receiving EXCEPT ![t] = NoClient]
  /\ shut' = Released(c, descriptor, receiving')
  /\ Goto(t, IF unread[c] > 0 \/ reset[c] = "error" THEN "send" ELSE "close_received")
  /\ UNCHANGED <<up, backlog, inbox, client, own, raced, descriptor, connfd>>

close_socket(t, next) ==
  /\ descriptor' = [descriptor EXCEPT ![connfd[t]] = NoClient]
  /\ shut' = Released(Connection(t), descriptor', receiving)
  /\ Goto(t, next)
  /\ UNCHANGED <<up, backlog, unread, inbox, reset, client, own, raced, connfd, receiving>>

\* simple_recv closes the descriptor after it has received 0.
close_received(t) == up /\ pc[t] = "close_received" /\ close_socket(t, "send")

simple_send(t) ==
  /\ up /\ pc[t] = "send"
  /\ IF Connection(t) = NoClient THEN UNCHANGED <<up, inbox, reset>>
     ELSE Send(Connection(t))
  /\ Goto(t, "close")
  /\ UNCHANGED <<backlog, unread, shut, client, own, raced, descriptor, connfd, receiving>>

\* Mutant: the thread that lost its client does not close.
close_server_unless_lost(t) ==
  /\ up /\ pc[t] = "close"
  /\ \/ ~Ended(own[t]) /\ close_socket(t, "accept")
     \/ Ended(own[t]) /\ Goto(t, "accept") /\ UNCHANGED <<up, network, client, own, raced, descriptor, connfd, receiving>>

close_server(t) == up /\ pc[t] = "close" /\ close_socket(t, "accept")

descriptor_thread(t) ==
  \/ accept_new_client(t) \/ simple_recv(t) \/ simple_recv_returns(t)
  \/ close_received(t) \/ simple_send(t) \/ close_server(t)

-----------------------------------------------------------------------------
\* No descriptor is lost, for all the closing of other threads' descriptors: an
\* open one is the number of the thread that will close it.
DescriptorsHeld ==
  \A d \in Fds : descriptor[d] # NoClient =>
    \E t \in Threads : connfd[t] = d /\ own[t] = descriptor[d] /\ pc[t] # "accept"

\* As long as no client has ended before it sent, a thread's number stands for
\* its own client: it receives from nobody else and greets nobody else.
OwnUnlessRaced ==
  ~raced =>
    \A t \in Threads : connfd[t] # 0 /\ pc[t] # "accept" => Connection(t) = own[t]
=============================================================================
