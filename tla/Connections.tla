---------------------------- MODULE Connections ----------------------------
(***************************************************************************)
(* The clients and the sockets of the first three servers with a thread    *)
(* per client: Practica1 (ArgumentServer), RP1 (DescriptorServer) and      *)
(* Practica3 (GlobalServer).  All their clients do the same: connect, send *)
(* one message, receive one, close.  What the server does is in the        *)
(* modules that extend this one.                                           *)
(*                                                                         *)
(* A connection is named by its client.  A socket that is closed with data *)
(* it has not read resets the connection, and so does data that arrives    *)
(* for a closed one; what had arrived before can still be read.  The next  *)
(* recv or send then fails, unless the connection had been closed before,  *)
(* and a send after that raises SIGPIPE, which nobody handles.             *)
(***************************************************************************)
EXTENDS Integers, Sequences, FiniteSets

CONSTANTS
  CLIENTS,      \* how many clients come
  N_THREADS,    \* how many threads the server has
  MAX_KILLED    \* how many clients may be killed

ASSUME ConnectionsAssumption ==
  CLIENTS \in Nat /\ N_THREADS \in Nat \ {0} /\ MAX_KILLED \in Nat

VARIABLES
  up,           \* the server runs
  backlog,      \* the connections that wait for accept
  client,       \* per client program, see ClientStates
  unread,       \* per connection, how many recvs the server's socket has data for
  inbox,        \* per client, the messages in its own socket
  shut,         \* the connections that the server has closed
  reset,        \* per connection, see ResetStates
  pc,           \* per server thread, what it does next
  own,          \* per server thread, the client it was meant for (history)
  raced         \* what the server's threads share was disturbed (history)

network == <<backlog, unread, inbox, shut, reset>>
threads == <<pc, own>>
connections == <<up, network, client, threads, raced>>

\* The clients are numbered in the order in which they connect.
Clients == 1..CLIENTS
NoClient == 0
Threads == 1..N_THREADS

ClientStates == {"start", "connected", "sent", "answered", "unanswered", "killed"}

\* Reset by the client: the server has yet to get the error, or it is "done".
ResetStates == {"no", "error", "done"}
Ended(c) == client[c] \in {"answered", "unanswered", "killed"}

ConnectionsInit ==
  /\ up = TRUE
  /\ backlog = <<>>
  /\ client = [c \in Clients |-> "start"]
  /\ unread = [c \in Clients |-> 0] /\ inbox = [c \in Clients |-> 0]
  /\ shut = {} /\ reset = [c \in Clients |-> "no"]
  /\ own = [t \in Threads |-> NoClient]
  /\ raced = FALSE

(***************************************************************************)
(* The clients.                                                            *)
(***************************************************************************)
setup_client(c) ==
  /\ up /\ client[c] = "start" /\ \A d \in 1..(c - 1) : client[d] # "start"
  /\ client' = [client EXCEPT ![c] = "connected"]
  /\ backlog' = Append(backlog, c)
  /\ UNCHANGED <<up, unread, inbox, shut, reset, threads, raced>>

\* The server reads the message in that many pieces.
send_request(c, pieces) ==
  /\ client[c] = "connected"
  /\ client' = [client EXCEPT ![c] = "sent"]
  /\ unread' = [unread EXCEPT ![c] = IF up /\ c \notin shut THEN pieces ELSE 0]
  /\ UNCHANGED <<up, backlog, inbox, shut, reset, threads, raced>>

\* The client's socket is closed, with n messages in it.
ClientCloses(c, n) ==
  /\ reset' = IF n > 0 THEN [reset EXCEPT ![c] = "error"] ELSE reset
  /\ inbox' = [inbox EXCEPT ![c] = 0]

\* One recv, of the first message or of all there are; then the client closes.
recv_reply(c, messages) ==
  /\ client[c] = "sent"
  /\ \/ inbox[c] > 0 /\ client' = [client EXCEPT ![c] = "answered"]
     \/ /\ inbox[c] = 0 /\ (c \in shut \/ ~up)
        /\ client' = [client EXCEPT ![c] = "unanswered"]
  /\ ClientCloses(c, inbox[c] - messages)
  /\ UNCHANGED <<up, backlog, unread, shut, threads, raced>>

\* A client is killed.  Before it has sent, the server reads the end of the
\* connection instead of a message.
Quit(c) ==
  /\ client[c] \in {"connected", "sent"}
  /\ Cardinality({d \in Clients : client[d] = "killed"}) < MAX_KILLED
  /\ client' = [client EXCEPT ![c] = "killed"]
  /\ ClientCloses(c, inbox[c])
  /\ raced' = (raced \/ client[c] = "connected")
  /\ UNCHANGED <<up, backlog, unread, shut, threads>>

client_program(c, pieces, messages) ==
  setup_client(c) \/ send_request(c, pieces) \/ recv_reply(c, messages)

(***************************************************************************)
(* What a server does with a connection.                                   *)
(***************************************************************************)
\* Mutant: recv waits for a message also when there will be none.
Readable_message(c) == unread[c] > 0

\* recv on c returns: c's message, or 0 or an error if c has closed.
Readable(c) == unread[c] > 0 \/ Ended(c)

\* The message is read or, when there is none, the error.
TakeUnread(c) ==
  IF unread[c] > 0
  THEN unread' = [unread EXCEPT ![c] = @ - 1] /\ UNCHANGED reset
  ELSE reset' = [reset EXCEPT ![c] = IF @ = "error" THEN "done" ELSE @] /\ UNCHANGED unread

\* send on c: arrives, resets the connection, gets the error, or ends the server.
Send(c) ==
  /\ up' = (reset[c] # "done")
  /\ inbox' = IF Ended(c) THEN inbox ELSE [inbox EXCEPT ![c] = @ + 1]
  /\ reset' = IF Ended(c) THEN [reset EXCEPT ![c] = "done"] ELSE reset

Goto(t, next) == pc' = [pc EXCEPT ![t] = next]
=============================================================================
