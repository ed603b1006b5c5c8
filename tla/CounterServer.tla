--------------------------- MODULE CounterServer ---------------------------
(***************************************************************************)
(* The server of RP3_concurrencia with its clients: server.c and client.c  *)
(* over the sockets of proxy.c, composed with Counter.                     *)
(*                                                                         *)
(* Each client thread makes one request and ends.  Each server thread      *)
(* loops: accept a connection, receive its request, call                   *)
(* safe_access_counter, send the response, close.  Any failed recv or send *)
(* is err(1, ...): it ends the whole process, server or client.            *)
(***************************************************************************)
EXTENDS Counter

CONSTANTS Clients, NoClient,
  Backlog       \* connections that wait for accept (listen's second argument)

ASSUME ClientsAssumption == NoClient \notin Clients /\ Backlog \in Nat

VARIABLES
  listening,    \* the server has called listen
  accept_queue, \* connected clients that no thread has accepted yet
  connfd,       \* per server thread, the client it serves
  client,       \* per client thread, see ClientStates
  request,      \* per client thread, the action it asks for
  response      \* per client thread, the counter it was sent

sockets == <<listening, accept_queue, connfd>>
clients == <<client, request, response>>
server_vars == <<vars, sockets, clients>>

\* "silent": gone before its request was sent; "gone": at any other time.
ClientStates == {"start", "connected", "requested", "answered", "silent", "gone"}

ServerInit ==
  /\ Init
  /\ listening = FALSE /\ accept_queue = <<>>
  /\ connfd = [t \in Threads |-> NoClient]
  /\ client = [c \in Clients |-> "start"]
  /\ request \in [Clients -> Operations]
  /\ response = [c \in Clients |-> 0]

(***************************************************************************)
(* The clients.                                                            *)
(***************************************************************************)
Answered == {c \in Clients : client[c] = "answered"}

\* setup_client: connect needs a listening server and room in its queue.
setup_client(c) ==
  /\ client[c] = "start"
  /\ listening /\ Len(accept_queue) <= Backlog
  /\ accept_queue' = Append(accept_queue, c)
  /\ client' = [client EXCEPT ![c] = "connected"]
  /\ UNCHANGED <<vars, listening, connfd, request, response>>

send_request(c) ==
  /\ client[c] = "connected"
  /\ client' = [client EXCEPT ![c] = "requested"]
  /\ UNCHANGED <<vars, sockets, request, response>>

\* err or a signal ends the client; a refused connection is the first case.
ClientEnds(c) ==
  /\ client[c] \in {"start", "connected", "requested"}
  /\ client' = [client EXCEPT ![c] = IF client[c] = "connected" THEN "silent" ELSE "gone"]
  /\ UNCHANGED <<vars, sockets, request, response>>

(***************************************************************************)
(* The server.                                                             *)
(***************************************************************************)
setup_server ==
  /\ main = "down" /\ ~listening
  /\ listening' = TRUE
  /\ UNCHANGED <<vars, accept_queue, connfd, clients>>

\* main calls init_counter once it listens, and creates the threads.
server_main ==
  /\ listening
  /\ (\E r \in Ratios, p \in Priorities : init_counter(r, p)) \/ init_counter_write
  /\ UNCHANGED <<sockets, clients>>

\* Mutant: the connection stays in the queue.
accept_new_client_again(t) ==
  /\ main = "running" /\ connfd[t] = NoClient /\ accept_queue # <<>>
  /\ connfd' = [connfd EXCEPT ![t] = Head(accept_queue)]
  /\ UNCHANGED <<vars, listening, accept_queue, clients>>

accept_new_client(t) ==
  /\ main = "running" /\ connfd[t] = NoClient /\ accept_queue # <<>>
  /\ connfd' = [connfd EXCEPT ![t] = Head(accept_queue)]
  /\ accept_queue' = Tail(accept_queue)
  /\ UNCHANGED <<vars, listening, clients>>

\* recv_request waits for the request, then safe_access_counter is called.
recv_request(t) ==
  LET c == connfd[t] IN
  /\ c # NoClient /\ client[c] \in {"requested", "gone"}
  /\ safe_access_counter(t, request[c])
  /\ UNCHANGED <<sockets, clients>>

access_counter(t) ==
  /\ Access(t)
  /\ UNCHANGED <<sockets, clients>>

\* Mutant: the counter is read again after the call, without a lock.
send_response_early(t) ==
  LET c == connfd[t] IN
  /\ return_counter(t)
  /\ response' = [response EXCEPT ![c] = counter]
  /\ client' = [client EXCEPT ![c] = IF @ = "requested" THEN "answered" ELSE @]
  /\ connfd' = [connfd EXCEPT ![t] = NoClient]
  /\ UNCHANGED <<listening, accept_queue, request>>

\* Mutant: the socket is not closed and the thread keeps it.
send_response_open(t) ==
  LET c == connfd[t] IN
  /\ return_counter(t)
  /\ response' = [response EXCEPT ![c] = counter_value[t]]
  /\ client' = [client EXCEPT ![c] = IF @ = "requested" THEN "answered" ELSE @]
  /\ UNCHANGED <<sockets, request>>

\* safe_access_counter returns; send_response and close_socket.
send_response(t) ==
  LET c == connfd[t] IN
  /\ return_counter(t)
  /\ response' = [response EXCEPT ![c] = counter_value[t]]
  /\ client' = [client EXCEPT ![c] = IF @ = "requested" THEN "answered" ELSE @]
  /\ connfd' = [connfd EXCEPT ![t] = NoClient]
  /\ UNCHANGED <<listening, accept_queue, request>>

\* The process ends: every connection is lost, and its client with it.
ServerEnds ==
  /\ Crash \/ (main = "down" /\ listening /\ UNCHANGED vars)
  /\ listening' = FALSE /\ accept_queue' = <<>>
  /\ connfd' = [t \in Threads |-> NoClient]
  /\ client' = [c \in Clients |-> IF client[c] \in {"connected", "requested", "silent"}
                                  THEN "gone" ELSE client[c]]
  /\ UNCHANGED <<request, response>>

\* recv returns 0: "Connection closed" ends the process.
recv_request_closed(t) ==
  /\ pc[t] = "idle" /\ connfd[t] # NoClient /\ client[connfd[t]] = "silent"
  /\ ServerEnds

server_thread(t) ==
  \/ accept_new_client(t)
  \/ recv_request(t) \/ recv_request_closed(t)
  \/ access_counter(t)
  \/ send_response(t)

client_thread(c) == setup_client(c) \/ send_request(c)

ServerNext ==
  \/ setup_server \/ server_main \/ ServerEnds
  \/ \E t \in Threads : server_thread(t)
  \/ \E c \in Clients : client_thread(c) \/ ClientEnds(c)

ServerSpec == ServerInit /\ [][ServerNext]_server_vars

\* Threads that can run are scheduled; a client that connected goes on to send.
ServerFairness ==
  /\ \A t \in Threads : WF_server_vars(server_thread(t))
  /\ \A c \in Clients : WF_server_vars(send_request(c))
  /\ WF_server_vars(server_main)

-----------------------------------------------------------------------------
ServerTypeOK ==
  /\ TypeOK
  /\ listening \in BOOLEAN
  /\ accept_queue \in Seq(Clients) /\ Len(accept_queue) <= Backlog + 1
  /\ connfd \in [Threads -> Clients \cup {NoClient}]
  /\ client \in [Clients -> ClientStates]
  /\ request \in [Clients -> Operations]
  /\ response \in [Clients -> Int]

Queued(c) == \E i \in DOMAIN accept_queue : accept_queue[i] = c
ServedBy(c) == {t \in Threads : connfd[t] = c}

\* A connection is in the accept queue or with one thread, never with both or
\* with two, and no client that still waits has been dropped by the server.
OneThreadPerConnection ==
  \A c \in Clients :
    /\ Cardinality(ServedBy(c)) + (IF Queued(c) THEN 1 ELSE 0) <= 1
    /\ client[c] \in {"connected", "requested"} => Queued(c) \/ ServedBy(c) # {}
    /\ client[c] = "answered" => ~Queued(c) /\ ServedBy(c) = {}

\* Two clients that asked for an increment are never told the same value, across
\* crashes and restarts of the server.
IncrementAnswersDistinct ==
  \A c, d \in Answered :
    c # d /\ request[c] = COUNTER_INCREMENT /\ request[d] = COUNTER_INCREMENT
      => response[c] # response[d]

\* A request is answered, or its client is gone (the server's end takes it along).
EveryRequestAnswered ==
  \A c \in Clients : client[c] = "requested" ~> client[c] \in {"answered", "gone"}
=============================================================================
