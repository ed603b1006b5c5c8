--------------------------- MODULE ArgumentServer ---------------------------
(***************************************************************************)
(* Practica1's ServidorMultiHilo/complex_server.c: main accepts N_THREADS  *)
(* connections and creates a thread for each, which gets the address of    *)
(* main's variable arg and copies what is there when it runs.  The thread  *)
(* greets its client, receives its message and ends; nobody closes the     *)
(* connection.  Thread number n is created for the n-th connection.        *)
(***************************************************************************)
EXTENDS Connections

VARIABLES
  arg,          \* main's variable; NoClient before the first connection
  params        \* per thread, its copy

ArgumentInit ==
  /\ arg = NoClient
  /\ params = [t \in Threads |-> NoClient]

\* Mutant: arg is written after pthread_create, and the thread may be faster.
main_accept_create_first(t) ==
  /\ up /\ pc[t] = "none" /\ backlog # <<>>
  /\ \A s \in Threads : s < t => pc[s] # "none"
  /\ arg' = Head(backlog) /\ backlog' = Tail(backlog)
  /\ own' = [own EXCEPT ![t] = Head(backlog)]
  /\ raced' = TRUE
  /\ \/ Goto(t, "copy") /\ UNCHANGED params
     \/ arg # NoClient /\ Goto(t, "greet") /\ params' = [params EXCEPT ![t] = arg]
  /\ UNCHANGED <<up, unread, inbox, shut, reset, client>>

\* accept, the assignment to arg and pthread_create.
main_accept(t) ==
  /\ up /\ pc[t] = "none" /\ backlog # <<>>
  /\ \A s \in Threads : s < t => pc[s] # "none"
  /\ arg' = Head(backlog) /\ backlog' = Tail(backlog)
  /\ own' = [own EXCEPT ![t] = Head(backlog)]
  /\ raced' = (raced \/ \E s \in Threads : pc[s] = "copy")
  /\ Goto(t, "copy")
  /\ UNCHANGED <<up, unread, inbox, shut, reset, client, params>>

copy_parameters(t) ==
  /\ up /\ pc[t] = "copy"
  /\ params' = [params EXCEPT ![t] = arg]
  /\ Goto(t, "greet")
  /\ UNCHANGED <<up, network, client, own, raced, arg>>

greet(t) ==
  /\ up /\ pc[t] = "greet"
  /\ Send(params[t])
  /\ Goto(t, "receive")
  /\ UNCHANGED <<backlog, unread, shut, client, own, raced, arg, params>>

receive(t) ==
  /\ up /\ pc[t] = "receive" /\ Readable(params[t])
  /\ TakeUnread(params[t])
  /\ Goto(t, "ended")
  /\ UNCHANGED <<up, backlog, inbox, shut, client, own, raced, arg, params>>

\* main has joined all the threads and returns.
main_returns ==
  /\ up /\ \A t \in Threads : pc[t] = "ended"
  /\ up' = FALSE
  /\ UNCHANGED <<network, client, threads, raced, arg, params>>

argument_thread(t) == main_accept(t) \/ copy_parameters(t) \/ greet(t) \/ receive(t)

-----------------------------------------------------------------------------
\* A thread that missed its own connection has a later one, never one that an
\* earlier thread was created for: the address it reads is only written onwards.
ServesOwnOrLater ==
  \A t \in Threads : params[t] # NoClient =>
    \E s \in Threads : s >= t /\ own[s] = params[t]

=============================================================================
