---------------------------- MODULE GlobalServer ----------------------------
(***************************************************************************)
(* Practica3's counter server: server.c over its proxy.c.  main accepts a  *)
(* connection into the global connfd, waits for max_threads_sem and        *)
(* creates a thread; the thread receives from connfd, and answers to       *)
(* connfd, whatever connection it is by then.  counter has no lock.        *)
(*                                                                         *)
(* Left out: the second that every thread sleeps before it starts; the     *)
(* time it reports, which is always 50; that counter is 32 bits wide.      *)
(***************************************************************************)
EXTENDS Connections

CONSTANTS MAX_THREADS,
  Stored,       \* the last number in server_output.txt when the server starts
  Requests      \* what the clients may ask for, by number

Actions == {"READ", "WRITE"}

ASSUME GlobalAssumption ==
  MAX_THREADS \in Nat \ {0} /\ Stored \in Nat /\ Requests \subseteq [Clients -> Actions]

VARIABLES
  global_connfd,
  max_threads_sem,
  accepted,     \* main has a connection and waits for the semaphore
  action,       \* per client, what it asks for
  counter,
  file,         \* the last number in server_output.txt
  conn,         \* per thread, the connection on which its recv waits
  req, seen     \* per thread, what it received, and the counter as it read it

memory == <<max_threads_sem, accepted, action, counter, file>>
locals == <<conn, req, seen>>

\* main reads the counter from the last eleven bytes of the file.
GlobalInit ==
  /\ global_connfd = NoClient
  /\ max_threads_sem = MAX_THREADS /\ accepted = FALSE
  /\ action \in Requests
  /\ counter = Stored /\ file = Stored
  /\ conn = [t \in Threads |-> NoClient]
  /\ req = [t \in Threads |-> "other"]
  /\ seen = [t \in Threads |-> 0]

\* A thread that has not answered yet.
Serving(t) == pc[t] \notin {"none", "post"}

\* accept_new_client replaces connfd, under the feet of the threads that serve.
accept_global ==
  /\ up /\ ~accepted /\ backlog # <<>>
  /\ global_connfd' = Head(backlog) /\ backlog' = Tail(backlog)
  /\ accepted' = TRUE
  /\ raced' = (raced \/ \E t \in Threads : Serving(t))
  /\ UNCHANGED <<up, unread, inbox, shut, reset, client, threads, locals,
                 max_threads_sem, action, counter, file>>

attend_clients(t) ==
  /\ up /\ accepted /\ max_threads_sem > 0
  /\ pc[t] = "none" /\ \A s \in Threads : s < t => pc[s] # "none"
  /\ max_threads_sem' = max_threads_sem - 1 /\ accepted' = FALSE
  /\ own' = [own EXCEPT ![t] = global_connfd]
  /\ Goto(t, "recv_request")
  /\ UNCHANGED <<up, network, client, raced, locals, global_connfd, action, counter, file>>

recv_request(t) ==
  /\ up /\ pc[t] = "recv_request"
  /\ conn' = [conn EXCEPT ![t] = global_connfd]
  /\ Goto(t, "receiving")
  /\ UNCHANGED <<up, network, client, own, raced, global_connfd, memory, req, seen>>

\* Mutant: a reader's request falls through to the increment.
Branch_fallthrough(r) == CASE r \in Actions -> "load" [] OTHER -> "post"

\* Mutant: readers are not answered.
Branch_writers(r) == CASE r = "WRITE" -> "load" [] OTHER -> "post"

\* What client_func does with a request; neither READ nor WRITE: nothing.
Branch(r) == CASE r = "WRITE" -> "load" [] r = "READ" -> "answer" [] OTHER -> "post"

\* If the client has closed, msg is what the stack holds.
recv_request_returns(t) ==
  LET c == conn[t] IN
  /\ up /\ pc[t] = "receiving" /\ Readable(c)
  /\ \E r \in IF unread[c] > 0 THEN {action[c]} ELSE Actions \cup {"other"} :
       req' = [req EXCEPT ![t] = r] /\ Goto(t, Branch(r))
  /\ TakeUnread(c)
  /\ UNCHANGED <<up, backlog, inbox, shut, client, own, raced, global_connfd, memory, conn, seen>>

\* counter++ is a load and a store.
load_counter(t) ==
  /\ up /\ pc[t] = "load"
  /\ seen' = [seen EXCEPT ![t] = counter]
  /\ Goto(t, "store")
  /\ UNCHANGED <<up, network, client, own, raced, global_connfd, memory, conn, req>>

store_counter(t) ==
  /\ up /\ pc[t] = "store"
  /\ counter' = seen[t] + 1
  /\ seen' = [seen EXCEPT ![t] = 0]
  /\ Goto(t, "print")
  /\ UNCHANGED <<up, network, client, own, raced, global_connfd, conn, req,
                 max_threads_sem, accepted, action, file>>

print_counter(t) ==
  /\ up /\ pc[t] = "print"
  /\ file' = counter
  /\ Goto(t, "answer")
  /\ UNCHANGED <<up, network, client, own, raced, global_connfd, locals,
                 max_threads_sem, accepted, action, counter>>

\* send_response: what it is called with is the counter as it is by now.
send_response(t) ==
  /\ up /\ pc[t] = "answer"
  /\ Send(global_connfd)
  /\ Goto(t, "post")
  /\ UNCHANGED <<backlog, unread, shut, client, own, raced, global_connfd, memory, locals>>

ThreadEnds(t) ==
  /\ pc' = [pc EXCEPT ![t] = "none"] /\ own' = [own EXCEPT ![t] = NoClient]
  /\ conn' = [conn EXCEPT ![t] = NoClient]
  /\ req' = [req EXCEPT ![t] = "other"] /\ seen' = [seen EXCEPT ![t] = 0]
  /\ UNCHANGED <<up, network, client, raced, global_connfd, accepted, action, counter, file>>

\* Mutant: only the branches that answer post the semaphore.
post_semaphore_answered(t) ==
  /\ up /\ pc[t] = "post"
  /\ max_threads_sem' = max_threads_sem + (IF req[t] = "other" THEN 0 ELSE 1)
  /\ ThreadEnds(t)

post_semaphore(t) ==
  /\ up /\ pc[t] = "post"
  /\ max_threads_sem' = max_threads_sem + 1
  /\ ThreadEnds(t)

client_func(t) ==
  \/ recv_request(t) \/ recv_request_returns(t)
  \/ load_counter(t) \/ store_counter(t) \/ print_counter(t)
  \/ send_response(t) \/ post_semaphore(t)

-----------------------------------------------------------------------------
\* The threads that run have taken the rest of MAX_THREADS.
ThreadsCounted ==
  max_threads_sem + Cardinality({t \in Threads : pc[t] # "none"}) = MAX_THREADS

\* The writers whose request a thread has received and counted.
Counted ==
  {c \in Clients :
    /\ action[c] = "WRITE" /\ client[c] \notin {"start", "connected"} /\ unread[c] = 0
    /\ ~\E t \in Threads : own[t] = c /\ pc[t] \in {"load", "store"}}

\* As long as no connection is accepted while another is served, and no client
\* ends before it sent, the counter counts the writers exactly, without a lock:
\* the file holds its value, and a thread answers its own client with it.
ExactUnlessRaced ==
  LET exact == Stored + Cardinality(Counted) IN
  ~raced =>
    /\ counter = exact
    /\ (\A t \in Threads : pc[t] # "print") => file = exact
    /\ \A t \in Threads : pc[t] = "answer" => global_connfd = own[t]
=============================================================================
