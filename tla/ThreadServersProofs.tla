------------------------- MODULE ThreadServersProofs -------------------------
(***************************************************************************)
(* Proofs about the three servers with a thread per client, for any number *)
(* of clients, threads, descriptors and killed clients.                    *)
(***************************************************************************)
EXTENDS ThreadServers, FiniteSetTheorems, TLAPS

\* What the functions are defined on: no step changes it.
ShapeInv ==
  /\ DOMAIN pc = Threads /\ DOMAIN own = Threads
  /\ DOMAIN params = Threads
  /\ DOMAIN connfd = Threads /\ DOMAIN receiving = Threads /\ DOMAIN descriptor = Fds
  /\ DOMAIN client = Clients /\ DOMAIN unread = Clients /\ DOMAIN inbox = Clients
  /\ DOMAIN reset = Clients

LEMMA ThreadsAreNumbers == Threads \subseteq Nat
BY ConnectionsAssumption DEF Threads

LEMMA ShapeInit == ThreadServersInit => ShapeInv
BY DEF ThreadServersInit, ConnectionsInit, ArgumentInit, DescriptorInit, ShapeInv

LEMMA ShapeKept == ShapeInv /\ [ThreadServersNext]_thread_server_vars => ShapeInv'
<1> SUFFICES ASSUME ShapeInv, [ThreadServersNext]_thread_server_vars PROVE ShapeInv'
  OBVIOUS
<1>1. ASSUME NEW t \in Threads, Practica1Thread(t) PROVE ShapeInv'
  BY <1>1 DEF Practica1Thread, argument_thread, main_accept, copy_parameters, greet, receive, Send,
              TakeUnread, Goto, network, descriptor_vars, ShapeInv
<1>2. ASSUME NEW t \in Threads, RP1Thread(t) PROVE ShapeInv'
  <2>1. CASE accept_new_client(t)
    <3>1. /\ \E d \in Free : /\ connfd' = [connfd EXCEPT ![t] = d]
                             /\ descriptor' = [descriptor EXCEPT ![d] = Head(backlog)]
          /\ own' = [own EXCEPT ![t] = Head(backlog)] /\ pc' = [pc EXCEPT ![t] = "recv"]
          /\ UNCHANGED <<unread, inbox, reset, client, receiving, params>>
      BY <1>2, <2>1 DEF RP1Thread, accept_new_client, Goto, argument_vars
    <3> QED BY <3>1 DEF ShapeInv
  <2>2. CASE simple_recv(t) \/ simple_recv_returns(t)
    BY <1>2, <2>2 DEF RP1Thread, simple_recv, simple_recv_returns, TakeUnread, Goto, network, argument_vars, ShapeInv
  <2>3. CASE close_received(t) \/ simple_send(t) \/ close_server(t)
    BY <1>2, <2>3 DEF RP1Thread, close_received, close_socket, simple_send, close_server, Send, Goto,
                      argument_vars, ShapeInv
  <2> QED BY <1>2, <2>1, <2>2, <2>3 DEF RP1Thread, descriptor_thread
<1>3. ASSUME NEW t \in Threads, Practica3Create(t) \/ Practica3Thread(t) PROVE ShapeInv'
  BY <1>3 DEF Practica3Create, Practica3Thread, attend_clients, client_func, recv_request, recv_request_returns,
              load_counter, store_counter, print_counter, send_response, post_semaphore, ThreadEnds,
              Send, TakeUnread, Goto, network, locals, argument_vars, descriptor_vars, ShapeInv
<1>4. CASE Practica1Returns \/ Practica3Accept
  BY <1>4 DEF Practica1Returns, Practica3Accept, main_returns, accept_global, network, threads,
              argument_vars, descriptor_vars, ShapeInv
<1>5. ASSUME NEW c \in Clients, Client(c) \/ ClientQuits(c) PROVE ShapeInv'
  BY <1>5 DEF Client, ClientQuits, client_program, setup_client, send_request, recv_reply, Quit, ClientCloses,
              threads, argument_vars, descriptor_vars, ShapeInv
<1>6. CASE UNCHANGED thread_server_vars
  BY <1>6 DEF thread_server_vars, connections, network, threads, argument_vars, descriptor_vars, ShapeInv
<1> QED
  BY <1>1, <1>2, <1>3, <1>4, <1>5, <1>6 DEF ThreadServersNext, ServerThread

-----------------------------------------------------------------------------
\* Practica1.  Threads are created in order; arg is the connection of the last.
Created(t) == pc[t] # "none"

ArgumentInv ==
  IF version = "Practica1"
  THEN /\ \A t, u \in Threads : Created(t) /\ u < t => Created(u)
       /\ \A t \in Threads : Created(t) =>
            \E s \in Threads : s >= t /\ Created(s) /\ own[s] = arg
       /\ \A t \in Threads : params[t] # NoClient =>
            Created(t) /\ \E s \in Threads : s >= t /\ Created(s) /\ own[s] = params[t]
  ELSE \A t \in Threads : params[t] = NoClient

\* A step that creates no thread and copies nothing.
LEMMA ArgumentKept ==
  ASSUME ArgumentInv, UNCHANGED <<version, arg, params, own>>,
         version = "Practica1" => \A t \in Threads : Created(t)' = Created(t)
  PROVE  ArgumentInv'
BY DEF ArgumentInv, Created

LEMMA ArgumentStep ==
  ASSUME ShapeInv, ArgumentInv, NEW t \in Threads, Practica1Thread(t)
  PROVE  ArgumentInv'
<1>1. version = "Practica1" /\ version' = version
  BY DEF Practica1Thread
<1>2. CASE main_accept(t)
  <2>1. /\ pc[t] = "none" /\ \A s \in Threads : s < t => pc[s] # "none"
        /\ arg' = Head(backlog) /\ own' = [own EXCEPT ![t] = Head(backlog)]
        /\ pc' = [pc EXCEPT ![t] = "copy"] /\ params' = params
    BY <1>2 DEF main_accept, Goto
  <2>2. \A s \in Threads : Created(s)' <=> Created(s) \/ s = t
    BY <2>1 DEF ShapeInv, Created
  <2>3. \A s \in Threads : Created(s) => s < t
    BY <1>1, <2>1, ThreadsAreNumbers DEF ArgumentInv, Created
  <2>4. own'[t] = arg' /\ \A s \in Threads : s # t => own'[s] = own[s]
    BY <2>1 DEF ShapeInv
  <2>5. \A u, v \in Threads : Created(u)' /\ v < u => Created(v)'
    BY <1>1, <2>1, <2>2 DEF ArgumentInv, Created
  <2>6. \A u \in Threads : Created(u)' => \E s \in Threads : s >= u /\ Created(s)' /\ own'[s] = arg'
    <3>1. \A u \in Threads : Created(u)' => t >= u
      BY <2>2, <2>3, ThreadsAreNumbers
    <3> QED BY <2>2, <2>4, <3>1
  <2>7. ASSUME NEW u \in Threads, params'[u] # NoClient
        PROVE  Created(u)' /\ \E s \in Threads : s >= u /\ Created(s)' /\ own'[s] = params'[u]
    <3>1. PICK s \in Threads : s >= u /\ Created(s) /\ own[s] = params[u] /\ Created(u)
      BY <1>1, <2>1, <2>7 DEF ArgumentInv
    <3>2. s # t
      BY <2>1, <3>1 DEF Created
    <3> QED BY <2>1, <2>2, <2>4, <3>1, <3>2
  <2> QED BY <1>1, <2>5, <2>6, <2>7 DEF ArgumentInv
<1>3. CASE copy_parameters(t)
  <2>1. /\ pc[t] = "copy" /\ params' = [params EXCEPT ![t] = arg] /\ pc' = [pc EXCEPT ![t] = "greet"]
        /\ UNCHANGED <<own, arg>>
    BY <1>3 DEF copy_parameters, Goto
  <2>2. \A s \in Threads : Created(s)' = Created(s)
    BY <2>1 DEF ShapeInv, Created
  <2>3. Created(t)
    BY <2>1 DEF Created
  <2>4. ASSUME NEW u \in Threads, params'[u] # NoClient
        PROVE  Created(u)' /\ \E s \in Threads : s >= u /\ Created(s)' /\ own'[s] = params'[u]
    <3>1. CASE u = t
      BY <1>1, <2>1, <2>2, <2>3, <3>1 DEF ArgumentInv, ShapeInv
    <3>2. CASE u # t
      BY <1>1, <2>1, <2>2, <2>4, <3>2 DEF ArgumentInv, ShapeInv
    <3> QED BY <3>1, <3>2
  <2> QED BY <1>1, <2>1, <2>2, <2>4 DEF ArgumentInv
<1>4. CASE greet(t) \/ receive(t)
  <2>1. UNCHANGED <<own, arg, params>> /\ pc[t] # "none" /\ \E l \in {"receive", "ended"} : pc' = [pc EXCEPT ![t] = l]
    BY <1>4 DEF greet, receive, Goto
  <2>2. \A s \in Threads : Created(s)' = Created(s)
    BY <2>1 DEF ShapeInv, Created
  <2> QED BY <1>1, <2>1, <2>2, ArgumentKept
<1> QED
  BY <1>2, <1>3, <1>4 DEF Practica1Thread, argument_thread

LEMMA ArgumentStepKeeps ==
  ShapeInv /\ ArgumentInv /\ [ThreadServersNext]_thread_server_vars => ArgumentInv'
<1> SUFFICES ASSUME ShapeInv, ArgumentInv, [ThreadServersNext]_thread_server_vars PROVE ArgumentInv'
  OBVIOUS
<1>1. ASSUME NEW t \in Threads, RP1Thread(t) \/ Practica3Create(t) \/ Practica3Thread(t) PROVE ArgumentInv'
  <2>1. version \in {"RP1", "Practica3"} /\ UNCHANGED <<version, params>>
    BY <1>1 DEF RP1Thread, Practica3Create, Practica3Thread, argument_vars
  <2> QED BY <2>1 DEF ArgumentInv
<1>2. CASE Practica3Accept
  BY <1>2 DEF Practica3Accept, argument_vars, ArgumentInv
<1>3. CASE Practica1Returns
  BY <1>3, ArgumentKept DEF Practica1Returns, main_returns, threads, Created
<1>4. ASSUME NEW c \in Clients, Client(c) \/ ClientQuits(c) PROVE ArgumentInv'
  BY <1>4, ArgumentKept DEF Client, ClientQuits, client_program, setup_client, send_request, recv_reply, Quit,
                            threads, argument_vars, Created
<1>5. CASE UNCHANGED thread_server_vars
  BY <1>5, ArgumentKept DEF thread_server_vars, connections, threads, argument_vars, Created
<1> QED
  BY <1>1, <1>2, <1>3, <1>4, <1>5, ArgumentStep DEF ThreadServersNext, ServerThread

-----------------------------------------------------------------------------
\* RP1.  DescriptorsHeld is inductive: only the thread that holds a number
\* changes what it stands for, or another one to NoClient.
HeldInv ==
  IF version = "RP1" THEN DescriptorsHeld ELSE \A d \in Fds : descriptor[d] = NoClient

LEMMA HeldKept ==
  ASSUME HeldInv, UNCHANGED <<version, descriptor, connfd, own>>,
         version = "RP1" => \A t \in Threads : pc[t] # "accept" => pc'[t] # "accept"
  PROVE  HeldInv'
BY DEF HeldInv, DescriptorsHeld

LEMMA HeldStep ==
  ASSUME ShapeInv, HeldInv, NEW t \in Threads, RP1Thread(t)
  PROVE  HeldInv'
<1>1. version = "RP1" /\ version' = version /\ DescriptorsHeld
  BY DEF RP1Thread, HeldInv
<1>2. CASE accept_new_client(t)
  <2>1. PICK d \in Free : /\ connfd' = [connfd EXCEPT ![t] = d]
                          /\ descriptor' = [descriptor EXCEPT ![d] = Head(backlog)]
    BY <1>2 DEF accept_new_client
  <2>2. /\ pc[t] = "accept" /\ pc' = [pc EXCEPT ![t] = "recv"]
        /\ own' = [own EXCEPT ![t] = Head(backlog)]
    BY <1>2 DEF accept_new_client, Goto
  <2>3. d \in Fds
    BY DEF Free
  <2>4. ASSUME NEW e \in Fds, descriptor'[e] # NoClient
        PROVE  \E s \in Threads : connfd'[s] = e /\ own'[s] = descriptor'[e] /\ pc'[s] # "accept"
    <3>1. CASE e = d
      BY <2>1, <2>2, <2>3, <3>1 DEF ShapeInv
    <3>2. CASE e # d
      <4>1. descriptor'[e] = descriptor[e]
        BY <2>1, <2>3, <3>2 DEF ShapeInv
      <4>2. PICK s \in Threads : connfd[s] = e /\ own[s] = descriptor[e] /\ pc[s] # "accept"
        BY <1>1, <2>4, <4>1 DEF DescriptorsHeld
      <4>3. s # t
        BY <2>2, <4>2
      <4> QED BY <2>1, <2>2, <4>1, <4>2, <4>3 DEF ShapeInv
    <3> QED BY <3>1, <3>2
  <2> QED BY <1>1, <2>4 DEF HeldInv, DescriptorsHeld
<1>3. CASE simple_recv(t) \/ simple_recv_returns(t) \/ simple_send(t)
  <2>1. /\ UNCHANGED <<descriptor, connfd, own>>
        /\ \E l \in {"send", "receiving", "close_received", "close"} : pc' = [pc EXCEPT ![t] = l]
    BY <1>3 DEF simple_recv, simple_recv_returns, simple_send, Goto
  <2>2. \A s \in Threads : pc[s] # "accept" => pc'[s] # "accept"
    BY <2>1 DEF ShapeInv
  <2> QED BY <1>1, <2>1, <2>2, HeldKept DEF HeldInv
<1>4. CASE close_received(t) \/ close_server(t)
  <2>1. /\ UNCHANGED <<connfd, own>>
        /\ descriptor' = [descriptor EXCEPT ![connfd[t]] = NoClient]
        /\ \E l \in {"send", "accept"} : pc' = [pc EXCEPT ![t] = l]
    BY <1>4 DEF close_received, close_server, close_socket, Goto
  <2>2. ASSUME NEW e \in Fds, descriptor'[e] # NoClient
        PROVE  \E s \in Threads : connfd'[s] = e /\ own'[s] = descriptor'[e] /\ pc'[s] # "accept"
    <3>1. connfd[t] # e /\ descriptor'[e] = descriptor[e]
      BY <2>1, <2>2 DEF ShapeInv
    <3>2. PICK s \in Threads : connfd[s] = e /\ own[s] = descriptor[e] /\ pc[s] # "accept"
      BY <1>1, <2>2, <3>1 DEF DescriptorsHeld
    <3>3. s # t
      BY <3>1, <3>2
    <3> QED BY <2>1, <3>1, <3>2, <3>3 DEF ShapeInv
  <2> QED BY <1>1, <2>2 DEF HeldInv, DescriptorsHeld
<1> QED
  BY <1>2, <1>3, <1>4 DEF RP1Thread, descriptor_thread

LEMMA HeldStepKeeps ==
  ShapeInv /\ HeldInv /\ [ThreadServersNext]_thread_server_vars => HeldInv'
<1> SUFFICES ASSUME ShapeInv, HeldInv, [ThreadServersNext]_thread_server_vars PROVE HeldInv'
  OBVIOUS
<1>1. ASSUME NEW t \in Threads, Practica1Thread(t) \/ Practica3Create(t) \/ Practica3Thread(t) PROVE HeldInv'
  <2>1. version \in {"Practica1", "Practica3"} /\ UNCHANGED <<version, descriptor>>
    BY <1>1 DEF Practica1Thread, Practica3Create, Practica3Thread, descriptor_vars
  <2> QED BY <2>1 DEF HeldInv
<1>2. CASE Practica3Accept \/ Practica1Returns
  BY <1>2 DEF Practica3Accept, Practica1Returns, descriptor_vars, HeldInv
<1>3. ASSUME NEW c \in Clients, Client(c) \/ ClientQuits(c) PROVE HeldInv'
  BY <1>3, HeldKept DEF Client, ClientQuits, client_program, setup_client, send_request, recv_reply, Quit,
                        threads, descriptor_vars
<1>4. CASE UNCHANGED thread_server_vars
  BY <1>4, HeldKept DEF thread_server_vars, connections, threads, descriptor_vars
<1> QED
  BY <1>1, <1>2, <1>3, <1>4, HeldStep DEF ThreadServersNext, ServerThread

-----------------------------------------------------------------------------
\* Practica3.  The semaphore and the threads that run.
Running == {t \in Threads : pc[t] # "none"}

SemaphoreInv ==
  version = "Practica3" => max_threads_sem \in Nat /\ max_threads_sem + Cardinality(Running) = MAX_THREADS

LEMMA RunningIsFinite == IsFiniteSet(Running) /\ Cardinality(Running) \in Nat
<1>1. N_THREADS \in Int
  BY ConnectionsAssumption
<1>2. IsFiniteSet(Threads)
  BY <1>1, FS_Interval DEF Threads
<1>3. Running \in SUBSET Threads
  BY DEF Running
<1>4. IsFiniteSet(Running)
  BY <1>2, <1>3, FS_Subset
<1> QED
  BY <1>4, FS_CardinalityType

LEMMA SemaphoreKept ==
  ASSUME SemaphoreInv, UNCHANGED <<version, max_threads_sem>>,
         version = "Practica3" => Running' = Running
  PROVE  SemaphoreInv'
BY DEF SemaphoreInv

LEMMA SemaphoreStep ==
  ASSUME ShapeInv, SemaphoreInv, NEW t \in Threads, Practica3Create(t) \/ Practica3Thread(t)
  PROVE  SemaphoreInv'
<1>1. version = "Practica3" /\ version' = version
      /\ max_threads_sem \in Nat /\ max_threads_sem + Cardinality(Running) = MAX_THREADS
  BY DEF Practica3Create, Practica3Thread, SemaphoreInv
<1>2. CASE attend_clients(t)
  <2>1. /\ max_threads_sem > 0 /\ max_threads_sem' = max_threads_sem - 1
        /\ pc[t] = "none" /\ pc' = [pc EXCEPT ![t] = "recv_request"]
    BY <1>2 DEF attend_clients, Goto
  <2>2. t \notin Running /\ Running' = Running \cup {t}
    BY <2>1 DEF ShapeInv, Running
  <2>3. Cardinality(Running') = Cardinality(Running) + 1
    BY <2>2, RunningIsFinite, FS_AddElement
  <2>4. Cardinality(Running)' = Cardinality(Running')
    OBVIOUS
  <2> QED BY <1>1, <2>1, <2>3, RunningIsFinite DEF SemaphoreInv
<1>3. CASE post_semaphore(t)
  <2>1. /\ max_threads_sem' = max_threads_sem + 1
        /\ pc[t] = "post" /\ pc' = [pc EXCEPT ![t] = "none"]
    BY <1>3 DEF post_semaphore, ThreadEnds
  <2>2. t \in Running /\ Running' = Running \ {t}
    BY <2>1 DEF ShapeInv, Running
  <2>3. Cardinality(Running') = Cardinality(Running) - 1
    BY <2>2, RunningIsFinite, FS_RemoveElement
  <2> QED BY <1>1, <2>1, <2>3, RunningIsFinite DEF SemaphoreInv
<1>4. CASE client_func(t) /\ ~post_semaphore(t)
  <2>1. /\ max_threads_sem' = max_threads_sem
        /\ pc[t] # "none"
        /\ \E l \in {"receiving", "load", "answer", "post", "store", "print"} : pc' = [pc EXCEPT ![t] = l]
    BY <1>4 DEF client_func, recv_request, recv_request_returns, Branch, load_counter, store_counter,
                print_counter, send_response, memory, Goto
  <2>2. Running' = Running
    BY <2>1 DEF ShapeInv, Running
  <2> QED BY <1>1, <2>1, <2>2, SemaphoreKept
<1> QED
  BY <1>2, <1>3, <1>4 DEF Practica3Create, Practica3Thread

LEMMA SemaphoreStepKeeps ==
  ShapeInv /\ SemaphoreInv /\ [ThreadServersNext]_thread_server_vars => SemaphoreInv'
<1> SUFFICES ASSUME ShapeInv, SemaphoreInv, [ThreadServersNext]_thread_server_vars PROVE SemaphoreInv'
  OBVIOUS
<1>1. ASSUME NEW t \in Threads, Practica1Thread(t) \/ RP1Thread(t) PROVE SemaphoreInv'
  BY <1>1 DEF Practica1Thread, RP1Thread, SemaphoreInv
<1>2. CASE Practica1Returns
  BY <1>2 DEF Practica1Returns, SemaphoreInv
<1>3. CASE Practica3Accept
  BY <1>3, SemaphoreKept DEF Practica3Accept, accept_global, threads, Running
<1>4. ASSUME NEW c \in Clients, Client(c) \/ ClientQuits(c) PROVE SemaphoreInv'
  BY <1>4, SemaphoreKept DEF Client, ClientQuits, client_program, setup_client, send_request, recv_reply, Quit,
                             threads, global_vars, memory, Running
<1>5. CASE UNCHANGED thread_server_vars
  BY <1>5, SemaphoreKept DEF thread_server_vars, connections, threads, global_vars, memory, Running
<1> QED
  BY <1>1, <1>2, <1>3, <1>4, <1>5, SemaphoreStep DEF ThreadServersNext, ServerThread

LEMMA SemaphoreInit == ThreadServersInit => SemaphoreInv
<1> SUFFICES ASSUME ThreadServersInit, version = "Practica3"
             PROVE  max_threads_sem \in Nat /\ max_threads_sem + Cardinality(Running) = MAX_THREADS
  BY DEF SemaphoreInv
<1>1. Running = {} /\ max_threads_sem = MAX_THREADS
  BY DEF ThreadServersInit, GlobalInit, Running
<1> QED
  BY <1>1, FS_EmptySet, GlobalAssumption

LEMMA ArgumentInit0 == ThreadServersInit => ArgumentInv /\ HeldInv
<1> SUFFICES ASSUME ThreadServersInit PROVE ArgumentInv /\ HeldInv
  OBVIOUS
<1>1. /\ \A t \in Threads : params[t] = NoClient
      /\ version = "Practica1" => \A t \in Threads : pc[t] = "none"
      /\ \A d \in Fds : descriptor[d] = NoClient
  BY DEF ThreadServersInit, ArgumentInit, DescriptorInit
<1> QED
  BY <1>1 DEF ArgumentInv, Created, HeldInv, DescriptorsHeld

-----------------------------------------------------------------------------
\* RP1, without a race.  A connection is in the backlog or with one thread,
\* whose descriptor it is; until the thread has received, there is something to
\* receive from a client that has sent, even if it has been killed.
Busy(t) == pc[t] # "accept"
Queued(c) == \E i \in DOMAIN backlog : backlog[i] = c

OwnThreads ==
  /\ \A t \in Threads :
       /\ pc[t] \in {"accept", "recv", "receiving", "send", "close"}
       /\ receiving[t] = IF pc[t] = "receiving" THEN own[t] ELSE NoClient
       /\ Busy(t) => own[t] \in Clients /\ connfd[t] \in Fds /\ descriptor[connfd[t]] = own[t]
  /\ \A t, u \in Threads : Busy(t) /\ Busy(u) /\ own[t] = own[u] => t = u

OwnQueue ==
  /\ backlog \in Seq(Clients)
  /\ \A i, j \in DOMAIN backlog : backlog[i] = backlog[j] => i = j
  /\ \A t \in Threads : Busy(t) => ~Queued(own[t])
  /\ \A c \in Clients : client[c] = "start" => ~Queued(c) /\ \A t \in Threads : Busy(t) => own[t] # c

\* Not yet received from.
Front(c) ==
  client[c] = "start" \/ Queued(c) \/ \E t \in Threads : pc[t] \in {"recv", "receiving"} /\ own[t] = c

OwnFront ==
  up => \A c \in Clients : Front(c) =>
    /\ inbox[c] = 0 /\ c \notin shut
    /\ client[c] \in {"start", "connected", "sent", "killed"}
    /\ client[c] \in {"sent", "killed"} => unread[c] > 0

OwnInv == version = "RP1" /\ ~raced => OwnThreads /\ OwnQueue /\ OwnFront

LEMMA ClientsAreNumbers == NoClient \notin Clients
BY ConnectionsAssumption DEF Clients, NoClient

LEMMA HeadAndTail ==
  ASSUME NEW s \in Seq(Clients), s # <<>>
  PROVE  /\ Tail(s) \in Seq(Clients) /\ Head(s) \in Clients /\ 1 \in DOMAIN s /\ Head(s) = s[1]
         /\ \A n \in DOMAIN Tail(s) : n + 1 \in DOMAIN s /\ n + 1 # 1 /\ Tail(s)[n] = s[n + 1]
         /\ \A m, n \in DOMAIN Tail(s) : m + 1 = n + 1 => m = n
OBVIOUS

LEMMA Appended ==
  ASSUME NEW s \in Seq(Clients), NEW c \in Clients
  PROVE  /\ Append(s, c) \in Seq(Clients)
         /\ \A n \in DOMAIN Append(s, c) :
              (n \in DOMAIN s /\ Append(s, c)[n] = s[n]) \/ (n = Len(s) + 1 /\ Append(s, c)[n] = c)
OBVIOUS

LEMMA OwnInit == ThreadServersInit => OwnInv
<1> SUFFICES ASSUME ThreadServersInit, version = "RP1" PROVE OwnThreads /\ OwnQueue /\ OwnFront
  BY DEF OwnInv
<1>1. /\ \A t \in Threads : pc[t] = "accept" /\ receiving[t] = NoClient
      /\ backlog = <<>> /\ shut = {} /\ \A c \in Clients : client[c] = "start" /\ inbox[c] = 0
  BY DEF ThreadServersInit, ConnectionsInit, DescriptorInit
<1>2. backlog \in Seq(Clients) /\ DOMAIN backlog = {}
  BY <1>1
<1> QED
  BY <1>1, <1>2 DEF OwnThreads, OwnQueue, OwnFront, Busy, Queued

\* The thread that accepts takes the connection from the queue to itself.
LEMMA OwnAccept ==
  ASSUME ShapeInv, OwnThreads, OwnQueue, OwnFront, NEW t \in Threads, accept_new_client(t)
  PROVE  OwnThreads' /\ OwnQueue' /\ OwnFront'
<1> DEFINE c == Head(backlog)
<1>1. PICK d \in Free : /\ connfd' = [connfd EXCEPT ![t] = d]
                        /\ descriptor' = [descriptor EXCEPT ![d] = c]
  BY DEF accept_new_client
<1>2. /\ pc[t] = "accept" /\ pc' = [pc EXCEPT ![t] = "recv"] /\ own' = [own EXCEPT ![t] = c]
      /\ backlog # <<>> /\ backlog' = Tail(backlog)
      /\ UNCHANGED <<up, unread, inbox, shut, client, receiving>>
  BY DEF accept_new_client, Goto
<1>3. d \in Fds /\ descriptor[d] = NoClient
  BY DEF Free
<1>4. c \in Clients /\ Queued(c)
  BY <1>2, HeadAndTail DEF OwnQueue, Queued
<1>5. \A e \in Clients : Queued(e)' => Queued(e) /\ e # c
  BY <1>2, HeadAndTail DEF OwnQueue, Queued
<1>6. /\ pc'[t] = "recv" /\ own'[t] = c /\ connfd'[t] = d /\ descriptor'[d] = c
      /\ \A s \in Threads : s # t => pc'[s] = pc[s] /\ own'[s] = own[s] /\ connfd'[s] = connfd[s]
      /\ \A e \in Fds : e # d => descriptor'[e] = descriptor[e]
  BY <1>1, <1>2, <1>3 DEF ShapeInv
<1>7. \A s \in Threads : Busy(s) => s # t /\ own[s] # c /\ connfd[s] # d
  BY <1>2, <1>3, <1>4, ClientsAreNumbers DEF OwnThreads, OwnQueue, Busy
<1>8. \A s \in Threads : Busy(s)' <=> Busy(s) \/ s = t
  BY <1>2, <1>6 DEF Busy
<1>9. OwnThreads'
  <2>1. ASSUME NEW s \in Threads
        PROVE  /\ pc'[s] \in {"accept", "recv", "receiving", "send", "close"}
               /\ receiving'[s] = IF pc'[s] = "receiving" THEN own'[s] ELSE NoClient
               /\ Busy(s)' => own'[s] \in Clients /\ connfd'[s] \in Fds /\ descriptor'[connfd'[s]] = own'[s]
    <3>1. CASE s = t
      BY <1>2, <1>3, <1>4, <1>6, <3>1 DEF OwnThreads
    <3>2. CASE s # t
      BY <1>2, <1>6, <1>7, <1>8, <3>2 DEF OwnThreads
    <3> QED BY <3>1, <3>2
  <2>2. \A s, u \in Threads : Busy(s)' /\ Busy(u)' /\ own'[s] = own'[u] => s = u
    BY <1>6, <1>7, <1>8 DEF OwnThreads
  <2> QED BY <2>1, <2>2 DEF OwnThreads
<1>10. OwnQueue'
  <2>1. backlog' \in Seq(Clients) /\ \A i, j \in DOMAIN backlog' : backlog'[i] = backlog'[j] => i = j
    BY <1>2, HeadAndTail DEF OwnQueue
  <2>2. ASSUME NEW s \in Threads, Busy(s)' PROVE ~Queued(own[s])'
    <3>1. CASE s = t
      BY <1>4, <1>5, <1>6, <3>1 DEF Queued
    <3>2. CASE s # t
      <4>1. Busy(s) /\ own'[s] = own[s] /\ own[s] \in Clients /\ ~Queued(own[s])
        BY <1>6, <1>8, <2>2, <3>2 DEF OwnQueue, OwnThreads
      <4>2. \A e \in Clients : e = own[s] => ~Queued(e)'
        BY <1>5, <4>1
      <4> QED BY <4>1, <4>2 DEF Queued
    <3> QED BY <3>1, <3>2
  <2>3. \A e \in Clients : client'[e] = "start" => ~Queued(e)' /\ \A s \in Threads : Busy(s)' => own'[s] # e
    BY <1>2, <1>4, <1>5, <1>6, <1>8 DEF OwnQueue
  <2> QED BY <2>1, <2>2, <2>3 DEF OwnQueue
<1>11. OwnFront'
  <2>1. \A e \in Clients : Front(e)' => Front(e)
    BY <1>2, <1>4, <1>5, <1>6 DEF Front
  <2> QED BY <1>2, <2>1 DEF OwnFront
<1> QED
  BY <1>9, <1>10, <1>11

\* The thread goes on with its connection, and perhaps does not wait any more.
LEMMA OwnServes ==
  ASSUME ShapeInv, OwnThreads, OwnQueue, OwnFront, NEW t \in Threads,
         simple_recv(t) \/ simple_recv_returns(t) \/ simple_send(t) \/ close_received(t) \/ close_server(t)
  PROVE  OwnThreads' /\ OwnQueue' /\ OwnFront'
<1> DEFINE c == own[t]
<1>0. up /\ Busy(t) /\ c \in Clients /\ connfd[t] \in Fds /\ Connection(t) = c /\ c # NoClient
  BY ClientsAreNumbers DEF simple_recv, simple_recv_returns, simple_send, close_received, close_server,
     OwnThreads, Busy, Connection
<1>1. UNCHANGED <<own, connfd, backlog, client>>
  BY DEF simple_recv, simple_recv_returns, simple_send, close_received, close_server, close_socket, network
<1>2. ASSUME NEW l \in {"receiving", "send", "close", "accept"}, pc' = [pc EXCEPT ![t] = l],
             \A s \in Threads : receiving'[s] = IF s # t THEN receiving[s]
                                                ELSE IF l = "receiving" THEN c ELSE NoClient,
             \/ descriptor' = descriptor
             \/ l = "accept" /\ descriptor' = [descriptor EXCEPT ![connfd[t]] = NoClient]
      PROVE  OwnThreads' /\ OwnQueue'
  <2>1. \A s \in Threads : Busy(s)' => Busy(s) /\ (s = t => l # "accept")
    BY <1>0, <1>2 DEF ShapeInv, Busy
  <2>2. \A s \in Threads : Busy(s) /\ s # t => connfd[s] # connfd[t]
    BY <1>0 DEF OwnThreads, Connection
  <2>3. ASSUME NEW s \in Threads
        PROVE  /\ pc'[s] \in {"accept", "recv", "receiving", "send", "close"}
               /\ receiving'[s] = IF pc'[s] = "receiving" THEN own'[s] ELSE NoClient
               /\ Busy(s)' => own'[s] \in Clients /\ connfd'[s] \in Fds /\ descriptor'[connfd'[s]] = own'[s]
    <3>1. pc'[s] \in {"accept", "recv", "receiving", "send", "close"}
      BY <1>2 DEF ShapeInv, OwnThreads
    <3>2. receiving'[s] = IF pc'[s] = "receiving" THEN own'[s] ELSE NoClient
      BY <1>1, <1>2 DEF ShapeInv, OwnThreads
    <3>3. ASSUME Busy(s)' PROVE own'[s] \in Clients /\ connfd'[s] \in Fds /\ descriptor'[connfd'[s]] = own'[s]
      <4>1. own[s] \in Clients /\ connfd[s] \in Fds /\ descriptor[connfd[s]] = own[s]
        BY <2>1, <3>3 DEF OwnThreads
      <4> QED BY <1>1, <1>2, <2>1, <2>2, <3>3, <4>1 DEF ShapeInv
    <3> QED BY <3>1, <3>2, <3>3
  <2>4. \A s, u \in Threads : Busy(s)' /\ Busy(u)' /\ own'[s] = own'[u] => s = u
    BY <1>1, <2>1 DEF OwnThreads
  <2>5. OwnThreads'
    BY <2>3, <2>4 DEF OwnThreads
  <2>6. OwnQueue'
    BY <1>1, <2>1 DEF OwnQueue, Queued
  <2> QED BY <2>5, <2>6
\* A client that its thread has not received from is another thread's business.
<1>3. ASSUME NEW l \in {"send", "close", "accept"}, pc' = [pc EXCEPT ![t] = l],
             NEW e \in Clients, Front(e)'
      PROVE  Front(e) /\ e # c
  <2>1. \A s \in Threads : pc'[s] \in {"recv", "receiving"} => s # t /\ pc'[s] = pc[s]
    BY <1>3 DEF ShapeInv
  <2>2. Front(e)
    BY <1>1, <1>3, <2>1 DEF Front, Queued
  <2>3. client[c] # "start" /\ ~Queued(c)
    BY <1>0 DEF OwnQueue
  <2>4. \A s \in Threads : pc'[s] \in {"recv", "receiving"} => own[s] # c
    BY <1>0, <2>1 DEF OwnThreads, Busy
  <2>5. e # c
    BY <1>1, <1>3, <2>3, <2>4 DEF Front, Queued
  <2> QED BY <2>2, <2>5
<1>4. CASE simple_recv(t)
  <2>1. /\ pc[t] = "recv" /\ pc' = [pc EXCEPT ![t] = "receiving"]
        /\ receiving' = [receiving EXCEPT ![t] = c]
        /\ UNCHANGED <<up, inbox, shut, unread, descriptor>>
    BY <1>0, <1>4 DEF simple_recv, Goto, network
  <2>2. \A e \in Clients : Front(e)' => Front(e)
    BY <1>1, <2>1 DEF Front, Queued, ShapeInv
  <2>3. OwnFront'
    BY <1>1, <2>1, <2>2 DEF OwnFront
  <2> QED BY <1>2, <2>1, <2>3 DEF ShapeInv
<1>5. CASE simple_recv_returns(t)
  <2>1. pc[t] = "receiving" /\ receiving[t] = c /\ Readable(c)
    BY <1>5 DEF simple_recv_returns, OwnThreads
  <2>2. unread[c] > 0
    <3>1. Front(c)
      BY <2>1 DEF Front
    <3>2. Ended(c) => client[c] = "killed"
      BY <1>0, <3>1 DEF OwnFront, Ended
    <3> QED BY <1>0, <2>1, <3>1, <3>2 DEF OwnFront, Readable
  <2>3. /\ pc' = [pc EXCEPT ![t] = "send"] /\ receiving' = [receiving EXCEPT ![t] = NoClient]
        /\ UNCHANGED <<up, inbox, descriptor>>
        /\ shut' \subseteq shut \cup {c}
        /\ unread' = [unread EXCEPT ![c] = IF @ > 0 THEN @ - 1 ELSE 0]
    BY <1>5, <2>1, <2>2 DEF simple_recv_returns, Goto, Released, TakeUnread
  <2>4. OwnFront'
    BY <1>0, <1>1, <1>3, <2>3 DEF OwnFront, ShapeInv
  <2> QED BY <1>2, <2>3, <2>4 DEF ShapeInv
<1>6. CASE simple_send(t)
  <2>1. /\ pc[t] = "send" /\ pc' = [pc EXCEPT ![t] = "close"]
        /\ UNCHANGED <<unread, shut, descriptor, receiving>>
        /\ inbox' = inbox \/ inbox' = [inbox EXCEPT ![c] = @ + 1]
    BY <1>0, <1>6 DEF simple_send, Goto, Send
  <2>2. receiving'[t] = NoClient
    BY <2>1 DEF OwnThreads
  <2>3. OwnFront'
    BY <1>0, <1>1, <1>3, <2>1 DEF OwnFront, ShapeInv
  <2> QED BY <1>2, <2>1, <2>2, <2>3
<1>7. CASE close_received(t)
  BY <1>7 DEF close_received, OwnThreads
<1>8. CASE close_server(t)
  <2>1. /\ pc[t] = "close" /\ pc' = [pc EXCEPT ![t] = "accept"]
        /\ descriptor' = [descriptor EXCEPT ![connfd[t]] = NoClient]
        /\ UNCHANGED <<up, unread, inbox, receiving>>
        /\ shut' \subseteq shut \cup {c}
    BY <1>0, <1>8 DEF close_server, close_socket, Goto, Released
  <2>2. receiving'[t] = NoClient
    BY <2>1 DEF OwnThreads
  <2>3. OwnFront'
    BY <1>0, <1>1, <1>3, <2>1 DEF OwnFront, ShapeInv
  <2> QED BY <1>2, <2>1, <2>2, <2>3
<1> QED
  BY <1>4, <1>5, <1>6, <1>7, <1>8

\* The clients.
LEMMA OwnClients ==
  ASSUME ShapeInv, OwnThreads, OwnQueue, OwnFront, version = "RP1", ~raced', NEW c \in Clients,
         Client(c) \/ ClientQuits(c)
  PROVE  OwnThreads' /\ OwnQueue' /\ OwnFront'
<1>1. UNCHANGED <<pc, own, descriptor, connfd, receiving, up, shut>>
  BY DEF Client, ClientQuits, client_program, setup_client, send_request, recv_reply, Quit, threads, descriptor_vars
<1>2. OwnThreads'
  BY <1>1 DEF OwnThreads, Busy
<1>3. CASE setup_client(c)
  <2>1. /\ client[c] = "start" /\ client' = [client EXCEPT ![c] = "connected"]
        /\ backlog' = Append(backlog, c) /\ UNCHANGED <<unread, inbox>>
    BY <1>3 DEF setup_client
  <2>2. \A i \in DOMAIN backlog' : (i \in DOMAIN backlog /\ backlog'[i] = backlog[i]) \/ (i = Len(backlog) + 1 /\ backlog'[i] = c)
    BY <2>1, Appended DEF OwnQueue
  <2>3. backlog' \in Seq(Clients)
    BY <2>1, Appended DEF OwnQueue
  <2>4. \A e \in Clients : Queued(e)' => Queued(e) \/ e = c
    BY <2>2 DEF Queued
  <2>5. ~Queued(c) /\ \A t \in Threads : Busy(t) => own[t] # c
    BY <2>1 DEF OwnQueue
  <2>6. \A i, j \in DOMAIN backlog' : backlog'[i] = backlog'[j] => i = j
    BY <2>2, <2>5 DEF OwnQueue, Queued
  <2>7. ASSUME NEW t \in Threads, Busy(t)' PROVE ~Queued(own[t])'
    <3>1. Busy(t) /\ own'[t] = own[t] /\ own[t] \in Clients /\ own[t] # c /\ ~Queued(own[t])
      BY <1>1, <2>5, <2>7 DEF OwnQueue, OwnThreads, Busy
    <3>2. \A e \in Clients : e = own[t] => ~Queued(e)'
      BY <2>4, <3>1
    <3> QED BY <3>1, <3>2 DEF Queued
  <2>8. \A e \in Clients : client'[e] = "start" => ~Queued(e)' /\ \A t \in Threads : Busy(t)' => own'[t] # e
    BY <1>1, <2>1, <2>4 DEF OwnQueue, Busy, ShapeInv
  <2>9. OwnQueue'
    BY <2>3, <2>6, <2>7, <2>8 DEF OwnQueue
  <2>10. \A e \in Clients : Front(e)' => Front(e)
    BY <1>1, <2>1, <2>4 DEF Front, ShapeInv
  <2>11. OwnFront'
    BY <1>1, <2>1, <2>10 DEF OwnFront, ShapeInv
  <2> QED BY <1>2, <2>9, <2>11
<1>4. ASSUME backlog' = backlog, NEW s \in {"sent", "answered", "unanswered", "killed"},
             client' = [client EXCEPT ![c] = s], client[c] # "start"
      PROVE  OwnQueue' /\ \A e \in Clients : Front(e)' => Front(e)
  <2>1. \A e \in Clients : client'[e] = "start" => client[e] = "start"
    BY <1>4 DEF ShapeInv
  <2> QED BY <1>1, <1>4, <2>1 DEF OwnQueue, Front, Queued, Busy
<1>5. CASE send_request(c, 2)
  <2>1. /\ client[c] = "connected" /\ client' = [client EXCEPT ![c] = "sent"]
        /\ unread' = [unread EXCEPT ![c] = IF up /\ c \notin shut THEN 2 ELSE 0]
        /\ UNCHANGED <<backlog, inbox>>
    BY <1>5 DEF send_request
  <2>2. OwnQueue' /\ \A e \in Clients : Front(e)' => Front(e)
    BY <1>4, <2>1
  <2>3. OwnFront'
    BY <1>1, <2>1, <2>2 DEF OwnFront, ShapeInv
  <2> QED BY <1>2, <2>2, <2>3
<1>6. CASE recv_reply(c, inbox[c])
  <2>1. /\ client[c] = "sent"
        /\ inbox[c] > 0 \/ c \in shut \/ ~up
        /\ \E s \in {"answered", "unanswered"} : client' = [client EXCEPT ![c] = s]
        /\ inbox' = [inbox EXCEPT ![c] = 0] /\ UNCHANGED <<backlog, unread>>
    BY <1>6 DEF recv_reply, ClientCloses
  <2>2. OwnQueue' /\ \A e \in Clients : Front(e)' => Front(e)
    BY <1>4, <2>1
  <2>3. up => ~Front(c)
    BY <2>1 DEF OwnFront
  <2>4. OwnFront'
    BY <1>1, <2>1, <2>2, <2>3 DEF OwnFront, ShapeInv
  <2> QED BY <1>2, <2>2, <2>4
<1>7. CASE Quit(c)
  <2>1. /\ client[c] = "sent" /\ client' = [client EXCEPT ![c] = "killed"]
        /\ inbox' = [inbox EXCEPT ![c] = 0] /\ UNCHANGED <<backlog, unread>>
    BY <1>7 DEF Quit, ClientCloses
  <2>2. OwnQueue' /\ \A e \in Clients : Front(e)' => Front(e)
    BY <1>4, <2>1
  <2>3. OwnFront'
    BY <1>1, <2>1, <2>2 DEF OwnFront, ShapeInv
  <2> QED BY <1>2, <2>2, <2>3
<1> QED
  BY <1>3, <1>5, <1>6, <1>7 DEF Client, ClientQuits, client_program

LEMMA OwnStepKeeps ==
  ShapeInv /\ OwnInv /\ [ThreadServersNext]_thread_server_vars => OwnInv'
<1> SUFFICES ASSUME ShapeInv, OwnInv, [ThreadServersNext]_thread_server_vars, version' = "RP1", ~raced'
             PROVE  OwnThreads' /\ OwnQueue' /\ OwnFront'
  BY DEF OwnInv
<1>1. version = "RP1"
  BY DEF ThreadServersNext, ServerThread, Practica1Thread, Practica1Returns, RP1Thread, Practica3Accept,
         Practica3Create, Practica3Thread, Client, ClientQuits, thread_server_vars
<1>2. ASSUME NEW t \in Threads, RP1Thread(t) PROVE OwnThreads' /\ OwnQueue' /\ OwnFront'
  <2>1. ~raced
    BY <1>2 DEF RP1Thread, descriptor_thread, accept_new_client, simple_recv, simple_recv_returns,
                close_received, close_socket, simple_send, close_server
  <2> QED BY <1>1, <1>2, <2>1, OwnAccept, OwnServes DEF OwnInv, RP1Thread, descriptor_thread
<1>3. ASSUME NEW c \in Clients, Client(c) \/ ClientQuits(c) PROVE OwnThreads' /\ OwnQueue' /\ OwnFront'
  <2>1. ~raced
    BY <1>3 DEF Client, ClientQuits, client_program, setup_client, send_request, recv_reply, Quit
  <2> QED BY <1>1, <1>3, <2>1, OwnClients DEF OwnInv
<1>4. CASE UNCHANGED thread_server_vars
  BY <1>1, <1>4 DEF thread_server_vars, connections, network, threads, descriptor_vars, OwnInv,
                    OwnThreads, OwnQueue, OwnFront, Front, Busy, Queued
<1>5. ~Practica1Returns /\ ~Practica3Accept
      /\ \A t \in Threads : ~Practica1Thread(t) /\ ~Practica3Create(t) /\ ~Practica3Thread(t)
  BY <1>1 DEF Practica1Returns, Practica3Accept, Practica1Thread, Practica3Create, Practica3Thread
<1> QED
  BY <1>2, <1>3, <1>4, <1>5 DEF ThreadServersNext, ServerThread

\* The other servers do not use the descriptors.
LEMMA ConnfdInit == ThreadServersInit => \A t \in Threads : connfd[t] = 0
BY DEF ThreadServersInit, DescriptorInit

UnusedInv == version # "RP1" => \A t \in Threads : connfd[t] = 0

LEMMA UnusedKept == UnusedInv /\ [ThreadServersNext]_thread_server_vars => UnusedInv'
BY DEF UnusedInv, ThreadServersNext, ServerThread, Practica1Thread, Practica1Returns, RP1Thread, Practica3Accept,
       Practica3Create, Practica3Thread, Client, ClientQuits, thread_server_vars, descriptor_vars

-----------------------------------------------------------------------------
\* Practica3, without a race.  One thread serves at a time, and connfd is its
\* client's; that client has not been answered, and had not been received before.
Current(c) == global_connfd = c /\ (accepted \/ \E t \in Threads : Serving(t))
Receiving == \E t \in Threads : pc[t] \in {"recv_request", "receiving"}
Pending(c) == client[c] = "start" \/ Queued(c) \/ Current(c)
Unreceived(c) == client[c] = "start" \/ Queued(c) \/ (Current(c) /\ (accepted \/ Receiving))

SerialThreads ==
  /\ up /\ shut = {}
  /\ DOMAIN conn = Threads /\ DOMAIN seen = Threads /\ action \in [Clients -> Actions]
  /\ \A t \in Threads :
       /\ pc[t] \in {"none", "recv_request", "receiving", "load", "store", "print", "answer", "post"}
       /\ Serving(t) => ~accepted /\ own[t] = global_connfd /\ own[t] \in Clients
       /\ pc[t] = "receiving" => conn[t] = own[t]
  /\ accepted => global_connfd \in Clients
  /\ \A t, u \in Threads : Serving(t) /\ Serving(u) => t = u

SerialQueue ==
  /\ backlog \in Seq(Clients)
  /\ \A i, j \in DOMAIN backlog : backlog[i] = backlog[j] => i = j
  /\ \A c \in Clients : Queued(c) => ~Current(c) /\ client[c] # "start"
  /\ \A c \in Clients : Current(c) => client[c] # "start"

SerialClients ==
  /\ \A c \in Clients : client[c] \in {"start", "connected"} => unread[c] = 0
  /\ \A c \in Clients : Pending(c) =>
       inbox[c] = 0 /\ reset[c] = "no" /\ client[c] \in {"start", "connected", "sent", "killed"}
  /\ \A c \in Clients : Unreceived(c) /\ client[c] \in {"sent", "killed"} => unread[c] = 1

\* A client that its thread is counting.
SerialCount ==
  /\ \A t \in Threads : pc[t] \in {"load", "store"} =>
       action[own[t]] = "WRITE" /\ client[own[t]] \notin {"start", "connected"} /\ unread[own[t]] = 0
  /\ \A t \in Threads : pc[t] = "store" => seen[t] = counter
  /\ counter = Stored + Cardinality(Counted)
  /\ (\A t \in Threads : pc[t] # "print") => file = counter

Serial == SerialThreads /\ SerialQueue /\ SerialClients /\ SerialCount
SerialInv == version = "Practica3" /\ ~raced => Serial

LEMMA CountedIsFinite == IsFiniteSet(Counted) /\ Cardinality(Counted) \in Nat
<1>1. CLIENTS \in Int /\ IsFiniteSet(Clients)
  BY ConnectionsAssumption, FS_Interval DEF Clients
<1>2. Counted \in SUBSET Clients
  BY DEF Counted
<1>3. IsFiniteSet(Counted)
  BY <1>1, <1>2, FS_Subset
<1> QED
  BY <1>3, FS_CardinalityType

LEMMA SerialInit == ThreadServersInit => SerialInv
<1> SUFFICES ASSUME ThreadServersInit, version = "Practica3" PROVE Serial
  BY DEF SerialInv
<1>1. /\ up /\ shut = {} /\ backlog = <<>> /\ ~accepted
      /\ \A c \in Clients : reset[c] = "no"
      /\ \A t \in Threads : pc[t] = "none"
      /\ \A c \in Clients : client[c] = "start" /\ inbox[c] = 0 /\ unread[c] = 0
      /\ counter = Stored /\ file = Stored
      /\ DOMAIN conn = Threads /\ DOMAIN seen = Threads /\ action \in [Clients -> Actions]
  BY GlobalAssumption DEF ThreadServersInit, ConnectionsInit, GlobalInit
<1>2. backlog \in Seq(Clients) /\ DOMAIN backlog = {}
  BY <1>1
<1>3. Counted = {}
  BY <1>1 DEF Counted
<1>4. counter = Stored + Cardinality(Counted)
  BY <1>1, <1>3, FS_EmptySet, GlobalAssumption
<1> QED
  BY <1>1, <1>2, <1>4 DEF Serial, SerialThreads, SerialQueue, SerialClients, SerialCount, Serving, Current,
                          Pending, Unreceived, Receiving, Queued

\* A step that counts nobody.
LEMMA CountKept ==
  ASSUME SerialCount, UNCHANGED <<counter, file>>, Counted' = Counted,
         \A t \in Threads : pc'[t] \in {"load", "store"} =>
           action'[own'[t]] = "WRITE" /\ client'[own'[t]] \notin {"start", "connected"} /\ unread'[own'[t]] = 0,
         \A t \in Threads : pc'[t] = "store" => seen'[t] = counter,
         \A t \in Threads : pc[t] = "print" => pc'[t] = "print"
  PROVE  SerialCount'
BY DEF SerialCount

\* main accepts: nobody is being served, or the step would be a race.
LEMMA SerialAccept ==
  ASSUME ShapeInv, Serial, accept_global, ~raced'
  PROVE  Serial'
<1> DEFINE c == Head(backlog)
<1>1. /\ ~accepted /\ accepted' /\ backlog # <<>>
      /\ global_connfd' = c /\ backlog' = Tail(backlog)
      /\ \A t \in Threads : ~Serving(t)
      /\ UNCHANGED <<up, unread, inbox, shut, reset, client, pc, own, conn, seen, action, counter, file>>
  BY DEF accept_global, threads, locals
<1>2. c \in Clients /\ Queued(c)
  BY <1>1, HeadAndTail DEF Serial, SerialQueue, Queued
<1>3. \A e \in Clients : Queued(e)' => Queued(e) /\ e # c
  BY <1>1, HeadAndTail DEF Serial, SerialQueue, Queued
<1>4. \A e \in Clients : Current(e)' => e = c
  BY <1>1 DEF Current
<1>5. \A t \in Threads : ~Serving(t)'
  BY <1>1 DEF Serving
<1>6. SerialThreads'
  BY <1>1, <1>2, <1>5 DEF Serial, SerialThreads
<1>7. backlog' \in Seq(Clients) /\ \A i, j \in DOMAIN backlog' : backlog'[i] = backlog'[j] => i = j
  BY <1>1, HeadAndTail DEF Serial, SerialQueue
<1>8. SerialQueue'
  BY <1>1, <1>2, <1>3, <1>4, <1>7 DEF Serial, SerialQueue
<1>9. \A e \in Clients : (Pending(e)' => Pending(e)) /\ (Unreceived(e)' => Unreceived(e))
  BY <1>1, <1>2, <1>3, <1>4 DEF Pending, Unreceived
<1>10. SerialClients'
  BY <1>1, <1>9 DEF Serial, SerialClients
<1>11. Counted' = Counted
  BY <1>1 DEF Counted
<1>12. SerialCount'
  BY <1>1, <1>11, CountKept DEF Serial, SerialCount
<1> QED
  BY <1>6, <1>8, <1>10, <1>12 DEF Serial

LEMMA SerialAttend ==
  ASSUME ShapeInv, Serial, NEW t \in Threads, attend_clients(t)
  PROVE  Serial'
<1>1. /\ accepted /\ ~accepted' /\ pc[t] = "none"
      /\ pc' = [pc EXCEPT ![t] = "recv_request"] /\ own' = [own EXCEPT ![t] = global_connfd]
      /\ UNCHANGED <<up, backlog, unread, inbox, shut, reset, client, conn, seen,
                     global_connfd, action, counter, file>>
  BY DEF attend_clients, Goto, network, locals
<1>2. \A s \in Threads : ~Serving(s)
  BY <1>1 DEF Serial, SerialThreads
<1>3. /\ pc'[t] = "recv_request" /\ own'[t] = global_connfd
      /\ \A s \in Threads : s # t => pc'[s] = pc[s] /\ own'[s] = own[s]
  BY <1>1 DEF ShapeInv
<1>4. \A s \in Threads : Serving(s)' <=> s = t
  BY <1>2, <1>3 DEF Serving
<1>5. SerialThreads'
  <2>1. ASSUME NEW s \in Threads
        PROVE  /\ pc'[s] \in {"none", "recv_request", "receiving", "load", "store", "print", "answer", "post"}
               /\ Serving(s)' => ~accepted' /\ own'[s] = global_connfd' /\ own'[s] \in Clients
               /\ pc'[s] = "receiving" => conn'[s] = own'[s]
    BY <1>1, <1>3, <1>4 DEF Serial, SerialThreads
  <2> QED BY <1>1, <1>4, <2>1 DEF Serial, SerialThreads
<1>6. \A e \in Clients : Current(e)' <=> Current(e)
  BY <1>1, <1>4 DEF Current
<1>7. \A e \in Clients : Queued(e)' <=> Queued(e)
  BY <1>1 DEF Queued
<1>8. SerialQueue'
  BY <1>1, <1>6, <1>7 DEF Serial, SerialQueue
<1>9. \A e \in Clients : (Pending(e)' => Pending(e)) /\ (Unreceived(e)' => Unreceived(e))
  BY <1>1, <1>6, <1>7 DEF Pending, Unreceived
<1>10. SerialClients'
  BY <1>1, <1>9 DEF Serial, SerialClients
<1>11. Counted' = Counted
  BY <1>1, <1>3 DEF Counted
<1>12. SerialCount'
  BY <1>1, <1>3, <1>11, CountKept DEF Serial, SerialCount
<1> QED
  BY <1>5, <1>8, <1>10, <1>12 DEF Serial

\* The thread that serves goes on.
LEMMA SerialServes ==
  ASSUME ShapeInv, Serial, NEW t \in Threads, client_func(t), Serving(t)
  PROVE  Serial'
<1> DEFINE c == own[t]
<1>0. c \in Clients /\ ~accepted /\ global_connfd = c /\ Current(c) /\ Pending(c) /\ up /\ shut = {}
  BY DEF Serial, SerialThreads, Current, Pending
<1>1. \A s \in Threads : s # t => ~Serving(s)
  BY DEF Serial, SerialThreads
<1>2. UNCHANGED <<backlog, client, own, global_connfd, accepted, action, shut>>
  BY DEF client_func, recv_request, recv_request_returns, load_counter, store_counter, print_counter,
         send_response, post_semaphore, network, memory, Serving
\* What every such step does to the threads, the queue and the clients.
<1>3. ASSUME NEW l \in {"receiving", "load", "store", "print", "answer", "post"},
             pc' = [pc EXCEPT ![t] = l], l = "receiving" => conn'[t] = c /\ pc[t] = "recv_request",
             \A s \in Threads : s # t => conn'[s] = conn[s],
             DOMAIN conn' = Threads, DOMAIN seen' = Threads, up',
             \A e \in Clients : e # c => unread'[e] = unread[e] /\ inbox'[e] = inbox[e],
             \A e \in Clients : e # c => reset'[e] = reset[e],
             unread[c] = 0 => unread'[c] = 0,
             l # "post" => inbox'[c] = inbox[c] /\ reset' = reset,
             l = "receiving" => unread' = unread
      PROVE  SerialThreads' /\ SerialQueue' /\ SerialClients'
  <2>1. pc'[t] = l /\ \A s \in Threads : s # t => pc'[s] = pc[s]
    BY <1>3 DEF ShapeInv
  <2>2. \A s \in Threads : Serving(s)' <=> s = t /\ l # "post"
    BY <1>1, <2>1 DEF Serving
  <2>3. SerialThreads'
    <3>1. ASSUME NEW s \in Threads
          PROVE  /\ pc'[s] \in {"none", "recv_request", "receiving", "load", "store", "print", "answer", "post"}
                 /\ Serving(s)' => ~accepted' /\ own'[s] = global_connfd' /\ own'[s] \in Clients
                 /\ pc'[s] = "receiving" => conn'[s] = own'[s]
      BY <1>0, <1>2, <1>3, <2>1, <2>2 DEF Serial, SerialThreads
    <3> QED BY <1>0, <1>2, <1>3, <2>2, <3>1 DEF Serial, SerialThreads
  <2>4. \A e \in Clients : (Current(e)' => Current(e)) /\ (Current(e)' <=> e = c /\ l # "post") /\ (Queued(e)' <=> Queued(e))
    BY <1>0, <1>2, <2>2 DEF Current, Queued
  <2>5. SerialQueue'
    BY <1>2, <2>4 DEF Serial, SerialQueue
  <2>6. ~Queued(c) /\ client[c] # "start"
    BY <1>0 DEF Serial, SerialQueue
  <2>7. \A e \in Clients : Pending(e)' => Pending(e) /\ (e = c => l # "post")
    BY <1>2, <2>4, <2>6 DEF Pending
  <2>8. \A e \in Clients : Unreceived(e)' => Unreceived(e) /\ (e = c => l = "receiving")
    <3>1. Receiving' => l = "receiving"
      BY <1>1, <2>1 DEF Receiving, Serving
    <3>2. l = "receiving" => Receiving
      BY <1>3 DEF Receiving
    <3> QED BY <1>0, <1>2, <2>4, <2>6, <3>1, <3>2 DEF Unreceived
  <2>9. SerialClients'
    <3>1. ASSUME NEW e \in Clients, client'[e] \in {"start", "connected"} PROVE unread'[e] = 0
      BY <1>2, <1>3, <3>1 DEF Serial, SerialClients
    <3>2. ASSUME NEW e \in Clients, Pending(e)'
          PROVE  inbox'[e] = 0 /\ reset'[e] = "no" /\ client'[e] \in {"start", "connected", "sent", "killed"}
      BY <1>2, <1>3, <2>7, <3>2 DEF Serial, SerialClients
    <3>3. ASSUME NEW e \in Clients, Unreceived(e)', client'[e] \in {"sent", "killed"} PROVE unread'[e] = 1
      BY <1>2, <1>3, <2>8, <3>3 DEF Serial, SerialClients
    <3> QED BY <3>1, <3>2, <3>3 DEF SerialClients
  <2> QED BY <2>3, <2>5, <2>9
<1>4. ASSUME NEW l, pc' = [pc EXCEPT ![t] = l]
      PROVE  pc'[t] = l /\ \A s \in Threads : s # t => pc'[s] = pc[s] /\ pc[s] \in {"none", "post"}
  BY <1>1, <1>4 DEF ShapeInv, Serving
<1>5. CASE recv_request(t)
  <2>1. /\ pc[t] = "recv_request" /\ pc' = [pc EXCEPT ![t] = "receiving"]
        /\ conn' = [conn EXCEPT ![t] = c]
        /\ UNCHANGED <<up, unread, inbox, reset, seen, counter, file>>
    BY <1>0, <1>5 DEF recv_request, Goto, network, memory
  <2>2. SerialThreads' /\ SerialQueue' /\ SerialClients'
    BY <1>0, <1>3, <2>1 DEF Serial, SerialThreads
  <2>3. Counted' = Counted
    BY <1>2, <1>4, <2>1 DEF Counted
  <2>4. SerialCount'
    BY <1>4, <2>1, <2>3, CountKept DEF Serial
  <2> QED BY <2>2, <2>4 DEF Serial
<1>6. CASE recv_request_returns(t)
  <2>1. pc[t] = "receiving" /\ conn[t] = c /\ Readable(c)
    BY <1>6 DEF recv_request_returns, Serial, SerialThreads
  <2>2. unread[c] = 1 /\ client[c] \notin {"start", "connected"}
    <3>1. Unreceived(c)
      BY <1>0, <2>1 DEF Unreceived, Receiving
    <3>2. Ended(c) => client[c] = "killed"
      BY <1>0 DEF Serial, SerialClients, Ended
    <3>3. client[c] \notin {"start", "connected"}
      BY <1>0, <2>1, <3>2 DEF Serial, SerialClients, Readable
    <3> QED BY <1>0, <3>1, <3>3 DEF Serial, SerialClients
  <2>3. /\ pc' = [pc EXCEPT ![t] = Branch(action[c])]
        /\ unread' = [unread EXCEPT ![c] = IF @ > 0 THEN @ - 1 ELSE 0]
        /\ UNCHANGED <<up, inbox, reset, conn, seen, counter, file>>
    <3>1. unread[c] > 0
      BY <2>2
    <3>2. PICK r \in {action[c]} : Goto(t, Branch(r))
      BY <1>6, <2>1, <3>1 DEF recv_request_returns
    <3>3. unread' = [unread EXCEPT ![c] = @ - 1] /\ UNCHANGED reset
      BY <1>6, <2>1, <3>1 DEF recv_request_returns, TakeUnread
    <3>4. UNCHANGED <<up, inbox, conn, seen, counter, file>>
      BY <1>6 DEF recv_request_returns, memory
    <3> QED BY <3>1, <3>2, <3>3, <3>4 DEF Goto
  <2>4. unread'[c] = 0 /\ \A e \in Clients : e # c => unread'[e] = unread[e]
    BY <1>0, <2>2, <2>3 DEF ShapeInv
  <2>5. action[c] \in {"READ", "WRITE"}
    BY <1>0 DEF Serial, SerialThreads, Actions
  <2>6. \/ action[c] = "WRITE" /\ pc' = [pc EXCEPT ![t] = "load"]
        \/ action[c] = "READ" /\ pc' = [pc EXCEPT ![t] = "answer"]
    BY <2>3, <2>5 DEF Branch
  <2>7. SerialThreads' /\ SerialQueue' /\ SerialClients'
    BY <1>0, <1>3, <2>3, <2>4, <2>6 DEF Serial, SerialThreads
  <2>8. \A s \in Threads : s # t => pc'[s] = pc[s] /\ pc[s] \in {"none", "post"}
    BY <1>4, <2>6
  <2>9. pc'[t] \in {"load", "answer"} /\ (pc'[t] = "load" => action[c] = "WRITE")
    BY <1>4, <2>6
  <2>10. ASSUME NEW e \in Clients PROVE e \in Counted' <=> e \in Counted
    <3>1. CASE e = c
      <4>1. e \notin Counted
        BY <2>2, <3>1 DEF Counted
      <4>2. action[c] = "WRITE" => pc'[t] = "load"
        BY <1>4, <2>6
      <4> QED BY <1>2, <3>1, <4>1, <4>2 DEF Counted
    <3>2. CASE e # c
      BY <1>2, <2>1, <2>4, <2>8, <2>9, <3>2 DEF Counted
    <3> QED BY <3>1, <3>2
  <2>11. Counted' = Counted
    BY <2>10 DEF Counted
  <2>12. SerialCount'
    BY <1>2, <2>1, <2>2, <2>3, <2>4, <2>8, <2>9, <2>11, CountKept DEF Serial
  <2> QED BY <2>7, <2>12 DEF Serial
<1>7. CASE load_counter(t)
  <2>1. /\ pc[t] = "load" /\ pc' = [pc EXCEPT ![t] = "store"]
        /\ seen' = [seen EXCEPT ![t] = counter]
        /\ UNCHANGED <<up, unread, inbox, reset, conn, counter, file>>
    BY <1>7 DEF load_counter, Goto, network, memory
  <2>2. SerialThreads' /\ SerialQueue' /\ SerialClients'
    BY <1>0, <1>3, <2>1 DEF Serial, SerialThreads
  <2>3. Counted' = Counted
    BY <1>2, <1>4, <2>1 DEF Counted
  <2>4. SerialCount'
    <3>1. \A s \in Threads : pc'[s] \in {"load", "store"} => s = t
      BY <1>4, <2>1
    <3>2. seen'[t] = counter
      BY <2>1 DEF Serial, SerialThreads
    <3> QED BY <1>2, <1>4, <2>1, <2>3, <3>1, <3>2, CountKept DEF Serial, SerialCount
  <2> QED BY <2>2, <2>4 DEF Serial
<1>8. CASE store_counter(t)
  <2>1. /\ pc[t] = "store" /\ pc' = [pc EXCEPT ![t] = "print"]
        /\ counter' = seen[t] + 1 /\ seen' = [seen EXCEPT ![t] = 0]
        /\ UNCHANGED <<up, unread, inbox, reset, conn, file>>
    BY <1>8 DEF store_counter, Goto, network
  <2>2. SerialThreads' /\ SerialQueue' /\ SerialClients'
    BY <1>0, <1>3, <2>1 DEF Serial, SerialThreads
  <2>3. pc'[t] = "print" /\ \A s \in Threads : pc'[s] \notin {"load", "store"}
    <3>1. pc'[t] = "print" /\ \A s \in Threads : s # t => pc'[s] \in {"none", "post"}
      BY <1>4, <2>1
    <3> QED BY <3>1
  <2>4. action[c] = "WRITE" /\ client[c] \notin {"start", "connected"} /\ unread[c] = 0 /\ seen[t] = counter
    BY <2>1 DEF Serial, SerialCount
  <2>5. c \notin Counted
    BY <2>1 DEF Counted
  <2>6. ASSUME NEW e \in Clients PROVE e \in Counted' <=> e \in Counted \/ e = c
    <3>1. \A s \in Threads : pc[s] \in {"load", "store"} => own[s] = c
      BY <1>4, <2>1
    <3> QED BY <1>2, <2>1, <2>3, <2>4, <3>1 DEF Counted
  <2>7. Counted' = Counted \cup {c}
    BY <1>0, <2>6 DEF Counted
  <2>8. Cardinality(Counted') = Cardinality(Counted) + 1
    BY <2>5, <2>7, CountedIsFinite, FS_AddElement
  <2>9. counter' = Stored + Cardinality(Counted')
    BY <2>1, <2>4, <2>8, CountedIsFinite, GlobalAssumption DEF Serial, SerialCount
  <2>10. SerialCount'
    BY <2>3, <2>9 DEF SerialCount
  <2> QED BY <2>2, <2>10 DEF Serial
<1>9. CASE print_counter(t)
  <2>1. /\ pc[t] = "print" /\ pc' = [pc EXCEPT ![t] = "answer"] /\ file' = counter
        /\ UNCHANGED <<up, unread, inbox, reset, conn, seen, counter>>
    BY <1>9 DEF print_counter, Goto, network, locals
  <2>2. SerialThreads' /\ SerialQueue' /\ SerialClients'
    BY <1>0, <1>3, <2>1 DEF Serial, SerialThreads
  <2>3. Counted' = Counted
    BY <1>2, <1>4, <2>1 DEF Counted
  <2>4. \A s \in Threads : pc'[s] \notin {"load", "store"}
    BY <1>4, <2>1
  <2>5. SerialCount'
    BY <2>1, <2>3, <2>4 DEF Serial, SerialCount
  <2> QED BY <2>2, <2>5 DEF Serial
<1>10. CASE send_response(t)
  <2>1. reset[c] = "no"
    BY <1>0 DEF Serial, SerialClients
  <2>2. /\ pc[t] = "answer" /\ pc' = [pc EXCEPT ![t] = "post"] /\ up'
        /\ inbox' = inbox \/ inbox' = [inbox EXCEPT ![c] = @ + 1]
        /\ \A e \in Clients : e # c => reset'[e] = reset[e]
        /\ UNCHANGED <<unread, conn, seen, counter, file>>
    BY <1>0, <1>10, <2>1 DEF send_response, Send, Goto, locals, memory, ShapeInv
  <2>3. SerialThreads' /\ SerialQueue' /\ SerialClients'
    BY <1>0, <1>3, <2>2 DEF Serial, SerialThreads, ShapeInv
  <2>4. Counted' = Counted
    BY <1>2, <1>4, <2>2 DEF Counted
  <2>5. SerialCount'
    BY <1>4, <2>2, <2>4, CountKept DEF Serial
  <2> QED BY <2>3, <2>5 DEF Serial
<1> QED
  BY <1>5, <1>6, <1>7, <1>8, <1>9, <1>10 DEF client_func, post_semaphore, Serving

LEMMA SerialPost ==
  ASSUME ShapeInv, Serial, NEW t \in Threads, post_semaphore(t)
  PROVE  Serial'
<1>1. /\ pc[t] = "post" /\ pc' = [pc EXCEPT ![t] = "none"] /\ own' = [own EXCEPT ![t] = NoClient]
      /\ conn' = [conn EXCEPT ![t] = NoClient] /\ seen' = [seen EXCEPT ![t] = 0]
      /\ UNCHANGED <<up, backlog, unread, inbox, shut, reset, client,
                     global_connfd, accepted, action, counter, file>>
  BY DEF post_semaphore, ThreadEnds, network
<1>2. pc'[t] = "none" /\ \A s \in Threads : s # t =>
        pc'[s] = pc[s] /\ own'[s] = own[s] /\ conn'[s] = conn[s] /\ seen'[s] = seen[s]
  BY <1>1 DEF ShapeInv, Serial, SerialThreads
<1>3. \A s \in Threads : Serving(s)' <=> Serving(s)
  BY <1>1, <1>2 DEF Serving
<1>4. SerialThreads'
  <2>1. ASSUME NEW s \in Threads
        PROVE  /\ pc'[s] \in {"none", "recv_request", "receiving", "load", "store", "print", "answer", "post"}
               /\ Serving(s)' => ~accepted' /\ own'[s] = global_connfd' /\ own'[s] \in Clients
               /\ pc'[s] = "receiving" => conn'[s] = own'[s]
    <3>1. CASE s = t
      BY <1>2, <3>1 DEF Serving
    <3>2. CASE s # t
      BY <1>1, <1>2, <1>3, <3>2 DEF Serial, SerialThreads
    <3> QED BY <3>1, <3>2
  <2> QED BY <1>1, <1>3, <2>1 DEF Serial, SerialThreads
<1>5. \A e \in Clients : (Current(e)' <=> Current(e)) /\ (Queued(e)' <=> Queued(e))
  BY <1>1, <1>3 DEF Current, Queued
<1>6. SerialQueue'
  BY <1>1, <1>5 DEF Serial, SerialQueue
<1>7. Receiving' <=> Receiving
  BY <1>1, <1>2 DEF Receiving
<1>8. SerialClients'
  BY <1>1, <1>5, <1>7 DEF Serial, SerialClients, Pending, Unreceived
<1>9. Counted' = Counted
  BY <1>1, <1>2 DEF Counted
<1>10. SerialCount'
  <2>1. \A s \in Threads : pc'[s] \in {"load", "store"} => s # t
    BY <1>2
  <2>2. \A s \in Threads : pc[s] = "print" => pc'[s] = "print"
    BY <1>1, <1>2
  <2> QED BY <1>1, <1>2, <1>9, <2>1, <2>2, CountKept DEF Serial, SerialCount
<1> QED
  BY <1>4, <1>6, <1>8, <1>10 DEF Serial

LEMMA SerialProgram ==
  ASSUME ShapeInv, Serial, version = "Practica3", ~raced', NEW c \in Clients, Client(c) \/ ClientQuits(c)
  PROVE  Serial'
<1>1. UNCHANGED <<up, shut, pc, own, conn, seen, global_connfd, accepted, action, counter, file>>
  BY DEF Client, ClientQuits, client_program, setup_client, send_request, recv_reply, Quit, threads,
         global_vars, memory, locals
<1>2. SerialThreads'
  BY <1>1 DEF Serial, SerialThreads, Serving
<1>3. (Receiving' <=> Receiving) /\ \A e \in Clients : Current(e)' <=> Current(e)
  BY <1>1 DEF Receiving, Current, Serving
<1>4. up /\ shut = {}
  BY DEF Serial, SerialThreads
\* Who is being counted has sent.
<1>5. \A t \in Threads : pc[t] \in {"load", "store"} =>
        client[own[t]] \notin {"start", "connected"} /\ own[t] \in Clients
  BY DEF Serial, SerialThreads, SerialCount, Serving
<1>6. ASSUME Counted' = Counted, NEW s \in {"connected", "sent", "answered", "killed"},
             client' = [client EXCEPT ![c] = s], client[c] # "start" => s # "connected",
             \A e \in Clients : client[e] \notin {"start", "connected"} => unread'[e] = unread[e]
      PROVE  SerialCount'
  <2>1. \A t \in Threads : pc[t] \in {"load", "store"} =>
          client'[own[t]] \notin {"start", "connected"} /\ unread'[own[t]] = unread[own[t]]
    BY <1>5, <1>6 DEF ShapeInv
  <2> QED BY <1>1, <1>6, <2>1, CountKept DEF Serial, SerialCount
<1>7. CASE setup_client(c)
  <2>1. /\ client[c] = "start" /\ client' = [client EXCEPT ![c] = "connected"]
        /\ backlog' = Append(backlog, c) /\ UNCHANGED <<unread, inbox, reset>>
    BY <1>7 DEF setup_client
  <2>2. \A i \in DOMAIN backlog' :
          (i \in DOMAIN backlog /\ backlog'[i] = backlog[i]) \/ (i = Len(backlog) + 1 /\ backlog'[i] = c)
    BY <2>1, Appended DEF Serial, SerialQueue
  <2>3. backlog' \in Seq(Clients)
    BY <2>1, Appended DEF Serial, SerialQueue
  <2>4. \A e \in Clients : Queued(e)' => Queued(e) \/ e = c
    BY <2>2 DEF Queued
  <2>5. ~Queued(c) /\ ~Current(c)
    BY <2>1 DEF Serial, SerialQueue
  <2>6. \A i, j \in DOMAIN backlog' : backlog'[i] = backlog'[j] => i = j
    BY <2>2, <2>5 DEF Serial, SerialQueue, Queued
  <2>7. client'[c] = "connected" /\ \A e \in Clients : e # c => client'[e] = client[e]
    BY <2>1 DEF ShapeInv
  <2>8. SerialQueue'
    BY <1>3, <2>3, <2>4, <2>5, <2>6, <2>7 DEF Serial, SerialQueue
  <2>9. \A e \in Clients : (Pending(e)' => Pending(e)) /\ (Unreceived(e)' => Unreceived(e))
    BY <1>1, <1>3, <2>1, <2>4, <2>7 DEF Pending, Unreceived
  <2>10. SerialClients'
    BY <2>1, <2>7, <2>9 DEF Serial, SerialClients
  <2>11. Counted' = Counted
    BY <1>1, <2>1, <2>7 DEF Counted
  <2>12. SerialCount'
    BY <1>6, <2>1, <2>11
  <2> QED BY <1>2, <2>8, <2>10, <2>12 DEF Serial
<1>8. ASSUME backlog' = backlog, NEW s \in {"sent", "answered", "killed"},
             client' = [client EXCEPT ![c] = s], client[c] # "start"
      PROVE  SerialQueue' /\ \A e \in Clients : (Pending(e)' => Pending(e)) /\ (Unreceived(e)' => Unreceived(e))
  <2>1. \A e \in Clients : (client'[e] = "start" <=> client[e] = "start") /\ (Queued(e)' <=> Queued(e))
    BY <1>8 DEF ShapeInv, Queued
  <2> QED BY <1>1, <1>3, <1>8, <2>1 DEF Serial, SerialQueue, Pending, Unreceived
<1>9. CASE send_request(c, 1)
  <2>1. /\ client[c] = "connected" /\ client' = [client EXCEPT ![c] = "sent"]
        /\ unread' = [unread EXCEPT ![c] = 1]
        /\ UNCHANGED <<backlog, inbox, reset>>
    BY <1>4, <1>9 DEF send_request
  <2>2. /\ client'[c] = "sent" /\ unread'[c] = 1
        /\ \A e \in Clients : e # c => client'[e] = client[e] /\ unread'[e] = unread[e]
    BY <2>1 DEF ShapeInv
  <2>3. SerialQueue' /\ \A e \in Clients : (Pending(e)' => Pending(e)) /\ (Unreceived(e)' => Unreceived(e))
    BY <1>8, <2>1
  <2>4. SerialClients'
    BY <2>1, <2>2, <2>3 DEF Serial, SerialClients
  <2>5. \A e \in Clients : e \in Counted' <=> e \in Counted
    BY <1>1, <2>1, <2>2 DEF Counted
  <2>6. Counted' = Counted
    BY <2>5 DEF Counted
  <2>7. SerialCount'
    BY <1>6, <2>1, <2>2, <2>6
  <2> QED BY <1>2, <2>3, <2>4, <2>7 DEF Serial
<1>10. CASE recv_reply(c, 1) \/ Quit(c)
  <2>1. /\ client[c] = "sent" /\ UNCHANGED <<backlog, unread>>
        /\ inbox' = [inbox EXCEPT ![c] = 0]
        /\ \/ inbox[c] # 0 /\ client' = [client EXCEPT ![c] = "answered"]
           \/ client' = [client EXCEPT ![c] = "killed"]
        /\ inbox[c] = 0 => reset' = reset
        /\ \A e \in Clients : e # c => reset'[e] = reset[e]
    <3>1. CASE recv_reply(c, 1)
      BY <1>4, <3>1 DEF recv_reply, ClientCloses, ShapeInv
    <3>2. CASE Quit(c)
      <4>1. client[c] # "connected"
        BY <3>2 DEF Quit
      <4> QED BY <3>2, <4>1 DEF Quit, ClientCloses, ShapeInv
    <3> QED BY <1>10, <3>1, <3>2
  <2>2. PICK s \in {"answered", "killed"} :
          client' = [client EXCEPT ![c] = s] /\ (s = "answered" => inbox[c] # 0)
    BY <2>1
  <2>3. client'[c] = s /\ inbox'[c] = 0
        /\ \A e \in Clients : e # c => client'[e] = client[e] /\ inbox'[e] = inbox[e]
    BY <2>1, <2>2 DEF ShapeInv
  <2>4. SerialQueue' /\ \A e \in Clients : (Pending(e)' => Pending(e)) /\ (Unreceived(e)' => Unreceived(e))
    BY <1>8, <2>1, <2>2
  <2>5. SerialClients'
    <3>1. \A e \in Clients : client'[e] \in {"start", "connected"} => client[e] \in {"start", "connected"}
      BY <2>2, <2>3
    <3>2. ASSUME NEW e \in Clients, Pending(e)'
          PROVE  inbox'[e] = 0 /\ reset'[e] = "no" /\ client'[e] \in {"start", "connected", "sent", "killed"}
      BY <2>1, <2>2, <2>3, <2>4, <3>2 DEF Serial, SerialClients
    <3>3. ASSUME NEW e \in Clients, Unreceived(e)', client'[e] \in {"sent", "killed"} PROVE unread'[e] = 1
      BY <2>1, <2>3, <2>4, <3>3 DEF Serial, SerialClients
    <3> QED BY <2>1, <3>1, <3>2, <3>3 DEF Serial, SerialClients
  <2>6. \A e \in Clients : e \in Counted' <=> e \in Counted
    BY <1>1, <2>1, <2>2, <2>3 DEF Counted
  <2>7. Counted' = Counted
    BY <2>6 DEF Counted
  <2>8. SerialCount'
    BY <1>6, <2>1, <2>2, <2>7
  <2> QED BY <1>2, <2>4, <2>5, <2>8 DEF Serial
<1> QED
  BY <1>7, <1>9, <1>10 DEF Client, ClientQuits, client_program

LEMMA SerialStepKeeps ==
  ShapeInv /\ SerialInv /\ [ThreadServersNext]_thread_server_vars => SerialInv'
<1> SUFFICES ASSUME ShapeInv, SerialInv, [ThreadServersNext]_thread_server_vars,
                    version' = "Practica3", ~raced'
             PROVE  Serial'
  BY DEF SerialInv
<1>1. version = "Practica3"
  BY DEF ThreadServersNext, ServerThread, Practica1Thread, Practica1Returns, RP1Thread, Practica3Accept,
         Practica3Create, Practica3Thread, Client, ClientQuits, thread_server_vars
<1>2. CASE Practica3Accept
  BY <1>1, <1>2, SerialAccept DEF Practica3Accept, accept_global, SerialInv
<1>3. ASSUME NEW t \in Threads, Practica3Create(t) PROVE Serial'
  BY <1>1, <1>3, SerialAttend DEF Practica3Create, attend_clients, SerialInv
<1>4. ASSUME NEW t \in Threads, Practica3Thread(t) PROVE Serial'
  <2>1. ~raced /\ client_func(t)
    BY <1>4 DEF Practica3Thread, client_func, recv_request, recv_request_returns, load_counter, store_counter,
                print_counter, send_response, post_semaphore, ThreadEnds
  <2>2. post_semaphore(t) \/ Serving(t)
    BY <2>1 DEF client_func, recv_request, recv_request_returns, load_counter, store_counter,
                print_counter, send_response, Serving
  <2> QED BY <1>1, <2>1, <2>2, SerialServes, SerialPost DEF SerialInv
<1>5. ASSUME NEW c \in Clients, Client(c) \/ ClientQuits(c) PROVE Serial'
  <2>1. ~raced
    BY <1>5 DEF Client, ClientQuits, client_program, setup_client, send_request, recv_reply, Quit
  <2> QED BY <1>1, <1>5, <2>1, SerialProgram DEF SerialInv
<1>6. CASE UNCHANGED thread_server_vars
  <2>1. UNCHANGED <<version, raced, up, shut, reset, backlog, unread, inbox, client, pc, own, conn, seen,
                    global_connfd, accepted, action, counter, file>>
    BY <1>6 DEF thread_server_vars, connections, network, threads, global_vars, memory, locals
  <2>2. Serial
    BY <1>1, <2>1 DEF SerialInv
  <2>3. SerialThreads' /\ SerialQueue' /\ SerialClients'
    BY <2>1, <2>2 DEF Serial, SerialThreads, SerialQueue, SerialClients, Serving, Current, Receiving,
                      Pending, Unreceived, Queued
  <2>4. Counted' = Counted
    BY <2>1 DEF Counted
  <2>5. SerialCount'
    BY <2>1, <2>2, <2>4 DEF Serial, SerialCount
  <2> QED BY <2>3, <2>5 DEF Serial
<1>7. ~Practica1Returns /\ \A t \in Threads : ~Practica1Thread(t) /\ ~RP1Thread(t)
  BY <1>1 DEF Practica1Returns, Practica1Thread, RP1Thread
<1> QED
  BY <1>2, <1>3, <1>4, <1>5, <1>6, <1>7 DEF ThreadServersNext, ServerThread

-----------------------------------------------------------------------------
\* Practica1: a thread that missed its own connection has one that came later.
THEOREM ThreadsServeOwnOrLater == ThreadServersSpec => []ServesOwnOrLater
<1>1. ArgumentInv => ServesOwnOrLater
  BY DEF ArgumentInv, ServesOwnOrLater
<1> QED
  BY <1>1, ShapeInit, ShapeKept, ArgumentInit0, ArgumentStepKeeps, PTL DEF ThreadServersSpec

\* RP1: a descriptor that is open is the number of a thread that will close it,
\* although threads close numbers that are no longer theirs.
THEOREM OpenDescriptorsAreHeld == ThreadServersSpec => []DescriptorsHeld
<1>1. HeldInv => DescriptorsHeld
  BY DEF HeldInv, DescriptorsHeld
<1> QED
  BY <1>1, ShapeInit, ShapeKept, ArgumentInit0, HeldStepKeeps, PTL DEF ThreadServersSpec

\* RP1: if no client ends before it has sent, simple_recv closes no descriptor,
\* and every number stands for the client of the thread that accepted it.
THEOREM NumbersAreOwn == ThreadServersSpec => []OwnUnlessRaced
<1>1. OwnInv /\ UnusedInv => OwnUnlessRaced
  BY DEF OwnInv, UnusedInv, OwnThreads, Busy, Connection, OwnUnlessRaced
<1>2. ThreadServersInit => UnusedInv
  BY ConnfdInit DEF UnusedInv
<1> QED
  BY <1>1, <1>2, ShapeInit, ShapeKept, OwnInit, OwnStepKeeps, UnusedKept, PTL DEF ThreadServersSpec

\* Practica3: whatever a thread has received, it gives its place back.
THEOREM PlacesAreGivenBack == ThreadServersSpec => []SemaphoreCounts
<1>1. SemaphoreInv => SemaphoreCounts
  BY DEF SemaphoreInv, SemaphoreCounts, ThreadsCounted, Running
<1> QED
  BY <1>1, ShapeInit, ShapeKept, SemaphoreInit, SemaphoreStepKeeps, PTL DEF ThreadServersSpec

\* Practica3: as long as no connection is accepted while another one is served,
\* and no client is killed before it has sent, the unprotected counter counts
\* every writer once, and each client is answered by its own thread.
THEOREM CountsExactly == ThreadServersSpec => []CounterIsExact
<1>1. SerialInv => CounterIsExact
  BY DEF SerialInv, Serial, SerialThreads, SerialCount, CounterIsExact, ExactUnlessRaced, Serving
<1> QED
  BY <1>1, ShapeInit, ShapeKept, SerialInit, SerialStepKeeps, PTL DEF ThreadServersSpec
=============================================================================
