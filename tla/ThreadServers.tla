--------------------------- MODULE ThreadServers ---------------------------
(***************************************************************************)
(* Any one of the three servers with a thread per client, with its clients.*)
(***************************************************************************)
EXTENDS ArgumentServer, DescriptorServer, GlobalServer

CONSTANT Versions

ASSUME VersionsAssumption == Versions \subseteq {"Practica1", "RP1", "Practica3"}

VARIABLE version

argument_vars == <<arg, params>>
descriptor_vars == <<descriptor, connfd, receiving>>
global_vars == <<global_connfd, memory, locals>>
thread_server_vars == <<version, connections, argument_vars, descriptor_vars, global_vars>>

\* RP1's main creates its threads before any client comes.
ThreadServersInit ==
  /\ version \in Versions
  /\ ConnectionsInit /\ ArgumentInit /\ DescriptorInit
  /\ GlobalInit
  /\ pc = [t \in Threads |-> IF version = "RP1" THEN "accept" ELSE "none"]

Practica1Thread(t) ==
  version = "Practica1" /\ argument_thread(t) /\ UNCHANGED <<version, descriptor_vars, global_vars>>

Practica1Returns ==
  version = "Practica1" /\ main_returns /\ UNCHANGED <<version, descriptor_vars, global_vars>>

RP1Thread(t) ==
  version = "RP1" /\ descriptor_thread(t) /\ UNCHANGED <<version, argument_vars, global_vars>>

Practica3Accept ==
  version = "Practica3" /\ accept_global /\ UNCHANGED <<version, argument_vars, descriptor_vars>>

Practica3Create(t) ==
  version = "Practica3" /\ attend_clients(t) /\ UNCHANGED <<version, argument_vars, descriptor_vars>>

Practica3Thread(t) ==
  version = "Practica3" /\ client_func(t) /\ UNCHANGED <<version, argument_vars, descriptor_vars>>

ServerThread(t) == Practica1Thread(t) \/ RP1Thread(t) \/ Practica3Create(t) \/ Practica3Thread(t)

\* RP1's messages are a byte longer than the server's buffer; its greeting is
\* shorter than the client's, which may find several in it.
Client(c) ==
  /\ IF version = "RP1" THEN client_program(c, 2, inbox[c]) ELSE client_program(c, 1, 1)
  /\ UNCHANGED <<version, argument_vars, descriptor_vars, global_vars>>

ClientQuits(c) == Quit(c) /\ UNCHANGED <<version, argument_vars, descriptor_vars, global_vars>>

ThreadServersNext ==
  \/ Practica1Returns \/ Practica3Accept
  \/ \E t \in Threads : ServerThread(t)
  \/ \E c \in Clients : Client(c) \/ ClientQuits(c)

\* Threads that can run are scheduled; every client is started and goes on.
ThreadServersFairness ==
  /\ WF_thread_server_vars(Practica1Returns)
  /\ WF_thread_server_vars(Practica3Accept)
  /\ \A t \in Threads : WF_thread_server_vars(ServerThread(t))
  /\ \A c \in Clients : WF_thread_server_vars(Client(c))

ThreadServersSpec ==
  ThreadServersInit /\ [][ThreadServersNext]_thread_server_vars /\ ThreadServersFairness

-----------------------------------------------------------------------------
\* Practica3: every thread that runs has taken one of MAX_THREADS, and gives it
\* back on every path.
SemaphoreCounts == version = "Practica3" => ThreadsCounted

\* Practica3: the counter is right, unless clients overlapped or one was killed.
CounterIsExact == version = "Practica3" => ExactUnlessRaced

\* Who connects is answered, unless what the threads share was disturbed: the
\* argument before it was copied, connfd while it was served, or a descriptor
\* that was closed twice because its client ended before it sent.
AnsweredUnlessRaced ==
  \A c \in Clients : client[c] = "connected" ~> (client[c] \in {"answered", "killed"} \/ raced)

\* Practica1's clients all end, also those whose connection no thread has: when
\* as many have come as main accepts, every thread ends, and then the server, if
\* a thread's greeting of a connection that was reset has not ended it before.
Practica1ClientsEnd ==
  \A c \in Clients : version = "Practica1" /\ client[c] = "connected" ~> Ended(c)
=============================================================================
