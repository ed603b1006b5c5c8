---------------------------- MODULE BrokerProofs ----------------------------
(***************************************************************************)
(* Broker, for any number of clients, topics, slots and descriptors.       *)
(*                                                                         *)
(* First, who has which descriptor: the accept thread gives numbers away   *)
(* while the forwarder and the subscriber thread close them.               *)
(*                                                                         *)
(* Then, what subscribers read.  The invariant says of each client where   *)
(* it is in the protocol, what it has said that the broker has not read    *)
(* (RequestOf), what the broker answered (ResponseOf), and that all it     *)
(* was ever sent has no gap (Orderly).  A descriptor may be another        *)
(* client's by the time a message is sent to it: then that client has not  *)
(* been registered, and it takes the message for its response (Spoiled).   *)
(*                                                                         *)
(* Last, what holds also once a client has a wrong id or a topic two       *)
(* slots: the table's counters and names, and everybody's types.           *)
(***************************************************************************)
EXTENDS Broker, ClientListProofs, SequenceTheorems

Statuses == {"new", "registered", "refused", "unregistered"}
Programs == {"start", "connected", "registering", "active", "refused", "ended", "dead"}
Fields == {"pc", "conns", "fd", "subs", "data"}

DescriptorType ==
  /\ status \in [Clients -> Statuses]
  /\ prog \in [Clients -> Programs]
  /\ backlog \in Seq(Clients)
  /\ owner \in [Fds -> Clients \cup {NoClient}]
  /\ fd \in [Clients -> Fds \cup {0}]
  /\ accepting \in [pc : {"accept", "recv", "respond"}, client : Clients \cup {NoClient}]
  /\ polling = [t \in Pollers |-> polling[t]]
  /\ \A t \in Pollers : DOMAIN polling[t] = Fields

\* The broker knows nothing of a client that it has not accepted, ...
Unknown(c) == prog[c] = "start" \/ \E i \in DOMAIN backlog : backlog[i] = c

BacklogInv ==
  /\ \A c \in Clients : Unknown(c) =>
       status[c] = "new" /\ accepting.client # c /\ \A f \in Fds : owner[f] # c
  /\ \A i \in DOMAIN backlog : prog[backlog[i]] # "start"
  /\ \A i, j \in DOMAIN backlog : backlog[i] = backlog[j] => i = j

\* ... a descriptor in use is the one its client was given, ...
OwnerInv ==
  /\ \A f \in Fds : owner[f] # NoClient => fd[owner[f]] = f
  /\ \A c \in Clients : status[c] = "registered" => fd[c] \in Fds /\ owner[fd[c]] = c

\* ... the client that is being registered has it or has lost it to nobody, ...
AcceptInv ==
  /\ accepting.pc = "accept" => accepting.client = NoClient
  /\ accepting.pc # "accept" =>
       /\ accepting.client \in Clients /\ fd[accepting.client] \in Fds
       /\ owner[fd[accepting.client]] \in {accepting.client, NoClient}

\* ... and a thread closes the one of a client of its own kind, which has
\* unregistered: the two threads never close the same.
CloseInv ==
  \A t \in Pollers : polling[t].pc = "close" =>
    LET f == polling[t].fd IN
    /\ f \in Fds /\ owner[f] \in Clients
    /\ status[owner[f]] = "unregistered"
    /\ t = FORDWARDER <=> owner[f] \in Publishers

DescriptorInv ==
  DescriptorType /\ BacklogInv /\ OwnerInv /\ AcceptInv /\ CloseInv /\ DescriptorsAccounted

\* A step that gives nothing away, closes nothing and registers nobody.
Quiet ==
  /\ UNCHANGED <<status, owner, fd, backlog, accepting>>
  /\ prog' \in [Clients -> Programs]
  /\ \A c \in Clients : prog'[c] = "start" <=> prog[c] = "start"
  /\ polling' = [t \in Pollers |-> polling'[t]]
  /\ \A t \in Pollers :
       /\ DOMAIN polling'[t] = Fields
       /\ polling'[t].pc = "close" <=> polling[t].pc = "close"
       /\ polling[t].pc = "close" => polling'[t].fd = polling[t].fd

\* A quiet step keeps the invariant: nothing that it speaks of changes.
LEMMA QuietPreserves == DescriptorInv /\ Quiet => DescriptorInv'
<1> SUFFICES ASSUME DescriptorInv, Quiet PROVE DescriptorInv'
  OBVIOUS
<1> USE DEF DescriptorInv, Quiet
<1>1. DescriptorType'
  BY DEF DescriptorType
<1>2. \A c \in Clients : Unknown(c)' <=> Unknown(c)
  BY DEF Unknown
<1>3. BacklogInv'
  BY <1>2 DEF BacklogInv, DescriptorType
<1>4. OwnerInv' /\ AcceptInv'
  BY DEF OwnerInv, AcceptInv
<1>5. CloseInv'
  BY DEF CloseInv
<1>6. DescriptorsAccounted'
  BY DEF DescriptorsAccounted
<1> QED BY <1>1, <1>3, <1>4, <1>5, <1>6

\* No client is connected and both threads rest.
LEMMA InitDescriptorInv == BrokerInit => DescriptorInv
<1> SUFFICES ASSUME BrokerInit PROVE DescriptorInv
  OBVIOUS
<1> USE DEF BrokerInit, Init, Rest, Fields, Pollers, FORDWARDER, UNREGISTERER
<1>1. DescriptorType
  BY DEF DescriptorType, Statuses, Programs
<1>2. BacklogInv /\ OwnerInv /\ AcceptInv
  BY BrokerAssumption DEF BacklogInv, OwnerInv, AcceptInv
<1>3. CloseInv /\ DescriptorsAccounted
  BY DEF CloseInv, DescriptorsAccounted
<1> QED BY <1>1, <1>2, <1>3 DEF DescriptorInv

\* A thread that goes from one place to another, neither of them "close".
LEMMA GotoIsQuiet ==
  ASSUME DescriptorInv, NEW t \in Pollers, polling[t].pc # "close",
         NEW r, DOMAIN r = Fields, r.pc # "close", Goto(t, r),
         UNCHANGED <<status, owner, fd, backlog, accepting, prog>>
  PROVE  Quiet
BY DEF DescriptorInv, DescriptorType, Goto, Fields, Quiet

\* Continue is such a step.
LEMMA ContinueIsQuiet ==
  ASSUME DescriptorInv, NEW t \in Pollers, polling[t].pc # "close", NEW r, Continue(t, r),
         UNCHANGED <<status, owner, fd, backlog, accepting, prog>>
  PROVE  Quiet
<1> DEFINE q == [Rest EXCEPT !.pc = IF r.conns = {} THEN "list" ELSE "recv", !.conns = r.conns]
<1>1. DOMAIN q = Fields /\ q.pc # "close"
  BY DEF Rest, Fields
<1>2. Goto(t, q)
  BY DEF Continue
<1> HIDE DEF q
<1> QED BY <1>1, <1>2, GotoIsQuiet

\* What the clients do before they are registered and after concerns neither
\* the table nor the descriptors, but for connecting.
LEMMA ClientsAreQuiet ==
  ASSUME DescriptorInv, NEW c \in Clients,
         \/ send_config_register(c) \/ recv_response_msg(c) \/ publish(c) \/ subscribe(c)
         \/ subscribe_misread(c) \/ send_config_unregister(c) \/ Die(c)
  PROVE  Quiet
<1> USE DEF DescriptorInv, DescriptorType, Quiet, Programs, vars
<1>1. CASE send_config_register(c)
  BY <1>1 DEF send_config_register
<1>2. CASE recv_response_msg(c)
  BY <1>2 DEF recv_response_msg
<1>3. CASE publish(c) \/ subscribe(c) \/ subscribe_misread(c)
  BY <1>3 DEF publish, subscribe, subscribe_misread
<1>4. CASE send_config_unregister(c) \/ Die(c)
  BY <1>4 DEF send_config_unregister, Die, CloseSocket
<1> QED BY <1>1, <1>2, <1>3, <1>4

\* The end of the broker, and what its polling threads do except unregister.
LEMMA ThreadsAreQuiet ==
  ASSUME DescriptorInv,
         \/ BrokerEnds
         \/ \E t \in Pollers : get_all_clients(t) \/ poll(t)
         \/ \E t \in Pollers, s \in Clients : recv_invalid_action(t, s)
         \/ \E s \in Clients : recv_publisher_msg(s) \/ send_subscriber_msg(s)
  PROVE  Quiet
<1>1. CASE BrokerEnds
  BY <1>1 DEF BrokerEnds, programs, vars, DescriptorInv, DescriptorType, Quiet
<1>2. ASSUME NEW t \in Pollers, get_all_clients(t) PROVE Quiet
  <2> DEFINE q == [Rest EXCEPT !.pc = "poll", !.conns = get_all(Polled(t))]
  <2>2. DOMAIN q = Fields /\ q.pc # "close"
    BY DEF Rest, Fields
  <2>3. Goto(t, q)
    BY <1>2 DEF get_all_clients
  <2> HIDE DEF q
  <2> QED BY <1>2, <2>2, <2>3, GotoIsQuiet DEF get_all_clients, vars, sockets, programs
<1>3. ASSUME NEW t \in Pollers, poll(t) PROVE Quiet
  <2>1. PICK r : Continue(t, r)
    BY <1>3 DEF poll
  <2> QED BY <1>3, <2>1, ContinueIsQuiet DEF poll, vars, sockets, programs
<1>4. ASSUME NEW t \in Pollers, NEW s \in Clients, recv_invalid_action(t, s) PROVE Quiet
  BY <1>4, ContinueIsQuiet DEF recv_invalid_action, Ready, vars, programs
<1>5. ASSUME NEW s \in Clients, recv_publisher_msg(s) PROVE Quiet
  <2> DEFINE subs == get_subscribers(topic[owner[fd[s]]])
             data == [kind |-> "data", from |-> owner[fd[s]], n |-> Message(fd[s]).id]
             r == [Took(FORDWARDER, s) EXCEPT !.pc = "send", !.subs = subs, !.data = data]
  <2>1. /\ FORDWARDER \in Pollers /\ polling[FORDWARDER].pc = "recv"
        /\ UNCHANGED <<status, owner, fd, backlog, accepting, prog>>
        /\ IF subs = {} THEN Continue(FORDWARDER, r) ELSE Goto(FORDWARDER, r)
    BY <1>5 DEF recv_publisher_msg, Ready, vars, programs, Pollers
  <2> HIDE DEF subs, data
  <2>2. DOMAIN r = Fields /\ r.pc # "close"
    BY <2>1 DEF Took, Fields, DescriptorInv, DescriptorType
  <2> HIDE DEF r
  <2> QED BY <2>1, <2>2, GotoIsQuiet, ContinueIsQuiet
<1>6. ASSUME NEW s \in Clients, send_subscriber_msg(s) PROVE Quiet
  <2> DEFINE r == polling[FORDWARDER]
             q == [r EXCEPT !.subs = @ \ {s}]
  <2>1. /\ FORDWARDER \in Pollers /\ r.pc = "send"
        /\ UNCHANGED <<status, owner, fd, backlog, accepting, prog>>
        /\ IF r.subs = {s} THEN Continue(FORDWARDER, r) ELSE Goto(FORDWARDER, q)
    BY <1>6 DEF send_subscriber_msg, vars, programs, Pollers
  <2>2. DOMAIN q = Fields /\ q.pc # "close"
    BY <2>1 DEF Fields, DescriptorInv, DescriptorType
  <2> HIDE DEF q
  <2> QED BY <2>1, <2>2, GotoIsQuiet, ContinueIsQuiet
<1> QED BY <1>1, <1>2, <1>3, <1>4, <1>5, <1>6

-----------------------------------------------------------------------------
LEMMA ConnectedIsUnknown ==
  ASSUME DescriptorInv, NEW c \in Clients, setup_client(c), NEW d \in Clients
  PROVE  Unknown(d)' <=> Unknown(d)
<1>1. /\ prog[c] = "start" /\ prog' = [prog EXCEPT ![c] = "connected"]
      /\ backlog' = Append(backlog, c)
  BY DEF setup_client
<1>2. /\ DOMAIN backlog = 1..Len(backlog) /\ DOMAIN backlog' = 1..(Len(backlog) + 1)
      /\ Len(backlog) \in Nat /\ backlog'[Len(backlog) + 1] = c
      /\ \A i \in DOMAIN backlog : backlog'[i] = backlog[i]
  BY <1>1 DEF DescriptorInv, DescriptorType
<1>3. CASE d = c
  BY <1>1, <1>2, <1>3 DEF Unknown
<1>4. CASE d # c
  BY <1>1, <1>2, <1>4 DEF Unknown, DescriptorInv, DescriptorType
<1> QED BY <1>3, <1>4

\* A client that connects is known to nobody until it is accepted.
LEMMA ConnectPreserves ==
  ASSUME DescriptorInv, NEW c \in Clients, setup_client(c)
  PROVE  DescriptorInv'
<1> USE DEF DescriptorInv
<1>1. /\ prog[c] = "start" /\ prog' = [prog EXCEPT ![c] = "connected"]
      /\ backlog' = Append(backlog, c)
      /\ UNCHANGED <<status, owner, fd, accepting, polling>>
  BY DEF setup_client, vars
<1>2. DescriptorType'
  BY <1>1 DEF DescriptorType, Programs
<1>3. BacklogInv'
  <2>1. \A i \in DOMAIN backlog : backlog[i] # c /\ backlog[i] \in Clients
    BY <1>1 DEF BacklogInv, DescriptorType
  <2>2. \A d \in Clients : Unknown(d)' <=> Unknown(d)
    BY ConnectedIsUnknown
  <2> QED BY <1>1, <2>1, <2>2 DEF BacklogInv, DescriptorType
<1>4. OwnerInv' /\ AcceptInv' /\ CloseInv' /\ DescriptorsAccounted'
  BY <1>1 DEF OwnerInv, AcceptInv, CloseInv, DescriptorsAccounted
<1> QED BY <1>2, <1>3, <1>4

\* accept returns a number that is free, for a client that has none.
LEMMA AcceptPreserves ==
  ASSUME DescriptorInv, accept_new_client
  PROVE  DescriptorInv'
<1> USE DEF DescriptorInv
<1> DEFINE c == Head(backlog)
           f == Least(FreeFds)
<1>1. /\ accepting.pc = "accept" /\ backlog # <<>> /\ FreeFds # {}
      /\ owner' = [owner EXCEPT ![f] = c] /\ fd' = [fd EXCEPT ![c] = f]
      /\ accepting' = [pc |-> "recv", client |-> c] /\ backlog' = Tail(backlog)
      /\ UNCHANGED <<status, prog, polling>>
  BY DEF accept_new_client, vars, programs
<1>2. f \in Fds /\ owner[f] = NoClient
  BY <1>1, LeastIsLeast, BrokerAssumption DEF FreeFds
<1>3. c \in Clients /\ c = backlog[1] /\ 1 \in DOMAIN backlog
  BY <1>1 DEF DescriptorType
<1>4. status[c] = "new" /\ \A g \in Fds : owner[g] # c
  BY <1>3 DEF BacklogInv, Unknown
<1>5. c # NoClient
  BY <1>3, BrokerAssumption
<1> HIDE DEF c, f
<1>6. DescriptorType'
  BY <1>1, <1>2, <1>3 DEF DescriptorType
<1>7. BacklogInv'
  <2>1. DOMAIN backlog' = 1..(Len(backlog) - 1) /\ \A i \in DOMAIN backlog' : backlog'[i] = backlog[i + 1] /\ i + 1 \in DOMAIN backlog
    BY <1>1 DEF DescriptorType
  <2>2. \A d \in Clients : Unknown(d)' => Unknown(d) /\ d # c
    BY <1>1, <1>3, <2>1 DEF Unknown, BacklogInv, DescriptorType
  <2>3. \A d \in Clients : Unknown(d)' => \A g \in Fds : owner'[g] # d
    BY <1>1, <1>2, <2>2 DEF BacklogInv, DescriptorType
  <2> QED BY <1>1, <2>1, <2>2, <2>3 DEF BacklogInv, DescriptorType
<1>8. OwnerInv' /\ AcceptInv'
  <2>1. fd'[c] = f /\ owner'[f] = c
    BY <1>1, <1>2, <1>3 DEF DescriptorType
  <2>2. \A d \in Clients : d # c => fd'[d] = fd[d]
    BY <1>1, <1>3 DEF DescriptorType
  <2>3. \A g \in Fds : g # f => owner'[g] = owner[g]
    BY <1>1, <1>2 DEF DescriptorType
  <2>4. OwnerInv'
    BY <1>1, <1>2, <1>4, <2>1, <2>2, <2>3, BrokerAssumption DEF OwnerInv, DescriptorType
  <2>5. AcceptInv'
    BY <1>1, <1>2, <1>3, <2>1 DEF AcceptInv
  <2> QED BY <2>4, <2>5
<1>9. CloseInv'
  <2>1. \A t \in Pollers : polling[t].pc = "close" => polling[t].fd # f
    BY <1>2, BrokerAssumption DEF CloseInv
  <2> QED BY <1>1, <1>2, <2>1 DEF CloseInv, DescriptorType
<1>10. DescriptorsAccounted'
  <2> SUFFICES ASSUME NEW g \in Fds, owner'[g] # NoClient
               PROVE  /\ fd'[owner'[g]] = g
                      /\ \/ status[owner'[g]] # "unregistered"
                         \/ \E t \in Pollers : polling[t].pc = "close" /\ polling[t].fd = g
    BY <1>1 DEF DescriptorsAccounted
  <2>1. CASE g = f
    BY <1>1, <1>2, <1>3, <1>4, <2>1 DEF DescriptorType
  <2>2. CASE g # f
    BY <1>1, <1>2, <1>3, <1>4, <2>2 DEF DescriptorType, DescriptorsAccounted
  <2> QED BY <2>1, <2>2
<1> QED BY <1>6, <1>7, <1>8, <1>9, <1>10

\* A registration is added with the client's own connection; one that is
\* refused or ignored changes no descriptor.
LEMMA RegisterPreserves ==
  ASSUME DescriptorInv, recv_register_msg \/ register_invalid_action \/ send_response_msg
  PROVE  DescriptorInv'
<1> USE DEF DescriptorInv
<1> DEFINE c == accepting.client
<1>1. CASE recv_register_msg
  <2>1. /\ accepting.pc = "recv" /\ fd[c] \in Fds /\ owner[fd[c]] # NoClient
        /\ accepting' = [accepting EXCEPT !.pc = "respond"]
        /\ UNCHANGED <<owner, fd, backlog, prog, polling>>
    BY <1>1 DEF recv_register_msg, HasMessage, Unread, Closed, FreeFds, programs
  <2>2. /\ status[c] = "new"
        /\ \/ status' = [status EXCEPT ![c] = "registered"]
           \/ status' = [status EXCEPT ![c] = "refused"]
    BY <1>1 DEF recv_register_msg, add_client, add_client_full
  <2>3. c \in Clients /\ owner[fd[c]] = c /\ accepting'.client = c /\ accepting'.pc = "respond"
    BY <2>1 DEF AcceptInv, DescriptorType
  <2> HIDE DEF c
  <2>4. DescriptorType'
    BY <2>1, <2>2, <2>3 DEF DescriptorType, Statuses
  <2>5. \A d \in Clients : d # c => status'[d] = status[d]
    BY <2>2, <2>3 DEF DescriptorType
  <2>6. status'[c] \in {"registered", "refused"}
    BY <2>2, <2>3 DEF DescriptorType
  <2>7. BacklogInv'
    <3>1. \A d \in Clients : Unknown(d)' <=> Unknown(d)
      BY <2>1 DEF Unknown
    <3>2. ~Unknown(c)
      BY <2>1, <2>3 DEF BacklogInv
    <3> QED BY <2>1, <2>3, <2>5, <3>1, <3>2 DEF BacklogInv, DescriptorType
  <2>8. OwnerInv' /\ AcceptInv'
    BY <2>1, <2>3, <2>5 DEF OwnerInv, AcceptInv
  <2>9. CloseInv' /\ DescriptorsAccounted'
    BY <2>1, <2>2, <2>3, <2>5, <2>6 DEF CloseInv, DescriptorsAccounted, DescriptorType
  <2> QED BY <2>4, <2>7, <2>8, <2>9
<1>2. CASE register_invalid_action \/ send_response_msg
  <2>1. /\ accepting' = [pc |-> "accept", client |-> NoClient]
        /\ UNCHANGED <<status, owner, fd, backlog, prog, polling>>
    BY <1>2 DEF register_invalid_action, send_response_msg, vars, programs
  <2>2. DescriptorType'
    BY <2>1 DEF DescriptorType
  <2>3. BacklogInv'
    <3>1. \A d \in Clients : Unknown(d)' <=> Unknown(d)
      BY <2>1 DEF Unknown
    <3> QED BY <2>1, <3>1, BrokerAssumption DEF BacklogInv, DescriptorType
  <2>4. OwnerInv' /\ AcceptInv' /\ CloseInv' /\ DescriptorsAccounted'
    BY <2>1 DEF OwnerInv, AcceptInv, CloseInv, DescriptorsAccounted
  <2> QED BY <2>2, <2>3, <2>4
<1> QED BY <1>1, <1>2

\* An unregistration, of whomever, leaves its own connection to be closed.
LEMMA UnregisterPreserves ==
  ASSUME DescriptorInv, NEW t \in Pollers, NEW s \in Clients, recv_unregister_msg(t, s)
  PROVE  DescriptorInv'
<1> USE DEF DescriptorInv
<1> DEFINE f == fd[s]
           c == owner[f]
           r == [Took(t, s) EXCEPT !.pc = "close", !.fd = f]
<1>1. /\ polling[t].pc = "recv" /\ Goto(t, r)
      /\ f \in Fds /\ c # NoClient /\ (t = FORDWARDER <=> c \in Publishers)
      /\ status' = [status EXCEPT ![c] = "unregistered"]
      /\ UNCHANGED <<owner, fd, backlog, accepting, prog>>
  BY DEF recv_unregister_msg, remove_client, Ready, Receives, HasMessage, Unread, Closed, FreeFds, programs
<1>2. DOMAIN r = Fields /\ r.pc = "close" /\ r.fd = f
  BY DEF Took, Fields, DescriptorType
<1> HIDE DEF r
<1>3. c \in Clients /\ fd[c] = f
  BY <1>1 DEF DescriptorType, OwnerInv
<1> HIDE DEF c
<1>4. /\ polling'[t] = r
      /\ \A u \in Pollers : u # t => polling'[u] = polling[u]
      /\ status'[c] = "unregistered"
      /\ \A d \in Clients : d # c => status'[d] = status[d]
  BY <1>1, <1>3 DEF DescriptorType, Goto
<1>5. DescriptorType'
  BY <1>1, <1>2, <1>3 DEF DescriptorType, Statuses, Goto, Fields
<1>6. BacklogInv'
  <2>1. \A d \in Clients : Unknown(d)' <=> Unknown(d)
    BY <1>1 DEF Unknown
  <2>2. ~Unknown(c)
    BY <1>1, <1>3 DEF BacklogInv, c
  <2> QED BY <1>1, <1>4, <2>1, <2>2 DEF BacklogInv, DescriptorType
<1>7. OwnerInv' /\ AcceptInv'
  BY <1>1, <1>4 DEF OwnerInv, AcceptInv
<1>8. CloseInv'
  <2> SUFFICES ASSUME NEW u \in Pollers, polling'[u].pc = "close"
               PROVE  LET g == polling'[u].fd IN
                      /\ g \in Fds /\ owner[g] \in Clients
                      /\ status'[owner[g]] = "unregistered"
                      /\ u = FORDWARDER <=> owner[g] \in Publishers
    BY <1>1 DEF CloseInv
  <2>1. CASE u = t
    BY <1>1, <1>2, <1>3, <1>4, <2>1 DEF c
  <2>2. CASE u # t
    <3>1. polling'[u] = polling[u]
      BY <1>4, <2>2
    <3> QED BY <1>4, <3>1 DEF CloseInv
  <2> QED BY <2>1, <2>2
<1>9. DescriptorsAccounted'
  <2> SUFFICES ASSUME NEW g \in Fds, owner[g] # NoClient
               PROVE  /\ fd[owner[g]] = g
                      /\ \/ status'[owner[g]] # "unregistered"
                         \/ \E u \in Pollers : polling'[u].pc = "close" /\ polling'[u].fd = g
    BY <1>1 DEF DescriptorsAccounted
  <2>1. owner[g] \in Clients /\ fd[owner[g]] = g
    BY DEF DescriptorType, OwnerInv
  <2>2. CASE owner[g] = c
    BY <1>2, <1>3, <1>4, <2>1, <2>2
  <2>3. CASE owner[g] # c
    <3>1. status'[owner[g]] = status[owner[g]]
      BY <1>4, <2>1, <2>3
    <3>2. \A u \in Pollers : polling[u].pc = "close" => polling'[u] = polling[u]
      BY <1>1, <1>4
    <3> QED BY <2>1, <3>1, <3>2 DEF DescriptorsAccounted
  <2> QED BY <2>2, <2>3
<1> QED BY <1>5, <1>6, <1>7, <1>8, <1>9

\* close frees a number that no registered client has and the other thread is
\* not about to close.
LEMMA ClosePreserves ==
  ASSUME DescriptorInv, NEW t \in Pollers, close_connection(t)
  PROVE  DescriptorInv'
<1> USE DEF DescriptorInv
<1> DEFINE f == polling[t].fd
           q == [Rest EXCEPT !.pc = IF polling[t].conns = {} THEN "list" ELSE "recv", !.conns = polling[t].conns]
<1>1. /\ polling[t].pc = "close" /\ Goto(t, q)
      /\ owner' = [owner EXCEPT ![f] = NoClient]
      /\ UNCHANGED <<status, fd, backlog, accepting, prog>>
  BY DEF close_connection, Continue, vars, programs
<1>2. DOMAIN q = Fields /\ q.pc # "close"
  BY DEF Rest, Fields
<1> HIDE DEF q
<1>3. /\ f \in Fds /\ owner[f] \in Clients /\ status[owner[f]] = "unregistered"
      /\ t = FORDWARDER <=> owner[f] \in Publishers
  BY <1>1 DEF CloseInv
<1>4. \A u \in Pollers : u # t /\ polling[u].pc = "close" => polling[u].fd # f
  BY <1>3 DEF CloseInv, Pollers, FORDWARDER, UNREGISTERER
<1> HIDE DEF f
<1>5. /\ polling'[t] = q
      /\ \A u \in Pollers : u # t => polling'[u] = polling[u]
      /\ owner'[f] = NoClient
      /\ \A g \in Fds : g # f => owner'[g] = owner[g]
  BY <1>1, <1>3 DEF DescriptorType, Goto
<1>6. DescriptorType'
  BY <1>1, <1>2, <1>3 DEF DescriptorType, Goto, Fields
<1>7. BacklogInv'
  <2>1. \A d \in Clients : Unknown(d)' <=> Unknown(d)
    BY <1>1 DEF Unknown
  <2> QED BY <1>1, <1>5, <2>1, BrokerAssumption DEF BacklogInv, DescriptorType
<1>8. OwnerInv' /\ AcceptInv'
  BY <1>1, <1>3, <1>5 DEF OwnerInv, AcceptInv
<1>9. CloseInv'
  <2> SUFFICES ASSUME NEW u \in Pollers, polling'[u].pc = "close"
               PROVE  LET g == polling'[u].fd IN
                      /\ g \in Fds /\ owner'[g] \in Clients
                      /\ status[owner'[g]] = "unregistered"
                      /\ u = FORDWARDER <=> owner'[g] \in Publishers
    BY <1>1 DEF CloseInv
  <2>1. u # t /\ polling'[u] = polling[u]
    BY <1>2, <1>5
  <2>2. polling[u].fd # f /\ polling[u].fd \in Fds
    BY <1>4, <2>1 DEF CloseInv
  <2> QED BY <1>5, <2>1, <2>2 DEF CloseInv
<1>10. DescriptorsAccounted'
  <2> SUFFICES ASSUME NEW g \in Fds, owner'[g] # NoClient
               PROVE  /\ fd[owner'[g]] = g
                      /\ \/ status[owner'[g]] # "unregistered"
                         \/ \E u \in Pollers : polling'[u].pc = "close" /\ polling'[u].fd = g
    BY <1>1 DEF DescriptorsAccounted
  <2>1. g # f /\ owner'[g] = owner[g]
    BY <1>5
  <2>2. \A u \in Pollers : polling[u].fd = g => polling'[u] = polling[u]
    BY <1>5, <2>1 DEF f
  <2> QED BY <2>1, <2>2 DEF DescriptorsAccounted
<1> QED BY <1>6, <1>7, <1>8, <1>9, <1>10

\* Every step of the broker and of its clients keeps the invariant.
LEMMA BrokerNextPreserves == DescriptorInv /\ [BrokerNext]_all_vars => DescriptorInv'
<1> SUFFICES ASSUME DescriptorInv, [BrokerNext]_all_vars PROVE DescriptorInv'
  OBVIOUS
<1>1. CASE accept_thread
  BY <1>1, AcceptPreserves, RegisterPreserves, ThreadsAreQuiet, QuietPreserves
     DEF accept_thread, accept_fails
<1>2. ASSUME NEW t \in Pollers, poll_thread(t) PROVE DescriptorInv'
  BY <1>2, ClosePreserves, UnregisterPreserves, ThreadsAreQuiet, QuietPreserves
     DEF poll_thread, recv_fails
<1>3. CASE fordwarder_thread \/ subscriber_thread
  <2>1. ASSUME NEW s \in Clients, recv_publisher_msg(s) \/ send_subscriber_msg(s) \/ send_fails(s)
        PROVE  DescriptorInv'
    BY <2>1, ThreadsAreQuiet, QuietPreserves DEF send_fails
  <2> QED BY <1>2, <1>3, <2>1 DEF fordwarder_thread, subscriber_thread, Pollers
<1>4. ASSUME NEW c \in Clients, client_program(c) \/ send_config_unregister(c) \/ Die(c)
      PROVE  DescriptorInv'
  BY <1>4, ConnectPreserves, ClientsAreQuiet, QuietPreserves DEF client_program
<1>5. CASE UNCHANGED all_vars
  BY <1>5, QuietPreserves
     DEF all_vars, broker_vars, vars, sockets, programs, Quiet, DescriptorInv, DescriptorType
<1> QED BY <1>1, <1>3, <1>4, <1>5 DEF BrokerNext

-----------------------------------------------------------------------------
\* Who has which descriptor, whatever the clients do and the threads' order.
THEOREM DescriptorInvariance == BrokerSpec => []DescriptorInv
<1> QED BY InitDescriptorInv, BrokerNextPreserves, PTL DEF BrokerSpec

\* close_connection never takes the descriptor of a client that is registered.
THEOREM RegisteredKeepTheirs == BrokerSpec => []RegisteredConnected
<1>1. DescriptorInv => RegisteredConnected
  BY DEF DescriptorInv, OwnerInv, RegisteredConnected
<1> QED BY <1>1, DescriptorInvariance, PTL

\* accept_new_client and close_connection keep count of the descriptors.
THEOREM NoDescriptorIsLost == BrokerSpec => []DescriptorsAccounted
<1>1. DescriptorInv => DescriptorsAccounted
  BY DEF DescriptorInv
<1> QED BY <1>1, DescriptorInvariance, PTL

-----------------------------------------------------------------------------
\* The messages of a stream, and the requests of a client.
DataMsgs == [kind : {"data"}, from : Publishers, n : Int]
ResponseMsgs == [kind : {"response"}, id : Int]
StreamMsgs == DataMsgs \cup ResponseMsgs
RequestMsgs == [action : {"REGISTER", "UNREGISTER", "PUBLISH_DATA"}, id : Int]

IsResponse(msg) == msg.kind = "response"
IsFrom(msg, p) == msg.kind = "data" /\ msg.from = p

\* Each message of a publisher is the one after the message of it before.
WithoutGaps(s) ==
  \A i, j \in DOMAIN s : \A p \in Publishers :
    i < j /\ IsFrom(s[i], p) /\ IsFrom(s[j], p) /\ (\A k \in DOMAIN s : i < k /\ k < j => ~IsFrom(s[k], p))
      => s[j].n = s[i].n + 1

\* The last message from p, if there is one, is number n.
LastIs(s, p, n) ==
  \A i \in DOMAIN s : IsFrom(s[i], p) /\ (\A j \in DOMAIN s : i < j => ~IsFrom(s[j], p)) => s[i].n = n

\* One more message.
LEMMA GapsAppend ==
  ASSUME NEW s \in Seq(StreamMsgs), NEW msg \in StreamMsgs, NEW t, t = Append(s, msg)
  PROVE  /\ \A p, n : ~IsFrom(msg, p) /\ LastIs(s, p, n) => LastIs(t, p, n)
         /\ \A p : IsFrom(msg, p) => LastIs(t, p, msg.n)
         /\ WithoutGaps(s) /\ (\A p \in Publishers : IsFrom(msg, p) => LastIs(s, p, msg.n - 1)) => WithoutGaps(t)
<1>1. /\ Len(s) \in Nat /\ DOMAIN s = 1..Len(s) /\ DOMAIN t = 1..(Len(s) + 1)
      /\ t[Len(s) + 1] = msg /\ \A i \in DOMAIN s : t[i] = s[i] /\ s[i] \in StreamMsgs
  OBVIOUS
<1>2. ASSUME NEW p, NEW n, ~IsFrom(msg, p), LastIs(s, p, n) PROVE LastIs(t, p, n)
  BY <1>1, <1>2 DEF LastIs
<1>3. ASSUME NEW p, IsFrom(msg, p) PROVE LastIs(t, p, msg.n)
  BY <1>1, <1>3 DEF LastIs
<1>4. ASSUME WithoutGaps(s), \A p \in Publishers : IsFrom(msg, p) => LastIs(s, p, msg.n - 1)
      PROVE  WithoutGaps(t)
  <2> SUFFICES ASSUME NEW i \in DOMAIN t, NEW j \in DOMAIN t, NEW p \in Publishers,
                      i < j, IsFrom(t[i], p), IsFrom(t[j], p),
                      \A k \in DOMAIN t : i < k /\ k < j => ~IsFrom(t[k], p)
               PROVE  t[j].n = t[i].n + 1
    BY DEF WithoutGaps
  <2>1. i \in DOMAIN s /\ t[i] = s[i]
    BY <1>1
  <2>2. CASE j \in DOMAIN s
    BY <1>1, <1>4, <2>1, <2>2 DEF WithoutGaps
  <2>3. CASE j = Len(s) + 1
    <3>1. \A k \in DOMAIN s : i < k => ~IsFrom(s[k], p)
      BY <1>1, <2>1, <2>3
    <3>2. s[i].n = msg.n - 1
      BY <1>1, <1>4, <2>1, <2>3, <3>1 DEF LastIs
    <3>3. msg.n \in Int
      BY <1>1, <2>3 DEF IsFrom, StreamMsgs, DataMsgs, ResponseMsgs
    <3> QED
      BY <1>1, <2>1, <2>3, <3>2, <3>3
  <2> QED
    BY <1>1, <2>2, <2>3
<1> QED
  BY <1>2, <1>3, <1>4

\* One message less, the first.
LEMMA GapsTail ==
  ASSUME NEW s \in Seq(StreamMsgs), s # <<>>, NEW t, t = Tail(s)
  PROVE  /\ t \in Seq(StreamMsgs)
         /\ \A p, n : LastIs(s, p, n) => LastIs(t, p, n)
         /\ WithoutGaps(s) => WithoutGaps(t)
<1>1. /\ Len(s) \in Nat /\ DOMAIN s = 1..Len(s) /\ DOMAIN t = 1..(Len(s) - 1) /\ t \in Seq(StreamMsgs)
      /\ \A i \in DOMAIN t : i + 1 \in DOMAIN s /\ t[i] = s[i + 1]
  OBVIOUS
<1>2. ASSUME NEW p, NEW n, LastIs(s, p, n) PROVE LastIs(t, p, n)
  <2> SUFFICES ASSUME NEW i \in DOMAIN t, IsFrom(t[i], p), \A j \in DOMAIN t : i < j => ~IsFrom(t[j], p)
               PROVE  t[i].n = n
    BY DEF LastIs
  <2>1. \A j \in DOMAIN s : i + 1 < j => j - 1 \in DOMAIN t /\ i < j - 1 /\ t[j - 1] = s[j]
    BY <1>1
  <2>2. \A j \in DOMAIN s : i + 1 < j => ~IsFrom(s[j], p)
    BY <2>1
  <2> QED
    BY <1>1, <1>2, <2>2 DEF LastIs
<1>3. ASSUME WithoutGaps(s) PROVE WithoutGaps(t)
  <2> SUFFICES ASSUME NEW i \in DOMAIN t, NEW j \in DOMAIN t, NEW p \in Publishers,
                      i < j, IsFrom(t[i], p), IsFrom(t[j], p),
                      \A k \in DOMAIN t : i < k /\ k < j => ~IsFrom(t[k], p)
               PROVE  t[j].n = t[i].n + 1
    BY DEF WithoutGaps
  <2>1. \A k \in DOMAIN s : i + 1 < k /\ k < j + 1 => k - 1 \in DOMAIN t /\ i < k - 1 /\ k - 1 < j /\ t[k - 1] = s[k]
    BY <1>1
  <2>2. \A k \in DOMAIN s : i + 1 < k /\ k < j + 1 => ~IsFrom(s[k], p)
    BY <2>1
  <2>3. i + 1 \in DOMAIN s /\ j + 1 \in DOMAIN s /\ i + 1 < j + 1 /\ t[i] = s[i + 1] /\ t[j] = s[j + 1]
    BY <1>1
  <2> QED
    BY <1>3, <2>2, <2>3 DEF WithoutGaps
<1> QED
  BY <1>1, <1>2, <1>3

\* A part that was read has no gap if the whole has none.
LEMMA GapsPrefix ==
  ASSUME NEW r \in Seq(StreamMsgs), NEW q \in Seq(StreamMsgs), WithoutGaps(r \o q)
  PROVE  WithoutGaps(r)
<1> DEFINE s == r \o q
<1>1. /\ Len(r) \in Nat /\ DOMAIN r = 1..Len(r) /\ Len(q) \in Nat /\ DOMAIN s = 1..(Len(r) + Len(q))
      /\ \A i \in DOMAIN r : i \in DOMAIN s /\ s[i] = r[i]
  BY ConcatProperties
<1>2. WithoutGaps(s)
  OBVIOUS
<1> HIDE DEF s
<1> SUFFICES ASSUME NEW i \in DOMAIN r, NEW j \in DOMAIN r, NEW p \in Publishers,
                    i < j, IsFrom(r[i], p), IsFrom(r[j], p),
                    \A k \in DOMAIN r : i < k /\ k < j => ~IsFrom(r[k], p)
             PROVE  r[j].n = r[i].n + 1
  BY DEF WithoutGaps
<1>3. \A k \in DOMAIN s : i < k /\ k < j => k \in DOMAIN r
  BY <1>1
<1> QED
  BY <1>1, <1>2, <1>3 DEF WithoutGaps

\* Reading moves a message from one part to the other.
LEMMA ReadMoves ==
  ASSUME NEW r \in Seq(StreamMsgs), NEW q \in Seq(StreamMsgs), q # <<>>
  PROVE  Append(r, Head(q)) \o Tail(q) = r \o q
<1>1. /\ Head(q) \in StreamMsgs /\ Tail(q) \in Seq(StreamMsgs) /\ Append(r, Head(q)) \in Seq(StreamMsgs)
      /\ Len(q) \in Nat /\ Len(q) > 0 /\ Len(r) \in Nat /\ Len(Tail(q)) = Len(q) - 1
      /\ Len(Append(r, Head(q))) = Len(r) + 1 /\ q[1] = Head(q)
      /\ \A i \in 1..Len(Tail(q)) : Tail(q)[i] = q[i + 1]
      /\ \A i \in 1..Len(r) : Append(r, Head(q))[i] = r[i]
      /\ Append(r, Head(q))[Len(r) + 1] = Head(q)
  OBVIOUS
<1> DEFINE a == Append(r, Head(q))
           b == Tail(q)
<1>2. a \in Seq(StreamMsgs) /\ b \in Seq(StreamMsgs)
  BY <1>1
<1> HIDE DEF a, b
<1>3. /\ a \o b \in Seq(StreamMsgs) /\ r \o q \in Seq(StreamMsgs)
      /\ Len(a \o b) = Len(a) + Len(b) /\ Len(r \o q) = Len(r) + Len(q)
      /\ \A i \in 1..(Len(a) + Len(b)) : (a \o b)[i] = IF i <= Len(a) THEN a[i] ELSE b[i - Len(a)]
      /\ \A i \in 1..(Len(r) + Len(q)) : (r \o q)[i] = IF i <= Len(r) THEN r[i] ELSE q[i - Len(r)]
  BY <1>2, ConcatProperties
<1>4. Len(a) = Len(r) + 1 /\ Len(b) = Len(q) - 1 /\ Len(a) + Len(b) = Len(r) + Len(q)
  BY <1>1 DEF a, b
<1>5. ASSUME NEW i \in 1..(Len(r) + Len(q)) PROVE (a \o b)[i] = (r \o q)[i]
  <2>1. CASE i <= Len(r)
    <3>1. a[i] = r[i]
      BY <1>1, <2>1 DEF a
    <3> QED BY <1>1, <1>3, <1>4, <2>1, <3>1
  <2>2. CASE i = Len(r) + 1
    <3>1. a[i] = q[1] /\ i - Len(r) = 1
      BY <1>1, <2>2 DEF a
    <3> QED BY <1>1, <1>3, <1>4, <2>2, <3>1
  <2>3. CASE i > Len(r) + 1
    <3>1. i - Len(a) \in 1..Len(b) /\ i - Len(a) + 1 = i - Len(r)
      BY <1>1, <1>4, <2>3
    <3>2. b[i - Len(a)] = q[i - Len(r)]
      BY <1>1, <3>1 DEF b
    <3> QED BY <1>1, <1>3, <1>4, <2>3, <3>2
  <2>4. i \in Int /\ Len(r) \in Int
    BY <1>1
  <2>5. i <= Len(r) \/ i = Len(r) + 1 \/ i > Len(r) + 1
    BY <2>4
  <2> QED BY <2>1, <2>2, <2>3, <2>5
<1>6. a \o b = r \o q
  BY <1>1, <1>3, <1>4, <1>5, SeqEqual
<1> QED BY <1>6 DEF a, b

\* Sending appends to the whole.
LEMMA SendAppends ==
  ASSUME NEW r \in Seq(StreamMsgs), NEW q \in Seq(StreamMsgs), NEW msg \in StreamMsgs
  PROVE  r \o Append(q, msg) = Append(r \o q, msg)
<1> DEFINE one == <<msg>>
<1>1. one \in Seq(StreamMsgs) /\ Append(q, msg) = q \o one
  BY AppendIsConcat
<1>2. r \o q \in Seq(StreamMsgs) /\ Append(r \o q, msg) = (r \o q) \o one
  BY ConcatProperties, AppendIsConcat
<1> HIDE DEF one
<1>3. (r \o q) \o one = r \o (q \o one)
  BY <1>1, ConcatAssociative
<1> QED BY <1>1, <1>2, <1>3

-----------------------------------------------------------------------------
\* Who has said what to whom, as long as nothing is disturbed.
\* What was sent to c and may still count: what it has read, then what it has not.
Stream(c) == received[c] \o to_client[c]

StreamType ==
  /\ to_client \in [Clients -> Seq(StreamMsgs)]
  /\ received \in [Clients -> Seq(DataMsgs)]
  /\ to_broker \in [Clients -> Seq(RequestMsgs)]
  /\ published \in [Clients -> Nat] /\ my_id \in [Clients -> Int]
  /\ misread \subseteq Clients

\* The entries are those of the registered clients.
NoStale == \A e \in entries : status[e.socket] = "registered"

\* What a client program has done, and what the broker knows of it.
ProgOf(c) ==
  /\ type[c] = PUBLISHER <=> c \in Publishers
  /\ status[c] \in {"new", "refused"} => id[c] = -1
  /\ prog[c] \in {"start", "connected"} => status[c] = "new" /\ to_broker[c] = <<>>
  /\ prog[c] \in {"start", "connected", "registering"} => received[c] = <<>> /\ published[c] = 0 /\ my_id[c] = -1
  /\ prog[c] = "active" => status[c] = "registered" /\ my_id[c] = id[c]
  /\ prog[c] = "ended" => status[c] \in {"registered", "unregistered"}
  /\ status[c] = "unregistered" => prog[c] = "ended"
  /\ c \in Publishers \cup misread => received[c] = <<>>
  /\ Gone(c) => to_client[c] = <<>>
  /\ status[c] = "new" /\ to_client[c] # <<>> => id_counter > 0

\* How many messages of p the broker has not read, and the number of the next one.
Waiting(p) ==
  LET q == to_broker[p] IN
  IF q # <<>> /\ q[Len(q)].action # "PUBLISH_DATA" THEN Len(q) - 1 ELSE Len(q)
NextOf(p) == published[p] - Waiting(p)

\* What it has said that the broker has not read.
RequestOf(c) ==
  LET q == to_broker[c] IN
  /\ status[c] = "new" => \A i \in DOMAIN q : q[i].action = "REGISTER" /\ i = Len(q)
  /\ status[c] \in {"refused", "unregistered"} => q = <<>>
  /\ status[c] = "registered" =>
       /\ prog[c] = "ended" => q # <<>> /\ q[Len(q)] = [action |-> "UNREGISTER", id |-> id[c]]
       /\ \A i \in DOMAIN q : (i # Len(q) \/ prog[c] # "ended") =>
            c \in Publishers /\ q[i] = [action |-> "PUBLISH_DATA", id |-> NextOf(c) + i - 1]

RespPending(c) == accepting.pc = "respond" /\ accepting.client = c

\* It gets one response, and takes it for data never.
ResponseOf(c) ==
  /\ RespPending(c) => status[c] # "new"
  /\ \A i, j \in DOMAIN to_client[c] :
       IsResponse(to_client[c][i]) /\ IsResponse(to_client[c][j]) => i = j
  /\ \A i \in DOMAIN to_client[c] : IsResponse(to_client[c][i]) =>
       /\ status[c] # "new" /\ ~RespPending(c)
       /\ prog[c] = "active" => c \in misread
  /\ prog[c] = "active" /\ c \notin misread => ~RespPending(c)

AwaitsRegister == accepting.pc = "recv" => status[accepting.client] = "new"

\* The threads read from registered clients.
ConnsInv == \A t \in Pollers : \A s \in polling[t].conns :
  s \in Clients /\ status[s] = "registered" /\ type[s] = Polled(t)

Sending == polling[FORDWARDER].pc = "send"
Subs == polling[FORDWARDER].subs
Sent == polling[FORDWARDER].data

SendInv == Sending =>
  /\ Sent = [kind |-> "data", from |-> Sent.from, n |-> NextOf(Sent.from) - 1]
  /\ Sent.from \in Publishers
  /\ id_counter > 0
  /\ Subs \subseteq Clients
  /\ \A s \in Subs : status[s] # "new"
  /\ \A s, r \in Subs : fd[s] = fd[r] => s = r

Pending(c) == Sending /\ \E s \in Subs : fd[s] \in Fds /\ owner[fd[s]] = c

\* c took, or will take, data for the response of a registration with another id.
Spoiled(c) ==
  /\ prog[c] \in {"connected", "registering"}
  /\ to_client[c] # <<>> /\ to_client[c][1].kind = "data" /\ id[c] # 0

\* A client that still reads has the last message that was forwarded, or the last
\* but one while that is pending; nothing is left out on the way.
Orderly(c) ==
  /\ WithoutGaps(Stream(c))
  /\ ~Gone(c) /\ Pending(c) => LastIs(Stream(c), Sent.from, Sent.n - 1)
  /\ ~Gone(c) /\ status[c] = "registered" =>
       \A p \in Publishers : topic[p] = topic[c] =>
         LastIs(Stream(c), p, IF Pending(c) /\ Sent.from = p THEN NextOf(p) - 2 ELSE NextOf(p) - 1)

ClientInv(c) ==
  ProgOf(c) /\ RequestOf(c) /\ ResponseOf(c) /\ (c \in Publishers \/ Spoiled(c) \/ Orderly(c))

Undisturbed == AllConfirmed /\ TopicsInOneSlot

OrderInv ==
  /\ TableInv /\ StreamType /\ NoStale /\ AwaitsRegister /\ ConnsInv /\ SendInv
  /\ \A c \in Clients : ClientInv(c)

\* Messages are numbered by integers.
LEMMA NextIsInt == ASSUME StreamType, NEW p \in Clients PROVE NextOf(p) \in Int
BY DEF StreamType, NextOf, Waiting

\* A client that a step does not touch, but for what is pending for it.
Untouched(d) ==
  /\ prog'[d] = prog[d] /\ status'[d] = status[d] /\ id'[d] = id[d]
  /\ to_broker'[d] = to_broker[d] /\ to_client'[d] = to_client[d]
  /\ received'[d] = received[d] /\ published'[d] = published[d] /\ my_id'[d] = my_id[d]
  /\ d \in misread' <=> d \in misread
  /\ RespPending(d)' <=> RespPending(d)

Same(d) ==
  /\ Untouched(d)
  /\ Pending(d)' <=> Pending(d)
  /\ Pending(d) => Sent' = Sent

\* What is said and known of a client does not change unless a step touches it.
LEMMA UntouchedKeep ==
  ASSUME NEW d \in Clients, ClientInv(d), Untouched(d), UNCHANGED <<type, topic>>,
         id_counter > 0 => id_counter' > 0
  PROVE  /\ ProgOf(d)' /\ RequestOf(d)' /\ ResponseOf(d)' /\ (Spoiled(d) => Spoiled(d)')
         /\ Stream(d)' = Stream(d) /\ (Gone(d)' <=> Gone(d))
<1> USE DEF Untouched
<1>1. ProgOf(d)'
  BY DEF ClientInv, ProgOf, Gone
<1>2. RequestOf(d)'
  BY DEF ClientInv, RequestOf, NextOf, Waiting
<1>3. ResponseOf(d)'
  BY DEF ClientInv, ResponseOf
<1>4. Spoiled(d) => Spoiled(d)'
  BY DEF Spoiled
<1>5. Stream(d)' = Stream(d)
  BY DEF Stream
<1>6. Gone(d)' <=> Gone(d)
  BY DEF Gone
<1> QED BY <1>1, <1>2, <1>3, <1>4, <1>5, <1>6

\* Nor does its stream, unless a message is published for it.
LEMMA OthersKeep ==
  ASSUME NEW d \in Clients, ClientInv(d), Same(d), UNCHANGED <<type, topic>>,
         id_counter > 0 => id_counter' > 0,
         \A p \in Publishers : NextOf(p)' = NextOf(p)
  PROVE  ClientInv(d)'
<1>1. Untouched(d)
  BY DEF Same
<1>2. /\ ProgOf(d)' /\ RequestOf(d)' /\ ResponseOf(d)' /\ (Spoiled(d) => Spoiled(d)')
      /\ Stream(d)' = Stream(d) /\ (Gone(d)' <=> Gone(d))
  BY <1>1, UntouchedKeep
<1>3. Orderly(d) => Orderly(d)'
  BY <1>2 DEF Orderly, Same, Untouched
<1> QED BY <1>2, <1>3 DEF ClientInv

\* The forwarder goes on with the same message, or with none.
LEMMA SendKept ==
  ASSUME SendInv, ~Sending' \/ polling'[FORDWARDER] = polling[FORDWARDER],
         id_counter > 0 => id_counter' > 0,
         \A p \in Publishers : NextOf(p)' = NextOf(p),
         \A s \in Clients : status[s] # "new" => status'[s] # "new" /\ fd'[s] = fd[s]
  PROVE  SendInv'
<1>1. CASE ~Sending'
  BY <1>1 DEF SendInv
<1>2. CASE Sending' /\ polling'[FORDWARDER] = polling[FORDWARDER]
  <2>1. Sending /\ Sent' = Sent /\ Subs' = Subs
    BY <1>2 DEF Sending, Sent, Subs
  <2>2. PICK p \in Publishers : p = Sent.from
    BY <2>1 DEF SendInv
  <2>3. Sent = [kind |-> "data", from |-> p, n |-> NextOf(p) - 1]
    BY <2>1, <2>2 DEF SendInv
  <2>4. Sent' = [kind |-> "data", from |-> p, n |-> NextOf(p)' - 1] /\ Sent'.from = p
    BY <2>1, <2>2, <2>3
  <2>5. Sent' = [kind |-> "data", from |-> Sent'.from, n |-> (NextOf(Sent.from) - 1)']
    BY <2>1, <2>2, <2>4
  <2>6. /\ id_counter' > 0 /\ Subs' \subseteq Clients
        /\ \A s \in Subs' : status'[s] # "new"
        /\ \A s, r \in Subs' : fd'[s] = fd'[r] => s = r
    BY <2>1 DEF SendInv
  <2> QED BY <2>1, <2>2, <2>5, <2>6 DEF SendInv
<1> QED BY <1>1, <1>2

\* What leaves the table alone.
LEMMA TableKept == ASSUME TableInv, NoStale, UNCHANGED vars PROVE TableInv' /\ NoStale'
<1>1. TableInv'
  BY DEF vars, TableInv, TypeOK, CountersCount, EntriesOf, RegisteredAreListed, get_all,
    IdsUnique, NamedIffUsed, Homes
<1>2. NoStale'
  BY DEF vars, NoStale
<1> QED BY <1>1, <1>2

\* A step of a client program.
LEMMA ClientStep ==
  ASSUME OrderInv, NEW c \in Clients, UNCHANGED <<vars, owner, fd, accepting, polling>>,
         StreamType', ClientInv(c)', NextOf(c)' = NextOf(c),
         \A d \in Clients \ {c} :
           /\ prog'[d] = prog[d] /\ to_broker'[d] = to_broker[d] /\ to_client'[d] = to_client[d]
           /\ received'[d] = received[d] /\ published'[d] = published[d] /\ my_id'[d] = my_id[d]
           /\ d \in misread' <=> d \in misread
  PROVE  OrderInv'
<1>1. UNCHANGED <<name, entries, counter, id_counter, status, type, topic, id>>
  BY DEF vars
<1>2. TableInv' /\ NoStale'
  BY TableKept DEF OrderInv
<1>3. AwaitsRegister' /\ ConnsInv'
  BY <1>1 DEF OrderInv, AwaitsRegister, ConnsInv
<1>4. \A p \in Publishers : NextOf(p)' = NextOf(p)
  BY BrokerAssumption DEF NextOf, Waiting
<1>5. SendInv'
  BY <1>1, <1>4, SendKept DEF OrderInv
<1>6. ASSUME NEW d \in Clients, d # c PROVE Same(d)
  BY <1>1, <1>6 DEF Same, Untouched, RespPending, Pending, Sending, Subs, Sent
<1>7. \A d \in Clients : ClientInv(d)'
  BY <1>1, <1>4, <1>6, OthersKeep DEF OrderInv
<1> QED BY <1>2, <1>3, <1>5, <1>7 DEF OrderInv

\* A client goes on reading what it is sent, or has gone.
LEMMA OrderlyKept ==
  ASSUME NEW c \in Clients, Orderly(c), NEW q, Stream(c)' = q,
         WithoutGaps(Stream(c)) => WithoutGaps(q),
         Gone(c) => Gone(c)',
         Gone(c)' \/ \A p, n : LastIs(Stream(c), p, n) => LastIs(q, p, n),
         UNCHANGED <<vars, owner, fd, polling>>,
         \A p \in Publishers : NextOf(p)' = NextOf(p)
  PROVE  Orderly(c)'
<1>1. UNCHANGED <<status, topic>> /\ (Pending(c)' <=> Pending(c)) /\ Sent' = Sent
  BY DEF vars, Pending, Sending, Subs, Sent
<1>2. CASE Gone(c)'
  BY <1>1, <1>2 DEF Orderly
<1>3. CASE ~Gone(c)'
  BY <1>1, <1>3 DEF Orderly
<1> QED BY <1>2, <1>3

\* The step of a client changes what it waits for only when it says something.
LEMMA NextKept ==
  ASSUME NEW p, to_broker'[p] = to_broker[p], published'[p] = published[p]
  PROVE  NextOf(p)' = NextOf(p)
BY DEF NextOf, Waiting

\* A client connects.
LEMMA SetupOrder ==
  ASSUME OrderInv, NEW c \in Clients, setup_client(c), prog \in [Clients -> Programs]
  PROVE  OrderInv'
<1>1. /\ prog[c] = "start" /\ prog' = [prog EXCEPT ![c] = "connected"]
      /\ UNCHANGED <<vars, owner, fd, to_broker, to_client, accepting, polling, my_id, published, received, misread>>
  BY DEF setup_client
<1>2. StreamType' /\ \A p \in Publishers : NextOf(p)' = NextOf(p)
  BY <1>1, NextKept DEF OrderInv, StreamType
<1>3. ProgOf(c)' /\ RequestOf(c)' /\ ResponseOf(c)'
  <2>1. UNCHANGED <<status, type, id, id_counter>> /\ prog'[c] = "connected"
    BY <1>1 DEF vars
  <2>2. ProgOf(c)'
    BY <1>1, <2>1 DEF OrderInv, ClientInv, ProgOf, Gone
  <2>3. RequestOf(c)'
    BY <1>1, <2>1, NextKept DEF OrderInv, ClientInv, RequestOf, NextOf, Waiting
  <2>4. ResponseOf(c)'
    BY <1>1, <2>1 DEF OrderInv, ClientInv, ResponseOf, RespPending
  <2> QED BY <2>2, <2>3, <2>4
<1>4. c \in Publishers \/ Orderly(c)'
  <2>1. CASE c \in Publishers
    BY <2>1
  <2>2. CASE c \notin Publishers
    <3>1. Orderly(c)
      BY <1>1, <2>2 DEF OrderInv, ClientInv, Spoiled
    <3>2. Stream(c)' = Stream(c) /\ ~Gone(c)
      BY <1>1 DEF Stream, Gone
    <3> QED BY <1>1, <1>2, <3>1, <3>2, OrderlyKept
  <2> QED BY <2>1, <2>2
<1>5. ClientInv(c)'
  BY <1>3, <1>4 DEF ClientInv
<1>6. NextOf(c)' = NextOf(c)
  BY <1>1, NextKept
<1> QED BY <1>1, <1>2, <1>5, <1>6, ClientStep

\* It asks to be registered: nothing else is on its way.
LEMMA SendRegisterOrder ==
  ASSUME OrderInv, NEW c \in Clients, send_config_register(c), prog \in [Clients -> Programs]
  PROVE  OrderInv'
<1> DEFINE m == [action |-> "REGISTER", id |-> 0]
<1>1. /\ prog[c] = "connected" /\ prog' = [prog EXCEPT ![c] = "registering"]
      /\ to_broker' = [to_broker EXCEPT ![c] = Append(@, m)]
      /\ UNCHANGED <<vars, owner, fd, to_client, accepting, polling, my_id, published, received, misread>>
  BY DEF send_config_register, Request
<1>2. status[c] = "new" /\ to_broker[c] = <<>> /\ published[c] = 0
  BY <1>1 DEF OrderInv, ClientInv, ProgOf
<1>3. to_broker'[c] = <<m>> /\ prog'[c] = "registering" /\ \A d \in Clients \ {c} : to_broker'[d] = to_broker[d] /\ prog'[d] = prog[d]
  BY <1>1, <1>2 DEF OrderInv, StreamType
<1>4. StreamType'
  <2>1. <<m>> \in Seq(RequestMsgs)
    BY DEF RequestMsgs
  <2>2. to_broker' = [to_broker EXCEPT ![c] = <<m>>]
    BY <1>1, <1>2
  <2> HIDE DEF m
  <2> QED BY <1>1, <2>1, <2>2 DEF OrderInv, StreamType
<1>5. NextOf(c)' = NextOf(c)
  BY <1>1, <1>2, <1>3 DEF NextOf, Waiting
<1>6. \A p \in Publishers : NextOf(p)' = NextOf(p)
  BY <1>1, <1>3, <1>5, NextKept, BrokerAssumption
<1>7. ProgOf(c)' /\ RequestOf(c)' /\ ResponseOf(c)'
  <2>1. UNCHANGED <<status, type, id, id_counter>>
    BY <1>1 DEF vars
  <2>2. ProgOf(c)'
    BY <1>1, <1>3, <2>1 DEF OrderInv, ClientInv, ProgOf, Gone
  <2>3. RequestOf(c)'
    BY <1>2, <1>3, <2>1 DEF RequestOf
  <2>4. ResponseOf(c)'
    BY <1>1, <1>3, <2>1 DEF OrderInv, ClientInv, ResponseOf, RespPending
  <2> QED BY <2>2, <2>3, <2>4
<1>8. c \in Publishers \/ Spoiled(c)' \/ Orderly(c)'
  <2>1. CASE Spoiled(c)
    BY <1>1, <1>3, <2>1 DEF Spoiled, vars
  <2>2. CASE Orderly(c)
    <3>1. Stream(c)' = Stream(c) /\ ~Gone(c)
      BY <1>1 DEF Stream, Gone
    <3> QED BY <1>1, <1>6, <2>2, <3>1, OrderlyKept
  <2> QED BY <2>1, <2>2 DEF OrderInv, ClientInv
<1>9. ClientInv(c)'
  BY <1>7, <1>8 DEF ClientInv
<1> QED BY <1>1, <1>3, <1>4, <1>5, <1>9, ClientStep

\* What is left to read has its responses where the whole had them.
LEMMA TailMessages ==
  ASSUME NEW s \in Seq(StreamMsgs), s # <<>>, NEW t, t = Tail(s)
  PROVE  /\ t \in Seq(StreamMsgs) /\ 1 \in DOMAIN s /\ s[1] = Head(s) /\ Head(s) \in StreamMsgs
         /\ \A i \in DOMAIN t : i + 1 \in DOMAIN s /\ i + 1 # 1 /\ t[i] = s[i + 1]
         /\ \A i, j \in DOMAIN t : i + 1 = j + 1 => i = j
  OBVIOUS

\* A stream of which nothing was read.
LEMMA NothingRead ==
  ASSUME NEW q \in Seq(StreamMsgs)
  PROVE  <<>> \o q = q /\ q \o <<>> = q
BY ConcatEmptySeq

\* It takes the first bytes that arrive for the response, and nothing is disturbed:
\* the id it goes on with is its own.
LEMMA ResponseOrder ==
  ASSUME OrderInv, NEW c \in Clients, recv_response_msg(c), prog \in [Clients -> Programs], Undisturbed'
  PROVE  OrderInv'
<1> DEFINE q == to_client[c]
           msg == Head(q)
<1>1. /\ prog[c] = "registering" /\ q # <<>>
      /\ UNCHANGED <<vars, owner, fd, to_broker, accepting, polling, published, received>>
  BY DEF recv_response_msg
<1>2. UNCHANGED <<status, type, topic, id, id_counter>>
  BY <1>1 DEF vars
<1>3. /\ q \in Seq(StreamMsgs) /\ 1 \in DOMAIN q /\ q[1] = msg /\ msg \in StreamMsgs
      /\ received[c] = <<>> /\ ~Gone(c) /\ my_id[c] = -1
      /\ ProgOf(c) /\ RequestOf(c) /\ ResponseOf(c)
      /\ (c \in Publishers \/ Spoiled(c) \/ Orderly(c))
  <2>1. q \in Seq(StreamMsgs)
    BY DEF OrderInv, StreamType
  <2>2. ProgOf(c) /\ RequestOf(c) /\ ResponseOf(c) /\ (c \in Publishers \/ Spoiled(c) \/ Orderly(c))
    BY DEF OrderInv, ClientInv
  <2> HIDE DEF q
  <2>3. 1 \in DOMAIN q /\ q[1] = msg /\ msg \in StreamMsgs
    BY <1>1, <2>1
  <2> QED BY <1>1, <2>1, <2>2, <2>3 DEF ProgOf, Gone
<1>4. \A p \in Publishers : NextOf(p)' = NextOf(p)
  BY <1>1, NextKept
<1>5. NextOf(c)' = NextOf(c)
  BY <1>1, NextKept
<1>6. Stream(c) = q
  BY <1>3, NothingRead DEF Stream
<1>7. my_id'[c] \in {-1, id[c]}
  BY <1>2 DEF Undisturbed, AllConfirmed
<1>8. prog'[c] \in {"active", "refused"} => RequestOf(c)'
  BY <1>1, <1>2, <1>3, <1>5 DEF RequestOf
<1>9. CASE msg.kind = "response" /\ prog' = [prog EXCEPT ![c] = "active"]
  <2>1. /\ msg.id >= 0 /\ to_client' = [to_client EXCEPT ![c] = Tail(@)]
        /\ my_id' = [my_id EXCEPT ![c] = msg.id] /\ UNCHANGED misread
    BY <1>1, <1>9 DEF recv_response_msg
  <2>2. msg.id \in Int /\ my_id'[c] = msg.id /\ to_client'[c] = Tail(q) /\ prog'[c] = "active"
    BY <1>3, <1>9, <2>1 DEF OrderInv, StreamType, StreamMsgs, DataMsgs, ResponseMsgs
  <2>3. id[c] = msg.id /\ id[c] # -1
    BY <1>7, <2>1, <2>2
  <2>4. status[c] # "new" /\ ~RespPending(c) /\ \A i \in DOMAIN q : IsResponse(q[i]) => i = 1
    BY <1>3, <1>9 DEF ResponseOf, IsResponse
  <2>5. status[c] = "registered"
    BY <1>1, <1>3, <2>3, <2>4 DEF ProgOf, OrderInv, TableInv, TypeOK
  <2>6. StreamType'
    BY <1>1, <1>3, <2>1, <2>2 DEF OrderInv, StreamType
  <2>7. ProgOf(c)'
    BY <1>1, <1>2, <1>3, <2>1, <2>2, <2>3, <2>5 DEF ProgOf, Gone
  <2>8. \A i \in DOMAIN to_client'[c] : ~IsResponse(to_client'[c][i])
    BY <1>1, <1>3, <2>2, <2>4, TailMessages
  <2>9. ResponseOf(c)'
    BY <1>1, <1>2, <2>4, <2>5, <2>8 DEF ResponseOf, RespPending
  <2>10. c \in Publishers \/ Orderly(c)'
    <3>1. CASE Orderly(c)
      <4>1. PICK t : t = Tail(q)
        OBVIOUS
      <4>2. t \in Seq(StreamMsgs) /\ (\A p, n : LastIs(q, p, n) => LastIs(t, p, n)) /\ (WithoutGaps(q) => WithoutGaps(t))
        BY <1>1, <1>3, <4>1, GapsTail
      <4>3. Stream(c)' = t
        BY <1>1, <1>3, <2>2, <4>1, <4>2, NothingRead DEF Stream
      <4> QED BY <1>1, <1>3, <1>4, <1>6, <3>1, <4>2, <4>3, OrderlyKept
    <3>2. ~Spoiled(c)
      BY <1>3, <1>9 DEF Spoiled
    <3> QED BY <1>3, <3>1, <3>2
  <2>11. ClientInv(c)'
    BY <1>8, <2>2, <2>7, <2>9, <2>10 DEF ClientInv
  <2> QED BY <1>1, <1>5, <1>9, <2>1, <2>6, <2>11, ClientStep
<1>10. CASE prog' = [prog EXCEPT ![c] = "refused"]
  <2>1. /\ msg.kind = "response" /\ to_client' = [to_client EXCEPT ![c] = <<>>] /\ UNCHANGED <<my_id, misread>>
        /\ prog'[c] = "refused"
    BY <1>1, <1>10 DEF recv_response_msg
  <2>2. StreamType' /\ to_client'[c] = <<>>
    BY <1>1, <2>1 DEF OrderInv, StreamType
  <2>3. ProgOf(c)'
    BY <1>1, <1>2, <1>3, <2>1, <2>2 DEF ProgOf, Gone
  <2>4. ResponseOf(c)'
    BY <1>1, <1>2, <1>3, <2>1, <2>2 DEF ResponseOf, RespPending
  <2>5. Gone(c)' /\ WithoutGaps(<<>>) /\ Stream(c)' = <<>>
    BY <1>1, <1>3, <2>1, <2>2, NothingRead DEF Gone, WithoutGaps, Stream
  <2>6. c \in Publishers \/ Orderly(c)'
    <3>1. CASE Orderly(c)
      BY <1>1, <1>3, <1>4, <2>5, <3>1, OrderlyKept
    <3>2. ~Spoiled(c)
      BY <1>3, <2>1 DEF Spoiled
    <3> QED BY <1>3, <3>1, <3>2
  <2>7. ClientInv(c)'
    BY <1>8, <2>1, <2>3, <2>4, <2>6 DEF ClientInv
  <2> QED BY <1>1, <1>5, <1>10, <2>1, <2>2, <2>7, ClientStep
<1>11. CASE msg.kind = "data"
  <2>1. /\ prog' = [prog EXCEPT ![c] = "active"] /\ my_id' = [my_id EXCEPT ![c] = 0]
        /\ misread' = misread \cup {c} /\ UNCHANGED to_client /\ prog'[c] = "active"
    BY <1>1, <1>11 DEF recv_response_msg
  <2>2. StreamType' /\ my_id'[c] = 0
    BY <1>1, <2>1 DEF OrderInv, StreamType
  <2>3. id[c] = 0 /\ status[c] = "registered"
    BY <1>1, <1>3, <1>7, <2>2 DEF ProgOf, OrderInv, TableInv, TypeOK
  <2>4. ProgOf(c)'
    BY <1>1, <1>2, <1>3, <2>1, <2>2, <2>3 DEF ProgOf, Gone
  <2>5. ResponseOf(c)'
    BY <1>1, <1>2, <1>3, <2>1 DEF ResponseOf, RespPending
  <2>6. c \in Publishers \/ Orderly(c)'
    <3>1. CASE Orderly(c)
      <4>1. Stream(c)' = Stream(c)
        BY <1>1, <2>1 DEF Stream
      <4> QED BY <1>1, <1>3, <1>4, <3>1, <4>1, OrderlyKept
    <3>2. ~Spoiled(c)
      BY <2>3 DEF Spoiled
    <3> QED BY <1>3, <3>1, <3>2
  <2>7. ClientInv(c)'
    BY <1>8, <2>1, <2>4, <2>5, <2>6 DEF ClientInv
  <2> QED BY <1>1, <1>5, <2>1, <2>2, <2>7, ClientStep
<1> QED BY <1>9, <1>10, <1>11 DEF recv_response_msg

\* One more request.
LEMMA RequestAppended ==
  ASSUME NEW q \in Seq(RequestMsgs), NEW m \in RequestMsgs, NEW u, u = Append(q, m)
  PROVE  /\ u \in Seq(RequestMsgs) /\ Len(u) = Len(q) + 1 /\ u # <<>> /\ u[Len(u)] = m
         /\ Len(q) \in Nat /\ (q # <<>> => Len(q) \in DOMAIN q)
         /\ \A i \in DOMAIN u : i # Len(u) => i \in DOMAIN q /\ i \in 1..Len(q) /\ u[i] = q[i]
OBVIOUS

\* A request to publish is no other.
LEMMA DataRequest ==
  ASSUME NEW m, NEW n, m = [action |-> "PUBLISH_DATA", id |-> n]
  PROVE  m.action = "PUBLISH_DATA"
OBVIOUS

\* A publisher says one message more.
LEMMA PublishOrder ==
  ASSUME OrderInv, NEW c \in Clients, publish(c), prog \in [Clients -> Programs]
  PROVE  OrderInv'
<1> DEFINE q == to_broker[c]
           m == [action |-> "PUBLISH_DATA", id |-> published[c]]
<1>1. /\ prog[c] = "active" /\ c \in Publishers
      /\ published' = [published EXCEPT ![c] = @ + 1] /\ to_broker' = [to_broker EXCEPT ![c] = Append(q, m)]
      /\ UNCHANGED <<vars, owner, fd, to_client, accepting, polling, prog, my_id, received, misread>>
  BY DEF publish, Request
<1>2. UNCHANGED <<status, type, topic, id, id_counter>>
  BY <1>1 DEF vars
<1>3. /\ q \in Seq(RequestMsgs) /\ m \in RequestMsgs /\ published[c] \in Nat
      /\ published'[c] = published[c] + 1 /\ to_broker'[c] = Append(q, m)
  BY <1>1 DEF OrderInv, StreamType, RequestMsgs
<1>4. /\ ProgOf(c) /\ RequestOf(c) /\ ResponseOf(c) /\ status[c] = "registered"
  BY <1>1 DEF OrderInv, ClientInv, ProgOf
<1>5. /\ to_broker'[c] \in Seq(RequestMsgs) /\ Len(to_broker'[c]) = Len(q) + 1 /\ to_broker'[c] # <<>>
      /\ to_broker'[c][Len(to_broker'[c])] = m /\ Len(q) \in Nat /\ (q # <<>> => Len(q) \in DOMAIN q)
      /\ \A i \in DOMAIN to_broker'[c] : i # Len(to_broker'[c]) => i \in DOMAIN q /\ i \in 1..Len(q) /\ to_broker'[c][i] = q[i]
  BY <1>3, RequestAppended
<1>6. q # <<>> => q[Len(q)].action = "PUBLISH_DATA"
  <2>1. \A i \in DOMAIN q : q[i] = [action |-> "PUBLISH_DATA", id |-> NextOf(c) + i - 1]
    BY <1>1, <1>4 DEF RequestOf
  <2>2. \A i \in DOMAIN q : q[i].action = "PUBLISH_DATA"
    BY <2>1, DataRequest
  <2> HIDE DEF q
  <2> QED BY <1>5, <2>2
<1>7. NextOf(c) = published[c] - Len(q)
  BY <1>6 DEF NextOf, Waiting
<1>8. NextOf(c)' = published'[c] - Len(to_broker'[c])
  BY <1>5 DEF NextOf, Waiting
<1>9. NextOf(c)' = NextOf(c)
  BY <1>3, <1>5, <1>7, <1>8
<1>10. StreamType'
  BY <1>1, <1>3, <1>5 DEF OrderInv, StreamType, RequestMsgs
<1>11. ProgOf(c)'
  BY <1>1, <1>2, <1>4 DEF ProgOf, Gone
<1>12. ResponseOf(c)'
  BY <1>1, <1>2, <1>4 DEF ResponseOf, RespPending
<1>13. RequestOf(c)'
  <2>1. ASSUME NEW i \in DOMAIN to_broker'[c]
        PROVE  to_broker'[c][i] = [action |-> "PUBLISH_DATA", id |-> NextOf(c) + i - 1]
    <3>1. CASE i # Len(to_broker'[c])
      BY <1>1, <1>4, <1>5, <2>1, <3>1 DEF RequestOf
    <3>2. CASE i = Len(to_broker'[c])
      <4>1. NextOf(c) + i - 1 = published[c]
        BY <1>3, <1>5, <1>7, <3>2
      <4> QED BY <1>5, <3>2, <4>1
    <3> QED BY <3>1, <3>2
  <2> QED BY <1>1, <1>2, <1>4, <1>9, <2>1 DEF RequestOf
<1>14. ClientInv(c)'
  BY <1>1, <1>11, <1>12, <1>13 DEF ClientInv
<1>15. \A d \in Clients \ {c} : to_broker'[d] = to_broker[d] /\ published'[d] = published[d]
  BY <1>1 DEF OrderInv, StreamType
<1> QED BY <1>1, <1>9, <1>10, <1>14, <1>15, ClientStep

\* A subscriber reads: the message stays in its stream.
LEMMA SubscribeOrder ==
  ASSUME OrderInv, NEW c \in Clients, subscribe(c), prog \in [Clients -> Programs]
  PROVE  OrderInv'
<1> DEFINE q == to_client[c]
           r == received[c]
<1>1. /\ prog[c] = "active" /\ c \notin Publishers /\ c \notin misread /\ q # <<>>
      /\ received' = [received EXCEPT ![c] = Append(r, Head(q))] /\ to_client' = [to_client EXCEPT ![c] = Tail(q)]
      /\ UNCHANGED <<vars, owner, fd, to_broker, accepting, polling, prog, my_id, published, misread>>
  BY DEF subscribe
<1>2. UNCHANGED <<status, type, topic, id, id_counter>>
  BY <1>1 DEF vars
<1>3. /\ ProgOf(c) /\ RequestOf(c) /\ ResponseOf(c) /\ Orderly(c) /\ ~Gone(c)
      /\ q \in Seq(StreamMsgs) /\ r \in Seq(DataMsgs)
      /\ received'[c] = Append(r, Head(q)) /\ to_client'[c] = Tail(q)
  BY <1>1 DEF OrderInv, StreamType, ClientInv, Spoiled, Gone
<1> HIDE DEF q, r
<1>4. 1 \in DOMAIN q /\ q[1] = Head(q) /\ Head(q) \in StreamMsgs /\ Tail(q) \in Seq(StreamMsgs)
  BY <1>1, <1>3
<1>5. \A i \in DOMAIN q : ~IsResponse(q[i])
  BY <1>1, <1>3 DEF ResponseOf, q
<1>6. Head(q) \in DataMsgs
  BY <1>4, <1>5 DEF IsResponse, StreamMsgs, ResponseMsgs, DataMsgs
<1>7. Append(r, Head(q)) \in Seq(DataMsgs) /\ r \in Seq(StreamMsgs)
  <2>1. DataMsgs \subseteq StreamMsgs
    BY DEF StreamMsgs
  <2> QED BY <1>3, <1>6, <2>1
<1>8. Stream(c)' = Stream(c)
  BY <1>1, <1>3, <1>7, ReadMoves DEF Stream, q, r
<1>9. StreamType'
  BY <1>1, <1>4, <1>7 DEF OrderInv, StreamType
<1>10. \A p : NextOf(p)' = NextOf(p)
  BY <1>1, NextKept
<1>11. Orderly(c)'
  <2>1. Gone(c) => Gone(c)'
    BY <1>3
  <2> QED BY <1>1, <1>3, <1>8, <1>10, <2>1, OrderlyKept
<1>12. ProgOf(c)'
  BY <1>1, <1>2, <1>3 DEF ProgOf, Gone
<1>13. RequestOf(c)'
  BY <1>1, <1>2, <1>3, <1>10 DEF RequestOf
<1>14. ResponseOf(c)'
  <2>1. \A i \in DOMAIN to_client'[c] : ~IsResponse(to_client'[c][i])
    BY <1>1, <1>3, <1>5, TailMessages
  <2> QED BY <1>1, <1>2, <1>3, <2>1 DEF ResponseOf, RespPending
<1>15. ClientInv(c)'
  BY <1>11, <1>12, <1>13, <1>14 DEF ClientInv
<1>16. \A d \in Clients \ {c} : to_client'[d] = to_client[d] /\ received'[d] = received[d]
  BY <1>1 DEF OrderInv, StreamType
<1> QED BY <1>1, <1>9, <1>10, <1>15, <1>16, ClientStep

\* A client out of step drops what it reads, and goes on to the response.
LEMMA MisreadOrder ==
  ASSUME OrderInv, NEW c \in Clients, subscribe_misread(c), prog \in [Clients -> Programs]
  PROVE  OrderInv'
<1> DEFINE q == to_client[c]
<1>1. /\ prog[c] = "active" /\ c \notin Publishers /\ c \in misread /\ Len(q) >= 2
      /\ UNCHANGED <<vars, owner, fd, to_broker, accepting, polling, prog, my_id, published, received>>
      /\ \/ q[2].kind = "response" /\ to_client' = [to_client EXCEPT ![c] = Tail(Tail(q))] /\ misread' = misread \ {c}
         \/ q[2].kind = "data" /\ to_client' = [to_client EXCEPT ![c] = Tail(q)] /\ UNCHANGED misread
  BY DEF subscribe_misread
<1>2. UNCHANGED <<status, type, topic, id, id_counter>>
  BY <1>1 DEF vars
<1>3. /\ ProgOf(c) /\ RequestOf(c) /\ ResponseOf(c) /\ Orderly(c) /\ ~Gone(c)
      /\ q \in Seq(StreamMsgs) /\ received[c] = <<>> /\ status[c] = "registered"
      /\ \A t : to_client' = [to_client EXCEPT ![c] = t] => to_client'[c] = t
  BY <1>1 DEF OrderInv, StreamType, ClientInv, Spoiled, Gone, ProgOf
<1>4. PICK t, u : t = Tail(q) /\ u = Tail(t)
  OBVIOUS
<1>5. \A p : NextOf(p)' = NextOf(p)
  BY <1>1, NextKept
<1>6. Stream(c) = q
  BY <1>3, NothingRead DEF Stream
<1>7. \A i, j \in DOMAIN q : IsResponse(q[i]) /\ IsResponse(q[j]) => i = j
  BY <1>3 DEF ResponseOf
<1>8. q # <<>> /\ t \in Seq(StreamMsgs) /\ t # <<>> /\ u \in Seq(StreamMsgs)
  <2> HIDE DEF q
  <2> QED BY <1>1, <1>3, <1>4
<1>9. /\ DOMAIN q = 1..Len(q) /\ 2 \in DOMAIN q
      /\ \A i \in DOMAIN t : i + 1 \in DOMAIN q /\ t[i] = q[i + 1] /\ i \in Nat
      /\ \A i \in DOMAIN u : i + 2 \in DOMAIN q /\ u[i] = q[i + 2] /\ i + 2 # 2 /\ i \in Nat
  <2> HIDE DEF q
  <2> QED BY <1>1, <1>3, <1>4
<1>10. /\ WithoutGaps(q) => WithoutGaps(t) /\ WithoutGaps(u)
       /\ \A p, n : LastIs(q, p, n) => LastIs(t, p, n) /\ LastIs(u, p, n)
  <2>1. (WithoutGaps(q) => WithoutGaps(t)) /\ \A p, n : LastIs(q, p, n) => LastIs(t, p, n)
    BY <1>3, <1>4, <1>8, GapsTail
  <2>2. (WithoutGaps(t) => WithoutGaps(u)) /\ \A p, n : LastIs(t, p, n) => LastIs(u, p, n)
    BY <1>4, <1>8, GapsTail
  <2> QED BY <2>1, <2>2
<1>11. ProgOf(c)'
  <2>1. c \in misread' => c \in misread
    BY <1>1
  <2> QED BY <1>1, <1>2, <1>3, <2>1 DEF ProgOf, Gone
<1>12. RequestOf(c)'
  BY <1>1, <1>2, <1>3, <1>5 DEF RequestOf
<1>13. CASE q[2].kind = "response" /\ to_client' = [to_client EXCEPT ![c] = u] /\ misread' = misread \ {c}
  <2>1. to_client'[c] = u /\ StreamType'
    BY <1>1, <1>3, <1>8, <1>13 DEF OrderInv, StreamType
  <2>2. ~RespPending(c)
    BY <1>3, <1>9, <1>13 DEF ResponseOf, IsResponse
  <2>3. \A i \in DOMAIN u : ~IsResponse(u[i])
    BY <1>7, <1>9, <1>13 DEF IsResponse
  <2>4. ResponseOf(c)'
    BY <1>1, <1>2, <1>3, <2>1, <2>2, <2>3 DEF ResponseOf, RespPending
  <2>5. Stream(c)' = u
    BY <1>1, <1>3, <1>8, <2>1, NothingRead DEF Stream
  <2>6. Orderly(c)'
    BY <1>1, <1>3, <1>5, <1>6, <1>10, <2>5, OrderlyKept
  <2>7. ClientInv(c)'
    BY <1>11, <1>12, <2>4, <2>6 DEF ClientInv
  <2>8. \A d \in Clients \ {c} : to_client'[d] = to_client[d] /\ (d \in misread' <=> d \in misread)
    BY <1>13 DEF OrderInv, StreamType
  <2> QED BY <1>1, <1>5, <2>1, <2>7, <2>8, ClientStep
<1>14. CASE to_client' = [to_client EXCEPT ![c] = t] /\ UNCHANGED misread
  <2>1. to_client'[c] = t /\ StreamType'
    BY <1>1, <1>3, <1>8, <1>14 DEF OrderInv, StreamType
  <2>2. \A i, j \in DOMAIN t : IsResponse(t[i]) /\ IsResponse(t[j]) => i = j
    BY <1>7, <1>9
  <2>3. \A i \in DOMAIN t : IsResponse(t[i]) => ~RespPending(c)
    BY <1>3, <1>9 DEF ResponseOf
  <2>4. ResponseOf(c)'
    BY <1>1, <1>2, <1>3, <1>14, <2>1, <2>2, <2>3 DEF ResponseOf, RespPending
  <2>5. Stream(c)' = t
    BY <1>1, <1>3, <1>8, <2>1, NothingRead DEF Stream
  <2>6. Orderly(c)'
    BY <1>1, <1>3, <1>5, <1>6, <1>10, <2>5, OrderlyKept
  <2>7. ClientInv(c)'
    BY <1>11, <1>12, <2>4, <2>6 DEF ClientInv
  <2>8. \A d \in Clients \ {c} : to_client'[d] = to_client[d] /\ (d \in misread' <=> d \in misread)
    BY <1>14 DEF OrderInv, StreamType
  <2> QED BY <1>1, <1>5, <2>1, <2>7, <2>8, ClientStep
<1> QED BY <1>1, <1>4, <1>13, <1>14

\* A client that has gone keeps what it has read.
LEMMA GoneIsOrderly ==
  ASSUME OrderInv, NEW c \in Clients, Gone(c)', received'[c] = received[c], to_client'[c] = <<>>,
         prog[c] \in {"connected", "registering", "active"},
         UNCHANGED <<vars, owner, fd, polling>>,
         \A p \in Publishers : NextOf(p)' = NextOf(p)
  PROVE  c \in Publishers \/ Orderly(c)'
<1> DEFINE r == received[c]
           q == to_client[c]
<1>1. r \in Seq(StreamMsgs) /\ q \in Seq(StreamMsgs)
  <2>1. DataMsgs \subseteq StreamMsgs
    BY DEF StreamMsgs
  <2> QED BY <2>1 DEF OrderInv, StreamType
<1>2. Stream(c)' = r
  BY <1>1, NothingRead DEF Stream
<1>3. CASE Orderly(c)
  <2>1. WithoutGaps(Stream(c)) => WithoutGaps(r)
    BY <1>1, GapsPrefix DEF Stream
  <2> QED BY <1>2, <1>3, <2>1, OrderlyKept
<1>4. CASE Spoiled(c)
  <2>1. r = <<>>
    BY <1>4 DEF Spoiled, OrderInv, ClientInv, ProgOf
  <2>2. WithoutGaps(r)
    BY <2>1 DEF WithoutGaps
  <2> HIDE DEF r
  <2> QED BY <1>2, <2>2 DEF Orderly
<1> QED BY <1>3, <1>4 DEF OrderInv, ClientInv

\* SIGINT: what it has not read is lost, with all that could come.
LEMMA UnregisterOrder ==
  ASSUME OrderInv, NEW c \in Clients, send_config_unregister(c), prog \in [Clients -> Programs]
  PROVE  OrderInv'
<1> DEFINE q == to_broker[c]
           m == [action |-> "UNREGISTER", id |-> id[c]]
<1>1. /\ prog[c] = "active" /\ ProgOf(c) /\ RequestOf(c) /\ ResponseOf(c)
      /\ status[c] = "registered" /\ my_id[c] = id[c]
  BY DEF send_config_unregister, OrderInv, ClientInv, ProgOf
<1>2. /\ prog' = [prog EXCEPT ![c] = "ended"] /\ to_broker' = [to_broker EXCEPT ![c] = Append(q, m)]
      /\ to_client' = [to_client EXCEPT ![c] = <<>>]
      /\ UNCHANGED <<vars, owner, fd, accepting, polling, my_id, published, received, misread>>
  BY <1>1 DEF send_config_unregister, Request, CloseSocket
<1>3. UNCHANGED <<status, type, topic, id, id_counter>>
  BY <1>2 DEF vars
<1>4. /\ q \in Seq(RequestMsgs) /\ m \in RequestMsgs /\ published[c] \in Nat
      /\ to_broker'[c] = Append(q, m) /\ to_client'[c] = <<>> /\ prog'[c] = "ended"
  BY <1>1, <1>2 DEF OrderInv, StreamType, RequestMsgs
<1>5. /\ to_broker'[c] \in Seq(RequestMsgs) /\ Len(to_broker'[c]) = Len(q) + 1 /\ to_broker'[c] # <<>>
      /\ to_broker'[c][Len(to_broker'[c])] = m /\ Len(q) \in Nat /\ (q # <<>> => Len(q) \in DOMAIN q)
      /\ \A i \in DOMAIN to_broker'[c] : i # Len(to_broker'[c]) => i \in DOMAIN q /\ i \in 1..Len(q) /\ to_broker'[c][i] = q[i]
  BY <1>4, RequestAppended
<1>6. \A i \in DOMAIN q : c \in Publishers /\ q[i] = [action |-> "PUBLISH_DATA", id |-> NextOf(c) + i - 1]
  BY <1>1 DEF RequestOf
<1>7. q # <<>> => q[Len(q)].action = "PUBLISH_DATA"
  <2>1. \A i \in DOMAIN q : q[i].action = "PUBLISH_DATA"
    BY <1>6, DataRequest
  <2> HIDE DEF q
  <2> QED BY <1>5, <2>1
<1>8. NextOf(c) = published[c] - Len(q)
  BY <1>7 DEF NextOf, Waiting
<1>9. NextOf(c)' = published'[c] - (Len(to_broker'[c]) - 1)
  BY <1>5 DEF NextOf, Waiting
<1>10. NextOf(c)' = NextOf(c)
  BY <1>2, <1>4, <1>5, <1>8, <1>9
<1>11. StreamType'
  <2>1. to_client' \in [Clients -> Seq(StreamMsgs)]
    BY <1>2 DEF OrderInv, StreamType
  <2>2. to_broker' \in [Clients -> Seq(RequestMsgs)]
    BY <1>2, <1>4, <1>5 DEF OrderInv, StreamType, RequestMsgs
  <2> QED BY <1>2, <2>1, <2>2 DEF OrderInv, StreamType
<1>12. \A d \in Clients \ {c} : /\ to_broker'[d] = to_broker[d] /\ to_client'[d] = to_client[d]
                                /\ prog'[d] = prog[d]
  BY <1>2 DEF OrderInv, StreamType
<1>13. \A p \in Publishers : NextOf(p)' = NextOf(p)
  BY <1>2, <1>10, <1>12, NextKept, BrokerAssumption
<1>14. Gone(c)'
  BY <1>4 DEF Gone
<1>15. ProgOf(c)'
  BY <1>1, <1>2, <1>3, <1>4 DEF ProgOf, Gone
<1>16. ResponseOf(c)'
  BY <1>1, <1>2, <1>3, <1>4 DEF ResponseOf, RespPending
<1>17. RequestOf(c)'
  <2>1. \A i \in DOMAIN to_broker'[c] : i # Len(to_broker'[c]) =>
          c \in Publishers /\ to_broker'[c][i] = [action |-> "PUBLISH_DATA", id |-> NextOf(c) + i - 1]
    BY <1>5, <1>6
  <2> QED BY <1>1, <1>3, <1>4, <1>5, <1>10, <2>1 DEF RequestOf
<1>18. c \in Publishers \/ Orderly(c)'
  BY <1>1, <1>2, <1>4, <1>13, <1>14, GoneIsOrderly
<1>19. ClientInv(c)'
  BY <1>15, <1>16, <1>17, <1>18 DEF ClientInv
<1> QED BY <1>2, <1>10, <1>11, <1>12, <1>19, ClientStep

\* So it is when it dies.
LEMMA DieOrder ==
  ASSUME OrderInv, NEW c \in Clients, Die(c), prog \in [Clients -> Programs]
  PROVE  OrderInv'
<1>1. /\ prog[c] \in {"connected", "registering", "active"} /\ ProgOf(c) /\ RequestOf(c) /\ ResponseOf(c)
      /\ prog' = [prog EXCEPT ![c] = "dead"] /\ to_client' = [to_client EXCEPT ![c] = <<>>]
      /\ UNCHANGED <<vars, owner, fd, to_broker, accepting, polling, my_id, published, received, misread>>
  BY DEF Die, CloseSocket, OrderInv, ClientInv
<1>2. UNCHANGED <<status, type, topic, id, id_counter>>
  BY <1>1 DEF vars
<1>3. prog'[c] = "dead" /\ to_client'[c] = <<>> /\ StreamType'
  BY <1>1 DEF OrderInv, StreamType
<1>4. \A p : NextOf(p)' = NextOf(p)
  BY <1>1, NextKept
<1>5. Gone(c)'
  BY <1>3 DEF Gone
<1>6. ProgOf(c)'
  BY <1>1, <1>2, <1>3 DEF ProgOf, Gone
<1>7. RequestOf(c)'
  BY <1>1, <1>2, <1>3, <1>4 DEF RequestOf
<1>8. ResponseOf(c)'
  BY <1>1, <1>2, <1>3 DEF ResponseOf, RespPending
<1>9. c \in Publishers \/ Orderly(c)'
  BY <1>1, <1>3, <1>4, <1>5, GoneIsOrderly
<1>10. ClientInv(c)'
  BY <1>6, <1>7, <1>8, <1>9 DEF ClientInv
<1>11. \A d \in Clients \ {c} : to_client'[d] = to_client[d] /\ prog'[d] = prog[d]
  BY <1>1 DEF OrderInv, StreamType
<1> QED BY <1>1, <1>3, <1>4, <1>10, <1>11, ClientStep

\* A client that is not registered yet takes what arrives for its response.
LEMMA NewClient ==
  ASSUME OrderInv, NEW c \in Clients, status[c] = "new", ~Gone(c), prog \in [Clients -> Programs]
  PROVE  /\ prog[c] \in {"start", "connected", "registering"}
         /\ received[c] = <<>>
         /\ to_client[c] # <<>> => to_client[c][1].kind = "data" /\ id_counter > 0
<1>1. ProgOf(c) /\ ResponseOf(c) /\ to_client[c] \in Seq(StreamMsgs)
  BY DEF OrderInv, ClientInv, StreamType
<1>2. prog[c] \in {"start", "connected", "registering"} /\ received[c] = <<>>
  BY <1>1 DEF ProgOf, Gone, Programs
<1>3. to_client[c] # <<>> => 1 \in DOMAIN to_client[c] /\ to_client[c][1] \in StreamMsgs
  BY <1>1
<1>4. \A i \in DOMAIN to_client[c] : ~IsResponse(to_client[c][i])
  BY <1>1 DEF ResponseOf
<1>5. to_client[c] # <<>> => to_client[c][1].kind = "data"
  BY <1>3, <1>4 DEF IsResponse, StreamMsgs, DataMsgs, ResponseMsgs
<1> QED BY <1>1, <1>2, <1>5 DEF ProgOf

\* Nothing was sent.
LEMMA EmptyStream ==
  ASSUME NEW c, received[c] = <<>>, to_client[c] = <<>>
  PROVE  /\ Stream(c) = <<>> /\ WithoutGaps(Stream(c))
         /\ \A p, n : LastIs(Stream(c), p, n)
<1>1. Stream(c) = <<>>
  BY NothingRead DEF Stream
<1> QED BY <1>1 DEF WithoutGaps, LastIs

\* accept: what the forwarder still sends to that descriptor is now for the new client,
\* which will take it for its response.
LEMMA AcceptOrder ==
  ASSUME DescriptorInv, OrderInv, accept_new_client
  PROVE  OrderInv'
<1>0. PICK c, f : c = Head(backlog) /\ f = Least(FreeFds)
  OBVIOUS
<1>1. /\ accepting.pc = "accept" /\ backlog # <<>> /\ FreeFds # {}
      /\ owner' = [owner EXCEPT ![f] = c] /\ fd' = [fd EXCEPT ![c] = f]
      /\ accepting' = [pc |-> "recv", client |-> c]
      /\ UNCHANGED <<vars, to_broker, to_client, polling, prog, my_id, published, received, misread>>
  BY <1>0 DEF accept_new_client, programs
<1>2. f \in Fds /\ owner[f] = NoClient
  BY <1>0, <1>1, LeastIsLeast, BrokerAssumption DEF FreeFds
<1>3. c \in Clients /\ c = backlog[1] /\ 1 \in DOMAIN backlog
  BY <1>0, <1>1 DEF DescriptorInv, DescriptorType
<1>4. status[c] = "new" /\ prog[c] # "start" /\ \A g \in Fds : owner[g] # c
  BY <1>3 DEF BacklogInv, Unknown, DescriptorInv
<1>5. /\ fd'[c] = f /\ owner'[f] = c /\ c # NoClient
      /\ \A d \in Clients : d # c => fd'[d] = fd[d]
      /\ \A g \in Fds : g # f => owner'[g] = owner[g]
  BY <1>1, <1>2, <1>3, BrokerAssumption DEF DescriptorInv, DescriptorType
<1>6. UNCHANGED <<status, type, topic, id, id_counter>>
  BY <1>1 DEF vars
<1>7. TableInv' /\ NoStale' /\ StreamType'
  BY <1>1, TableKept DEF OrderInv, StreamType
<1>8. AwaitsRegister' /\ ConnsInv'
  BY <1>1, <1>4, <1>6 DEF AwaitsRegister, ConnsInv, OrderInv
<1>9. \A p : NextOf(p)' = NextOf(p)
  BY <1>1, NextKept
<1>10. SendInv'
  BY <1>1, <1>4, <1>5, <1>6, <1>9, SendKept DEF OrderInv
<1>11. \A d \in Clients : Untouched(d)
  BY <1>1, <1>6 DEF Untouched, RespPending
<1>12. Sending' = Sending /\ Subs' = Subs /\ Sent' = Sent
  BY <1>1 DEF Sending, Subs, Sent
<1>13. \A s \in Subs : Sending => s \in Clients /\ s # c /\ fd'[s] = fd[s]
  BY <1>4, <1>5 DEF OrderInv, SendInv
<1>14. ASSUME NEW d \in Clients, d # c PROVE Pending(d)' <=> Pending(d)
  <2>1. d # NoClient
    BY BrokerAssumption
  <2> QED BY <1>2, <1>5, <1>12, <1>13, <1>14, <2>1 DEF Pending
<1>15. ASSUME NEW d \in Clients, d # c PROVE ClientInv(d)'
  <2>1. Same(d)
    BY <1>11, <1>12, <1>14, <1>15 DEF Same
  <2> QED BY <1>6, <1>9, <2>1, OthersKeep DEF OrderInv
<1>16. ClientInv(c)'
  <2>1. /\ ProgOf(c)' /\ RequestOf(c)' /\ ResponseOf(c)' /\ (Spoiled(c) => Spoiled(c)')
        /\ Stream(c)' = Stream(c) /\ (Gone(c)' <=> Gone(c))
    BY <1>3, <1>6, <1>11, UntouchedKeep DEF OrderInv
  <2>2. c \in Publishers \/ Spoiled(c) \/ Orderly(c)
    BY <1>3 DEF OrderInv, ClientInv
  <2>3. ASSUME Orderly(c) PROVE Spoiled(c) \/ Orderly(c)'
    <3>1. CASE Gone(c)
      BY <2>1, <2>3, <3>1 DEF Orderly
    <3>2. CASE ~Gone(c) /\ to_client[c] # <<>>
      <4>1. prog[c] \in {"connected", "registering"} /\ to_client[c][1].kind = "data"
        BY <1>3, <1>4, <3>2, NewClient DEF DescriptorInv, DescriptorType
      <4>2. id[c] # 0
        BY <1>3, <1>4 DEF OrderInv, ClientInv, ProgOf
      <4> QED BY <3>2, <4>1, <4>2 DEF Spoiled
    <3>3. CASE ~Gone(c) /\ to_client[c] = <<>>
      <4>1. received[c] = <<>>
        BY <1>3, <1>4, <3>3, NewClient DEF DescriptorInv, DescriptorType
      <4>2. WithoutGaps(Stream(c)) /\ \A p, n : LastIs(Stream(c), p, n)
        BY <3>3, <4>1, EmptyStream
      <4> QED BY <2>1, <4>2 DEF Orderly
    <3> QED BY <3>1, <3>2, <3>3
  <2> QED BY <2>1, <2>2, <2>3 DEF ClientInv
<1> QED BY <1>7, <1>8, <1>10, <1>15, <1>16 DEF OrderInv

\* What waits at an open descriptor, and whose it is.
LEMMA HasOwner ==
  ASSUME DescriptorInv, NEW f
  PROVE  /\ HasMessage(f) => f \in Fds /\ owner[f] # NoClient /\ to_broker[owner[f]] # <<>>
         /\ ~SendFails(f) => f \in Fds /\ owner[f] # NoClient
         /\ f \in Fds /\ owner[f] # NoClient => (PeerGone(f) <=> Gone(owner[f]))
BY DEF HasMessage, Unread, Closed, FreeFds, SendFails, PeerGone

\* After the only request there is none.
LEMMA OneRequest == \A q \in Seq(RequestMsgs) : Len(q) = 1 => Tail(q) = <<>>
<1>1. \A q \in Seq(RequestMsgs) : Len(q) = 1 => q # <<>> /\ Tail(q) \in Seq(RequestMsgs) /\ Len(Tail(q)) = 0
  OBVIOUS
<1> QED BY <1>1, EmptySeq

\* The only request of a client that is not registered is its registration.
LEMMA FirstRequest ==
  ASSUME OrderInv, NEW c \in Clients, status[c] = "new", to_broker[c] # <<>>
  PROVE  /\ Head(to_broker[c]).action = "REGISTER" /\ Tail(to_broker[c]) = <<>>
         /\ Len(to_broker[c]) = 1 /\ to_broker[c][1].action = "REGISTER"
<1>1. to_broker[c] \in Seq(RequestMsgs)
  BY DEF OrderInv, StreamType, RequestMsgs
<1>2. 1 \in DOMAIN to_broker[c] /\ Head(to_broker[c]) = to_broker[c][1]
  BY <1>1
<1>3. to_broker[c][1].action = "REGISTER" /\ 1 = Len(to_broker[c])
  BY <1>2 DEF OrderInv, ClientInv, RequestOf
<1> QED BY <1>1, <1>2, <1>3, OneRequest

\* A step of a thread that gives and takes no descriptor and ends in another
\* place or with the same message to send.
LEMMA PendingKept ==
  ASSUME UNCHANGED <<owner, fd>>,
         (~Sending /\ ~Sending') \/ polling'[FORDWARDER] = polling[FORDWARDER]
  PROVE  /\ \A d : (Pending(d)' <=> Pending(d)) /\ (Pending(d) => Sent' = Sent)
         /\ ~Sending' \/ polling'[FORDWARDER] = polling[FORDWARDER]
<1>1. CASE polling'[FORDWARDER] = polling[FORDWARDER]
  BY <1>1 DEF Pending, Sending, Subs, Sent
<1>2. CASE ~Sending /\ ~Sending'
  BY <1>2 DEF Pending
<1> QED BY <1>1, <1>2

\* add_client: the subscribers that register now were sent nothing of the topic,
\* or are spoiled.
LEMMA RegisterOrder ==
  ASSUME DescriptorInv, OrderInv, recv_register_msg
  PROVE  OrderInv'
<1>1. PICK c : c = accepting.client
  OBVIOUS
<1>2. /\ accepting.pc = "recv" /\ HasMessage(fd[c]) /\ (add_client(c) \/ add_client_full(c))
      /\ to_broker' = [to_broker EXCEPT ![c] = Tail(@)]
      /\ accepting' = [accepting EXCEPT !.pc = "respond"]
      /\ UNCHANGED <<owner, fd, to_client, polling, prog, my_id, published, received, misread>>
  BY <1>1 DEF recv_register_msg, programs
<1>3. c \in Clients /\ owner[fd[c]] = c /\ to_broker[c] # <<>> /\ accepting'.pc = "respond" /\ accepting'.client = c
  BY <1>1, <1>2, HasOwner DEF DescriptorInv, AcceptInv, DescriptorType
<1>4. status[c] = "new"
  BY <1>1, <1>2 DEF OrderInv, AwaitsRegister
<1>5. Tail(to_broker[c]) = <<>> /\ Len(to_broker[c]) = 1 /\ to_broker[c][1].action = "REGISTER"
  BY <1>3, <1>4, FirstRequest
<1>6. to_broker'[c] = <<>> /\ \A d \in Clients : d # c => to_broker'[d] = to_broker[d]
  BY <1>2, <1>3, <1>5 DEF OrderInv, StreamType
<1>7. /\ UNCHANGED <<type, topic>> /\ status'[c] \in {"registered", "refused"}
      /\ \A d \in Clients : d # c => status'[d] = status[d] /\ id'[d] = id[d]
      /\ id_counter \in Nat
  BY <1>2, <1>3 DEF add_client, add_client_full, OrderInv, TableInv, TypeOK
<1>8. TableInv'
  BY <1>2, <1>3, AddPreserves, FullPreserves DEF OrderInv
<1>9. NoStale' /\ (id_counter > 0 => id_counter' > 0)
  <2>1. CASE add_client(c)
    <3>1. PICK e0 : e0.socket = c /\ entries' = entries \cup {e0}
      BY <2>1 DEF add_client
    <3>2. \A e \in entries : e.socket \in Clients
      BY DEF OrderInv, TableInv, TypeOK, Entries
    <3>3. status'[c] = "registered" /\ id_counter' = id_counter + 1
      BY <1>3, <2>1 DEF add_client, OrderInv, TableInv, TypeOK
    <3> QED BY <1>7, <3>1, <3>2, <3>3 DEF OrderInv, NoStale
  <2>2. CASE add_client_full(c)
    <3>1. \A e \in entries : e.socket \in Clients
      BY DEF OrderInv, TableInv, TypeOK, Entries
    <3>2. UNCHANGED <<entries, id_counter>>
      BY <2>2 DEF add_client_full, table
    <3> QED BY <1>4, <1>7, <3>1, <3>2 DEF OrderInv, NoStale
  <2> QED BY <1>2, <2>1, <2>2
<1>10. StreamType'
  <2>1. to_broker' = [to_broker EXCEPT ![c] = <<>>]
    BY <1>2, <1>5
  <2>2. to_broker \in [Clients -> Seq(RequestMsgs)] /\ <<>> \in Seq(RequestMsgs)
    BY DEF OrderInv, StreamType, RequestMsgs
  <2>3. to_broker' \in [Clients -> Seq(RequestMsgs)]
    BY <2>1, <2>2
  <2> QED BY <1>2, <2>3 DEF OrderInv, StreamType, RequestMsgs
<1>11. AwaitsRegister' /\ ConnsInv'
  BY <1>2, <1>3, <1>4, <1>7 DEF AwaitsRegister, ConnsInv, OrderInv
<1>12. NextOf(c)' = NextOf(c)
  BY <1>2, <1>3, <1>5, <1>6 DEF NextOf, Waiting
<1>13. \A p \in Publishers : NextOf(p)' = NextOf(p)
  BY <1>2, <1>6, <1>12, NextKept, BrokerAssumption
<1>14. SendInv'
  BY <1>2, <1>7, <1>9, <1>13, SendKept DEF OrderInv
<1>15. \A d : (Pending(d)' <=> Pending(d)) /\ (Pending(d) => Sent' = Sent)
  BY <1>2, PendingKept
<1>16. ASSUME NEW d \in Clients, d # c PROVE ClientInv(d)'
  <2>1. Same(d)
    BY <1>1, <1>2, <1>3, <1>6, <1>7, <1>15, <1>16 DEF Same, Untouched, RespPending
  <2> QED BY <1>7, <1>9, <1>13, <2>1, OthersKeep DEF OrderInv
<1>17. ProgOf(c) /\ ResponseOf(c) /\ (c \in Publishers \/ Spoiled(c) \/ Orderly(c))
  BY <1>3 DEF OrderInv, ClientInv
<1>18. \/ add_client(c) /\ id'[c] = id_counter /\ status'[c] = "registered"
       \/ id'[c] = -1 /\ status'[c] = "refused"
  <2>1. id[c] = -1 /\ id \in [Clients -> Nat \cup {-1}] /\ status \in [Clients -> Statuses]
    BY <1>4, <1>17 DEF ProgOf, OrderInv, TableInv, TypeOK, Statuses
  <2>2. CASE add_client(c)
    <3>1. id' = [id EXCEPT ![c] = id_counter] /\ status' = [status EXCEPT ![c] = "registered"]
      BY <2>2 DEF add_client, get_new_id
    <3>2. id'[c] = id_counter /\ status'[c] = "registered"
      BY <1>3, <2>1, <3>1
    <3> QED BY <2>2, <3>2
  <2>3. CASE add_client_full(c)
    BY <1>3, <2>1, <2>3 DEF add_client_full
  <2> QED BY <1>2, <2>2, <2>3
<1>19. ProgOf(c)'
  BY <1>2, <1>3, <1>4, <1>6, <1>7, <1>17, <1>18 DEF ProgOf, Gone
<1>20. RequestOf(c)'
  BY <1>2, <1>4, <1>6, <1>7, <1>17 DEF RequestOf, ProgOf
<1>21. ResponseOf(c)'
  BY <1>2, <1>3, <1>4, <1>7, <1>17 DEF ResponseOf, RespPending, ProgOf
<1>22. Stream(c)' = Stream(c) /\ (Gone(c)' <=> Gone(c))
  BY <1>2 DEF Stream, Gone
<1>23. c \in Publishers \/ Spoiled(c)' \/ Orderly(c)'
  <2>1. CASE Gone(c)
    BY <1>17, <1>22, <2>1 DEF Orderly, Spoiled, Gone
  <2>2. CASE ~Gone(c) /\ to_client[c] # <<>>
    <3>1. prog[c] \in {"connected", "registering"} /\ to_client[c][1].kind = "data" /\ id_counter > 0
      <4>1. prog[c] # "start"
        BY <1>3, <1>17 DEF ProgOf
      <4> QED BY <1>3, <1>4, <2>2, <4>1, NewClient DEF DescriptorInv, DescriptorType
    <3>2. id'[c] # 0
      BY <1>7, <1>18, <3>1
    <3> QED BY <1>2, <2>2, <3>1, <3>2 DEF Spoiled
  <2>3. CASE ~Gone(c) /\ to_client[c] = <<>>
    <3>1. received[c] = <<>>
      BY <1>3, <1>4, <2>3, NewClient DEF DescriptorInv, DescriptorType
    <3>2. WithoutGaps(Stream(c)) /\ \A p, n : LastIs(Stream(c), p, n)
      BY <2>3, <3>1, EmptyStream
    <3> QED BY <1>22, <3>2 DEF Orderly
  <2> QED BY <2>1, <2>2, <2>3
<1>24. ClientInv(c)'
  BY <1>19, <1>20, <1>21, <1>23 DEF ClientInv
<1> QED BY <1>8, <1>9, <1>10, <1>11, <1>14, <1>16, <1>24 DEF OrderInv

\* Nothing else ever comes first.
LEMMA RegisterIsFirst == DescriptorInv /\ OrderInv => ~register_invalid_action
<1> SUFFICES ASSUME DescriptorInv, OrderInv, register_invalid_action PROVE FALSE
  OBVIOUS
<1>1. PICK c : c = accepting.client
  OBVIOUS
<1>2. accepting.pc = "recv" /\ HasMessage(fd[c]) /\ Message(fd[c]).action # "REGISTER"
  BY <1>1 DEF register_invalid_action
<1>3. c \in Clients /\ owner[fd[c]] = c /\ to_broker[c] # <<>>
  BY <1>1, <1>2, HasOwner DEF DescriptorInv, AcceptInv
<1>4. status[c] = "new"
  BY <1>1, <1>2 DEF OrderInv, AwaitsRegister
<1> QED BY <1>2, <1>3, <1>4, FirstRequest DEF Message

\* One more message arrives at a client that reads.
LEMMA StreamSent ==
  ASSUME OrderInv, NEW c \in Clients, NEW msg \in StreamMsgs, to_client'[c] = Append(to_client[c], msg),
         received'[c] = received[c]
  PROVE  /\ Stream(c) \in Seq(StreamMsgs) /\ Stream(c)' = Append(Stream(c), msg)
         /\ to_client[c] \in Seq(StreamMsgs) /\ to_client'[c] \in Seq(StreamMsgs)
         /\ Len(to_client[c]) \in Nat
         /\ \A i \in DOMAIN to_client'[c] :
              \/ i \in DOMAIN to_client[c] /\ to_client'[c][i] = to_client[c][i]
              \/ i = Len(to_client[c]) + 1 /\ to_client'[c][i] = msg
         /\ Spoiled(c) /\ prog'[c] = prog[c] /\ id'[c] = id[c] => Spoiled(c)'
<1> DEFINE q == to_client[c]
           r == received[c]
<1>1. q \in Seq(StreamMsgs) /\ r \in Seq(StreamMsgs)
  <2>1. DataMsgs \subseteq StreamMsgs
    BY DEF StreamMsgs
  <2> QED BY <2>1 DEF OrderInv, StreamType
<1>2. Stream(c) = r \o q /\ Stream(c)' = r \o Append(q, msg)
  BY DEF Stream
<1>3. to_client'[c] = Append(q, msg)
  OBVIOUS
<1>4. q = to_client[c]
  OBVIOUS
<1> HIDE DEF q, r
<1>5. r \o q \in Seq(StreamMsgs) /\ r \o Append(q, msg) = Append(r \o q, msg)
  BY <1>1, SendAppends, ConcatProperties
<1>6. /\ Append(q, msg) \in Seq(StreamMsgs) /\ Len(q) \in Nat
      /\ \A i \in DOMAIN Append(q, msg) : \/ i \in DOMAIN q /\ Append(q, msg)[i] = q[i]
                                          \/ i = Len(q) + 1 /\ Append(q, msg)[i] = msg
      /\ q # <<>> => Append(q, msg) # <<>> /\ Append(q, msg)[1] = q[1]
  BY <1>1
<1>7. Spoiled(c) /\ prog'[c] = prog[c] /\ id'[c] = id[c] => Spoiled(c)'
  BY <1>3, <1>4, <1>6 DEF Spoiled
<1> QED BY <1>1, <1>2, <1>3, <1>4, <1>5, <1>6, <1>7

\* The response follows what a client was sent before.
LEMMA RespondOrder ==
  ASSUME DescriptorInv, OrderInv, send_response_msg
  PROVE  OrderInv'
<1> DEFINE msg == [kind |-> "response", id |-> id[accepting.client]]
<1>1. PICK c : c = accepting.client
  OBVIOUS
<1>2. PICK m : m = [kind |-> "response", id |-> id[c]]
  OBVIOUS
<1>3. /\ accepting.pc = "respond" /\ simple_send(fd[c], m)
      /\ accepting' = [pc |-> "accept", client |-> NoClient]
      /\ UNCHANGED <<vars, owner, fd, to_broker, polling, prog, my_id, published, received, misread>>
  BY <1>1, <1>2 DEF send_response_msg, programs
<1>4. c \in Clients /\ owner[fd[c]] = c /\ (PeerGone(fd[c]) <=> Gone(c))
  BY <1>1, <1>3, HasOwner DEF simple_send, DescriptorInv, AcceptInv
<1>5. UNCHANGED <<status, type, topic, id, id_counter>>
  BY <1>3 DEF vars
<1>6. ProgOf(c) /\ RequestOf(c) /\ ResponseOf(c) /\ (c \in Publishers \/ Spoiled(c) \/ Orderly(c))
  BY <1>4 DEF OrderInv, ClientInv
<1>7. \A p : NextOf(p)' = NextOf(p)
  BY <1>3, NextKept
<1>8. SendInv'
  BY <1>3, <1>5, <1>7, SendKept DEF OrderInv
<1>9. TableInv' /\ NoStale'
  BY <1>3, TableKept DEF OrderInv
<1>10. AwaitsRegister' /\ ConnsInv'
  BY <1>3, <1>5 DEF AwaitsRegister, ConnsInv, OrderInv
<1>11. \A d : (Pending(d)' <=> Pending(d)) /\ (Pending(d) => Sent' = Sent)
  BY <1>3, PendingKept
<1>12. RespPending(c) /\ ~RespPending(c)' /\ \A d \in Clients : d # c => ~RespPending(d) /\ ~RespPending(d)'
  BY <1>1, <1>3, BrokerAssumption DEF RespPending
<1>13. ASSUME NEW d \in Clients, d # c, to_client'[d] = to_client[d] PROVE ClientInv(d)'
  <2>1. Same(d)
    BY <1>3, <1>5, <1>11, <1>12, <1>13 DEF Same, Untouched
  <2> QED BY <1>5, <1>7, <2>1, OthersKeep DEF OrderInv
<1>14. RequestOf(c)'
  BY <1>3, <1>5, <1>7, <1>6 DEF RequestOf
<1>15. Gone(c)' <=> Gone(c)
  BY <1>3 DEF Gone
<1>16. CASE Gone(c)
  <2>1. UNCHANGED to_client
    BY <1>3, <1>4, <1>16 DEF simple_send
  <2>2. StreamType'
    BY <1>3, <2>1 DEF OrderInv, StreamType
  <2>3. ProgOf(c)'
    BY <1>3, <1>5, <1>6, <2>1 DEF ProgOf, Gone
  <2>4. ResponseOf(c)'
    BY <1>3, <1>5, <1>6, <1>12, <2>1 DEF ResponseOf
  <2>5. c \in Publishers \/ Orderly(c)'
    <3>1. Stream(c)' = Stream(c)
      BY <1>3, <2>1 DEF Stream
    <3>2. ~Spoiled(c)
      BY <1>16 DEF Gone, Spoiled
    <3> QED BY <1>6, <1>15, <1>16, <3>1, <3>2 DEF Orderly
  <2>6. ClientInv(c)'
    BY <1>14, <2>3, <2>4, <2>5 DEF ClientInv
  <2> QED BY <1>8, <1>9, <1>10, <1>13, <2>1, <2>2, <2>6 DEF OrderInv
<1>17. CASE ~Gone(c)
  <2>1. to_client' = [to_client EXCEPT ![c] = Append(@, m)]
    BY <1>3, <1>4, <1>17 DEF simple_send
  <2>2. m \in StreamMsgs /\ IsResponse(m) /\ \A p : ~IsFrom(m, p)
    <3>1. id[c] \in Int
      BY <1>4 DEF OrderInv, TableInv, TypeOK
    <3> QED BY <1>2, <3>1 DEF StreamMsgs, ResponseMsgs, IsResponse, IsFrom
  <2>3. to_client'[c] = Append(to_client[c], m) /\ \A d \in Clients : d # c => to_client'[d] = to_client[d]
    BY <1>4, <2>1 DEF OrderInv, StreamType
  <2>4. /\ Stream(c) \in Seq(StreamMsgs) /\ Stream(c)' = Append(Stream(c), m)
        /\ to_client[c] \in Seq(StreamMsgs) /\ to_client'[c] \in Seq(StreamMsgs) /\ Len(to_client[c]) \in Nat
        /\ \A i \in DOMAIN to_client'[c] :
             \/ i \in DOMAIN to_client[c] /\ to_client'[c][i] = to_client[c][i]
             \/ i = Len(to_client[c]) + 1 /\ to_client'[c][i] = m
        /\ Spoiled(c) /\ prog'[c] = prog[c] /\ id'[c] = id[c] => Spoiled(c)'
    BY <1>3, <1>4, <2>2, <2>3, StreamSent
  <2>5. StreamType'
    BY <1>3, <1>4, <2>1, <2>3, <2>4 DEF OrderInv, StreamType
  <2>6. status[c] # "new" /\ \A i \in DOMAIN to_client[c] : ~IsResponse(to_client[c][i])
    BY <1>6, <1>12 DEF ResponseOf
  <2>7. prog[c] = "active" => c \in misread
    BY <1>6, <1>12 DEF ResponseOf
  <2>8. ProgOf(c)'
    BY <1>3, <1>5, <1>6, <1>15, <1>17, <2>6 DEF ProgOf
  <2>9. \A i \in DOMAIN to_client'[c] : IsResponse(to_client'[c][i]) => i = Len(to_client[c]) + 1
    BY <2>4, <2>6
  <2>10. ResponseOf(c)'
    BY <1>3, <1>5, <1>12, <2>6, <2>7, <2>9 DEF ResponseOf
  <2>11. ASSUME Orderly(c) PROVE Orderly(c)'
    <3>1. PICK t : t = Append(Stream(c), m)
      OBVIOUS
    <3>2. /\ \A p, n : LastIs(Stream(c), p, n) => LastIs(t, p, n)
          /\ WithoutGaps(Stream(c)) => WithoutGaps(t)
      BY <2>2, <2>4, <3>1, GapsAppend
    <3>3. Stream(c)' = t
      BY <2>4, <3>1
    <3> QED BY <1>3, <1>4, <1>7, <1>17, <2>11, <3>2, <3>3, OrderlyKept
  <2>12. ClientInv(c)'
    BY <1>3, <1>5, <1>6, <1>14, <2>4, <2>8, <2>10, <2>11 DEF ClientInv
  <2> QED BY <1>8, <1>9, <1>10, <1>13, <2>3, <2>5, <2>12 DEF OrderInv
<1> QED BY <1>16, <1>17

\* A step of a thread that only moves in its own loop.
LEMMA MoveOrder ==
  ASSUME OrderInv,
         UNCHANGED <<vars, owner, fd, to_broker, to_client, accepting, prog, my_id, published, received, misread>>,
         (~Sending /\ ~Sending') \/ polling'[FORDWARDER] = polling[FORDWARDER],
         ConnsInv'
  PROVE  OrderInv'
<1>1. UNCHANGED <<status, type, topic, id, id_counter>>
  BY DEF vars
<1>2. TableInv' /\ NoStale' /\ StreamType'
  BY TableKept DEF OrderInv, StreamType
<1>3. AwaitsRegister'
  BY <1>1 DEF OrderInv, AwaitsRegister
<1>4. \A p : NextOf(p)' = NextOf(p)
  BY NextKept
<1>5. /\ \A d : (Pending(d)' <=> Pending(d)) /\ (Pending(d) => Sent' = Sent)
      /\ ~Sending' \/ polling'[FORDWARDER] = polling[FORDWARDER]
  BY PendingKept
<1>6. SendInv'
  BY <1>1, <1>4, <1>5, SendKept DEF OrderInv
<1>7. ASSUME NEW d \in Clients PROVE ClientInv(d)'
  <2>1. Same(d)
    BY <1>1, <1>5 DEF Same, Untouched, RespPending
  <2> QED BY <1>1, <1>4, <2>1, OthersKeep DEF OrderInv
<1> QED BY <1>2, <1>3, <1>6, <1>7 DEF OrderInv

\* The broker's end, and no step at all.
LEMMA EndOrder ==
  ASSUME OrderInv,
         UNCHANGED <<vars, owner, fd, to_broker, to_client, accepting, polling, prog, my_id, published, received, misread>>
  PROVE  OrderInv'
<1>1. ConnsInv'
  BY DEF OrderInv, ConnsInv, vars
<1> QED BY <1>1, MoveOrder

\* get_all_clients and poll.
LEMMA GetAllOrder ==
  ASSUME DescriptorInv, OrderInv, NEW t \in Pollers, get_all_clients(t) \/ poll(t)
  PROVE  OrderInv'
<1>1. UNCHANGED <<vars, owner, fd, to_broker, to_client, accepting, prog, my_id, published, received, misread>>
  BY DEF get_all_clients, poll, sockets, programs
<1>2. /\ polling[t].pc # "send"
      /\ \E r : /\ Goto(t, r) /\ r.pc # "send"
                /\ \A s \in r.conns : s \in Clients /\ status[s] = "registered" /\ type[s] = Polled(t)
  <2>1. CASE get_all_clients(t)
    <3> DEFINE r == [Rest EXCEPT !.pc = "poll", !.conns = get_all(Polled(t))]
    <3>1. polling[t].pc = "list" /\ Goto(t, r)
      BY <2>1 DEF get_all_clients
    <3>2. r.pc = "poll" /\ r.conns = get_all(Polled(t))
      BY DEF Rest
    <3>3. \A s \in get_all(Polled(t)) : s \in Clients /\ status[s] = "registered" /\ type[s] = Polled(t)
      BY DEF get_all, OrderInv, NoStale, TableInv, Homes, TypeOK, Entries
    <3> HIDE DEF r
    <3> QED BY <3>1, <3>2, <3>3
  <2>2. CASE poll(t)
    <3> DEFINE k == {s \in polling[t].conns : Readable(fd[s])}
               q == [polling[t] EXCEPT !.conns = k]
               r == [Rest EXCEPT !.pc = IF q.conns = {} THEN "list" ELSE "recv", !.conns = q.conns]
    <3>1. polling[t].pc = "poll" /\ Goto(t, r)
      BY <2>2 DEF poll, Continue
    <3>2. q.conns \subseteq polling[t].conns
      <4>1. DOMAIN polling[t] = Fields
        BY DEF DescriptorInv, DescriptorType
      <4> QED BY <4>1 DEF Fields
    <3> HIDE DEF q
    <3>3. r.pc # "send" /\ r.conns = q.conns
      BY DEF Rest
    <3> HIDE DEF r
    <3> QED BY <3>1, <3>2, <3>3 DEF OrderInv, ConnsInv
  <2> QED BY <2>1, <2>2
<1>3. PICK r : /\ Goto(t, r) /\ r.pc # "send"
               /\ \A s \in r.conns : s \in Clients /\ status[s] = "registered" /\ type[s] = Polled(t)
  BY <1>2
<1>4. polling'[t] = r /\ \A u \in Pollers : u # t => polling'[u] = polling[u]
  BY <1>3 DEF Goto, DescriptorInv, DescriptorType
<1>5. ConnsInv'
  BY <1>1, <1>3, <1>4 DEF ConnsInv, OrderInv, vars
<1>6. (~Sending /\ ~Sending') \/ polling'[FORDWARDER] = polling[FORDWARDER]
  BY <1>2, <1>3, <1>4 DEF Sending, Pollers
<1> QED BY <1>1, <1>5, <1>6, MoveOrder

\* A thread reads from clients that are registered: their descriptors are theirs.
LEMMA Reading ==
  ASSUME DescriptorInv, OrderInv, NEW t \in Pollers, NEW s \in Clients, Ready(t, s)
  PROVE  /\ polling[t].pc = "recv" /\ status[s] = "registered" /\ fd[s] \in Fds /\ owner[fd[s]] = s
         /\ (t = FORDWARDER <=> s \in Publishers)
         /\ HasMessage(fd[s]) <=> to_broker[s] # <<>>
         /\ Message(fd[s]) = Head(to_broker[s])
         /\ \A action : Receives(t, fd[s], action) <=> HasMessage(fd[s]) /\ Head(to_broker[s]).action = action
<1>1. polling[t].pc = "recv" /\ status[s] = "registered" /\ type[s] = Polled(t)
  BY DEF Ready, OrderInv, ConnsInv
<1>2. fd[s] \in Fds /\ owner[fd[s]] = s /\ s # NoClient
  BY <1>1, BrokerAssumption DEF DescriptorInv, OwnerInv
<1>3. t = FORDWARDER <=> s \in Publishers
  BY <1>1 DEF OrderInv, ClientInv, ProgOf, Polled, PUBLISHER, SUBSCRIBER
<1>4. HasMessage(fd[s]) <=> to_broker[s] # <<>>
  BY <1>2 DEF HasMessage, Unread, Closed, FreeFds
<1>5. Message(fd[s]) = Head(to_broker[s])
  BY <1>2 DEF Message
<1> QED BY <1>1, <1>2, <1>3, <1>4, <1>5 DEF Receives

\* What a registered client says next.
LEMMA NextRequest ==
  ASSUME OrderInv, NEW s \in Clients, status[s] = "registered", to_broker[s] # <<>>
  PROVE  /\ to_broker[s] \in Seq(RequestMsgs) /\ 1 \in DOMAIN to_broker[s]
         /\ Head(to_broker[s]) = to_broker[s][1]
         /\ \/ /\ Head(to_broker[s]) = [action |-> "UNREGISTER", id |-> id[s]]
               /\ Tail(to_broker[s]) = <<>> /\ Len(to_broker[s]) = 1 /\ prog[s] = "ended"
            \/ /\ Head(to_broker[s]) = [action |-> "PUBLISH_DATA", id |-> NextOf(s)]
               /\ s \in Publishers
               /\ prog[s] # "ended" \/ Len(to_broker[s]) # 1
<1>1. to_broker[s] \in Seq(RequestMsgs)
  BY DEF OrderInv, StreamType, RequestMsgs
<1>2. 1 \in DOMAIN to_broker[s] /\ Head(to_broker[s]) = to_broker[s][1]
  BY <1>1
<1>3. RequestOf(s) /\ NextOf(s) \in Int
  BY NextIsInt DEF OrderInv, ClientInv
<1>4. CASE 1 # Len(to_broker[s]) \/ prog[s] # "ended"
  <2>1. s \in Publishers /\ to_broker[s][1] = [action |-> "PUBLISH_DATA", id |-> NextOf(s) + 1 - 1]
    BY <1>2, <1>3, <1>4 DEF RequestOf
  <2>2. NextOf(s) + 1 - 1 = NextOf(s)
    BY <1>3
  <2> QED BY <1>1, <1>2, <1>4, <2>1, <2>2
<1>5. CASE 1 = Len(to_broker[s]) /\ prog[s] = "ended"
  <2>1. to_broker[s][1] = [action |-> "UNREGISTER", id |-> id[s]]
    BY <1>3, <1>5 DEF RequestOf
  <2> QED BY <1>1, <1>2, <1>5, <2>1, OneRequest
<1> QED BY <1>4, <1>5

\* Nothing else is ever read.
LEMMA NothingInvalid ==
  ASSUME DescriptorInv, OrderInv, NEW t \in Pollers, NEW s \in Clients
  PROVE  ~recv_invalid_action(t, s)
<1> SUFFICES ASSUME recv_invalid_action(t, s) PROVE FALSE
  OBVIOUS
<1>1. /\ Ready(t, s) /\ HasMessage(fd[s]) /\ ~Receives(t, fd[s], "UNREGISTER")
      /\ ~(t = FORDWARDER /\ Receives(t, fd[s], "PUBLISH_DATA"))
  BY DEF recv_invalid_action
<1>2. /\ status[s] = "registered" /\ to_broker[s] # <<>>
      /\ Head(to_broker[s]).action # "UNREGISTER"
      /\ ~(s \in Publishers /\ Head(to_broker[s]).action = "PUBLISH_DATA")
  BY <1>1, Reading
<1>3. \A m, n : /\ m = [action |-> "PUBLISH_DATA", id |-> n] => m.action = "PUBLISH_DATA"
                /\ m = [action |-> "UNREGISTER", id |-> n] => m.action = "UNREGISTER"
  OBVIOUS
<1> QED BY <1>2, <1>3, NextRequest

\* A topic that has a name is in at most one slot.
LEMMA OneSlot ==
  ASSUME TopicsInOneSlot, NEW x \in Topics
  PROVE  Cardinality(SlotsOf(x)) <= 1 /\ \A i, j \in SlotsOf(x) : i = j
<1>1. \A i, j \in SlotsOf(x) : i = j
  BY TopicsAssumption DEF TopicsInOneSlot, SlotsOf
<1>2. CASE SlotsOf(x) = {}
  BY <1>1, <1>2, FS_EmptySet
<1>3. CASE SlotsOf(x) # {}
  <2>1. PICK i : SlotsOf(x) = {i}
    BY <1>1, <1>3
  <2>2. Cardinality(SlotsOf(x)) = 1
    BY <2>1, FS_Singleton
  <2> QED BY <1>1, <2>2
<1> QED BY <1>2, <1>3

\* remove_client takes the entry of the client out of the table: its topic is in
\* one slot.
LEMMA RecvUnregisterOrder ==
  ASSUME DescriptorInv, OrderInv, Undisturbed, NEW t \in Pollers, NEW s \in Clients, recv_unregister_msg(t, s)
  PROVE  OrderInv'
<1> DEFINE q == to_broker[s]
<1>1. Ready(t, s) /\ Receives(t, fd[s], "UNREGISTER")
  BY DEF recv_unregister_msg
<1>2. /\ polling[t].pc = "recv" /\ status[s] = "registered" /\ fd[s] \in Fds /\ owner[fd[s]] = s
      /\ (t = FORDWARDER <=> s \in Publishers) /\ q # <<>>
      /\ Message(fd[s]) = Head(q) /\ Head(q).action = "UNREGISTER"
  <2>1. HasMessage(fd[s]) /\ Head(q).action = "UNREGISTER"
    <3>1. \A action : Receives(t, fd[s], action) <=> HasMessage(fd[s]) /\ Head(to_broker[s]).action = action
      BY <1>1, Reading
    <3> QED BY <1>1, <3>1
  <2> QED BY <1>1, <2>1, Reading
<1>3. /\ Head(q) = [action |-> "UNREGISTER", id |-> id[s]]
      /\ Tail(q) = <<>> /\ Len(q) = 1 /\ prog[s] = "ended" /\ q[1] = Head(q)
  <2>1. \A m, n : m = [action |-> "PUBLISH_DATA", id |-> n] => m.action = "PUBLISH_DATA"
    OBVIOUS
  <2> QED BY <1>2, <2>1, NextRequest
<1>4. /\ remove_client(s, id[s])
      /\ to_broker' = [to_broker EXCEPT ![s] = <<>>]
      /\ UNCHANGED <<owner, fd, to_client, accepting, prog, my_id, published, received, misread>>
  <2>1. Message(fd[s]).id = id[s]
    BY <1>2, <1>3
  <2> QED BY <1>2, <1>3, <2>1 DEF recv_unregister_msg, Consume, programs
<1>5. PICK r : Goto(t, r) /\ r.pc = "close" /\ r.conns \subseteq polling[t].conns \ {s}
  <2> DEFINE r == [Took(t, s) EXCEPT !.pc = "close", !.fd = fd[s]]
  <2>1. DOMAIN polling[t] = Fields
    BY DEF DescriptorInv, DescriptorType
  <2>2. r.pc = "close" /\ r.conns = polling[t].conns \ {s}
    BY <2>1 DEF Took, Fields
  <2>3. Goto(t, r)
    BY DEF recv_unregister_msg
  <2> HIDE DEF r
  <2> QED BY <2>2, <2>3
<1>6. polling'[t] = r /\ \A u \in Pollers : u # t => polling'[u] = polling[u]
  BY <1>5 DEF Goto, DescriptorInv, DescriptorType
<1>7. /\ UNCHANGED <<type, topic, id, id_counter>> /\ status'[s] = "unregistered"
      /\ \A d \in Clients : d # s => status'[d] = status[d]
  BY <1>4 DEF remove_client, OrderInv, TableInv, TypeOK
<1>8. TableInv'
  BY <1>2, <1>4, RemovePreserves DEF OrderInv, unregister
<1>9. NoStale'
  <2>1. Found(type[s], topic[s], id[s]) = {e \in entries : e.socket = s}
    BY <1>2, OneSlot, FoundIsOwn DEF OrderInv, Undisturbed, TableInv, TypeOK
  <2>2. entries' = entries \ {e \in entries : e.socket = s}
    BY <1>4, <2>1 DEF remove_client
  <2>3. \A e \in entries : e.socket \in Clients
    BY DEF OrderInv, TableInv, TypeOK, Entries
  <2> QED BY <1>7, <2>2, <2>3 DEF OrderInv, NoStale
<1>10. to_broker'[s] = <<>> /\ \A d \in Clients : d # s => to_broker'[d] = to_broker[d]
  BY <1>4 DEF OrderInv, StreamType
<1>11. StreamType'
  <2>1. to_broker \in [Clients -> Seq(RequestMsgs)] /\ <<>> \in Seq(RequestMsgs)
    BY DEF OrderInv, StreamType, RequestMsgs
  <2>2. to_broker' \in [Clients -> Seq(RequestMsgs)]
    BY <1>4, <2>1
  <2> QED BY <1>4, <2>2 DEF OrderInv, StreamType, RequestMsgs
<1>12. AwaitsRegister'
  BY <1>2, <1>4, <1>7 DEF OrderInv, AwaitsRegister, DescriptorInv, AcceptInv
<1>13. ConnsInv'
  <2>1. \A u \in Pollers : u # t => Polled(u) # Polled(t)
    BY DEF Pollers, Polled, FORDWARDER, UNREGISTERER, PUBLISHER, SUBSCRIBER
  <2>2. type[s] = Polled(t)
    BY <1>1 DEF Ready, OrderInv, ConnsInv
  <2>3. ASSUME NEW u \in Pollers, NEW x \in polling'[u].conns
        PROVE  x \in Clients /\ x # s /\ status[x] = "registered" /\ type[x] = Polled(u)
    BY <1>5, <1>6, <2>1, <2>2, <2>3 DEF OrderInv, ConnsInv
  <2> QED BY <1>7, <2>3 DEF ConnsInv
<1>14. NextOf(s)' = NextOf(s)
  BY <1>2, <1>3, <1>4, <1>10 DEF NextOf, Waiting
<1>15. \A p \in Publishers : NextOf(p)' = NextOf(p)
  BY <1>4, <1>10, <1>14, NextKept, BrokerAssumption
<1>16. (~Sending /\ ~Sending') \/ polling'[FORDWARDER] = polling[FORDWARDER]
  BY <1>2, <1>5, <1>6 DEF Sending, Pollers
<1>17. /\ \A d : (Pending(d)' <=> Pending(d)) /\ (Pending(d) => Sent' = Sent)
       /\ ~Sending' \/ polling'[FORDWARDER] = polling[FORDWARDER]
  BY <1>4, <1>16, PendingKept
<1>18. SendInv'
  BY <1>4, <1>7, <1>15, <1>17, SendKept DEF OrderInv
<1>19. ASSUME NEW d \in Clients, d # s PROVE ClientInv(d)'
  <2>1. Same(d)
    BY <1>4, <1>7, <1>10, <1>17, <1>19 DEF Same, Untouched, RespPending
  <2> QED BY <1>7, <1>15, <2>1, OthersKeep DEF OrderInv
<1>20. ClientInv(s)'
  <2>1. ProgOf(s) /\ ResponseOf(s) /\ (s \in Publishers \/ Spoiled(s) \/ Orderly(s))
    BY DEF OrderInv, ClientInv
  <2>2. Gone(s)' /\ Gone(s) /\ Stream(s)' = Stream(s) /\ to_client'[s] = <<>>
    BY <1>3, <1>4, <2>1 DEF Gone, Stream, ProgOf
  <2>3. ProgOf(s)'
    BY <1>2, <1>3, <1>4, <1>7, <2>1, <2>2 DEF ProgOf
  <2>4. RequestOf(s)'
    BY <1>7, <1>10 DEF RequestOf
  <2>5. ResponseOf(s)'
    BY <1>3, <1>4, <1>7, <2>2 DEF ResponseOf
  <2>6. s \in Publishers \/ Orderly(s)'
    <3>1. ~Spoiled(s)
      BY <1>3 DEF Spoiled
    <3> QED BY <2>1, <2>2, <3>1 DEF Orderly
  <2> QED BY <2>3, <2>4, <2>5, <2>6 DEF ClientInv
<1> QED BY <1>8, <1>9, <1>11, <1>12, <1>13, <1>18, <1>19, <1>20 DEF OrderInv

\* close: what is still to be sent to that descriptor is for nobody.
LEMMA CloseOrder ==
  ASSUME DescriptorInv, OrderInv, NEW t \in Pollers, close_connection(t)
  PROVE  OrderInv'
<1>1. PICK f, o : f = polling[t].fd /\ o = owner[f]
  OBVIOUS
<1>2. PICK r : r = [Rest EXCEPT !.pc = IF polling[t].conns = {} THEN "list" ELSE "recv", !.conns = polling[t].conns]
  OBVIOUS
<1>3. /\ polling[t].pc = "close" /\ Goto(t, r) /\ owner' = [owner EXCEPT ![f] = NoClient]
      /\ UNCHANGED <<vars, fd, to_broker, to_client, accepting, prog, my_id, published, received, misread>>
  BY <1>1, <1>2 DEF close_connection, Continue, programs
<1>4. r.pc # "send" /\ r.conns = polling[t].conns
  BY <1>2 DEF Rest
<1>5. f \in Fds /\ o \in Clients /\ status[o] = "unregistered"
  BY <1>1, <1>3 DEF DescriptorInv, CloseInv
<1>6. prog[o] = "ended"
  BY <1>5 DEF OrderInv, ClientInv, ProgOf
<1>7. /\ polling'[t] = r /\ \A u \in Pollers : u # t => polling'[u] = polling[u]
      /\ \A g \in Fds : g # f => owner'[g] = owner[g]
      /\ owner'[f] = NoClient
  BY <1>3, <1>5 DEF Goto, DescriptorInv, DescriptorType
<1>8. UNCHANGED <<status, type, topic, id, id_counter>>
  BY <1>3 DEF vars
<1>9. TableInv' /\ NoStale' /\ StreamType'
  BY <1>3, TableKept DEF OrderInv, StreamType
<1>10. AwaitsRegister' /\ ConnsInv'
  BY <1>3, <1>4, <1>7, <1>8 DEF OrderInv, AwaitsRegister, ConnsInv
<1>11. \A p : NextOf(p)' = NextOf(p)
  BY <1>3, NextKept
<1>12. (~Sending /\ ~Sending') \/ polling'[FORDWARDER] = polling[FORDWARDER]
  BY <1>3, <1>4, <1>7 DEF Sending, Pollers
<1>13. SendInv'
  <2>1. ~Sending' \/ polling'[FORDWARDER] = polling[FORDWARDER]
    BY <1>12
  <2> QED BY <1>3, <1>8, <1>11, <2>1, SendKept DEF OrderInv
<1>14. ASSUME NEW d \in Clients, d # o PROVE (Pending(d)' <=> Pending(d)) /\ (Pending(d) => Sent' = Sent)
  <2>1. CASE ~Sending /\ ~Sending'
    BY <2>1 DEF Pending
  <2>2. CASE polling'[FORDWARDER] = polling[FORDWARDER]
    <3>1. (Sending' <=> Sending) /\ Subs' = Subs /\ Sent' = Sent
      BY <2>2 DEF Sending, Subs, Sent
    <3>2. \A s : fd'[s] = fd[s]
      BY <1>3
    <3>3. \A g \in Fds : owner'[g] = d <=> owner[g] = d
      BY <1>1, <1>7, <1>14, BrokerAssumption
    <3> QED BY <3>1, <3>2, <3>3 DEF Pending
  <2> QED BY <1>12, <2>1, <2>2
<1>15. \A d \in Clients : Untouched(d)
  BY <1>3, <1>8 DEF Untouched, RespPending
<1>16. ASSUME NEW d \in Clients, d # o PROVE ClientInv(d)'
  <2>1. Same(d)
    BY <1>14, <1>15, <1>16 DEF Same
  <2> QED BY <1>8, <1>11, <2>1, OthersKeep DEF OrderInv
<1>17. ClientInv(o)'
  <2>1. /\ ProgOf(o)' /\ RequestOf(o)' /\ ResponseOf(o)'
        /\ Stream(o)' = Stream(o) /\ (Gone(o)' <=> Gone(o))
    BY <1>5, <1>8, <1>15, UntouchedKeep DEF OrderInv
  <2>2. Gone(o) /\ ~Spoiled(o)
    BY <1>6 DEF Gone, Spoiled
  <2>3. o \in Publishers \/ Orderly(o)
    BY <1>5, <2>2 DEF OrderInv, ClientInv
  <2>4. Orderly(o) => Orderly(o)'
    BY <2>1, <2>2 DEF Orderly
  <2> QED BY <2>1, <2>3, <2>4 DEF ClientInv
<1> QED BY <1>9, <1>10, <1>13, <1>16, <1>17 DEF OrderInv

\* get_subscribers returns everybody who is registered for a topic that is in
\* one slot, and nobody else.
LEMMA SubscribersAre ==
  ASSUME OrderInv, TopicsInOneSlot, NEW x \in Topics
  PROVE  get_subscribers(x) = Registered(SUBSCRIBER, x)
<1>1. \A i, j \in SlotsOf(x) : i = j
  BY OneSlot
<1>2. SlotsOf(x) # {} => Least(SlotsOf(x)) \in SlotsOf(x)
  <2>1. SlotsOf(x) \subseteq Nat
    BY LimitsAssumption DEF SlotsOf, Slots
  <2> QED BY <2>1, LeastIsLeast
<1>3. \A e \in entries :
        /\ e.slot \in Slots /\ e.socket \in Clients /\ status[e.socket] = "registered"
        /\ name[e.slot] = topic[e.socket] /\ e.ct = type[e.socket]
  BY DEF OrderInv, NoStale, TableInv, Homes, TypeOK, Entries
<1>4. ASSUME NEW c \in get_subscribers(x) PROVE c \in Registered(SUBSCRIBER, x)
  <2>1. SlotsOf(x) # {}
    BY <1>4 DEF get_subscribers
  <2>2. PICK e \in entries : e.socket = c /\ e.slot = Least(SlotsOf(x)) /\ e.ct = SUBSCRIBER
    BY <1>4, <2>1 DEF get_subscribers, ClientsIn
  <2>3. name[e.slot] = x
    BY <1>2, <2>1, <2>2 DEF SlotsOf
  <2> QED BY <1>3, <2>2, <2>3 DEF Registered
<1>5. ASSUME NEW c \in Registered(SUBSCRIBER, x) PROVE c \in get_subscribers(x)
  <2>1. c \in Clients /\ status[c] = "registered" /\ type[c] = SUBSCRIBER /\ topic[c] = x
    BY <1>5 DEF Registered
  <2>2. PICK e \in entries : e.socket = c /\ e.ct = type[c] /\ name[e.slot] = topic[c]
    BY <2>1 DEF OrderInv, TableInv, RegisteredAreListed
  <2>3. e.slot \in SlotsOf(x)
    BY <1>3, <2>1, <2>2 DEF SlotsOf
  <2>4. e.slot = Least(SlotsOf(x))
    BY <1>1, <1>2, <2>3
  <2> QED BY <2>1, <2>2, <2>3, <2>4 DEF get_subscribers, ClientsIn
<1> QED BY <1>4, <1>5

\* One request less, the first.
LEMMA RequestTaken ==
  ASSUME NEW q \in Seq(RequestMsgs), q # <<>>, NEW u, u = Tail(q)
  PROVE  /\ u \in Seq(RequestMsgs) /\ Len(q) \in Nat /\ Len(u) = Len(q) - 1
         /\ \A i \in DOMAIN u : i \in Nat /\ i + 1 \in DOMAIN q /\ u[i] = q[i + 1]
         /\ u = <<>> => Len(q) = 1
         /\ u # <<>> => u[Len(u)] = q[Len(q)]
<1>1. /\ u \in Seq(RequestMsgs) /\ Len(q) \in Nat /\ Len(u) = Len(q) - 1 /\ Len(u) \in Nat
      /\ \A i \in DOMAIN u : i \in Nat /\ i + 1 \in DOMAIN q /\ u[i] = q[i + 1]
  OBVIOUS
<1>2. u = <<>> => Len(q) = 1
  <2>1. u = <<>> => Len(u) = 0
    BY EmptySeq
  <2> QED BY <1>1, <2>1
<1>3. u # <<>> => Len(u) \in DOMAIN u
  BY <1>1
<1> QED BY <1>1, <1>2, <1>3

\* A message is published: its number is the next one's.
LEMMA TakePublished ==
  ASSUME OrderInv, NEW s \in Clients, status[s] = "registered", to_broker[s] # <<>>,
         Head(to_broker[s]).action = "PUBLISH_DATA",
         to_broker'[s] = Tail(to_broker[s]),
         UNCHANGED <<status, type, id, id_counter, accepting, to_client, prog, my_id, published, received, misread>>
  PROVE  /\ s \in Publishers /\ Head(to_broker[s]) = [action |-> "PUBLISH_DATA", id |-> NextOf(s)]
         /\ NextOf(s)' = NextOf(s) + 1
         /\ to_broker'[s] \in Seq(RequestMsgs)
         /\ ClientInv(s)'
<1>1. PICK q, u : q = to_broker[s] /\ u = Tail(q)
  OBVIOUS
<1>2. /\ q \in Seq(RequestMsgs) /\ 1 \in DOMAIN q /\ q # <<>> /\ s \in Publishers
      /\ q[1] = [action |-> "PUBLISH_DATA", id |-> NextOf(s)] /\ Head(q) = q[1]
      /\ prog[s] # "ended" \/ Len(q) # 1
  <2>1. \A m, n : m = [action |-> "UNREGISTER", id |-> n] => m.action # "PUBLISH_DATA"
    OBVIOUS
  <2> QED BY <1>1, <2>1, NextRequest
<1>3. /\ u \in Seq(RequestMsgs) /\ Len(q) \in Nat /\ Len(u) = Len(q) - 1
      /\ \A i \in DOMAIN u : i \in Nat /\ i + 1 \in DOMAIN q /\ u[i] = q[i + 1]
      /\ u = <<>> => Len(q) = 1
      /\ u # <<>> => u[Len(u)] = q[Len(q)]
  BY <1>1, <1>2, RequestTaken
<1>4. to_broker'[s] = u
  BY <1>1
<1>5. published[s] \in Nat /\ published'[s] = published[s]
  BY DEF OrderInv, StreamType
<1>6. q[1].action = "PUBLISH_DATA"
  BY <1>1, <1>2
<1>7. NextOf(s)' = NextOf(s) + 1
  <2>1. CASE u = <<>>
    <3>1. NextOf(s) = published[s] - 1
      BY <1>1, <1>2, <1>3, <1>6, <2>1 DEF NextOf, Waiting
    <3>2. NextOf(s)' = published[s] - Len(u) /\ Len(u) = 0
      BY <1>3, <1>4, <1>5, <2>1 DEF NextOf, Waiting
    <3> QED BY <1>5, <3>1, <3>2
  <2>2. CASE u # <<>> /\ q[Len(q)].action # "PUBLISH_DATA"
    <3>1. NextOf(s) = published[s] - (Len(q) - 1)
      BY <1>1, <1>2, <2>2 DEF NextOf, Waiting
    <3>2. NextOf(s)' = published[s] - (Len(u) - 1)
      BY <1>3, <1>4, <1>5, <2>2 DEF NextOf, Waiting
    <3> QED BY <1>3, <1>5, <3>1, <3>2
  <2>3. CASE u # <<>> /\ q[Len(q)].action = "PUBLISH_DATA"
    <3>1. NextOf(s) = published[s] - Len(q)
      BY <1>1, <1>2, <2>3 DEF NextOf, Waiting
    <3>2. NextOf(s)' = published[s] - Len(u)
      BY <1>3, <1>4, <1>5, <2>3 DEF NextOf, Waiting
    <3> QED BY <1>3, <1>5, <3>1, <3>2
  <2> QED BY <2>1, <2>2, <2>3
<1>8. ProgOf(s) /\ RequestOf(s) /\ ResponseOf(s)
  BY DEF OrderInv, ClientInv
<1>9. ProgOf(s)'
  BY <1>8 DEF ProgOf, Gone
<1>10. ResponseOf(s)'
  BY <1>8 DEF ResponseOf, RespPending
<1>11. RequestOf(s)'
  <2>1. prog[s] = "ended" => u # <<>> /\ u[Len(u)] = [action |-> "UNREGISTER", id |-> id[s]]
    BY <1>1, <1>2, <1>3, <1>8 DEF RequestOf
  <2>2. ASSUME NEW i \in DOMAIN u, i # Len(u) \/ prog[s] # "ended"
        PROVE  u[i] = [action |-> "PUBLISH_DATA", id |-> NextOf(s)' + i - 1]
    <3>1. i + 1 # Len(q) \/ prog[s] # "ended"
      BY <1>3, <2>2
    <3>2. u[i] = [action |-> "PUBLISH_DATA", id |-> NextOf(s) + (i + 1) - 1]
      BY <1>1, <1>3, <1>8, <2>2, <3>1 DEF RequestOf
    <3>3. NextOf(s) + (i + 1) - 1 = NextOf(s)' + i - 1
      BY <1>3, <1>7, <2>2, NextIsInt DEF OrderInv
    <3> QED BY <3>2, <3>3
  <2> QED BY <1>2, <1>4, <2>1, <2>2 DEF RequestOf
<1> QED BY <1>1, <1>2, <1>3, <1>4, <1>7, <1>9, <1>10, <1>11 DEF ClientInv

\* The next message of a publisher is on its way to the subscribers of its topic.
LEMMA ForwardOrder ==
  ASSUME DescriptorInv, OrderInv, Undisturbed, NEW s \in Clients, recv_publisher_msg(s)
  PROVE  OrderInv'
<1> DEFINE q == to_broker[s]
<1>1. Ready(FORDWARDER, s) /\ Receives(FORDWARDER, fd[s], "PUBLISH_DATA") /\ FORDWARDER \in Pollers
  BY DEF recv_publisher_msg, Pollers
<1>2. /\ polling[FORDWARDER].pc = "recv" /\ status[s] = "registered" /\ owner[fd[s]] = s
      /\ q # <<>> /\ Head(q).action = "PUBLISH_DATA" /\ Message(fd[s]) = Head(q)
  <2>1. HasMessage(fd[s]) /\ Head(q).action = "PUBLISH_DATA"
    <3>1. \A action : Receives(FORDWARDER, fd[s], action) <=> HasMessage(fd[s]) /\ Head(to_broker[s]).action = action
      BY <1>1, Reading
    <3> QED BY <1>1, <3>1
  <2> QED BY <1>1, <2>1, Reading
<1>3. /\ to_broker' = [to_broker EXCEPT ![s] = Tail(@)]
      /\ UNCHANGED <<vars, owner, fd, to_client, accepting, prog, my_id, published, received, misread>>
  BY <1>2 DEF recv_publisher_msg, Consume, programs
<1>4. UNCHANGED <<status, type, topic, id, id_counter>>
  BY <1>3 DEF vars
<1>5. to_broker'[s] = Tail(q) /\ \A d \in Clients : d # s => to_broker'[d] = to_broker[d]
  BY <1>3 DEF OrderInv, StreamType
<1>6. /\ s \in Publishers /\ Head(q) = [action |-> "PUBLISH_DATA", id |-> NextOf(s)]
      /\ NextOf(s)' = NextOf(s) + 1 /\ to_broker'[s] \in Seq(RequestMsgs) /\ ClientInv(s)'
  BY <1>2, <1>3, <1>4, <1>5, TakePublished
<1>7. \A p \in Publishers : p # s => NextOf(p)' = NextOf(p)
  BY <1>3, <1>5, NextKept, BrokerAssumption
<1>8. PICK n : n = NextOf(s) /\ n \in Int
  BY NextIsInt DEF OrderInv
<1>9. PICK subs, data : subs = get_subscribers(topic[s]) /\ data = [kind |-> "data", from |-> s, n |-> n]
  OBVIOUS
<1>10. PICK k : k = polling[FORDWARDER].conns \ {s}
  OBVIOUS
<1>11. \E r : /\ Goto(FORDWARDER, r) /\ r.conns = k
              /\ \/ subs = {} /\ r.pc # "send"
                 \/ subs # {} /\ r.pc = "send" /\ r.subs = subs /\ r.data = data
  <2> DEFINE r == [Took(FORDWARDER, s) EXCEPT !.pc = "send", !.subs = subs, !.data = data]
  <2>1. r.conns = k /\ r.pc = "send" /\ r.subs = subs /\ r.data = data
    <3>1. DOMAIN polling[FORDWARDER] = Fields
      BY <1>1 DEF DescriptorInv, DescriptorType
    <3> QED BY <1>10, <3>1 DEF Took, Fields
  <2>2. IF subs = {} THEN Continue(FORDWARDER, r) ELSE Goto(FORDWARDER, r)
    <3>1. Message(fd[s]).id = n
      BY <1>2, <1>6, <1>8
    <3> QED BY <1>2, <1>9, <3>1 DEF recv_publisher_msg
  <2> HIDE DEF r
  <2>3. CASE subs # {}
    BY <2>1, <2>2, <2>3
  <2>4. CASE subs = {}
    <3> DEFINE x == [Rest EXCEPT !.pc = IF r.conns = {} THEN "list" ELSE "recv", !.conns = r.conns]
    <3>1. x.conns = k /\ x.pc # "send"
      BY <2>1 DEF Rest
    <3>2. Goto(FORDWARDER, x)
      BY <2>2, <2>4 DEF Continue
    <3> HIDE DEF x
    <3> QED BY <2>4, <3>1, <3>2
  <2> QED BY <2>3, <2>4
<1>12. PICK r : /\ Goto(FORDWARDER, r) /\ r.conns = k
                /\ \/ subs = {} /\ r.pc # "send"
                   \/ subs # {} /\ r.pc = "send" /\ r.subs = subs /\ r.data = data
  BY <1>11
<1>13. polling'[FORDWARDER] = r /\ \A u \in Pollers : u # FORDWARDER => polling'[u] = polling[u]
  BY <1>1, <1>12 DEF Goto, DescriptorInv, DescriptorType
<1>14. /\ ~Sending
       /\ Sending' <=> subs # {}
       /\ Sending' => Subs' = subs /\ Sent' = data
  BY <1>2, <1>12, <1>13 DEF Sending, Subs, Sent
<1>15. subs = Registered(SUBSCRIBER, topic[s])
  BY <1>9, SubscribersAre DEF OrderInv, Undisturbed, TableInv, TypeOK
<1>16. \A x \in subs : x \in Clients /\ status[x] = "registered" /\ fd[x] \in Fds /\ owner[fd[x]] = x
  BY <1>15 DEF Registered, DescriptorInv, OwnerInv
<1>17. TableInv' /\ NoStale'
  BY <1>3, TableKept DEF OrderInv
<1>18. StreamType'
  <2>1. to_broker \in [Clients -> Seq(RequestMsgs)]
    BY DEF OrderInv, StreamType, RequestMsgs
  <2>2. to_broker' \in [Clients -> Seq(RequestMsgs)]
    BY <1>3, <1>5, <1>6, <2>1
  <2> QED BY <1>3, <2>2 DEF OrderInv, StreamType, RequestMsgs
<1>19. AwaitsRegister' /\ ConnsInv'
  BY <1>3, <1>4, <1>10, <1>12, <1>13 DEF OrderInv, AwaitsRegister, ConnsInv
<1>20. SendInv'
  <2>1. id_counter > 0
    <3>1. PICK e \in entries : e.socket = s
      BY <1>2 DEF OrderInv, TableInv, RegisteredAreListed
    <3>2. e.id < id_counter /\ e.id \in Nat /\ id_counter \in Nat
      BY <3>1 DEF OrderInv, TableInv, Homes, TypeOK, Entries
    <3> QED BY <3>2
  <2>2. CASE ~Sending'
    BY <2>2 DEF SendInv
  <2>3. CASE Sending'
    <3>1. Subs' = subs /\ Sent' = data /\ data.from = s
      BY <1>9, <1>14, <2>3
    <3>2. NextOf(s)' - 1 = n
      BY <1>6, <1>8
    <3>3. Sent' = [kind |-> "data", from |-> s, n |-> NextOf(s)' - 1] /\ Sent'.from = s
      BY <1>9, <3>1, <3>2
    <3>4. Sent' = [kind |-> "data", from |-> Sent'.from, n |-> (NextOf(Sent.from) - 1)']
      BY <3>3
    <3>5. /\ id_counter' > 0 /\ Subs' \subseteq Clients
          /\ \A x \in Subs' : status'[x] # "new"
          /\ \A x, y \in Subs' : fd'[x] = fd'[y] => x = y
      BY <1>3, <1>4, <1>16, <2>1, <3>1
    <3> QED BY <1>6, <3>3, <3>4, <3>5 DEF SendInv
  <2> QED BY <2>2, <2>3
<1>21. \A d \in Clients : Pending(d)' <=> d \in subs
  BY <1>3, <1>14, <1>16 DEF Pending
<1>22. \A d \in Clients : ~Pending(d)
  BY <1>14 DEF Pending
<1>23. ASSUME NEW c \in Clients, c # s PROVE ClientInv(c)'
  <2>1. Untouched(c)
    BY <1>3, <1>4, <1>5, <1>23 DEF Untouched, RespPending
  <2>2. /\ ProgOf(c)' /\ RequestOf(c)' /\ ResponseOf(c)' /\ (Spoiled(c) => Spoiled(c)')
        /\ Stream(c)' = Stream(c) /\ (Gone(c)' <=> Gone(c))
    BY <1>4, <2>1, UntouchedKeep DEF OrderInv
  <2>3. c \in Publishers \/ Spoiled(c) \/ Orderly(c)
    BY DEF OrderInv, ClientInv
  <2>4. ASSUME Orderly(c), c \notin Publishers PROVE Orderly(c)'
    <3>1. WithoutGaps(Stream(c))
      BY <2>4 DEF Orderly
    <3>2. ASSUME ~Gone(c), status[c] = "registered", NEW p \in Publishers, topic[p] = topic[c]
          PROVE  LastIs(Stream(c), p, NextOf(p) - 1)
      BY <1>22, <2>4, <3>2 DEF Orderly
    <3>3. type[c] = SUBSCRIBER
      BY <2>4 DEF OrderInv, ClientInv, ProgOf, TableInv, TypeOK, client_type
    <3>4. c \in subs <=> status[c] = "registered" /\ topic[c] = topic[s]
      BY <1>15, <3>3 DEF Registered
    <3>5. ASSUME ~Gone(c), Pending(c)' PROVE LastIs(Stream(c), Sent'.from, Sent'.n - 1)
      <4>1. c \in subs /\ Sent' = data /\ status[c] = "registered" /\ topic[s] = topic[c]
        BY <1>14, <1>21, <3>4, <3>5 DEF Pending
      <4>2. Sent'.from = s /\ Sent'.n - 1 = NextOf(s) - 1
        BY <1>8, <1>9, <4>1
      <4> QED BY <1>6, <3>2, <3>5, <4>1, <4>2
    <3>6. ASSUME ~Gone(c), status[c] = "registered", NEW p \in Publishers, topic[p] = topic[c]
          PROVE  LastIs(Stream(c), p, IF Pending(c)' /\ Sent'.from = p THEN NextOf(p)' - 2 ELSE NextOf(p)' - 1)
      <4>1. LastIs(Stream(c), p, NextOf(p) - 1)
        BY <3>2, <3>6
      <4>2. CASE p = s
        <5>1. Pending(c)' /\ Sent'.from = p
          BY <1>9, <1>14, <1>21, <3>4, <3>6, <4>2
        <5>2. NextOf(p)' - 2 = NextOf(p) - 1
          BY <1>6, <1>8, <4>2
        <5> QED BY <4>1, <5>1, <5>2
      <4>3. CASE p # s
        <5>1. ~(Pending(c)' /\ Sent'.from = p)
          BY <1>9, <1>14, <4>3 DEF Pending
        <5>2. NextOf(p)' = NextOf(p)
          BY <1>7, <4>3
        <5> QED BY <4>1, <5>1, <5>2
      <4> QED BY <4>2, <4>3
    <3> QED BY <1>4, <2>2, <3>1, <3>5, <3>6 DEF Orderly
  <2> QED BY <2>2, <2>3, <2>4 DEF ClientInv
<1> QED BY <1>6, <1>17, <1>18, <1>19, <1>20, <1>23 DEF OrderInv

\* It arrives at the next of them.
LEMMA SendOrder ==
  ASSUME DescriptorInv, OrderInv, NEW s \in Clients, send_subscriber_msg(s)
  PROVE  OrderInv'
<1>1. PICK f, c, m : f = fd[s] /\ c = owner[f] /\ m = Sent
  OBVIOUS
<1>2. /\ Sending /\ s \in Subs /\ simple_send(f, m) /\ FORDWARDER \in Pollers
      /\ UNCHANGED <<vars, owner, fd, to_broker, accepting, prog, my_id, published, received, misread>>
  BY <1>1 DEF send_subscriber_msg, Sending, Subs, Sent, programs, Pollers
<1>3. \E r : /\ Goto(FORDWARDER, r) /\ r.conns = polling[FORDWARDER].conns
             /\ \/ r.pc # "send" /\ Subs = {s}
                \/ r.pc = "send" /\ r.subs = Subs \ {s} /\ r.data = m
  <2> DEFINE r == polling[FORDWARDER]
             x == [Rest EXCEPT !.pc = IF r.conns = {} THEN "list" ELSE "recv", !.conns = r.conns]
             y == [r EXCEPT !.subs = @ \ {s}]
  <2>1. x.conns = r.conns /\ x.pc # "send"
    BY DEF Rest
  <2>2. y.conns = r.conns /\ y.pc = "send" /\ y.subs = Subs \ {s} /\ y.data = m
    <3>1. DOMAIN r = Fields
      BY <1>2 DEF DescriptorInv, DescriptorType
    <3> QED BY <1>1, <1>2, <3>1 DEF Fields, Sending, Subs, Sent
  <2>3. IF Subs = {s} THEN Goto(FORDWARDER, x) ELSE Goto(FORDWARDER, y)
    BY DEF send_subscriber_msg, Continue, Subs
  <2> HIDE DEF x, y
  <2> QED BY <2>1, <2>2, <2>3
<1>4. PICK r : /\ Goto(FORDWARDER, r) /\ r.conns = polling[FORDWARDER].conns
               /\ \/ r.pc # "send" /\ Subs = {s}
                  \/ r.pc = "send" /\ r.subs = Subs \ {s} /\ r.data = m
  BY <1>3
<1>5. polling'[FORDWARDER] = r /\ \A u \in Pollers : u # FORDWARDER => polling'[u] = polling[u]
  BY <1>2, <1>4 DEF Goto, DescriptorInv, DescriptorType
<1>6. /\ ~Sending' => Subs = {s}
      /\ Sending' => Subs' = Subs \ {s} /\ Sent' = m
  BY <1>4, <1>5 DEF Sending, Subs, Sent
<1>7. UNCHANGED <<status, type, topic, id, id_counter>>
  BY <1>2 DEF vars
<1>8. /\ f \in Fds /\ c \in Clients /\ fd[c] = f /\ (PeerGone(f) <=> Gone(c))
  <2>1. f \in Fds /\ owner[f] # NoClient /\ (PeerGone(f) <=> Gone(owner[f]))
    BY <1>2, HasOwner DEF simple_send
  <2> QED BY <1>1, <2>1 DEF DescriptorInv, DescriptorType, OwnerInv
<1>9. PICK p \in Publishers : p = m.from
  BY <1>1, <1>2 DEF OrderInv, SendInv
<1>10. PICK n : n = NextOf(p) - 1 /\ n \in Int
  BY NextIsInt, BrokerAssumption DEF OrderInv
<1>11. m = [kind |-> "data", from |-> p, n |-> n]
  BY <1>1, <1>2, <1>9, <1>10 DEF OrderInv, SendInv
<1>12. /\ id_counter > 0 /\ Subs \subseteq Clients /\ \A x \in Subs : status[x] # "new"
       /\ \A x, y \in Subs : fd[x] = fd[y] => x = y
  BY <1>2 DEF OrderInv, SendInv
<1>13. TableInv' /\ NoStale'
  BY <1>2, TableKept DEF OrderInv
<1>14. AwaitsRegister' /\ ConnsInv'
  BY <1>2, <1>4, <1>5, <1>7 DEF OrderInv, AwaitsRegister, ConnsInv
<1>15. \A x : NextOf(x)' = NextOf(x)
  BY <1>2, NextKept
<1>16. SendInv'
  <2>1. CASE ~Sending'
    BY <2>1 DEF SendInv
  <2>2. CASE Sending'
    <3>1. Sent' = m /\ Subs' = Subs \ {s}
      BY <1>6, <2>2
    <3>2. Sent' = [kind |-> "data", from |-> p, n |-> NextOf(p)' - 1] /\ Sent'.from = p
      BY <1>9, <1>10, <1>11, <1>15, <3>1
    <3>3. Sent' = [kind |-> "data", from |-> Sent'.from, n |-> (NextOf(Sent.from) - 1)']
      BY <3>2
    <3>4. /\ id_counter' > 0 /\ Subs' \subseteq Clients
          /\ \A x \in Subs' : status'[x] # "new"
          /\ \A x, y \in Subs' : fd'[x] = fd'[y] => x = y
      BY <1>2, <1>7, <1>12, <3>1
    <3> QED BY <3>2, <3>3, <3>4 DEF SendInv
  <2> QED BY <2>1, <2>2
<1>17. Pending(c)
  BY <1>1, <1>2, <1>8 DEF Pending
<1>18. ~Pending(c)'
  <2> SUFFICES ASSUME Sending', NEW x \in Subs', fd'[x] \in Fds, owner'[fd'[x]] = c PROVE FALSE
    BY DEF Pending
  <2>1. x \in Subs /\ x # s /\ fd[x] \in Fds /\ owner[fd[x]] = c
    BY <1>2, <1>6
  <2>2. fd[x] = f
    BY <1>8, <2>1, BrokerAssumption DEF DescriptorInv, OwnerInv
  <2> QED BY <1>1, <1>2, <1>12, <2>1, <2>2
<1>19. ASSUME NEW d \in Clients, d # c PROVE (Pending(d)' <=> Pending(d)) /\ (Pending(d) => Sent' = Sent)
  <2>1. ASSUME Pending(d) PROVE Pending(d)' /\ Sent' = Sent
    <3>1. PICK x \in Subs : fd[x] \in Fds /\ owner[fd[x]] = d
      BY <2>1 DEF Pending
    <3>2. x # s
      BY <1>1, <1>19, <3>1
    <3>3. Sending' /\ x \in Subs' /\ Sent' = Sent
      BY <1>1, <1>6, <3>1, <3>2
    <3>4. fd'[x] \in Fds /\ owner'[fd'[x]] = d
      BY <1>2, <3>1
    <3> QED BY <3>3, <3>4 DEF Pending
  <2>2. ASSUME Pending(d)' PROVE Pending(d)
    BY <1>2, <1>6, <2>2 DEF Pending
  <2> QED BY <2>1, <2>2
<1>20. ASSUME NEW d \in Clients, d # c, to_client'[d] = to_client[d] PROVE ClientInv(d)'
  <2>1. Same(d)
    BY <1>2, <1>7, <1>19, <1>20 DEF Same, Untouched, RespPending
  <2> QED BY <1>7, <1>15, <2>1, OthersKeep DEF OrderInv
<1>21. ProgOf(c) /\ RequestOf(c) /\ ResponseOf(c) /\ (c \in Publishers \/ Spoiled(c) \/ Orderly(c))
  BY <1>8 DEF OrderInv, ClientInv
<1>22. RequestOf(c)'
  BY <1>2, <1>7, <1>15, <1>21 DEF RequestOf
<1>23. Gone(c)' <=> Gone(c)
  BY <1>2 DEF Gone
<1>24. CASE Gone(c)
  <2>1. UNCHANGED to_client
    BY <1>2, <1>8, <1>24 DEF simple_send
  <2>2. StreamType'
    BY <1>2, <2>1 DEF OrderInv, StreamType
  <2>3. Untouched(c)
    BY <1>2, <1>7, <2>1 DEF Untouched, RespPending
  <2>4. ProgOf(c)' /\ ResponseOf(c)' /\ Stream(c)' = Stream(c)
    BY <1>7, <1>8, <2>3, UntouchedKeep DEF OrderInv
  <2>5. c \in Publishers \/ Orderly(c)'
    <3>1. ~Spoiled(c)
      BY <1>24 DEF Gone, Spoiled
    <3> QED BY <1>21, <1>23, <1>24, <2>4, <3>1 DEF Orderly
  <2>6. ClientInv(c)'
    BY <1>22, <2>4, <2>5 DEF ClientInv
  <2> QED BY <1>13, <1>14, <1>16, <1>20, <2>1, <2>2, <2>6 DEF OrderInv
<1>25. CASE ~Gone(c)
  <2>1. to_client' = [to_client EXCEPT ![c] = Append(@, m)]
    BY <1>1, <1>2, <1>8, <1>25 DEF simple_send
  <2>2. m \in StreamMsgs /\ ~IsResponse(m) /\ IsFrom(m, p) /\ m.n = n /\ \A x : IsFrom(m, x) => x = p
    BY <1>10, <1>11 DEF StreamMsgs, DataMsgs, IsResponse, IsFrom
  <2>3. to_client'[c] = Append(to_client[c], m) /\ \A d \in Clients : d # c => to_client'[d] = to_client[d]
    BY <1>8, <2>1 DEF OrderInv, StreamType
  <2>4. /\ Stream(c) \in Seq(StreamMsgs) /\ Stream(c)' = Append(Stream(c), m)
        /\ to_client[c] \in Seq(StreamMsgs) /\ to_client'[c] \in Seq(StreamMsgs) /\ Len(to_client[c]) \in Nat
        /\ \A i \in DOMAIN to_client'[c] :
             \/ i \in DOMAIN to_client[c] /\ to_client'[c][i] = to_client[c][i]
             \/ i = Len(to_client[c]) + 1 /\ to_client'[c][i] = m
        /\ Spoiled(c) /\ prog'[c] = prog[c] /\ id'[c] = id[c] => Spoiled(c)'
    BY <1>2, <1>8, <2>2, <2>3, StreamSent
  <2>5. StreamType'
    BY <1>2, <1>8, <2>1, <2>3, <2>4 DEF OrderInv, StreamType
  <2>6. ProgOf(c)'
    BY <1>2, <1>7, <1>12, <1>21, <1>23, <1>25 DEF ProgOf
  <2>7. \A i \in DOMAIN to_client'[c] : IsResponse(to_client'[c][i]) =>
          i \in DOMAIN to_client[c] /\ to_client'[c][i] = to_client[c][i]
    BY <2>2, <2>4
  <2>8. ResponseOf(c)'
    <3>1. RespPending(c)' <=> RespPending(c)
      BY <1>2 DEF RespPending
    <3> QED BY <1>2, <1>7, <1>21, <2>7, <3>1 DEF ResponseOf
  <2>9. ASSUME Orderly(c) PROVE Orderly(c)'
    <3>1. PICK t : t = Append(Stream(c), m)
      OBVIOUS
    <3>2. LastIs(Stream(c), p, n - 1) /\ WithoutGaps(Stream(c))
      BY <1>1, <1>9, <1>11, <1>17, <1>25, <2>2, <2>9 DEF Orderly
    <3>3. /\ \A x, k : ~IsFrom(m, x) /\ LastIs(Stream(c), x, k) => LastIs(t, x, k)
          /\ \A x : IsFrom(m, x) => LastIs(t, x, m.n)
          /\ WithoutGaps(t)
      <4>1. \A x \in Publishers : IsFrom(m, x) => LastIs(Stream(c), x, m.n - 1)
        BY <2>2, <3>2
      <4> QED BY <2>2, <2>4, <3>1, <3>2, <4>1, GapsAppend
    <3>4. Stream(c)' = t
      BY <2>4, <3>1
    <3>5. ASSUME status[c] = "registered", NEW x \in Publishers, topic[x] = topic[c]
          PROVE  LastIs(t, x, NextOf(x)' - 1)
      <4>1. CASE x = p
        BY <1>10, <1>15, <2>2, <3>3, <4>1
      <4>2. CASE x # p
        <5>1. LastIs(Stream(c), x, NextOf(x) - 1)
          BY <1>1, <1>9, <1>25, <2>9, <3>5, <4>2 DEF Orderly
        <5>2. LastIs(t, x, NextOf(x) - 1)
          BY <2>2, <3>3, <4>2, <5>1
        <5> QED BY <1>15, <5>2
      <4> QED BY <4>1, <4>2
    <3> QED BY <1>7, <1>18, <3>3, <3>4, <3>5 DEF Orderly
  <2>10. ClientInv(c)'
    BY <1>2, <1>7, <1>21, <1>22, <2>4, <2>6, <2>8, <2>9 DEF ClientInv
  <2> QED BY <1>13, <1>14, <1>16, <1>20, <2>3, <2>5, <2>10 DEF OrderInv
<1> QED BY <1>24, <1>25

\* Nobody has said anything.
LEMMA InitOrder == BrokerInit => Undisturbed /\ OrderInv
<1> SUFFICES ASSUME BrokerInit PROVE Undisturbed /\ OrderInv
  OBVIOUS
<1>1. Init /\ TableInv
  BY InitTableInv DEF BrokerInit
<1>2. Undisturbed
  BY <1>1 DEF BrokerInit, Init, init_client_list, Undisturbed, AllConfirmed, TopicsInOneSlot
<1>3. NoStale
  BY <1>1 DEF Init, init_client_list, NoStale
<1>4. StreamType
  <2>1. <<>> \in Seq(StreamMsgs) /\ <<>> \in Seq(DataMsgs) /\ <<>> \in Seq(RequestMsgs)
    BY EmptySeq
  <2> QED BY <2>1 DEF BrokerInit, StreamType, RequestMsgs
<1>5. AwaitsRegister /\ ConnsInv /\ ~Sending
  BY DEF BrokerInit, AwaitsRegister, ConnsInv, Sending, Rest, Pollers
<1>6. SendInv
  BY <1>5 DEF SendInv
<1>7. ASSUME NEW c \in Clients PROVE ClientInv(c)
  <2>1. /\ status[c] = "new" /\ id[c] = -1 /\ prog[c] = "start" /\ to_broker[c] = <<>> /\ to_client[c] = <<>>
        /\ received[c] = <<>> /\ published[c] = 0 /\ my_id[c] = -1 /\ c \notin misread
        /\ type[c] = PUBLISHER <=> c \in Publishers
    BY <1>1 DEF BrokerInit, Init
  <2>2. ProgOf(c)
    BY <2>1 DEF ProgOf, Gone
  <2>3. RequestOf(c)
    BY <2>1 DEF RequestOf
  <2>4. ResponseOf(c)
    BY <2>1 DEF ResponseOf, RespPending, BrokerInit
  <2>5. WithoutGaps(Stream(c)) /\ \A p, n : LastIs(Stream(c), p, n)
    BY <2>1, EmptyStream
  <2>6. Orderly(c)
    BY <2>5 DEF Orderly
  <2> QED BY <2>2, <2>3, <2>4, <2>6 DEF ClientInv
<1> QED BY <1>1, <1>2, <1>3, <1>4, <1>5, <1>6, <1>7 DEF OrderInv

\* Every step that disturbs nothing keeps the invariant.
LEMMA OrderPreserved ==
  ASSUME DescriptorInv, OrderInv, Undisturbed, Undisturbed', [BrokerNext]_all_vars
  PROVE  OrderInv'
<1>1. prog \in [Clients -> Programs]
  BY DEF DescriptorInv, DescriptorType
<1>2. CASE BrokerEnds
  BY <1>2, EndOrder DEF BrokerEnds, programs
<1>3. CASE accept_thread
  BY <1>2, <1>3, AcceptOrder, RegisterOrder, RegisterIsFirst, RespondOrder DEF accept_thread, accept_fails
<1>4. ASSUME NEW t \in Pollers, poll_thread(t) PROVE OrderInv'
  BY <1>2, <1>4, GetAllOrder, CloseOrder, RecvUnregisterOrder, NothingInvalid DEF poll_thread, recv_fails
<1>5. CASE fordwarder_thread \/ subscriber_thread
  <2>1. ASSUME NEW s \in Clients, recv_publisher_msg(s) \/ send_subscriber_msg(s) \/ send_fails(s)
        PROVE  OrderInv'
    BY <1>2, <2>1, ForwardOrder, SendOrder DEF send_fails
  <2> QED BY <1>4, <1>5, <2>1 DEF fordwarder_thread, subscriber_thread, Pollers
<1>6. ASSUME NEW c \in Clients, client_program(c) PROVE OrderInv'
  BY <1>1, <1>6, SetupOrder, SendRegisterOrder, ResponseOrder, PublishOrder, SubscribeOrder, MisreadOrder
     DEF client_program
<1>7. ASSUME NEW c \in Clients, send_config_unregister(c) \/ Die(c) PROVE OrderInv'
  BY <1>1, <1>7, UnregisterOrder, DieOrder
<1>8. CASE UNCHANGED all_vars
  BY <1>8, EndOrder DEF all_vars, broker_vars, sockets, programs
<1> QED BY <1>3, <1>5, <1>6, <1>7, <1>8 DEF BrokerNext

\* Once something is disturbed, nothing more is claimed.
HistoryInv == disturbed \/ (Undisturbed /\ OrderInv)

\* Every step keeps it: what is disturbed stays so.
LEMMA HistoryPreserved == DescriptorInv /\ HistoryInv /\ [BrokerNext]_all_vars => HistoryInv'
<1> SUFFICES ASSUME DescriptorInv, HistoryInv, [BrokerNext]_all_vars, ~disturbed' PROVE (Undisturbed /\ OrderInv)'
  BY DEF HistoryInv
<1>1. ~disturbed /\ Undisturbed'
  <2>1. CASE BrokerNext
    BY <2>1 DEF BrokerNext, Undisturbed
  <2>2. CASE UNCHANGED all_vars
    BY <2>2 DEF HistoryInv, all_vars, broker_vars, vars, programs, Undisturbed, AllConfirmed, TopicsInOneSlot
  <2> QED BY <2>1, <2>2
<1> QED BY <1>1, OrderPreserved DEF HistoryInv

\* What was read is part of what was sent.
LEMMA OrderIsKept == OrderInv => DataInOrder
<1> SUFFICES ASSUME OrderInv, NEW c \in Clients, NEW i \in DOMAIN received[c], NEW j \in DOMAIN received[c],
                    i < j, received[c][i].from = received[c][j].from,
                    \A k \in (i + 1)..(j - 1) : received[c][k].from # received[c][i].from
             PROVE  received[c][j].n = received[c][i].n + 1
  BY DEF DataInOrder
<1>1. received[c] \in Seq(DataMsgs) /\ to_client[c] \in Seq(StreamMsgs) /\ received[c] \in Seq(StreamMsgs)
  <2>1. DataMsgs \subseteq StreamMsgs
    BY DEF StreamMsgs
  <2> QED BY <2>1 DEF OrderInv, StreamType
<1>2. received[c] # <<>>
  OBVIOUS
<1>3. Orderly(c)
  BY <1>2 DEF OrderInv, ClientInv, ProgOf, Spoiled
<1>4. WithoutGaps(received[c])
  BY <1>1, <1>3, GapsPrefix DEF Orderly, Stream
<1>5. PICK r : r = received[c]
  OBVIOUS
<1>6. /\ DOMAIN r \subseteq Int /\ \A k \in DOMAIN r : r[k] \in DataMsgs
      /\ \A k \in DOMAIN r : i < k /\ k < j => k \in (i + 1)..(j - 1)
  BY <1>1, <1>5
<1>7. PICK p \in Publishers : p = r[i].from
  BY <1>5, <1>6 DEF DataMsgs
<1>8. IsFrom(r[i], p) /\ IsFrom(r[j], p) /\ \A k \in DOMAIN r : i < k /\ k < j => ~IsFrom(r[k], p)
  BY <1>5, <1>6, <1>7 DEF IsFrom, DataMsgs
<1> QED BY <1>4, <1>5, <1>8 DEF WithoutGaps

\* As long as nobody took a wrong id and no topic had two slots, what a
\* subscriber reads of a publisher is a stretch of what that has published: the
\* forwarder loses, repeats and reorders nothing.
THEOREM SubscribersReadInOrder == BrokerSpec => []DataInOrder
<1>1. BrokerInit => HistoryInv
  BY InitOrder DEF HistoryInv
<1>2. BrokerSpec => []HistoryInv
  BY <1>1, HistoryPreserved, DescriptorInvariance, PTL DEF BrokerSpec
<1>3. HistoryInv => DataInOrder
  BY OrderIsKept DEF HistoryInv, DataInOrder
<1> QED BY <1>2, <1>3, PTL
-----------------------------------------------------------------------------
\* The types of the broker's variables, also once it is disturbed.
Labels == {"list", "poll", "recv", "send", "close"}

ThreadType ==
  \A t \in Pollers :
    /\ polling[t].pc \in Labels
    /\ polling[t].conns \subseteq Clients /\ polling[t].subs \subseteq Clients
    /\ polling[t].pc = "send" => polling[t].data \in Data

Posts == {r \in Requests : r.action = "PUBLISH_DATA" => r.id <= MAX_PUBLISHED}

ProgramType ==
  /\ running \in BOOLEAN
  /\ to_broker \in [Clients -> Seq(Posts)]
  /\ published \in [Clients -> 0..MAX_PUBLISHED]
  /\ my_id \in [Clients -> Nat \cup {-1}]
  /\ \A c \in Clients : prog[c] = "active" => my_id[c] \in Nat

Answers == Data \cup Responses

AnswerType ==
  /\ to_client \in [Clients -> Seq(Answers)]
  /\ received \in [Clients -> Seq(Data)]
  /\ reset \subseteq Clients /\ misread \subseteq Clients

NoResponse(q) == \A i \in DOMAIN q : ~IsResponse(q[i])
OneResponse(q) == \A i, j \in DOMAIN q : IsResponse(q[i]) /\ IsResponse(q[j]) => i = j

Unanswered(c) == Unknown(c) \/ accepting.client = c

\* Each client is sent one response, and one that goes on as it should has read
\* it: what it reads from there on is data.
AnswersOf(c) ==
  /\ OneResponse(to_client[c])
  /\ Unanswered(c) => NoResponse(to_client[c])
  /\ prog[c] = "active" /\ c \notin misread => ~Unanswered(c) /\ NoResponse(to_client[c])
  /\ Unknown(c) => to_client[c] = <<>>

AnswerInv == AnswerType /\ \A c \in Clients : AnswersOf(c)

BrokerTypeInv == TableExact /\ ThreadType /\ ProgramType /\ AnswerInv /\ disturbed \in BOOLEAN

-----------------------------------------------------------------------------
\* A descriptor that is open, and read from or sent to, is some client's.
LEMMA OpenIsOwned ==
  ASSUME DescriptorInv, NEW f, ~Closed(f)
  PROVE  f \in Fds /\ owner[f] \in Clients
BY DEF DescriptorInv, DescriptorType, Closed, FreeFds

\* The table is only changed by its own operations.
LEMMA TableStaysExact ==
  ASSUME DescriptorInv, TableExact, [BrokerNext]_all_vars
  PROVE  TableExact'
<1>1. CASE UNCHANGED vars
  BY <1>1 DEF vars, TableExact, TypeOK, CountersCount, EntriesOf, IdsUnique, NamedIffUsed, Homes
<1>2. CASE recv_register_msg
  <2>1. accepting.client \in Clients
    BY <1>2 DEF recv_register_msg, DescriptorInv, AcceptInv
  <2> QED BY <1>2, <2>1, AddKeepsExact, FullKeepsExact DEF recv_register_msg
<1>3. ASSUME NEW t \in Pollers, NEW s \in Clients, recv_unregister_msg(t, s) PROVE TableExact'
  <2>1. ~Closed(fd[s])
    BY <1>3 DEF recv_unregister_msg, Receives, HasMessage, Unread
  <2>2. owner[fd[s]] \in Clients
    BY <2>1, OpenIsOwned
  <2>3. PICK n : remove_client(owner[fd[s]], n)
    BY <1>3 DEF recv_unregister_msg
  <2> QED BY <2>2, <2>3, RemoveKeepsExact
<1>4. CASE accept_thread
  BY <1>1, <1>2, <1>4 DEF accept_thread, accept_new_client, register_invalid_action, send_response_msg,
    accept_fails, BrokerEnds
<1>5. ASSUME NEW t \in Pollers, poll_thread(t) PROVE TableExact'
  BY <1>1, <1>3, <1>5 DEF poll_thread, get_all_clients, poll, close_connection, recv_invalid_action,
    recv_fails, BrokerEnds
<1>6. CASE fordwarder_thread \/ subscriber_thread
  <2>1. ASSUME NEW s \in Clients, recv_publisher_msg(s) \/ send_subscriber_msg(s) \/ send_fails(s)
        PROVE  TableExact'
    BY <1>1, <2>1 DEF recv_publisher_msg, send_subscriber_msg, send_fails, BrokerEnds
  <2> QED BY <1>5, <1>6, <2>1 DEF fordwarder_thread, subscriber_thread, Pollers
<1>7. ASSUME NEW c \in Clients, client_program(c) \/ send_config_unregister(c) \/ Die(c) PROVE TableExact'
  BY <1>1, <1>7 DEF client_program, setup_client, send_config_register, recv_response_msg, publish,
    subscribe, subscribe_misread, send_config_unregister, Die
<1>8. CASE UNCHANGED all_vars
  BY <1>1, <1>8 DEF all_vars, broker_vars
<1> QED BY <1>4, <1>6, <1>7, <1>8 DEF BrokerNext

-----------------------------------------------------------------------------
\* A thread goes somewhere else.
LEMMA GotoKeepsTypes ==
  ASSUME DescriptorInv, ThreadType, NEW t \in Pollers, NEW r, Goto(t, r),
         r.pc \in Labels, r.conns \subseteq Clients, r.subs \subseteq Clients,
         r.pc = "send" => r.data \in Data
  PROVE  ThreadType'
<1>1. polling' = [polling EXCEPT ![t] = r] /\ polling = [u \in Pollers |-> polling[u]]
  BY DEF Goto, DescriptorInv, DescriptorType
<1>2. polling'[t] = r /\ \A u \in Pollers : u # t => polling'[u] = polling[u]
  BY <1>1
<1> QED BY <1>2 DEF ThreadType

LEMMA ContinueKeepsTypes ==
  ASSUME DescriptorInv, ThreadType, NEW t \in Pollers, NEW r, Continue(t, r), r.conns \subseteq Clients
  PROVE  ThreadType'
<1> DEFINE q == [Rest EXCEPT !.pc = IF r.conns = {} THEN "list" ELSE "recv", !.conns = r.conns]
<1>1. q.pc \in Labels \ {"send"} /\ q.conns \subseteq Clients /\ q.subs \subseteq Clients
  BY DEF Rest, Labels
<1>2. Goto(t, q)
  BY DEF Continue
<1> HIDE DEF q
<1> QED BY <1>1, <1>2, GotoKeepsTypes

\* What is copied out of the table are clients.
LEMMA CopiesAreClients ==
  ASSUME TableExact
  PROVE  (\A ct : get_all(ct) \subseteq Clients) /\ (\A x : get_subscribers(x) \subseteq Clients)
BY DEF TableExact, TypeOK, Entries, get_all, get_subscribers, ClientsIn

LEMMA ThreadsKeepTypes ==
  ASSUME DescriptorInv, BrokerTypeInv, [BrokerNext]_all_vars
  PROVE  ThreadType'
<1> USE DEF BrokerTypeInv
<1>1. CASE UNCHANGED polling
  BY <1>1 DEF ThreadType
<1>2. CASE accept_thread
  BY <1>1, <1>2 DEF accept_thread, accept_new_client, recv_register_msg, register_invalid_action,
    send_response_msg, accept_fails, BrokerEnds
<1>3. ASSUME NEW t \in Pollers, get_all_clients(t) PROVE ThreadType'
  <2> DEFINE q == [Rest EXCEPT !.pc = "poll", !.conns = get_all(Polled(t))]
  <2>1. q.pc = "poll" /\ q.conns \subseteq Clients /\ q.subs \subseteq Clients
    BY CopiesAreClients DEF Rest
  <2>2. Goto(t, q)
    BY <1>3 DEF get_all_clients
  <2> HIDE DEF q
  <2> QED BY <2>1, <2>2, GotoKeepsTypes DEF Labels
<1>4. ASSUME NEW t \in Pollers, poll(t) PROVE ThreadType'
  <2> DEFINE q == [polling[t] EXCEPT !.conns = {s \in @ : Readable(fd[s])}]
  <2>1. DOMAIN polling[t] = Fields /\ polling[t].conns \subseteq Clients
    BY DEF ThreadType, DescriptorInv, DescriptorType
  <2>2. q.conns \subseteq Clients
    BY <2>1 DEF Fields
  <2>3. Continue(t, q)
    BY <1>4 DEF poll
  <2> HIDE DEF q
  <2> QED BY <2>2, <2>3, ContinueKeepsTypes
<1>5. ASSUME NEW t \in Pollers, close_connection(t) PROVE ThreadType'
  BY <1>5, ContinueKeepsTypes DEF close_connection, ThreadType
<1>6. ASSUME NEW t \in Pollers, NEW s \in Clients
      PROVE  /\ DOMAIN Took(t, s) = Fields /\ Took(t, s).conns \subseteq Clients
             /\ Took(t, s).subs = polling[t].subs /\ polling[t].subs \subseteq Clients
  BY DEF ThreadType, DescriptorInv, DescriptorType, Took, Fields
<1>7. ASSUME NEW t \in Pollers, NEW s \in Clients, recv_unregister_msg(t, s) PROVE ThreadType'
  <2> DEFINE q == [Took(t, s) EXCEPT !.pc = "close", !.fd = fd[s]]
  <2>1. q.pc = "close" /\ q.conns \subseteq Clients /\ q.subs \subseteq Clients
    BY <1>6 DEF Fields
  <2>2. Goto(t, q)
    BY <1>7 DEF recv_unregister_msg
  <2> HIDE DEF q
  <2> QED BY <2>1, <2>2, GotoKeepsTypes DEF Labels
<1>8. ASSUME NEW t \in Pollers, NEW s \in Clients, recv_invalid_action(t, s) PROVE ThreadType'
  BY <1>6, <1>8, ContinueKeepsTypes DEF recv_invalid_action
<1>9. ASSUME NEW s \in Clients, recv_publisher_msg(s) PROVE ThreadType'
  <2> DEFINE f == fd[s]
             subs == get_subscribers(topic[owner[f]])
             data == [kind |-> "data", from |-> owner[f], n |-> Message(f).id]
             q == [Took(FORDWARDER, s) EXCEPT !.pc = "send", !.subs = subs, !.data = data]
  <2>1. FORDWARDER \in Pollers /\ HasMessage(f) /\ Message(f).action = "PUBLISH_DATA"
        /\ IF subs = {} THEN Continue(FORDWARDER, q) ELSE Goto(FORDWARDER, q)
    BY <1>9 DEF recv_publisher_msg, Receives, Pollers
  <2>2. owner[f] \in Clients /\ to_broker[owner[f]] # <<>>
    BY <2>1, OpenIsOwned DEF HasMessage, Unread
  <2>3. Message(f) \in Posts
    BY <2>2 DEF ProgramType, Message
  <2>4. data \in Data
    BY <2>1, <2>2, <2>3, BrokerAssumption DEF Posts, Requests, Data
  <2>5. subs \subseteq Clients
    BY CopiesAreClients
  <2> HIDE DEF subs, data
  <2>6. q.pc = "send" /\ q.conns \subseteq Clients /\ q.subs \subseteq Clients /\ q.data \in Data
    BY <1>6, <2>1, <2>4, <2>5 DEF Fields
  <2> HIDE DEF q
  <2> QED BY <2>1, <2>6, GotoKeepsTypes, ContinueKeepsTypes DEF Labels
<1>10. ASSUME NEW s \in Clients, send_subscriber_msg(s) PROVE ThreadType'
  <2> DEFINE r == polling[FORDWARDER]
             q == [r EXCEPT !.subs = @ \ {s}]
  <2>1. FORDWARDER \in Pollers /\ r.pc = "send"
        /\ IF r.subs = {s} THEN Continue(FORDWARDER, r) ELSE Goto(FORDWARDER, q)
    BY <1>10 DEF send_subscriber_msg, Pollers
  <2>2. DOMAIN r = Fields /\ r.conns \subseteq Clients /\ r.subs \subseteq Clients /\ r.data \in Data
    BY <2>1 DEF ThreadType, DescriptorInv, DescriptorType
  <2>3. q.pc = "send" /\ q.conns \subseteq Clients /\ q.subs \subseteq Clients /\ q.data \in Data
    BY <2>1, <2>2 DEF Fields
  <2> HIDE DEF q
  <2> QED BY <2>1, <2>2, <2>3, GotoKeepsTypes, ContinueKeepsTypes DEF Labels
<1>11. ASSUME NEW t \in Pollers, poll_thread(t) PROVE ThreadType'
  BY <1>1, <1>3, <1>4, <1>5, <1>7, <1>8, <1>11 DEF poll_thread, recv_fails, BrokerEnds
<1>12. CASE fordwarder_thread \/ subscriber_thread
  BY <1>1, <1>9, <1>10, <1>11, <1>12 DEF fordwarder_thread, subscriber_thread, Pollers, send_fails, BrokerEnds
<1>13. ASSUME NEW c \in Clients, client_program(c) \/ send_config_unregister(c) \/ Die(c) PROVE ThreadType'
  BY <1>1, <1>13 DEF client_program, setup_client, send_config_register, recv_response_msg, publish,
    subscribe, subscribe_misread, send_config_unregister, Die
<1>14. CASE UNCHANGED all_vars
  BY <1>1, <1>14 DEF all_vars, broker_vars
<1> QED BY <1>2, <1>12, <1>13, <1>14 DEF BrokerNext

-----------------------------------------------------------------------------
\* A request is sent, or read.
LEMMA PostSent ==
  ASSUME ProgramType, NEW c \in Clients, NEW r \in Posts, to_broker' = [to_broker EXCEPT ![c] = Append(@, r)]
  PROVE  to_broker' \in [Clients -> Seq(Posts)]
BY DEF ProgramType

LEMMA PostRead ==
  ASSUME ProgramType, NEW c \in Clients, to_broker[c] # <<>>, to_broker' = [to_broker EXCEPT ![c] = Tail(@)]
  PROVE  to_broker' \in [Clients -> Seq(Posts)]
<1>1. Tail(to_broker[c]) \in Seq(Posts)
  BY DEF ProgramType
<1> QED BY <1>1 DEF ProgramType

LEMMA ConsumeReads ==
  ASSUME DescriptorInv, ProgramType, NEW f, HasMessage(f), Consume(f)
  PROVE  to_broker' \in [Clients -> Seq(Posts)]
<1>1. owner[f] \in Clients /\ to_broker[owner[f]] # <<>>
  BY OpenIsOwned DEF HasMessage, Unread
<1> QED BY <1>1, PostRead DEF Consume

\* Nothing changes but that the requests do, or who is still active.
LEMMA ProgramsKept ==
  ASSUME ProgramType, to_broker' \in [Clients -> Seq(Posts)], running' \in BOOLEAN,
         UNCHANGED <<published, my_id>>,
         \A c \in Clients : prog'[c] = "active" => prog[c] = "active"
  PROVE  ProgramType'
BY DEF ProgramType

LEMMA ProgramsKeepTypes ==
  ASSUME DescriptorInv, BrokerTypeInv, [BrokerNext]_all_vars
  PROVE  ProgramType'
<1> USE DEF BrokerTypeInv
<1>0. /\ to_broker \in [Clients -> Seq(Posts)] /\ running \in BOOLEAN /\ prog \in [Clients -> Programs]
      /\ my_id \in [Clients -> Nat \cup {-1}]
  BY DEF ProgramType, DescriptorInv, DescriptorType
<1>1. CASE UNCHANGED <<to_broker, running, programs>>
  BY <1>0, <1>1, ProgramsKept DEF programs
<1>2. CASE BrokerEnds
  BY <1>0, <1>2, ProgramsKept DEF BrokerEnds, programs
<1>3. CASE accept_thread
  <2>1. CASE recv_register_msg
    <3>1. to_broker[accepting.client] # <<>> /\ accepting.client \in Clients
      <4>1. HasMessage(fd[accepting.client]) /\ accepting.pc = "recv"
        BY <2>1 DEF recv_register_msg
      <4>2. ~Closed(fd[accepting.client])
        BY <4>1 DEF HasMessage, Unread
      <4>3. owner[fd[accepting.client]] = accepting.client
        BY <4>1, <4>2 DEF DescriptorInv, AcceptInv, Closed, FreeFds
      <4> QED BY <4>1, <4>2, <4>3, OpenIsOwned DEF HasMessage, Unread
    <3>2. to_broker' \in [Clients -> Seq(Posts)]
      BY <2>1, <3>1, PostRead DEF recv_register_msg
    <3> QED BY <1>0, <2>1, <3>2, ProgramsKept DEF recv_register_msg, programs
  <2>2. CASE register_invalid_action
    <3>1. to_broker' \in [Clients -> Seq(Posts)]
      BY <2>2, ConsumeReads DEF register_invalid_action
    <3> QED BY <1>0, <2>2, <3>1, ProgramsKept DEF register_invalid_action, programs
  <2> QED BY <1>1, <1>2, <1>3, <2>1, <2>2
     DEF accept_thread, accept_new_client, send_response_msg, accept_fails
<1>4. ASSUME NEW t \in Pollers, NEW s \in Clients,
             \/ recv_unregister_msg(t, s) \/ recv_invalid_action(t, s) \/ recv_publisher_msg(s)
      PROVE  ProgramType'
  <2>1. HasMessage(fd[s]) /\ Consume(fd[s]) /\ UNCHANGED <<running, programs>>
    BY <1>4 DEF recv_unregister_msg, recv_invalid_action, recv_publisher_msg, Receives
  <2>2. to_broker' \in [Clients -> Seq(Posts)]
    BY <2>1, ConsumeReads
  <2> QED BY <1>0, <2>1, <2>2, ProgramsKept DEF programs
<1>5. ASSUME NEW t \in Pollers, poll_thread(t) PROVE ProgramType'
  BY <1>1, <1>2, <1>4, <1>5 DEF poll_thread, get_all_clients, poll, close_connection, recv_fails, sockets
<1>6. CASE fordwarder_thread \/ subscriber_thread
  <2>1. FORDWARDER \in Pollers /\ UNREGISTERER \in Pollers
    BY DEF Pollers
  <2>2. ASSUME NEW s \in Clients, recv_publisher_msg(s) \/ send_subscriber_msg(s) \/ send_fails(s)
        PROVE  ProgramType'
    BY <1>1, <1>2, <1>4, <2>1, <2>2 DEF send_subscriber_msg, send_fails
  <2> QED BY <1>5, <1>6, <2>1, <2>2 DEF fordwarder_thread, subscriber_thread
<1>7. ASSUME NEW c \in Clients, setup_client(c) \/ subscribe(c) \/ subscribe_misread(c) \/ Die(c)
      PROVE  ProgramType'
  <2>1. UNCHANGED <<to_broker, running, published, my_id>>
    BY <1>7 DEF setup_client, subscribe, subscribe_misread, Die
  <2>2. \A d \in Clients : prog'[d] = "active" => prog[d] = "active"
    BY <1>0, <1>7 DEF setup_client, subscribe, subscribe_misread, Die, CloseSocket
  <2> QED BY <1>0, <2>1, <2>2, ProgramsKept
<1>8. ASSUME NEW c \in Clients, send_config_register(c) \/ send_config_unregister(c) PROVE ProgramType'
  <2>1. PICK r \in Posts : to_broker' = [to_broker EXCEPT ![c] = Append(@, r)]
    <3>1. CASE send_config_register(c)
      <4>1. [action |-> "REGISTER", id |-> 0] \in Posts
        BY DEF Posts, Requests
      <4> QED BY <3>1, <4>1 DEF send_config_register, Request
    <3>2. CASE send_config_unregister(c)
      <4>1. my_id[c] \in Nat
        BY <3>2 DEF ProgramType, send_config_unregister
      <4>2. [action |-> "UNREGISTER", id |-> my_id[c]] \in Posts
        BY <4>1 DEF Posts, Requests
      <4> QED BY <3>2, <4>2 DEF send_config_unregister, Request
    <3> QED BY <1>8, <3>1, <3>2
  <2>2. to_broker' \in [Clients -> Seq(Posts)]
    BY <2>1, PostSent
  <2>3. /\ UNCHANGED <<running, published, my_id>>
        /\ \A d \in Clients : prog'[d] = "active" => prog[d] = "active"
    BY <1>0, <1>8 DEF send_config_register, send_config_unregister, CloseSocket
  <2> QED BY <1>0, <2>2, <2>3, ProgramsKept
<1>9. ASSUME NEW c \in Clients, recv_response_msg(c) PROVE ProgramType'
  <2>1. UNCHANGED <<to_broker, running, published>>
    BY <1>9 DEF recv_response_msg
  <2>2. my_id' \in [Clients -> Nat \cup {-1}] /\ \A d \in Clients : prog'[d] = "active" => my_id'[d] \in Nat
    <3>1. PICK msg : msg = to_client[c][1]
      OBVIOUS
    <3>2. msg \in Answers /\ to_client[c] # <<>> /\ Head(to_client[c]) = msg
      BY <1>9, <3>1 DEF recv_response_msg, AnswerInv, AnswerType
    <3>3. CASE msg.kind = "response" /\ msg.id >= 0
      <4>1. msg.id \in Nat
        BY <3>2, <3>3 DEF Answers, Data, Responses
      <4>2. prog' = [prog EXCEPT ![c] = "active"] /\ my_id' = [my_id EXCEPT ![c] = msg.id]
        BY <1>9, <3>2, <3>3, <4>1 DEF recv_response_msg
      <4> QED BY <1>0, <4>1, <4>2 DEF ProgramType
    <3>4. CASE ~(msg.kind = "response" /\ msg.id >= 0)
      <4>1. \/ prog' = [prog EXCEPT ![c] = "refused"] /\ UNCHANGED my_id
            \/ prog' = [prog EXCEPT ![c] = "active"] /\ my_id' = [my_id EXCEPT ![c] = 0]
        BY <1>9, <3>2, <3>4 DEF recv_response_msg
      <4>2. CASE prog' = [prog EXCEPT ![c] = "refused"] /\ UNCHANGED my_id
        BY <1>0, <4>2 DEF ProgramType
      <4>3. CASE prog' = [prog EXCEPT ![c] = "active"] /\ my_id' = [my_id EXCEPT ![c] = 0]
        BY <1>0, <4>3 DEF ProgramType
      <4> QED BY <4>1, <4>2, <4>3
    <3> QED BY <3>3, <3>4
  <2> QED BY <2>1, <2>2 DEF ProgramType
<1>10. ASSUME NEW c \in Clients, publish(c) PROVE ProgramType'
  <2>1. /\ published[c] \in 0..MAX_PUBLISHED /\ published[c] < MAX_PUBLISHED
        /\ published' = [published EXCEPT ![c] = @ + 1]
        /\ UNCHANGED <<running, prog, my_id>>
    BY <1>10 DEF publish, ProgramType
  <2>2. [action |-> "PUBLISH_DATA", id |-> published[c]] \in Posts
    BY <2>1, BrokerAssumption DEF Posts, Requests
  <2>3. to_broker' \in [Clients -> Seq(Posts)]
    BY <1>10, <2>2, PostSent DEF publish, Request
  <2>4. published' \in [Clients -> 0..MAX_PUBLISHED]
    BY <2>1, BrokerAssumption DEF ProgramType
  <2> QED BY <2>1, <2>3, <2>4 DEF ProgramType
<1>11. ASSUME NEW c \in Clients, client_program(c) \/ send_config_unregister(c) \/ Die(c) PROVE ProgramType'
  BY <1>7, <1>8, <1>9, <1>10, <1>11 DEF client_program
<1>12. CASE UNCHANGED all_vars
  BY <1>1, <1>12 DEF all_vars, broker_vars, sockets
<1> QED BY <1>3, <1>6, <1>11, <1>12 DEF BrokerNext

-----------------------------------------------------------------------------
\* What is left to read, and what one more message makes of it.
LEMMA ResponsesLeft ==
  ASSUME NEW q \in Seq(Answers), q # <<>>
  PROVE  /\ Tail(q) \in Seq(Answers) /\ q[1] \in Answers /\ Head(q) = q[1]
         /\ OneResponse(q) => OneResponse(Tail(q))
         /\ NoResponse(q) => NoResponse(Tail(q)) /\ ~IsResponse(q[1])
         /\ OneResponse(q) /\ IsResponse(q[1]) => NoResponse(Tail(q))
         /\ DOMAIN Tail(q) = 1..(Len(q) - 1) /\ \A i \in DOMAIN Tail(q) : Tail(q)[i] = q[i + 1]
<1>1. PICK t : t = Tail(q)
  OBVIOUS
<1>2. /\ t \in Seq(Answers) /\ Len(q) \in Nat \ {0} /\ DOMAIN q = 1..Len(q) /\ DOMAIN t = 1..(Len(q) - 1)
      /\ \A i \in DOMAIN t : t[i] = q[i + 1] /\ i + 1 \in DOMAIN q
      /\ q[1] \in Answers /\ Head(q) = q[1] /\ 1 \in DOMAIN q
  BY <1>1
<1>3. OneResponse(q) => OneResponse(t)
  <2> SUFFICES ASSUME OneResponse(q), NEW i \in DOMAIN t, NEW j \in DOMAIN t, IsResponse(t[i]), IsResponse(t[j])
               PROVE  i = j
    BY DEF OneResponse
  <2>1. i + 1 = j + 1
    BY <1>2 DEF OneResponse
  <2> QED BY <1>2, <2>1
<1>4. NoResponse(q) => NoResponse(t) /\ ~IsResponse(q[1])
  BY <1>2 DEF NoResponse
<1>5. OneResponse(q) /\ IsResponse(q[1]) => NoResponse(t)
  <2> SUFFICES ASSUME OneResponse(q), IsResponse(q[1]), NEW i \in DOMAIN t, IsResponse(t[i]) PROVE FALSE
    BY DEF NoResponse
  <2>1. i + 1 = 1
    BY <1>2 DEF OneResponse
  <2> QED BY <1>2, <2>1
<1> QED BY <1>1, <1>2, <1>3, <1>4, <1>5

LEMMA ResponseSent ==
  ASSUME NEW q \in Seq(Answers), NEW msg \in Answers
  PROVE  /\ Append(q, msg) \in Seq(Answers)
         /\ NoResponse(q) /\ ~IsResponse(msg) => NoResponse(Append(q, msg))
         /\ OneResponse(q) /\ ~IsResponse(msg) => OneResponse(Append(q, msg))
         /\ NoResponse(q) => OneResponse(Append(q, msg))
<1>1. PICK t : t = Append(q, msg)
  OBVIOUS
<1>2. /\ t \in Seq(Answers) /\ Len(q) \in Nat /\ DOMAIN q = 1..Len(q) /\ DOMAIN t = 1..(Len(q) + 1)
      /\ \A i \in DOMAIN q : t[i] = q[i]
      /\ t[Len(q) + 1] = msg
  BY <1>1
<1>3. \A i \in DOMAIN t : i \in DOMAIN q \/ i = Len(q) + 1
  BY <1>2
<1> QED BY <1>1, <1>2, <1>3 DEF NoResponse, OneResponse

LEMMA NoneIsNoResponse == NoResponse(<<>>) /\ OneResponse(<<>>)
BY DEF NoResponse, OneResponse

LEMMA NoResponseIsOne == \A q : NoResponse(q) => OneResponse(q)
BY DEF NoResponse, OneResponse

-----------------------------------------------------------------------------
\* A client that a step does not touch, unless it is answered.
LEMMA OtherAnswers ==
  ASSUME NEW d, AnswersOf(d), to_client'[d] = to_client[d], prog'[d] = "active" => prog[d] = "active",
         d \in misread' <=> d \in misread, Unanswered(d)' => Unanswered(d), Unknown(d)' => Unknown(d)
  PROVE  AnswersOf(d)'
BY DEF AnswersOf

\* Who is not known yet, or not answered, after a step that is none of the accept
\* thread's and in which nobody connects.
LEMMA StaysUnanswered ==
  ASSUME UNCHANGED <<backlog, accepting>>, NEW d, prog'[d] = "start" => prog[d] = "start"
  PROVE  (Unknown(d)' => Unknown(d)) /\ (Unanswered(d)' => Unanswered(d))
BY DEF Unknown, Unanswered

\* A step that sends and reads nothing.
LEMMA AnswersKept ==
  ASSUME AnswerInv, UNCHANGED <<to_client, received, misread>>, reset' \subseteq Clients,
         \A d \in Clients : /\ prog'[d] = "active" => prog[d] = "active"
                            /\ Unanswered(d)' => Unanswered(d)
                            /\ Unknown(d)' => Unknown(d)
  PROVE  AnswerInv'
BY OtherAnswers DEF AnswerInv, AnswerType

\* A step that concerns nobody's messages or place in the queue.
LEMMA QuietAnswers ==
  ASSUME AnswerInv, UNCHANGED <<to_client, received, misread, reset, prog, backlog, accepting>>
  PROVE  AnswerInv'
BY StaysUnanswered, AnswersKept DEF AnswerInv, AnswerType

\* A step of client c, which is answered or not as before.
LEMMA ClientAnswers ==
  ASSUME AnswerInv, NEW c \in Clients, UNCHANGED <<backlog, accepting>>,
         prog' = [prog EXCEPT ![c] = prog'[c]], prog'[c] # "start", prog \in [Clients -> Programs],
         to_client' = [to_client EXCEPT ![c] = to_client'[c]], to_client'[c] \in Seq(Answers),
         received' \in [Clients -> Seq(Data)], reset' \subseteq Clients, misread' \subseteq Clients,
         \A d \in Clients : d # c => (d \in misread' <=> d \in misread),
         OneResponse(to_client'[c]),
         Unanswered(c) => NoResponse(to_client'[c]),
         prog'[c] = "active" /\ c \notin misread' => ~Unanswered(c) /\ NoResponse(to_client'[c]),
         Unknown(c) => to_client'[c] = <<>>
  PROVE  AnswerInv'
<1>1. \A d \in Clients : d # c => prog'[d] = prog[d] /\ to_client'[d] = to_client[d]
  BY DEF AnswerInv, AnswerType
<1>2. \A d \in Clients : (Unknown(d)' => Unknown(d)) /\ (Unanswered(d)' => Unanswered(d))
  BY <1>1, StaysUnanswered
<1>3. AnswersOf(c)'
  BY <1>2 DEF AnswersOf
<1>4. \A d \in Clients : AnswersOf(d)'
  BY <1>1, <1>2, <1>3, OtherAnswers DEF AnswerInv
<1>5. AnswerType'
  BY DEF AnswerInv, AnswerType
<1> QED BY <1>4, <1>5 DEF AnswerInv

LEMMA ClientsKeepAnswers ==
  ASSUME DescriptorInv, AnswerInv, NEW c \in Clients,
         client_program(c) \/ send_config_unregister(c) \/ Die(c)
  PROVE  AnswerInv'
<1>0. /\ AnswerType /\ AnswersOf(c) /\ prog \in [Clients -> Programs]
      /\ to_client[c] \in Seq(Answers) /\ received[c] \in Seq(Data)
  BY DEF AnswerInv, AnswerType, DescriptorInv, DescriptorType
<1>1. CASE setup_client(c)
  <2>1. \A d \in Clients : Unknown(d)' <=> Unknown(d)
    BY <1>1, ConnectedIsUnknown
  <2>2. /\ UNCHANGED <<to_client, received, misread, reset, accepting>>
        /\ \A d \in Clients : prog'[d] = "active" => prog[d] = "active"
    BY <1>0, <1>1 DEF setup_client
  <2> QED BY <1>0, <2>1, <2>2, AnswersKept DEF Unanswered, AnswerType
<1>2. CASE send_config_register(c)
  <2>1. /\ UNCHANGED <<to_client, received, misread, reset, backlog, accepting>>
        /\ \A d \in Clients : /\ prog'[d] = "active" => prog[d] = "active"
                              /\ prog'[d] = "start" => prog[d] = "start"
    BY <1>0, <1>2 DEF send_config_register
  <2> QED BY <1>0, <2>1, StaysUnanswered, AnswersKept DEF AnswerType
<1>3. CASE publish(c)
  BY <1>3, QuietAnswers DEF publish
<1>4. CASE recv_response_msg(c)
  <2>1. PICK q \in Seq(Answers) : q = to_client[c]
    BY <1>0
  <2>2. PICK msg \in Answers : msg = q[1]
    BY <1>4, <2>1, ResponsesLeft DEF recv_response_msg
  <2>3. /\ q # <<>> /\ Head(q) = msg /\ Tail(q) \in Seq(Answers)
        /\ UNCHANGED <<backlog, accepting, received, reset>>
    BY <1>4, <2>1, <2>2, ResponsesLeft DEF recv_response_msg
  <2>4. CASE msg.kind = "response" /\ msg.id >= 0
    <3>0. msg.id \in Nat /\ ~(msg.id < 0)
      BY <2>2, <2>4 DEF Answers, Data, Responses
    <3>1. /\ to_client' = [to_client EXCEPT ![c] = Tail(q)] /\ prog' = [prog EXCEPT ![c] = "active"]
          /\ UNCHANGED misread
      BY <1>4, <2>1, <2>3, <2>4, <3>0 DEF recv_response_msg
    <3>2. NoResponse(Tail(q)) /\ OneResponse(Tail(q)) /\ ~NoResponse(q)
      BY <1>0, <2>1, <2>2, <2>3, <2>4, ResponsesLeft DEF AnswersOf, IsResponse
    <3>3. ~Unanswered(c) /\ ~Unknown(c)
      BY <1>0, <2>1, <3>2 DEF AnswersOf, Unanswered
    <3>4. to_client'[c] = Tail(q) /\ prog'[c] = "active"
      BY <1>0, <3>1 DEF AnswerType
    <3> QED BY <1>0, <2>3, <3>1, <3>2, <3>3, <3>4, ClientAnswers DEF AnswerType
  <2>5. CASE msg.kind = "response" /\ ~(msg.id >= 0)
    <3>1. /\ to_client' = [to_client EXCEPT ![c] = <<>>] /\ prog' = [prog EXCEPT ![c] = "refused"]
          /\ UNCHANGED misread
      BY <1>4, <2>1, <2>3, <2>5 DEF recv_response_msg
    <3>2. to_client'[c] = <<>> /\ prog'[c] = "refused" /\ <<>> \in Seq(Answers)
      BY <1>0, <3>1 DEF AnswerType
    <3> QED BY <1>0, <2>3, <3>1, <3>2, NoneIsNoResponse, ClientAnswers DEF AnswerType
  <2>6. CASE msg.kind # "response"
    <3>1. /\ UNCHANGED to_client /\ prog' = [prog EXCEPT ![c] = "active"]
          /\ misread' = misread \cup {c}
      BY <1>4, <2>1, <2>3, <2>6 DEF recv_response_msg
    <3>2. /\ to_client' = [to_client EXCEPT ![c] = q] /\ to_client'[c] = q /\ prog'[c] = "active"
          /\ misread' \subseteq Clients
      BY <1>0, <2>1, <3>1 DEF AnswerType
    <3> QED BY <1>0, <2>1, <2>3, <3>1, <3>2, ClientAnswers DEF AnswerType, AnswersOf
  <2> QED BY <2>4, <2>5, <2>6
<1>5. CASE subscribe(c)
  <2>1. PICK q \in Seq(Answers) : q = to_client[c]
    BY <1>0
  <2>2. /\ q # <<>> /\ prog[c] = "active" /\ c \notin misread
        /\ received' = [received EXCEPT ![c] = Append(@, Head(q))]
        /\ to_client' = [to_client EXCEPT ![c] = Tail(q)]
        /\ UNCHANGED <<backlog, accepting, prog, misread, reset>>
    BY <1>5, <2>1 DEF subscribe
  <2>3. NoResponse(q) /\ ~Unanswered(c) /\ ~Unknown(c)
    BY <1>0, <2>1, <2>2 DEF AnswersOf, Unanswered
  <2>4. Head(q) \in Data /\ Tail(q) \in Seq(Answers) /\ NoResponse(Tail(q))
    <3>1. /\ Head(q) = q[1] /\ q[1] \in Answers /\ ~IsResponse(q[1])
          /\ Tail(q) \in Seq(Answers) /\ NoResponse(Tail(q))
      BY <2>2, <2>3, ResponsesLeft
    <3> QED BY <3>1 DEF Answers, Responses, IsResponse
  <2>5. received' \in [Clients -> Seq(Data)]
    BY <1>0, <2>2, <2>4 DEF AnswerType
  <2>6. to_client'[c] = Tail(q) /\ prog'[c] = prog[c]
    BY <1>0, <2>2 DEF AnswerType
  <2> QED BY <1>0, <2>2, <2>3, <2>4, <2>5, <2>6, NoResponseIsOne, ClientAnswers DEF AnswerType
<1>6. CASE subscribe_misread(c)
  <2>1. PICK q \in Seq(Answers) : q = to_client[c]
    BY <1>0
  <2>2. PICK t : t = Tail(q)
    OBVIOUS
  <2>3. /\ prog[c] = "active" /\ c \in misread /\ Len(q) >= 2
        /\ UNCHANGED <<backlog, accepting, prog, received, reset>>
    BY <1>6, <2>1 DEF subscribe_misread
  <2>4. q # <<>> /\ OneResponse(q)
    BY <1>0, <2>1, <2>3 DEF AnswersOf
  <2>5. /\ t \in Seq(Answers) /\ OneResponse(t) /\ (NoResponse(q) => NoResponse(t))
        /\ DOMAIN t = 1..(Len(q) - 1) /\ \A i \in DOMAIN t : t[i] = q[i + 1]
    BY <2>2, <2>4, ResponsesLeft
  <2>6. t # <<>> /\ t[1] = q[2] /\ 1 \in DOMAIN t
    BY <2>3, <2>5
  <2>7. CASE q[2].kind = "response"
    <3>1. to_client' = [to_client EXCEPT ![c] = Tail(t)] /\ misread' = misread \ {c}
      BY <1>6, <2>1, <2>2, <2>7 DEF subscribe_misread
    <3>2. Tail(t) \in Seq(Answers) /\ NoResponse(Tail(t)) /\ ~NoResponse(t)
      BY <2>5, <2>6, <2>7, ResponsesLeft DEF IsResponse
    <3>3. ~Unanswered(c) /\ ~Unknown(c)
      BY <1>0, <2>1, <2>5, <3>2 DEF AnswersOf, Unanswered
    <3>4. to_client'[c] = Tail(t) /\ prog'[c] = prog[c] /\ misread' \subseteq Clients
      BY <1>0, <2>3, <3>1 DEF AnswerType
    <3> QED BY <1>0, <2>3, <3>1, <3>2, <3>3, <3>4, NoResponseIsOne, ClientAnswers DEF AnswerType
  <2>8. CASE q[2].kind # "response"
    <3>1. to_client' = [to_client EXCEPT ![c] = t] /\ UNCHANGED misread
      BY <1>6, <2>1, <2>2, <2>8 DEF subscribe_misread
    <3>2. Unanswered(c) => NoResponse(t)
      BY <1>0, <2>1, <2>5 DEF AnswersOf
    <3>3. ~Unknown(c)
      BY <1>0, <2>1, <2>4 DEF AnswersOf
    <3>4. to_client'[c] = t /\ prog'[c] = prog[c]
      BY <1>0, <2>3, <3>1 DEF AnswerType
    <3> QED BY <1>0, <2>3, <2>5, <3>1, <3>2, <3>3, <3>4, ClientAnswers DEF AnswerType
  <2> QED BY <2>7, <2>8
<1>7. CASE send_config_unregister(c) \/ Die(c)
  <2>1. PICK s \in {"ended", "dead"} : CloseSocket(c, s)
    BY <1>7 DEF send_config_unregister, Die
  <2>2. /\ prog' = [prog EXCEPT ![c] = s] /\ to_client' = [to_client EXCEPT ![c] = <<>>]
        /\ reset' \subseteq Clients /\ UNCHANGED <<backlog, accepting, received, misread>>
    BY <1>0, <1>7, <2>1 DEF send_config_unregister, Die, CloseSocket, AnswerType
  <2>3. prog'[c] = s /\ to_client'[c] = <<>> /\ <<>> \in Seq(Answers)
    BY <1>0, <2>2 DEF AnswerType
  <2> QED BY <1>0, <2>2, <2>3, NoneIsNoResponse, ClientAnswers DEF AnswerType
<1> QED BY <1>1, <1>2, <1>3, <1>4, <1>5, <1>6, <1>7 DEF client_program

-----------------------------------------------------------------------------
\* What is sent to a descriptor reaches its owner, if that still reads.
LEMMA SentTo ==
  ASSUME DescriptorInv, AnswerType, NEW f, NEW msg \in Answers, simple_send(f, msg)
  PROVE  /\ f \in Fds /\ owner[f] \in Clients /\ reset' \subseteq Clients
         /\ \/ UNCHANGED to_client
            \/ to_client' = [to_client EXCEPT ![owner[f]] = Append(@, msg)]
<1>1. ~Closed(f)
  BY DEF simple_send, SendFails
<1>2. f \in Fds /\ owner[f] \in Clients
  BY <1>1, OpenIsOwned
<1> QED BY <1>2 DEF simple_send, AnswerType

\* The accept thread goes on to another client, or to none.
LEMMA AcceptKeepsAnswers ==
  ASSUME DescriptorInv, AnswerInv, TableExact, accept_thread
  PROVE  AnswerInv'
<1>0. /\ AnswerType /\ backlog \in Seq(Clients) /\ \A c \in Clients : AnswersOf(c)
  BY DEF AnswerInv, DescriptorInv, DescriptorType
<1>1. CASE accept_new_client
  <2>1. /\ backlog # <<>> /\ backlog' = Tail(backlog) /\ accepting'.client = Head(backlog)
        /\ UNCHANGED <<to_client, received, misread, reset, prog>>
    BY <1>1 DEF accept_new_client, programs
  <2>2. Head(backlog) = backlog[1] /\ 1 \in DOMAIN backlog
    BY <1>0, <2>1
  <2>3. DOMAIN backlog' = 1..(Len(backlog) - 1) /\ \A i \in DOMAIN backlog' : backlog'[i] = backlog[i + 1] /\ i + 1 \in DOMAIN backlog
    BY <1>0, <2>1
  <2>4. \A d \in Clients : (Unknown(d)' => Unknown(d)) /\ (Unanswered(d)' => Unanswered(d))
    BY <2>1, <2>2, <2>3 DEF Unknown, Unanswered
  <2> QED BY <1>0, <2>1, <2>4, AnswersKept DEF AnswerType
<1>2. CASE recv_register_msg
  <2>1. /\ accepting' = [accepting EXCEPT !.pc = "respond"] /\ accepting.client = accepting'.client
        /\ UNCHANGED <<to_client, received, misread, reset, prog, backlog>>
    BY <1>2 DEF recv_register_msg, programs, DescriptorInv, DescriptorType
  <2>2. \A d \in Clients : (Unknown(d)' => Unknown(d)) /\ (Unanswered(d)' => Unanswered(d))
    BY <2>1 DEF Unknown, Unanswered
  <2> QED BY <1>0, <2>1, <2>2, AnswersKept DEF AnswerType
<1>3. CASE register_invalid_action
  <2>1. /\ accepting'.client = NoClient
        /\ UNCHANGED <<to_client, received, misread, reset, prog, backlog>>
    BY <1>3 DEF register_invalid_action, programs
  <2>2. \A d \in Clients : (Unknown(d)' => Unknown(d)) /\ (Unanswered(d)' => Unanswered(d))
    BY <2>1, BrokerAssumption DEF Unknown, Unanswered
  <2> QED BY <1>0, <2>1, <2>2, AnswersKept DEF AnswerType
<1>4. CASE send_response_msg
  <2>1. PICK c : c = accepting.client
    OBVIOUS
  <2>2. PICK msg : msg = [kind |-> "response", id |-> id[c]]
    OBVIOUS
  <2>3. /\ accepting.pc = "respond" /\ accepting'.client = NoClient /\ simple_send(fd[c], msg)
        /\ UNCHANGED <<received, misread, prog, backlog>>
    BY <1>4, <2>1, <2>2 DEF send_response_msg, programs
  <2>4. c \in Clients /\ id[c] \in Nat \cup {-1} /\ owner[fd[c]] \in {c, NoClient}
    BY <2>1, <2>3 DEF DescriptorInv, AcceptInv, TableExact, TypeOK
  <2>5. msg \in Answers
    BY <2>2, <2>4 DEF Answers, Responses
  <2>6. /\ owner[fd[c]] = c /\ reset' \subseteq Clients
        /\ UNCHANGED to_client \/ to_client' = [to_client EXCEPT ![c] = Append(@, msg)]
    BY <1>0, <2>3, <2>4, <2>5, SentTo, BrokerAssumption
  <2>7. /\ \A d \in Clients : (Unknown(d)' <=> Unknown(d)) /\ (Unanswered(d)' => Unanswered(d))
        /\ ~Unknown(c) /\ Unanswered(c) /\ ~Unanswered(c)'
    BY <2>1, <2>3, <2>4, BrokerAssumption DEF Unknown, Unanswered, DescriptorInv, BacklogInv
  <2>8. CASE UNCHANGED to_client
    BY <1>0, <2>3, <2>6, <2>7, <2>8, AnswersKept
  <2>9. CASE to_client' = [to_client EXCEPT ![c] = Append(@, msg)]
    <3>1. to_client'[c] = Append(to_client[c], msg) /\ \A d \in Clients : d # c => to_client'[d] = to_client[d]
      BY <1>0, <2>4, <2>9 DEF AnswerType
    <3>2. to_client[c] \in Seq(Answers) /\ NoResponse(to_client[c]) /\ ~(prog[c] = "active" /\ c \notin misread)
      BY <1>0, <2>4, <2>7 DEF AnswersOf, AnswerType
    <3>3. to_client'[c] \in Seq(Answers) /\ OneResponse(to_client'[c])
      BY <2>5, <3>1, <3>2, ResponseSent
    <3>4. AnswersOf(c)'
      BY <2>3, <2>4, <2>7, <3>2, <3>3 DEF AnswersOf
    <3>5. ASSUME NEW d \in Clients, d # c PROVE AnswersOf(d)'
      BY <1>0, <2>3, <2>7, <3>1, <3>5, OtherAnswers
    <3>6. AnswerType'
      BY <1>0, <2>3, <2>4, <2>6, <2>9, <3>1, <3>3 DEF AnswerType
    <3> QED BY <3>4, <3>5, <3>6 DEF AnswerInv
  <2> QED BY <2>6, <2>8, <2>9
<1>5. CASE accept_fails
  BY <1>5, QuietAnswers DEF accept_fails, BrokerEnds, programs
<1> QED BY <1>1, <1>2, <1>3, <1>4, <1>5 DEF accept_thread

\* The forwarder sends data and nothing else, and only to whom was accepted.
LEMMA ForwardKeepsAnswers ==
  ASSUME DescriptorInv, AnswerInv, ThreadType, NEW s \in Clients, send_subscriber_msg(s)
  PROVE  AnswerInv'
<1>0. AnswerType /\ \A c \in Clients : AnswersOf(c)
  BY DEF AnswerInv
<1>1. PICK msg : msg = polling[FORDWARDER].data
  OBVIOUS
<1>2. /\ polling[FORDWARDER].pc = "send" /\ simple_send(fd[s], msg)
      /\ UNCHANGED <<received, misread, prog, backlog, accepting>>
  BY <1>1 DEF send_subscriber_msg, programs
<1>3. msg \in Data /\ msg \in Answers /\ ~IsResponse(msg)
  BY <1>1, <1>2 DEF ThreadType, Pollers, Answers, Data, IsResponse
<1>4. PICK c \in Clients : c = owner[fd[s]] /\ fd[s] \in Fds
  BY <1>0, <1>2, <1>3, SentTo
<1>5. /\ reset' \subseteq Clients
      /\ UNCHANGED to_client \/ to_client' = [to_client EXCEPT ![c] = Append(@, msg)]
  BY <1>0, <1>2, <1>3, <1>4, SentTo
<1>6. /\ \A d \in Clients : (Unknown(d)' <=> Unknown(d)) /\ (Unanswered(d)' <=> Unanswered(d))
      /\ ~Unknown(c)
  BY <1>2, <1>4 DEF Unknown, Unanswered, DescriptorInv, BacklogInv
<1>7. CASE UNCHANGED to_client
  BY <1>2, <1>5, <1>6, <1>7, AnswersKept
<1>8. CASE to_client' = [to_client EXCEPT ![c] = Append(@, msg)]
  <2>1. to_client'[c] = Append(to_client[c], msg) /\ \A d \in Clients : d # c => to_client'[d] = to_client[d]
    BY <1>0, <1>8 DEF AnswerType
  <2>2. /\ to_client[c] \in Seq(Answers) /\ to_client'[c] \in Seq(Answers)
        /\ NoResponse(to_client[c]) => NoResponse(to_client'[c])
        /\ OneResponse(to_client[c]) => OneResponse(to_client'[c])
    BY <1>0, <1>3, <2>1, ResponseSent DEF AnswerType
  <2>3. AnswersOf(c)'
    BY <1>0, <1>2, <1>6, <2>2 DEF AnswersOf
  <2>4. ASSUME NEW d \in Clients, d # c PROVE AnswersOf(d)'
    BY <1>0, <1>2, <1>6, <2>1, <2>4, OtherAnswers
  <2>5. AnswerType'
    BY <1>0, <1>2, <1>5, <1>8, <2>1, <2>2 DEF AnswerType
  <2> QED BY <2>3, <2>4, <2>5 DEF AnswerInv
<1> QED BY <1>5, <1>7, <1>8

LEMMA AnswersStay ==
  ASSUME DescriptorInv, BrokerTypeInv, [BrokerNext]_all_vars
  PROVE  AnswerInv'
<1> USE DEF BrokerTypeInv
<1>1. CASE accept_thread
  BY <1>1, AcceptKeepsAnswers
<1>2. ASSUME NEW t \in Pollers, poll_thread(t) PROVE AnswerInv'
  BY <1>2, QuietAnswers DEF poll_thread, get_all_clients, poll, close_connection, recv_unregister_msg,
    recv_invalid_action, recv_fails, BrokerEnds, sockets, programs
<1>3. CASE fordwarder_thread \/ subscriber_thread
  <2>1. ASSUME NEW s \in Clients, recv_publisher_msg(s) \/ send_fails(s) PROVE AnswerInv'
    BY <2>1, QuietAnswers DEF recv_publisher_msg, send_fails, BrokerEnds, programs
  <2> QED BY <1>2, <1>3, <2>1, ForwardKeepsAnswers DEF fordwarder_thread, subscriber_thread, Pollers
<1>4. ASSUME NEW c \in Clients, client_program(c) \/ send_config_unregister(c) \/ Die(c) PROVE AnswerInv'
  BY <1>4, ClientsKeepAnswers
<1>5. CASE UNCHANGED all_vars
  BY <1>5, QuietAnswers DEF all_vars, broker_vars, sockets, programs
<1> QED BY <1>1, <1>3, <1>4, <1>5 DEF BrokerNext

-----------------------------------------------------------------------------
LEMMA InitTypes == BrokerInit => BrokerTypeInv
<1> SUFFICES ASSUME BrokerInit PROVE BrokerTypeInv
  OBVIOUS
<1>1. TableExact
  BY InitTableInv DEF BrokerInit, TableInv, TableExact
<1>2. ThreadType
  BY DEF BrokerInit, ThreadType, Rest, Labels
<1>3. ProgramType
  BY EmptySeq, BrokerAssumption DEF BrokerInit, ProgramType
<1>4. AnswerType
  BY EmptySeq DEF BrokerInit, AnswerType
<1>5. \A c \in Clients : AnswersOf(c)
  BY NoneIsNoResponse DEF BrokerInit, AnswersOf
<1>6. disturbed \in BOOLEAN
  BY DEF BrokerInit
<1> QED BY <1>1, <1>2, <1>3, <1>4, <1>5, <1>6 DEF BrokerTypeInv, AnswerInv

LEMMA BrokerTypesKept == DescriptorInv /\ BrokerTypeInv /\ [BrokerNext]_all_vars => BrokerTypeInv'
<1> SUFFICES ASSUME DescriptorInv, BrokerTypeInv, [BrokerNext]_all_vars PROVE BrokerTypeInv'
  OBVIOUS
<1>1. TableExact'
  BY TableStaysExact DEF BrokerTypeInv
<1>2. ThreadType' /\ ProgramType' /\ AnswerInv'
  BY ThreadsKeepTypes, ProgramsKeepTypes, AnswersStay
<1>3. disturbed' \in BOOLEAN
  BY DEF BrokerTypeInv, BrokerNext, all_vars
<1> QED BY <1>1, <1>2, <1>3 DEF BrokerTypeInv

LEMMA BrokerTypeInvariance == BrokerSpec => []BrokerTypeInv
<1> QED BY InitTypes, BrokerTypesKept, DescriptorInvariance, PTL DEF BrokerSpec

\* No client is in the backlog twice.
LEMMA BacklogIsBounded ==
  ASSUME DescriptorInv, IsFiniteSet(Clients)
  PROVE  Len(backlog) <= Cardinality(Clients)
<1>1. /\ Len(backlog) \in Nat /\ DOMAIN backlog = 1..Len(backlog) /\ backlog \in [1..Len(backlog) -> Clients]
      /\ \A i, j \in 1..Len(backlog) : backlog[i] = backlog[j] => i = j
  BY DEF DescriptorInv, DescriptorType, BacklogInv
<1>2. IsFiniteSet(1..Len(backlog)) /\ Cardinality(1..Len(backlog)) = Len(backlog)
  BY <1>1, FS_Interval
<1>3. Cardinality(Clients) \in Nat
  BY FS_CardinalityType
<1>4. ASSUME Cardinality(Clients) < Len(backlog) PROVE FALSE
  BY <1>1, <1>2, <1>4, FS_PigeonHole
<1> QED BY <1>1, <1>3, <1>4

\* Whatever is disturbed, every variable keeps its type: above all, a subscriber
\* never reads a response for data, and no thread has a descriptor that is none.
THEOREM BrokerTypeCorrect ==
  ASSUME IsFiniteSet(Clients)
  PROVE  BrokerSpec => []BrokerTypeOK
<1>1. DescriptorInv /\ BrokerTypeInv => BrokerTypeOK
  <2> SUFFICES ASSUME DescriptorInv, BrokerTypeInv PROVE BrokerTypeOK
    OBVIOUS
  <2>1. TypeOK
    BY DEF BrokerTypeInv, TableExact
  <2>2. /\ running \in BOOLEAN /\ backlog \in Seq(Clients) /\ Len(backlog) <= Cardinality(Clients)
        /\ owner \in [Fds -> Clients \cup {NoClient}] /\ fd \in [Clients -> Fds \cup {0}]
        /\ accepting.pc \in {"accept", "recv", "respond"} /\ accepting.client \in Clients \cup {NoClient}
    BY BacklogIsBounded DEF DescriptorInv, DescriptorType, BrokerTypeInv, ProgramType
  <2>3. ASSUME NEW c \in Clients
        PROVE  /\ to_broker[c] \in Seq(Requests) /\ to_client[c] \in Seq(Data \cup Responses)
               /\ received[c] \in Seq(Data)
    <3>1. /\ to_broker[c] \in Seq(Posts) /\ Posts \subseteq Requests
          /\ to_client[c] \in Seq(Answers) /\ received[c] \in Seq(Data)
      BY DEF BrokerTypeInv, ProgramType, AnswerInv, AnswerType, Posts
    <3>2. to_broker[c] \in Seq(Requests)
      BY <3>1, SeqMonotonic
    <3> QED BY <3>1, <3>2 DEF Answers
  <2>4. /\ reset \subseteq Clients /\ misread \subseteq Clients /\ disturbed \in BOOLEAN
        /\ published \in [Clients -> 0..MAX_PUBLISHED] /\ my_id \in [Clients -> Nat \cup {-1}]
    BY DEF BrokerTypeInv, AnswerInv, AnswerType, ProgramType
  <2>5. \A t \in Pollers :
          /\ polling[t].pc \in {"list", "poll", "recv", "send", "close"}
          /\ polling[t].conns \subseteq Clients /\ polling[t].subs \subseteq Clients
    BY DEF BrokerTypeInv, ThreadType, Labels
  <2>6. \A c \in Clients : prog[c] \in Programs
    BY DEF DescriptorInv, DescriptorType
  <2> QED BY <2>1, <2>2, <2>3, <2>4, <2>5, <2>6 DEF BrokerTypeOK, Programs
<1> QED BY <1>1, DescriptorInvariance, BrokerTypeInvariance, PTL

\* The arrays of the client list never overflow in the broker either, whoever
\* unregisters with a wrong id and whatever entries are stale.
THEOREM CountersStayExact == BrokerSpec => []CountersCount
<1>1. BrokerTypeInv => CountersCount
  BY DEF BrokerTypeInv, TableExact
<1> QED BY <1>1, BrokerTypeInvariance, PTL

\* Nor is a slot lost that way: its name is there exactly while it has an entry.
THEOREM NamesStayExact == BrokerSpec => []NamedIffUsed
<1>1. BrokerTypeInv => NamedIffUsed
  BY DEF BrokerTypeInv, TableExact
<1> QED BY <1>1, BrokerTypeInvariance, PTL
=============================================================================
