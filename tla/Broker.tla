------------------------------- MODULE Broker -------------------------------
(***************************************************************************)
(* The publish/subscribe broker of RP4_pubsub with its clients: the three  *)
(* threads of proxy.c over the table of ClientList, and the loops of       *)
(* publisher.c and subscriber.c.                                           *)
(*                                                                         *)
(* A connection is its client: two byte streams, and in the broker a file  *)
(* descriptor, the lowest free number, which is free again once closed.    *)
(* The threads know connections by that number only.  Any failed recv or   *)
(* send of the broker is err(1, ...) and ends it.                          *)
(*                                                                         *)
(* The subscribers of a message are sent to in any order: the parallel and *)
(* fair modes use one thread each and join them, and the sequential mode   *)
(* goes through the slot's array, whose order ClientList leaves out.  So   *)
(* are the connections that poll finds readable.                           *)
(***************************************************************************)
EXTENDS ClientList, Sequences

CONSTANTS
  Publishers,     \* the clients that are publishers
  Mortal,         \* the clients that may die
  Fds, NoClient,
  MAX_PUBLISHED   \* bound: messages per publisher

ASSUME BrokerAssumption ==
  /\ Publishers \subseteq Clients /\ Mortal \subseteq Clients
  /\ Fds \subseteq Nat /\ NoClient \notin Clients /\ MAX_PUBLISHED \in Nat

VARIABLES
  running,        \* the broker has not ended
  backlog,        \* connected clients that are not accepted yet
  owner,          \* per descriptor, its client (NoClient: closed)
  fd,             \* per client, the descriptor accept returned (0: none yet)
  to_broker, to_client, \* per client, what was sent and not yet received
  reset,          \* the clients whose kernel has refused the broker's data
  accepting,      \* the accept thread
  polling,        \* the forwarder and the subscriber thread
  prog, my_id,    \* per client, its program and the id it took for its own
  published,      \* per publisher, how many messages it has sent
  received,       \* per subscriber, the messages it has read
  misread,        \* the clients that took data for their response
  disturbed       \* a client took a wrong id or a topic had two slots (history)

sockets == <<running, backlog, owner, fd, to_broker, to_client, reset>>
programs == <<prog, my_id, published, received, misread>>
broker_vars == <<vars, sockets, accepting, polling, programs>>
all_vars == <<broker_vars, disturbed>>

FORDWARDER == "fordwarder"
UNREGISTERER == "subscriber"    \* subscriber_thread
Pollers == {FORDWARDER, UNREGISTERER}
Polled(t) == IF t = FORDWARDER THEN PUBLISHER ELSE SUBSCRIBER

\* conns: the connections still to be read from; subs: those still to be sent to;
\* fd: the descriptor to be closed.
Rest == [pc |-> "list", conns |-> {}, fd |-> 0, subs |-> {}, data |-> <<>>]

Gone(c) == prog[c] \in {"refused", "ended", "dead"}

BrokerInit ==
  /\ Init
  /\ \A c \in Clients : type[c] = PUBLISHER <=> c \in Publishers
  /\ running = TRUE /\ backlog = <<>>
  /\ owner = [f \in Fds |-> NoClient] /\ fd = [c \in Clients |-> 0]
  /\ to_broker = [c \in Clients |-> <<>>] /\ to_client = [c \in Clients |-> <<>>]
  /\ reset = {}
  /\ accepting = [pc |-> "accept", client |-> NoClient]
  /\ polling = [t \in Pollers |-> Rest]
  /\ prog = [c \in Clients |-> "start"] /\ my_id = [c \in Clients |-> -1]
  /\ published = [c \in Clients |-> 0]
  /\ received = [c \in Clients |-> <<>>]
  /\ misread = {}
  /\ disturbed = FALSE

(***************************************************************************)
(* The client programs.                                                    *)
(***************************************************************************)

setup_client(c) ==
  /\ prog[c] = "start"
  /\ prog' = [prog EXCEPT ![c] = "connected"]
  /\ backlog' = Append(backlog, c)
  /\ UNCHANGED <<vars, running, owner, fd, to_broker, to_client, reset, accepting, polling,
                 my_id, published, received, misread>>

Request(c, action, n) == to_broker' = [to_broker EXCEPT ![c] = Append(@, [action |-> action, id |-> n])]

send_config_register(c) ==
  /\ prog[c] = "connected"
  /\ prog' = [prog EXCEPT ![c] = "registering"]
  /\ Request(c, "REGISTER", 0)
  /\ UNCHANGED <<vars, running, backlog, owner, fd, to_client, reset, accepting, polling,
                 my_id, published, received, misread>>

\* The first bytes that arrive are taken for the response.  Data begins with a
\* time, which reads as a status that is no error and the id 0.
recv_response_msg(c) ==
  /\ prog[c] = "registering" /\ to_client[c] # <<>>
  /\ LET msg == Head(to_client[c]) IN
       \/ /\ msg.kind = "response" /\ msg.id >= 0
          /\ to_client' = [to_client EXCEPT ![c] = Tail(@)]
          /\ prog' = [prog EXCEPT ![c] = "active"]
          /\ my_id' = [my_id EXCEPT ![c] = msg.id]
          /\ UNCHANGED misread
       \/ /\ msg.kind = "response" /\ msg.id < 0
          /\ to_client' = [to_client EXCEPT ![c] = <<>>]
          /\ prog' = [prog EXCEPT ![c] = "refused"]
          /\ UNCHANGED <<my_id, misread>>
       \/ /\ msg.kind = "data"
          /\ prog' = [prog EXCEPT ![c] = "active"]
          /\ my_id' = [my_id EXCEPT ![c] = 0]
          /\ misread' = misread \cup {c}
          /\ UNCHANGED to_client
  /\ UNCHANGED <<vars, running, backlog, owner, fd, to_broker, reset, accepting, polling,
                 published, received>>

publish(c) ==
  /\ prog[c] = "active" /\ c \in Publishers
  /\ published[c] < MAX_PUBLISHED
  /\ published' = [published EXCEPT ![c] = @ + 1]
  /\ Request(c, "PUBLISH_DATA", published[c])
  /\ UNCHANGED <<vars, running, backlog, owner, fd, to_client, reset, accepting, polling,
                 prog, my_id, received, misread>>

subscribe(c) ==
  /\ prog[c] = "active" /\ c \notin Publishers
  /\ c \notin misread /\ to_client[c] # <<>>
  /\ received' = [received EXCEPT ![c] = Append(@, Head(to_client[c]))]
  /\ to_client' = [to_client EXCEPT ![c] = Tail(@)]
  /\ UNCHANGED <<vars, running, backlog, owner, fd, to_broker, reset, accepting, polling,
                 prog, my_id, published, misread>>

\* After the first bytes of a message were taken for the response, each read
\* ends in the next one; the response, once in the stream, sets that right.
subscribe_misread(c) ==
  /\ prog[c] = "active" /\ c \notin Publishers
  /\ c \in misread /\ Len(to_client[c]) >= 2
  /\ \/ /\ to_client[c][2].kind = "response"
        /\ to_client' = [to_client EXCEPT ![c] = Tail(Tail(@))]
        /\ misread' = misread \ {c}
     \/ /\ to_client[c][2].kind = "data"
        /\ to_client' = [to_client EXCEPT ![c] = Tail(@)]
        /\ UNCHANGED misread
  /\ UNCHANGED <<vars, running, backlog, owner, fd, to_broker, reset, accepting, polling,
                 prog, my_id, published, received>>

\* A socket that is closed with unread data resets the connection.
CloseSocket(c, s) ==
  /\ prog' = [prog EXCEPT ![c] = s]
  /\ reset' = IF to_client[c] = <<>> THEN reset ELSE reset \cup {c}
  /\ to_client' = [to_client EXCEPT ![c] = <<>>]

\* SIGINT: the main loops end with UNREGISTER and close.
send_config_unregister(c) ==
  /\ prog[c] = "active"
  /\ Request(c, "UNREGISTER", my_id[c])
  /\ CloseSocket(c, "ended")
  /\ UNCHANGED <<vars, running, backlog, owner, fd, accepting, polling,
                 my_id, published, received, misread>>

Die(c) ==
  /\ c \in Mortal /\ prog[c] \in {"connected", "registering", "active"}
  /\ CloseSocket(c, "dead")
  /\ UNCHANGED <<vars, running, backlog, owner, fd, to_broker, accepting, polling,
                 my_id, published, received, misread>>

(***************************************************************************)
(* The broker's sockets.                                                   *)
(***************************************************************************)
FreeFds == {f \in Fds : owner[f] = NoClient}
Closed(f) == f \notin Fds \ FreeFds
Unread(f) == IF Closed(f) THEN <<>> ELSE to_broker[owner[f]]
PeerGone(f) == IF Closed(f) THEN FALSE ELSE Gone(owner[f])

HasMessage(f) == Unread(f) # <<>>
Message(f) == Head(to_broker[owner[f]])
Readable(f) == HasMessage(f) \/ PeerGone(f)

\* Mutant: the message stays in the socket, as after recv(..., MSG_PEEK).
Consume_peek(f) == UNCHANGED to_broker

Consume(f) == to_broker' = [to_broker EXCEPT ![owner[f]] = Tail(@)]
RecvFails(f) == Closed(f) \/ (PeerGone(f) /\ ~HasMessage(f))

\* simple_send to a closed descriptor or, once reset, to a closed connection is
\* the end; the first data sent to a closed connection is only refused later.
SendFails(f) == Closed(f) \/ (PeerGone(f) /\ owner[f] \in reset)

simple_send(f, msg) ==
  /\ ~SendFails(f)
  /\ IF PeerGone(f)
     THEN reset' = reset \cup {owner[f]} /\ UNCHANGED to_client
     ELSE to_client' = [to_client EXCEPT ![owner[f]] = Append(@, msg)] /\ UNCHANGED reset

BrokerEnds ==
  /\ running' = FALSE
  /\ UNCHANGED <<vars, backlog, owner, fd, to_broker, to_client, reset, accepting, polling, programs>>

(***************************************************************************)
(* accept_thread.                                                          *)
(***************************************************************************)
accept_new_client ==
  /\ accepting.pc = "accept" /\ backlog # <<>> /\ FreeFds # {}
  /\ LET c == Head(backlog) IN
       /\ owner' = [owner EXCEPT ![Least(FreeFds)] = c]
       /\ fd' = [fd EXCEPT ![c] = Least(FreeFds)]
       /\ accepting' = [pc |-> "recv", client |-> c]
  /\ backlog' = Tail(backlog)
  /\ UNCHANGED <<vars, running, to_broker, to_client, reset, polling, programs>>

recv_register_msg ==
  LET c == accepting.client IN
  /\ accepting.pc = "recv" /\ HasMessage(fd[c])
  /\ Message(fd[c]).action = "REGISTER"
  /\ add_client(c) \/ add_client_full(c)
  /\ to_broker' = [to_broker EXCEPT ![c] = Tail(@)]
  /\ accepting' = [accepting EXCEPT !.pc = "respond"]
  /\ UNCHANGED <<running, backlog, owner, fd, to_client, reset, polling, programs>>

\* Anything else is dropped and the client forgotten: a thread with an entry
\* that has the client's descriptor by now may have taken its registration.
register_invalid_action ==
  LET c == accepting.client IN
  /\ accepting.pc = "recv" /\ HasMessage(fd[c])
  /\ Message(fd[c]).action # "REGISTER"
  /\ Consume(fd[c])
  /\ accepting' = [pc |-> "accept", client |-> NoClient]
  /\ UNCHANGED <<vars, running, backlog, owner, fd, to_client, reset, polling, programs>>

send_response_msg ==
  LET c == accepting.client IN
  /\ accepting.pc = "respond"
  /\ simple_send(fd[c], [kind |-> "response", id |-> id[c]])
  /\ accepting' = [pc |-> "accept", client |-> NoClient]
  /\ UNCHANGED <<vars, running, backlog, owner, fd, to_broker, polling, programs>>

accept_fails ==
  LET f == fd[accepting.client] IN
  /\ \/ accepting.pc = "recv" /\ RecvFails(f)
     \/ accepting.pc = "respond" /\ SendFails(f)
  /\ BrokerEnds

accept_thread ==
  \/ accept_new_client \/ recv_register_msg \/ register_invalid_action
  \/ send_response_msg \/ accept_fails

(***************************************************************************)
(* fordwarder_thread and subscriber_thread.  They copy descriptors out of  *)
(* the table, one for each entry: s below is the entry's client, which is  *)
(* no longer the owner of fd[s] once that was closed and given away.       *)
(***************************************************************************)
Goto(t, r) == polling' = [polling EXCEPT ![t] = r]

\* The loop over the readable descriptors goes on, or starts anew.
Continue(t, r) == Goto(t, [Rest EXCEPT !.pc = IF r.conns = {} THEN "list" ELSE "recv", !.conns = r.conns])

get_all_clients(t) ==
  /\ polling[t].pc = "list"
  /\ Goto(t, [Rest EXCEPT !.pc = "poll", !.conns = get_all(Polled(t))])
  /\ UNCHANGED <<vars, sockets, accepting, programs>>

\* poll returns the readable ones, or times out.
poll(t) ==
  /\ polling[t].pc = "poll"
  /\ Continue(t, [polling[t] EXCEPT !.conns = {s \in @ : Readable(fd[s])}])
  /\ UNCHANGED <<vars, sockets, accepting, programs>>

Ready(t, s) == polling[t].pc = "recv" /\ s \in polling[t].conns
Took(t, s) == [polling[t] EXCEPT !.conns = @ \ {s}]
Receives(t, f, action) ==
  /\ HasMessage(f) /\ Message(f).action = action
  /\ t = FORDWARDER <=> owner[f] \in Publishers

\* Mutant: the connection is not closed.
recv_unregister_msg_leak(t, s) ==
  LET f == fd[s] IN
  /\ Ready(t, s) /\ Receives(t, f, "UNREGISTER")
  /\ remove_client(owner[f], Message(f).id)
  /\ Consume(f)
  /\ Continue(t, Took(t, s))
  /\ UNCHANGED <<running, backlog, owner, fd, to_client, reset, accepting, programs>>

recv_unregister_msg(t, s) ==
  LET f == fd[s] IN
  /\ Ready(t, s) /\ Receives(t, f, "UNREGISTER")
  /\ remove_client(owner[f], Message(f).id)
  /\ Consume(f)
  /\ Goto(t, [Took(t, s) EXCEPT !.pc = "close", !.fd = f])
  /\ UNCHANGED <<running, backlog, owner, fd, to_client, reset, accepting, programs>>

\* Mutant: the descriptor may be closed twice.
close_connection_twice(t) ==
  /\ polling[t].pc = "close"
  /\ owner' = [owner EXCEPT ![polling[t].fd] = NoClient]
  /\ Continue(t, polling[t]) \/ UNCHANGED polling
  /\ UNCHANGED <<vars, running, backlog, fd, to_broker, to_client, reset, accepting, programs>>

close_connection(t) ==
  /\ polling[t].pc = "close"
  /\ owner' = [owner EXCEPT ![polling[t].fd] = NoClient]
  /\ Continue(t, polling[t])
  /\ UNCHANGED <<vars, running, backlog, fd, to_broker, to_client, reset, accepting, programs>>

\* Any other message is read and dropped, with a warning.
recv_invalid_action(t, s) ==
  LET f == fd[s] IN
  /\ Ready(t, s) /\ HasMessage(f)
  /\ ~Receives(t, f, "UNREGISTER") /\ ~(t = FORDWARDER /\ Receives(t, f, "PUBLISH_DATA"))
  /\ Consume(f)
  /\ Continue(t, Took(t, s))
  /\ UNCHANGED <<vars, running, backlog, owner, fd, to_client, reset, accepting, programs>>

recv_publisher_msg(s) ==
  LET f == fd[s] IN
  /\ Ready(FORDWARDER, s) /\ Receives(FORDWARDER, f, "PUBLISH_DATA")
  /\ LET subs == get_subscribers(topic[owner[f]])
         r == [Took(FORDWARDER, s) EXCEPT !.pc = "send", !.subs = subs,
                 !.data = [kind |-> "data", from |-> owner[f], n |-> Message(f).id]] IN
       IF subs = {} THEN Continue(FORDWARDER, r) ELSE Goto(FORDWARDER, r)
  /\ Consume(f)
  /\ UNCHANGED <<vars, running, backlog, owner, fd, to_client, reset, accepting, programs>>

\* Mutant: the loop over the subscribers ends after the first.
send_subscriber_msg_first(s) ==
  LET r == polling[FORDWARDER] IN
  /\ r.pc = "send" /\ s \in r.subs
  /\ simple_send(fd[s], r.data)
  /\ Continue(FORDWARDER, r)
  /\ UNCHANGED <<vars, running, backlog, owner, fd, to_broker, accepting, programs>>

send_subscriber_msg(s) ==
  LET r == polling[FORDWARDER] IN
  /\ r.pc = "send" /\ s \in r.subs
  /\ simple_send(fd[s], r.data)
  /\ IF r.subs = {s} THEN Continue(FORDWARDER, r)
     ELSE Goto(FORDWARDER, [r EXCEPT !.subs = @ \ {s}])
  /\ UNCHANGED <<vars, running, backlog, owner, fd, to_broker, accepting, programs>>

recv_fails(t, s) == Ready(t, s) /\ RecvFails(fd[s]) /\ BrokerEnds

send_fails(s) ==
  /\ polling[FORDWARDER].pc = "send" /\ s \in polling[FORDWARDER].subs
  /\ SendFails(fd[s])
  /\ BrokerEnds

poll_thread(t) ==
  \/ get_all_clients(t) \/ poll(t) \/ close_connection(t)
  \/ \E s \in Clients : recv_unregister_msg(t, s) \/ recv_invalid_action(t, s) \/ recv_fails(t, s)

fordwarder_thread ==
  \/ poll_thread(FORDWARDER)
  \/ \E s \in Clients : recv_publisher_msg(s) \/ send_subscriber_msg(s) \/ send_fails(s)

subscriber_thread == poll_thread(UNREGISTERER)

client_program(c) ==
  \/ setup_client(c) \/ send_config_register(c) \/ recv_response_msg(c)
  \/ publish(c) \/ subscribe(c) \/ subscribe_misread(c)

\* Everybody that is registered goes on with the id add_client gave it.
AllConfirmed == \A c \in Clients : my_id[c] \in {-1, id[c]}

TopicsInOneSlot == \A i, j \in Slots : i # j /\ name[i] = name[j] => name[i] = NoName

BrokerNext ==
  /\ running
  /\ \/ accept_thread \/ fordwarder_thread \/ subscriber_thread
     \/ \E c \in Clients : client_program(c) \/ send_config_unregister(c) \/ Die(c)
  /\ disturbed' = (disturbed \/ ~AllConfirmed' \/ ~TopicsInOneSlot')

BrokerSpec == BrokerInit /\ [][BrokerNext]_all_vars

\* The kernel runs the threads and the clients.  Nobody needs to connect, to
\* register once connected, to leave or to die.
FairBrokerSpec ==
  /\ BrokerSpec
  /\ WF_broker_vars(running /\ accept_thread)
  /\ WF_broker_vars(running /\ fordwarder_thread)
  /\ WF_broker_vars(running /\ subscriber_thread)
  /\ \A c \in Clients :
       WF_broker_vars(running /\ prog[c] \notin {"start", "connected"} /\ client_program(c))

-----------------------------------------------------------------------------
Data == [kind : {"data"}, from : Clients, n : 0..MAX_PUBLISHED]
Responses == [kind : {"response"}, id : Nat \cup {-1}]
Requests == [action : {"REGISTER", "UNREGISTER", "PUBLISH_DATA"}, id : Nat]

BrokerTypeOK ==
  /\ TypeOK
  /\ running \in BOOLEAN /\ backlog \in Seq(Clients) /\ Len(backlog) <= Cardinality(Clients)
  /\ owner \in [Fds -> Clients \cup {NoClient}] /\ fd \in [Clients -> Fds \cup {0}]
  /\ \A c \in Clients :
       /\ to_broker[c] \in Seq(Requests) /\ to_client[c] \in Seq(Data \cup Responses)
       /\ received[c] \in Seq(Data)
  /\ reset \subseteq Clients /\ misread \subseteq Clients /\ disturbed \in BOOLEAN
  /\ published \in [Clients -> 0..MAX_PUBLISHED] /\ my_id \in [Clients -> Nat \cup {-1}]
  /\ \A c \in Clients : prog[c] \in {"start", "connected", "registering", "active", "refused", "ended", "dead"}
  /\ accepting.pc \in {"accept", "recv", "respond"} /\ accepting.client \in Clients \cup {NoClient}
  /\ \A t \in Pollers :
       /\ polling[t].pc \in {"list", "poll", "recv", "send", "close"}
       /\ polling[t].conns \subseteq Clients /\ polling[t].subs \subseteq Clients

\* While a subscriber stays registered, what it reads of a publisher is a
\* stretch of what that published: in order, nothing twice, nothing left out,
\* as long as everybody has its own id and every topic one slot.
DataInOrder ==
  ~disturbed => \A c \in Clients : \A i, j \in DOMAIN received[c] :
    LET d == received[c] IN
    i < j /\ d[i].from = d[j].from /\ (\A k \in (i + 1)..(j - 1) : d[k].from # d[i].from)
      => d[j].n = d[i].n + 1

\* A client in the table that is registered can be sent to: its descriptor is
\* open and its own.
RegisteredConnected ==
  \A c \in Clients : status[c] = "registered" => owner[fd[c]] = c

\* A descriptor is in use for one client at a time, and none is forgotten once
\* its client unregistered: it is closed next.
DescriptorsAccounted ==
  \A f \in Fds : owner[f] # NoClient =>
    /\ fd[owner[f]] = f
    /\ \/ status[owner[f]] # "unregistered"
       \/ \E t \in Pollers : polling[t].pc = "close" /\ polling[t].fd = f

\* Published data arrives: a subscriber that is in the table when a message is
\* on its way to the broker reads it, unless it leaves or is thrown out.
Awaits(c, p, n) ==
  /\ prog[c] = "active" /\ c \notin misread /\ c \notin Publishers /\ topic[c] = topic[p]
  /\ c \in get_subscribers(topic[c])
  /\ \E i \in DOMAIN to_broker[p] : to_broker[p][i] = [action |-> "PUBLISH_DATA", id |-> n]

DataArrives ==
  \A c \in Clients, p \in Publishers : \A n \in 0..(MAX_PUBLISHED - 1) :
    Awaits(c, p, n) ~>
      \/ \E i \in DOMAIN received[c] : received[c][i].from = p /\ received[c][i].n = n
      \/ prog[c] # "active" \/ c \notin get_subscribers(topic[c]) \/ disturbed \/ ~running

\* fordwarder_thread: "recv messages from publishers and send them to
\* subscribers" (proxy.h:92): what waits for a client that is no subscriber, or
\* subscribed to another topic, is never data.
DataToSubscribers ==
  \A c \in Clients : \A i \in DOMAIN to_client[c] :
    to_client[c][i].kind = "data" => c \notin Publishers /\ topic[c] = topic[to_client[c][i].from]
=============================================================================
