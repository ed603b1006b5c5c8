---------------------------- MODULE TopicBroker ----------------------------
(***************************************************************************)
(* The broker of Practica4_pub_sub: TopicList with the data that main      *)
(* forwards, and with the ends of the clients' connections.                *)
(*                                                                         *)
(* One thread, main, both forwards and removes: while it forwards, the     *)
(* other one can only add.  Nothing catches SIGPIPE, so that a second send *)
(* to a client that has closed its socket ends the broker.                 *)
(*                                                                         *)
(* A client takes the first eight bytes it receives after a request for    *)
(* the response.  If they are a data message's, whose action is no status, *)
(* it gives up, and closes its socket with the rest of the message in it,  *)
(* which resets the connection.  So does a client that is sent data after  *)
(* it has left.  The broker's next recv or send gets that error, and only  *)
(* a send after it raises SIGPIPE.                                         *)
(***************************************************************************)
EXTENDS TopicList

CONSTANTS
  Modes,          \* the values of --mode to consider
  MAX_PUBLISHED   \* per publisher

ASSUME ModesAssumption ==
  Modes \subseteq {"SEQUENTIAL", "PARALLEL", "FAIR"} /\ MAX_PUBLISHED \in Nat

VARIABLES
  mode,
  broker_up,
  published,      \* per publisher, how many messages it has sent
  forwarded,      \* per publisher, how many of them the broker has received
  sending,        \* main: how far brok_seq_send is, and the threads that have still to send
  peer,           \* per client, its end of the connection, see Peers
  received        \* per client, the data it was sent, in order (history)

forwarding == <<published, forwarded, sending, peer, received>>
broker_vars == <<vars, mode, broker_up, forwarding>>

\* "misled": it has data that it will not read as data, and will close with it;
\* "failing": it has, and the broker has yet to get the error; "closed": it has
\* closed, with nothing unread; "reset": the next send raises SIGPIPE.
Peers == {"open", "misled", "failing", "closed", "reset"}

BrokerInit ==
  /\ Init
  /\ mode \in Modes /\ broker_up = TRUE
  /\ published = [c \in Clients |-> 0] /\ forwarded = [c \in Clients |-> 0]
  /\ sending = [sent |-> 0, threads |-> {}]
  /\ peer = [c \in Clients |-> "open"]
  /\ received = [c \in Clients |-> <<>>]

(***************************************************************************)
(* The clients.                                                            *)
(***************************************************************************)
pub_publish_data(c) ==
  /\ state[c] = "registered" /\ kind[c] = "pubs" /\ peer[c] = "open"
  /\ published[c] < MAX_PUBLISHED
  /\ published' = [published EXCEPT ![c] = @ + 1]
  /\ UNCHANGED <<vars, broker_up, mode, forwarded, sending, peer, received>>

\* A subscriber that has not read all it was sent reads the rest as a response.
unregister(c) ==
  /\ peer[c] = "open" /\ pub_sub_unregister(c)
  /\ \/ UNCHANGED peer
     \/ received[c] # <<>> /\ peer' = [peer EXCEPT ![c] = "misled"]
  /\ UNCHANGED <<broker_up, mode, published, forwarded, sending, received>>

\* The program ends, and its socket is closed.
close_my_sockfd(c) ==
  /\ \/ peer[c] = "misled" /\ peer' = [peer EXCEPT ![c] = "failing"]
     \/ peer[c] = "open" /\ state[c] \in {"failed", "left"} /\ peer' = [peer EXCEPT ![c] = "closed"]
  /\ UNCHANGED <<vars, broker_up, mode, published, forwarded, sending, received>>

(***************************************************************************)
(* main: brok_seq_recv and the three ways to forward.                      *)
(***************************************************************************)
\* send: the data arrives, is refused, or fails, or SIGPIPE ends the broker.
send(c, msg) ==
  /\ broker_up' = (peer[c] # "reset")
  /\ received' = IF peer[c] \in {"open", "misled"} THEN [received EXCEPT ![c] = Append(@, msg)] ELSE received
  /\ peer' = [peer EXCEPT ![c] = CASE @ \in {"closed", "failing"} -> "reset"
                                   [] @ = "open" /\ state[c] # "registered" -> "misled"
                                   [] OTHER -> @]

\* A response to a connection that the broker has closed itself only fails.
Respond(c) ==
  /\ broker_up' = (c \in closed \/ peer[c] # "reset")
  /\ peer' = [peer EXCEPT ![c] = IF @ = "failing" /\ c \notin closed THEN "reset" ELSE @]
  /\ UNCHANGED <<mode, published, forwarded, sending, received>>

\* Requests are read in the order in which they were sent.
recv_published(c) ==
  /\ MainAt("rest") /\ Listed(c) /\ forwarded[c] < published[c]
  /\ removing' = [pc |-> "forward_search", connfd |-> c, index |-> 0]
  /\ forwarded' = [forwarded EXCEPT ![c] = @ + 1]
  /\ UNCHANGED <<table, adding, programs, broker_up, mode, published, sending, peer, received>>

recv_unregister(c) ==
  /\ forwarded[c] = published[c]
  /\ brok_seq_recv(c)
  /\ UNCHANGED <<broker_up, mode, forwarding>>

\* When all that c sent has been read, recv gets the error of the reset.
recv_error(c) ==
  /\ MainAt("rest") /\ Listed(c) /\ forwarded[c] = published[c] /\ state[c] # "leaving"
  /\ peer[c] = "failing" /\ peer' = [peer EXCEPT ![c] = "reset"]
  /\ UNCHANGED <<vars, broker_up, mode, published, forwarded, sending, received>>

\* The message's topic is the publisher's.
forward_search ==
  /\ MainAt("forward_search")
  /\ LET found == IndexFromName(topic[removing.connfd]) IN
       IF found = {} THEN removing' = Rest
       ELSE \E i \in found : MainGo(IF mode = "SEQUENTIAL" THEN "sending" ELSE "create", i)
  /\ UNCHANGED <<table, adding, programs, broker_up, mode, forwarding>>

Subs == list[removing.index]["subs"]
Message == [from |-> removing.connfd, n |-> forwarded[removing.connfd]]

\* The loop looks at count before every send.
brok_seq_send ==
  /\ MainAt("sending")
  /\ LET i == sending.sent + 1 IN
     \/ /\ i <= Len(Subs)
        /\ send(Subs[i].connfd, Message)
        /\ sending' = [sending EXCEPT !.sent = i]
        /\ UNCHANGED removing
     \/ /\ i > Len(Subs)
        /\ sending' = [sending EXCEPT !.sent = 0] /\ removing' = Rest
        /\ UNCHANGED <<broker_up, received, peer>>
  /\ UNCHANGED <<table, adding, programs, mode, published, forwarded>>

\* A thread for each of the subscribers that count tells now.
create_threads ==
  /\ MainAt("create") /\ MainGo("join", removing.index)
  /\ sending' = [sending EXCEPT !.threads =
       @ \cup {[connfd |-> Subs[n].connfd, msg |-> Message] : n \in DOMAIN Subs}]
  /\ UNCHANGED <<table, adding, programs, broker_up, mode, published, forwarded, peer, received>>

brok_parallel_send == mode = "PARALLEL" /\ create_threads

\* The barrier is initialised, but its threads run brok_thread_send too.
brok_fair_send == mode = "FAIR" /\ create_threads

brok_thread_send ==
  \E args \in sending.threads :
    /\ send(args.connfd, args.msg)
    /\ sending' = [sending EXCEPT !.threads = @ \ {args}]
    /\ UNCHANGED <<vars, mode, published, forwarded>>

\* Mutant: the threads are not joined.
join_threads_detached ==
  /\ MainAt("join") /\ removing' = Rest
  /\ UNCHANGED <<table, adding, programs, broker_up, mode, forwarding>>

join_threads ==
  /\ MainAt("join") /\ sending.threads = {} /\ removing' = Rest
  /\ UNCHANGED <<table, adding, programs, broker_up, mode, forwarding>>

send_data ==
  \/ forward_search \/ brok_seq_send
  \/ brok_parallel_send \/ brok_fair_send \/ brok_thread_send \/ join_threads

(***************************************************************************)
(* What TopicList's steps do to the rest.                                  *)
(***************************************************************************)
TableStep ==
  \/ /\ \/ \E c \in Clients : brok_recv(c)
        \/ search_topic \/ new_topic_search \/ topic_list_new_topic \/ topic_list_full
        \/ search_topic_again \/ insert_client
        \/ search_removed \/ client_list_remove_id \/ test_empty \/ search_removed_again
        \/ topic_list_remove_topic
        \/ \E c \in Clients : recv_closed(c)
     /\ UNCHANGED <<broker_up, mode, forwarding>>
  \/ respond_register /\ Respond(adding.connfd)
  \/ respond_unregister /\ Respond(removing.connfd)

BrokerNext ==
  /\ broker_up /\ ~At("ended")
  /\ \/ TableStep \/ send_data
     \/ \E c \in Clients : \/ pub_publish_data(c) \/ unregister(c) \/ close_my_sockfd(c)
                           \/ recv_published(c) \/ recv_unregister(c) \/ recv_error(c)

BrokerSpec == BrokerInit /\ [][BrokerNext]_broker_vars

-----------------------------------------------------------------------------
\* Main forwards and removes, and joins its threads: what they have still to
\* send to is open, and still a subscriber in the table.
ForwardedToListed ==
  \A args \in sending.threads :
    /\ args.connfd \notin closed
    /\ \E i \in Slots : \E n \in DOMAIN list[i]["subs"] : list[i]["subs"][n].connfd = args.connfd

\* Each message of a publisher is the one after the message of it before.
WithoutGaps(data) ==
  \A i, j \in DOMAIN data :
    i < j /\ data[i].from = data[j].from /\ (\A k \in (i + 1)..(j - 1) : data[k].from # data[i].from)
      => data[j].n = data[i].n + 1

\* From the first message of a publisher that a subscriber is sent, it is sent
\* every one, once and in order, in each mode, whoever else comes or goes.
DataWithoutGaps == \A c \in Clients : WithoutGaps(received[c])
=============================================================================
