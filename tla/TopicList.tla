----------------------------- MODULE TopicList -----------------------------
(***************************************************************************)
(* The broker's table of topics in Practica4_pub_sub (client_list.c) with  *)
(* the two threads that use it: new_clients_thread_func registers clients, *)
(* main's brok_seq_recv unregisters them.                                  *)
(*                                                                         *)
(* An operation on the table is a sequence of critical sections of         *)
(* topics_mutex; each of them is one step.  A name is in one slot at most, *)
(* so a search for it is one step too: it finds what it would find at the  *)
(* moment it examines that slot.  A search for a free slot is not.         *)
(*                                                                         *)
(* Forwarding is in TopicBroker, which extends this module.                *)
(*                                                                         *)
(* Left out: how brok_seq_recv picks the connection it reads               *)
(* from (it polls an array that is only partly initialised): it may be any *)
(* connection in the table that has a request; that the number of a closed *)
(* connection may be given to another one.                                 *)
(***************************************************************************)
EXTENDS Integers, Sequences

CONSTANTS
  Clients,        \* each one is its own connection, and its connfd
  Topics, NoName, NoClient,
  TOPICS_MAX,
  PUBLISHERS_MAX, SUBSCRIBERS_MAX   \* per topic

ASSUME NamesAssumption == NoName \notin Topics /\ NoClient \notin Clients
ASSUME SizesAssumption == {TOPICS_MAX, PUBLISHERS_MAX, SUBSCRIBERS_MAX} \subseteq Nat \ {0}

VARIABLES
  name,           \* per slot, its topic's name; NoName: not is_valid
  list,           \* per slot, pubs and subs
  client_id_counter,
  closed,         \* the connections the broker has closed
  adding,         \* new_clients_thread_func: what it does next, and its locals
  removing,       \* main, the same
  state,          \* per client program, see States
  kind, topic, id \* per client, what it registers as, and the id it was given

table == <<name, list, client_id_counter, closed>>
programs == <<state, kind, topic, id>>
vars == <<table, adding, removing, programs>>

Slots == 1..TOPICS_MAX
Kinds == {"pubs", "subs"}
States == {"new", "registering", "registered", "failed", "leaving", "left"}
SizeOf(k) == IF k = "pubs" THEN PUBLISHERS_MAX ELSE SUBSCRIBERS_MAX
Rest == [pc |-> "rest", connfd |-> NoClient, index |-> 0]

topic_list_init ==
  /\ name = [i \in Slots |-> NoName]
  /\ list = [i \in Slots |-> [k \in Kinds |-> <<>>]]
  /\ client_id_counter = 0

Init ==
  /\ topic_list_init
  /\ closed = {}
  /\ adding = Rest /\ removing = Rest
  /\ state = [c \in Clients |-> "new"]
  /\ kind \in [Clients -> Kinds] /\ topic \in [Clients -> Topics]
  /\ id = [c \in Clients |-> -1]

\* topic_list_index_from_name: the slot, if there is one.
IndexFromName(t) == {i \in Slots : name[i] = t}

(***************************************************************************)
(* topic_list_new_pub and topic_list_new_sub, called by brok_new_register  *)
(* for the connection that was accepted last.                              *)
(***************************************************************************)
At(pc) == adding.pc = pc
Go(pc, index) == adding' = [adding EXCEPT !.pc = pc, !.index = index]

brok_recv(c) ==
  /\ At("rest") /\ state[c] = "new"
  /\ adding' = [pc |-> "search", connfd |-> c, index |-> 0]
  /\ state' = [state EXCEPT ![c] = "registering"]
  /\ UNCHANGED <<table, removing, kind, topic, id>>

search_topic ==
  /\ At("search")
  /\ LET found == IndexFromName(topic[adding.connfd]) IN
       IF found = {} THEN Go("new_topic_search", 0) ELSE \E i \in found : Go("insert", i)
  /\ UNCHANGED <<table, removing, programs>>

\* topic_list_new_topic searches for the topic itself...
new_topic_search ==
  /\ At("new_topic_search")
  /\ IF IndexFromName(topic[adding.connfd]) = {} THEN Go("new_topic", 1) ELSE Go("respond", 0)
  /\ UNCHANGED <<table, removing, programs>>

\* Mutant: the loop over the slots goes on after the topic has got one.
topic_list_new_topic_all ==
  /\ At("new_topic") /\ adding.index \in Slots
  /\ LET i == adding.index IN
       /\ name' = IF name[i] = NoName THEN [name EXCEPT ![i] = topic[adding.connfd]] ELSE name
       /\ Go(IF i = TOPICS_MAX THEN "search_again" ELSE "new_topic", i + 1)
  /\ UNCHANGED <<list, client_id_counter, closed, removing, programs>>

\* ... and then for a free slot, one by one.
topic_list_new_topic ==
  /\ At("new_topic") /\ adding.index \in Slots
  /\ LET i == adding.index IN
       \/ /\ name[i] = NoName
          /\ name' = [name EXCEPT ![i] = topic[adding.connfd]]
          /\ Go("search_again", 0)
       \/ /\ name[i] # NoName
          /\ Go("new_topic", i + 1)
          /\ UNCHANGED name
  /\ UNCHANGED <<list, client_id_counter, closed, removing, programs>>

topic_list_full ==
  /\ At("new_topic") /\ adding.index \notin Slots
  /\ Go("respond", 0)
  /\ UNCHANGED <<table, removing, programs>>

\* Main may have removed the topic again: the index is -1, and the broker dies
\* reading topics[-1].
search_topic_again ==
  /\ At("search_again")
  /\ LET found == IndexFromName(topic[adding.connfd]) IN
       IF found = {} THEN Go("ended", 0) ELSE \E i \in found : Go("insert", i)
  /\ UNCHANGED <<table, removing, programs>>

\* A full list drops the client; its id is returned all the same.
client_list_insert(l, k, cl) == IF Len(l) >= SizeOf(k) THEN l ELSE Append(l, cl)

insert_client ==
  /\ At("insert")
  /\ LET c == adding.connfd IN
       /\ list' = [list EXCEPT ![adding.index][kind[c]] =
            client_list_insert(@, kind[c], [id |-> client_id_counter, connfd |-> c])]
       /\ id' = [id EXCEPT ![c] = client_id_counter]
  /\ client_id_counter' = client_id_counter + 1
  /\ Go("respond", 0)
  /\ UNCHANGED <<name, closed, removing, state, kind, topic>>

\* The status is always OK; a client takes the id -1, or the end of a closed
\* connection, for an error.
respond_register ==
  /\ At("respond") /\ adding' = Rest
  /\ LET c == adding.connfd IN
       state' = [state EXCEPT ![c] = IF id[c] < 0 \/ c \in closed THEN "failed" ELSE "registered"]
  /\ UNCHANGED <<table, removing, kind, topic, id>>

new_clients_thread_func ==
  \/ \E c \in Clients : brok_recv(c)
  \/ search_topic \/ new_topic_search \/ topic_list_new_topic \/ topic_list_full
  \/ search_topic_again \/ insert_client \/ respond_register

(***************************************************************************)
(* topic_list_remove_pub and topic_list_remove_sub.                        *)
(***************************************************************************)
MainAt(pc) == removing.pc = pc
MainGo(pc, index) == removing' = [removing EXCEPT !.pc = pc, !.index = index]

Listed(c) ==
  \E i \in Slots, k \in Kinds : name[i] # NoName /\ \E n \in DOMAIN list[i][k] : list[i][k][n].connfd = c

pub_sub_unregister(c) ==
  /\ state[c] = "registered"
  /\ state' = [state EXCEPT ![c] = "leaving"]
  /\ UNCHANGED <<table, adding, removing, kind, topic, id>>

brok_seq_recv(c) ==
  /\ MainAt("rest") /\ state[c] = "leaving" /\ Listed(c)
  /\ removing' = [pc |-> "search", connfd |-> c, index |-> 0]
  /\ UNCHANGED <<table, adding, programs>>

\* Where the search for the client's topic leads, before and after the removal.
FoundOr(next) ==
  LET found == IndexFromName(topic[removing.connfd]) IN
  IF found = {} THEN MainGo("respond", 0) ELSE \E i \in found : MainGo(next, i)

search_removed ==
  /\ MainAt("search") /\ FoundOr("remove_id")
  /\ UNCHANGED <<table, adding, programs>>

\* Mutant: the id is not compared.
IsFirst_any(l, n) == l # <<>>

\* client_list_remove_id compares the id of the first client of the list only.
IsFirst(l, n) == l # <<>> /\ l[1].id = n

client_list_remove_id ==
  /\ MainAt("remove_id")
  /\ LET c == removing.connfd  l == list[removing.index][kind[c]] IN
     \/ /\ IsFirst(l, id[c])
        /\ list' = [list EXCEPT ![removing.index][kind[c]] = Tail(l)]
        /\ closed' = closed \cup {l[1].connfd}
     \/ ~IsFirst(l, id[c]) /\ UNCHANGED <<list, closed>>
  /\ MainGo("test", removing.index)
  /\ UNCHANGED <<name, client_id_counter, adding, programs>>

Empty(i) == \A k \in Kinds : list[i][k] = <<>>

\* Mutant: only topic_list_remove_sub removes the topic.
test_empty_sub ==
  /\ MainAt("test")
  /\ IF Empty(removing.index) /\ kind[removing.connfd] = "subs"
     THEN MainGo("search_again", 0) ELSE MainGo("respond", 0)
  /\ UNCHANGED <<table, adding, programs>>

test_empty ==
  /\ MainAt("test")
  /\ IF Empty(removing.index) THEN MainGo("search_again", 0) ELSE MainGo("respond", 0)
  /\ UNCHANGED <<table, adding, programs>>

\* topic_list_remove_topic is given the name, not the slot.
search_removed_again ==
  /\ MainAt("search_again") /\ FoundOr("remove_topic")
  /\ UNCHANGED <<table, adding, programs>>

Connfds(i) == UNION {{list[i][k][n].connfd : n \in DOMAIN list[i][k]} : k \in Kinds}

\* Mutant: client_list_empty does not reset count.
client_list_empty_keep(i) ==
  /\ closed' = closed \cup Connfds(i)
  /\ UNCHANGED list

\* Closes whatever is in the lists by now.
client_list_empty(i) ==
  /\ closed' = closed \cup Connfds(i)
  /\ list' = [list EXCEPT ![i] = [k \in Kinds |-> <<>>]]

topic_list_remove_topic ==
  /\ MainAt("remove_topic") /\ MainGo("respond", 0)
  /\ name' = [name EXCEPT ![removing.index] = NoName]
  /\ client_list_empty(removing.index)
  /\ UNCHANGED <<client_id_counter, adding, programs>>

\* OK, whether the client was removed or not.  A removed client's connection is
\* closed by now, and it reads the end of it instead; it leaves all the same.
respond_unregister ==
  /\ MainAt("respond") /\ removing' = Rest
  /\ state' = [state EXCEPT ![removing.connfd] = "left"]
  /\ UNCHANGED <<table, adding, kind, topic, id>>

\* A client that was cut off sees it when it unregisters.
recv_closed(c) ==
  /\ state[c] = "leaving" /\ c \in closed /\ removing.connfd # c
  /\ state' = [state EXCEPT ![c] = "left"]
  /\ UNCHANGED <<table, adding, removing, kind, topic, id>>

main_thread ==
  \/ \E c \in Clients : brok_seq_recv(c)
  \/ search_removed \/ client_list_remove_id \/ test_empty \/ search_removed_again
  \/ topic_list_remove_topic \/ respond_unregister

Next ==
  /\ ~At("ended")
  /\ \/ new_clients_thread_func \/ main_thread
     \/ \E c \in Clients : pub_sub_unregister(c) \/ recv_closed(c)

Spec == Init /\ [][Next]_vars

-----------------------------------------------------------------------------
Entries == [id : Nat, connfd : Clients]

\* The variables have their types, and no list exceeds its array.
TypeOK ==
  /\ name \in [Slots -> Topics \cup {NoName}]
  /\ \A i \in Slots, k \in Kinds : list[i][k] \in Seq(Entries) /\ Len(list[i][k]) <= SizeOf(k)
  /\ client_id_counter \in Nat /\ closed \subseteq Clients
  /\ adding.index \in 0..(TOPICS_MAX + 1) /\ removing.index \in 0..TOPICS_MAX
  /\ state \in [Clients -> States] /\ id \in [Clients -> Nat \cup {-1}]

\* A topic is in one slot at most, although the search for its name, the search
\* for a free slot and the insertion are separate critical sections.
TopicInOneSlot ==
  \A i, j \in Slots : i # j /\ name[i] = name[j] => name[i] = NoName

\* The broker has closed none of the connections in the table.
ListedAreOpen == \A i \in Slots : Connfds(i) \cap closed = {}

\* A topic without clients has a thread that will add one or free its slot.
EmptyTopicIsTransient ==
  \A i \in Slots : name[i] # NoName /\ Empty(i) =>
    \/ At("search_again") /\ topic[adding.connfd] = name[i]
    \/ At("insert") /\ adding.index = i
    \/ removing.pc \in {"test", "search_again", "remove_topic"} /\ topic[removing.connfd] = name[i]

\* The broker closes a client's connection for that client's own unregister
\* message, or with its topic, never for somebody else's message.
OnlyOwnRemoval ==
  [][\A c \in closed' \ closed : c = removing.connfd \/ MainAt("remove_topic")]_vars
=============================================================================
