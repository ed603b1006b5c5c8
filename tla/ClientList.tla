----------------------------- MODULE ClientList -----------------------------
(***************************************************************************)
(* The broker's table of clients, RP4_pubsub/client_list.c.                *)
(*                                                                         *)
(* The table has TOPICS_MAX slots; a slot has a topic's name (NoName while *)
(* it is free) and the topic's publishers and subscribers.  Every          *)
(* operation holds client_list_mutex from its first to its last access, so *)
(* each is one step.  The position of a client inside its slot's arrays is *)
(* left out; the global counters that keep the arrays from overflowing are *)
(* not.                                                                    *)
(*                                                                         *)
(* The clients are those of publisher.c and subscriber.c: each registers   *)
(* once and unregisters once, with the topic and the id it got.            *)
(***************************************************************************)
EXTENDS Integers, FiniteSets

CONSTANTS
  Clients,      \* the clients, each one is its own socket
  Topics, NoName,
  TOPICS_MAX, PUBLISHERS_MAX, SUBSCRIBERS_MAX

PUBLISHER == 0
SUBSCRIBER == 1
client_type == {PUBLISHER, SUBSCRIBER}

CLIENTS_MAX(ct) == IF ct = PUBLISHER THEN PUBLISHERS_MAX ELSE SUBSCRIBERS_MAX

ASSUME TopicsAssumption == NoName \notin Topics
ASSUME LimitsAssumption ==
  TOPICS_MAX \in Nat /\ PUBLISHERS_MAX \in Nat /\ SUBSCRIBERS_MAX \in Nat

VARIABLES
  name,         \* per slot, the topic's name
  entries,      \* the occupied array elements: slot, type, id, socket
  counter,      \* pub_counter and sub_counter
  id_counter,
  status,       \* per client: "new", "registered", "refused" or "unregistered"
  type, topic, id   \* per client: what it registered as, and the id it was given

table == <<name, entries, counter, id_counter>>
vars == <<name, entries, counter, id_counter, status, type, topic, id>>

Slots == 1..TOPICS_MAX
Entries == [slot : Slots, ct : client_type, id : Nat, socket : Clients]

Least(S) == CHOOSE i \in S : \A j \in S : i <= j

\* n_clients of one array of a slot.
ClientsIn(i, ct) == {e \in entries : e.slot = i /\ e.ct = ct}

init_client_list ==
  /\ name = [i \in Slots |-> NoName]
  /\ entries = {}
  /\ counter = [ct \in client_type |-> 0]
  /\ id_counter = 0

Init ==
  /\ init_client_list
  /\ status = [c \in Clients |-> "new"]
  /\ type \in [Clients -> client_type]
  /\ topic \in [Clients -> Topics]
  /\ id = [c \in Clients |-> -1]

(***************************************************************************)
(* add_client: the first slot that is free or has the topic's name.  A     *)
(* full table refuses the client (-1, STATUS_LIMIT).                       *)
(***************************************************************************)
SlotsFor(t) == {i \in Slots : name[i] \in {NoName, t}}

\* Mutant: the limit of the other type is looked at.
Full_swapped(ct, t) == counter[1 - ct] = CLIENTS_MAX(ct) \/ SlotsFor(t) = {}

Full(ct, t) == counter[ct] = CLIENTS_MAX(ct) \/ SlotsFor(t) = {}

get_new_id == id_counter

\* Mutant: the table of topics may be full.
add_client_last_slot(c) ==
  /\ status[c] = "new" /\ counter[type[c]] < CLIENTS_MAX(type[c])
  /\ LET i == IF SlotsFor(topic[c]) = {} THEN TOPICS_MAX ELSE Least(SlotsFor(topic[c])) IN
       /\ name' = [name EXCEPT ![i] = topic[c]]
       /\ entries' = entries \cup {[slot |-> i, ct |-> type[c], id |-> get_new_id, socket |-> c]}
  /\ counter' = [counter EXCEPT ![type[c]] = @ + 1]
  /\ id_counter' = id_counter + 1
  /\ id' = [id EXCEPT ![c] = get_new_id]
  /\ status' = [status EXCEPT ![c] = "registered"]
  /\ UNCHANGED <<type, topic>>

add_client(c) ==
  /\ status[c] = "new"
  /\ ~Full(type[c], topic[c])
  /\ LET i == Least(SlotsFor(topic[c])) IN
       /\ name' = [name EXCEPT ![i] = topic[c]]
       /\ entries' = entries \cup {[slot |-> i, ct |-> type[c], id |-> get_new_id, socket |-> c]}
  /\ counter' = [counter EXCEPT ![type[c]] = @ + 1]
  /\ id_counter' = id_counter + 1
  /\ id' = [id EXCEPT ![c] = get_new_id]
  /\ status' = [status EXCEPT ![c] = "registered"]
  /\ UNCHANGED <<type, topic>>

add_client_full(c) ==
  /\ status[c] = "new"
  /\ Full(type[c], topic[c])
  /\ status' = [status EXCEPT ![c] = "refused"]
  /\ UNCHANGED <<table, type, topic, id>>

(***************************************************************************)
(* remove_client: the first slot with the topic's name, and in it the      *)
(* client with this type and id n.  One that is not there is ignored.  c   *)
(* is the client that asks, and status notes that it did.                  *)
(***************************************************************************)
SlotsOf(t) == {i \in Slots : name[i] = t}

\* Mutant: the id is not compared.
Found_any(ct, t, n) ==
  IF SlotsOf(t) = {} THEN {} ELSE ClientsIn(Least(SlotsOf(t)), ct)

\* What remove_client finds: the entry with that id, if any.
Found(ct, t, n) ==
  IF SlotsOf(t) = {} THEN {}
  ELSE {e \in ClientsIn(Least(SlotsOf(t)), ct) : e.id = n}

\* Mutant: the name is freed as soon as the slot has no publisher.
remove_client_name(c, n) ==
  /\ LET found == Found(type[c], topic[c], n) IN
       /\ entries' = entries \ found
       /\ counter' = [counter EXCEPT ![type[c]] = @ - Cardinality(found)]
       /\ name' = [i \in Slots |->
            IF (\E e \in found : e.slot = i) /\ ~\E e \in entries' : e.slot = i /\ e.ct = PUBLISHER
            THEN NoName ELSE name[i]]
  /\ status' = [status EXCEPT ![c] = "unregistered"]
  /\ UNCHANGED <<id_counter, type, topic, id>>

remove_client(c, n) ==
  /\ LET found == Found(type[c], topic[c], n) IN
       /\ entries' = entries \ found
       /\ counter' = [counter EXCEPT ![type[c]] = @ - Cardinality(found)]
       /\ name' = [i \in Slots |->
            IF (\E e \in found : e.slot = i) /\ ~\E e \in entries' : e.slot = i
            THEN NoName ELSE name[i]]
  /\ status' = [status EXCEPT ![c] = "unregistered"]
  /\ UNCHANGED <<id_counter, type, topic, id>>

\* What get_subscribers, get_all_publishers and get_all_subscribers return.
get_subscribers(t) ==
  IF SlotsOf(t) = {} THEN {}
  ELSE {e.socket : e \in ClientsIn(Least(SlotsOf(t)), SUBSCRIBER)}

get_all(ct) == {e.socket : e \in {f \in entries : f.ct = ct /\ name[f.slot] # NoName}}

unregister(c) == status[c] = "registered" /\ remove_client(c, id[c])

Next == \E c \in Clients : add_client(c) \/ add_client_full(c) \/ unregister(c)

Spec == Init /\ [][Next]_vars

-----------------------------------------------------------------------------
TypeOK ==
  /\ name \in [Slots -> Topics \cup {NoName}]
  /\ entries \subseteq Entries
  /\ counter \in [client_type -> Int] /\ id_counter \in Nat
  /\ status \in [Clients -> {"new", "registered", "refused", "unregistered"}]
  /\ type \in [Clients -> client_type] /\ topic \in [Clients -> Topics]
  /\ id \in [Clients -> Nat \cup {-1}]

Registered(ct, t) == {c \in Clients : status[c] = "registered" /\ type[c] = ct /\ topic[c] = t}

EntriesOf(ct) == {e \in entries : e.ct = ct}

\* pub_counter and sub_counter count the clients in the table and stay within
\* the limits: the search for a free element (client_list.c:132, 142) always
\* succeeds, and the callers' arrays of PUBLISHERS_MAX and SUBSCRIBERS_MAX
\* sockets are long enough.
CountersCount ==
  \A ct \in client_type :
    counter[ct] = Cardinality(EntriesOf(ct)) /\ counter[ct] <= CLIENTS_MAX(ct)

\* Nobody that is registered is dropped by what others do: it is in a slot that
\* has its topic's name, so the threads that poll all publishers (subscribers)
\* go on polling it.
RegisteredAreListed ==
  \A c \in Clients : status[c] = "registered" =>
    /\ c \in get_all(type[c])
    /\ \E e \in entries : e.socket = c /\ e.ct = type[c] /\ e.id = id[c] /\ name[e.slot] = topic[c]

\* Two clients in the table never have the same id, also when ids of clients
\* that left are free again.
IdsUnique == \A e, f \in entries : e.id = f.id => e = f

\* A slot is taken exactly while it has a client.
NamedIffUsed == \A i \in Slots : name[i] # NoName <=> \E e \in entries : e.slot = i

\* Unregistering takes the client out of the table, unless its topic is in two
\* slots; and nobody else.
UnregisterRemoves ==
  [][\A c \in Clients :
       status[c] = "registered" /\ status'[c] = "unregistered" =>
         \/ entries \ entries' = {e \in entries : e.socket = c}
         \/ Cardinality(SlotsOf(topic[c])) > 1]_vars

\* get_subscribers "returns the number of subscribers" (client_list.h:34) of the
\* topic: everybody registered for it, and nobody else.
GetSubscribersComplete ==
  \A t \in Topics : get_subscribers(t) = Registered(SUBSCRIBER, t)
=============================================================================
