------------------------- MODULE TopicBrokerProofs -------------------------
(***************************************************************************)
(* Proofs about TopicList and TopicBroker, for any number of clients,      *)
(* topics, slots and messages: that a topic is in one slot at most, the    *)
(* table's invariants under forwarding, that what main forwards goes to    *)
(* open connections of the table, and that no subscriber misses a message. *)
(***************************************************************************)
EXTENDS TopicBroker, TLAPS

\* TopicList alone.
Labels == {"rest", "search", "new_topic_search", "new_topic", "search_again",
           "insert", "respond", "ended"}
Position == [pc : Labels, connfd : Clients \cup {NoClient}, index : Int]

\* The registering thread knows whom it registers and, while it looks for a free
\* slot, that the topic is in none: only this thread gives names to slots.
SearchInv ==
  /\ At("rest") \/ adding.connfd \in Clients
  /\ At("new_topic") => \A i \in Slots : name[i] # topic[adding.connfd]

TypeInv ==
  /\ name \in [Slots -> Topics \cup {NoName}]
  /\ topic \in [Clients -> Topics]
  /\ adding \in Position

SlotInv == TypeInv /\ SearchInv /\ TopicInOneSlot

LEMMA SlotInit == Init => SlotInv
<1> SUFFICES ASSUME Init PROVE SlotInv
  OBVIOUS
<1>1. name = [i \in Slots |-> NoName] /\ topic \in [Clients -> Topics] /\ adding = Rest
  BY DEF Init, topic_list_init
<1>2. adding \in Position /\ adding.pc = "rest"
  BY <1>1 DEF Rest, Position, Labels
<1> QED
  BY <1>1, <1>2 DEF SlotInv, TypeInv, SearchInv, TopicInOneSlot, At

\* Go moves the thread and keeps its connection.
LEMMA GoMoves ==
  ASSUME adding \in Position, NEW pc \in Labels, NEW i \in Int, Go(pc, i)
  PROVE  adding' \in Position /\ adding'.pc = pc /\ adding'.connfd = adding.connfd
BY DEF Position, Go

LEMMA SlotsAreIntegers == Slots \subseteq Int
BY SizesAssumption DEF Slots

\* A step that leaves the names alone and does not enter the loop over the slots.
LEMMA NamesKept ==
  ASSUME SlotInv, UNCHANGED <<name, topic>>, adding' \in Position,
         adding'.pc # "new_topic", adding'.pc = "rest" \/ adding'.connfd \in Clients
  PROVE  SlotInv'
BY DEF SlotInv, TypeInv, SearchInv, TopicInOneSlot, At

\* The registering thread keeps SlotInv.
LEMMA AddingKeepsSlotInv ==
  ASSUME SlotInv, new_clients_thread_func
  PROVE  SlotInv'
<1> DEFINE t == topic[adding.connfd]
<1>0. adding \in Position /\ Slots \subseteq Int
  BY SlotsAreIntegers DEF SlotInv, TypeInv
<1>1. ASSUME NEW c \in Clients, brok_recv(c) PROVE SlotInv'
  <2>1. UNCHANGED <<name, topic>>
    BY <1>1 DEF brok_recv, table
  <2>2. adding' \in Position /\ adding'.pc = "search" /\ adding'.connfd \in Clients
    BY <1>1 DEF brok_recv, Position, Labels
  <2> QED BY <2>1, <2>2, NamesKept
<1>2. CASE search_topic
  <2>1. UNCHANGED <<name, topic>> /\ adding.connfd \in Clients
    BY <1>2 DEF search_topic, table, programs, SlotInv, SearchInv, At
  <2>2. Go("new_topic_search", 0) \/ \E i \in Slots : Go("insert", i)
    BY <1>2 DEF search_topic, IndexFromName
  <2>3. adding' \in Position /\ adding'.pc \in {"new_topic_search", "insert"}
        /\ adding'.connfd = adding.connfd
    BY <1>0, <2>2, GoMoves DEF Labels
  <2> QED BY <2>1, <2>3, NamesKept
<1>3. CASE new_topic_search
  <2>1. UNCHANGED <<name, topic>> /\ adding.connfd \in Clients
    BY <1>3 DEF new_topic_search, table, programs, SlotInv, SearchInv, At
  <2>2. CASE IndexFromName(t) = {}
    <3>1. Go("new_topic", 1)
      BY <1>3, <2>2 DEF new_topic_search
    <3>2. adding' \in Position /\ adding'.connfd = adding.connfd
      BY <1>0, <3>1, GoMoves DEF Labels
    <3>3. \A i \in Slots : name[i] # t
      BY <2>2 DEF IndexFromName
    <3> QED BY <2>1, <3>2, <3>3 DEF SlotInv, TypeInv, SearchInv, TopicInOneSlot, At
  <2>3. CASE IndexFromName(t) # {}
    <3>1. Go("respond", 0)
      BY <1>3, <2>3 DEF new_topic_search
    <3>2. adding' \in Position /\ adding'.pc = "respond" /\ adding'.connfd = adding.connfd
      BY <1>0, <3>1, GoMoves DEF Labels
    <3> QED BY <2>1, <3>2, NamesKept
  <2> QED BY <2>2, <2>3
<1>4. CASE topic_list_new_topic
  <2> DEFINE i == adding.index
  <2>1. At("new_topic") /\ i \in Slots /\ topic' = topic
    BY <1>4 DEF topic_list_new_topic, programs
  <2>2. adding.connfd \in Clients /\ \A j \in Slots : name[j] # t
    BY <2>1 DEF SlotInv, SearchInv, At
  <2>3. t \in Topics /\ t # NoName
    BY <2>2, NamesAssumption DEF SlotInv, TypeInv
  <2>4. \A j \in Slots : j + 1 \in Int
    BY SlotsAreIntegers
  <2>5. i + 1 \in Int
    BY <2>1, <2>4
  <2>6. CASE name[i] # NoName
    <3>1. name' = name /\ Go("new_topic", i + 1)
      BY <1>4, <2>6 DEF topic_list_new_topic
    <3>2. adding' \in Position /\ adding'.connfd = adding.connfd
      BY <1>0, <2>1, <2>2, <2>3, <2>5, <3>1, GoMoves DEF Labels
    <3> QED BY <2>1, <2>2, <2>3, <2>5, <3>1, <3>2 DEF SlotInv, TypeInv, SearchInv, TopicInOneSlot, At
  <2>7. CASE name[i] = NoName
    <3>1. name' = [name EXCEPT ![i] = t] /\ Go("search_again", 0)
      BY <1>4, <2>7 DEF topic_list_new_topic
    <3>2. adding' \in Position /\ adding'.pc = "search_again" /\ adding'.connfd = adding.connfd
      BY <1>0, <3>1, GoMoves DEF Labels
    <3>3. TypeInv' /\ SearchInv'
      BY <2>1, <2>2, <2>3, <2>5, <3>1, <3>2 DEF SlotInv, TypeInv, SearchInv, At
    <3>4. TopicInOneSlot'
      BY <2>1, <2>2, <2>3, <2>5, <3>1 DEF SlotInv, TypeInv, TopicInOneSlot
    <3> QED BY <3>3, <3>4 DEF SlotInv
  <2> QED BY <2>6, <2>7
<1>5. CASE topic_list_full
  <2>1. UNCHANGED <<name, topic>> /\ adding.connfd \in Clients /\ Go("respond", 0)
    BY <1>5 DEF topic_list_full, table, programs, SlotInv, SearchInv, At
  <2>2. adding' \in Position /\ adding'.pc = "respond" /\ adding'.connfd = adding.connfd
    BY <1>0, <2>1, GoMoves DEF Labels
  <2> QED BY <2>1, <2>2, NamesKept
<1>6. CASE search_topic_again
  <2>1. UNCHANGED <<name, topic>> /\ adding.connfd \in Clients
    BY <1>6 DEF search_topic_again, table, programs, SlotInv, SearchInv, At
  <2>2. Go("ended", 0) \/ \E i \in Slots : Go("insert", i)
    BY <1>6 DEF search_topic_again, IndexFromName
  <2>3. adding' \in Position /\ adding'.pc \in {"ended", "insert"}
        /\ adding'.connfd = adding.connfd
    BY <1>0, <2>2, GoMoves DEF Labels
  <2> QED BY <2>1, <2>3, NamesKept
<1>7. CASE insert_client
  <2>1. UNCHANGED <<name, topic>> /\ adding.connfd \in Clients /\ Go("respond", 0)
    BY <1>7 DEF insert_client, SlotInv, SearchInv, At
  <2>2. adding' \in Position /\ adding'.pc = "respond" /\ adding'.connfd = adding.connfd
    BY <1>0, <2>1, GoMoves DEF Labels
  <2> QED BY <2>1, <2>2, NamesKept
<1>8. CASE respond_register
  <2>1. UNCHANGED <<name, topic>> /\ adding' = Rest
    BY <1>8 DEF respond_register, table
  <2>2. adding' \in Position /\ adding'.pc = "rest"
    BY <2>1 DEF Rest, Position, Labels
  <2> QED BY <2>1, <2>2, NamesKept
<1> QED
  BY <1>1, <1>2, <1>3, <1>4, <1>5, <1>6, <1>7, <1>8 DEF new_clients_thread_func

\* Main keeps SlotInv: it gives no slot a name.
LEMMA RemovingKeepsSlotInv ==
  ASSUME SlotInv, main_thread
  PROVE  SlotInv'
<1>1. /\ UNCHANGED <<adding, topic>>
      /\ name' = name \/ name' = [name EXCEPT ![removing.index] = NoName]
  BY DEF main_thread, brok_seq_recv, search_removed, client_list_remove_id, test_empty,
         search_removed_again, topic_list_remove_topic, respond_unregister, table, programs
<1>2. \A i \in Slots : name'[i] \in {name[i], NoName}
  BY <1>1 DEF SlotInv, TypeInv
<1>3. name' \in [Slots -> Topics \cup {NoName}]
  BY <1>1 DEF SlotInv, TypeInv
<1>4. TopicInOneSlot'
  BY <1>2 DEF SlotInv, TopicInOneSlot, Slots
<1>5. At("new_topic") => adding.connfd \in Clients /\ topic[adding.connfd] # NoName
  BY NamesAssumption DEF SlotInv, TypeInv, SearchInv, At
<1> QED
  BY <1>1, <1>2, <1>3, <1>4, <1>5 DEF SlotInv, TypeInv, SearchInv, At

LEMMA StepKeepsSlotInv == SlotInv /\ [Next]_vars => SlotInv'
<1> SUFFICES ASSUME SlotInv, [Next]_vars PROVE SlotInv'
  OBVIOUS
<1>1. ASSUME NEW c \in Clients, pub_sub_unregister(c) \/ recv_closed(c) PROVE SlotInv'
  BY <1>1 DEF pub_sub_unregister, recv_closed, SlotInv, TypeInv, SearchInv, TopicInOneSlot, At, table
<1>2. CASE UNCHANGED vars
  BY <1>2 DEF vars, table, programs, SlotInv, TypeInv, SearchInv, TopicInOneSlot, At
<1> QED
  BY <1>1, <1>2, AddingKeepsSlotInv, RemovingKeepsSlotInv DEF Next

\* The thread that registers clients never gives a topic a second slot, although
\* its searches and the insertion of the name are separate critical sections
\* between which main frees slots.
THEOREM OneSlotPerTopic == Spec => []TopicInOneSlot
<1>1. SlotInv => TopicInOneSlot
  BY DEF SlotInv
<1> QED
  BY <1>1, SlotInit, StepKeepsSlotInv, PTL DEF Spec

-----------------------------------------------------------------------------
\* TopicBroker.
MainLabels == {"rest", "search", "remove_id", "test", "search_again", "remove_topic", "respond",
               "forward_search", "sending", "create", "join"}
ForwardLabels == {"rest", "forward_search", "sending", "create", "join"}
MainPosition == [pc : MainLabels, connfd : Clients \cup {NoClient}, index : Int]

TableType ==
  /\ list \in [Slots -> [Kinds -> Seq(Entries)]]
  /\ closed \subseteq Clients
  /\ client_id_counter \in Nat
  /\ id \in [Clients -> Int] /\ kind \in [Clients -> Kinds] /\ state \in [Clients -> States]

\* A client is in one place of the table at most, ...
UniqueInv ==
  \A i, j \in Slots, k, l \in Kinds :
    \A m \in DOMAIN list[i][k], n \in DOMAIN list[j][l] :
      list[i][k][m].connfd = list[j][l][n].connfd => i = j /\ k = l /\ m = n

\* ... with the id it was given, which nobody else has, ...
IdInv ==
  /\ \A i \in Slots, k \in Kinds : \A n \in DOMAIN list[i][k] :
       id[list[i][k][n].connfd] = list[i][k][n].id
  /\ \A c \in Clients : id[c] < client_id_counter
  /\ \A c, d \in Clients : id[c] = id[d] /\ c # d => id[c] = -1

\* ... and with an open connection.
OpenInv ==
  \A i \in Slots, k \in Kinds : \A n \in DOMAIN list[i][k] : list[i][k][n].connfd \notin closed

\* A client that has not been inserted yet is neither in the table nor closed.
Fresh(c) ==
  \/ state[c] = "new"
  \/ adding.connfd = c /\ adding.pc \notin {"rest", "respond", "ended"}

FreshInv ==
  /\ adding.connfd \in Clients => state[adding.connfd] # "new"
  /\ \A c \in Clients : Fresh(c) =>
       /\ c \notin closed
       /\ \A i \in Slots, k \in Kinds : \A n \in DOMAIN list[i][k] : list[i][k][n].connfd # c

ListInv == TableType /\ UniqueInv /\ IdInv /\ OpenInv /\ FreshInv

\* Main knows whom it serves and, while it removes, which slot has the topic:
\* nobody else takes a slot's name away.
MainInv ==
  /\ removing \in MainPosition
  /\ MainAt("rest") \/ removing.connfd \in Clients
  /\ removing.pc \in {"remove_id", "test", "remove_topic"} =>
       removing.index \in Slots /\ name[removing.index] = topic[removing.connfd]
  /\ removing.pc \in {"sending", "create", "join"} => removing.index \in Slots
  /\ At("insert") => adding.index \in Slots

\* The threads run while main joins them, and no list gets shorter until then.
ThreadsInv ==
  /\ ~MainAt("join") => sending.threads = {}
  /\ \A args \in sending.threads : \E n \in DOMAIN list[removing.index]["subs"] :
       list[removing.index]["subs"][n].connfd = args.connfd

SendingInv == sending = [sent |-> sending.sent, threads |-> sending.threads]

BrokerInv == SlotInv /\ ListInv /\ MainInv /\ EmptyTopicIsTransient /\ ThreadsInv

-----------------------------------------------------------------------------
\* The lists.
LEMMA ListInit == BrokerInit => ListInv
<1> SUFFICES ASSUME BrokerInit PROVE ListInv
  OBVIOUS
<1>1. /\ list = [i \in Slots |-> [k \in Kinds |-> <<>>]] /\ closed = {} /\ client_id_counter = 0
      /\ id = [c \in Clients |-> -1] /\ kind \in [Clients -> Kinds]
      /\ state = [c \in Clients |-> "new"] /\ adding = Rest
  BY DEF BrokerInit, Init, topic_list_init
<1>2. \A i \in Slots, k \in Kinds : list[i][k] = <<>> /\ DOMAIN list[i][k] = {}
  BY <1>1
<1>3. TableType
  BY <1>1 DEF TableType, States
<1>4. UniqueInv /\ IdInv /\ OpenInv
  BY <1>1, <1>2 DEF UniqueInv, IdInv, OpenInv
<1>5. FreshInv
  BY <1>1, <1>2, NamesAssumption DEF FreshInv, Rest
<1> QED
  BY <1>3, <1>4, <1>5 DEF ListInv

\* A step that leaves the lists alone, and makes nobody fresh.
LEMMA ListKept ==
  ASSUME ListInv, UNCHANGED <<list, closed, client_id_counter, id, kind>>,
         state' \in [Clients -> States],
         adding'.connfd \in Clients => state'[adding'.connfd] # "new",
         \A c \in Clients : Fresh(c)' => Fresh(c)
  PROVE  ListInv'
<1>1. TableType' /\ UniqueInv' /\ IdInv' /\ OpenInv'
  BY DEF ListInv, TableType, UniqueInv, IdInv, OpenInv
<1>2. FreshInv'
  BY DEF ListInv, FreshInv
<1> QED
  BY <1>1, <1>2 DEF ListInv

LEMMA ListsAreSequences ==
  ASSUME TableType, NEW i \in Slots, NEW k \in Kinds
  PROVE  /\ list[i][k] \in Seq(Entries) /\ Len(list[i][k]) \in Nat
         /\ DOMAIN list[i][k] = 1..Len(list[i][k])
         /\ \A n \in DOMAIN list[i][k] : list[i][k][n].connfd \in Clients /\ list[i][k][n].id \in Nat
<1>1. list[i][k] \in Seq(Entries)
  BY DEF TableType
<1>2. \A s \in Seq(Entries) : /\ Len(s) \in Nat /\ DOMAIN s = 1..Len(s)
                             /\ \A n \in DOMAIN s : s[n] \in Entries
  OBVIOUS
<1>3. \A x \in Entries : x.connfd \in Clients /\ x.id \in Nat
  BY DEF Entries
<1> QED
  BY <1>1, <1>2, <1>3

LEMMA InsertedInto ==
  ASSUME NEW s \in Seq(Entries), NEW x \in Entries, NEW k, NEW l,
         l = client_list_insert(s, k, x)
  PROVE  /\ l \in Seq(Entries)
         /\ \A n \in DOMAIN l : (n \in DOMAIN s /\ l[n] = s[n]) \/ (n = Len(s) + 1 /\ l[n] = x)
<1>1. l = s \/ l = Append(s, x)
  BY DEF client_list_insert
<1>2. Append(s, x) \in Seq(Entries)
  OBVIOUS
<1>3. \A n \in DOMAIN Append(s, x) :
        (n \in DOMAIN s /\ Append(s, x)[n] = s[n]) \/ (n = Len(s) + 1 /\ Append(s, x)[n] = x)
  OBVIOUS
<1> QED
  BY <1>1, <1>2, <1>3

\* client_list_insert appends the client that is being registered, or nothing.
LEMMA ListInsert ==
  ASSUME SlotInv, ListInv, MainInv, insert_client
  PROVE  ListInv'
<1> DEFINE c == adding.connfd
           a == adding.index
           l == list[a][kind[c]]
           e == [id |-> client_id_counter, connfd |-> c]
<1>1. At("insert") /\ c \in Clients /\ a \in Slots /\ kind[c] \in Kinds /\ l \in Seq(Entries)
  BY DEF insert_client, SlotInv, SearchInv, MainInv, ListInv, TableType, At
<1>2. /\ list' = [list EXCEPT ![a][kind[c]] = client_list_insert(l, kind[c], e)]
      /\ id' = [id EXCEPT ![c] = client_id_counter]
      /\ client_id_counter' = client_id_counter + 1
      /\ UNCHANGED <<closed, state, kind>>
      /\ Go("respond", 0)
  BY DEF insert_client
<1>3. adding'.pc = "respond" /\ adding'.connfd = c
  BY <1>2, GoMoves DEF SlotInv, TypeInv, Labels
<1>4. e \in Entries /\ client_id_counter \in Nat
  BY <1>1 DEF Entries, ListInv, TableType
<1>5. /\ client_list_insert(l, kind[c], e) \in Seq(Entries)
      /\ \A n \in DOMAIN client_list_insert(l, kind[c], e) :
           \/ n \in DOMAIN l /\ client_list_insert(l, kind[c], e)[n] = l[n]
           \/ n = Len(l) + 1 /\ client_list_insert(l, kind[c], e)[n] = e
  BY <1>1, <1>4, InsertedInto
<1>6. \A i \in Slots, k \in Kinds :
        list'[i][k] = IF i = a /\ k = kind[c] THEN client_list_insert(l, kind[c], e) ELSE list[i][k]
  BY <1>1, <1>2 DEF ListInv, TableType
<1>7. list' \in [Slots -> [Kinds -> Seq(Entries)]]
  BY <1>1, <1>2, <1>5 DEF ListInv, TableType
<1>8. ASSUME NEW i \in Slots, NEW k \in Kinds, NEW n \in DOMAIN list'[i][k]
      PROVE  \/ n \in DOMAIN list[i][k] /\ list'[i][k][n] = list[i][k][n]
             \/ i = a /\ k = kind[c] /\ n = Len(l) + 1 /\ list'[i][k][n] = e
  BY <1>1, <1>5, <1>6, <1>8
<1>9. \A i \in Slots, k \in Kinds : \A n \in DOMAIN list[i][k] : list[i][k][n].connfd # c
  BY <1>1 DEF ListInv, FreshInv, Fresh, At
<1>10. TableType'
  BY <1>1, <1>2, <1>4, <1>7 DEF ListInv, TableType
<1>11. UniqueInv'
  <2> SUFFICES ASSUME NEW i \in Slots, NEW j \in Slots, NEW k \in Kinds, NEW kj \in Kinds,
                      NEW m \in DOMAIN list'[i][k], NEW n \in DOMAIN list'[j][kj],
                      list'[i][k][m].connfd = list'[j][kj][n].connfd
               PROVE  i = j /\ k = kj /\ m = n
    BY DEF UniqueInv
  <2>1. e.connfd = c
    OBVIOUS
  <2>2. CASE m \in DOMAIN list[i][k] /\ list'[i][k][m] = list[i][k][m]
    <3>1. CASE n \in DOMAIN list[j][kj] /\ list'[j][kj][n] = list[j][kj][n]
      BY <2>2, <3>1 DEF ListInv, UniqueInv
    <3>2. CASE list'[j][kj][n] = e
      BY <1>9, <2>1, <2>2, <3>2
    <3> QED BY <1>8, <3>1, <3>2
  <2>3. CASE i = a /\ k = kind[c] /\ m = Len(l) + 1 /\ list'[i][k][m] = e
    <3>1. CASE n \in DOMAIN list[j][kj] /\ list'[j][kj][n] = list[j][kj][n]
      BY <1>9, <2>1, <2>3, <3>1
    <3>2. CASE j = a /\ kj = kind[c] /\ n = Len(l) + 1
      BY <2>3, <3>2
    <3> QED BY <1>8, <3>1, <3>2
  <2> QED BY <1>8, <2>2, <2>3
<1>12. IdInv'
  <2>1. \A d \in Clients : id'[d] = IF d = c THEN client_id_counter ELSE id[d]
    BY <1>1, <1>2 DEF ListInv, TableType
  <2>2. \A d \in Clients : id[d] \in Int /\ id[d] < client_id_counter
    BY DEF ListInv, TableType, IdInv
  <2>3. ASSUME NEW i \in Slots, NEW k \in Kinds, NEW n \in DOMAIN list'[i][k]
        PROVE  id'[list'[i][k][n].connfd] = list'[i][k][n].id
    <3>1. CASE n \in DOMAIN list[i][k] /\ list'[i][k][n] = list[i][k][n]
      <4>1. list[i][k][n].connfd \in Clients /\ list[i][k][n].connfd # c
        BY <1>9, <3>1, ListsAreSequences DEF ListInv
      <4> QED BY <2>1, <3>1, <4>1 DEF ListInv, IdInv
    <3>2. CASE list'[i][k][n] = e
      BY <1>1, <2>1, <3>2
    <3> QED BY <1>8, <3>1, <3>2
  <2>4. \A d \in Clients : id'[d] < client_id_counter'
    BY <1>2, <1>4, <2>1, <2>2
  <2>5. \A d, f \in Clients : id'[d] = id'[f] /\ d # f => id'[d] = -1
    BY <1>4, <2>1, <2>2 DEF ListInv, IdInv
  <2> QED BY <2>3, <2>4, <2>5 DEF IdInv
<1>13. OpenInv'
  <2>1. c \notin closed
    BY <1>1 DEF ListInv, FreshInv, Fresh, At
  <2>2. e.connfd = c
    OBVIOUS
  <2> SUFFICES ASSUME NEW i \in Slots, NEW k \in Kinds, NEW n \in DOMAIN list'[i][k]
               PROVE  list'[i][k][n].connfd \notin closed
    BY <1>2 DEF OpenInv
  <2> QED
    BY <1>8, <2>1, <2>2 DEF ListInv, OpenInv
<1>14. FreshInv'
  <2>1. state[c] # "new" /\ e.connfd = c
    BY <1>1 DEF ListInv, FreshInv
  <2>2. ASSUME NEW d \in Clients, Fresh(d)' PROVE d # c /\ Fresh(d)
    BY <1>2, <1>3, <2>1, <2>2 DEF Fresh
  <2>3. ASSUME NEW d \in Clients, Fresh(d)', NEW i \in Slots, NEW k \in Kinds, NEW n \in DOMAIN list'[i][k]
        PROVE  list'[i][k][n].connfd # d
    BY <1>8, <2>1, <2>2, <2>3 DEF ListInv, FreshInv
  <2>4. \A d \in Clients : Fresh(d)' => d \notin closed'
    BY <1>2, <2>2 DEF ListInv, FreshInv
  <2> QED
    BY <1>2, <1>3, <2>1, <2>3, <2>4 DEF FreshInv
<1> QED
  BY <1>10, <1>11, <1>12, <1>13, <1>14 DEF ListInv

LEMMA TailEntries ==
  ASSUME NEW s \in Seq(Entries), s # <<>>
  PROVE  /\ Tail(s) \in Seq(Entries) /\ 1 \in DOMAIN s
         /\ \A n \in DOMAIN Tail(s) : n + 1 \in DOMAIN s /\ n + 1 # 1 /\ Tail(s)[n] = s[n + 1]
         /\ \A m, n \in DOMAIN Tail(s) : m + 1 = n + 1 => m = n
OBVIOUS

\* If the first entry of a list has a client's id, it is that client's.
LEMMA FirstIsOwn ==
  ASSUME ListInv, NEW i \in Slots, NEW k \in Kinds, NEW c \in Clients, IsFirst(list[i][k], id[c])
  PROVE  1 \in DOMAIN list[i][k] /\ list[i][k][1].connfd = c
<1>1. list[i][k] \in Seq(Entries) /\ list[i][k] # <<>> /\ list[i][k][1].id = id[c]
  BY ListsAreSequences DEF IsFirst, ListInv
<1>2. 1 \in DOMAIN list[i][k]
  BY <1>1, TailEntries
<1>3. list[i][k][1].connfd \in Clients /\ list[i][k][1].id \in Nat
  BY <1>2, ListsAreSequences DEF ListInv
<1>4. id[list[i][k][1].connfd] = id[c] /\ id[c] # -1
  BY <1>1, <1>2, <1>3 DEF ListInv, IdInv
<1> QED
  BY <1>2, <1>3, <1>4 DEF ListInv, IdInv

\* client_list_remove_id closes the first entry's connection and moves the rest.
LEMMA ListRemoveId ==
  ASSUME ListInv, MainInv, client_list_remove_id
  PROVE  ListInv'
<1> DEFINE c == removing.connfd
           a == removing.index
           l == list[a][kind[c]]
<1>1. a \in Slots /\ c \in Clients /\ kind[c] \in Kinds
  BY DEF client_list_remove_id, MainInv, MainAt, ListInv, TableType
<1>2. UNCHANGED <<client_id_counter, adding, id, kind, state>>
  BY DEF client_list_remove_id, programs
<1>3. CASE ~IsFirst(l, id[c])
  <2>1. UNCHANGED <<list, closed>>
    BY <1>3 DEF client_list_remove_id
  <2>2. \A d \in Clients : Fresh(d)' => Fresh(d)
    BY <1>2 DEF Fresh
  <2> QED
    BY <1>2, <2>1, <2>2, ListKept DEF ListInv, TableType, FreshInv
<1>4. CASE IsFirst(l, id[c])
  <2>1. list' = [list EXCEPT ![a][kind[c]] = Tail(l)] /\ closed' = closed \cup {l[1].connfd}
    BY <1>4 DEF client_list_remove_id
  <2>2. l \in Seq(Entries) /\ l # <<>>
    BY <1>1, <1>4, ListsAreSequences DEF IsFirst, ListInv
  <2>3. 1 \in DOMAIN l /\ l[1].connfd = c
    BY <1>1, <1>4, FirstIsOwn
  <2>4. \A i \in Slots, k \in Kinds :
          list'[i][k] = IF i = a /\ k = kind[c] THEN Tail(l) ELSE list[i][k]
    BY <1>1, <2>1 DEF ListInv, TableType
  <2>5. TableType'
    <3>1. Tail(l) \in Seq(Entries)
      BY <2>2, TailEntries
    <3> QED
      BY <1>1, <1>2, <2>1, <2>3, <3>1 DEF ListInv, TableType
  <2> DEFINE old(i, k, n) == IF i = a /\ k = kind[c] THEN n + 1 ELSE n
  <2>6. ASSUME NEW i \in Slots, NEW k \in Kinds, NEW n \in DOMAIN list'[i][k]
        PROVE  /\ old(i, k, n) \in DOMAIN list[i][k] /\ list'[i][k][n] = list[i][k][old(i, k, n)]
               /\ list[i][k][old(i, k, n)].connfd # c
    <3>1. CASE i = a /\ k = kind[c]
      <4>0. list'[i][k] = Tail(l)
        BY <2>4, <3>1
      <4>1. n + 1 \in DOMAIN l /\ n + 1 # 1 /\ list'[i][k][n] = l[n + 1]
        <5>1. n \in DOMAIN Tail(l)
          BY <2>6, <4>0
        <5>2. n + 1 \in DOMAIN l /\ n + 1 # 1 /\ Tail(l)[n] = l[n + 1]
          BY <2>2, <5>1, TailEntries
        <5> QED BY <4>0, <5>2
      <4>2. l[n + 1].connfd # l[1].connfd
        BY <1>1, <2>3, <4>1 DEF ListInv, UniqueInv
      <4> QED BY <2>3, <3>1, <4>1, <4>2
    <3>2. CASE ~(i = a /\ k = kind[c])
      <4>1. n \in DOMAIN list[i][k] /\ list'[i][k][n] = list[i][k][n]
        BY <2>4, <2>6, <3>2
      <4>2. list[i][k][n].connfd # l[1].connfd
        BY <1>1, <2>3, <3>2, <4>1 DEF ListInv, UniqueInv
      <4> QED BY <2>3, <3>2, <4>1, <4>2
    <3> QED BY <3>1, <3>2
  <2>7. UniqueInv'
    <3> SUFFICES ASSUME NEW i \in Slots, NEW j \in Slots, NEW k \in Kinds, NEW kj \in Kinds,
                        NEW m \in DOMAIN list'[i][k], NEW n \in DOMAIN list'[j][kj],
                        list'[i][k][m].connfd = list'[j][kj][n].connfd
                 PROVE  i = j /\ k = kj /\ m = n
      BY DEF UniqueInv
    <3>1. i = j /\ k = kj /\ old(i, k, m) = old(j, kj, n)
      <4>1. /\ old(i, k, m) \in DOMAIN list[i][k] /\ list'[i][k][m] = list[i][k][old(i, k, m)]
            /\ old(j, kj, n) \in DOMAIN list[j][kj] /\ list'[j][kj][n] = list[j][kj][old(j, kj, n)]
        BY <2>6
      <4> HIDE DEF old
      <4> QED BY <4>1 DEF ListInv, UniqueInv
    <3>2. CASE i = a /\ k = kind[c]
      <4>1. m + 1 = n + 1
        BY <3>1, <3>2
      <4>2. list'[i][k] = Tail(l) /\ list'[j][kj] = Tail(l)
        BY <2>4, <3>1, <3>2
      <4>3. m \in DOMAIN Tail(l) /\ n \in DOMAIN Tail(l)
        BY <4>2
      <4> QED BY <2>2, <3>1, <4>1, <4>3, TailEntries
    <3>3. CASE ~(i = a /\ k = kind[c])
      BY <3>1, <3>3
    <3> QED BY <3>2, <3>3
  <2> HIDE DEF old
  <2>8. IdInv'
    BY <1>2, <2>6 DEF ListInv, IdInv
  <2>9. OpenInv'
    BY <2>1, <2>3, <2>6 DEF ListInv, OpenInv
  <2>10. FreshInv'
    <3>1. 1 \in DOMAIN l /\ \A d \in Clients : Fresh(d) => d # c
      BY <1>1, <2>3 DEF ListInv, FreshInv
    <3>2. \A d \in Clients : Fresh(d)' => Fresh(d) /\ d # c
      BY <1>2, <3>1 DEF Fresh
    <3> QED
      BY <1>2, <2>1, <2>3, <2>6, <3>2 DEF ListInv, FreshInv
  <2> QED
    BY <2>5, <2>7, <2>8, <2>9, <2>10 DEF ListInv
<1> QED
  BY <1>3, <1>4

\* topic_list_remove_topic closes and empties both lists of the slot.
LEMMA ListRemoveTopic ==
  ASSUME ListInv, MainInv, topic_list_remove_topic
  PROVE  ListInv'
<1> DEFINE a == removing.index
<1>1. a \in Slots
  BY DEF topic_list_remove_topic, MainInv, MainAt
<1>2. /\ UNCHANGED <<client_id_counter, adding, id, kind, state>>
      /\ closed' = closed \cup Connfds(a)
      /\ list' = [list EXCEPT ![a] = [k \in Kinds |-> <<>>]]
  BY DEF topic_list_remove_topic, client_list_empty, programs
<1>3. \A x : x \in Connfds(a) <=> \E k \in Kinds : \E n \in DOMAIN list[a][k] : x = list[a][k][n].connfd
  BY DEF Connfds
<1>4. \A i \in Slots, k \in Kinds : list'[i][k] = IF i = a THEN <<>> ELSE list[i][k]
  BY <1>1, <1>2 DEF ListInv, TableType
<1>5. ASSUME NEW i \in Slots, NEW k \in Kinds, NEW n \in DOMAIN list'[i][k]
      PROVE  i # a /\ n \in DOMAIN list[i][k] /\ list'[i][k][n] = list[i][k][n]
  BY <1>4, <1>5
<1>6. TableType'
  <2>1. \A k \in Kinds : \A n \in DOMAIN list[a][k] : list[a][k][n].connfd \in Clients
    BY <1>1, ListsAreSequences DEF ListInv
  <2>2. Connfds(a) \subseteq Clients
    BY <1>3, <2>1
  <2>3. [k \in Kinds |-> <<>>] \in [Kinds -> Seq(Entries)]
    OBVIOUS
  <2> QED
    BY <1>1, <1>2, <2>2, <2>3 DEF ListInv, TableType
<1>7. UniqueInv'
  BY <1>5 DEF ListInv, UniqueInv
<1>8. IdInv'
  BY <1>2, <1>5 DEF ListInv, IdInv
<1>9. OpenInv'
  <2>1. ASSUME NEW i \in Slots, NEW k \in Kinds, NEW n \in DOMAIN list'[i][k]
        PROVE  list[i][k][n].connfd \notin Connfds(a)
    BY <1>1, <1>3, <1>5, <2>1 DEF ListInv, UniqueInv
  <2> QED
    BY <1>2, <1>5, <2>1 DEF ListInv, OpenInv
<1>10. FreshInv'
  <2>1. \A d \in Clients : Fresh(d)' => Fresh(d) /\ d \notin Connfds(a)
    BY <1>1, <1>2, <1>3 DEF Fresh, ListInv, FreshInv
  <2> QED
    BY <1>2, <1>5, <2>1 DEF ListInv, FreshInv
<1> QED
  BY <1>6, <1>7, <1>8, <1>9, <1>10 DEF ListInv

-----------------------------------------------------------------------------
\* The steps, on the rest of the invariant.
LEMMA GoIndex ==
  ASSUME adding \in Position, NEW pc \in Labels, NEW i \in Int, Go(pc, i)
  PROVE  adding'.index = i
BY DEF Position, Go

LEMMA MainGoMoves ==
  ASSUME removing \in MainPosition, NEW pc \in MainLabels, NEW i \in Int, MainGo(pc, i)
  PROVE  /\ removing' \in MainPosition /\ removing'.pc = pc
         /\ removing'.connfd = removing.connfd /\ removing'.index = i
BY DEF MainPosition, MainGo

\* A step of the registering thread that touches no list and was not about to.
LEMMA AddingQuiet ==
  ASSUME MainInv, EmptyTopicIsTransient, ThreadsInv, UNCHANGED <<name, list, topic, removing, sending>>,
         ~At("search_again"), ~At("insert"),
         adding'.pc = "insert" => adding'.index \in Slots
  PROVE  MainInv' /\ EmptyTopicIsTransient' /\ ThreadsInv'
<1>1. MainInv'
  BY DEF MainInv, MainAt, At
<1>2. EmptyTopicIsTransient'
  BY DEF EmptyTopicIsTransient, Empty, At
<1>3. ThreadsInv'
  BY DEF ThreadsInv, MainAt
<1> QED
  BY <1>1, <1>2, <1>3

\* A step of main's that removes nothing and was not about to.
LEMMA MainQuiet ==
  ASSUME EmptyTopicIsTransient, UNCHANGED <<name, list, topic, adding>>,
         removing.pc \notin {"test", "search_again", "remove_topic"}
  PROVE  EmptyTopicIsTransient'
BY DEF EmptyTopicIsTransient, Empty, At

LEMMA NobodyFresh ==
  ASSUME ListInv, UNCHANGED <<list, closed, client_id_counter, id, kind, state>>,
         adding'.connfd = adding.connfd,
         adding.pc \notin {"rest", "respond", "ended"}
  PROVE  ListInv'
<1>1. adding'.connfd \in Clients => state'[adding'.connfd] # "new"
  BY DEF ListInv, FreshInv
<1>2. \A c \in Clients : Fresh(c)' => Fresh(c)
  BY DEF Fresh
<1> QED
  BY <1>1, <1>2, ListKept DEF ListInv, TableType

\* A client program that goes on, after it has started to register.
LEMMA ProgramMoves ==
  ASSUME ListInv, UNCHANGED <<list, closed, client_id_counter, id, kind, adding>>,
         NEW c \in Clients, NEW s \in States \ {"new"}, state' = [state EXCEPT ![c] = s]
  PROVE  ListInv'
<1>1. state' \in [Clients -> States] /\ \A d \in Clients : state'[d] = "new" => state[d] = "new"
  BY DEF ListInv, TableType
<1>2. \A d \in Clients : Fresh(d)' => Fresh(d)
  BY <1>1 DEF Fresh
<1>3. adding'.connfd \in Clients => state'[adding'.connfd] # "new"
  BY <1>1 DEF ListInv, FreshInv
<1> QED
  BY <1>1, <1>2, <1>3, ListKept

LEMMA InsertGrows ==
  ASSUME NEW s \in Seq(Entries), NEW x \in Entries, NEW k \in Kinds
  PROVE  /\ client_list_insert(s, k, x) # <<>>
         /\ \A n \in DOMAIN s : /\ n \in DOMAIN client_list_insert(s, k, x)
                                /\ client_list_insert(s, k, x)[n] = s[n]
<1>1. Append(s, x) # <<>> /\ \A n \in DOMAIN s : n \in DOMAIN Append(s, x) /\ Append(s, x)[n] = s[n]
  OBVIOUS
<1>2. SizeOf(k) > 0
  BY SizesAssumption DEF SizeOf
<1>3. s = <<>> => Len(s) = 0
  OBVIOUS
<1>4. CASE Len(s) >= SizeOf(k)
  <2>1. client_list_insert(s, k, x) = s
    BY <1>4 DEF client_list_insert
  <2>2. s # <<>>
    BY <1>2, <1>3, <1>4, SizesAssumption DEF SizeOf
  <2> QED BY <2>1, <2>2
<1>5. CASE ~(Len(s) >= SizeOf(k))
  BY <1>1, <1>5 DEF client_list_insert
<1> QED
  BY <1>4, <1>5

LEMMA AddingKeepsBrokerInv ==
  ASSUME BrokerInv, new_clients_thread_func, UNCHANGED sending
  PROVE  BrokerInv'
<1> DEFINE t == topic[adding.connfd]
<1>0. SlotInv /\ ListInv /\ MainInv /\ EmptyTopicIsTransient /\ ThreadsInv
  BY DEF BrokerInv
<1>a. adding \in Position /\ Slots \subseteq Int /\ SlotInv'
  BY <1>0, SlotsAreIntegers, AddingKeepsSlotInv DEF SlotInv, TypeInv
<1>b. ~At("rest") => adding.connfd \in Clients /\ t \in Topics /\ t # NoName
  BY <1>0, NamesAssumption DEF SlotInv, TypeInv, SearchInv
<1>1. ASSUME NEW c \in Clients, brok_recv(c) PROVE BrokerInv'
  <2>1. /\ UNCHANGED <<name, list, client_id_counter, closed, removing, kind, topic, id>>
        /\ At("rest") /\ state[c] = "new" /\ state' = [state EXCEPT ![c] = "registering"]
        /\ adding' = [pc |-> "search", connfd |-> c, index |-> 0]
    BY <1>1 DEF brok_recv, table
  <2>2. adding'.pc = "search" /\ adding'.connfd = c
    BY <2>1
  <2>3. state' \in [Clients -> States] /\ state'[c] = "registering"
        /\ \A d \in Clients : d # c => state'[d] = state[d]
    BY <1>0, <2>1 DEF ListInv, TableType, States
  <2>4. \A d \in Clients : Fresh(d)' => Fresh(d)
    BY <2>1, <2>2, <2>3 DEF Fresh
  <2>5. ListInv'
    BY <1>0, <2>1, <2>2, <2>3, <2>4, ListKept
  <2>6. MainInv' /\ EmptyTopicIsTransient' /\ ThreadsInv'
    BY <1>0, <2>1, <2>2, AddingQuiet DEF At
  <2> QED BY <1>a, <2>5, <2>6 DEF BrokerInv
<1>2. CASE search_topic
  <2>1. /\ UNCHANGED <<name, list, client_id_counter, closed, removing, kind, topic, id, state>>
        /\ At("search")
    BY <1>2 DEF search_topic, table, programs
  <2>2. Go("new_topic_search", 0) \/ \E i \in Slots : Go("insert", i)
    BY <1>2 DEF search_topic, IndexFromName
  <2>3. adding'.connfd = adding.connfd /\ (adding'.pc = "insert" => adding'.index \in Slots)
    BY <1>a, <2>2, GoMoves, GoIndex DEF Labels
  <2>4. ListInv'
    BY <1>0, <2>1, <2>3, NobodyFresh DEF At
  <2>5. MainInv' /\ EmptyTopicIsTransient' /\ ThreadsInv'
    BY <1>0, <2>1, <2>3, AddingQuiet DEF At
  <2> QED BY <1>a, <2>4, <2>5 DEF BrokerInv
<1>3. CASE new_topic_search \/ topic_list_full
  <2>1. /\ UNCHANGED <<name, list, client_id_counter, closed, removing, kind, topic, id, state>>
        /\ adding.pc \in {"new_topic_search", "new_topic"}
    BY <1>3 DEF new_topic_search, topic_list_full, table, programs, At
  <2>2. Go("new_topic", 1) \/ Go("respond", 0)
    BY <1>3 DEF new_topic_search, topic_list_full
  <2>3. adding'.connfd = adding.connfd /\ adding'.pc # "insert"
    BY <1>a, <2>2, GoMoves DEF Labels
  <2>4. ListInv'
    BY <1>0, <2>1, <2>3, NobodyFresh
  <2>5. MainInv' /\ EmptyTopicIsTransient' /\ ThreadsInv'
    BY <1>0, <2>1, <2>3, AddingQuiet DEF At
  <2> QED BY <1>a, <2>4, <2>5 DEF BrokerInv
<1>4. CASE topic_list_new_topic
  <2> DEFINE i == adding.index
  <2>1. /\ UNCHANGED <<list, client_id_counter, closed, removing, kind, topic, id, state>>
        /\ At("new_topic") /\ i \in Slots
    BY <1>4 DEF topic_list_new_topic, programs
  <2>2. i + 1 \in Int
    <3>1. \A j \in Slots : j + 1 \in Int
      BY <1>a
    <3> QED BY <2>1, <3>1
  <2>3. CASE name[i] # NoName
    <3>1. name' = name /\ Go("new_topic", i + 1)
      BY <1>4, <2>3 DEF topic_list_new_topic
    <3>2. adding'.connfd = adding.connfd /\ adding'.pc # "insert"
      BY <1>a, <2>2, <3>1, GoMoves DEF Labels
    <3>3. ListInv'
      BY <1>0, <2>1, <3>2, NobodyFresh DEF At
    <3>4. MainInv' /\ EmptyTopicIsTransient' /\ ThreadsInv'
      BY <1>0, <2>1, <3>1, <3>2, AddingQuiet DEF At
    <3> QED BY <1>a, <3>3, <3>4 DEF BrokerInv
  <2>4. CASE name[i] = NoName
    <3>1. name' = [name EXCEPT ![i] = t] /\ Go("search_again", 0)
      BY <1>4, <2>4 DEF topic_list_new_topic
    <3>2. adding'.connfd = adding.connfd /\ adding'.pc = "search_again"
      BY <1>a, <3>1, GoMoves DEF Labels
    <3>3. ListInv'
      BY <1>0, <2>1, <3>2, NobodyFresh DEF At
    <3>4. \A j \in Slots : name'[j] = IF j = i THEN t ELSE name[j]
      BY <1>0, <3>1 DEF SlotInv, TypeInv
    <3>5. EmptyTopicIsTransient'
      BY <1>0, <2>1, <3>2, <3>4 DEF EmptyTopicIsTransient, Empty, At
    <3>6. MainInv'
      <4>1. removing.connfd \in Clients => topic[removing.connfd] # NoName
        BY <1>0, NamesAssumption DEF SlotInv, TypeInv
      <4>2. removing.pc \in {"remove_id", "test", "remove_topic"} => removing.index # i
        BY <1>0, <2>4, <4>1 DEF MainInv, MainAt
      <4> QED BY <1>0, <2>1, <3>2, <3>4, <4>2 DEF MainInv, MainAt, At
    <3>7. ThreadsInv'
      BY <1>0, <2>1 DEF ThreadsInv, MainAt
    <3> QED BY <1>a, <3>3, <3>5, <3>6, <3>7 DEF BrokerInv
  <2> QED BY <2>3, <2>4
<1>5. CASE search_topic_again
  <2>1. /\ UNCHANGED <<name, list, client_id_counter, closed, removing, kind, topic, id, state>>
        /\ At("search_again")
    BY <1>5 DEF search_topic_again, table, programs
  <2>2. \/ Go("ended", 0) /\ \A j \in Slots : name[j] # t
        \/ \E i \in Slots : name[i] = t /\ Go("insert", i)
    BY <1>5 DEF search_topic_again, IndexFromName
  <2>3. \/ adding'.connfd = adding.connfd /\ adding'.pc = "ended" /\ \A j \in Slots : name[j] # t
        \/ /\ adding'.connfd = adding.connfd /\ adding'.pc = "insert"
           /\ adding'.index \in Slots /\ name[adding'.index] = t
    <3>1. ASSUME Go("ended", 0)
          PROVE  adding'.connfd = adding.connfd /\ adding'.pc = "ended"
      BY <1>a, <3>1, GoMoves DEF Labels
    <3>2. ASSUME NEW i \in Slots, Go("insert", i)
          PROVE  adding'.connfd = adding.connfd /\ adding'.pc = "insert" /\ adding'.index = i
      BY <1>a, <3>2, GoMoves, GoIndex DEF Labels
    <3> QED BY <2>2, <3>1, <3>2
  <2>4. ListInv'
    BY <1>0, <2>1, <2>3, NobodyFresh DEF At
  <2>5. MainInv' /\ ThreadsInv'
    BY <1>0, <2>1, <2>3 DEF MainInv, ThreadsInv, MainAt, At
  <2>6. EmptyTopicIsTransient'
    <3> SUFFICES ASSUME NEW j \in Slots, name[j] # NoName, Empty(j)
                 PROVE  \/ adding'.pc = "insert" /\ adding'.index = j
                        \/ /\ removing.pc \in {"test", "search_again", "remove_topic"}
                           /\ topic[removing.connfd] = name[j]
      BY <2>1 DEF EmptyTopicIsTransient, Empty, At
    <3>1. CASE t = name[j]
      BY <1>0, <2>3, <3>1 DEF SlotInv, TopicInOneSlot
    <3>2. CASE t # name[j]
      BY <1>0, <2>1, <3>2 DEF EmptyTopicIsTransient, At
    <3> QED BY <3>1, <3>2
  <2> QED BY <1>a, <2>4, <2>5, <2>6 DEF BrokerInv
<1>6. CASE insert_client
  <2> DEFINE c == adding.connfd
             a == adding.index
             l == list[a][kind[c]]
             e == [id |-> client_id_counter, connfd |-> c]
             new == client_list_insert(l, kind[c], e)
  <2>1. /\ UNCHANGED <<name, closed, removing, state, kind, topic>>
        /\ At("insert") /\ Go("respond", 0)
        /\ list' = [list EXCEPT ![a][kind[c]] = new]
    BY <1>6 DEF insert_client
  <2>2. a \in Slots /\ c \in Clients /\ kind[c] \in Kinds /\ client_id_counter \in Nat
    BY <1>0, <1>b, <2>1 DEF MainInv, At, ListInv, TableType
  <2>3. adding'.pc = "respond" /\ adding'.connfd = c
    BY <1>a, <2>1, GoMoves DEF Labels
  <2>4. \A i \in Slots, k \in Kinds : list'[i][k] = IF i = a /\ k = kind[c] THEN new ELSE list[i][k]
    BY <1>0, <2>1, <2>2 DEF ListInv, TableType
  <2>5. l \in Seq(Entries) /\ e \in Entries
    BY <1>0, <2>2, ListsAreSequences DEF ListInv, Entries
  <2>6. new # <<>> /\ (\A n \in DOMAIN l : n \in DOMAIN new /\ new[n] = l[n])
    BY <2>5, <2>2, InsertGrows
  <2>7. ListInv'
    BY <1>0, <1>6, ListInsert
  <2>8. MainInv'
    BY <1>0, <2>1, <2>3 DEF MainInv, MainAt, At
  <2>9. EmptyTopicIsTransient'
    <3> SUFFICES ASSUME NEW j \in Slots, name[j] # NoName, Empty(j)'
                 PROVE  /\ removing.pc \in {"test", "search_again", "remove_topic"}
                        /\ topic[removing.connfd] = name[j]
      BY <2>1 DEF EmptyTopicIsTransient
    <3>1. j # a
      BY <2>2, <2>4, <2>6 DEF Empty
    <3>2. Empty(j)
      BY <2>4, <3>1 DEF Empty
    <3> QED BY <1>0, <2>1, <3>1, <3>2 DEF EmptyTopicIsTransient, At
  <2>10. ThreadsInv'
    <3>1. \A i \in Slots, k \in Kinds : \A n \in DOMAIN list[i][k] :
            n \in DOMAIN list'[i][k] /\ list'[i][k][n] = list[i][k][n]
      BY <2>4, <2>6
    <3>2. ~MainAt("join") => sending.threads = {}
      BY <1>0 DEF ThreadsInv
    <3>3. MainAt("join") => removing.index \in Slots
      BY <1>0 DEF MainInv, MainAt
    <3> QED BY <1>0, <2>1, <3>1, <3>2, <3>3 DEF ThreadsInv, MainAt, Kinds
  <2> QED BY <1>a, <2>7, <2>8, <2>9, <2>10 DEF BrokerInv
<1>7. CASE respond_register
  <2> DEFINE c == adding.connfd
             s == IF id[c] < 0 \/ c \in closed THEN "failed" ELSE "registered"
  <2>1. /\ UNCHANGED <<name, list, client_id_counter, closed, removing, kind, topic, id>>
        /\ At("respond") /\ adding' = Rest /\ state' = [state EXCEPT ![c] = s]
    BY <1>7 DEF respond_register, table
  <2>2. adding'.pc = "rest" /\ adding'.connfd \notin Clients
    BY <2>1, NamesAssumption DEF Rest
  <2>3. c \in Clients /\ s \in {"failed", "registered"}
    BY <1>b, <2>1 DEF At
  <2>4. state' \in [Clients -> States] /\ \A d \in Clients : state'[d] = "new" => state[d] = "new"
    BY <1>0, <2>1, <2>3 DEF ListInv, TableType, States
  <2>5. \A d \in Clients : Fresh(d)' => Fresh(d)
    BY <2>2, <2>4 DEF Fresh
  <2>6. ListInv'
    BY <1>0, <2>1, <2>2, <2>4, <2>5, ListKept
  <2>7. MainInv' /\ EmptyTopicIsTransient' /\ ThreadsInv'
    BY <1>0, <2>1, <2>2, AddingQuiet DEF At
  <2> QED BY <1>a, <2>6, <2>7 DEF BrokerInv
<1> QED
  BY <1>1, <1>2, <1>3, <1>4, <1>5, <1>6, <1>7 DEF new_clients_thread_func

\* Main's own steps on the table: brok_seq_recv's unregistration.
LEMMA RemovingKeepsBrokerInv ==
  ASSUME BrokerInv, main_thread, UNCHANGED sending
  PROVE  BrokerInv'
<1> DEFINE c == removing.connfd
           a == removing.index
           t == topic[c]
<1>0. SlotInv /\ ListInv /\ MainInv /\ EmptyTopicIsTransient /\ ThreadsInv /\ SlotInv'
  BY RemovingKeepsSlotInv DEF BrokerInv
<1>a. removing \in MainPosition /\ Slots \subseteq Int /\ a \in Int
  BY <1>0, SlotsAreIntegers DEF MainInv, MainPosition
<1>b. ~MainAt("rest") => c \in Clients /\ t \in Topics /\ t # NoName
  BY <1>0, NamesAssumption DEF SlotInv, TypeInv, MainInv
<1>c. ~MainAt("join") => sending'.threads = {}
  BY <1>0 DEF ThreadsInv
\* A step that touches no list.
<1>d. ASSUME UNCHANGED <<name, list, client_id_counter, closed, adding, kind, topic, id>>,
             ~MainAt("join"), removing' \in MainPosition,
             removing'.pc = "rest" \/ removing'.connfd \in Clients,
             removing'.pc \in {"remove_id", "test", "remove_topic"} =>
               removing'.index \in Slots /\ name[removing'.index] = topic[removing'.connfd],
             removing'.pc \notin {"sending", "create", "join"},
             EmptyTopicIsTransient', ListInv'
      PROVE  BrokerInv'
  <2>1. MainInv'
    BY <1>0, <1>d DEF MainInv, MainAt, At
  <2>2. ThreadsInv'
    BY <1>c, <1>d DEF ThreadsInv, MainAt
  <2> QED BY <1>0, <1>d, <2>1, <2>2 DEF BrokerInv
\* ... and no client program either.
<1>e. ASSUME UNCHANGED <<list, client_id_counter, closed, adding, programs>>
      PROVE  ListInv'
  <2>1. \A d \in Clients : Fresh(d)' => Fresh(d)
    BY <1>e DEF Fresh, programs
  <2> QED BY <1>0, <1>e, <2>1, ListKept DEF ListInv, TableType, FreshInv, programs
<1>1. ASSUME NEW d \in Clients, brok_seq_recv(d) PROVE BrokerInv'
  <2>1. /\ UNCHANGED <<name, list, client_id_counter, closed, adding, programs>>
        /\ MainAt("rest") /\ removing' = [pc |-> "search", connfd |-> d, index |-> 0]
    BY <1>1 DEF brok_seq_recv, table
  <2>2. removing' \in MainPosition /\ removing'.pc = "search" /\ removing'.connfd = d
    BY <2>1 DEF MainPosition, MainLabels
  <2>3. EmptyTopicIsTransient'
    BY <1>0, <2>1, MainQuiet DEF MainAt, programs
  <2> QED BY <1>d, <1>e, <2>1, <2>2, <2>3 DEF MainAt, programs
<1>2. CASE search_removed
  <2>1. /\ UNCHANGED <<name, list, client_id_counter, closed, adding, programs>>
        /\ MainAt("search")
        /\ MainGo("respond", 0) \/ \E i \in Slots : name[i] = t /\ MainGo("remove_id", i)
    BY <1>2 DEF search_removed, table, FoundOr, IndexFromName
  <2>2. /\ removing' \in MainPosition /\ removing'.connfd = c
        /\ \/ removing'.pc = "respond"
           \/ removing'.pc = "remove_id" /\ removing'.index \in Slots /\ name[removing'.index] = t
    BY <1>a, <2>1, MainGoMoves DEF MainLabels
  <2>3. EmptyTopicIsTransient'
    BY <1>0, <2>1, MainQuiet DEF MainAt, programs
  <2> QED BY <1>b, <1>d, <1>e, <2>1, <2>2, <2>3 DEF MainAt, programs
<1>3. CASE client_list_remove_id
  <2> DEFINE l == list[a][kind[c]]
  <2>1. /\ UNCHANGED <<name, client_id_counter, adding, programs>>
        /\ MainAt("remove_id") /\ MainGo("test", a)
        /\ list' = list \/ list' = [list EXCEPT ![a][kind[c]] = Tail(l)]
    BY <1>3 DEF client_list_remove_id
  <2>2. /\ removing' \in MainPosition /\ removing'.pc = "test"
        /\ removing'.connfd = c /\ removing'.index = a
    BY <1>a, <2>1, MainGoMoves DEF MainLabels
  <2>3. a \in Slots /\ c \in Clients /\ name[a] = t
    BY <1>0, <1>b, <2>1 DEF MainInv, MainAt
  <2>4. ListInv'
    BY <1>0, <1>3, ListRemoveId
  <2>5. MainInv'
    BY <1>0, <2>1, <2>2, <2>3 DEF MainInv, MainAt, At, programs
  <2>6. ThreadsInv'
    BY <1>c, <2>1, <2>2 DEF ThreadsInv, MainAt
  <2>7. EmptyTopicIsTransient'
    <3> SUFFICES ASSUME NEW j \in Slots, name[j] # NoName, Empty(j)', name[j] # t
                 PROVE  \/ At("search_again") /\ topic[adding.connfd] = name[j]
                        \/ At("insert") /\ adding.index = j
      BY <2>1, <2>2 DEF EmptyTopicIsTransient, At, programs
    <3>1. j # a
      BY <2>3
    <3>2. list'[j] = list[j]
      BY <1>0, <2>1, <3>1 DEF ListInv, TableType
    <3> QED BY <1>0, <3>2 DEF EmptyTopicIsTransient, Empty
  <2> QED BY <1>0, <2>4, <2>5, <2>6, <2>7 DEF BrokerInv
<1>4. CASE test_empty
  <2>1. /\ UNCHANGED <<name, list, client_id_counter, closed, adding, programs>>
        /\ MainAt("test")
        /\ MainGo("search_again", 0) \/ (MainGo("respond", 0) /\ ~Empty(a))
    BY <1>4 DEF test_empty, table
  <2>2. /\ removing' \in MainPosition /\ removing'.connfd = c
        /\ removing'.pc = "search_again" \/ (removing'.pc = "respond" /\ ~Empty(a))
    BY <1>a, <2>1, MainGoMoves DEF MainLabels
  <2>3. a \in Slots /\ name[a] = t
    BY <1>0, <2>1 DEF MainInv, MainAt
  <2>4. EmptyTopicIsTransient'
    <3> SUFFICES ASSUME NEW j \in Slots, name[j] # NoName, Empty(j)
                 PROVE  \/ At("search_again") /\ topic[adding.connfd] = name[j]
                        \/ At("insert") /\ adding.index = j
                        \/ removing'.pc = "search_again" /\ t = name[j]
      BY <2>1, <2>2 DEF EmptyTopicIsTransient, Empty, At, programs
    <3>1. CASE j = a
      BY <2>2, <2>3, <3>1
    <3>2. CASE j # a
      <4>1. name[j] # t
        BY <1>0, <2>3, <3>2 DEF SlotInv, TopicInOneSlot
      <4> QED BY <1>0, <4>1 DEF EmptyTopicIsTransient
    <3> QED BY <3>1, <3>2
  <2> QED BY <1>b, <1>d, <1>e, <2>1, <2>2, <2>4 DEF MainAt, programs
<1>5. CASE search_removed_again
  <2>1. /\ UNCHANGED <<name, list, client_id_counter, closed, adding, programs>>
        /\ MainAt("search_again")
        /\ \/ MainGo("respond", 0) /\ \A i \in Slots : name[i] # t
           \/ \E i \in Slots : name[i] = t /\ MainGo("remove_topic", i)
    BY <1>5 DEF search_removed_again, table, FoundOr, IndexFromName
  <2>2. /\ removing' \in MainPosition /\ removing'.connfd = c
        /\ \/ removing'.pc = "respond" /\ \A i \in Slots : name[i] # t
           \/ removing'.pc = "remove_topic" /\ removing'.index \in Slots /\ name[removing'.index] = t
    <3>1. ASSUME MainGo("respond", 0)
          PROVE  removing' \in MainPosition /\ removing'.connfd = c /\ removing'.pc = "respond"
      BY <1>a, <3>1, MainGoMoves DEF MainLabels
    <3>2. ASSUME NEW i \in Slots, MainGo("remove_topic", i)
          PROVE  /\ removing' \in MainPosition /\ removing'.connfd = c
                 /\ removing'.pc = "remove_topic" /\ removing'.index = i
      BY <1>a, <3>2, MainGoMoves DEF MainLabels
    <3> QED BY <2>1, <3>1, <3>2
  <2>3. EmptyTopicIsTransient'
    BY <1>0, <2>1, <2>2 DEF EmptyTopicIsTransient, Empty, At, programs
  <2> QED BY <1>b, <1>d, <1>e, <2>1, <2>2, <2>3 DEF MainAt, programs
<1>6. CASE topic_list_remove_topic
  <2>1. /\ UNCHANGED <<client_id_counter, adding, programs>>
        /\ MainAt("remove_topic") /\ MainGo("respond", 0)
        /\ name' = [name EXCEPT ![a] = NoName]
        /\ list' = [list EXCEPT ![a] = [k \in Kinds |-> <<>>]]
    BY <1>6 DEF topic_list_remove_topic, client_list_empty
  <2>2. /\ removing' \in MainPosition /\ removing'.pc = "respond" /\ removing'.connfd = c
    BY <1>a, <2>1, MainGoMoves DEF MainLabels
  <2>3. a \in Slots /\ c \in Clients /\ name[a] = t
    BY <1>0, <1>b, <2>1 DEF MainInv, MainAt
  <2>4. ListInv'
    BY <1>0, <1>6, ListRemoveTopic
  <2>5. MainInv'
    BY <1>0, <2>1, <2>2, <2>3 DEF MainInv, MainAt, At
  <2>6. ThreadsInv'
    BY <1>c, <2>1, <2>2 DEF ThreadsInv, MainAt
  <2>7. EmptyTopicIsTransient'
    <3>0. \A j \in Slots : name'[j] = IF j = a THEN NoName ELSE name[j]
      BY <1>0, <2>1 DEF SlotInv, TypeInv
    <3> SUFFICES ASSUME NEW j \in Slots, j # a, name[j] # NoName, Empty(j)'
                 PROVE  \/ At("search_again") /\ topic[adding.connfd] = name[j]
                        \/ At("insert") /\ adding.index = j
      BY <2>1, <3>0 DEF EmptyTopicIsTransient, At, programs
    <3>1. name[j] # t
      BY <1>0, <2>3 DEF SlotInv, TopicInOneSlot
    <3>2. list'[j] = list[j]
      BY <1>0, <2>1 DEF ListInv, TableType
    <3> QED BY <1>0, <3>1, <3>2 DEF EmptyTopicIsTransient, Empty
  <2> QED BY <1>0, <2>4, <2>5, <2>6, <2>7 DEF BrokerInv
<1>7. CASE respond_unregister
  <2>1. /\ UNCHANGED <<name, list, client_id_counter, closed, adding, kind, topic, id>>
        /\ MainAt("respond") /\ removing' = Rest /\ state' = [state EXCEPT ![c] = "left"]
    BY <1>7 DEF respond_unregister, table
  <2>2. removing' \in MainPosition /\ removing'.pc = "rest"
    BY <2>1 DEF Rest, MainPosition, MainLabels
  <2>3. EmptyTopicIsTransient'
    BY <1>0, <2>1, MainQuiet DEF MainAt
  <2>4. c \in Clients
    BY <1>b, <2>1 DEF MainAt
  <2>5. ListInv'
    BY <1>0, <2>1, <2>4, ProgramMoves DEF States
  <2> QED BY <1>d, <2>1, <2>2, <2>3, <2>5 DEF MainAt
<1> QED
  BY <1>1, <1>2, <1>3, <1>4, <1>5, <1>6, <1>7 DEF main_thread

\* A step that changes neither the table nor what the two threads know of it,
\* but that main may move between the steps of forwarding.
LEMMA TableKept ==
  ASSUME BrokerInv, UNCHANGED <<name, list, client_id_counter, closed, adding, kind, topic, id>>,
         ListInv',
         \/ removing' = removing
         \/ /\ removing.pc \in ForwardLabels /\ removing' \in MainPosition
            /\ removing'.pc \in ForwardLabels
            /\ removing'.pc = "rest" \/ removing'.connfd \in Clients
            /\ removing'.pc \in {"sending", "create", "join"} => removing'.index \in Slots,
         ThreadsInv'
  PROVE  BrokerInv'
<1>0. SlotInv /\ ListInv /\ MainInv /\ EmptyTopicIsTransient
  BY DEF BrokerInv
<1>1. SlotInv'
  BY <1>0 DEF SlotInv, TypeInv, SearchInv, TopicInOneSlot, At
<1>2. MainInv'
  BY <1>0 DEF MainInv, ForwardLabels, MainAt, At
<1>3. EmptyTopicIsTransient'
  BY <1>0 DEF EmptyTopicIsTransient, Empty, At, ForwardLabels
<1> QED
  BY <1>1, <1>2, <1>3 DEF BrokerInv

\* The steps of forwarding.
LEMMA ForwardingKeepsBrokerInv ==
  ASSUME BrokerInv, SendingInv, send_data \/ \E c \in Clients : recv_published(c)
  PROVE  BrokerInv'
<1>0. MainInv /\ ThreadsInv /\ removing \in MainPosition
  BY DEF BrokerInv, MainInv
<1>1. UNCHANGED <<name, list, client_id_counter, closed, adding, kind, topic, id, state>>
  BY DEF send_data, forward_search, brok_seq_send, brok_parallel_send, brok_fair_send, create_threads,
         brok_thread_send, join_threads, recv_published, vars, table, programs
<1>2. ListInv'
  <2>1. \A d \in Clients : Fresh(d)' => Fresh(d)
    BY <1>1 DEF Fresh
  <2> QED BY <1>1, <2>1, ListKept DEF BrokerInv, ListInv, TableType, FreshInv
<1>3. ~MainAt("join") => sending.threads = {}
  BY <1>0 DEF ThreadsInv
<1>4. ~MainAt("rest") => removing.connfd \in Clients
  BY <1>0 DEF MainInv
<1>5. Slots \subseteq Int
  BY SlotsAreIntegers
<1>6. ASSUME NEW c \in Clients, recv_published(c) PROVE BrokerInv'
  <2>1. MainAt("rest") /\ sending' = sending
        /\ removing' = [pc |-> "forward_search", connfd |-> c, index |-> 0]
    BY <1>6 DEF recv_published
  <2>2. /\ removing' \in MainPosition /\ removing'.pc = "forward_search" /\ removing'.connfd = c
    BY <2>1 DEF MainPosition, MainLabels
  <2>3. ThreadsInv'
    BY <1>3, <2>1 DEF ThreadsInv, MainAt
  <2> QED BY <1>1, <1>2, <2>1, <2>2, <2>3, TableKept DEF MainAt, ForwardLabels
<1>7. CASE forward_search
  <2>1. MainAt("forward_search") /\ sending' = sending
        /\ \/ removing' = Rest
           \/ \E i \in Slots, pc \in {"sending", "create"} : MainGo(pc, i)
    BY <1>7 DEF forward_search, IndexFromName, forwarding
  <2>2. /\ removing' \in MainPosition
        /\ \/ removing'.pc = "rest"
           \/ /\ removing'.pc \in {"sending", "create"} /\ removing'.connfd = removing.connfd
              /\ removing'.index \in Slots
    <3>1. CASE removing' = Rest
      BY <3>1 DEF Rest, MainPosition, MainLabels
    <3>2. ASSUME NEW i \in Slots, NEW pc \in {"sending", "create"}, MainGo(pc, i)
          PROVE  removing' \in MainPosition /\ removing'.pc = pc
                 /\ removing'.connfd = removing.connfd /\ removing'.index = i
      BY <1>0, <1>5, <3>2, MainGoMoves DEF MainLabels
    <3> QED BY <2>1, <3>1, <3>2
  <2>3. ThreadsInv'
    BY <1>3, <2>1 DEF ThreadsInv, MainAt
  <2> QED BY <1>1, <1>2, <1>4, <2>1, <2>2, <2>3, TableKept DEF MainAt, ForwardLabels
<1>8. CASE brok_seq_send
  <2>1. /\ MainAt("sending")
        /\ removing' = removing \/ removing' = Rest
        /\ \E i : sending' = [sending EXCEPT !.sent = i]
    BY <1>8 DEF brok_seq_send
  <2>4. sending'.threads = sending.threads
    BY <2>1 DEF SendingInv
  <2>2. removing' = removing \/ (removing' \in MainPosition /\ removing'.pc = "rest")
    BY <2>1 DEF Rest, MainPosition, MainLabels
  <2>3. ThreadsInv'
    BY <1>3, <2>1, <2>4 DEF ThreadsInv, MainAt
  <2> QED BY <1>1, <1>2, <2>1, <2>2, <2>3, TableKept DEF MainAt, ForwardLabels
<1>9. CASE create_threads
  <2>1. /\ MainAt("create") /\ MainGo("join", removing.index)
        /\ sending'.threads = sending.threads \cup
             {[connfd |-> Subs[n].connfd, msg |-> Message] : n \in DOMAIN Subs}
    BY <1>9 DEF create_threads
  <2>2. /\ removing' \in MainPosition /\ removing'.pc = "join"
        /\ removing'.connfd = removing.connfd /\ removing'.index = removing.index
    BY <1>0, <2>1, MainGoMoves DEF MainLabels, MainPosition
  <2>3. removing.index \in Slots
    BY <1>0, <2>1 DEF MainInv, MainAt
  <2>4. sending.threads = {}
    BY <1>3, <2>1 DEF MainAt
  <2>5. \A args \in sending'.threads : \E n \in DOMAIN Subs : args.connfd = Subs[n].connfd
    BY <2>1, <2>4
  <2>6. ThreadsInv'
    BY <1>1, <2>2, <2>5 DEF ThreadsInv, MainAt, Subs
  <2> QED BY <1>1, <1>2, <1>4, <2>1, <2>2, <2>3, <2>6, TableKept DEF MainAt, ForwardLabels
<1>10. CASE brok_thread_send
  <2>1. removing' = removing /\ sending'.threads \subseteq sending.threads
    BY <1>10 DEF brok_thread_send, vars
  <2>2. ThreadsInv'
    BY <1>0, <1>1, <2>1 DEF ThreadsInv, MainAt
  <2> QED BY <1>1, <1>2, <2>1, <2>2, TableKept
<1>11. CASE join_threads
  <2>1. MainAt("join") /\ sending' = sending /\ sending.threads = {} /\ removing' = Rest
    BY <1>11 DEF join_threads, forwarding
  <2>2. removing' \in MainPosition /\ removing'.pc = "rest"
    BY <2>1 DEF Rest, MainPosition, MainLabels
  <2>3. ThreadsInv'
    BY <2>1 DEF ThreadsInv
  <2> QED BY <1>1, <1>2, <2>1, <2>2, <2>3, TableKept DEF MainAt, ForwardLabels
<1> QED
  BY <1>6, <1>7, <1>8, <1>9, <1>10, <1>11 DEF send_data, brok_parallel_send, brok_fair_send

\* The client programs.
LEMMA ClientsKeepBrokerInv ==
  ASSUME BrokerInv, NEW c \in Clients,
         unregister(c) \/ recv_closed(c) \/ pub_publish_data(c) \/ close_my_sockfd(c) \/ recv_error(c),
         UNCHANGED sending
  PROVE  BrokerInv'
<1>1. /\ UNCHANGED <<name, list, client_id_counter, closed, adding, removing, kind, topic, id>>
      /\ state' = state \/ \E s \in {"leaving", "left"} : state' = [state EXCEPT ![c] = s]
  BY DEF unregister, pub_sub_unregister, recv_closed, pub_publish_data, close_my_sockfd, recv_error,
         vars, table, programs
<1>2. ListInv /\ ThreadsInv
  BY DEF BrokerInv
<1>3. ListInv'
  <2>1. CASE state' = state
    <3>1. \A d \in Clients : Fresh(d)' => Fresh(d)
      BY <1>1, <2>1 DEF Fresh
    <3> QED BY <1>1, <1>2, <2>1, <3>1, ListKept DEF ListInv, TableType, FreshInv
  <2>2. ASSUME NEW s \in {"leaving", "left"}, state' = [state EXCEPT ![c] = s] PROVE ListInv'
    BY <1>1, <1>2, <2>2, ProgramMoves DEF States
  <2> QED BY <1>1, <2>1, <2>2
<1>4. ThreadsInv'
  BY <1>1, <1>2 DEF ThreadsInv, MainAt
<1> QED
  BY <1>1, <1>3, <1>4, TableKept

LEMMA BrokerInvInit == BrokerInit => BrokerInv
<1> SUFFICES ASSUME BrokerInit PROVE BrokerInv
  OBVIOUS
<1>1. SlotInv /\ ListInv
  BY SlotInit, ListInit DEF BrokerInit
<1>2. removing = Rest /\ adding = Rest /\ name = [i \in Slots |-> NoName] /\ sending.threads = {}
  BY DEF BrokerInit, Init, topic_list_init
<1>3. removing \in MainPosition /\ removing.pc = "rest" /\ adding.pc = "rest"
  BY <1>2 DEF Rest, MainPosition, MainLabels
<1>4. MainInv /\ EmptyTopicIsTransient /\ ThreadsInv
  BY <1>2, <1>3 DEF MainInv, EmptyTopicIsTransient, ThreadsInv, MainAt, At
<1> QED
  BY <1>1, <1>4 DEF BrokerInv

LEMMA SendingKept == SendingInv /\ [BrokerNext]_broker_vars => SendingInv'
<1> SUFFICES ASSUME SendingInv, [BrokerNext]_broker_vars PROVE SendingInv'
  OBVIOUS
<1>1. \/ sending' = sending
      \/ \E i : sending' = [sending EXCEPT !.sent = i]
      \/ \E threads : sending' = [sending EXCEPT !.threads = threads]
  BY DEF BrokerNext, TableStep, Respond, send_data, forward_search, brok_seq_send, brok_parallel_send,
         brok_fair_send, create_threads, brok_thread_send, join_threads, recv_published, recv_unregister,
         recv_error, pub_publish_data, unregister, close_my_sockfd, broker_vars, forwarding
<1> QED
  BY <1>1 DEF SendingInv

LEMMA StepKeepsBrokerInv == BrokerInv /\ SendingInv /\ [BrokerNext]_broker_vars => BrokerInv'
<1> SUFFICES ASSUME BrokerInv, SendingInv, [BrokerNext]_broker_vars PROVE BrokerInv'
  OBVIOUS
<1>1. CASE TableStep
  <2>1. UNCHANGED sending
    BY <1>1 DEF TableStep, Respond, forwarding
  <2>2. new_clients_thread_func \/ main_thread \/ \E c \in Clients : recv_closed(c)
    BY <1>1 DEF TableStep, new_clients_thread_func, main_thread
  <2> QED
    BY <2>1, <2>2, AddingKeepsBrokerInv, RemovingKeepsBrokerInv, ClientsKeepBrokerInv
<1>2. CASE send_data \/ \E c \in Clients : recv_published(c)
  BY <1>2, ForwardingKeepsBrokerInv
<1>3. ASSUME NEW c \in Clients, recv_unregister(c) PROVE BrokerInv'
  <2>1. main_thread /\ UNCHANGED sending
    BY <1>3 DEF recv_unregister, main_thread, forwarding
  <2> QED BY <2>1, RemovingKeepsBrokerInv
<1>4. ASSUME NEW c \in Clients, pub_publish_data(c) \/ unregister(c) \/ close_my_sockfd(c) \/ recv_error(c)
      PROVE  BrokerInv'
  <2>1. UNCHANGED sending
    BY <1>4 DEF pub_publish_data, unregister, close_my_sockfd, recv_error
  <2> QED BY <1>4, <2>1, ClientsKeepBrokerInv
<1>5. CASE UNCHANGED broker_vars
  <2>1. UNCHANGED <<name, list, client_id_counter, closed, adding, removing, kind, topic, id, state, sending>>
    BY <1>5 DEF broker_vars, forwarding, vars, table, programs
  <2>2. ListInv'
    <3>1. \A d \in Clients : Fresh(d)' => Fresh(d)
      BY <2>1 DEF Fresh
    <3> QED BY <2>1, <3>1, ListKept DEF BrokerInv, ListInv, TableType, FreshInv
  <2>3. ThreadsInv'
    BY <2>1 DEF BrokerInv, ThreadsInv, MainAt
  <2> QED BY <2>1, <2>2, <2>3, TableKept
<1> QED
  BY <1>1, <1>2, <1>3, <1>4, <1>5 DEF BrokerNext

LEMMA BrokerInvariant == BrokerSpec => []BrokerInv
<1>1. BrokerInit => SendingInv
  BY DEF BrokerInit, SendingInv
<1> QED
  BY <1>1, BrokerInvInit, SendingKept, StepKeepsBrokerInv, PTL DEF BrokerSpec

-----------------------------------------------------------------------------
\* While main forwards, too, no topic gets a second slot: forwarding changes no
\* name, and TopicList's argument is unaffected by when main removes.
THEOREM OneSlotWhileForwarding == BrokerSpec => []TopicInOneSlot
<1>1. BrokerInv => TopicInOneSlot
  BY DEF BrokerInv, SlotInv
<1> QED
  BY <1>1, BrokerInvariant, PTL

\* The connections in the table are open: a removal closes the connection of the
\* entry it removes, or of a whole slot, and no client has a second entry.
THEOREM TableIsOpen == BrokerSpec => []ListedAreOpen
<1>1. BrokerInv => ListedAreOpen
  BY DEF BrokerInv, ListInv, OpenInv, ListedAreOpen, Connfds
<1> QED
  BY <1>1, BrokerInvariant, PTL

\* The registering thread and main, which search and change the table in separate
\* critical sections, leave no topic without clients behind.
THEOREM NoTopicStaysEmpty == BrokerSpec => []EmptyTopicIsTransient
<1>1. BrokerInv => EmptyTopicIsTransient
  BY DEF BrokerInv
<1> QED
  BY <1>1, BrokerInvariant, PTL

\* A thread's subscriber stays in the table until main has joined the thread,
\* although the other thread changes the table meanwhile.
THEOREM ThreadsSendToListed == BrokerSpec => []ForwardedToListed
<1>1. BrokerInv => ForwardedToListed
  <2> SUFFICES ASSUME BrokerInv, NEW args \in sending.threads
               PROVE  /\ args.connfd \notin closed
                      /\ \E i \in Slots : \E n \in DOMAIN list[i]["subs"] :
                           list[i]["subs"][n].connfd = args.connfd
    BY DEF ForwardedToListed
  <2>1. ThreadsInv /\ MainInv /\ OpenInv
    BY DEF BrokerInv, ListInv
  <2>2. removing.index \in Slots
    BY <2>1 DEF ThreadsInv, MainInv, MainAt
  <2>3. PICK n \in DOMAIN list[removing.index]["subs"] :
          list[removing.index]["subs"][n].connfd = args.connfd
    BY <2>1 DEF ThreadsInv
  <2> QED BY <2>1, <2>2, <2>3 DEF OpenInv, Kinds
<1> QED
  BY <1>1, BrokerInvariant, PTL

\* Main removes the first client of a list only if that client asked for it: ids
\* are given once, and an entry keeps its client's.
THEOREM RemovesOwnOnly == BrokerSpec => OnlyOwnRemoval
<1>1. BrokerInv /\ [BrokerNext]_broker_vars =>
        [\A c \in closed' \ closed : c = removing.connfd \/ MainAt("remove_topic")]_vars
  <2> SUFFICES ASSUME BrokerInv, [BrokerNext]_broker_vars, NEW c \in closed' \ closed, ~MainAt("remove_topic")
               PROVE  c = removing.connfd
    OBVIOUS
  <2>1. client_list_remove_id
    BY DEF BrokerNext, TableStep, send_data, forward_search, brok_seq_send, brok_parallel_send, brok_fair_send,
           create_threads, brok_thread_send, join_threads, recv_published, recv_unregister, brok_seq_recv,
           recv_error, pub_publish_data, unregister, pub_sub_unregister, close_my_sockfd, recv_closed, brok_recv,
           search_topic, new_topic_search, topic_list_new_topic, topic_list_full, search_topic_again,
           insert_client, respond_register, search_removed, test_empty, search_removed_again,
           topic_list_remove_topic, respond_unregister, broker_vars, vars, table
  <2> DEFINE l == list[removing.index][kind[removing.connfd]]
  <2>2. IsFirst(l, id[removing.connfd]) /\ closed' = closed \cup {l[1].connfd}
    BY <2>1 DEF client_list_remove_id
  <2>3. removing.index \in Slots /\ removing.connfd \in Clients /\ kind[removing.connfd] \in Kinds
    BY <2>1 DEF client_list_remove_id, BrokerInv, MainInv, MainAt, ListInv, TableType
  <2>4. l[1].connfd = removing.connfd
    BY <2>2, <2>3, FirstIsOwn DEF BrokerInv
  <2> QED BY <2>2, <2>4
<1> QED
  BY <1>1, BrokerInvariant, PTL DEF BrokerSpec, OnlyOwnRemoval

-----------------------------------------------------------------------------
\* What the subscribers have been sent.
Messages == [from : Clients, n : Nat]

DataType ==
  /\ forwarded \in [Clients -> Nat] /\ peer \in [Clients -> Peers]
  /\ received \in [Clients -> Seq(Messages)]
  /\ sending.sent \in Nat

Reads(c) == peer[c] \in {"open", "misled"}

\* No connection is opened again.
PeersClose == peer' \in [Clients -> Peers] /\ \A c \in Clients : Reads(c)' => Reads(c)

\* The last message from p, if there is one, is number n.
LastIs(data, p, n) ==
  \A i \in DOMAIN data :
    data[i].from = p /\ (\A j \in DOMAIN data : i < j => data[j].from # p) => data[i].n = n

NothingFrom(data, p) == \A i \in DOMAIN data : data[i].from # p

\* Main is forwarding a message of p, and has not sent it yet to c, the n-th
\* subscriber of its topic.
Pending(p, n, c) ==
  /\ removing.connfd = p
  /\ \/ removing.pc \in {"forward_search", "create"}
     \/ removing.pc = "sending" /\ sending.sent < n
     \/ removing.pc = "join" /\ \E args \in sending.threads : args.connfd = c

\* A subscriber in the table has been sent nothing from the publishers of other
\* topics, and from those of its slot's the last message forwarded, or the last
\* but one while that is pending.
Delivered(p, i, n, c) ==
  /\ name[i] # topic[p] => NothingFrom(received[c], p)
  /\ name[i] = topic[p] /\ Reads(c) =>
       LastIs(received[c], p, IF Pending(p, n, c) THEN forwarded[p] - 1 ELSE forwarded[p])

DeliveredInv ==
  \A p \in Clients, i \in Slots : \A n \in DOMAIN list[i]["subs"] :
    Delivered(p, i, n, list[i]["subs"][n].connfd)

\* Nothing is sent before a client is in the table.
FreshDataInv == \A c \in Clients : Fresh(c) => received[c] = <<>>

\* While main forwards, it is in its publisher's slot, and its threads all carry
\* the same message.
ForwardInv ==
  /\ removing.pc \in {"sending", "create", "join"} => name[removing.index] = topic[removing.connfd]
  /\ ~MainAt("sending") => sending.sent = 0
  /\ \A args \in sending.threads : args = [connfd |-> args.connfd, msg |-> Message]

DataInv == DataType /\ DeliveredInv /\ FreshDataInv /\ ForwardInv /\ DataWithoutGaps

LEMMA AppendedData ==
  ASSUME NEW s \in Seq(Messages), NEW msg \in Messages, NEW t, t = Append(s, msg)
  PROVE  /\ t \in Seq(Messages)
         /\ LastIs(t, msg.from, msg.n)
         /\ \A p, n : p # msg.from /\ LastIs(s, p, n) => LastIs(t, p, n)
         /\ \A p : p # msg.from /\ NothingFrom(s, p) => NothingFrom(t, p)
         /\ WithoutGaps(s) /\ LastIs(s, msg.from, msg.n - 1) => WithoutGaps(t)
<1>1. /\ t \in Seq(Messages) /\ Len(s) \in Nat /\ DOMAIN s = 1..Len(s) /\ DOMAIN t = 1..(Len(s) + 1)
      /\ t[Len(s) + 1] = msg /\ \A i \in DOMAIN s : t[i] = s[i] /\ s[i] \in Messages
  OBVIOUS
<1>2. msg.from \in Clients /\ msg.n \in Nat
  BY DEF Messages
<1>3. LastIs(t, msg.from, msg.n)
  BY <1>1 DEF LastIs
<1>4. ASSUME NEW p, NEW n, p # msg.from, LastIs(s, p, n)
      PROVE  LastIs(t, p, n)
  BY <1>1, <1>4 DEF LastIs
<1>5. ASSUME NEW p, p # msg.from, NothingFrom(s, p)
      PROVE  NothingFrom(t, p)
  BY <1>1, <1>5 DEF NothingFrom
<1>6. ASSUME WithoutGaps(s), LastIs(s, msg.from, msg.n - 1)
      PROVE  WithoutGaps(t)
  <2> SUFFICES ASSUME NEW i \in DOMAIN t, NEW j \in DOMAIN t, i < j, t[i].from = t[j].from,
                      \A k \in (i + 1)..(j - 1) : t[k].from # t[i].from
               PROVE  t[j].n = t[i].n + 1
    BY DEF WithoutGaps
  <2>1. i \in DOMAIN s /\ t[i] = s[i] /\ s[i] \in Messages
    BY <1>1
  <2>2. CASE j \in DOMAIN s
    BY <1>1, <1>6, <2>1, <2>2 DEF WithoutGaps
  <2>3. CASE j = Len(s) + 1
    <3>1. \A k \in DOMAIN s : i < k => s[k].from # msg.from
      BY <1>1, <2>1, <2>3
    <3>2. s[i].n = msg.n - 1
      BY <1>1, <1>6, <2>1, <2>3, <3>1 DEF LastIs
    <3> QED
      BY <1>1, <1>2, <2>1, <2>3, <3>2
  <2> QED
    BY <1>1, <2>2, <2>3
<1> QED
  BY <1>1, <1>3, <1>4, <1>5, <1>6

\* A step that sends nothing: who is in the table was there in the same slot, as
\* pending as it is now, or has been sent nothing yet.
LEMMA NothingSent ==
  ASSUME DataInv, UNCHANGED <<received, forwarded, topic>>, DataType', ForwardInv',
         \A c \in Clients : Fresh(c)' => Fresh(c),
         \A c \in Clients : Reads(c)' => Reads(c),
         \A i \in Slots, c \in Clients : \A n \in DOMAIN list'[i]["subs"] :
           c = list'[i]["subs"][n].connfd =>
             \/ received[c] = <<>>
             \/ /\ name'[i] = name[i] \/ name[i] = NoName
                /\ \E m \in DOMAIN list[i]["subs"] :
                     /\ c = list[i]["subs"][m].connfd
                     /\ \A p \in Clients : name[i] = topic[p] => (Pending(p, n, c)' <=> Pending(p, m, c)),
         TableType', TypeInv
  PROVE  DataInv'
<1>1. FreshDataInv' /\ DataWithoutGaps'
  BY DEF DataInv, FreshDataInv, DataWithoutGaps
<1>2. ASSUME NEW p \in Clients, NEW i \in Slots, NEW n \in DOMAIN list'[i]["subs"], NEW c \in Clients,
             c = list'[i]["subs"][n].connfd
      PROVE  Delivered(p, i, n, c)'
  <2>1. CASE received[c] = <<>>
    BY <2>1 DEF Delivered, NothingFrom, LastIs
  <2>2. CASE received[c] # <<>>
    <3>1. PICK m \in DOMAIN list[i]["subs"] :
            /\ c = list[i]["subs"][m].connfd
            /\ \A q \in Clients : name[i] = topic[q] => (Pending(q, n, c)' <=> Pending(q, m, c))
      BY <1>2, <2>2
    <3>2. name'[i] = name[i] \/ name[i] = NoName
      BY <1>2, <2>2
    <3>3. Delivered(p, i, m, c)
      BY <3>1 DEF DataInv, DeliveredInv
    <3>4. topic[p] # NoName
      BY NamesAssumption DEF TypeInv
    <3>5. NothingFrom(received[c], p) => \A x : LastIs(received[c], p, x)
      BY DEF NothingFrom, LastIs
    <3> QED
      BY <3>1, <3>2, <3>3, <3>4, <3>5 DEF Delivered
  <2> QED
    BY <2>1, <2>2
<1>3. DeliveredInv'
  <2>1. \A i \in Slots : \A n \in DOMAIN list'[i]["subs"] : list'[i]["subs"][n].connfd \in Clients
    <3>1. \A i \in Slots : list'[i]["subs"] \in Seq(Entries)
      BY DEF TableType, Kinds
    <3>2. \A s \in Seq(Entries) : \A n \in DOMAIN s : s[n] \in Entries
      OBVIOUS
    <3> QED
      BY <3>1, <3>2 DEF Entries
  <2> QED
    BY <1>2, <2>1 DEF DeliveredInv
<1> QED
  BY <1>1, <1>3 DEF DataInv

\* Who is not in the table yet is not so later.
LEMMA FreshShrinks ==
  ASSUME SlotInv, new_clients_thread_func, NEW c \in Clients, Fresh(c)', state \in [Clients -> States]
  PROVE  Fresh(c)
<1>1. adding \in Position
  BY DEF SlotInv, TypeInv
<1>2. ASSUME NEW d \in Clients, brok_recv(d) PROVE Fresh(c)
  BY <1>2 DEF brok_recv, Fresh
<1>3. ASSUME state' = state, adding'.connfd = adding.connfd, adding.pc \notin {"rest", "respond", "ended"}
      PROVE  Fresh(c)
  BY <1>3 DEF Fresh
<1>4. CASE search_topic \/ new_topic_search \/ topic_list_new_topic \/ topic_list_full \/ search_topic_again \/ insert_client
  <2>1. /\ state' = state /\ adding.pc \notin {"rest", "respond", "ended"}
        /\ \E pc, i : Go(pc, i)
    BY <1>4 DEF search_topic, new_topic_search, topic_list_new_topic, topic_list_full, search_topic_again,
                insert_client, At, programs
  <2> QED
    BY <1>1, <1>3, <2>1 DEF Go, Position
<1>5. CASE respond_register
  <2>1. adding'.connfd = NoClient /\ \A d \in Clients : state'[d] = "new" => state[d] = "new"
    BY <1>5 DEF respond_register, Rest
  <2> QED
    BY <2>1, NamesAssumption DEF Fresh
<1> QED
  BY <1>2, <1>4, <1>5 DEF new_clients_thread_func

LEMMA AddingKeepsDataInv ==
  ASSUME BrokerInv, DataInv, new_clients_thread_func, PeersClose, UNCHANGED <<forwarded, received, sending>>
  PROVE  DataInv'
<1>0. SlotInv /\ ListInv /\ MainInv /\ BrokerInv' /\ TypeInv /\ TableType' /\ topic \in [Clients -> Topics]
  BY AddingKeepsBrokerInv DEF BrokerInv, ListInv, SlotInv, TypeInv
<1>1. UNCHANGED <<removing, topic>> /\ (name' = name \/ topic_list_new_topic) /\ (list' = list \/ insert_client)
  BY DEF new_clients_thread_func, brok_recv, search_topic, new_topic_search, topic_list_new_topic,
         topic_list_full, search_topic_again, insert_client, respond_register, table, programs
<1>2. \A c \in Clients : Fresh(c)' => Fresh(c)
  BY <1>0, FreshShrinks DEF ListInv, TableType
<1>3. \A p, n, c : Pending(p, n, c)' <=> Pending(p, n, c)
  BY <1>1 DEF Pending
<1>4. ForwardInv'
  <2>1. removing.pc \in {"sending", "create", "join"} => removing.connfd \in Clients /\ removing.index \in Slots
    BY <1>0 DEF MainInv, MainAt
  <2>2. \A i \in Slots : name[i] # NoName => name'[i] = name[i]
    BY <1>0, <1>1 DEF topic_list_new_topic, TypeInv
  <2>3. \A p \in Clients : topic[p] # NoName
    BY <1>0, NamesAssumption
  <2> QED
    BY <1>1, <2>1, <2>2, <2>3 DEF DataInv, ForwardInv, MainAt, Message
<1>5. \A i \in Slots : name'[i] = name[i] \/ name[i] = NoName
  BY <1>0, <1>1 DEF topic_list_new_topic, TypeInv
<1>6. ASSUME NEW i \in Slots, NEW c \in Clients, NEW n \in DOMAIN list'[i]["subs"], c = list'[i]["subs"][n].connfd
      PROVE  received[c] = <<>> \/ \E m \in DOMAIN list[i]["subs"] : c = list[i]["subs"][m].connfd /\ m = n
  <2>1. CASE list' = list
    BY <1>6, <2>1
  <2>2. CASE insert_client
    <3> DEFINE a == adding.index
               d == adding.connfd
               l == list[a][kind[d]]
               e == [id |-> client_id_counter, connfd |-> d]
    <3>1. At("insert") /\ d \in Clients /\ a \in Slots /\ kind[d] \in Kinds /\ l \in Seq(Entries)
      BY <1>0, <2>2 DEF insert_client, SlotInv, SearchInv, MainInv, ListInv, TableType, At
    <3>2. list' = [list EXCEPT ![a][kind[d]] = client_list_insert(l, kind[d], e)]
      BY <2>2 DEF insert_client
    <3>3. list'[i]["subs"] = IF i = a /\ "subs" = kind[d] THEN client_list_insert(l, kind[d], e) ELSE list[i]["subs"]
      BY <1>0, <3>1, <3>2 DEF ListInv, TableType, Kinds
    <3>4. e \in Entries
      BY <1>0, <3>1 DEF Entries, ListInv, TableType
    <3>5. \A m \in DOMAIN client_list_insert(l, kind[d], e) :
             \/ m \in DOMAIN l /\ client_list_insert(l, kind[d], e)[m] = l[m]
             \/ m = Len(l) + 1 /\ client_list_insert(l, kind[d], e)[m] = e
      BY <3>1, <3>4, InsertedInto
    <3>6. received[d] = <<>>
      BY <3>1 DEF DataInv, FreshDataInv, Fresh, At
    <3> HIDE DEF a, d, l
    <3>7. e.connfd = d
      OBVIOUS
    <3>8. CASE i = a /\ "subs" = kind[d]
      BY <1>6, <3>3, <3>5, <3>6, <3>7, <3>8 DEF l
    <3>9. CASE ~(i = a /\ "subs" = kind[d])
      BY <1>6, <3>3, <3>9
    <3> QED
      BY <3>8, <3>9
  <2> QED
    BY <1>1, <2>1, <2>2
<1>7. DataType'
  BY DEF DataInv, DataType, PeersClose
<1>8. \A c \in Clients : Reads(c)' => Reads(c)
  BY DEF PeersClose
<1> QED
  BY <1>0, <1>1, <1>2, <1>3, <1>4, <1>5, <1>6, <1>7, <1>8, NothingSent

\* Main removes: nothing is pending before or after, and the lists only lose
\* entries.
LEMMA RemovingMoves ==
  ASSUME MainInv, main_thread
  PROVE  /\ removing.pc \notin {"forward_search", "sending", "create", "join"}
         /\ removing'.pc \notin {"forward_search", "sending", "create", "join"}
<1>0. removing \in MainPosition
  BY DEF MainInv
<1>1. ASSUME NEW c \in Clients, brok_seq_recv(c) PROVE removing.pc = "rest" /\ removing'.pc = "search"
  BY <1>1 DEF brok_seq_recv, MainAt
<1>2. CASE search_removed \/ client_list_remove_id \/ test_empty \/ search_removed_again \/ topic_list_remove_topic
  <2>1. /\ removing.pc \in {"search", "remove_id", "test", "search_again", "remove_topic"}
        /\ \E pc \in {"respond", "remove_id", "test", "search_again", "remove_topic"} : \E i : MainGo(pc, i)
    BY <1>2 DEF search_removed, client_list_remove_id, test_empty, search_removed_again,
                topic_list_remove_topic, FoundOr, IndexFromName, MainAt
  <2> QED
    BY <1>0, <2>1 DEF MainGo, MainPosition
<1>3. CASE respond_unregister
  BY <1>3 DEF respond_unregister, MainAt, Rest
<1> QED
  BY <1>1, <1>2, <1>3 DEF main_thread

LEMMA RemovingKeepsEntries ==
  ASSUME ListInv, MainInv, main_thread, NEW i \in Slots, NEW n \in DOMAIN list'[i]["subs"]
  PROVE  /\ name'[i] = name[i]
         /\ \E m \in DOMAIN list[i]["subs"] : list'[i]["subs"][n].connfd = list[i]["subs"][m].connfd
<1>1. CASE client_list_remove_id
  <2> DEFINE a == removing.index
             k == kind[removing.connfd]
             l == list[a][k]
  <2>0. name' = name
    BY <1>1 DEF client_list_remove_id
  <2>1. a \in Slots /\ k \in Kinds /\ l \in Seq(Entries)
    BY <1>1 DEF client_list_remove_id, MainInv, MainAt, ListInv, TableType
  <2>2. list' = list \/ (l # <<>> /\ list' = [list EXCEPT ![a][k] = Tail(l)])
    BY <1>1 DEF client_list_remove_id, IsFirst
  <2>3. CASE l # <<>> /\ list' = [list EXCEPT ![a][k] = Tail(l)] /\ i = a /\ k = "subs"
    <3>1. list'[i]["subs"] = Tail(l)
      BY <2>1, <2>3 DEF ListInv, TableType
    <3>2. n + 1 \in DOMAIN l /\ Tail(l)[n] = l[n + 1]
      BY <2>1, <2>3, <3>1, TailEntries
    <3> QED
      BY <2>0, <2>3, <3>1, <3>2
  <2>4. CASE ~(i = a /\ k = "subs") \/ list' = list
    <3>1. list'[i]["subs"] = list[i]["subs"]
      BY <2>1, <2>2, <2>4 DEF ListInv, TableType, Kinds
    <3> QED
      BY <2>0, <3>1
  <2> QED
    BY <2>2, <2>3, <2>4
<1>2. CASE topic_list_remove_topic
  <2>1. removing.index \in Slots
    BY <1>2 DEF topic_list_remove_topic, MainInv, MainAt
  <2>2. /\ list' = [list EXCEPT ![removing.index] = [k \in Kinds |-> <<>>]]
        /\ name' = [name EXCEPT ![removing.index] = NoName]
    BY <1>2 DEF topic_list_remove_topic, client_list_empty
  <2>3. i # removing.index
    BY <2>1, <2>2 DEF ListInv, TableType, Kinds
  <2> QED
    BY <2>2, <2>3
<1>3. CASE ~client_list_remove_id /\ ~topic_list_remove_topic
  BY <1>3 DEF main_thread, brok_seq_recv, search_removed, test_empty, search_removed_again, respond_unregister, table
<1> QED
  BY <1>1, <1>2, <1>3

LEMMA RemovingKeepsDataInv ==
  ASSUME BrokerInv, DataInv, main_thread, PeersClose, UNCHANGED <<forwarded, received, sending>>
  PROVE  DataInv'
<1>0. SlotInv /\ ListInv /\ MainInv /\ TypeInv /\ TableType'
  BY RemovingKeepsBrokerInv DEF BrokerInv, ListInv, SlotInv
<1>1. \A p, n, m, c : ~Pending(p, m, c) /\ ~Pending(p, n, c)'
  BY <1>0, RemovingMoves DEF Pending
<1>2. UNCHANGED <<adding, topic>> /\ \A c \in Clients : Fresh(c)' => Fresh(c)
  <2>1. UNCHANGED <<adding, topic>>
    BY DEF main_thread, brok_seq_recv, search_removed, client_list_remove_id, test_empty,
           search_removed_again, topic_list_remove_topic, respond_unregister, programs
  <2>2. state' = state \/ state' = [state EXCEPT ![removing.connfd] = "left"]
    BY DEF main_thread, brok_seq_recv, search_removed, client_list_remove_id, test_empty,
           search_removed_again, topic_list_remove_topic, respond_unregister, programs
  <2>3. \A c \in Clients : state'[c] = "new" => state[c] = "new"
    BY <1>0, <2>2 DEF ListInv, TableType
  <2> QED
    BY <2>1, <2>3 DEF Fresh
<1>3. ForwardInv'
  <2>1. sending.threads = {} /\ sending.sent = 0
    BY <1>0, RemovingMoves DEF BrokerInv, ThreadsInv, MainAt, DataInv, ForwardInv
  <2> QED
    BY <1>0, <2>1, RemovingMoves DEF ForwardInv, MainAt
<1>4. DataType' /\ \A c \in Clients : Reads(c)' => Reads(c)
  BY DEF DataInv, DataType, PeersClose
<1> QED
  BY <1>0, <1>1, <1>2, <1>3, <1>4, RemovingKeepsEntries, NothingSent

\* Main forwards.  A message that is sent to the subscriber d, for which it was
\* pending, is pending for d no more.
LEMMA MessageSent ==
  ASSUME BrokerInv, DataInv, NEW d \in Clients, NEW a \in Slots, NEW o \in DOMAIN list[a]["subs"],
         list[a]["subs"][o].connfd = d, NEW p \in Clients, p = removing.connfd, name[a] = topic[p],
         Pending(p, o, d), send(d, Message),
         UNCHANGED <<name, list, topic, forwarded, state, adding>>,
         \A i \in Slots, q, c \in Clients : \A n \in DOMAIN list[i]["subs"] :
           name[i] = topic[q] /\ c = list[i]["subs"][n].connfd =>
             (Pending(q, n, c)' <=> Pending(q, n, c) /\ ~(q = p /\ c = d))
  PROVE  /\ received' \in [Clients -> Seq(Messages)] /\ peer' \in [Clients -> Peers]
         /\ DeliveredInv' /\ FreshDataInv' /\ DataWithoutGaps'
<1> DEFINE msg == [from |-> p, n |-> forwarded[p]]
<1>0. /\ UniqueInv /\ FreshInv /\ TableType
      /\ received \in [Clients -> Seq(Messages)] /\ peer \in [Clients -> Peers] /\ forwarded \in [Clients -> Nat]
  BY DEF BrokerInv, ListInv, DataInv, DataType
<1>1. msg \in Messages /\ msg.from = p /\ msg.n = forwarded[p] /\ Message = msg /\ received[d] \in Seq(Messages)
  BY <1>0 DEF Messages, Message
<1> HIDE DEF msg
<1>2. received' = IF Reads(d) THEN [received EXCEPT ![d] = Append(received[d], msg)] ELSE received
  BY <1>1 DEF send, Reads
<1>3. /\ peer' \in [Clients -> Peers] /\ (Reads(d)' => Reads(d))
      /\ \A c \in Clients : c # d => (Reads(c)' <=> Reads(c))
  BY <1>0 DEF send, Reads, Peers
<1>4. PICK t : t = Append(received[d], msg)
  OBVIOUS
<1>5. /\ t \in Seq(Messages) /\ LastIs(t, p, forwarded[p])
      /\ \A q, n : q # p /\ LastIs(received[d], q, n) => LastIs(t, q, n)
      /\ \A q : q # p /\ NothingFrom(received[d], q) => NothingFrom(t, q)
      /\ WithoutGaps(received[d]) /\ LastIs(received[d], p, forwarded[p] - 1) => WithoutGaps(t)
  <2>1. /\ t \in Seq(Messages) /\ LastIs(t, msg.from, msg.n)
        /\ \A q, n : q # msg.from /\ LastIs(received[d], q, n) => LastIs(t, q, n)
        /\ \A q : q # msg.from /\ NothingFrom(received[d], q) => NothingFrom(t, q)
        /\ WithoutGaps(received[d]) /\ LastIs(received[d], msg.from, msg.n - 1) => WithoutGaps(t)
    <3>1. received[d] \in Seq(Messages) /\ msg \in Messages
      BY <1>1
    <3> QED
      BY <1>4, <3>1, AppendedData
  <2> QED
    BY <1>1, <2>1
<1>6. /\ received' \in [Clients -> Seq(Messages)]
      /\ \A c \in Clients : received'[c] = IF c = d /\ Reads(d) THEN t ELSE received[c]
  BY <1>0, <1>2, <1>4, <1>5
<1>7. ASSUME NEW q \in Clients, NEW i \in Slots, NEW n \in DOMAIN list[i]["subs"], NEW c \in Clients,
             c = list[i]["subs"][n].connfd
      PROVE  Delivered(q, i, n, c)'
  <2>1. Delivered(q, i, n, c)
    BY <1>7 DEF DataInv, DeliveredInv
  <2>2. CASE c # d
    <3>1. received'[c] = received[c] /\ (Reads(c)' <=> Reads(c))
      BY <1>3, <1>6, <2>2
    <3>2. name[i] = topic[q] => (Pending(q, n, c)' <=> Pending(q, n, c))
      BY <1>7, <2>2
    <3> QED
      BY <2>1, <3>1, <3>2 DEF Delivered
  <2>3. CASE c = d
    <3>1. i = a /\ n = o
      <4>1. "subs" \in Kinds /\ list[i]["subs"][n].connfd = list[a]["subs"][o].connfd
        BY <1>7, <2>3 DEF Kinds
      <4> QED
        BY <1>0, <4>1 DEF UniqueInv
    <3>2. received'[c] = IF Reads(c) THEN t ELSE received[c]
      BY <1>6, <2>3
    <3>3. CASE q = p
      <4>1. name[i] = topic[q] /\ ~Pending(q, n, c)'
        BY <1>7, <2>3, <3>1, <3>3
      <4> QED
        BY <1>3, <1>5, <2>3, <3>2, <3>3, <4>1 DEF Delivered
    <3>4. CASE q # p
      <4>1. ~Pending(q, n, c)
        BY <3>4 DEF Pending
      <4>2. name[i] = topic[q] => ~Pending(q, n, c)'
        BY <1>7, <4>1
      <4> QED
        BY <1>3, <1>5, <2>1, <2>3, <3>2, <3>4, <4>1, <4>2 DEF Delivered
    <3> QED
      BY <3>3, <3>4
  <2> QED
    BY <2>2, <2>3
<1>8. DeliveredInv'
  <2>1. \A i \in Slots : \A n \in DOMAIN list[i]["subs"] : list[i]["subs"][n].connfd \in Clients
    BY <1>0, ListsAreSequences DEF Kinds
  <2> QED
    BY <1>7, <2>1 DEF DeliveredInv
<1>9. DataWithoutGaps'
  <2>1. Reads(d) => LastIs(received[d], p, forwarded[p] - 1)
    BY DEF DataInv, DeliveredInv, Delivered
  <2> QED
    BY <1>5, <1>6, <2>1 DEF DataInv, DataWithoutGaps
<1>10. FreshDataInv'
  <2>1. ~Fresh(d)
    BY <1>0 DEF FreshInv, Kinds
  <2>2. \A c \in Clients : Fresh(c)' => Fresh(c)
    BY DEF Fresh
  <2> QED
    BY <1>6, <2>1, <2>2 DEF DataInv, FreshDataInv
<1> QED
  BY <1>3, <1>6, <1>8, <1>9, <1>10

\* While main forwards for p, p's topic has one slot, the one it is at.
LEMMA OneSlotForward ==
  ASSUME BrokerInv, DataInv, removing.pc \in {"sending", "create", "join"}, NEW i \in Slots,
         name[i] = topic[removing.connfd]
  PROVE  i = removing.index
<1>1. removing.index \in Slots /\ removing.connfd \in Clients
  BY DEF BrokerInv, MainInv, MainAt
<1>2. topic[removing.connfd] # NoName
  BY <1>1, NamesAssumption DEF BrokerInv, SlotInv, TypeInv
<1> QED
  BY <1>1, <1>2 DEF DataInv, ForwardInv, BrokerInv, SlotInv, TopicInOneSlot

\* The steps that move main only, and leave to each who has the message to come
\* what it has to come.
LEMMA ForwardMoves ==
  ASSUME BrokerInv, DataInv,
         UNCHANGED <<name, list, client_id_counter, closed, adding, kind, topic, id, state, forwarded, peer, received>>,
         DataType', ForwardInv',
         \A i \in Slots, p, c \in Clients : \A n \in DOMAIN list[i]["subs"] :
           name[i] = topic[p] /\ c = list[i]["subs"][n].connfd => (Pending(p, n, c)' <=> Pending(p, n, c))
  PROVE  DataInv'
<1>1. TypeInv /\ TableType'
  BY DEF BrokerInv, SlotInv, ListInv, TableType
<1>2. /\ \A c \in Clients : Fresh(c)' => Fresh(c)
      /\ \A c \in Clients : Reads(c)' => Reads(c)
  BY DEF Fresh, Reads
<1> QED
  BY <1>1, <1>2, NothingSent

LEMMA ForwardingKeepsDataInv ==
  ASSUME BrokerInv, BrokerInv', SendingInv, SendingInv', DataInv, send_data \/ \E c \in Clients : recv_published(c)
  PROVE  DataInv'
<1>0. MainInv /\ ThreadsInv /\ removing \in MainPosition /\ ListInv /\ SlotInv /\ TypeInv /\ ForwardInv /\ DataType
  BY DEF BrokerInv, MainInv, SlotInv, DataInv
<1>1. UNCHANGED <<name, list, client_id_counter, closed, adding, kind, topic, id, state>>
  BY DEF send_data, forward_search, brok_seq_send, brok_parallel_send, brok_fair_send, create_threads,
         brok_thread_send, join_threads, recv_published, vars, table, programs
<1>2. Slots \subseteq Int /\ topic \in [Clients -> Topics]
  BY <1>0, SlotsAreIntegers DEF TypeInv
<1>3. \A i \in Slots : \A n \in DOMAIN list[i]["subs"] : n \in Nat /\ n >= 1 /\ n <= Len(list[i]["subs"])
  <2>1. \A i \in Slots : list[i]["subs"] \in Seq(Entries)
    BY <1>0 DEF ListInv, TableType, Kinds
  <2> QED
    BY <2>1
<1>4. ASSUME NEW c \in Clients, recv_published(c) PROVE DataInv'
  <2>1. /\ MainAt("rest") /\ UNCHANGED <<sending, peer, received>>
        /\ removing' = [pc |-> "forward_search", connfd |-> c, index |-> 0]
        /\ forwarded' = [forwarded EXCEPT ![c] = @ + 1]
    BY <1>4 DEF recv_published
  <2>2. DataType' /\ \A p \in Clients : forwarded[p] \in Nat /\ forwarded'[p] = IF p = c THEN forwarded[p] + 1 ELSE forwarded[p]
    BY <1>0, <2>1 DEF DataType
  <2>3. ForwardInv' /\ FreshDataInv' /\ DataWithoutGaps'
    <3>1. sending.threads = {}
      BY <1>0, <2>1 DEF ThreadsInv, MainAt
    <3> QED
      BY <1>1, <2>1, <3>1 DEF DataInv, ForwardInv, MainAt, FreshDataInv, Fresh, DataWithoutGaps
  <2>4. \A p, n, d : ~Pending(p, n, d) /\ (Pending(p, n, d)' <=> p = c)
    BY <2>1 DEF Pending, MainAt
  <2>5. ASSUME NEW p \in Clients, NEW i \in Slots, NEW n \in DOMAIN list[i]["subs"], NEW d, Delivered(p, i, n, d)
        PROVE  Delivered(p, i, n, d)'
    <3>1. Reads(d)' <=> Reads(d)
      BY <2>1 DEF Reads
    <3>2. (IF Pending(p, n, d)' THEN forwarded'[p] - 1 ELSE forwarded'[p]) = forwarded[p]
      BY <2>2, <2>4
    <3> QED
      BY <1>1, <2>1, <2>4, <2>5, <3>1, <3>2 DEF Delivered
  <2>6. DeliveredInv'
    BY <1>1, <2>5 DEF DataInv, DeliveredInv
  <2> QED
    BY <2>2, <2>3, <2>6 DEF DataInv
<1>5. CASE forward_search
  <2>1. MainAt("forward_search") /\ UNCHANGED <<forwarded, sending, peer, received>>
    BY <1>5 DEF forward_search, forwarding
  <2>2. removing.connfd \in Clients /\ sending.threads = {} /\ sending.sent = 0
    BY <1>0, <2>1 DEF MainInv, ThreadsInv, ForwardInv, MainAt
  <2>3. DataType'
    BY <1>0, <2>1 DEF DataType
  <2>4. CASE removing' = Rest /\ \A i \in Slots : name[i] # topic[removing.connfd]
    <3>1. ForwardInv'
      BY <2>1, <2>2, <2>4 DEF ForwardInv, Rest, MainAt
    <3>2. \A p, n, c : ~Pending(p, n, c)'
      BY <2>4 DEF Pending, Rest
    <3>3. \A i \in Slots : \A p, n, c : name[i] = topic[p] => ~Pending(p, n, c)
      BY <2>4 DEF Pending
    <3> QED
      BY <1>1, <2>1, <2>3, <3>1, <3>2, <3>3, ForwardMoves
  <2>5. ASSUME NEW a \in Slots, NEW pc \in {"sending", "create"}, MainGo(pc, a), name[a] = topic[removing.connfd]
        PROVE  DataInv'
    <3>1. removing'.pc = pc /\ removing'.connfd = removing.connfd /\ removing'.index = a
      BY <1>0, <1>2, <2>5, MainGoMoves DEF MainLabels
    <3>2. ForwardInv'
      BY <1>1, <2>1, <2>2, <2>5, <3>1 DEF ForwardInv, MainAt
    <3>3. \A i \in Slots : \A p, c : \A n \in DOMAIN list[i]["subs"] : Pending(p, n, c)' <=> Pending(p, n, c)
      BY <1>3, <2>1, <2>2, <3>1 DEF Pending, MainAt
    <3> QED
      BY <1>1, <2>1, <2>3, <3>2, <3>3, ForwardMoves
  <2>6. \/ removing' = Rest /\ \A i \in Slots : name[i] # topic[removing.connfd]
        \/ \E a \in Slots, pc \in {"sending", "create"} : MainGo(pc, a) /\ name[a] = topic[removing.connfd]
    BY <1>5 DEF forward_search, IndexFromName
  <2> QED
    BY <2>4, <2>5, <2>6
<1>6. CASE brok_seq_send
  <2> DEFINE a == removing.index
             p == removing.connfd
             o == sending.sent + 1
  <2>1. MainAt("sending") /\ UNCHANGED forwarded /\ a \in Slots /\ p \in Clients /\ name[a] = topic[p]
        /\ sending.threads = {} /\ sending.sent \in Nat
    BY <1>0, <1>6 DEF brok_seq_send, MainInv, MainAt, ForwardInv, ThreadsInv, DataType
  <2>2. \A i \in Slots : name[i] = topic[p] => i = a
    BY <2>1, OneSlotForward DEF MainAt
  <2>3. CASE o <= Len(Subs) /\ send(Subs[o].connfd, Message) /\ sending' = [sending EXCEPT !.sent = o] /\ UNCHANGED removing
    <3>0. o \in DOMAIN list[a]["subs"] /\ list[a]["subs"][o].connfd \in Clients
      <4>1. /\ Len(list[a]["subs"]) \in Nat /\ DOMAIN list[a]["subs"] = 1..Len(list[a]["subs"])
            /\ \A n \in DOMAIN list[a]["subs"] : list[a]["subs"][n].connfd \in Clients
        BY <1>0, <2>1, ListsAreSequences DEF ListInv, Kinds
      <4>2. o <= Len(list[a]["subs"]) /\ o \in Nat /\ o >= 1
        BY <2>1, <2>3 DEF Subs
      <4>3. o \in DOMAIN list[a]["subs"]
        BY <4>1, <4>2
      <4> QED
        BY <4>1, <4>3
    <3>1. sending'.sent = o /\ sending'.threads = {}
      BY <2>1, <2>3 DEF SendingInv
    <3>2. Pending(p, o, list[a]["subs"][o].connfd)
      BY <2>1 DEF Pending, MainAt
    <3>3. ASSUME NEW i \in Slots, NEW q \in Clients, NEW c \in Clients, NEW n \in DOMAIN list[i]["subs"],
                 name[i] = topic[q], c = list[i]["subs"][n].connfd
          PROVE  Pending(q, n, c)' <=> Pending(q, n, c) /\ ~(q = p /\ c = list[a]["subs"][o].connfd)
      <4>1. CASE q # p
        BY <2>3, <4>1 DEF Pending
      <4>2. CASE q = p
        <5>1. i = a /\ n \in Nat
          BY <1>3, <2>2, <3>3, <4>2
        <5>2. c = list[a]["subs"][o].connfd <=> n = o
          BY <1>0, <2>1, <3>0, <3>3, <5>1 DEF ListInv, UniqueInv, Kinds
        <5>3. Pending(q, n, c) <=> sending.sent < n
          BY <2>1, <4>2 DEF Pending, MainAt
        <5>4. Pending(q, n, c)' <=> o < n
          BY <2>1, <2>3, <3>1, <4>2 DEF Pending, MainAt
        <5> QED
          BY <2>1, <4>2, <5>1, <5>2, <5>3, <5>4
      <4> QED
        BY <4>1, <4>2
    <3>4. ForwardInv'
      BY <1>0, <1>1, <2>1, <2>3, <3>1 DEF ForwardInv, MainAt
    <3>5. sending'.sent \in Nat
      BY <2>1, <3>1
    <3> HIDE DEF o
    <3>6. /\ received' \in [Clients -> Seq(Messages)] /\ peer' \in [Clients -> Peers]
          /\ DeliveredInv' /\ FreshDataInv' /\ DataWithoutGaps'
      <4>1. PICK d \in Clients : d = list[a]["subs"][o].connfd
        BY <3>0
      <4>2. send(d, Message)
        BY <2>3, <4>1 DEF Subs
      <4> QED
        BY <1>1, <2>1, <3>0, <3>2, <3>3, <4>1, <4>2, MessageSent
    <3> QED
      BY <1>0, <2>1, <3>4, <3>5, <3>6 DEF DataInv, DataType
  <2>4. CASE o > Len(Subs) /\ sending' = [sending EXCEPT !.sent = 0] /\ removing' = Rest /\ UNCHANGED <<received, peer>>
    <3>1. sending'.sent = 0 /\ sending'.threads = {}
      BY <2>1, <2>4 DEF SendingInv
    <3>2. ForwardInv' /\ DataType'
      BY <1>0, <2>1, <2>4, <3>1 DEF ForwardInv, DataType, MainAt, Rest
    <3>3. \A q, n, c : ~Pending(q, n, c)'
      BY <2>4 DEF Pending, Rest
    <3>4. ASSUME NEW i \in Slots, NEW q \in Clients, NEW c \in Clients, NEW n \in DOMAIN list[i]["subs"], name[i] = topic[q]
          PROVE  ~Pending(q, n, c)
      <4>1. q = p => n <= Len(Subs) /\ n \in Nat
        BY <1>3, <2>2, <3>4 DEF Subs
      <4>2. Len(Subs) \in Nat
        BY <1>0, <2>1, ListsAreSequences DEF ListInv, Subs, Kinds
      <4> QED
        BY <2>1, <2>4, <4>1, <4>2 DEF Pending, MainAt
    <3> QED
      BY <1>1, <2>1, <2>4, <3>2, <3>3, <3>4, ForwardMoves
  <2> QED
    BY <1>6, <2>3, <2>4 DEF brok_seq_send
<1>7. CASE create_threads
  <2> DEFINE a == removing.index
             p == removing.connfd
  <2>1. /\ MainAt("create") /\ UNCHANGED <<forwarded, peer, received>> /\ a \in Slots /\ p \in Clients
        /\ name[a] = topic[p] /\ sending.threads = {} /\ sending.sent = 0 /\ sending.sent \in Nat
    BY <1>0, <1>7 DEF create_threads, MainInv, MainAt, ForwardInv, ThreadsInv, DataType
  <2>2. \A i \in Slots : name[i] = topic[p] => i = a
    BY <2>1, OneSlotForward DEF MainAt
  <2>3. removing'.pc = "join" /\ removing'.connfd = p /\ removing'.index = a
    BY <1>0, <1>2, <1>7, <2>1, MainGoMoves DEF create_threads, MainLabels
  <2>4. /\ sending'.sent = 0
        /\ sending'.threads = {[connfd |-> Subs[n].connfd, msg |-> Message] : n \in DOMAIN Subs}
    BY <1>7, <2>1 DEF create_threads, SendingInv
  <2>5. Message' = Message
    BY <2>1, <2>3 DEF Message
  <2>6. ForwardInv'
    BY <1>1, <2>1, <2>3, <2>4, <2>5 DEF ForwardInv, MainAt
  <2>7. DataType'
    BY <1>0, <2>1, <2>4 DEF DataType
  <2>8. ASSUME NEW i \in Slots, NEW q \in Clients, NEW c \in Clients, NEW n \in DOMAIN list[i]["subs"],
               name[i] = topic[q], c = list[i]["subs"][n].connfd
        PROVE  Pending(q, n, c)' <=> Pending(q, n, c)
    <3>1. CASE q # p
      BY <2>3, <3>1 DEF Pending
    <3>2. CASE q = p
      <4>1. i = a
        BY <2>2, <2>8, <3>2
      <4>2. [connfd |-> Subs[n].connfd, msg |-> Message] \in sending'.threads /\ Subs[n].connfd = c
        BY <2>4, <2>8, <4>1 DEF Subs
      <4> QED
        BY <2>1, <2>3, <3>2, <4>2 DEF Pending, MainAt
    <3> QED
      BY <3>1, <3>2
  <2> QED
    BY <1>1, <2>1, <2>6, <2>7, <2>8, ForwardMoves
<1>8. CASE brok_thread_send
  <2> DEFINE a == removing.index
             p == removing.connfd
  <2>1. PICK args \in sending.threads :
          /\ send(args.connfd, args.msg)
          /\ sending' = [sending EXCEPT !.threads = @ \ {args}]
          /\ UNCHANGED <<removing, forwarded>>
    BY <1>8 DEF brok_thread_send, vars
  <2>2. /\ removing.pc = "join" /\ a \in Slots /\ p \in Clients /\ name[a] = topic[p]
        /\ sending.sent = 0 /\ sending.sent \in Nat
    BY <1>0, <2>1 DEF MainInv, MainAt, ForwardInv, ThreadsInv, DataType
  <2>3. \A i \in Slots : name[i] = topic[p] => i = a
    BY <2>2, OneSlotForward
  <2>4. sending'.sent = 0 /\ sending'.threads = sending.threads \ {args}
    BY <2>1, <2>2 DEF SendingInv
  <2>5. Message' = Message
    BY <1>1, <2>1 DEF Message
  <2>6. ForwardInv'
    BY <1>0, <1>1, <2>1, <2>2, <2>4, <2>5 DEF ForwardInv, MainAt
  <2>7. \A other \in sending.threads : other.connfd = args.connfd => other = args
    BY <1>0 DEF ForwardInv
  <2>8. args.msg = Message
    <3>1. args = [connfd |-> args.connfd, msg |-> Message]
      BY <1>0 DEF ForwardInv
    <3>2. [connfd |-> args.connfd, msg |-> Message].msg = Message
      OBVIOUS
    <3> QED
      BY <3>1, <3>2
  <2>9. PICK o \in DOMAIN list[a]["subs"] : list[a]["subs"][o].connfd = args.connfd
    BY <1>0 DEF ThreadsInv
  <2>10. PICK d \in Clients : d = args.connfd
    BY <1>0, <2>2, <2>9, ListsAreSequences DEF ListInv, Kinds
  <2>11. Pending(p, o, d)
    BY <2>2, <2>10 DEF Pending
  <2>12. ASSUME NEW i \in Slots, NEW q \in Clients, NEW c \in Clients, NEW n \in DOMAIN list[i]["subs"]
         PROVE  Pending(q, n, c)' <=> Pending(q, n, c) /\ ~(q = p /\ c = d)
    <3>1. CASE q # p
      BY <2>1, <2>2, <3>1 DEF Pending
    <3>2. CASE q = p
      <4>1. (\E other \in sending'.threads : other.connfd = c) <=> (\E other \in sending.threads : other.connfd = c) /\ c # d
        BY <2>4, <2>7, <2>10
      <4> QED
        BY <2>1, <2>2, <3>2, <4>1 DEF Pending
    <3> QED
      BY <3>1, <3>2
  <2>13. send(d, Message)
    BY <2>1, <2>8, <2>10
  <2>14. /\ received' \in [Clients -> Seq(Messages)] /\ peer' \in [Clients -> Peers]
         /\ DeliveredInv' /\ FreshDataInv' /\ DataWithoutGaps'
    BY <1>1, <2>1, <2>2, <2>9, <2>10, <2>11, <2>12, <2>13, MessageSent
  <2> QED
    BY <1>0, <2>1, <2>4, <2>6, <2>14 DEF DataInv, DataType
<1>9. CASE join_threads
  <2>1. /\ MainAt("join") /\ UNCHANGED <<forwarded, sending, peer, received>> /\ sending.threads = {} /\ removing' = Rest
    BY <1>9 DEF join_threads, forwarding
  <2>2. ForwardInv' /\ DataType'
    BY <1>0, <2>1 DEF ForwardInv, DataType, Rest, MainAt
  <2>3. \A q, n, c : ~Pending(q, n, c) /\ ~Pending(q, n, c)'
    BY <2>1 DEF Pending, Rest, MainAt
  <2> QED
    BY <1>1, <2>1, <2>2, <2>3, ForwardMoves
<1> QED
  BY <1>4, <1>5, <1>6, <1>7, <1>8, <1>9 DEF send_data, brok_parallel_send, brok_fair_send

\* The clients.
LEMMA ClientsKeepDataInv ==
  ASSUME BrokerInv, DataInv, NEW c \in Clients,
         \/ unregister(c) \/ pub_publish_data(c) \/ close_my_sockfd(c) \/ recv_error(c)
         \/ recv_closed(c) /\ UNCHANGED <<forwarded, peer, received, sending>>
  PROVE  DataInv'
<1>0. SlotInv /\ ListInv /\ TypeInv /\ TableType /\ DataType /\ ForwardInv
  BY DEF BrokerInv, SlotInv, ListInv, DataInv
<1>1. /\ UNCHANGED <<name, list, client_id_counter, closed, adding, removing, kind, topic, id, forwarded, received, sending>>
      /\ state' = state \/ \E s \in {"leaving", "left"} : state' = [state EXCEPT ![c] = s]
      /\ peer' = peer \/ \E e \in {"misled", "failing", "closed", "reset"} :
                            peer' = [peer EXCEPT ![c] = e] /\ (e = "misled" => Reads(c))
  BY DEF unregister, pub_sub_unregister, recv_closed, pub_publish_data, close_my_sockfd, recv_error,
         vars, table, programs, Reads
<1>2. TableType' /\ \A d \in Clients : state'[d] = "new" => state[d] = "new"
  BY <1>0, <1>1 DEF TableType, States
<1>3. \A d \in Clients : Fresh(d)' => Fresh(d)
  BY <1>1, <1>2 DEF Fresh
<1>4. peer' \in [Clients -> Peers] /\ \A d \in Clients : Reads(d)' => Reads(d)
  BY <1>0, <1>1 DEF DataType, Reads, Peers
<1>5. DataType' /\ ForwardInv'
  BY <1>0, <1>1, <1>4 DEF DataType, ForwardInv, Message, MainAt
<1>6. \A p, n, d : Pending(p, n, d)' <=> Pending(p, n, d)
  BY <1>1 DEF Pending
<1> QED
  BY <1>0, <1>1, <1>2, <1>3, <1>4, <1>5, <1>6, NothingSent

LEMMA DataInvInit == BrokerInit => DataInv
<1> SUFFICES ASSUME BrokerInit PROVE DataInv
  OBVIOUS
<1>1. /\ forwarded = [c \in Clients |-> 0] /\ peer = [c \in Clients |-> "open"]
      /\ received = [c \in Clients |-> <<>>] /\ sending = [sent |-> 0, threads |-> {}]
      /\ removing.pc = "rest" /\ list = [i \in Slots |-> [k \in Kinds |-> <<>>]]
  BY DEF BrokerInit, Init, topic_list_init, Rest
<1>2. DataType
  BY <1>1 DEF DataType, Peers
<1>3. DeliveredInv
  BY <1>1 DEF DeliveredInv, Kinds
<1>4. FreshDataInv /\ ForwardInv
  BY <1>1 DEF FreshDataInv, ForwardInv, MainAt
<1>5. DataWithoutGaps
  BY <1>1 DEF DataWithoutGaps, WithoutGaps
<1> QED
  BY <1>2, <1>3, <1>4, <1>5 DEF DataInv

LEMMA StepKeepsDataInv ==
  BrokerInv /\ BrokerInv' /\ SendingInv /\ SendingInv' /\ DataInv /\ [BrokerNext]_broker_vars => DataInv'
<1> SUFFICES ASSUME BrokerInv, BrokerInv', SendingInv, SendingInv', DataInv, [BrokerNext]_broker_vars
             PROVE  DataInv'
  OBVIOUS
<1>1. CASE TableStep
  <2>1. /\ UNCHANGED <<forwarded, received, sending>>
        /\ peer' = peer \/ \E c : peer' = [peer EXCEPT ![c] = IF @ = "failing" /\ c \notin closed THEN "reset" ELSE @]
    BY <1>1 DEF TableStep, Respond, forwarding
  <2>2. \/ new_clients_thread_func \/ main_thread
        \/ \E c \in Clients : recv_closed(c) /\ UNCHANGED <<forwarded, peer, received, sending>>
    BY <1>1 DEF TableStep, new_clients_thread_func, main_thread, forwarding
  <2>3. PeersClose
    BY <2>1 DEF PeersClose, Reads, Peers, DataInv, DataType
  <2> QED
    BY <2>1, <2>2, <2>3, AddingKeepsDataInv, RemovingKeepsDataInv, ClientsKeepDataInv
<1>2. CASE send_data \/ \E c \in Clients : recv_published(c)
  BY <1>2, ForwardingKeepsDataInv
<1>3. ASSUME NEW c \in Clients, recv_unregister(c) PROVE DataInv'
  <2>1. main_thread /\ UNCHANGED <<forwarded, peer, received, sending>>
    BY <1>3 DEF recv_unregister, main_thread, forwarding
  <2>2. PeersClose
    BY <2>1 DEF PeersClose, Reads, DataInv, DataType
  <2> QED BY <2>1, <2>2, RemovingKeepsDataInv
<1>4. ASSUME NEW c \in Clients, pub_publish_data(c) \/ unregister(c) \/ close_my_sockfd(c) \/ recv_error(c)
      PROVE  DataInv'
  BY <1>4, ClientsKeepDataInv
<1>5. CASE UNCHANGED broker_vars
  <2>1. UNCHANGED <<name, list, client_id_counter, closed, adding, removing, kind, topic, id, state,
                    sending, forwarded, peer, received>>
    BY <1>5 DEF broker_vars, forwarding, vars, table, programs
  <2>2. DataType' /\ ForwardInv'
    BY <2>1 DEF DataInv, DataType, ForwardInv, Message, MainAt
  <2>3. \A p, n, d : Pending(p, n, d)' <=> Pending(p, n, d)
    BY <2>1 DEF Pending
  <2> QED BY <2>1, <2>2, <2>3, ForwardMoves
<1> QED
  BY <1>1, <1>2, <1>3, <1>4, <1>5 DEF BrokerNext

\* Whatever the other thread does to the table between two sends, a subscriber
\* is sent each message of a publisher once and in order from the first one on:
\* at rest, what a listed subscriber has of its topic's publishers ends with the
\* last message the broker has forwarded.
THEOREM NoGaps == BrokerSpec => []DataWithoutGaps
<1>1. BrokerInit => SendingInv
  BY DEF BrokerInit, SendingInv
<1>2. DataInv => DataWithoutGaps
  BY DEF DataInv
<1> QED
  BY <1>1, <1>2, BrokerInvariant, SendingKept, DataInvInit, StepKeepsDataInv, PTL DEF BrokerSpec
=============================================================================
