-------------------------- MODULE ClientListProofs --------------------------
(***************************************************************************)
(* The invariants of ClientList, for every number of clients, topics and   *)
(* slots and every limit.                                                  *)
(***************************************************************************)
EXTENDS ClientList, FiniteSetTheorems, WellFoundedInduction, TLAPS

\* Where a client of the table is, and what a client program knows of it.
Homes ==
  \A e \in entries :
    /\ name[e.slot] = topic[e.socket]
    /\ e.ct = type[e.socket] /\ e.id = id[e.socket] /\ e.id < id_counter
    /\ status[e.socket] \in {"registered", "unregistered"}

\* What holds of the table whoever is taken out of it.
TableExact ==
  /\ TypeOK
  /\ IsFiniteSet(entries)
  /\ CountersCount
  /\ IdsUnique
  /\ NamedIffUsed
  /\ Homes

TableInv ==
  /\ TypeOK
  /\ IsFiniteSet(entries)
  /\ CountersCount
  /\ RegisteredAreListed
  /\ IdsUnique
  /\ NamedIffUsed
  /\ Homes

\* The slot the search loops stop at: the first one of a set that is not empty.
LEMMA LeastIsLeast ==
  ASSUME NEW S, S \subseteq Nat, S # {}
  PROVE  Least(S) \in S /\ \A j \in S : Least(S) <= j
<1>1. PICK i \in S : \A j \in S : ~(<<j, i>> \in OpToRel(<, Nat))
  BY WFMin, NatLessThanWellFounded, Zenon
<1>2. \A j \in S : ~(j < i)
  BY <1>1 DEF OpToRel
<1>3. \A j \in S : i <= j
  BY <1>2
<1> QED BY <1>3 DEF Least

\* The clients of one type are counted by a natural number.
LEMMA EntriesOfFinite ==
  ASSUME IsFiniteSet(entries), NEW ct
  PROVE  IsFiniteSet(EntriesOf(ct)) /\ Cardinality(EntriesOf(ct)) \in Nat
BY FS_Subset, FS_CardinalityType DEF EntriesOf

\* A table without clients.
LEMMA InitTableInv == Init => TableInv
<1> SUFFICES ASSUME Init PROVE TableInv
  OBVIOUS
<1> USE DEF Init, init_client_list
<1>1. TypeOK
  BY DEF TypeOK
<1>2. IsFiniteSet(entries) /\ \A ct : EntriesOf(ct) = {} /\ Cardinality(EntriesOf(ct)) = 0
  BY FS_EmptySet DEF EntriesOf
<1>3. CountersCount
  BY <1>2, LimitsAssumption DEF CountersCount, CLIENTS_MAX, client_type
<1>4. RegisteredAreListed /\ IdsUnique /\ NamedIffUsed /\ Homes
  BY DEF RegisteredAreListed, IdsUnique, NamedIffUsed, Homes
<1> QED BY <1>1, <1>2, <1>3, <1>4 DEF TableInv

\* add_client puts the client in a slot that is free or has its topic's name.
LEMMA AddKeepsExact ==
  ASSUME TableExact, NEW c \in Clients, add_client(c)
  PROVE  TableExact'
<1> USE DEF TableExact, TypeOK, get_new_id
<1> DEFINE i == Least(SlotsFor(topic[c]))
           e0 == [slot |-> i, ct |-> type[c], id |-> id_counter, socket |-> c]
<1>1. i \in Slots /\ name[i] \in {NoName, topic[c]}
  <2>1. SlotsFor(topic[c]) \subseteq Nat /\ SlotsFor(topic[c]) # {}
    BY LimitsAssumption DEF add_client, Full, SlotsFor, Slots
  <2>2. i \in SlotsFor(topic[c])
    BY <2>1, LeastIsLeast
  <2> QED BY <2>2 DEF SlotsFor
<1>2. /\ status[c] = "new"
      /\ name' = [name EXCEPT ![i] = topic[c]] /\ entries' = entries \cup {e0}
      /\ counter' = [counter EXCEPT ![type[c]] = @ + 1] /\ id_counter' = id_counter + 1
      /\ id' = [id EXCEPT ![c] = id_counter] /\ status' = [status EXCEPT ![c] = "registered"]
      /\ UNCHANGED <<type, topic>>
  BY DEF add_client
<1>3. e0 \in Entries /\ e0 \notin entries
  BY <1>1 DEF Entries, Homes
<1> HIDE DEF i
<1>4. TypeOK'
  BY <1>1, <1>2, <1>3 DEF client_type
<1>5. IsFiniteSet(entries)'
  BY <1>2, FS_AddElement
<1>6. CountersCount'
  <2> SUFFICES ASSUME NEW ct \in client_type
               PROVE  counter'[ct] = Cardinality(EntriesOf(ct)') /\ counter'[ct] <= CLIENTS_MAX(ct)
    BY DEF CountersCount
  <2>1. counter[ct] = Cardinality(EntriesOf(ct)) /\ counter[ct] <= CLIENTS_MAX(ct)
    BY DEF CountersCount
  <2>2. CASE ct = type[c]
    <3>1. EntriesOf(ct)' = EntriesOf(ct) \cup {e0} /\ e0 \notin EntriesOf(ct)
      BY <1>2, <1>3, <2>2 DEF EntriesOf
    <3>2. Cardinality(EntriesOf(ct)') = Cardinality(EntriesOf(ct)) + 1
      BY <3>1, EntriesOfFinite, FS_AddElement
    <3>3. counter[ct] # CLIENTS_MAX(ct) /\ CLIENTS_MAX(ct) \in Nat
      BY <2>2, LimitsAssumption DEF add_client, Full, CLIENTS_MAX
    <3> QED BY <1>2, <2>1, <2>2, <3>2, <3>3
  <2>3. CASE ct # type[c]
    <3>1. EntriesOf(ct)' = EntriesOf(ct)
      BY <1>2, <2>3 DEF EntriesOf
    <3> QED BY <1>2, <2>1, <2>3, <3>1
  <2> QED BY <2>2, <2>3
<1>7. Homes' /\ IdsUnique'
  BY <1>1, <1>2, <1>3 DEF Homes, IdsUnique, Entries, NamedIffUsed
<1>8. NamedIffUsed'
  <2> SUFFICES ASSUME NEW j \in Slots
               PROVE  name'[j] # NoName <=> \E e \in entries' : e.slot = j
    BY DEF NamedIffUsed
  <2>1. e0.slot = i /\ e0 \in entries' /\ topic[c] # NoName
    BY <1>2, TopicsAssumption
  <2> HIDE DEF e0
  <2>2. CASE j = i
    BY <1>1, <1>2, <2>1, <2>2
  <2>3. CASE j # i
    <3>1. name'[j] = name[j]
      BY <1>1, <1>2, <2>3
    <3>2. (\E e \in entries' : e.slot = j) <=> \E e \in entries : e.slot = j
      BY <1>2, <2>1, <2>3
    <3> QED BY <3>1, <3>2 DEF NamedIffUsed
  <2> QED BY <2>2, <2>3
<1> QED BY <1>4, <1>5, <1>6, <1>7, <1>8

\* It is found by its own program, and everybody else still is.
LEMMA AddPreserves ==
  ASSUME TableInv, NEW c \in Clients, add_client(c)
  PROVE  TableInv'
<1> DEFINE i == Least(SlotsFor(topic[c]))
           e0 == [slot |-> i, ct |-> type[c], id |-> id_counter, socket |-> c]
<1>1. TableExact'
  BY AddKeepsExact DEF TableInv, TableExact
<1>2. i \in Slots /\ name[i] \in {NoName, topic[c]}
  <2>1. SlotsFor(topic[c]) \subseteq Nat /\ SlotsFor(topic[c]) # {}
    BY LimitsAssumption DEF add_client, Full, SlotsFor, Slots
  <2>2. i \in SlotsFor(topic[c])
    BY <2>1, LeastIsLeast
  <2> QED BY <2>2 DEF SlotsFor
<1>3. /\ status[c] = "new"
      /\ name' = [name EXCEPT ![i] = topic[c]] /\ entries' = entries \cup {e0}
      /\ id' = [id EXCEPT ![c] = id_counter] /\ status' = [status EXCEPT ![c] = "registered"]
      /\ UNCHANGED <<type, topic>>
  BY DEF add_client, get_new_id
<1> HIDE DEF i
<1>4. Homes'
  BY <1>1 DEF TableExact
<1>5. RegisteredAreListed'
  <2> SUFFICES ASSUME NEW d \in Clients, status'[d] = "registered"
               PROVE  (d \in get_all(type[d]))' /\ \E e \in entries' :
                        e.socket = d /\ e.ct = type'[d] /\ e.id = id'[d] /\ name'[e.slot] = topic'[d]
    BY DEF RegisteredAreListed
  <2>1. PICK e \in entries' : e.socket = d /\ e.id = id'[d]
    <3>1. CASE d = c
      <4>1. id'[c] = id_counter
        BY <1>3 DEF TableInv, TypeOK
      <4>2. e0 \in entries' /\ e0.socket = c /\ e0.id = id_counter
        BY <1>3
      <4> QED BY <3>1, <4>1, <4>2
    <3>2. CASE d # c
      <4>1. status[d] = "registered" /\ id'[d] = id[d]
        BY <1>3, <3>2 DEF TableInv, TypeOK
      <4> QED BY <1>3, <4>1 DEF TableInv, RegisteredAreListed
    <3> QED BY <3>1, <3>2
  <2>2. e.ct = type'[d] /\ name'[e.slot] = topic'[d]
    BY <1>4, <2>1 DEF Homes
  <2>3. topic'[d] # NoName
    BY <1>3, TopicsAssumption DEF TableInv, TypeOK
  <2> QED BY <2>1, <2>2, <2>3 DEF get_all
<1> QED BY <1>1, <1>5 DEF TableInv, TableExact

\* The slots of a topic are counted by a natural number.
LEMMA SlotsOfFinite ==
  ASSUME NEW t
  PROVE  IsFiniteSet(SlotsOf(t)) /\ Cardinality(SlotsOf(t)) \in Nat
<1>1. IsFiniteSet(1..TOPICS_MAX)
  BY FS_Interval, LimitsAssumption
<1>2. SlotsOf(t) \subseteq 1..TOPICS_MAX
  BY DEF SlotsOf, Slots
<1>3. IsFiniteSet(SlotsOf(t))
  BY <1>1, <1>2, FS_Subset
<1> QED BY <1>3, FS_CardinalityType

\* remove_client finds its own client's entry or nothing: ids are unique.
LEMMA FoundIsOwn ==
  ASSUME TableInv, NEW c \in Clients, status[c] = "registered"
  PROVE  /\ Found(type[c], topic[c], id[c]) \subseteq {e \in entries : e.socket = c}
         /\ Cardinality(SlotsOf(topic[c])) <= 1
              => Found(type[c], topic[c], id[c]) = {e \in entries : e.socket = c}
         /\ \A e, f \in entries : e.socket = c /\ f.socket = c => e = f

<1> USE DEF TableInv, TypeOK
<1>1. PICK e0 \in entries : /\ e0.socket = c /\ e0.ct = type[c] /\ e0.id = id[c]
                            /\ name[e0.slot] = topic[c]
  BY DEF RegisteredAreListed
<1>2. \A e \in entries : e.id = id[c] => e = e0
  BY <1>1 DEF IdsUnique
<1>3. \A e \in entries : e.socket = c => e = e0
  BY <1>2 DEF Homes
<1>4. Found(type[c], topic[c], id[c]) \subseteq {e0}
  BY <1>2 DEF Found, ClientsIn
<1>5. ASSUME Cardinality(SlotsOf(topic[c])) <= 1
      PROVE  e0 \in Found(type[c], topic[c], id[c])
  <2>1. e0.slot \in SlotsOf(topic[c])
    BY <1>1 DEF SlotsOf, Entries
  <2>2. IsFiniteSet(SlotsOf(topic[c]))
    BY SlotsOfFinite
  <2>3. Least(SlotsOf(topic[c])) \in SlotsOf(topic[c])
    <3>1. SlotsOf(topic[c]) \subseteq Nat
      BY LimitsAssumption DEF SlotsOf, Slots
    <3> QED BY <2>1, <3>1, LeastIsLeast
  <2>4. \A i, j \in SlotsOf(topic[c]) : i = j
    <3> SUFFICES ASSUME NEW i \in SlotsOf(topic[c]), NEW j \in SlotsOf(topic[c]), i # j PROVE FALSE
      OBVIOUS
    <3>1. /\ IsFiniteSet(SlotsOf(topic[c]) \ {i})
          /\ Cardinality(SlotsOf(topic[c]) \ {i}) = Cardinality(SlotsOf(topic[c])) - 1
      BY <2>2, FS_RemoveElement
    <3>2. Cardinality(SlotsOf(topic[c]) \ {i}) # 0
      BY <3>1, FS_EmptySet
    <3> QED BY <1>5, <2>2, <3>1, <3>2, FS_CardinalityType
  <2> QED BY <1>1, <2>1, <2>3, <2>4 DEF Found, ClientsIn
<1> QED BY <1>1, <1>3, <1>4, <1>5

\* A refused client changes nothing but its own status.
LEMMA FullKeepsExact ==
  ASSUME TableExact, NEW c \in Clients, add_client_full(c)
  PROVE  TableExact'
<1> USE DEF TableExact, add_client_full, table
<1>1. TypeOK' /\ IsFiniteSet(entries)'
  BY DEF TypeOK
<1>2. CountersCount' /\ IdsUnique' /\ NamedIffUsed'
  BY DEF CountersCount, EntriesOf, IdsUnique, NamedIffUsed
<1>3. Homes'
  BY DEF Homes, TypeOK, Entries
<1> QED BY <1>1, <1>2, <1>3

LEMMA FullPreserves ==
  ASSUME TableInv, NEW c \in Clients, add_client_full(c)
  PROVE  TableInv'
<1>1. TableExact'
  BY FullKeepsExact DEF TableInv, TableExact
<1>2. RegisteredAreListed'
  BY DEF TableInv, add_client_full, table, RegisteredAreListed, get_all, TypeOK
<1> QED BY <1>1, <1>2 DEF TableInv, TableExact

\* remove_client takes at most one entry out, whoever asks and with whatever id,
\* and the name of the slot that this leaves empty.
LEMMA RemoveKeepsExact ==
  ASSUME TableExact, NEW c \in Clients, NEW n, remove_client(c, n)
  PROVE  TableExact'
<1> USE DEF TableExact, TypeOK
<1> DEFINE found == Found(type[c], topic[c], n)
<1>1. /\ entries' = entries \ found
      /\ counter' = [counter EXCEPT ![type[c]] = @ - Cardinality(found)]
      /\ name' = [i \in Slots |->
           IF (\E e \in found : e.slot = i) /\ ~\E e \in entries' : e.slot = i
           THEN NoName ELSE name[i]]
      /\ status' = [status EXCEPT ![c] = "unregistered"]
      /\ UNCHANGED <<id_counter, type, topic, id>>
  BY DEF remove_client
<1>2. /\ found \subseteq entries
      /\ \A e, f \in found : e = f
      /\ \A e \in found : e.ct = type[c]
  BY DEF Found, ClientsIn, IdsUnique
<1> HIDE DEF found
<1>3. TypeOK' /\ IsFiniteSet(entries)'
  <2>1. IsFiniteSet(found) /\ Cardinality(found) \in Nat
    BY <1>2, FS_Subset, FS_CardinalityType
  <2>2. IsFiniteSet(entries \ found)
    BY FS_Subset
  <2> QED BY <1>1, <2>1, <2>2
<1>4. \A e \in entries' : e \in entries /\ name'[e.slot] = name[e.slot]
  BY <1>1 DEF Entries
<1>5. CountersCount'
  <2> SUFFICES ASSUME NEW ct \in client_type
               PROVE  counter'[ct] = Cardinality(EntriesOf(ct)') /\ counter'[ct] <= CLIENTS_MAX(ct)
    BY DEF CountersCount
  <2>1. /\ counter[ct] = Cardinality(EntriesOf(ct)) /\ counter[ct] <= CLIENTS_MAX(ct)
        /\ CLIENTS_MAX(ct) \in Nat /\ counter[ct] \in Nat /\ IsFiniteSet(EntriesOf(ct))
    BY EntriesOfFinite, LimitsAssumption DEF CountersCount, CLIENTS_MAX
  <2>2. CASE ct # type[c] \/ found = {}
    <3>1. EntriesOf(ct)' = EntriesOf(ct)
      BY <1>1, <1>2, <2>2 DEF EntriesOf
    <3>2. Cardinality({}) = 0
      BY FS_EmptySet
    <3>3. counter'[ct] = counter[ct]
      <4>1. CASE ct # type[c]
        BY <1>1, <4>1
      <4>2. CASE found = {}
        BY <1>1, <2>1, <3>2, <4>2
      <4> QED BY <2>2, <4>1, <4>2
    <3> QED BY <2>1, <3>1, <3>3
  <2>3. CASE ct = type[c] /\ found # {}
    <3>0. PICK e0 \in found : \A e \in found : e = e0
      BY <1>2, <2>3
    <3>1. found = {e0}
      BY <3>0
    <3>2. EntriesOf(ct)' = EntriesOf(ct) \ {e0} /\ e0 \in EntriesOf(ct)
      BY <1>1, <1>2, <2>3, <3>1 DEF EntriesOf
    <3>3. Cardinality(EntriesOf(ct)') = Cardinality(EntriesOf(ct)) - 1 /\ Cardinality(found) = 1
      BY <2>1, <3>1, <3>2, FS_RemoveElement, FS_Singleton
    <3> QED BY <1>1, <2>1, <2>3, <3>3
  <2> QED BY <2>2, <2>3
<1>6. IdsUnique' /\ Homes'
  BY <1>1, <1>4 DEF IdsUnique, Homes, Entries
<1>7. NamedIffUsed'
  <2> SUFFICES ASSUME NEW j \in Slots
               PROVE  name'[j] # NoName <=> \E e \in entries' : e.slot = j
    BY DEF NamedIffUsed
  <2>1. CASE \E e \in entries' : e.slot = j
    BY <1>1, <2>1 DEF NamedIffUsed
  <2>2. CASE ~\E e \in entries' : e.slot = j
    BY <1>1, <2>2 DEF NamedIffUsed
  <2> QED BY <2>1, <2>2
<1> QED BY <1>3, <1>5, <1>6, <1>7

\* A client that unregisters takes nobody else out.
LEMMA RemovePreserves ==
  ASSUME TableInv, NEW c \in Clients, unregister(c)
  PROVE  TableInv'
<1> DEFINE found == Found(type[c], topic[c], id[c])
<1>1. /\ status[c] = "registered"
      /\ entries' = entries \ found
      /\ name' = [i \in Slots |->
           IF (\E e \in found : e.slot = i) /\ ~\E e \in entries' : e.slot = i
           THEN NoName ELSE name[i]]
      /\ status' = [status EXCEPT ![c] = "unregistered"]
      /\ UNCHANGED <<type, topic, id>>
  BY DEF unregister, remove_client
<1>2. found \subseteq {e \in entries : e.socket = c}
  BY <1>1, FoundIsOwn
<1>3. TableExact'
  BY RemoveKeepsExact DEF TableInv, TableExact, unregister
<1> HIDE DEF found
<1>4. RegisteredAreListed'
  <2> SUFFICES ASSUME NEW d \in Clients, status'[d] = "registered"
               PROVE  (d \in get_all(type[d]))' /\ \E e \in entries' :
                        e.socket = d /\ e.ct = type'[d] /\ e.id = id'[d] /\ name'[e.slot] = topic'[d]
    BY DEF RegisteredAreListed
  <2>1. d # c /\ status[d] = "registered"
    BY <1>1 DEF TableInv, TypeOK
  <2>2. PICK e \in entries : e.socket = d /\ e.ct = type[d] /\ e.id = id[d] /\ name[e.slot] = topic[d]
    BY <2>1 DEF TableInv, RegisteredAreListed
  <2>3. e \in entries' /\ name'[e.slot] = name[e.slot] /\ topic[d] # NoName
    BY <1>1, <1>2, <2>1, <2>2, TopicsAssumption DEF TableInv, TypeOK, Entries
  <2> QED BY <1>1, <2>2, <2>3 DEF get_all
<1> QED BY <1>3, <1>4 DEF TableInv, TableExact

\* Every step of the table and of its clients keeps TableInv.
LEMMA NextPreserves == TableInv /\ [Next]_vars => TableInv'
<1> SUFFICES ASSUME TableInv, [Next]_vars PROVE TableInv'
  OBVIOUS
<1>1. CASE Next
  BY <1>1, AddPreserves, FullPreserves, RemovePreserves DEF Next
<1>2. CASE UNCHANGED vars
  BY <1>2 DEF vars, TableInv, TypeOK, CountersCount, EntriesOf, RegisteredAreListed, get_all,
    IdsUnique, NamedIffUsed, Homes
<1> QED BY <1>1, <1>2

-----------------------------------------------------------------------------
\* The invariant the others follow from.
THEOREM TableInvariance == Spec => []TableInv
<1> QED BY InitTableInv, NextPreserves, PTL DEF Spec

\* The table keeps its types whoever registers and unregisters.
THEOREM TypeCorrect == Spec => []TypeOK
<1>1. TableInv => TypeOK
  BY DEF TableInv
<1> QED BY <1>1, TableInvariance, PTL

\* add_client never runs past an array: the global counters are exact.
THEOREM CountersExact == Spec => []CountersCount
<1>1. TableInv => CountersCount
  BY DEF TableInv
<1> QED BY <1>1, TableInvariance, PTL

\* The broker's threads never lose sight of a registered client.
THEOREM NobodyIsDropped == Spec => []RegisteredAreListed
<1>1. TableInv => RegisteredAreListed
  BY DEF TableInv
<1> QED BY <1>1, TableInvariance, PTL

\* An id names one client of the table.
THEOREM IdsAreUnique == Spec => []IdsUnique
<1>1. TableInv => IdsUnique
  BY DEF TableInv
<1> QED BY <1>1, TableInvariance, PTL

\* A topic's name is set with its first client and cleared with its last.
THEOREM NamesAreFreed == Spec => []NamedIffUsed
<1>1. TableInv => NamedIffUsed
  BY DEF TableInv
<1> QED BY <1>1, TableInvariance, PTL

\* A step that unregisters a client takes exactly its entry out of the table.
LEMMA UnregisterStep ==
  ASSUME TableInv, [Next]_vars, NEW c \in Clients,
         status[c] = "registered", status'[c] = "unregistered"
  PROVE  entries \ entries' = {e \in entries : e.socket = c} \/ Cardinality(SlotsOf(topic[c])) > 1
<1>1. status \in [Clients -> {"new", "registered", "refused", "unregistered"}]
  BY DEF TableInv, TypeOK
<1>2. remove_client(c, id[c])
  BY <1>1 DEF Next, vars, add_client, add_client_full, unregister, remove_client
<1>3. Cardinality(SlotsOf(topic[c])) \in Nat
  BY SlotsOfFinite
<1>4. CASE Cardinality(SlotsOf(topic[c])) <= 1
  <2>1. Found(type[c], topic[c], id[c]) = {e \in entries : e.socket = c}
    BY <1>4, FoundIsOwn
  <2>2. entries' = entries \ Found(type[c], topic[c], id[c])
    BY <1>2 DEF remove_client
  <2> QED BY <2>1, <2>2
<1> QED BY <1>3, <1>4

\* unregister_publisher and unregister_subscriber remove their client, and only
\* it, as long as its topic is in one slot.
THEOREM UnregisterIsExact == Spec => UnregisterRemoves
<1>1. TableInv /\ [Next]_vars =>
        [\A c \in Clients :
           status[c] = "registered" /\ status'[c] = "unregistered" =>
             \/ entries \ entries' = {e \in entries : e.socket = c}
             \/ Cardinality(SlotsOf(topic[c])) > 1]_vars
  BY UnregisterStep
<1> QED BY <1>1, TableInvariance, PTL DEF Spec, UnregisterRemoves
=============================================================================
