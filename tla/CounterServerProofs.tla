------------------------ MODULE CounterServerProofs ------------------------
(***************************************************************************)
(* The server with its clients, proved on top of the counter's invariant   *)
(* for every number of threads and clients: no connection is lost or       *)
(* served twice, and what the clients are told is distinct and in order,   *)
(* across crashes and restarts.                                            *)
(***************************************************************************)
EXTENDS CounterServerHistory, CounterTheorems

\* A connection is in one place: where it is queued or whom it is given to.
ConnectionInv ==
  /\ \A i, j \in DOMAIN accept_queue : accept_queue[i] = accept_queue[j] => i = j
  /\ \A t, u \in Threads : connfd[t] = connfd[u] /\ connfd[t] # NoClient => t = u
  /\ \A t \in Threads : ~Queued(connfd[t])
  /\ \A c \in Clients :
       /\ client[c] \in {"start", "answered"} => ~Queued(c) /\ ServedBy(c) = {}
       /\ client[c] \in {"connected", "requested"} => Queued(c) \/ ServedBy(c) # {}

ReaderReturnedPC == ReturnedPC \ WriterReturnedPC
ReaderSide == PendingReader \cup ReaderReturnedPC
WriterSide == PendingWriter \cup {"return_counter"} \cup WriterReturnedPC

\* A thread inside safe_access_counter has a client, that asked for what it does.
RequestInv ==
  \A t \in Threads : pc[t] # "idle" =>
    /\ connfd[t] # NoClient /\ client[connfd[t]] \in {"requested", "gone"}
    /\ pc[t] \in IF request[connfd[t]] = COUNTER_READ THEN ReaderSide ELSE WriterSide

Told == {d \in Answered : request[d] = COUNTER_INCREMENT}

\* An increment that somebody was told of is in the file, and no thread that is
\* still on its way to answer has the same number.
AnswerInv ==
  /\ At({"return_counter"} \cup WriterReturnedPC) # {} => file # <<>>
  /\ \A d \in Told :
       /\ file # <<>> /\ response[d] <= LastLine
       /\ \A t \in At({"return_counter"}) : response[d] < counter
       /\ \A t \in At(WriterReturnedPC) : response[d] # counter_value[t]
  /\ IncrementAnswersDistinct

ServerInv == IInv /\ ServerTypeOK /\ ConnectionInv /\ RequestInv /\ AnswerInv

\* The clients that may still be told something.
Expecting == {c \in Clients : client[c] \in {"connected", "requested"}}

\* n is below what thread u has for its client.
Below(u, n) ==
  /\ u \in At({"return_counter"}) => n < counter
  /\ u \in At(WriterReturnedPC) => n < counter_value[u]
  /\ u \in At(ReaderReturnedPC) => n <= counter_value[u]

\* What was known to a client when it connected is below what its thread has for
\* it, and no more than the counter is.  The counter is that of AtomicCounter: it
\* only gets smaller when a server ends that has no line in its file, and then
\* all that it told is forgotten, and whoever was connected to it is gone.
HistoryInv ==
  /\ known \in [Clients -> SUBSET Int]
  /\ main # "running" /\ file = <<>> => Answered \subseteq forgotten /\ \A c \in Expecting : known[c] = {}
  /\ \A d \in Answered \ forgotten : response[d] <= AbstractValue
  /\ \A c \in Expecting : \A n \in known[c] : n <= AbstractValue
  /\ \A t \in Threads : connfd[t] \in Expecting => \A n \in known[connfd[t]] : Below(t, n)
  /\ AnswersNeverGoBack

-----------------------------------------------------------------------------
(***************************************************************************)
(* The server only uses the counter through safe_access_counter.           *)
(***************************************************************************)
\* A step of the server or of a client is a step of the counter, or leaves it alone.
LEMMA CounterStep ==
  ASSUME ServerTypeOK, ServerNext
  PROVE  [Next]_vars
<1> USE DEF Next, vars, ServerTypeOK
<1>1. CASE setup_server
  BY <1>1 DEF setup_server
<1>2. CASE server_main
  BY <1>2 DEF server_main
<1>3. CASE ServerEnds
  BY <1>3 DEF ServerEnds
<1>4. CASE \E t \in Threads : server_thread(t)
  <2> PICK t \in Threads : server_thread(t)
    BY <1>4
  <2>1. CASE recv_request(t)
    BY <2>1 DEF recv_request
  <2>2. CASE ~recv_request(t)
    BY <2>2 DEF server_thread, accept_new_client, recv_request_closed, ServerEnds, access_counter,
                send_response
  <2> QED BY <2>1, <2>2
<1>5. CASE \E c \in Clients : client_thread(c) \/ ClientEnds(c)
  BY <1>5 DEF client_thread, setup_client, send_request, ClientEnds
<1> QED BY <1>1, <1>2, <1>3, <1>4, <1>5 DEF ServerNext

\* What the actions of CounterServer do to the connections.
LEMMA ServerTypeStep ==
  ASSUME IInv', ServerTypeOK, ServerNext
  PROVE  ServerTypeOK'
<1> USE DEF ServerTypeOK, ClientStates, sockets, clients
<1>1. TypeOK'
  BY DEF IInv
<1>2. CASE setup_server
  BY <1>1, <1>2 DEF setup_server
<1>3. CASE server_main
  BY <1>1, <1>3 DEF server_main
<1>4. CASE ServerEnds
  <2>1. /\ listening' \in BOOLEAN /\ accept_queue' = <<>>
        /\ connfd' = [t \in Threads |-> NoClient]
        /\ request' = request /\ response' = response
    BY <1>4 DEF ServerEnds
  <2>2. client' \in [Clients -> ClientStates]
    BY <1>4 DEF ServerEnds
  <2>3. accept_queue' \in Seq(Clients) /\ Len(accept_queue') <= Backlog + 1
    BY <2>1, ClientsAssumption
  <2>4. connfd' \in [Threads -> Clients \cup {NoClient}]
    BY <2>1
  <2> QED BY <1>1, <2>1, <2>2, <2>3, <2>4
<1>5. ASSUME NEW t \in Threads, server_thread(t)
      PROVE  ServerTypeOK'
  <2>1. CASE accept_new_client(t)
    <3>1. accept_queue # <<>>
      BY <2>1 DEF accept_new_client
    <3>2. /\ Head(accept_queue) \in Clients
          /\ Tail(accept_queue) \in Seq(Clients)
          /\ Len(Tail(accept_queue)) <= Backlog + 1
      BY <3>1, ClientsAssumption
    <3> QED BY <1>1, <2>1, <3>2 DEF accept_new_client
  <2>2. CASE recv_request(t) \/ access_counter(t)
    BY <1>1, <2>2 DEF recv_request, access_counter
  <2>3. CASE send_response(t)
    <3>1. counter_value[t] \in Int
      BY DEF TypeOK
    <3> QED BY <1>1, <2>3, <3>1 DEF send_response
  <2> QED BY <1>4, <1>5, <2>1, <2>2, <2>3 DEF server_thread, recv_request_closed
<1>6. ASSUME NEW c \in Clients, client_thread(c) \/ ClientEnds(c)
      PROVE  ServerTypeOK'
  <2>1. CASE setup_client(c)
    BY <1>1, <2>1, ClientsAssumption DEF setup_client
  <2>2. CASE send_request(c) \/ ClientEnds(c)
    BY <1>1, <2>2 DEF send_request, ClientEnds
  <2> QED BY <1>6, <2>1, <2>2 DEF client_thread
<1> QED BY <1>2, <1>3, <1>4, <1>5, <1>6 DEF ServerNext

-----------------------------------------------------------------------------
(***************************************************************************)
(* What a step of safe_access_counter means to somebody who only looks at  *)
(* the value, the file and the results.                                    *)
(***************************************************************************)
Stages == {PendingReader, ReaderReturnedPC, PendingWriter, WriterReturnedPC}

\* The step stays on one side of the critical section.
Passes(t) ==
  /\ Goto(t, pc[t], pc'[t]) /\ \E L \in Stages : {pc[t], pc'[t]} \subseteq L
  /\ file' = file /\ counter' >= counter /\ Committed' = Committed
  /\ \A u \in At(ReturnedPC) : counter_value'[u] = counter_value[u]

\* A reader copies the counter.
Reads(t) ==
  /\ Goto(t, "read_counter", "count_reader_out")
  /\ counter_value' = [counter_value EXCEPT ![t] = counter]
  /\ UNCHANGED <<counter, file>> /\ Committed = counter /\ Committed' = counter

\* A writer's line is in the file.
Writes(t) ==
  /\ Goto(t, "write_to_file", "return_counter")
  /\ file' = Append(file, counter)
  /\ UNCHANGED <<counter, counter_value>> /\ Committed = counter - 1 /\ Committed' = counter

\* A writer copies the counter.
Copies(t) ==
  /\ Goto(t, "return_counter", "writer_unlock_writing")
  /\ counter_value' = [counter_value EXCEPT ![t] = counter]
  /\ UNCHANGED <<counter, file>> /\ Committed = counter /\ Committed' = counter

\* A lock, an unlock, the load and the store are passed through: none of them
\* changes the counter that is on disk.
LEMMA PassesInv ==
  ASSUME IInv, NEW t \in Threads, Goto(t, pc[t], pc'[t]),
         \E L \in Stages : {pc[t], pc'[t]} \subseteq L, "write_to_file" \notin {pc[t], pc'[t]},
         UNCHANGED <<counter, file, counter_value>>
  PROVE  Passes(t)
<1>1. At({"write_to_file"})' = At({"write_to_file"})
  BY DEF Goto, At, IInv, TypeOK
<1>2. Committed' = Committed
  BY <1>1 DEF Committed
<1> QED BY <1>2 DEF Passes, IInv, TypeOK

\* Every step of safe_access_counter is one of the four.
LEMMA AccessEffect ==
  ASSUME IInv, NEW t \in Threads, Access(t)
  PROVE  /\ main' = "running" /\ main = "running" /\ file_exists' = file_exists
         /\ Passes(t) \/ Reads(t) \/ Writes(t) \/ Copies(t)
<1> USE DEF IInv, TypeOK
<1>0. PendingReader \cup ReaderReturnedPC \cup PendingWriter \cup WriterReturnedPC \subseteq PC
  BY DEF PendingReader, ReaderReturnedPC, PendingWriter, WriterReturnedPC, ReturnedPC, PC, ReaderPC, WriterPC
<1>1. CASE access_counter_read(t)
  <2>1. Goto(t, "read_counter", "count_reader_out")
    BY <1>1 DEF access_counter_read
  <2>2. At({"write_to_file"}) = {}
    BY <2>1, ExclusionInv DEF MutualExclusion, WriterInCS, ReaderInCS, At, Goto
  <2>3. At({"write_to_file"})' = {}
    BY <2>1, <2>2 DEF At, Goto
  <2>4. UNCHANGED <<counter, file>>
    BY <1>1 DEF access_counter_read, disk
  <2>5. Reads(t)
    BY <1>1, <2>1, <2>2, <2>3, <2>4 DEF access_counter_read, Reads, Committed
  <2> QED BY <1>1, <2>5 DEF access_counter_read, Goto, process, disk
<1>2. CASE write_to_file(t)
  <2>1. Goto(t, "write_to_file", "return_counter")
    BY <1>2 DEF write_to_file
  <2>2. At({"write_to_file"}) = {t}
    BY <2>1, ExclusionInv DEF MutualExclusion, WriterInCS, At, Goto
  <2>3. At({"write_to_file"})' = {}
    BY <2>1, <2>2 DEF At, Goto
  <2>4. Writes(t)
    BY <1>2, <2>1, <2>2, <2>3 DEF write_to_file, Writes, Committed
  <2> QED BY <1>2, <2>4 DEF write_to_file, Goto, process
<1>3. CASE copy_counter(t)
  <2>1. Goto(t, "return_counter", "writer_unlock_writing")
    BY <1>3 DEF copy_counter
  <2>2. At({"write_to_file"}) = {}
    <3>1. WriterInCS(t) /\ pc[t] # "write_to_file"
      BY <2>1 DEF WriterInCS, Goto
    <3>2. \A u \in Threads : u # t => ~WriterInCS(u)
      BY <3>1, ExclusionInv DEF MutualExclusion
    <3> QED BY <3>1, <3>2 DEF WriterInCS, At
  <2>3. At({"write_to_file"})' = {}
    BY <2>1, <2>2 DEF At, Goto
  <2>4. UNCHANGED <<counter, file>>
    BY <1>3 DEF copy_counter, disk
  <2>5. Copies(t)
    BY <1>3, <2>1, <2>2, <2>3, <2>4 DEF copy_counter, Copies, Committed
  <2> QED BY <1>3, <2>5 DEF copy_counter, Goto, process, disk
<1>4. CASE store_counter(t)
  <2>1. Goto(t, "store_counter", "write_to_file") /\ counter' = counter + 1
        /\ UNCHANGED <<file, counter_value>>
    BY <1>4 DEF store_counter, disk, DataInv, At, Goto
  <2>2. At({"write_to_file"}) = {}
    <3>1. WriterInCS(t) /\ pc[t] # "write_to_file"
      BY <2>1 DEF WriterInCS, Goto
    <3>2. \A u \in Threads : u # t => ~WriterInCS(u)
      BY <3>1, ExclusionInv DEF MutualExclusion
    <3> QED BY <3>1, <3>2 DEF WriterInCS, At
  <2>3. At({"write_to_file"})' # {}
    BY <2>1 DEF At, Goto
  <2>4. Committed' = Committed
    BY <2>1, <2>2, <2>3 DEF Committed
  <2>5. pc[t] = "store_counter" /\ pc'[t] = "write_to_file" /\ {pc[t], pc'[t]} \subseteq PendingWriter
    BY <2>1 DEF Goto, PendingWriter
  <2>6. Passes(t)
    BY <2>1, <2>4, <2>5 DEF Passes, Stages
  <2> QED BY <1>4, <2>6 DEF store_counter, Goto, process, disk
<1>5. CASE load_counter(t)
  <2>1. Goto(t, "load_counter", "store_counter") /\ UNCHANGED <<counter, file>>
        /\ counter_value' = [counter_value EXCEPT ![t] = counter]
    BY <1>5 DEF load_counter, disk
  <2>2. At({"write_to_file"})' = At({"write_to_file"})
    BY <2>1 DEF At, Goto
  <2>3. Committed' = Committed
    BY <2>1, <2>2 DEF Committed
  <2>4. pc[t] = "load_counter" /\ pc'[t] = "store_counter" /\ {pc[t], pc'[t]} \subseteq PendingWriter
    BY <2>1 DEF Goto, PendingWriter
  <2>5. \A u \in At(ReturnedPC) : counter_value'[u] = counter_value[u]
    BY <2>1 DEF At, ReturnedPC, WriterReturnedPC, Goto
  <2>6. Passes(t)
    BY <2>1, <2>3, <2>4, <2>5 DEF Passes, Stages
  <2> QED BY <1>5, <2>6 DEF load_counter, Goto, process, disk
<1>6. CASE ~access_counter_read(t) /\ ~access_counter_increment(t)
  <2> USE DEF Lock, Unlock, process, disk, Goto
  <2> DEFINE Within(L) == {pc[t], pc'[t]} \subseteq L \ {"write_to_file"}
  <2>1. /\ UNCHANGED <<main, file_exists, file, counter, counter_value>>
        /\ Goto(t, pc[t], pc'[t])
    BY <1>6 DEF Access, read_wp, read_rp, write_wp, write_rp, CountIn, CountOut, ReadersIncrement,
                ReadersDecrement, WritersIncrement, WritersDecrement
  <2>2. CountIn(t) => Within(PendingReader)
    BY DEF CountIn, ReadersIncrement, PendingReader
  <2>3. CountOut(t) => Within(ReaderReturnedPC)
    BY DEF CountOut, ReadersDecrement, ReaderReturnedPC, ReturnedPC, WriterReturnedPC
  <2>4. read_wp(t) \/ read_rp(t) => CountIn(t) \/ CountOut(t) \/ Within(PendingReader)
    BY <1>6 DEF read_wp, read_rp, PendingReader
  <2>5. write_wp(t) => Within(PendingWriter) \/ Within(WriterReturnedPC)
    BY <1>6 DEF write_wp, WritersIncrement, WritersDecrement, PendingWriter, WriterReturnedPC
  <2>6. write_rp(t) => Within(PendingWriter) \/ Within(WriterReturnedPC)
    BY <1>6 DEF write_rp, PendingWriter, WriterReturnedPC
  <2>7. \/ Within(PendingReader) \/ Within(ReaderReturnedPC)
        \/ Within(PendingWriter) \/ Within(WriterReturnedPC)
    <3> HIDE DEF Within
    <3> QED BY <2>2, <2>3, <2>4, <2>5, <2>6 DEF Access
  <2>8. /\ \E L \in Stages : {pc[t], pc'[t]} \subseteq L
        /\ "write_to_file" \notin {pc[t], pc'[t]}
    BY <2>7 DEF Stages
  <2>9. Passes(t)
    BY <2>1, <2>8, PassesInv
  <2> QED BY <2>1, <2>9
<1> QED BY <1>1, <1>2, <1>3, <1>4, <1>5, <1>6 DEF access_counter_increment

\* A step of safe_access_counter goes on with what the client asked for.
LEMMA StepKeepsSide ==
  ASSUME IInv, NEW t \in Threads, Access(t)
  PROVE  /\ Goto(t, pc[t], pc'[t]) /\ pc[t] # "idle"
         /\ pc[t] \in ReaderSide <=> pc'[t] \in ReaderSide
         /\ pc[t] \in WriterSide <=> pc'[t] \in WriterSide
<1>0. /\ \A label \in ReaderSide : label \notin WriterSide
      /\ "idle" \notin ReaderSide \cup WriterSide
      /\ PendingReader \cup ReaderReturnedPC = ReaderSide
      /\ PendingWriter \cup WriterReturnedPC \subseteq WriterSide
      /\ "read_counter" \in ReaderSide /\ "count_reader_out" \in ReaderSide
      /\ {"write_to_file", "return_counter", "writer_unlock_writing"} \subseteq WriterSide
  BY DEF ReaderSide, WriterSide, PendingReader, ReaderReturnedPC, PendingWriter, ReturnedPC,
         WriterReturnedPC
<1>1. CASE Passes(t)
  BY <1>0, <1>1 DEF Passes, Stages
<1>2. CASE Reads(t) \/ Writes(t) \/ Copies(t)
  BY <1>0, <1>2 DEF Reads, Writes, Copies, Goto, IInv, TypeOK
<1> QED BY <1>1, <1>2, AccessEffect

\* Who has a result, before and after each of the four.
LEMMA ResultsMove ==
  ASSUME IInv, NEW t \in Threads
  PROVE  /\ Passes(t) \/ Reads(t) \/ Writes(t) =>
              At(WriterReturnedPC)' = At(WriterReturnedPC)
         /\ Passes(t) \/ Writes(t) \/ Copies(t) =>
              At(ReaderReturnedPC)' = At(ReaderReturnedPC)
         /\ Passes(t) \/ Reads(t) => At({"return_counter"})' = At({"return_counter"})
         /\ Writes(t) => At({"return_counter"})' = At({"return_counter"}) \cup {t}
         /\ Reads(t) => At(ReaderReturnedPC)' = At(ReaderReturnedPC) \cup {t}
         /\ Copies(t) => /\ At(WriterReturnedPC)' = At(WriterReturnedPC) \cup {t}
                         /\ At({"return_counter"})' = At({"return_counter"}) \ {t}
<1>1. /\ \A L, M \in Stages : \A label \in L : label \in M => L = M
      /\ \A L \in Stages : "return_counter" \notin L
  BY DEF Stages, PendingReader, ReaderReturnedPC, PendingWriter, ReturnedPC, WriterReturnedPC
<1>2. /\ "read_counter" \notin ReturnedPC /\ "write_to_file" \notin ReturnedPC
      /\ "return_counter" \notin ReturnedPC /\ "count_reader_out" \in ReaderReturnedPC
      /\ "writer_unlock_writing" \in WriterReturnedPC /\ WriterReturnedPC \subseteq ReturnedPC
  BY DEF ReaderReturnedPC, ReturnedPC, WriterReturnedPC
<1>3. WriterReturnedPC \in Stages /\ ReaderReturnedPC \in Stages
  BY DEF Stages
<1>4. pc \in [Threads -> PC]
  BY DEF IInv, TypeOK
<1>5. ASSUME Passes(t)
      PROVE  /\ At(WriterReturnedPC)' = At(WriterReturnedPC)
             /\ At(ReaderReturnedPC)' = At(ReaderReturnedPC)
             /\ At({"return_counter"})' = At({"return_counter"})
  <2>1. PICK L \in Stages : {pc[t], pc'[t]} \subseteq L
    BY <1>5 DEF Passes
  <2>2. \A u \in Threads : u # t => pc'[u] = pc[u]
    BY <1>4, <1>5 DEF Passes, Goto
  <2>3. pc[t] # "return_counter" /\ pc'[t] # "return_counter"
    BY <1>1, <2>1
  <2>4. \A M \in Stages : pc[t] \in M <=> pc'[t] \in M
    BY <1>1, <2>1
  <2>5. At({"return_counter"})' = At({"return_counter"})
    BY <2>2, <2>3 DEF At
  <2>6. /\ At(WriterReturnedPC)' = At(WriterReturnedPC)
        /\ At(ReaderReturnedPC)' = At(ReaderReturnedPC)
    BY <1>3, <2>2, <2>4 DEF At
  <2> QED BY <2>5, <2>6
<1>6. Reads(t) =>
        /\ At(WriterReturnedPC)' = At(WriterReturnedPC)
        /\ At({"return_counter"})' = At({"return_counter"})
        /\ At(ReaderReturnedPC)' = At(ReaderReturnedPC) \cup {t}
  BY <1>2, <1>4 DEF Reads, Goto, At, ReaderReturnedPC
<1>7. Writes(t) =>
        /\ At(WriterReturnedPC)' = At(WriterReturnedPC)
        /\ At(ReaderReturnedPC)' = At(ReaderReturnedPC)
        /\ At({"return_counter"})' = At({"return_counter"}) \cup {t}
  BY <1>2, <1>4 DEF Writes, Goto, At, ReaderReturnedPC
<1>8. Copies(t) =>
        /\ At(ReaderReturnedPC)' = At(ReaderReturnedPC)
        /\ At(WriterReturnedPC)' = At(WriterReturnedPC) \cup {t}
        /\ At({"return_counter"})' = At({"return_counter"}) \ {t}
  BY <1>2, <1>4 DEF Copies, Goto, At, ReaderReturnedPC
<1> QED BY <1>5, <1>6, <1>7, <1>8

-----------------------------------------------------------------------------
(***************************************************************************)
(* Connections.                                                            *)
(***************************************************************************)
\* A connection goes from the client's connect to the queue, from the queue to
\* one thread, and from there to its close.
LEMMA ConnectionStep ==
  ASSUME IInv, ServerTypeOK, ConnectionInv, RequestInv, ServerNext
  PROVE  ConnectionInv'
<1> USE DEF ServerTypeOK, ClientStates, sockets, clients, ConnectionInv, Queued, ServedBy
<1>1. CASE setup_server
  BY <1>1 DEF setup_server
<1>2. CASE server_main
  BY <1>2 DEF server_main
<1>3. CASE ServerEnds
  <2>1. /\ accept_queue' = <<>> /\ \A t \in Threads : connfd'[t] = NoClient
        /\ \A c \in Clients : client'[c] \notin {"connected", "requested"}
    BY <1>3 DEF ServerEnds
  <2>2. \A c : ~(Queued(c))'
    BY <2>1
  <2>3. \A c \in Clients : (ServedBy(c))' = {}
    BY <2>1, ClientsAssumption
  <2>4. \A i, j \in DOMAIN accept_queue' : accept_queue'[i] = accept_queue'[j] => i = j
    BY <2>1
  <2>5. \A t \in Threads : ~(Queued(connfd[t]))'
    BY <2>1
  <2> HIDE DEF Queued, ServedBy
  <2> QED BY <2>1, <2>2, <2>3, <2>4, <2>5
<1>4. ASSUME NEW t \in Threads, accept_new_client(t)
      PROVE  ConnectionInv'
  <2> DEFINE c == Head(accept_queue)
  <2>1. /\ accept_queue # <<>> /\ c = accept_queue[1] /\ c \in Clients
        /\ connfd' = [connfd EXCEPT ![t] = c] /\ connfd[t] = NoClient
        /\ UNCHANGED client
    BY <1>4 DEF accept_new_client
  <2>2. /\ DOMAIN accept_queue = 1..Len(accept_queue) /\ Len(accept_queue) \in Nat \ {0}
        /\ DOMAIN accept_queue' = 1..(Len(accept_queue) - 1)
        /\ \A i \in DOMAIN accept_queue' : accept_queue'[i] = accept_queue[i + 1]
    BY <1>4 DEF accept_new_client
  <2>3. \A d : (Queued(d))' <=> Queued(d) /\ d # c
    <3>1. ASSUME NEW d, (Queued(d))' PROVE Queued(d) /\ d # c
      <4> PICK i \in DOMAIN accept_queue' : accept_queue'[i] = d
        BY <3>1
      <4>1. i + 1 \in DOMAIN accept_queue /\ 1 \in DOMAIN accept_queue /\ accept_queue[i + 1] = d
        BY <2>2
      <4>2. i + 1 # 1
        BY <2>2
      <4>3. d # c
        BY <2>1, <4>1, <4>2
      <4> QED BY <4>1, <4>3
    <3>2. ASSUME NEW d, Queued(d), d # c PROVE (Queued(d))'
      <4> PICK i \in DOMAIN accept_queue : accept_queue[i] = d
        BY <3>2
      <4>1. i # 1
        BY <2>1, <3>2
      <4>2. i - 1 \in DOMAIN accept_queue' /\ (i - 1) + 1 = i
        BY <2>2, <4>1
      <4>3. accept_queue'[i - 1] = accept_queue[i]
        BY <2>2, <4>2
      <4> QED BY <4>2, <4>3
    <3> QED BY <3>1, <3>2
  <2>4. \A d \in Clients : (ServedBy(d))' = IF d = c THEN {t} ELSE ServedBy(d)
    <3>1. ServedBy(c) = {}
      BY <2>1, <2>2 DEF Queued
    <3> QED BY <2>1, <3>1, ClientsAssumption
  <2>5. \A i, j \in DOMAIN accept_queue' : accept_queue'[i] = accept_queue'[j] => i = j
    <3> SUFFICES ASSUME NEW i \in DOMAIN accept_queue', NEW j \in DOMAIN accept_queue',
                        accept_queue'[i] = accept_queue'[j]
                 PROVE  i = j
      OBVIOUS
    <3>1. i + 1 \in DOMAIN accept_queue /\ j + 1 \in DOMAIN accept_queue
      BY <2>2
    <3> QED BY <2>2, <3>1
  <2>6. \A u, v \in Threads : connfd'[u] = connfd'[v] /\ connfd'[u] # NoClient => u = v
    <3>1. Queued(c)
      BY <2>1, <2>2
    <3>2. \A u \in Threads : connfd[u] # c
      BY <3>1
    <3> QED BY <2>1, <3>2
  <2>7. \A u \in Threads : ~(Queued(connfd[u]))'
    <3> SUFFICES ASSUME NEW u \in Threads PROVE ~(Queued(connfd[u]))'
      OBVIOUS
    <3>1. CASE u = t
      BY <2>1, <2>3, <3>1
    <3>2. CASE u # t
      BY <2>1, <2>3, <3>2
    <3> QED BY <3>1, <3>2
  <2>8. client[c] \notin {"start", "answered"}
    BY <2>1, <2>2
  <2> QED BY <2>1, <2>3, <2>4, <2>5, <2>6, <2>7, <2>8
<1>5. ASSUME NEW t \in Threads, recv_request(t) \/ access_counter(t)
      PROVE  ConnectionInv'
  BY <1>5 DEF recv_request, access_counter
<1>6. ASSUME NEW t \in Threads, send_response(t)
      PROVE  ConnectionInv'
  <2> DEFINE c == connfd[t]
  <2>1. c \in Clients /\ client[c] \in {"requested", "gone"}
    BY <1>6 DEF RequestInv, send_response, return_counter
  <2>2. /\ connfd' = [connfd EXCEPT ![t] = NoClient] /\ UNCHANGED accept_queue
        /\ client' = [client EXCEPT ![c] = IF @ = "requested" THEN "answered" ELSE @]
    BY <1>6 DEF send_response
  <2>3. \A d \in Clients : (Queued(d))' <=> Queued(d)
    BY <2>2
  <2>4. \A d \in Clients : (ServedBy(d))' = IF d = c THEN {} ELSE ServedBy(d)
    BY <2>1, <2>2, ClientsAssumption
  <2>5. ~Queued(c)
    OBVIOUS
  <2>6. \A u \in Threads : ~(Queued(connfd[u]))'
    BY <2>2, ClientsAssumption
  <2>7. \A u, v \in Threads : connfd'[u] = connfd'[v] /\ connfd'[u] # NoClient => u = v
    BY <2>2
  <2>8. \A d \in Clients : d # c => client'[d] = client[d]
    BY <2>2
  <2>9. client'[c] \in {"answered", "gone"}
    BY <2>1, <2>2
  <2> HIDE DEF Queued, ServedBy
  <2> QED BY <2>1, <2>2, <2>3, <2>4, <2>5, <2>6, <2>7, <2>8, <2>9
<1>7. ASSUME NEW c \in Clients, setup_client(c)
      PROVE  ConnectionInv'
  <2>1. /\ client[c] = "start" /\ client' = [client EXCEPT ![c] = "connected"]
        /\ accept_queue' = Append(accept_queue, c) /\ UNCHANGED connfd
    BY <1>7 DEF setup_client
  <2>2. /\ DOMAIN accept_queue = 1..Len(accept_queue) /\ Len(accept_queue) \in Nat
        /\ DOMAIN accept_queue' = 1..(Len(accept_queue) + 1)
        /\ \A i \in DOMAIN accept_queue : accept_queue'[i] = accept_queue[i]
        /\ accept_queue'[Len(accept_queue) + 1] = c
    BY <2>1
  <2>3. \A d : (Queued(d))' <=> Queued(d) \/ d = c
    <3>1. ASSUME NEW d, (Queued(d))' PROVE Queued(d) \/ d = c
      <4> PICK i \in DOMAIN accept_queue' : accept_queue'[i] = d
        BY <3>1
      <4>1. i \in DOMAIN accept_queue \/ i = Len(accept_queue) + 1
        BY <2>2
      <4> QED BY <2>2, <4>1
    <3>2. ASSUME NEW d, Queued(d) \/ d = c PROVE (Queued(d))'
      <4>1. Len(accept_queue) + 1 \in DOMAIN accept_queue'
        BY <2>2
      <4>2. \A i \in DOMAIN accept_queue : i \in DOMAIN accept_queue'
        BY <2>2
      <4> QED BY <2>2, <3>2, <4>1, <4>2
    <3> QED BY <3>1, <3>2
  <2>4. ~Queued(c) /\ ServedBy(c) = {}
    BY <2>1
  <2>5. \A i, j \in DOMAIN accept_queue' : accept_queue'[i] = accept_queue'[j] => i = j
    BY <2>2, <2>4
  <2>6. \A d \in Clients : (ServedBy(d))' = ServedBy(d)
    BY <2>1
  <2>7. \A u \in Threads : ~(Queued(connfd[u]))'
    <3> SUFFICES ASSUME NEW u \in Threads PROVE ~(Queued(connfd[u]))'
      OBVIOUS
    <3>1. connfd'[u] = connfd[u] /\ connfd[u] # c /\ ~Queued(connfd[u])
      BY <2>1, <2>4
    <3>2. (Queued(connfd[u]))' <=> \E i \in DOMAIN accept_queue' : accept_queue'[i] = connfd[u]
      BY <3>1
    <3> QED BY <2>3, <3>1, <3>2
  <2> HIDE DEF Queued, ServedBy
  <2> QED BY <2>1, <2>3, <2>5, <2>6, <2>7
<1>8. ASSUME NEW c \in Clients, send_request(c) \/ ClientEnds(c)
      PROVE  ConnectionInv'
  <2>1. /\ client[c] \in {"start", "connected", "requested"}
        /\ client'[c] \in {"requested", "silent", "gone"}
        /\ client'[c] = "requested" => client[c] = "connected"
        /\ \A d \in Clients : d # c => client'[d] = client[d]
        /\ UNCHANGED <<accept_queue, connfd>>
    BY <1>8 DEF send_request, ClientEnds
  <2>2. /\ \A d \in Clients : (Queued(d))' <=> Queued(d)
        /\ \A d \in Clients : (ServedBy(d))' = ServedBy(d)
    BY <2>1
  <2>3. \A u \in Threads : ~(Queued(connfd[u]))'
    BY <2>1
  <2>4. \A d \in Clients :
          /\ client'[d] \in {"start", "answered"} => client[d] \in {"start", "answered"}
          /\ client'[d] \in {"connected", "requested"} => client[d] \in {"connected", "requested"}
    <3> SUFFICES ASSUME NEW d \in Clients
                 PROVE  /\ client'[d] \in {"start", "answered"} => client[d] \in {"start", "answered"}
                        /\ client'[d] \in {"connected", "requested"}
                             => client[d] \in {"connected", "requested"}
      OBVIOUS
    <3>1. CASE d = c
      BY <2>1, <3>1
    <3>2. CASE d # c
      BY <2>1, <3>2
    <3> QED BY <3>1, <3>2
  <2> HIDE DEF Queued, ServedBy
  <2> QED BY <2>1, <2>2, <2>3, <2>4
<1> QED BY <1>1, <1>2, <1>3, <1>4, <1>5, <1>6, <1>7, <1>8
        DEF ServerNext, server_thread, client_thread, recv_request_closed

\* A thread's position tells the request of its client as long as the client waits.
LEMMA RequestStep ==
  ASSUME IInv, ServerTypeOK, ConnectionInv, RequestInv, IInv', ServerNext
  PROVE  RequestInv'
<1> USE DEF ServerTypeOK, RequestInv, sockets, clients, vars
<1>1. CASE setup_server
  BY <1>1 DEF setup_server
<1>2. CASE server_main
  BY <1>2 DEF server_main, init_counter, init_counter_write
<1>3. CASE ServerEnds
  <2>1. \A t \in Threads : pc'[t] = "idle"
    <3>1. main' # "running"
      BY <1>3 DEF ServerEnds, Crash
    <3> QED BY <3>1 DEF IInv, ProcessInv
  <2> QED BY <2>1
<1>4. ASSUME NEW t \in Threads, accept_new_client(t)
      PROVE  RequestInv'
  BY <1>4 DEF accept_new_client
<1>5. ASSUME NEW t \in Threads, recv_request(t)
      PROVE  RequestInv'
  <2>1. Goto(t, "idle", EntryPoint(request[connfd[t]])) /\ connfd[t] # NoClient
    BY <1>5 DEF recv_request, safe_access_counter
  <2>2. request[connfd[t]] \in Operations
    BY <2>1
  <2>3. EntryPoint(request[connfd[t]]) \in IF request[connfd[t]] = COUNTER_READ THEN ReaderSide ELSE WriterSide
    BY <2>2 DEF EntryPoint, ReaderSide, WriterSide, PendingReader, PendingWriter
  <2>4. \A u \in Threads : u # t => pc'[u] = pc[u]
    BY <2>1 DEF Goto, IInv, TypeOK
  <2>5. pc'[t] = EntryPoint(request[connfd[t]])
    BY <2>1 DEF Goto, IInv, TypeOK
  <2>6. client[connfd[t]] \in {"requested", "gone"} /\ UNCHANGED <<sockets, clients>>
    BY <1>5 DEF recv_request
  <2> QED BY <2>1, <2>3, <2>4, <2>5, <2>6
<1>6. ASSUME NEW t \in Threads, access_counter(t)
      PROVE  RequestInv'
  <2>1. /\ Goto(t, pc[t], pc'[t]) /\ pc[t] # "idle"
        /\ pc[t] \in ReaderSide <=> pc'[t] \in ReaderSide
        /\ pc[t] \in WriterSide <=> pc'[t] \in WriterSide
    BY <1>6, StepKeepsSide DEF access_counter
  <2>2. \A u \in Threads : u # t => pc'[u] = pc[u]
    BY <2>1 DEF Goto, IInv, TypeOK
  <2>4. UNCHANGED <<sockets, clients>>
    BY <1>6 DEF access_counter
  <2> QED BY <2>1, <2>2, <2>4
<1>7. ASSUME NEW t \in Threads, send_response(t)
      PROVE  RequestInv'
  <2>1. Goto(t, pc[t], "idle") /\ pc[t] \in {"reader_done", "writer_done"}
    BY <1>7 DEF send_response, return_counter
  <2>2. pc'[t] = "idle" /\ \A u \in Threads : u # t => pc'[u] = pc[u] /\ connfd'[u] = connfd[u]
    BY <1>7, <2>1 DEF send_response, Goto, IInv, TypeOK
  <2>3. \A u \in Threads : u # t /\ pc[u] # "idle" => connfd[u] # connfd[t]
    BY DEF ConnectionInv
  <2>4. \A c \in Clients : c # connfd[t] => client'[c] = client[c]
    BY <1>7 DEF send_response
  <2>5. request' = request
    BY <1>7 DEF send_response
  <2> QED BY <2>2, <2>3, <2>4, <2>5
<1>8. ASSUME NEW c \in Clients, client_thread(c) \/ ClientEnds(c)
      PROVE  RequestInv'
  <2>1. /\ UNCHANGED <<pc, connfd, request>>
        /\ \A d \in Clients : client[d] \in {"requested", "gone"} => client'[d] \in {"requested", "gone"}
    BY <1>8 DEF client_thread, setup_client, send_request, ClientEnds
  <2> QED BY <2>1
<1> QED BY <1>1, <1>2, <1>3, <1>4, <1>5, <1>6, <1>7, <1>8
        DEF ServerNext, server_thread, client_thread, recv_request_closed

-----------------------------------------------------------------------------
(***************************************************************************)
(* Answers.                                                                *)
(***************************************************************************)
\* A step of the counter changes what the threads will answer, and the file.
LEMMA AccessAnswers ==
  ASSUME ServerInv, NEW t \in Threads, access_counter(t)
  PROVE  AnswerInv'
<1> DEFINE Leaving == At({"return_counter"})
           Returned == At(WriterReturnedPC)
<1>1. /\ UNCHANGED <<client, request, response>> /\ Access(t)
      /\ Told' = Told /\ Answered' = Answered
  BY DEF access_counter, clients, Told, Answered
<1>2. /\ Leaving \cup Returned # {} => file # <<>>
      /\ At({"return_counter"} \cup WriterReturnedPC) = Leaving \cup Returned
      /\ (At({"return_counter"} \cup WriterReturnedPC))' = (Leaving \cup Returned)'
  BY DEF ServerInv, AnswerInv, At
<1>3. IncrementAnswersDistinct'
  BY <1>1 DEF ServerInv, AnswerInv, IncrementAnswersDistinct
<1>4. /\ file \in Seq(Int) /\ counter \in Int /\ \A d \in Told : response[d] \in Int
      /\ counter' \in Int
      /\ \A d \in Told : \A u \in Leaving : response[d] < counter
      /\ \A d \in Told : \A u \in Returned : response[d] # counter_value[u]
      /\ \A d \in Told : file # <<>> /\ response[d] <= LastLine
  <2>1. counter' \in Int
    BY <1>1, AccessPreservesIInv DEF ServerInv, IInv, TypeOK
  <2> QED BY <2>1 DEF ServerInv, AnswerInv, IInv, TypeOK, ServerTypeOK, Told, Answered
<1>5. \A u \in Threads : u \in Returned => u \in At(ReturnedPC)
  BY DEF At, ReturnedPC
<1>6. SUFFICES /\ (Leaving \cup Returned)' # {} => file' # <<>>
               /\ \A d \in Told :
                    /\ file' # <<>> /\ response[d] <= LastLine'
                    /\ \A u \in Leaving' : response[d] < counter'
                    /\ \A u \in Returned' : response[d] # counter_value'[u]
  BY <1>1, <1>2, <1>3 DEF AnswerInv
<1>7. CASE Passes(t)
  <2>0. /\ file' = file /\ counter' >= counter
        /\ \A u \in At(ReturnedPC) : counter_value'[u] = counter_value[u]
    BY <1>7 DEF Passes
  <2>1. /\ Leaving' = Leaving /\ Returned' = Returned /\ file' = file /\ counter' >= counter
        /\ \A u \in Returned : counter_value'[u] = counter_value[u]
    BY <1>5, <1>7, <2>0, ResultsMove DEF ServerInv, At
  <2>2. LastLine' = LastLine
    BY <2>1 DEF LastLine
  <2> HIDE DEF Leaving, Returned
  <2> QED BY <1>2, <1>4, <2>1, <2>2
<1>8. CASE Reads(t)
  <2>1. UNCHANGED <<Leaving, Returned, file, counter>>
    BY <1>8, ResultsMove DEF Reads, ServerInv
  <2>2. \A u \in Returned : counter_value'[u] = counter_value[u]
    BY <1>8 DEF Reads, Goto, ServerInv, IInv, TypeOK, At, WriterReturnedPC
  <2>3. LastLine' = LastLine
    BY <2>1 DEF LastLine
  <2> HIDE DEF Leaving, Returned
  <2> QED BY <1>2, <1>4, <2>1, <2>2, <2>3
<1>9. CASE Writes(t)
  <2>1. /\ Returned' = Returned /\ UNCHANGED <<counter, counter_value>>
        /\ file' = Append(file, counter) /\ main = "running"
    BY <1>9, ResultsMove DEF Writes, Goto, ServerInv
  <2>2. file' # <<>> /\ LastLine' = counter
    BY <1>4, <2>1 DEF LastLine
  <2>3. \A d \in Told : response[d] < counter
    <3>1. Committed = counter - 1 /\ (file # <<>> => LastLine = Committed)
      BY <1>9, <2>1 DEF Writes, ServerInv, IInv, DataInv
    <3> QED BY <1>4, <3>1
  <2> HIDE DEF Leaving, Returned
  <2> QED BY <1>4, <2>1, <2>2, <2>3
<1>10. CASE Copies(t)
  <2>1. /\ Returned' = Returned \cup {t} /\ Leaving' = Leaving \ {t}
        /\ UNCHANGED <<counter, file>> /\ t \in Leaving
        /\ counter_value' = [counter_value EXCEPT ![t] = counter]
    BY <1>10, ResultsMove DEF Copies, Goto, ServerInv, At
  <2>2. counter_value'[t] = counter /\ \A u \in Returned : u # t => counter_value'[u] = counter_value[u]
    BY <2>1 DEF ServerInv, IInv, TypeOK, At
  <2>3. LastLine' = LastLine
    BY <2>1 DEF LastLine
  <2> HIDE DEF Leaving, Returned
  <2> QED BY <1>2, <1>4, <2>1, <2>2, <2>3
<1> QED BY <1>1, <1>7, <1>8, <1>9, <1>10, AccessEffect DEF ServerInv

\* An answer is on disk, and nobody else has the number.
LEMMA SendAnswers ==
  ASSUME ServerInv, NEW t \in Threads, send_response(t)
  PROVE  AnswerInv'
<1> DEFINE c == connfd[t]
<1>1. /\ pc[t] \in {"reader_done", "writer_done"} /\ main = "running"
      /\ UNCHANGED <<file, counter, request>>
      /\ \A u \in Threads : u # t => pc'[u] = pc[u] /\ counter_value'[u] = counter_value[u]
      /\ pc'[t] = "idle"
  BY DEF send_response, return_counter, Goto, disk, ServerInv, IInv, TypeOK
<1>2. /\ c \in Clients /\ client[c] \in {"requested", "gone"}
      /\ request[c] = COUNTER_INCREMENT => pc[t] \in WriterSide
  BY <1>1 DEF ServerInv, RequestInv, ServerTypeOK, COUNTER_READ, COUNTER_INCREMENT
<1>3. /\ Answered' \subseteq Answered \cup {c} /\ c \notin Answered
      /\ \A d \in Answered : response'[d] = response[d]
      /\ response'[c] = counter_value[t]
  BY <1>2 DEF send_response, Answered, ServerInv, ServerTypeOK
<1>4. Told' \subseteq Told \cup {c} /\ (c \in Told' => request[c] = COUNTER_INCREMENT)
  BY <1>1, <1>3 DEF Told
<1>5. At({"return_counter"})' = At({"return_counter"}) /\ At(WriterReturnedPC)' = At(WriterReturnedPC) \ {t}
      /\ (At({"return_counter"} \cup WriterReturnedPC))' \subseteq At({"return_counter"} \cup WriterReturnedPC)
  BY <1>1 DEF At, WriterReturnedPC
<1>6. LastLine' = LastLine
  BY <1>1 DEF LastLine
<1>7. \A d \in Told : response'[d] = response[d]
  BY <1>3 DEF Told
<1>8. ASSUME c \in Told'
      PROVE  /\ file # <<>> /\ counter_value[t] <= LastLine
             /\ \A u \in At({"return_counter"}) : counter_value[t] < counter
             /\ \A u \in At(WriterReturnedPC) \ {t} : counter_value[t] # counter_value[u]
             /\ \A d \in Told : response[d] # counter_value[t]
  <2>1. pc[t] = "writer_done"
    BY <1>1, <1>2, <1>4, <1>8 DEF WriterSide, PendingWriter, WriterReturnedPC
  <2>2. t \in At(WriterReturnedPC) /\ t \in At(ReturnedPC) /\ t \in At({"return_counter"} \cup WriterReturnedPC)
    BY <2>1 DEF At, WriterReturnedPC, ReturnedPC
  <2>3. file # <<>> /\ counter_value[t] <= LastLine
    BY <1>1, <2>2 DEF ServerInv, AnswerInv, IInv, ResultInv, DataInv
  <2>4. \A u \in At({"return_counter"}) : counter_value[t] < counter
    BY <2>2 DEF ServerInv, IInv, ResultInv
  <2>5. \A u \in At(WriterReturnedPC) \ {t} : counter_value[t] # counter_value[u]
    BY <2>1 DEF ServerInv, IInv, ResultInv, IncrementsReturnDistinct, At, WriterReturnedPC
  <2> QED BY <2>2, <2>3, <2>4, <2>5 DEF ServerInv, AnswerInv
<1>9. IncrementAnswersDistinct'
  <2> SUFFICES ASSUME NEW d \in Told', NEW e \in Told', d # e
               PROVE  response'[d] # response'[e]
    BY DEF IncrementAnswersDistinct, Told
  <2>1. CASE d \in Told /\ e \in Told
    BY <1>7, <2>1 DEF ServerInv, AnswerInv, IncrementAnswersDistinct, Told
  <2>2. CASE d = c \/ e = c
    BY <1>3, <1>4, <1>7, <1>8, <2>2
  <2> QED BY <1>4, <2>1, <2>2
<1>10. \A d \in Told' :
         /\ file' # <<>> /\ response'[d] <= LastLine'
         /\ \A u \in At({"return_counter"})' : response'[d] < counter'
         /\ \A u \in At(WriterReturnedPC)' : response'[d] # counter_value'[u]
  <2> SUFFICES ASSUME NEW d \in Told'
               PROVE  /\ file # <<>> /\ response'[d] <= LastLine
                      /\ \A u \in At({"return_counter"}) : response'[d] < counter
                      /\ \A u \in At(WriterReturnedPC) \ {t} : response'[d] # counter_value[u]
    BY <1>1, <1>5, <1>6 DEF At
  <2>1. CASE d \in Told
    BY <1>7, <2>1 DEF ServerInv, AnswerInv
  <2>2. CASE d = c
    BY <1>3, <1>8, <2>2
  <2> QED BY <1>4, <2>1, <2>2
<1> QED BY <1>1, <1>5, <1>9, <1>10 DEF ServerInv, AnswerInv

\* What is on disk stays there when the server ends and when it starts again.
LEMMA AnswerStep ==
  ASSUME ServerInv, IInv', ServerNext
  PROVE  AnswerInv'
<1> USE DEF ServerInv, ServerTypeOK, sockets, clients
<1>1. ASSUME UNCHANGED vars, UNCHANGED <<request, response>>, Answered' = Answered
      PROVE  AnswerInv'
  BY <1>1 DEF AnswerInv, IncrementAnswersDistinct, Told, At, LastLine, vars
<1>2. ASSUME main' # "running" \/ main # "running", UNCHANGED <<request, response, pc>> \/ main' # "running",
             UNCHANGED <<request, response>>, Answered' = Answered, file' = file \/ file = <<>>
      PROVE  AnswerInv'
  <2>1. \A u \in Threads : pc'[u] = "idle"
    BY <1>2 DEF IInv, ProcessInv
  <2>2. \A L : "idle" \notin L => At(L)' = {}
    BY <2>1 DEF At
  <2>3. "idle" \notin {"return_counter"} \cup WriterReturnedPC
    BY DEF WriterReturnedPC
  <2>4. Told' = Told /\ (Told # {} => file' = file /\ LastLine' = LastLine)
    BY <1>2 DEF AnswerInv, Told, LastLine
  <2> QED BY <1>2, <2>2, <2>3, <2>4 DEF AnswerInv, IncrementAnswersDistinct
<1>3. CASE setup_server
  BY <1>1, <1>3 DEF setup_server, Answered
<1>4. CASE server_main
  <2>1. /\ main # "running" /\ UNCHANGED <<request, response, pc, client>>
        /\ file' = file \/ file = <<>>
    BY <1>4 DEF server_main, init_counter, init_counter_write, disk, IInv, ProcessInv
  <2> QED BY <1>2, <2>1 DEF Answered
<1>5. CASE ServerEnds
  <2>1. main' # "running" /\ UNCHANGED <<request, response, file>>
    BY <1>5 DEF ServerEnds, Crash, disk, vars
  <2>2. Answered' = Answered
    BY <1>5 DEF ServerEnds, Answered
  <2> QED BY <1>2, <2>1, <2>2
<1>6. ASSUME NEW t \in Threads, accept_new_client(t)
      PROVE  AnswerInv'
  BY <1>1, <1>6 DEF accept_new_client, Answered
<1>7. ASSUME NEW t \in Threads, recv_request(t)
      PROVE  AnswerInv'
  <2>1. /\ UNCHANGED <<request, response, client, file, counter, counter_value>>
        /\ pc[t] = "idle" /\ pc'[t] \in PendingReader \cup PendingWriter
        /\ \A u \in Threads : u # t => pc'[u] = pc[u]
    BY <1>7 DEF recv_request, safe_access_counter, EntryPoint, Goto, disk, PendingReader, PendingWriter,
                IInv, TypeOK
  <2>2. \A label \in {"return_counter"} \cup WriterReturnedPC :
           label # "idle" /\ label \notin PendingReader \cup PendingWriter
    BY DEF WriterReturnedPC, PendingReader, PendingWriter
  <2>3. /\ At({"return_counter"})' = At({"return_counter"})
        /\ At(WriterReturnedPC)' = At(WriterReturnedPC)
        /\ At({"return_counter"} \cup WriterReturnedPC)' = At({"return_counter"} \cup WriterReturnedPC)
    BY <2>1, <2>2 DEF At
  <2>4. Told' = Told /\ LastLine' = LastLine /\ Answered' = Answered
    BY <2>1 DEF Told, Answered, LastLine
  <2> QED BY <2>1, <2>3, <2>4 DEF AnswerInv, IncrementAnswersDistinct
<1>8. ASSUME NEW c \in Clients, client_thread(c) \/ ClientEnds(c)
      PROVE  AnswerInv'
  <2>1. UNCHANGED <<vars, request, response>>
    BY <1>8 DEF client_thread, setup_client, send_request, ClientEnds
  <2>2. Answered' = Answered
    BY <1>8 DEF client_thread, setup_client, send_request, ClientEnds, Answered
  <2> QED BY <1>1, <2>1, <2>2
<1> QED BY <1>3, <1>4, <1>5, <1>6, <1>7, <1>8, AccessAnswers, SendAnswers
        DEF ServerNext, server_thread, recv_request_closed

-----------------------------------------------------------------------------
(***************************************************************************)
(* The theorems about the server.                                          *)
(***************************************************************************)
\* No server, nobody connected.
LEMMA ServerInitInv == ServerInit => ServerInv
<1> SUFFICES ASSUME ServerInit PROVE ServerInv
  OBVIOUS
<1>1. IInv
  BY InitIInv DEF ServerInit
<1>2. ServerTypeOK
  <2>1. accept_queue \in Seq(Clients) /\ Len(accept_queue) <= Backlog + 1
    BY ClientsAssumption DEF ServerInit
  <2>2. /\ connfd \in [Threads -> Clients \cup {NoClient}] /\ client \in [Clients -> ClientStates]
        /\ request \in [Clients -> Operations] /\ response \in [Clients -> Int]
    BY DEF ServerInit, ClientStates
  <2>3. listening \in BOOLEAN
    BY DEF ServerInit
  <2> QED BY <1>1, <2>1, <2>2, <2>3 DEF ServerTypeOK, IInv
<1>3. \A t \in Threads : pc[t] = "idle"
  BY DEF ServerInit, Init
<1>4. Answered = {}
  BY DEF ServerInit, Answered
<1>5. ConnectionInv
  BY ClientsAssumption DEF ServerInit, ConnectionInv, Queued, ServedBy
<1>6. AnswerInv
  BY <1>3, <1>4 DEF AnswerInv, Told, IncrementAnswersDistinct, At, WriterReturnedPC
<1> QED BY <1>1, <1>2, <1>3, <1>5, <1>6 DEF ServerInv, RequestInv

\* Every step of the server, of a client and of the counter inside it preserves it.
LEMMA ServerStepInv == ServerInv /\ [ServerNext]_server_vars => ServerInv'
<1> SUFFICES ASSUME ServerInv, [ServerNext]_server_vars PROVE ServerInv'
  OBVIOUS
<1>1. CASE ServerNext
  <2>1. IInv'
    BY <1>1, CounterStep, NextPreservesIInv DEF ServerInv
  <2> QED BY <1>1, <2>1, ServerTypeStep, ConnectionStep, RequestStep, AnswerStep DEF ServerInv
<1>2. CASE UNCHANGED server_vars
  <2>1. IInv'
    BY <1>2, NextPreservesIInv DEF ServerInv, server_vars
  <2>2. ServerTypeOK'
    BY <1>2, <2>1 DEF ServerInv, ServerTypeOK, server_vars, sockets, clients, IInv
  <2>3. ConnectionInv' /\ RequestInv'
    BY <1>2 DEF ServerInv, ConnectionInv, RequestInv, Queued, ServedBy, server_vars, vars, sockets, clients
  <2>4. AnswerInv'
    BY <1>2 DEF ServerInv, AnswerInv, IncrementAnswersDistinct, Told, Answered, At, LastLine, server_vars,
                vars, clients
  <2> QED BY <2>1, <2>2, <2>3, <2>4 DEF ServerInv
<1> QED BY <1>1, <1>2

\* At most one thread in a set has one element at most.
LEMMA OneServes ==
  ASSUME ServerInv, NEW c \in Clients
  PROVE  /\ Cardinality(ServedBy(c)) \in {0, 1}
         /\ Cardinality(ServedBy(c)) = 0 <=> ServedBy(c) = {}
<1>1. c # NoClient
  BY ClientsAssumption
<1>2. CASE ServedBy(c) = {}
  BY <1>2, FS_EmptySet
<1>3. CASE ServedBy(c) # {}
  <2>1. PICK t : t \in ServedBy(c)
    BY <1>3
  <2>2. ServedBy(c) = {t}
    BY <1>1, <2>1 DEF ServerInv, ConnectionInv, ServedBy
  <2> QED BY <1>3, <2>2, FS_Singleton
<1> QED BY <1>2, <1>3

\* The inductive invariant of the server with its clients.
THEOREM ServerInvariance == ServerSpec => []ServerInv
BY ServerInitInv, ServerStepInv, PTL DEF ServerSpec

\* The server's threads only do to the counter what Counter says, so what is proved
\* of Counter holds in the server, and its clients share an atomic, durable counter.
THEOREM ServerImplementsAtomicCounter == ServerSpec => Spec /\ ImplementsAtomicCounter
<1>1. ServerInit => Init
  BY DEF ServerInit
<1>2. ServerInv /\ [ServerNext]_server_vars => [Next]_vars
  BY CounterStep DEF ServerInv, server_vars, vars
<1> QED BY <1>1, <1>2, ServerInvariance, Refinement, PTL DEF ServerSpec, Spec

\* Every connection is in the queue or with one thread until it is closed.
THEOREM ConnectionsAreServedOnce == ServerSpec => []OneThreadPerConnection
<1>1. ServerInv => OneThreadPerConnection
  <2> SUFFICES ASSUME ServerInv, NEW c \in Clients
               PROVE  /\ Cardinality(ServedBy(c)) + (IF Queued(c) THEN 1 ELSE 0) <= 1
                      /\ client[c] \in {"connected", "requested"} => Queued(c) \/ ServedBy(c) # {}
                      /\ client[c] = "answered" => ~Queued(c) /\ ServedBy(c) = {}
    BY DEF OneThreadPerConnection
  <2>1. ServedBy(c) # {} => ~Queued(c)
    BY DEF ServerInv, ConnectionInv, ServedBy
  <2> QED BY <2>1, OneServes DEF ServerInv, ConnectionInv
<1> QED BY <1>1, ServerInvariance, PTL

\* No two clients are told the same number for an increment, across crashes.
THEOREM AnswersAreDistinct == ServerSpec => []IncrementAnswersDistinct
BY ServerInvariance, PTL DEF ServerInv, AnswerInv

-----------------------------------------------------------------------------
(***************************************************************************)
(* The order of the answers.                                               *)
(***************************************************************************)
HistoryServerInv == ServerInv /\ HistoryInv

LEMMA ValueType == ASSUME ServerInv PROVE AbstractValue \in Int /\ Committed \in Int
<1>1. Committed \in Int
  BY DEF ServerInv, IInv, TypeOK, Committed
<1>2. file # <<>> => LastLine \in Int
  BY DEF ServerInv, IInv, TypeOK, LastLine
<1> QED BY <1>1, <1>2 DEF AbstractValue

\* While the server runs, the abstract counter is the one in its memory.
LEMMA ValueIsCommitted == ASSUME ServerInv, main = "running" PROVE AbstractValue = Committed
BY DEF ServerInv, IInv, DataInv, AbstractValue

LEMMA ValueIsCommittedNext ==
  ASSUME ServerInv', main' = "running" PROVE AbstractValue' = Committed'
BY DEF ServerInv, IInv, DataInv, AbstractValue

\* A step of the counter: results are at least what was known before.
LEMMA AccessKeepsBelow ==
  ASSUME ServerInv, NEW t \in Threads, Access(t), NEW u \in Threads, NEW n \in Int,
         n <= Committed, Below(u, n)
  PROVE  (Below(u, n))'
<1> DEFINE Leaving == At({"return_counter"})
           Writers == At(WriterReturnedPC)
           Readers == At(ReaderReturnedPC)
<1>1. Passes(t) \/ Reads(t) \/ Writes(t) \/ Copies(t)
  BY AccessEffect DEF ServerInv
<1>2. /\ counter \in Int /\ counter' \in Int /\ counter_value[u] \in Int
      /\ counter_value \in [Threads -> Int]
  <2>1. counter' \in Int
    BY AccessPreservesIInv DEF ServerInv, IInv, TypeOK
  <2> QED BY <2>1 DEF ServerInv, IInv, TypeOK
<1>3. /\ u \in Leaving => n < counter
      /\ u \in Writers => n < counter_value[u]
      /\ u \in Readers => n <= counter_value[u]
  BY DEF Below
<1>4. SUFFICES /\ u \in Leaving' => n < counter'
               /\ u \in Writers' => n < counter_value'[u]
               /\ u \in Readers' => n <= counter_value'[u]
  BY DEF Below
<1>5. CASE Passes(t)
  <2>1. /\ counter' >= counter
        /\ u \in At(ReturnedPC) => counter_value'[u] = counter_value[u]
        /\ Leaving' = Leaving /\ Writers' = Writers /\ Readers' = Readers
    BY <1>5, ResultsMove DEF Passes, ServerInv
  <2>2. Writers \cup Readers \subseteq At(ReturnedPC)
    BY DEF At, ReaderReturnedPC, ReturnedPC
  <2> HIDE DEF Leaving, Writers, Readers
  <2> QED BY <1>2, <1>3, <2>1, <2>2
<1>6. CASE Reads(t)
  <2>1. /\ counter' = counter /\ Committed = counter
        /\ counter_value' = [counter_value EXCEPT ![t] = counter]
        /\ Leaving' = Leaving /\ Writers' = Writers /\ Readers' = Readers \cup {t}
    BY <1>6, ResultsMove DEF Reads, ServerInv
  <2>2. t \notin Writers
    BY <1>6 DEF Reads, Goto, At, WriterReturnedPC
  <2> HIDE DEF Leaving, Writers, Readers
  <2> QED BY <1>2, <1>3, <2>1, <2>2
<1>7. CASE Writes(t)
  <2>1. /\ counter' = counter /\ counter_value' = counter_value /\ Committed = counter - 1
        /\ Leaving' = Leaving \cup {t} /\ Writers' = Writers /\ Readers' = Readers
    BY <1>7, ResultsMove DEF Writes, ServerInv
  <2> HIDE DEF Leaving, Writers, Readers
  <2> QED BY <1>2, <1>3, <2>1
<1>8. CASE Copies(t)
  <2>1. /\ counter' = counter
        /\ counter_value' = [counter_value EXCEPT ![t] = counter]
        /\ Leaving' = Leaving \ {t} /\ Writers' = Writers \cup {t} /\ Readers' = Readers
    BY <1>8, ResultsMove DEF Copies, ServerInv
  <2>2. t \notin Readers /\ t \in Leaving
    BY <1>8 DEF Copies, Goto, At, ReaderReturnedPC, ReturnedPC, WriterReturnedPC
  <2> HIDE DEF Leaving, Writers, Readers
  <2> QED BY <1>2, <1>3, <2>1, <2>2
<1> QED BY <1>1, <1>5, <1>6, <1>7, <1>8

\* A step of the counter.
LEMMA AccessHistory ==
  ASSUME ServerInv, ServerInv', HistoryInv, NEW t \in Threads, access_counter(t), UNCHANGED history
  PROVE  HistoryInv'
<1>1. /\ UNCHANGED <<client, request, response, connfd, known, forgotten>> /\ Access(t)
      /\ Answered' = Answered /\ Expecting' = Expecting /\ main = "running" /\ main' = "running"
  BY AccessEffect DEF access_counter, sockets, clients, history, Answered, Expecting, ServerInv
<1>2. /\ AbstractValue = Committed /\ AbstractValue' = Committed'
      /\ Committed \in Int /\ Committed' \in Int
  <2>1. Committed' \in Int
    BY DEF ServerInv, IInv, TypeOK, Committed
  <2> QED BY <1>1, <2>1, ValueIsCommitted, ValueIsCommittedNext, ValueType
<1>3. AbstractValue <= AbstractValue'
  <2>1. counter \in Int
    BY DEF ServerInv, IInv, TypeOK
  <2> QED BY <1>1, <1>2, <2>1, AccessEffect DEF Passes, Reads, Writes, Copies, ServerInv
<1>4. /\ \A d \in Answered : response[d] \in Int
      /\ \A c \in Expecting : known[c] \subseteq Int
  BY DEF ServerInv, ServerTypeOK, HistoryInv, Answered, Expecting
<1>5. \A n \in Int : n <= AbstractValue => n <= AbstractValue'
  BY <1>2, <1>3
<1>6. \A d \in Answered \ forgotten : response[d] <= AbstractValue'
  BY <1>4, <1>5 DEF HistoryInv
<1>7. \A c \in Expecting : \A n \in known[c] : n <= AbstractValue'
  BY <1>4, <1>5 DEF HistoryInv
<1>8. \A u \in Threads : connfd[u] \in Expecting => \A n \in known[connfd[u]] : (Below(u, n))'
  <2> SUFFICES ASSUME NEW u \in Threads, connfd[u] \in Expecting, NEW n \in known[connfd[u]]
               PROVE  (Below(u, n))'
    OBVIOUS
  <2>1. n \in Int /\ n <= Committed /\ Below(u, n)
    BY <1>2, <1>4 DEF HistoryInv
  <2> QED BY <1>1, <2>1, AccessKeepsBelow
<1>9. AnswersNeverGoBack'
  BY <1>1 DEF HistoryInv, AnswersNeverGoBack
<1> QED BY <1>1, <1>6, <1>7, <1>8, <1>9 DEF HistoryInv

\* An answer: the client gets what its thread had for it.
LEMMA SendHistory ==
  ASSUME ServerInv, HistoryInv, NEW t \in Threads, send_response(t), UNCHANGED history
  PROVE  HistoryInv'
<1> DEFINE c == connfd[t]
<1>1. /\ pc[t] \in {"reader_done", "writer_done"} /\ main = "running" /\ main' = main
      /\ UNCHANGED <<file, counter, request, known, forgotten>>
      /\ \A u \in Threads : u # t => pc'[u] = pc[u] /\ counter_value'[u] = counter_value[u]
      /\ pc'[t] = "idle" /\ connfd' = [connfd EXCEPT ![t] = NoClient]
  BY DEF send_response, return_counter, Goto, process, disk, history, ServerInv, IInv, TypeOK
<1>2. /\ c \in Clients /\ client[c] \in {"requested", "gone"} /\ c # NoClient
      /\ request[c] = COUNTER_INCREMENT => pc[t] \in WriterSide
  <2>1. RequestInv /\ ServerTypeOK
    BY DEF ServerInv
  <2> QED BY <1>1, <2>1, ClientsAssumption DEF RequestInv, ServerTypeOK, COUNTER_READ, COUNTER_INCREMENT
<1>3. /\ Answered' \subseteq Answered \cup {c} /\ c \notin Answered
      /\ c \in Answered' => c \in Expecting
      /\ \A d \in Answered : response'[d] = response[d]
      /\ response'[c] = counter_value[t]
      /\ Expecting' \subseteq Expecting \ {c}
  BY <1>2 DEF send_response, Answered, Expecting, ServerInv, ServerTypeOK
<1>4. /\ At({"return_counter"})' = At({"return_counter"}) \ {t}
      /\ At(WriterReturnedPC)' = At(WriterReturnedPC) \ {t}
      /\ At(ReaderReturnedPC)' = At(ReaderReturnedPC) \ {t}
      /\ At({"write_to_file"})' = At({"write_to_file"})
  BY <1>1 DEF At, ReaderReturnedPC, ReturnedPC, WriterReturnedPC
<1>5. AbstractValue' = AbstractValue
  BY <1>1, <1>4 DEF AbstractValue, Committed, LastLine
<1>6. /\ t \in At(ReturnedPC) /\ t \in At(WriterReturnedPC) \cup At(ReaderReturnedPC)
      /\ request[c] = COUNTER_INCREMENT => t \in At(WriterReturnedPC)
  BY <1>1, <1>2 DEF At, ReaderReturnedPC, ReturnedPC, WriterReturnedPC, WriterSide, PendingWriter
<1>7. counter_value[t] <= AbstractValue
  BY <1>1, <1>6, ValueIsCommitted DEF ServerInv, IInv, ResultInv
<1>8. \A d \in Answered' \ forgotten : response'[d] <= AbstractValue
  BY <1>3, <1>7 DEF HistoryInv
<1>9. \A u \in Threads : connfd'[u] \in Expecting' => \A n \in known[connfd'[u]] : (Below(u, n))'
  <2> SUFFICES ASSUME NEW u \in Threads, connfd'[u] \in Expecting', NEW n \in known[connfd'[u]]
               PROVE  (Below(u, n))'
    OBVIOUS
  <2>1. u # t /\ connfd'[u] = connfd[u] /\ connfd[u] \in Expecting
    BY <1>1, <1>3, ClientsAssumption DEF ServerInv, ServerTypeOK, Expecting
  <2>2. Below(u, n)
    BY <2>1 DEF HistoryInv
  <2> QED BY <1>1, <1>4, <2>1, <2>2 DEF Below
<1>10. AnswersNeverGoBack'
  <2> SUFFICES ASSUME NEW d \in Answered', NEW n \in known[d]
               PROVE  /\ response'[d] >= n
                      /\ request[d] = COUNTER_INCREMENT => response'[d] > n
    BY <1>1 DEF AnswersNeverGoBack
  <2>1. CASE d = c
    <3>1. Below(t, n)
      BY <1>3, <2>1 DEF HistoryInv
    <3>2. n \in Int /\ counter_value[t] \in Int
      BY <1>2, <2>1 DEF HistoryInv, ServerInv, IInv, TypeOK
    <3> QED BY <1>3, <1>6, <2>1, <3>1, <3>2 DEF Below
  <2>2. CASE d \in Answered
    BY <1>3, <2>2 DEF HistoryInv, AnswersNeverGoBack
  <2> QED BY <1>3, <2>1, <2>2
<1>11. \A d \in Expecting' : \A n \in known[d] : n <= AbstractValue
  BY <1>3 DEF HistoryInv
<1> QED BY <1>1, <1>5, <1>8, <1>9, <1>10, <1>11 DEF HistoryInv

\* The server starts: the file tells it what was told before, or nothing counts
\* any more; its threads have nothing yet.
LEMMA StartHistory ==
  ASSUME ServerInv, HistoryInv, server_main, UNCHANGED history
  PROVE  HistoryInv'
<1>1. /\ main # "running" /\ pc' = pc /\ UNCHANGED <<client, connfd, request, response, known, forgotten>>
      /\ file # <<>> => file' = file
  BY DEF server_main, init_counter, init_counter_write, disk, sockets, clients, history, ServerInv,
         IInv, ProcessInv
<1>2. Answered' = Answered /\ Expecting' = Expecting
  BY <1>1 DEF Answered, Expecting
<1>3. \A u, n : (Below(u, n))'
  <2>1. \A u \in Threads : pc'[u] = "idle"
    BY <1>1 DEF ServerInv, IInv, ProcessInv
  <2> QED BY <2>1 DEF Below, At, ReaderReturnedPC, ReturnedPC, WriterReturnedPC
<1>4. AnswersNeverGoBack'
  BY <1>1, <1>2 DEF HistoryInv, AnswersNeverGoBack
<1>5. CASE file = <<>>
  <2>1. Answered \ forgotten = {} /\ \A c \in Expecting : known[c] = {}
    BY <1>1, <1>5 DEF HistoryInv
  <2> QED BY <1>1, <1>2, <1>3, <1>4, <2>1 DEF HistoryInv
<1>6. CASE file # <<>>
  <2>1. file' # <<>> /\ AbstractValue' = AbstractValue
    BY <1>1, <1>6 DEF AbstractValue, LastLine
  <2> QED BY <1>1, <1>2, <1>3, <1>4, <2>1 DEF HistoryInv
<1> QED BY <1>5, <1>6

\* The server ends: nobody is left who may be told something.
LEMMA EndHistory ==
  ASSUME ServerInv, HistoryInv, ServerEnds, known' = known,
         forgotten' = IF main' = "down" /\ file' = <<>> THEN Answered' ELSE forgotten
  PROVE  HistoryInv'
<1>1. /\ main' = "down" /\ file' = file /\ UNCHANGED <<request, response>>
      /\ Answered' = Answered /\ Expecting' = {}
  BY DEF ServerEnds, Crash, disk, vars, Answered, Expecting
<1>2. connfd' = [t \in Threads |-> NoClient]
  BY DEF ServerEnds
<1>3. AnswersNeverGoBack'
  BY <1>1 DEF HistoryInv, AnswersNeverGoBack
<1>4. CASE file = <<>>
  <2>1. Answered' \ forgotten' = {} /\ Answered' \subseteq forgotten'
    BY <1>1, <1>4
  <2> QED BY <1>1, <1>2, <1>3, <2>1 DEF HistoryInv
<1>5. CASE file # <<>>
  <2>1. file' # <<>> /\ AbstractValue' = AbstractValue /\ forgotten' = forgotten
    BY <1>1, <1>5 DEF AbstractValue, LastLine
  <2> QED BY <1>1, <1>2, <1>3, <2>1 DEF HistoryInv
<1> QED BY <1>4, <1>5

\* A step that leaves the counter, the answers and what is known alone.
LEMMA QuietHistory ==
  ASSUME ServerInv, HistoryInv, UNCHANGED vars, UNCHANGED <<request, response, known>>,
         Answered' = Answered, Expecting' \subseteq Expecting,
         forgotten' = forgotten \/ forgotten' = Answered,
         \A t \in Threads : connfd'[t] = connfd[t] \/ pc[t] = "idle"
  PROVE  HistoryInv'
<1>1. \A u, n : (Below(u, n))' <=> Below(u, n)
  BY DEF Below, At, vars
<1>2. \A u \in Threads : \A n : pc[u] = "idle" => Below(u, n)
  BY DEF Below, At, ReaderReturnedPC, ReturnedPC, WriterReturnedPC
<1>3. AbstractValue' = AbstractValue
  BY DEF AbstractValue, LastLine, Committed, At, vars
<1>4. \A u \in Threads : connfd'[u] \in Expecting' => \A n \in known[connfd'[u]] : (Below(u, n))'
  BY <1>1, <1>2 DEF HistoryInv
<1>5. AnswersNeverGoBack'
  BY DEF HistoryInv, AnswersNeverGoBack
<1> QED BY <1>3, <1>4, <1>5 DEF HistoryInv, vars

\* A client connects and knows what has been answered; no thread has it yet.
LEMMA ConnectHistory ==
  ASSUME ServerInv, HistoryInv, NEW c \in Clients, setup_client(c),
         known' = [known EXCEPT ![c] = {response[d] : d \in Answered \ forgotten}],
         forgotten' = forgotten \/ forgotten' = Answered
  PROVE  HistoryInv'
<1>1. /\ UNCHANGED <<connfd, request, response>> /\ UNCHANGED vars
      /\ client[c] = "start" /\ client' = [client EXCEPT ![c] = "connected"]
  BY DEF setup_client
<1>2. Answered' = Answered /\ c \notin Answered /\ Expecting' = Expecting \cup {c}
  BY <1>1 DEF Answered, Expecting, ServerInv, ServerTypeOK
<1>3. \A u \in Threads : connfd[u] # c
  BY <1>1 DEF ServerInv, ConnectionInv, ServedBy
<1>4. /\ known' \in [Clients -> SUBSET Int]
      /\ known'[c] = {response[d] : d \in Answered \ forgotten}
      /\ \A d \in Clients : d # c => known'[d] = known[d]
  BY DEF HistoryInv, ServerInv, ServerTypeOK, Answered
<1>5. AbstractValue' = AbstractValue
  BY <1>1 DEF AbstractValue, LastLine, Committed, At, vars
<1>6. \A u, n : (Below(u, n))' <=> Below(u, n)
  BY <1>1 DEF Below, At, vars
<1>7. \A u \in Threads : connfd'[u] \in Expecting' => \A n \in known'[connfd'[u]] : (Below(u, n))'
  <2>1. Expecting \subseteq Clients
    BY DEF Expecting
  <2> QED BY <1>1, <1>2, <1>3, <1>4, <1>6, <2>1 DEF HistoryInv
<1>8. \A d \in Expecting' : \A n \in known'[d] : n <= AbstractValue'
  <2>1. \A d \in Expecting : d # c => d \in Clients
    BY DEF Expecting
  <2> QED BY <1>2, <1>4, <1>5, <2>1 DEF HistoryInv
<1>9. AnswersNeverGoBack'
  <2>1. \A d \in Answered : d \in Clients /\ d # c
    BY <1>2 DEF Answered
  <2> QED BY <1>1, <1>2, <1>4, <2>1 DEF HistoryInv, AnswersNeverGoBack
<1>10. main' # "running" /\ file' = <<>> =>
         Answered' \subseteq forgotten' /\ \A d \in Expecting' : known'[d] = {}
  <2> SUFFICES ASSUME main # "running", file = <<>>
               PROVE  Answered' \subseteq forgotten' /\ \A d \in Expecting' : known'[d] = {}
    BY <1>1 DEF vars
  <2>1. Answered \ forgotten = {} /\ \A d \in Expecting : known[d] = {}
    BY DEF HistoryInv
  <2>2. \A d \in Expecting : d \in Clients
    BY DEF Expecting
  <2> QED BY <1>2, <1>4, <2>1, <2>2
<1> QED BY <1>1, <1>2, <1>4, <1>5, <1>7, <1>8, <1>9, <1>10 DEF HistoryInv

\* Every step preserves it.
LEMMA HistoryStep ==
  ASSUME ServerInv, HistoryInv, ServerInv', HistoryNext
  PROVE  HistoryInv'
<1> USE DEF sockets, clients
<1>1. known \in [Clients -> SUBSET Int]
  BY DEF HistoryInv
<1>2. ASSUME \A c \in Clients : ~(client[c] = "start" /\ client'[c] = "connected")
      PROVE  known' = known
  BY <1>1, <1>2 DEF HistoryNext
<1>3. client \in [Clients -> ClientStates]
  BY DEF ServerInv, ServerTypeOK
<1>4. forgotten' = IF main' = "down" /\ file' = <<>> THEN Answered' ELSE forgotten
  BY DEF HistoryNext
<1>5. CASE setup_server
  <2>1. UNCHANGED <<vars, request, response, client, connfd>>
    BY <1>5 DEF setup_server
  <2> QED BY <1>2, <1>4, <2>1, QuietHistory DEF Answered, Expecting
<1>6. CASE server_main
  <2>1. known' = known /\ main' # "down"
    BY <1>2, <1>6 DEF server_main, init_counter, init_counter_write
  <2> QED BY <1>4, <1>6, <2>1, StartHistory DEF history
<1>7. CASE ServerEnds
  <2>1. known' = known
    BY <1>2, <1>7 DEF ServerEnds
  <2> QED BY <1>4, <1>7, <2>1, EndHistory
<1>8. ASSUME NEW t \in Threads, accept_new_client(t)
      PROVE  HistoryInv'
  <2>1. /\ UNCHANGED <<vars, request, response, client>> /\ connfd[t] = NoClient
        /\ \A u \in Threads : u # t => connfd'[u] = connfd[u]
    BY <1>8 DEF accept_new_client, ServerInv, ServerTypeOK
  <2>2. pc[t] = "idle"
    BY <2>1 DEF ServerInv, RequestInv
  <2> QED BY <1>2, <1>4, <2>1, <2>2, QuietHistory DEF Answered, Expecting
<1>9. ASSUME NEW t \in Threads, recv_request(t)
      PROVE  HistoryInv'
  <2>1. /\ UNCHANGED <<request, response, client, connfd, file, counter, counter_value, main>>
        /\ main = "running"
        /\ pc[t] = "idle" /\ pc'[t] \in (PendingReader \cup PendingWriter) \ {"write_to_file"}
        /\ \A u \in Threads : u # t => pc'[u] = pc[u]
    BY <1>9 DEF recv_request, safe_access_counter, EntryPoint, Goto, disk, process, PendingReader,
                PendingWriter, ServerInv, IInv, TypeOK
  <2>2. known' = known /\ forgotten' = forgotten /\ Answered' = Answered /\ Expecting' = Expecting
    BY <1>2, <1>4, <2>1 DEF Answered, Expecting
  <2>3. /\ "idle" \notin {"return_counter", "write_to_file"} \cup ReturnedPC
        /\ \A label \in PendingReader \cup PendingWriter : label \notin {"return_counter"} \cup ReturnedPC
        /\ WriterReturnedPC \subseteq ReturnedPC /\ ReaderReturnedPC \subseteq ReturnedPC
    BY DEF ReaderReturnedPC, ReturnedPC, WriterReturnedPC, PendingReader, PendingWriter
  <2>4. /\ At({"return_counter"})' = At({"return_counter"})
        /\ At(WriterReturnedPC)' = At(WriterReturnedPC) /\ At(ReaderReturnedPC)' = At(ReaderReturnedPC)
        /\ At({"write_to_file"})' = At({"write_to_file"})
    BY <2>1, <2>3 DEF At
  <2>5. AbstractValue' = AbstractValue
    BY <2>1, <2>4 DEF AbstractValue, LastLine, Committed
  <2>6. \A u, n : (Below(u, n))' <=> Below(u, n)
    BY <2>1, <2>4 DEF Below
  <2>7. AnswersNeverGoBack'
    BY <2>1, <2>2 DEF HistoryInv, AnswersNeverGoBack
  <2> QED BY <2>1, <2>2, <2>5, <2>6, <2>7 DEF HistoryInv
<1>10. ASSUME NEW t \in Threads, access_counter(t)
       PROVE  HistoryInv'
  <2>1. known' = known /\ main' = "running"
    BY <1>2, <1>10, AccessEffect DEF access_counter, ServerInv
  <2> QED BY <1>4, <1>10, <2>1, AccessHistory DEF history
<1>11. ASSUME NEW t \in Threads, send_response(t)
       PROVE  HistoryInv'
  <2>1. \A c \in Clients : client'[c] = client[c] \/ client'[c] = "answered"
    BY <1>3, <1>11 DEF send_response
  <2>2. known' = known /\ main' = "running"
    BY <1>2, <1>11, <2>1 DEF send_response, return_counter, Goto, process
  <2> QED BY <1>4, <1>11, <2>2, SendHistory DEF history
<1>12. ASSUME NEW c \in Clients, setup_client(c)
       PROVE  HistoryInv'
  <2>1. \A d \in Clients : (client[d] = "start" /\ client'[d] = "connected") <=> d = c
    BY <1>3, <1>12 DEF setup_client
  <2>2. known' = [known EXCEPT ![c] = {response[d] : d \in Answered \ forgotten}]
    BY <1>1, <2>1 DEF HistoryNext
  <2>3. Answered' = Answered
    BY <1>3, <1>12 DEF setup_client, Answered
  <2> QED BY <1>4, <1>12, <2>2, <2>3, ConnectHistory
<1>13. ASSUME NEW c \in Clients, send_request(c) \/ ClientEnds(c)
       PROVE  HistoryInv'
  <2>1. /\ UNCHANGED <<vars, request, response, connfd>>
        /\ client[c] \in {"start", "connected", "requested"}
        /\ client'[c] \in {"requested", "silent", "gone"}
        /\ client'[c] = "requested" => client[c] = "connected"
        /\ \A d \in Clients : d # c => client'[d] = client[d]
    BY <1>3, <1>13 DEF send_request, ClientEnds
  <2>2. Answered' = Answered /\ Expecting' \subseteq Expecting
    BY <2>1 DEF Answered, Expecting
  <2>3. known' = known
    BY <1>2, <2>1
  <2> QED BY <1>4, <2>1, <2>2, <2>3, QuietHistory
<1> QED BY <1>5, <1>6, <1>7, <1>8, <1>9, <1>10, <1>11, <1>12, <1>13
        DEF HistoryNext, ServerNext, server_thread, client_thread, recv_request_closed

\* Clients are told what was told before them, or more, also when the server
\* crashed and started again in between, but for what a server told that ended
\* without a line in its file; whatever atoi makes of the buffer each time.
THEOREM AnswersAreInOrder == HistorySpec => []AnswersNeverGoBack
<1>1. HistoryInit => HistoryServerInv
  <2> SUFFICES ASSUME HistoryInit PROVE HistoryServerInv
    OBVIOUS
  <2>1. ServerInv
    BY ServerInitInv DEF HistoryInit
  <2>2. /\ connfd = [t \in Threads |-> NoClient]
        /\ Answered = {} /\ Expecting = {} /\ known = [c \in Clients |-> {}]
    BY DEF HistoryInit, ServerInit, Answered, Expecting
  <2>3. HistoryInv
    BY <2>2 DEF HistoryInv, AnswersNeverGoBack
  <2> QED BY <2>1, <2>3 DEF HistoryServerInv
<1>2. HistoryServerInv /\ [HistoryNext]_<<server_vars, history>> => HistoryServerInv'
  <2> SUFFICES ASSUME HistoryServerInv, [HistoryNext]_<<server_vars, history>> PROVE HistoryServerInv'
    OBVIOUS
  <2>1. ServerInv'
    BY ServerStepInv DEF HistoryServerInv, HistoryNext
  <2>2. CASE HistoryNext
    BY <2>1, <2>2, HistoryStep DEF HistoryServerInv
  <2>3. CASE UNCHANGED <<server_vars, history>>
    <3>1. HistoryInv'
      BY <2>3, QuietHistory DEF HistoryServerInv, server_vars, history, clients, sockets, Answered, Expecting
    <3> QED BY <2>1, <3>1 DEF HistoryServerInv
  <2> QED BY <2>2, <2>3
<1>3. HistoryServerInv => AnswersNeverGoBack
  BY DEF HistoryServerInv, HistoryInv
<1> QED BY <1>1, <1>2, <1>3, PTL DEF HistorySpec

=============================================================================
