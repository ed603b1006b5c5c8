# Verification of sistemas_distribuidos_2021-22

TLA+ models, TLC configurations and TLAPS proofs for the C exercises of the
course on distributed systems in this repository. The two largest programs come
first: the readers/writers counter server (`RP3_concurrencia`) and the
publish/subscribe broker (`RP4_pubsub`). The Lamport-clock shutdown
(`RP2_relojes`) is third. The `Practica*` directories are earlier versions of
the `RP*` ones, with designs, and races, of their own: the Practica4 broker is
modelled as a whole, and the first three servers with a thread per client
(Practica1, RP1, Practica3) in one family of modules.

## 1. Inventory

| Component | State | Operations | Interacts with |
|---|---|---|---|
| RP3 counter (`counter.c`) | `counter`, `readers`, `writers`, `ratio`, `priority`, the mutexes `readers_mutex`, `writers_mutex`, `new_readers`, `reading`, `writing`; the file `server_output.txt` | `init_counter`, `safe_access_counter` (`read_rp`, `read_wp`, `write_rp`, `write_wp`, `access_counter`, `write_to_file`) | called by every server thread; survives a restart through the file |
| RP3 server and client (`server.c`, `client.c`, `proxy.c`) | listening socket, accept queue, one connection per thread | connect, accept, request, response, close | calls the counter; messages between clients and server |
| RP4 client list (`client_list.c`) | topics with their publishers and subscribers, two global counters, an id counter, one mutex | `add_client`, `remove_client`, `get_subscribers`, `get_all_publishers`, `get_all_subscribers` | shared by the broker's three threads |
| RP4 broker and clients (`proxy.c`, `broker.c`, `publisher.c`, `subscriber.c`) | sockets and their descriptors, what each thread copied out of the table | register, publish, forward (three modes), unregister | the client list; messages both ways |
| RP2 shutdown (`p1.c`, `p2.c`, `p3.c`, `proxy.c`) | three Lamport clocks, two connections | ready, shutdown, acknowledge | messages between the processes |
| Practica4 topic list (`client_list.c`) | a table of topics under a semaphore that is released between the parts of an operation | insert a publisher or subscriber, remove one, drop a topic | both threads of the broker |
| Practica4 broker and clients (`proxy.c`, `broker.c`, `publisher.c`, `subscriber.c`) | connections, the place of each of the two threads, the threads of a forwarding | register, publish, forward (three modes), unregister | the topic list; messages both ways; SIGPIPE |
| Practica3 counter server | one global `connfd`, a semaphore of places, a counter without exclusion and its file | accept, create a thread, receive, count, answer | killed clients; threads share `connfd` |
| RP1 socket exercises | a pool of threads that all accept; two conversations between keyboards | accept, receive, greet, close | threads share the descriptor numbers |
| Practica1 socket exercises | a thread per connection, which gets the address of `main`'s variable | accept, create, greet, receive | threads share the variable |
| Practica2 Lamport exercise | - | - | a draft that does not compile (`proxy.c` is pasted into itself) |
| Scripts and fragments | - | launchers, latency statistics, `poll_example.c`, `probar.c` | - |

What is hard in this code, and so what the properties are about (`hazards` in
PROJECT.json gives each at its line):

* **Interleaving.** `counter++` and the line in the file have no lock of their
  own. They rely on five mutexes that are nested in different orders by readers
  and writers, two of which are unlocked by threads that never locked them. In
  the broker, three threads share a table whose contents they copy and use
  after the mutex is released. In the three small servers the threads share a
  variable, a connection or descriptor numbers without any lock.
* **Crashes.** The counter's file is all that a restart of the server has; any
  failed `recv` or `send` is `err(1, ...)` and ends a whole process.
* **Ordering.** Connections are accepted in any order; the broker may forward
  data to a client before it has answered its registration.
* **Limits.** The arrays of the client list are kept within bounds only by two
  global counters; there are fewer server threads than clients.
* **Liveness.** Which of readers and writers may starve depends on an option.

What makes each component correct: the counter is an atomic, durable counter
whose readers and writers exclude each other, never deadlock and get the
promised priority; the server answers every request once, with values that
never go back once its file has a line; the table neither loses nor invents a client; the broker
delivers a publisher's messages in order to the subscribers of the topic, and
closes no connection but those of clients that left; a small server answers
whoever connects unless its threads got in each other's way; the
shutdown goes down in its fixed order whoever connects first or dies.

## 2. Modules

| Module | Models |
|---|---|
| `Counter` | `counter.c`: one action per mutex operation and per access to the counter and its file; `Crash` |
| `CounterInvariant` | the inductive invariant `IInv` of `Counter` |
| `AtomicCounter` | abstract specification: an atomic, durable counter |
| `CounterRefinement` | the refinement mapping from `Counter` to `AtomicCounter` |
| `CounterProofs`, `CounterTheorems` | the proofs about `Counter` |
| `CounterServer` | extends `Counter` with `server.c`, `client.c` and the sockets of `proxy.c` |
| `CounterServerHistory` | `CounterServer` with history variables, for a property over past answers |
| `CounterServerProofs` | the proofs about the server, on top of the counter's invariant |
| `ClientList` | `client_list.c`, with the register/unregister order of its users |
| `ClientListProofs` | the proofs about `ClientList` |
| `Broker` | extends `ClientList` with the broker's three threads, the client programs, sockets and descriptors |
| `BrokerProofs` | the proofs about the broker's descriptors, the order of what subscribers read, and its types |
| `Shutdown` | `RP2_relojes`: three processes, their Lamport clocks and messages |
| `OrderedShutdown` | abstract specification: machines go down one after the other, in order |
| `ShutdownProofs` | the proofs about `Shutdown` and that it implements `OrderedShutdown` |
| `TopicList` | `Practica4_pub_sub`: the table of topics and the two threads that register and unregister clients in it |
| `TopicBroker` | extends `TopicList` with forwarding in the three modes, the clients' data and the ends of their connections |
| `TopicBrokerProofs` | the proofs about `TopicList` and `TopicBroker` |
| `Connections` | the clients and sockets that the next three share |
| `ArgumentServer` | Practica1's `ServidorMultiHilo/complex_server.c` |
| `DescriptorServer` | RP1's `ServidorMultiHilo/server.c` and `proxy.c` |
| `GlobalServer` | `Practica3_concurrencia`: `server.c` and `proxy.c` |
| `ThreadServers` | any one of the three with its clients (`version` tells which) |
| `ThreadServersProofs` | the proofs about the three |
| `MC*` | instances for TLC |

Correspondence to the code:

* **Counter.** `pc[t]` is the thread's next line in `read_rp`, `read_wp`,
  `write_rp`, `write_wp` or `access_counter`. A step that changes `readers` or
  `writers` also takes the mutex those variables are always accessed under.
  `counter++` is a load and a store; the append to the file is a third step.
  `ratio` is always 0, because `init_counter` tests the global before it is set
  (`counter.c:38`), so `check_ratio` and `signal_ratio` return at once.
  `counter.c:24` says "0 for readers, 1 for writers", but 0 is
  `COUNTER_INCREMENT` and gives writers priority; the model follows the code.
* **CounterServer.** `connfd[t]` is a server thread's connection,
  `accept_queue` the kernel's queue (`Backlog` + 1 places, as Linux counts),
  and `client[c]` where the client thread is. A client that closes before its
  request makes the server's `recv` end the process (`recv_request_closed`).
* **ClientList.** Each operation holds `client_list_mutex` throughout and is one
  action. A slot's arrays are sets of entries; the position inside the array
  is left out, the counters that bound it are kept. `status` is a ghost: what
  the code last did for a client.
* **Broker.** `accepting` and `polling[t]` are the local variables of
  `accept_thread`, `fordwarder_thread` and `subscriber_thread`: what they
  copied from the table, and what is left to do with it: `conns` are the
  readable connections that are still to be read from, in any order, because the
  arrays of `ClientList` have none. `owner[f]` is
  the connection behind a descriptor; `accept_new_client` takes the lowest free
  number, as the kernel does, so a closed descriptor is used again. The
  subscribers of one message are sent to in any order, which covers the
  sequential, parallel and fair modes: the last two use a thread per
  subscriber and join them all. Reading the 8 bytes of a response out of a
  data message (it begins with a time) gives an OK with the id 0; the frames
  read after that are cut wrongly until the response itself comes by. An entry
  whose client left under a wrong id stays in the table; a thread then polls its
  descriptor's next owner. It may take that client's registration (an invalid
  action, dropped), so that the accept thread reads the next message in its
  place (`register_invalid_action`), or unregister a client that was refused.
  The model ends with the broker's process. `disturbed` is history: whether some
  client has taken a wrong id so far, or some topic has had two slots.
* **Shutdown.** A process is its Lamport clock: each thread loops over a
  `switch` on it, and the clock is the program counter of the model too. P2
  learns which connection is P1's from the second ready message (`recv_ready`).
  A send counts its event before it fails, as `send_message` does.
  `p2.c:6` says that P2 receives P1's acknowledgement at clock 5; both the code
  and the model do it at 7, which is the label the code switches on.
* **TopicList.** `adding` and `removing` are the two threads' position and local
  variables; every critical section of `topics_mutex` is a step of its own. A
  search by name is one step, because a name is in one slot (`TopicInOneSlot`,
  checked on the same steps), and a search for a free slot is one step per slot.
  `ended` is the access to `topics[-1]`, after which the broker is taken to be
  dead. That any listed client may be read from is more than `brok_seq_recv`
  does, so every order in which the code reads is one of the model. What is left
  out is that `accept` may give the number of a connection that the broker has
  closed to a new client, which the response of `proxy.c:207` would then reach.
* **TopicBroker.** `removing` is `main`, which both forwards and unregisters;
  `sending` is how far `brok_seq_send` is (it reads the subscribers' count again
  before every send, while the other thread may insert) and the threads that
  `brok_parallel_send` and `brok_fair_send` have created and join. The barrier of
  the fair mode is initialised and never waited at. `peer[c]` is the client's
  end of the connection: a send to one that has closed is refused by its kernel,
  the next raises SIGPIPE, and `broker_up` becomes false. One that closes with
  data unread resets the connection at once: the broker's next `recv`
  (`recv_error`) or send gets that error, and SIGPIPE comes with the send after.
* **Connections and the three servers.** A connection is its client; `unread`
  counts the pieces in which the server reads what the client has sent (RP1's
  client sends 256 bytes to a buffer of 255, so a second `recv` finds one more).
  A client that closes with data unread resets the connection: the server's next
  `recv` or `send` only gets that error, and a `send` after it raises SIGPIPE.
  `ArgumentServer.arg` is the variable whose address `pthread_create` passes and
  `params[t]` the thread's copy. `DescriptorServer.connfd[t]` is the number that
  `accept` returned to the thread, `descriptor` what the number stands for now,
  and `receiving[t]` the connection a blocked `recv` holds on to.
  `GlobalServer.global_connfd` is the one that every thread reads; a `recv` that
  has begun (`conn[t]`) keeps its connection. `own` and `raced` are history: the
  client a thread was made for, and whether what the threads share was disturbed.

## 3. Runs

| Run | Bounds | Shows |
|---|---|---|
| `counter_protocol` | 3 threads, both priorities, file absent or ending in 1, two more increments, no symmetry; 157,489 states | exclusion, no circular wait, counts and mutexes back to 0, no lost increment across crashes, results durable and distinct, priorities, `IInv`, that `Counter` implements `AtomicCounter`, and that calls complete (`CallsComplete`) and claims are served (`ClaimIsServed`) |
| `counter_starvation` | as above, readers' priority | violation: a writer may wait for ever |
| `counter_empty_file` | 3 threads, file absent or ending in 6 | violation: the counter restarts from an uninitialised buffer |
| `server_protocol` | 2 threads, 3 clients, one queued connection, readers' priority, no file at first, a buffer that reads 0 or 7 at each start; 894,297 states | one thread per connection, distinct increments, answers never go back across crashes and restarts unless the one that gave them left no line in its file, and every request is answered or its client or the server is gone |
| `clientlist_safety` | 5 clients, 3 topics, 2 slots, 2 publishers, 3 subscribers; 111,590 states | counters, membership, names; who is removed |
| `clientlist_subscribers` | as above | violation: a topic can own two slots, and `get_subscribers` sees one |
| `broker_safety` | 1 publisher with 2 messages, 2 subscribers, one may die, 2 slots for 2 topics; 1,268,651 states | order of data; registered clients keep their descriptors, and none is lost |
| `broker_liveness` | 1 publisher, 1 message, 2 subscribers; 94,072 states | data reaches every subscriber that stays |
| `broker_forwarding` | 2 publishers, 1 subscriber | violation: data is sent to a client that is no subscriber |
| `topic_broker` | 3 clients, 3 topics, 2 slots, 1 publisher and 2 subscribers per topic, 2 messages per publisher, 3 modes; 2,178,286 states | no topic in two slots, no closed connection in the table, no slot lost, nobody removed by another's message; what is forwarded goes to open connections of the table, in order, without gaps |
| `thread_servers` | 3 threads, 3 clients, one of which may be killed, 2 places, each of the 3 servers; 204,712 states | a thread serves its own connection or a later one; descriptors are neither lost nor mixed up, the counter is exact and everybody is answered unless there was a race; places are given back; Practica1's clients end |
| `shutdown_protocol` | exhaustive: 3 processes, no constants; 376 states | the clocks tell the phase, nothing unexpected, nobody hangs, ordered shutdown (`OrderedShutdown` is implemented) |

Why these bounds are enough to be interesting: with three threads the counter
has a first, a middle and a last reader (writer), two of one kind against one of
the other, and a third that arrives while the first leaves. A stored value of 1
and a limit of 3 leave two increments, enough for a lost one. Two server threads
for three clients make one wait. Five clients on two slots make slots free and
fill in every order. Two subscribers make a descriptor be reused while the other
is still served, and with two slots a topic can be in both; one that is full is
left to `clientlist_safety`. In `topic_broker` three clients make a topic empty
out while one comes and another is served, and two messages per publisher show
order; the index -1 (below) takes four clients, which was looked at once and is
not in a run. Three connections of the small servers are one that is being
served, one that overtakes it and one that waits. Deadlock is not checked where
the system may stop: the clients of the tables and of the servers come and go
once, and the shutdown ends.

The type invariants (`TypeOK`, `BrokerTypeOK`, `ServerTypeOK`) hold on these
instances and are proved for the counter, its server, the client list and the
broker; the runs leave them out in favour of properties that say more.

Bounds: `MaxCounter` (no increment is requested from there on), `Clients` (each
client thread makes one request or registers once), `MAX_PUBLISHED` (messages
per publisher), `MAX_KILLED` (clients that are killed), `Versions` (the servers
considered). They are environment limits; no step of the code is cut by them.

Fairness: weak fairness of each thread or process, that is, the kernel runs
what can run. For the counter it covers a thread's progress inside
`safe_access_counter`, not the arrival of calls, and it does not assume that a
mutex is fair: a blocked thread is not continuously enabled.
`FairMutexSpec` adds strong fairness, more than pthreads gives; only
`counter_starvation` uses it, to show that the writer starves even then. In the
server, connected clients go on to send, but nobody is obliged to connect. In
the broker the threads and the registered clients run; nobody is obliged to
connect, to register once connected, to leave or to die, so delivery is shown
also while the accept thread waits for a silent client. In the small servers
the threads run and every client is started, sends and receives; being killed is
never obliged. `AnsweredUnlessRaced` needs no more than that, because as many
clients come as Practica1's `main` accepts.

`disturbed` is the exception of the broker's two delivery properties. Once a
client has taken data for its registration's response, and with it an id that
is not its own, both are false: it later unregisters somebody else, and its own
entry stays in the table with a descriptor that is used again, so that its next
owner gets every message twice. Nor do they hold once a topic had two slots,
since a message goes to the subscribers of the lower slot alone, and those of the
other miss it. A client that misreads data and happens to have the id 0 is not an
exception: what it reads later is still in order.

`forgotten` is the exception of `AnswersNeverGoBack`: the clients that were
answered by a server that ended before its file had any line. It had counted from
0 or from an uninitialised buffer, the next one does so from scratch, and no
promise holds between the two. From the first line on nothing is forgotten.

### What disagrees

* `counter.c:38`: `--ratio` is ignored, so nothing bounds the wait of writers
  under readers' priority (`counter_starvation`).
* `counter.c:48`: after a crash between `fopen` and the first line, the file is
  empty and `atoi` reads an uninitialised buffer (`counter_empty_file`). The
  buffer need not read the same at the next start, so two restarts on an empty
  file can tell readers 7 and then 0: the only way for answers to go back
  (`forgotten`, above).
* `client_list.c:113`: a topic gets a second slot when a lower slot has been
  freed, and its subscribers are split (`clientlist_subscribers`).
* `proxy.c:260` (RP4): a client is in the table before it is answered, and takes
  data that is forwarded in between for the response, with the id 0 (see
  `disturbed` above).
* `Practica4_pub_sub/client_list.c`, where no run states the opposite but the
  model shows it: a client added between the test for an empty topic (l. 254)
  and its removal (l. 192) is cut off although it was answered OK; one added
  after the removal, at an index found before it, is listed in a slot without a
  name, which may then become another topic's (23 steps); the next one to search
  for its new topic again (l. 273) may not find it and use the index -1 (32
  steps); only the first client of a list can unregister (l. 77), and its
  connection is closed before it is answered.
* `Practica4_pub_sub/proxy.c`, likewise: a client that is sent data before its
  response takes it for the response (l. 108), gives up and closes; it is still
  in the table, and the second send after that (the response may be the first)
  raises SIGPIPE, which nothing catches. A client whose unregistration failed
  brings the same about. A connection
  that has ended stays readable, and `brok_seq_recv` returns at it on each pass
  (l. 356).
* The three small servers, by design: Practica1's threads read a variable that
  `main` overwrites, so one client may be served twice and another never; RP1's
  `simple_recv` closes a descriptor that its caller goes on to use and closes
  again (`ServidorMultiHilo/proxy.c:147`), by then perhaps another thread's;
  Practica3's threads receive from and answer to a global `connfd` and increment
  a counter without a lock. The properties of `thread_servers` say how far the
  damage goes.
* `proxy.c:296` (RP4): the forwarder sends to descriptors that may have been
  closed and given to another client since it copied them
  (`broker_forwarding`). If nobody connects in between, the send fails and ends
  the broker: the normal departure of a subscriber can stop the service.

## 4. Proofs

| Theorem | Statement |
|---|---|
| `CounterProofs!Invariance` | `Spec => []IInv` |
| `CounterTheorems!TypeCorrect`, `Exclusion`, `DeadlockFreedom`, `MutexesReturned`, `NoLostIncrement`, `MemoryIsDisk`, `ResultsAreDurable`, `ResultsAreDistinct`, `ReaderPriority` | the invariants of `counter_protocol`, and three that follow from the same and are in no run |
| `CounterTheorems!WriterPriority` | `Spec => NoReaderOvertakesWriter` |
| `CounterTheorems!Refinement` | `Spec => ImplementsAtomicCounter` |
| `CounterServerProofs!ServerInvariance` | `ServerSpec => []ServerInv` |
| `CounterServerProofs!ServerImplementsAtomicCounter` | `ServerSpec => Spec /\ ImplementsAtomicCounter` |
| `CounterServerProofs!ConnectionsAreServedOnce`, `AnswersAreDistinct` | the safety properties of `server_protocol` |
| `CounterServerProofs!AnswersAreInOrder` | `HistorySpec => []AnswersNeverGoBack` |
| `ClientListProofs!TableInvariance` | `Spec => []TableInv` |
| `ClientListProofs!TypeCorrect`, `CountersExact`, `NobodyIsDropped`, `IdsAreUnique`, `NamesAreFreed`, `UnregisterIsExact` | the properties of `clientlist_safety`, the types and that ids are unique |
| `BrokerProofs!DescriptorInvariance` | `BrokerSpec => []DescriptorInv` |
| `BrokerProofs!RegisteredKeepTheirs`, `NoDescriptorIsLost`, `SubscribersReadInOrder` | `RegisteredConnected`, `DescriptorsAccounted` and `DataInOrder`: all of `broker_safety` |
| `BrokerProofs!BrokerTypeCorrect` | `BrokerSpec => []BrokerTypeOK`, if `Clients` is finite |
| `BrokerProofs!CountersStayExact`, `NamesStayExact` | `CountersCount` and `NamedIffUsed` inside the broker |
| `ShutdownProofs!ClocksTellThePhase`, `NothingUnexpectedArrives` | the invariants of `shutdown_protocol` |
| `ShutdownProofs!ShutdownIsOrdered` | `Spec => ImplementsOrderedShutdown` |
| `TopicBrokerProofs!OneSlotPerTopic` | `Spec => []TopicInOneSlot`, for the table alone |
| `TopicBrokerProofs!OneSlotWhileForwarding`, `TableIsOpen`, `NoTopicStaysEmpty`, `ThreadsSendToListed`, `RemovesOwnOnly`, `NoGaps` | all of `topic_broker` |
| `ThreadServersProofs!ThreadsServeOwnOrLater`, `OpenDescriptorsAreHeld`, `NumbersAreOwn`, `PlacesAreGivenBack`, `CountsExactly` | the invariants of `thread_servers` |

**Counter.** Assumed: `Threads` is finite, `Priorities` are the two operations,
the values in a file are integers. The properties are not inductive by
themselves: exclusion depends on which threads hold `writing`, which no variable
says. `IInv` adds

* `MutexInv`: a mutex with a single owner is locked exactly while a thread is
  between its lock and its unlock; `writing` is locked exactly while some
  counted reader is past the first one's lock, or a writer is inside; likewise
  `reading` for writers;
* `CountInv`: `readers` and `writers` are the numbers of threads at the labels
  where they are counted;
* `BoundaryInv`: a thread between a count and the lock that goes with it is the
  only one counted, and after the last one's decrement there is none;
* `ProcessInv`, `DataInv`, `ResultInv`: a process that does not run holds
  nothing; the file's lines are consecutive and its last one is the counter
  minus an increment that is not yet on disk; results are at most that and
  distinct.

`CounterProofs` proves one lemma per part (`AccessMutexInv`, `AccessCountInv`,
...), each split by the line of code that is executed; `CountMeaning` turns
"the count is 1" into "this thread is the only one counted".
`NoCircularWait` follows without an ordering of the mutexes: whoever the blocked
thread waits for is in a set of labels, and the chain of these sets ends in a
thread that is not blocked.

The refinement mapping lets a read take effect when the reader copies the
counter, and an increment when its line is in the file, so that a crash before
that undoes an increment nobody was told of. `LockingIsInvisible` disposes of
the mutex operations, and `AccessRefines` treats the remaining lines.

**CounterServer.** Assumed, besides: the constants' types. `ServerInv` is `IInv`
with the server's types and three parts. `ConnectionInv`: a connection is in one
place, in the queue or with one thread, and a client that was not yet answered
has one. `RequestInv`: a thread inside `safe_access_counter` has a client, and is
on the side, reader's or writer's, of that client's request. `AnswerInv`: an
increment somebody was told of is in the file, and no thread on its way to an
answer has the same number. The steps of the counter are treated by their effect
(`Passes`, `Reads`, `Writes`, `Copies`) rather than by line, so that the server's
proofs need not know the mutexes. `ServerSpec => Spec` is proved step by step:
a step of the server is a step of `Counter` or leaves it alone. For
`AnswersNeverGoBack`, `HistoryInv` says that what a client knew when it connected,
and every answer not yet `forgotten`, is at most the value of the abstract
counter (`AbstractValue`), and below what the client's thread will answer. This
value falls in one case only: a server ends without a line in its file. Then
nobody waits for an answer any more, and what that server told is `forgotten`.
Nothing is assumed of the uninitialised buffer that an empty file is read into.

**ClientList.** Assumed: the empty name is no topic and the three limits are
natural numbers. `TableInv` adds to the run's invariants that `entries` is
finite, that ids in the table are below `id_counter`, and that every entry
belongs to the client it was made for (`Homes`). `FoundIsOwn` then shows that
`remove_client` finds its own client's entry or, if the topic has two slots,
nothing. All of it but `RegisteredAreListed` (`TableExact`) is kept by a
`remove_client` with any id whatsoever, which is what the broker's proofs use.

**Broker.** Assumed: descriptors are natural numbers, none of the clients is
`NoClient`, `MAX_PUBLISHED` is a natural number. That a registered client keeps
its descriptor depends on who else may close one. `DescriptorInv` adds: a client
that has not been accepted is unknown to the broker (`BacklogInv`), a descriptor
in use is the one its client was given (`OwnerInv`), the client being registered
has its descriptor or lost it to nobody, because only the accept thread gives
numbers away (`AcceptInv`), and a thread that is about to close a descriptor has
the one of a client of its own kind that has unregistered, so the two threads
never close the same one (`CloseInv`). The table's contents do not matter, so
stale entries are covered. `QuietPreserves` disposes of the steps that concern
none of this.

`DataInOrder` takes another invariant on top of it, and `TableInv`. What a
subscriber has read says nothing about what it will read, so the invariant is
about its `Stream`, what it has read followed by the data on its way. `OrderInv`
says, per client, what it can have sent that the broker has not read (`RequestOf`)
and whether a response is coming (`ResponseOf`); then `NextOf`, the number of the
next message the broker will read from a publisher, is one that the clients'
and the broker's steps agree on. `Orderly` is the heart of it: a stream has no
gaps, and its last message from a publisher of the topic is `NextOf - 1`, or
`NextOf - 2` while the forwarder has still to send it that message (`Pending`,
which goes by descriptor, since that is what the thread has copied). That a new
message then fits every stream needs the subscribers to be exact, which they are
while every topic has one slot (`SubscribersAre`); that a message reaches nobody
else needs descriptors to be distinct, which is `DescriptorInv`. One kind of
client is let off, the `Spoiled` one: it has got a descriptor from somebody who
unregistered while the forwarder still had data for it, will read that data as
its response and take the id 0, and so disturbs the run before it reads anything
else. `HistoryInv` is `~disturbed => OrderInv`. The lemmas on sequences
(`GapsAppend`, `GapsTail`, `GapsPrefix`, `ReadMoves`, `SendAppends`) say what
sending and reading do to a stream, and so `SubscribersReadInOrder` needs no
induction over data: each step changes a stream at one end.

`BrokerTypeCorrect` is stated for every run, disturbed ones too. It is more than
bookkeeping at one point: `received` holds data only, because of `AnswersOf`,
which says that a client is sent one response, and none before it is accepted,
and that a client which is active and not `misread` has read it. `TableExact`
holds all the time as well, so a client with a wrong id can evict another one but
cannot make the counters run past the arrays or lose a slot.

**TopicList, TopicBroker.** Assumed: the names of no topic and no client are
none, and the sizes are positive. `SlotInv` adds to `TopicInOneSlot` that, while
the registering thread looks for a free slot, its topic is in no slot: that was
so when it searched, and only this thread gives names to slots. `BrokerInv` adds
`ListInv` (a client is in one place at most, with an id of its own and an open
connection, and one that is being registered is nowhere yet), `MainInv` (the slot
that `main` removes from keeps its name, since nobody else takes one away) and
`ThreadsInv` (while `main` joins its threads no list gets shorter).

For `DataWithoutGaps`, `DataInv` says that a subscriber in a slot has been sent,
from the publishers of that topic, the last message that was forwarded, or the
last but one while this one is `Pending` for its place in the list, and from
other publishers nothing. Places shift when a list loses an entry, which is why
it matters that `main` does not forward while it removes (`RemovingMoves`), and
that a client is in no list before anything is sent to it (`FreshDataInv`). A
client in a slot without a name has been sent nothing, so that the name of
another topic may come upon it later.

**Shutdown.** `PeerInv` gives the clocks a peer can have relative to P2's: the
model has 376 states, but the argument is by these few relations rather than by
enumeration. The clocks, together with the order in which the peers' connections
were accepted (only until P2 has read both ready messages), determine the
contents of every channel (`FromPeer`, `ToPeer`), and from there each step of a
peer is one of three kinds: it is ready, told, or down. The refinement
counts a machine as down when it has acknowledged; `PeerEventMaps` and
`StateOnlyMaps` treat the steps that count and those that do not.

**ThreadServers.** Assumed: the sets' types. `ArgumentInv`: threads are created
in order, and the shared variable holds the connection of the last. `HeldInv`
and `OwnInv`: the number in a thread's hands is its own connection's, unless it
was closed behind its back. `SemaphoreInv`: the threads that run are finitely
many and took the missing places. `SerialInv`: while connections were served one
after the other, at most one thread is between `recv` and `sem_post`, with
`connfd` its own.

Every invariant, action property and refinement of the runs that pass has its
theorem. Only model-checked are the liveness properties (`ClaimIsServed`,
`CallsComplete`, `EveryRequestAnswered`, `DataArrives`, `NobodyHangs`,
`AnsweredUnlessRaced`, `Practica1ClientsEnd`), which rest on fairness and so on
ENABLED, out of the prover's reach; and, by their nature, the four properties
that the code violates.

## 5. Not modelled

Argument parsing, printing, time stamps and latency statistics; failures of
`socket`, `bind`, `listen` and `accept`; a failed write of the counter's file,
to which the code does not react; messages split over several `recv` calls
(`simple_recv` and `simple_send` loop until they have all of it; only the wrong
framing after a misread response is modelled); a topic with an empty name. The
components with status `not_modelled` in PROJECT.json give their reasons. Further:

* which connections Practica4's `brok_seq_recv` polls: it counts into
  uninitialised variables and indexes with `i*TOPICS_MAX+j`; the model lets it
  read from any listed client, and states no liveness of this broker;
* clients of the Practica4 broker that are killed (those that close are there);
* `Practica3_concurrencia/test.c`, an experiment with locks the server does not
  call, and a first start of that server with an empty file;
* RP1's and Practica1's other servers: conversations of one process at each end
  of one connection, typed at two keyboards, with no state to speak of.

## 6. Plan

Done, in this order: `Counter` and its proofs, `CounterServer`, `ClientList` and
its proofs, `Shutdown`, `Broker`, `TopicList`, the three servers with a thread per
client and their proofs, `TopicBroker` and its proofs, the proofs about the server
and about the broker's descriptors, those about the order of data in both brokers
and about the shutdown. Left:

1. An abstract publish/subscribe service for `Broker` to implement for as long as
   nothing is `disturbed`.
2. Four clients in `topic_broker`, for the index -1.
