--------------------------- MODULE ShutdownProofs ---------------------------
(***************************************************************************)
(* Proofs about Shutdown: that the clocks tell the phase, that nothing     *)
(* unexpected arrives, and that the protocol implements OrderedShutdown.   *)
(*                                                                         *)
(* The inductive invariant says what the three clocks may be together, and *)
(* that the clocks (and the order of P2's two connections, until it has    *)
(* read both) determine what every channel holds.                          *)
(***************************************************************************)
EXTENDS Shutdown, SequenceTheorems, TLAPS

Clock(p) == local_clock_lamport[p]
USE DEF Clock

\* The process goes on, or its send fails.
Outcome(p) == state' = state \/ Stop(p, "failed")

Message(p, a, n) == [origin |-> p, action |-> a, clock_lamport |-> n]

\* The clock that P2's order to p carries.
Order(p) == IF p = P1 THEN 4 ELSE 8

\* P2 has read p's ready message.
Heard(p) == Clock(P2) >= 3 \/ (Clock(P2) = 2 /\ connfd[1] = p)

\* A peer is ready before P2 has heard so, and goes down after its order, and P2
\* goes on when it has.
PeerInv(p) ==
  /\ Clock(p) \in {0, 1, Order(p) + 1, Order(p) + 2}
  /\ Heard(p) => Clock(p) >= 1
  /\ Clock(p) > Order(p) => Clock(P2) >= Order(p)
  /\ Clock(P2) > Order(p) => Clock(p) = Order(p) + 2

ClocksInv ==
  /\ local_clock_lamport \in [Processes -> Nat]
  /\ Clock(P2) \in {0, 2, 3, 4, 7, 8, 11}
  /\ \A p \in Peers : PeerInv(p)

StateInv ==
  /\ state \in [Processes -> {"start", "running", "ended", "failed"}]
  /\ \A p \in Processes : state[p] = "start" => Clock(p) = 0
  /\ state[P2] = "ended" => Clock(P2) = 11

\* A peer connects once, and P2 knows both, P1 first, when it orders anything.
ConnInv ==
  /\ queue \in Seq(Peers) /\ connfd \in Seq(Peers) /\ Len(connfd) <= 2
  /\ \A i \in DOMAIN queue : state[queue[i]] # "start"
  /\ \A i \in DOMAIN connfd : state[connfd[i]] # "start"
  /\ \A i, j \in DOMAIN queue : queue[i] = queue[j] => i = j
  /\ \A i, j \in DOMAIN connfd : connfd[i] = connfd[j] => i = j
  /\ \A i \in DOMAIN queue, j \in DOMAIN connfd : queue[i] # connfd[j]
  /\ Clock(P2) > 0 => Len(connfd) = 2
  /\ Clock(P2) >= 3 => connfd = <<P1, P3>>

\* What p has sent and P2 has not read: the ready message, then the
\* acknowledgement.
FromPeer(p) ==
  IF Clock(p) >= 1 /\ ~Heard(p) THEN <<Message(p, READY_TO_SHUTDOWN, 1)>>
  ELSE IF Clock(p) = Order(p) + 2 /\ Clock(P2) = Order(p)
       THEN <<Message(p, SHUTDOWN_ACK, Order(p) + 2)>>
  ELSE <<>>

ToPeer(p) ==
  IF Clock(P2) >= Order(p) /\ Clock(p) = 1 THEN <<Message(P2, SHUTDOWN_NOW, Order(p))>> ELSE <<>>

ChanInv ==
  /\ chan = [l \in Links |-> chan[l]]
  /\ \A p \in Peers : chan[<<p, P2>>] = FromPeer(p) /\ chan[<<P2, p>>] = ToPeer(p)

ShutdownInv == ClocksInv /\ StateInv /\ ConnInv /\ ChanInv

-----------------------------------------------------------------------------
LEMMA Names ==
  /\ P1 # P2 /\ P2 # P3 /\ P1 # P3 /\ P1 \in Peers /\ P3 \in Peers
  /\ P2 \in Processes /\ P2 \notin Peers
  /\ Peers = {P1, P3} /\ Processes = {P1, P2, P3}
  /\ Order(P1) = 4 /\ Order(P3) = 8
<1>1. P1 # P2 /\ P2 # P3 /\ P1 # P3
  BY DEF P1, P2, P3
<1> QED
  BY <1>1 DEF Peers, Processes, Order

LEMMA LinksOfPeers ==
  /\ \A p \in Peers : <<p, P2>> \in Links /\ <<P2, p>> \in Links
  /\ \A p, q \in Peers : /\ <<p, P2>> # <<P2, q>>
                         /\ p # q => <<p, P2>> # <<q, P2>> /\ <<P2, p>> # <<P2, q>>
BY Names DEF Links

LEMMA PeerFacts ==
  ASSUME NEW p \in Peers
  PROVE  p \in Processes /\ P2 \in Processes /\ p # P2 /\ Order(p) \in {4, 8}
BY Names

LEMMA InvInit == Init => ShutdownInv
<1> SUFFICES ASSUME Init PROVE ShutdownInv
  OBVIOUS
<1>1. /\ local_clock_lamport = [p \in Processes |-> 0] /\ state = [p \in Processes |-> "start"]
      /\ queue = <<>> /\ connfd = <<>> /\ chan = [l \in Links |-> <<>>]
  BY DEF Init
<1>2. \A p \in Processes : Clock(p) = 0
  BY <1>1
<1>3. \A p \in Peers : ~Heard(p)
  BY <1>2, Names DEF Heard
<1>4. ClocksInv
  BY <1>1, <1>2, <1>3, Names DEF ClocksInv, PeerInv
<1>5. StateInv /\ ConnInv
  BY <1>1, <1>2, Names DEF StateInv, ConnInv
<1>6. ChanInv
  BY <1>1, <1>2, <1>3, Names, LinksOfPeers DEF ChanInv, FromPeer, ToPeer
<1> QED
  BY <1>4, <1>5, <1>6 DEF ShutdownInv

\* Only a process's state changes: it fails, ends, or starts to run.
LEMMA StateStep ==
  ASSUME ShutdownInv, NEW p \in Processes, NEW s \in {"running", "ended", "failed"}, Stop(p, s),
         UNCHANGED <<local_clock_lamport, queue, connfd, chan>>,
         p = P2 /\ s = "ended" => Clock(P2) = 11
  PROVE  ShutdownInv'
<1>1. ClocksInv' /\ ChanInv'
  BY DEF ShutdownInv, ClocksInv, ChanInv, PeerInv, FromPeer, ToPeer, Heard
<1>2. /\ state' \in [Processes -> {"start", "running", "ended", "failed"}] /\ state'[p] = s
      /\ \A q \in Processes : q # p => state'[q] = state[q]
  BY DEF ShutdownInv, StateInv, Stop
<1>3. StateInv'
  BY <1>2, Names DEF ShutdownInv, StateInv
<1>4. \A q \in Processes : state[q] # "start" => state'[q] # "start"
  BY <1>2
<1>5. ConnInv'
  <2>1. /\ \A i \in DOMAIN queue : queue[i] \in Processes
        /\ \A i \in DOMAIN connfd : connfd[i] \in Processes
    BY Names DEF ShutdownInv, ConnInv
  <2> QED
    BY <1>4, <2>1 DEF ShutdownInv, ConnInv
<1> QED
  BY <1>1, <1>3, <1>5 DEF ShutdownInv

-----------------------------------------------------------------------------
\* What a message that is sent, or received, changes.
LEMMA Sent ==
  ASSUME ShutdownInv, NEW p \in Processes, NEW q \in Processes, <<p, q>> \in Links, NEW a,
         send_message(p, q, a)
  PROVE  /\ local_clock_lamport' = [local_clock_lamport EXCEPT ![p] = Clock(p) + 1]
         /\ chan' = [chan EXCEPT ![<<p, q>>] = Append(@, Message(p, a, Clock(p) + 1))]
         /\ Outcome(p) /\ UNCHANGED <<queue, connfd>>
<1>1. local_clock_lamport' = [local_clock_lamport EXCEPT ![p] = Clock(p) + 1]
  BY DEF send_message
<1>2. local_clock_lamport'[p] = Clock(p) + 1
  BY <1>1 DEF ShutdownInv, ClocksInv
<1> QED
  BY <1>1, <1>2 DEF send_message, Message, Outcome

LEMMA Received ==
  ASSUME ShutdownInv, NEW p \in Processes, NEW q \in Processes, <<q, p>> \in Links, NEW a, NEW n \in Nat,
         state[p] = "running", Clock(p) <= n,
         chan[<<q, p>>] # <<>> => chan[<<q, p>>] = <<Message(q, a, n)>>,
         recv_message(p, q, a)
  PROVE  /\ local_clock_lamport' = [local_clock_lamport EXCEPT ![p] = n + 1]
         /\ chan' = [chan EXCEPT ![<<q, p>>] = <<>>]
         /\ state' = state
         /\ Head(chan[<<q, p>>]).origin = q
<1>1. /\ Head(chan[<<q, p>>]) = Message(q, a, n)
      /\ Tail(chan[<<q, p>>]) = <<>>
  <2>1. chan[<<q, p>>] = <<Message(q, a, n)>>
    BY DEF recv_message
  <2>2. \A x : Head(<<x>>) = x /\ Tail(<<x>>) = <<>>
    OBVIOUS
  <2> QED
    BY <2>1, <2>2
<1>2. /\ Head(chan[<<q, p>>]).clock_lamport = n /\ Head(chan[<<q, p>>]).action = a
      /\ Head(chan[<<q, p>>]).origin = q
  BY <1>1 DEF Message
<1>3. maximum(Clock(p), n) = n
  BY DEF maximum, ShutdownInv, ClocksInv
<1>4. local_clock_lamport' = [local_clock_lamport EXCEPT ![p] = n + 1]
  BY <1>2, <1>3 DEF recv_message
<1>5. state' = state
  BY <1>2 DEF recv_message, Stop, ShutdownInv, StateInv
<1> QED
  BY <1>1, <1>2, <1>4, <1>5 DEF recv_message

\* An event takes one clock to n and leaves the queue, and unless it fails the
\* states, alone: what
\* is left to show is what it does to the clocks together and to the channels.
LEMMA EventStep ==
  ASSUME ShutdownInv, NEW p \in Processes, NEW n \in Nat \ {0}, state[p] = "running",
         local_clock_lamport' = [local_clock_lamport EXCEPT ![p] = n],
         Outcome(p), UNCHANGED queue,
         connfd' = connfd \/ (connfd' = <<P1, P3>> /\ {connfd[1], connfd[2]} = Peers /\ Len(connfd) = 2),
         p = P2 => Len(connfd) = 2,
         p = P2 /\ n >= 3 => connfd' = <<P1, P3>>
  PROVE  /\ local_clock_lamport' \in [Processes -> Nat]
         /\ Clock(p)' = n /\ \A q \in Processes : q # p => Clock(q)' = Clock(q)
         /\ StateInv'
         /\ ConnInv'
<1>1. /\ local_clock_lamport' \in [Processes -> Nat]
      /\ Clock(p)' = n /\ \A q \in Processes : q # p => Clock(q)' = Clock(q)
  BY DEF ShutdownInv, ClocksInv
<1>0. /\ state' \in [Processes -> {"start", "running", "ended", "failed"}]
      /\ state'[p] \in {"running", "failed"} /\ \A q \in Processes : q # p => state'[q] = state[q]
  BY DEF Outcome, Stop, ShutdownInv, StateInv
<1>2. StateInv'
  BY <1>0, <1>1, Names DEF ShutdownInv, StateInv
<1>4. \A q \in Peers : state[q] # "start" => state'[q] # "start"
  BY <1>0, Names
<1>3. ConnInv'
  <2>0. /\ \A i \in DOMAIN queue : queue[i] \in Peers /\ state'[queue[i]] # "start"
        /\ \A i \in DOMAIN connfd : connfd[i] \in Peers /\ state'[connfd[i]] # "start"
    BY <1>4 DEF ShutdownInv, ConnInv
  <2>1. CASE connfd' = connfd
    BY <1>1, <2>0, <2>1, Names DEF ShutdownInv, ConnInv
  <2>2. CASE connfd' = <<P1, P3>> /\ {connfd[1], connfd[2]} = Peers /\ Len(connfd) = 2
    <3>1. /\ connfd' \in Seq(Peers) /\ Len(connfd') = 2 /\ DOMAIN connfd' = {1, 2}
          /\ connfd'[1] = P1 /\ connfd'[2] = P3 /\ DOMAIN connfd = {1, 2}
      BY <2>2, Names DEF ShutdownInv, ConnInv
    <3>2. \A j \in DOMAIN connfd' : \E i \in DOMAIN connfd : connfd'[j] = connfd[i]
      BY <2>2, <3>1, Names
    <3>3. /\ \A i \in DOMAIN connfd' : state'[connfd'[i]] # "start"
          /\ \A i \in DOMAIN queue', j \in DOMAIN connfd' : queue'[i] # connfd'[j]
      BY <2>0, <3>2 DEF ShutdownInv, ConnInv
    <3>4. \A i, j \in DOMAIN connfd' : connfd'[i] = connfd'[j] => i = j
      BY <3>1, Names
    <3> QED
      BY <1>1, <2>0, <2>2, <3>1, <3>3, <3>4, Names DEF ShutdownInv, ConnInv
  <2> QED
    BY <2>1, <2>2
<1> QED
  BY <1>1, <1>2, <1>3

-----------------------------------------------------------------------------
\* A channel changes as the clocks say.
LEMMA FromPeerStep ==
  ASSUME ChanInv, NEW p \in Peers, NEW m, chan' = [chan EXCEPT ![<<p, P2>>] = m],
         FromPeer(p)' = m, ToPeer(p)' = ToPeer(p),
         \A q \in Peers : q # p => FromPeer(q)' = FromPeer(q) /\ ToPeer(q)' = ToPeer(q)
  PROVE  ChanInv'
BY LinksOfPeers DEF ChanInv

LEMMA ToPeerStep ==
  ASSUME ChanInv, NEW p \in Peers, NEW m, chan' = [chan EXCEPT ![<<P2, p>>] = m],
         ToPeer(p)' = m, FromPeer(p)' = FromPeer(p),
         \A q \in Peers : q # p => FromPeer(q)' = FromPeer(q) /\ ToPeer(q)' = ToPeer(q)
  PROVE  ChanInv'
BY LinksOfPeers DEF ChanInv

\* The events of a peer: it is ready, ...
LEMMA PeerReady ==
  ASSUME ShutdownInv, NEW p \in Peers, state[p] = "running", Clock(p) = 0,
         send_message(p, P2, READY_TO_SHUTDOWN)
  PROVE  ShutdownInv'
<1>0. p \in Processes /\ P2 \in Processes /\ p # P2 /\ Order(p) \in {4, 8} /\ <<p, P2>> \in Links
  BY PeerFacts, LinksOfPeers
<1>1. /\ local_clock_lamport' = [local_clock_lamport EXCEPT ![p] = 1]
      /\ chan' = [chan EXCEPT ![<<p, P2>>] = Append(@, Message(p, READY_TO_SHUTDOWN, 1))]
      /\ Outcome(p) /\ UNCHANGED <<queue, connfd>>
  BY <1>0, Sent
<1>2. /\ local_clock_lamport' \in [Processes -> Nat] /\ StateInv' /\ ConnInv'
      /\ Clock(p)' = 1 /\ \A q \in Processes : q # p => Clock(q)' = Clock(q)
  <2>1. local_clock_lamport' = [local_clock_lamport EXCEPT ![p] = 1] /\ 1 \in Nat \ {0}
    BY <1>1
  <2>2. Outcome(p) /\ UNCHANGED queue /\ connfd' = connfd
    BY <1>1
  <2> QED
    BY <1>0, <2>1, <2>2, EventStep
<1>3. Clock(P2)' = Clock(P2) /\ \A q \in Peers : Heard(q)' <=> Heard(q)
  BY <1>0, <1>1, <1>2 DEF Heard
<1>4. ~Heard(p) /\ Clock(P2) < 3 /\ Clock(P2) \in Nat
  BY <1>0 DEF ShutdownInv, ClocksInv, PeerInv, Heard
<1>5. ClocksInv'
  <2>1. PeerInv(p)'
    BY <1>0, <1>2, <1>3, <1>4 DEF PeerInv
  <2>2. \A q \in Peers : q # p => PeerInv(q)'
    BY <1>2, <1>3, PeerFacts DEF ShutdownInv, ClocksInv, PeerInv
  <2> QED
    BY <1>2, <1>3, <2>1, <2>2 DEF ShutdownInv, ClocksInv
<1>6. ChanInv'
  <2>1. FromPeer(p)' = <<Message(p, READY_TO_SHUTDOWN, 1)>> /\ FromPeer(p) = <<>>
    BY <1>0, <1>2, <1>3, <1>4 DEF FromPeer
  <2>2. Append(chan[<<p, P2>>], Message(p, READY_TO_SHUTDOWN, 1)) = <<Message(p, READY_TO_SHUTDOWN, 1)>>
    <3>1. chan[<<p, P2>>] = <<>>
      BY <2>1 DEF ShutdownInv, ChanInv
    <3>2. \A x : Append(<<>>, x) = <<x>>
      OBVIOUS
    <3> QED
      BY <3>1, <3>2
  <2>3. ToPeer(p)' = ToPeer(p)
    BY <1>0, <1>2, <1>3, <1>4 DEF ToPeer
  <2>4. \A q \in Peers : q # p => FromPeer(q)' = FromPeer(q) /\ ToPeer(q)' = ToPeer(q)
    BY <1>2, <1>3, PeerFacts DEF FromPeer, ToPeer
  <2> QED
    BY <1>1, <2>1, <2>2, <2>3, <2>4, FromPeerStep DEF ShutdownInv
<1> QED
  BY <1>2, <1>5, <1>6 DEF ShutdownInv

\* ... is told to go down, ...
LEMMA PeerTold ==
  ASSUME ShutdownInv, NEW p \in Peers, state[p] = "running", Clock(p) \in 1..Order(p),
         recv_message(p, P2, SHUTDOWN_NOW), UNCHANGED <<queue, connfd>>
  PROVE  ShutdownInv' /\ Clock(p)' = Order(p) + 1 /\ Clock(P2)' = Clock(P2) /\ state' = state
<1>0. p \in Processes /\ P2 \in Processes /\ p # P2 /\ Order(p) \in {4, 8} /\ <<P2, p>> \in Links
  BY PeerFacts, LinksOfPeers
<1>1. chan[<<P2, p>>] = ToPeer(p) /\ chan[<<P2, p>>] # <<>>
  BY DEF ShutdownInv, ChanInv, recv_message
<1>2. Clock(P2) = Order(p) /\ Clock(p) = 1
  BY <1>0, <1>1 DEF ToPeer, ShutdownInv, ClocksInv, PeerInv
<1>3. chan[<<P2, p>>] = <<Message(P2, SHUTDOWN_NOW, Order(p))>>
  BY <1>1 DEF ToPeer
<1>4. /\ local_clock_lamport' = [local_clock_lamport EXCEPT ![p] = Order(p) + 1]
      /\ chan' = [chan EXCEPT ![<<P2, p>>] = <<>>]
      /\ state' = state
  <2>1. Order(p) \in Nat /\ Clock(p) <= Order(p)
    BY <1>0, <1>2
  <2> QED
    BY <1>0, <1>3, <2>1, Received
<1>5. /\ local_clock_lamport' \in [Processes -> Nat] /\ StateInv' /\ ConnInv'
      /\ Clock(p)' = Order(p) + 1 /\ \A q \in Processes : q # p => Clock(q)' = Clock(q)
  <2>1. Order(p) + 1 \in Nat \ {0} /\ Outcome(p) /\ UNCHANGED queue /\ connfd' = connfd
    BY <1>0, <1>4 DEF Outcome
  <2>2. local_clock_lamport' = [local_clock_lamport EXCEPT ![p] = Order(p) + 1]
    BY <1>4
  <2> QED
    BY <1>0, <2>1, <2>2, EventStep
<1>6. Clock(P2)' = Clock(P2) /\ \A q \in Peers : Heard(q) /\ Heard(q)'
  BY <1>0, <1>2, <1>5 DEF Heard
<1>7. ClocksInv'
  <2>1. PeerInv(p)'
    BY <1>0, <1>2, <1>5, <1>6 DEF PeerInv
  <2>2. \A q \in Peers : q # p => PeerInv(q)'
    BY <1>5, <1>6, PeerFacts DEF ShutdownInv, ClocksInv, PeerInv
  <2> QED
    BY <1>5, <1>6, <2>1, <2>2 DEF ShutdownInv, ClocksInv
<1>8. ChanInv'
  <2>1. ToPeer(p)' = <<>>
    BY <1>0, <1>5 DEF ToPeer
  <2>2. FromPeer(p)' = FromPeer(p)
    BY <1>0, <1>2, <1>5, <1>6 DEF FromPeer
  <2>3. \A q \in Peers : q # p => FromPeer(q)' = FromPeer(q) /\ ToPeer(q)' = ToPeer(q)
    BY <1>5, <1>6, PeerFacts DEF FromPeer, ToPeer
  <2> QED
    BY <1>4, <2>1, <2>2, <2>3, ToPeerStep DEF ShutdownInv
<1> QED
  BY <1>4, <1>5, <1>6, <1>7, <1>8 DEF ShutdownInv

\* ... and has gone down.
LEMMA PeerDown ==
  ASSUME ShutdownInv, NEW p \in Peers, state[p] = "running", Clock(p) = Order(p) + 1,
         send_message(p, P2, SHUTDOWN_ACK)
  PROVE  ShutdownInv'
<1>0. p \in Processes /\ P2 \in Processes /\ p # P2 /\ Order(p) \in {4, 8} /\ <<p, P2>> \in Links
  BY PeerFacts, LinksOfPeers
<1>1. /\ local_clock_lamport' = [local_clock_lamport EXCEPT ![p] = Order(p) + 2]
      /\ chan' = [chan EXCEPT ![<<p, P2>>] = Append(@, Message(p, SHUTDOWN_ACK, Order(p) + 2))]
      /\ Outcome(p) /\ UNCHANGED <<queue, connfd>>
  <2>1. Clock(p) + 1 = Order(p) + 2
    BY <1>0
  <2> QED
    BY <1>0, <2>1, Sent
<1>2. /\ local_clock_lamport' \in [Processes -> Nat] /\ StateInv' /\ ConnInv'
      /\ Clock(p)' = Order(p) + 2 /\ \A q \in Processes : q # p => Clock(q)' = Clock(q)
  <2>1. local_clock_lamport' = [local_clock_lamport EXCEPT ![p] = Order(p) + 2]
    BY <1>1
  <2>2. Outcome(p) /\ UNCHANGED queue /\ connfd' = connfd /\ Order(p) + 2 \in Nat \ {0}
    BY <1>0, <1>1
  <2> QED
    BY <1>0, <2>1, <2>2, EventStep
<1>3. Clock(P2)' = Clock(P2) /\ Clock(P2) = Order(p) /\ \A q \in Peers : Heard(q) /\ Heard(q)'
  <2>1. PeerInv(p)
    BY DEF ShutdownInv, ClocksInv
  <2>2. Clock(P2) = Order(p)
    BY <1>0, <2>1 DEF ShutdownInv, ClocksInv, PeerInv
  <2> QED
    BY <1>0, <1>2, <2>2 DEF Heard
<1>5. ClocksInv'
  <2>1. PeerInv(p)'
    BY <1>0, <1>2, <1>3 DEF PeerInv
  <2>2. \A q \in Peers : q # p => PeerInv(q)'
    BY <1>2, <1>3, PeerFacts DEF ShutdownInv, ClocksInv, PeerInv
  <2> QED
    BY <1>2, <1>3, <2>1, <2>2 DEF ShutdownInv, ClocksInv
<1>6. ChanInv'
  <2>1. FromPeer(p)' = <<Message(p, SHUTDOWN_ACK, Order(p) + 2)>> /\ FromPeer(p) = <<>>
    BY <1>0, <1>2, <1>3 DEF FromPeer
  <2>2. Append(chan[<<p, P2>>], Message(p, SHUTDOWN_ACK, Order(p) + 2)) = <<Message(p, SHUTDOWN_ACK, Order(p) + 2)>>
    <3>1. chan[<<p, P2>>] = <<>>
      BY <2>1 DEF ShutdownInv, ChanInv
    <3>2. \A x : Append(<<>>, x) = <<x>>
      OBVIOUS
    <3> QED
      BY <3>1, <3>2
  <2>3. ToPeer(p)' = ToPeer(p)
    BY <1>0, <1>2, <1>3 DEF ToPeer
  <2>4. \A q \in Peers : q # p => FromPeer(q)' = FromPeer(q) /\ ToPeer(q)' = ToPeer(q)
    BY <1>2, <1>3, PeerFacts DEF FromPeer, ToPeer
  <2> QED
    BY <1>1, <2>1, <2>2, <2>3, <2>4, FromPeerStep DEF ShutdownInv
<1> QED
  BY <1>2, <1>5, <1>6 DEF ShutdownInv

\* The events of P2: it orders p to go down, ...
LEMMA Ordering ==
  ASSUME ShutdownInv, NEW p \in Peers, state[P2] = "running", Clock(P2) = Order(p) - 1,
         send_message(P2, p, SHUTDOWN_NOW)
  PROVE  ShutdownInv'
<1>0. p \in Processes /\ P2 \in Processes /\ p # P2 /\ Order(p) \in {4, 8} /\ <<P2, p>> \in Links
  BY PeerFacts, LinksOfPeers
<1>1. /\ local_clock_lamport' = [local_clock_lamport EXCEPT ![P2] = Order(p)]
      /\ chan' = [chan EXCEPT ![<<P2, p>>] = Append(@, Message(P2, SHUTDOWN_NOW, Order(p)))]
      /\ Outcome(P2) /\ UNCHANGED <<queue, connfd>>
  <2>1. Clock(P2) + 1 = Order(p)
    BY <1>0
  <2> QED
    BY <1>0, <2>1, Sent
<1>2. connfd = <<P1, P3>> /\ Len(connfd) = 2
  BY <1>0 DEF ShutdownInv, ConnInv
<1>3. /\ local_clock_lamport' \in [Processes -> Nat] /\ StateInv' /\ ConnInv'
      /\ Clock(P2)' = Order(p) /\ \A q \in Processes : q # P2 => Clock(q)' = Clock(q)
  <2>1. local_clock_lamport' = [local_clock_lamport EXCEPT ![P2] = Order(p)]
    BY <1>1
  <2>2. Outcome(P2) /\ UNCHANGED queue /\ connfd' = connfd /\ Order(p) \in Nat \ {0} /\ connfd' = <<P1, P3>>
    BY <1>0, <1>1, <1>2
  <2> QED
    BY <1>0, <1>2, <2>1, <2>2, EventStep
<1>4. \A q \in Peers : Heard(q) /\ Heard(q)'
  BY <1>0, <1>3 DEF Heard
<1>5. Clock(p) = 1
  BY <1>0, <1>4 DEF ShutdownInv, ClocksInv, PeerInv
<1>6. ASSUME NEW q \in Peers, q # p
      PROVE  /\ PeerInv(q)' /\ FromPeer(q)' = FromPeer(q) /\ ToPeer(q)' = ToPeer(q)
  <2>1. PeerInv(q) /\ q \in Processes /\ q # P2
    BY PeerFacts DEF ShutdownInv, ClocksInv
  <2>2. (Order(p) = 4 /\ Order(q) = 8) \/ (Order(p) = 8 /\ Order(q) = 4)
    BY <1>6, Names
  <2>3. Clock(q)' = Clock(q)
    BY <1>3, <2>1
  <2> QED
    BY <1>3, <1>4, <2>1, <2>2, <2>3 DEF PeerInv, FromPeer, ToPeer
<1>7. ClocksInv'
  <2>1. PeerInv(p)'
    BY <1>0, <1>3, <1>5 DEF PeerInv
  <2>2. Clock(P2)' \in {0, 2, 3, 4, 7, 8, 11}
    BY <1>0, <1>3
  <2> QED
    BY <1>3, <1>6, <2>1, <2>2 DEF ClocksInv
<1>8. ChanInv'
  <2>1. ToPeer(p)' = <<Message(P2, SHUTDOWN_NOW, Order(p))>> /\ ToPeer(p) = <<>>
    BY <1>0, <1>3, <1>5 DEF ToPeer
  <2>2. Append(chan[<<P2, p>>], Message(P2, SHUTDOWN_NOW, Order(p))) = <<Message(P2, SHUTDOWN_NOW, Order(p))>>
    <3>1. chan[<<P2, p>>] = <<>>
      BY <2>1 DEF ShutdownInv, ChanInv
    <3>2. \A x : Append(<<>>, x) = <<x>>
      OBVIOUS
    <3> QED
      BY <3>1, <3>2
  <2>3. FromPeer(p)' = FromPeer(p)
    BY <1>0, <1>3, <1>4, <1>5 DEF FromPeer
  <2> QED
    BY <1>1, <1>6, <2>1, <2>2, <2>3, ToPeerStep DEF ShutdownInv
<1> QED
  BY <1>3, <1>7, <1>8 DEF ShutdownInv

\* ... and reads that it has gone down.
LEMMA Acknowledged ==
  ASSUME ShutdownInv, NEW p \in Peers, state[P2] = "running", Clock(P2) \in Order(p)..(Order(p) + 2),
         recv_message(P2, p, SHUTDOWN_ACK), UNCHANGED <<queue, connfd>>
  PROVE  ShutdownInv' /\ state' = state
<1>0. p \in Processes /\ P2 \in Processes /\ p # P2 /\ Order(p) \in {4, 8} /\ <<p, P2>> \in Links
  BY PeerFacts, LinksOfPeers
<1>1. chan[<<p, P2>>] = FromPeer(p) /\ chan[<<p, P2>>] # <<>>
  BY DEF ShutdownInv, ChanInv, recv_message
<1>2. Clock(P2) = Order(p) /\ Clock(p) = Order(p) + 2 /\ \A q \in Peers : Heard(q)
  BY <1>0, <1>1 DEF FromPeer, Heard, ShutdownInv, ClocksInv
<1>3. chan[<<p, P2>>] = <<Message(p, SHUTDOWN_ACK, Order(p) + 2)>>
  BY <1>1, <1>2 DEF FromPeer
<1>4. /\ local_clock_lamport' = [local_clock_lamport EXCEPT ![P2] = Order(p) + 3]
      /\ chan' = [chan EXCEPT ![<<p, P2>>] = <<>>]
      /\ state' = state
  <2>1. Order(p) + 2 \in Nat /\ Clock(P2) <= Order(p) + 2 /\ (Order(p) + 2) + 1 = Order(p) + 3
    BY <1>0, <1>2
  <2>2. ASSUME NEW n \in Nat, n = Order(p) + 2
        PROVE  /\ local_clock_lamport' = [local_clock_lamport EXCEPT ![P2] = n + 1]
               /\ chan' = [chan EXCEPT ![<<p, P2>>] = <<>>]
               /\ state' = state
    <3>1. Clock(P2) <= n /\ chan[<<p, P2>>] = <<Message(p, SHUTDOWN_ACK, n)>>
      BY <1>3, <2>1, <2>2
    <3> QED
      BY <1>0, <3>1, Received
  <2> QED
    BY <2>1, <2>2
<1>5. /\ local_clock_lamport' \in [Processes -> Nat] /\ StateInv' /\ ConnInv'
      /\ Clock(P2)' = Order(p) + 3 /\ \A q \in Processes : q # P2 => Clock(q)' = Clock(q)
  <2>1. connfd = <<P1, P3>> /\ Len(connfd) = 2
    BY <1>0, <1>2 DEF ShutdownInv, ConnInv
  <2>2. Order(p) + 3 \in Nat \ {0} /\ Outcome(P2) /\ UNCHANGED queue /\ connfd' = connfd /\ connfd' = <<P1, P3>>
    BY <1>0, <1>4, <2>1 DEF Outcome
  <2>3. local_clock_lamport' = [local_clock_lamport EXCEPT ![P2] = Order(p) + 3]
    BY <1>4
  <2> QED
    BY <1>0, <2>1, <2>2, <2>3, EventStep
<1>6. \A q \in Peers : Heard(q)'
  BY <1>0, <1>5 DEF Heard
<1>7. ASSUME NEW q \in Peers, q # p
      PROVE  /\ PeerInv(q)' /\ FromPeer(q)' = FromPeer(q) /\ ToPeer(q)' = ToPeer(q)
  <2>1. PeerInv(q) /\ q \in Processes /\ q # P2
    BY PeerFacts DEF ShutdownInv, ClocksInv
  <2>2. (Order(p) = 4 /\ Order(q) = 8) \/ (Order(p) = 8 /\ Order(q) = 4)
    BY <1>7, Names
  <2>3. Clock(q)' = Clock(q)
    BY <1>5, <2>1
  <2> QED
    BY <1>2, <1>5, <1>6, <2>1, <2>2, <2>3 DEF PeerInv, FromPeer, ToPeer
<1>8. ClocksInv'
  <2>1. PeerInv(p)'
    BY <1>0, <1>2, <1>5 DEF PeerInv
  <2>2. Clock(P2)' \in {0, 2, 3, 4, 7, 8, 11}
    BY <1>0, <1>5
  <2> QED
    BY <1>5, <1>7, <2>1, <2>2 DEF ClocksInv
<1>9. ChanInv'
  <2>1. FromPeer(p)' = <<>>
    BY <1>0, <1>5, <1>6 DEF FromPeer
  <2>2. ToPeer(p)' = ToPeer(p)
    BY <1>0, <1>2, <1>5 DEF ToPeer
  <2> QED
    BY <1>4, <1>7, <2>1, <2>2, FromPeerStep DEF ShutdownInv
<1> QED
  BY <1>4, <1>5, <1>8, <1>9 DEF ShutdownInv

\* P2 reads the first ready message, ...
LEMMA ConnectionsArePeers ==
  ASSUME ShutdownInv, Len(connfd) = 2
  PROVE  connfd[1] \in Peers /\ connfd[2] \in Peers /\ connfd[1] # connfd[2] /\ DOMAIN connfd = {1, 2}
<1>1. connfd \in Seq(Peers)
  BY DEF ShutdownInv, ConnInv
<1>2. DOMAIN connfd = {1, 2}
  BY <1>1
<1>3. \A i, j \in DOMAIN connfd : connfd[i] = connfd[j] => i = j
  BY DEF ShutdownInv, ConnInv
<1>4. connfd[1] \in Peers /\ connfd[2] \in Peers
  <2>1. \A i \in 1..Len(connfd) : connfd[i] \in Peers
    BY <1>1
  <2> QED
    BY <2>1
<1> QED
  BY <1>2, <1>3, <1>4

LEMMA HearsFirst ==
  ASSUME ShutdownInv, state[P2] = "running", Clock(P2) = 0, Len(connfd) = 2,
         recv_message(P2, connfd[1], READY_TO_SHUTDOWN), UNCHANGED <<queue, connfd>>
  PROVE  ShutdownInv' /\ state' = state
<1> DEFINE p == connfd[1]
<1>0. p \in Peers /\ p \in Processes /\ P2 \in Processes /\ p # P2 /\ Order(p) \in {4, 8} /\ <<p, P2>> \in Links
  <2>1. p \in Peers
    BY ConnectionsArePeers
  <2> QED
    BY <2>1, PeerFacts, LinksOfPeers
<1>1. recv_message(P2, p, READY_TO_SHUTDOWN)
  OBVIOUS
<1> HIDE DEF p
<1>2. chan[<<p, P2>>] = FromPeer(p) /\ chan[<<p, P2>>] # <<>>
  BY <1>0, <1>1 DEF ShutdownInv, ChanInv, recv_message
<1>3. \A q \in Peers : ~Heard(q)
  BY DEF Heard
<1>4. Clock(p) = 1 /\ FromPeer(p) = <<Message(p, READY_TO_SHUTDOWN, 1)>>
  BY <1>0, <1>2, <1>3 DEF FromPeer, ShutdownInv, ClocksInv, PeerInv
<1>5. /\ local_clock_lamport' = [local_clock_lamport EXCEPT ![P2] = 2]
      /\ chan' = [chan EXCEPT ![<<p, P2>>] = <<>>]
      /\ state' = state
  <2>1. 1 \in Nat /\ Clock(P2) <= 1
    OBVIOUS
  <2>2. \A n \in Nat : n = 1 =>
          /\ local_clock_lamport' = [local_clock_lamport EXCEPT ![P2] = n + 1]
          /\ chan' = [chan EXCEPT ![<<p, P2>>] = <<>>]
          /\ state' = state
    BY <1>0, <1>1, <1>2, <1>4, <2>1, Received
  <2> QED
    BY <2>1, <2>2
<1>6. /\ local_clock_lamport' \in [Processes -> Nat] /\ StateInv' /\ ConnInv'
      /\ Clock(P2)' = 2 /\ \A q \in Processes : q # P2 => Clock(q)' = Clock(q)
  <2>1. local_clock_lamport' = [local_clock_lamport EXCEPT ![P2] = 2]
    BY <1>5
  <2>2. Outcome(P2) /\ UNCHANGED queue /\ connfd' = connfd /\ 2 \in Nat \ {0} /\ Len(connfd) = 2 /\ ~(2 >= 3)
    BY <1>5 DEF Outcome
  <2> QED
    BY <1>0, <2>1, <2>2, EventStep
<1>7. \A q \in Peers : Heard(q)' <=> q = p
  <2>1. connfd'[1] = p
    BY DEF p
  <2> QED
    BY <1>6, <2>1 DEF Heard
<1>8. ASSUME NEW q \in Peers
      PROVE  /\ PeerInv(q)' /\ ToPeer(q)' = ToPeer(q) /\ FromPeer(q)' = IF q = p THEN <<>> ELSE FromPeer(q)
  <2>1. PeerInv(q) /\ q \in Processes /\ q # P2 /\ Order(q) \in {4, 8}
    BY PeerFacts DEF ShutdownInv, ClocksInv
  <2>2. Clock(q)' = Clock(q)
    BY <1>6, <2>1
  <2> QED
    BY <1>3, <1>4, <1>6, <1>7, <2>1, <2>2 DEF PeerInv, FromPeer, ToPeer
<1>9. ClocksInv' /\ ChanInv'
  <2>1. ClocksInv'
    BY <1>6, <1>8 DEF ClocksInv
  <2> QED
    BY <1>0, <1>5, <1>8, <2>1, FromPeerStep DEF ShutdownInv
<1> QED
  BY <1>5, <1>6, <1>9 DEF ShutdownInv

\* ... and the second, after which its connections are P1's and P3's.
LEMMA HearsSecond ==
  ASSUME ShutdownInv, state[P2] = "running", Clock(P2) \in 1..2, Len(connfd) = 2,
         recv_message(P2, connfd[2], READY_TO_SHUTDOWN),
         connfd' = IF Head(chan[<<connfd[2], P2>>]).origin = P1 /\ state'[P2] = "running"
                   THEN <<connfd[2], connfd[1]>> ELSE connfd,
         UNCHANGED queue
  PROVE  ShutdownInv' /\ state' = state
<1> DEFINE p == connfd[2]
           o == connfd[1]
<1>0. p \in Peers /\ p \in Processes /\ P2 \in Processes /\ p # P2 /\ Order(p) \in {4, 8} /\ <<p, P2>> \in Links
  <2>1. p \in Peers
    BY ConnectionsArePeers
  <2> QED
    BY <2>1, PeerFacts, LinksOfPeers
<1>1. recv_message(P2, p, READY_TO_SHUTDOWN)
  OBVIOUS
<1>2. o \in Peers /\ o # p /\ connfd = <<o, p>>
  BY DEF ShutdownInv, ConnInv
<1>3. connfd' = IF Head(chan[<<p, P2>>]).origin = P1 /\ state'[P2] = "running" THEN <<p, o>> ELSE connfd
  OBVIOUS
<1>4. Clock(P2) = 2 /\ \A q \in Peers : Heard(q) <=> q = o
  BY DEF Heard, ShutdownInv, ClocksInv
<1> HIDE DEF p, o
<1>5. chan[<<p, P2>>] = FromPeer(p) /\ chan[<<p, P2>>] # <<>>
  BY <1>0, <1>1 DEF ShutdownInv, ChanInv, recv_message
<1>6. Clock(p) = 1 /\ FromPeer(p) = <<Message(p, READY_TO_SHUTDOWN, 1)>> /\ Clock(o) >= 1
  <2>1. PeerInv(p) /\ PeerInv(o)
    BY <1>0, <1>2 DEF ShutdownInv, ClocksInv
  <2>2. Clock(p) = 1 /\ Clock(o) >= 1
    BY <1>0, <1>2, <1>4, <1>5, <2>1 DEF FromPeer, PeerInv
  <2> QED
    BY <1>0, <1>2, <1>4, <2>2 DEF FromPeer
<1>7. /\ local_clock_lamport' = [local_clock_lamport EXCEPT ![P2] = 3]
      /\ chan' = [chan EXCEPT ![<<p, P2>>] = <<>>]
      /\ state' = state
      /\ Head(chan[<<p, P2>>]).origin = p
  <2>1. Clock(P2) <= 2 /\ 1 <= 2 /\ maximum(Clock(P2), 1) + 1 = 3
    BY <1>4 DEF maximum
  <2>2. Head(chan[<<p, P2>>]) = Message(p, READY_TO_SHUTDOWN, 1) /\ Tail(chan[<<p, P2>>]) = <<>>
    <3>1. \A x : Head(<<x>>) = x /\ Tail(<<x>>) = <<>>
      OBVIOUS
    <3> QED
      BY <1>5, <1>6, <3>1
  <2>3. /\ Head(chan[<<p, P2>>]).clock_lamport = 1 /\ Head(chan[<<p, P2>>]).origin = p
        /\ Head(chan[<<p, P2>>]).action = READY_TO_SHUTDOWN
    BY <2>2 DEF Message
  <2>4. local_clock_lamport' = [local_clock_lamport EXCEPT ![P2] = maximum(Clock(P2), 1) + 1]
    BY <1>1, <2>3 DEF recv_message
  <2>5. state' = state
    BY <1>1, <2>3 DEF recv_message, Stop, ShutdownInv, StateInv
  <2>6. chan' = [chan EXCEPT ![<<p, P2>>] = <<>>]
    BY <1>1, <2>2 DEF recv_message
  <2> QED
    BY <2>1, <2>3, <2>4, <2>5, <2>6
<1>8. connfd' = <<P1, P3>> /\ {o, p} = Peers
  <2>1. {o, p} = Peers
    BY <1>0, <1>2, Names
  <2>2. CASE p = P1
    BY <1>2, <1>3, <1>7, <2>1, <2>2, Names
  <2>3. CASE p = P3
    BY <1>2, <1>3, <1>7, <2>1, <2>3, Names
  <2> QED
    BY <1>0, <2>1, <2>2, <2>3, Names
<1>9. /\ local_clock_lamport' \in [Processes -> Nat] /\ StateInv' /\ ConnInv'
      /\ Clock(P2)' = 3 /\ \A q \in Processes : q # P2 => Clock(q)' = Clock(q)
  <2>1. local_clock_lamport' = [local_clock_lamport EXCEPT ![P2] = 3]
    BY <1>7
  <2>2. Outcome(P2) /\ UNCHANGED queue /\ connfd' = <<P1, P3>> /\ {connfd[1], connfd[2]} = Peers /\ 3 \in Nat \ {0}
    BY <1>7, <1>8 DEF o, p, Outcome
  <2> QED
    BY <1>0, <2>1, <2>2, EventStep
<1>10. \A q \in Peers : Heard(q)'
  BY <1>9 DEF Heard
<1>11. ASSUME NEW q \in Peers
       PROVE  /\ PeerInv(q)' /\ ToPeer(q)' = ToPeer(q) /\ FromPeer(q)' = IF q = p THEN <<>> ELSE FromPeer(q)
  <2>1. PeerInv(q) /\ q \in Processes /\ q # P2 /\ Order(q) \in {4, 8} /\ q \in {o, p}
    BY <1>8, PeerFacts DEF ShutdownInv, ClocksInv
  <2>2. Clock(q)' = Clock(q)
    BY <1>9, <2>1
  <2> QED
    BY <1>4, <1>6, <1>9, <1>10, <2>1, <2>2 DEF PeerInv, FromPeer, ToPeer
<1>12. ClocksInv' /\ ChanInv'
  <2>1. ClocksInv'
    BY <1>9, <1>11 DEF ClocksInv
  <2> QED
    BY <1>0, <1>7, <1>11, <2>1, FromPeerStep DEF ShutdownInv
<1> QED
  BY <1>7, <1>9, <1>12 DEF ShutdownInv

-----------------------------------------------------------------------------
\* The connections.
LEMMA SetupClient ==
  ASSUME ShutdownInv, NEW p \in Peers, setup_client(p)
  PROVE  ShutdownInv'
<1>1. p \in Processes /\ p # P2
  BY PeerFacts
<1>2. /\ state' = [state EXCEPT ![p] = "running"] /\ queue' = Append(queue, p) /\ state[p] = "start"
      /\ UNCHANGED <<local_clock_lamport, connfd, chan>>
  BY DEF setup_client, Stop
<1>3. /\ state' \in [Processes -> {"start", "running", "ended", "failed"}] /\ state'[p] = "running"
      /\ \A q \in Processes : q # p => state'[q] = state[q]
  BY <1>1, <1>2 DEF ShutdownInv, StateInv
<1>4. ClocksInv' /\ ChanInv'
  BY <1>2 DEF ShutdownInv, ClocksInv, ChanInv, PeerInv, FromPeer, ToPeer, Heard
<1>5. StateInv'
  BY <1>1, <1>2, <1>3, Names DEF ShutdownInv, StateInv
<1>6. ConnInv'
  <2>1. /\ queue' \in Seq(Peers) /\ DOMAIN queue' = DOMAIN queue \cup {Len(queue) + 1}
        /\ Len(queue) + 1 \notin DOMAIN queue /\ queue'[Len(queue) + 1] = p
        /\ \A i \in DOMAIN queue : queue'[i] = queue[i] /\ queue[i] \in Peers
    BY <1>2 DEF ShutdownInv, ConnInv
  <2>2. \A i \in DOMAIN connfd : connfd[i] \in Peers
    BY DEF ShutdownInv, ConnInv
  <2>3. /\ \A i \in DOMAIN queue : queue[i] # p
        /\ \A i \in DOMAIN connfd : connfd[i] # p
    BY <1>2 DEF ShutdownInv, ConnInv
  <2>4. \A q \in Peers : state[q] # "start" => state'[q] # "start"
    BY <1>3, PeerFacts
  <2>5. /\ \A i \in DOMAIN queue' : state'[queue'[i]] # "start"
        /\ \A i \in DOMAIN connfd' : state'[connfd'[i]] # "start"
    BY <1>2, <1>3, <2>1, <2>2, <2>4 DEF ShutdownInv, ConnInv
  <2>6. /\ \A i, j \in DOMAIN queue' : queue'[i] = queue'[j] => i = j
        /\ \A i \in DOMAIN queue', j \in DOMAIN connfd' : queue'[i] # connfd'[j]
    BY <1>2, <2>1, <2>3 DEF ShutdownInv, ConnInv
  <2> QED
    BY <1>2, <2>1, <2>5, <2>6 DEF ShutdownInv, ConnInv
<1> QED
  BY <1>4, <1>5, <1>6 DEF ShutdownInv

LEMMA AcceptNewClient ==
  ASSUME ShutdownInv, accept_new_client
  PROVE  ShutdownInv'
<1>1. /\ connfd' = Append(connfd, Head(queue)) /\ queue' = Tail(queue)
      /\ queue # <<>> /\ Len(connfd) < 2
      /\ UNCHANGED <<local_clock_lamport, state, chan>>
  BY DEF accept_new_client
<1>2. connfd \in Seq(Peers) /\ queue \in Seq(Peers) /\ Len(queue) \in Nat /\ Len(queue) >= 1 /\ Len(connfd) \in Nat
  <2>1. connfd \in Seq(Peers) /\ queue \in Seq(Peers)
    BY DEF ShutdownInv, ConnInv
  <2> QED
    BY <1>1, <2>1, EmptySeq, LenProperties
<1>3. Clock(P2) = 0
  BY <1>1, <1>2 DEF ShutdownInv, ConnInv, ClocksInv
<1>4. ClocksInv' /\ StateInv' /\ ChanInv'
  <2>1. \A q \in Peers : ~Heard(q) /\ ~Heard(q)'
    BY <1>1, <1>3 DEF Heard
  <2>2. \A q \in Peers : PeerInv(q)' = PeerInv(q) /\ FromPeer(q)' = FromPeer(q) /\ ToPeer(q)' = ToPeer(q)
    BY <1>1, <2>1 DEF PeerInv, FromPeer, ToPeer
  <2> QED
    BY <1>1, <2>2 DEF ShutdownInv, ClocksInv, StateInv, ChanInv
<1>5. ConnInv'
  <2>1. /\ connfd' \in Seq(Peers) /\ Len(connfd') = Len(connfd) + 1
        /\ DOMAIN connfd' = DOMAIN connfd \cup {Len(connfd) + 1} /\ Len(connfd) + 1 \notin DOMAIN connfd
        /\ connfd'[Len(connfd) + 1] = queue[1] /\ \A i \in DOMAIN connfd : connfd'[i] = connfd[i]
    BY <1>1, <1>2
  <2>2. /\ queue' \in Seq(Peers) /\ 1 \in DOMAIN queue
        /\ \A i \in DOMAIN queue' : i \in Nat /\ i + 1 \in DOMAIN queue /\ i + 1 # 1 /\ queue'[i] = queue[i + 1]
    BY <1>1, <1>2
  <2>3. /\ \A i \in DOMAIN queue' : state'[queue'[i]] # "start"
        /\ \A i \in DOMAIN connfd' : state'[connfd'[i]] # "start"
    BY <1>1, <2>1, <2>2 DEF ShutdownInv, ConnInv
  <2>4. /\ \A i, j \in DOMAIN queue' : queue'[i] = queue'[j] => i = j
        /\ \A i, j \in DOMAIN connfd' : connfd'[i] = connfd'[j] => i = j
        /\ \A i \in DOMAIN queue', j \in DOMAIN connfd' : queue'[i] # connfd'[j]
    BY <2>1, <2>2 DEF ShutdownInv, ConnInv
  <2> QED
    BY <1>1, <1>2, <1>3, <2>1, <2>2, <2>3, <2>4 DEF ConnInv
<1> QED
  BY <1>4, <1>5 DEF ShutdownInv

-----------------------------------------------------------------------------
\* Every step is one of the above.
StateOnly(p, s) ==
  /\ Stop(p, s) /\ UNCHANGED <<local_clock_lamport, queue, connfd, chan>>
  /\ state[p] \in {"start", "running"} /\ (p = P2 /\ s = "ended" => Clock(P2) = 11)

PeerEvent(p) ==
  /\ state[p] = "running"
  /\ \/ Clock(p) = 0 /\ send_message(p, P2, READY_TO_SHUTDOWN)
     \/ Clock(p) \in 1..Order(p) /\ recv_message(p, P2, SHUTDOWN_NOW) /\ UNCHANGED <<queue, connfd>>
     \/ Clock(p) = Order(p) + 1 /\ send_message(p, P2, SHUTDOWN_ACK)

CoordinatorEvent ==
  /\ state[P2] = "running" /\ Len(connfd) = 2
  /\ \/ Clock(P2) = 0 /\ recv_message(P2, connfd[1], READY_TO_SHUTDOWN) /\ UNCHANGED <<queue, connfd>>
     \/ /\ Clock(P2) \in 1..2 /\ recv_message(P2, connfd[2], READY_TO_SHUTDOWN)
        /\ connfd' = IF Head(chan[<<connfd[2], P2>>]).origin = P1 /\ state'[P2] = "running"
                     THEN <<connfd[2], connfd[1]>> ELSE connfd
        /\ UNCHANGED queue
     \/ \E p \in Peers :
          \/ Clock(P2) = Order(p) - 1 /\ send_message(P2, p, SHUTDOWN_NOW)
          \/ /\ Clock(P2) \in Order(p)..(Order(p) + 2) /\ recv_message(P2, p, SHUTDOWN_ACK)
             /\ UNCHANGED <<queue, connfd>>

LEMMA PeerSteps ==
  ASSUME ShutdownInv, NEW p \in Peers, Step(p)
  PROVE  \/ setup_client(p) \/ PeerEvent(p) \/ \E s \in {"ended", "failed"} : StateOnly(p, s)
<1>1. p \in Processes /\ p # P2
  BY PeerFacts
<1>2. ASSUME NEW q \in Processes, recv_closed(p, q) \/ End(p), state[p] = "running"
      PROVE  \E s \in {"ended", "failed"} : StateOnly(p, s)
  BY <1>1, <1>2 DEF recv_closed, End, StateOnly
<1>3. CASE p = P1 /\ p1_thread_comm
  BY <1>1, <1>2, <1>3, Names, PeerFacts DEF p1_thread_comm, Recv, PeerEvent
<1>4. CASE p = P3 /\ p3_thread_comm
  BY <1>1, <1>2, <1>4, Names, PeerFacts DEF p3_thread_comm, Recv, PeerEvent
<1> QED
  BY <1>1, <1>3, <1>4 DEF Step

LEMMA CoordinatorSteps ==
  ASSUME ShutdownInv, Step(P2)
  PROVE  \/ accept_new_client \/ CoordinatorEvent
         \/ \E s \in {"running", "ended", "failed"} : StateOnly(P2, s)
<1>1. ASSUME NEW q, recv_closed(P2, q), state[P2] = "running"
      PROVE  \E s \in {"running", "ended", "failed"} : StateOnly(P2, s)
  BY <1>1 DEF recv_closed, StateOnly
<1>2. CASE setup_server
  BY <1>2, Names DEF setup_server, StateOnly
<1>3. CASE p2_thread_comm /\ ~accept_new_client
  <2>1. state[P2] = "running" /\ Len(connfd) = 2 /\ p2_loop
    BY <1>3 DEF p2_thread_comm
  <2>2. Clock(P2) \in {0, 2, 3, 4, 7, 8, 11} /\ (Clock(P2) >= 3 => connfd[1] = P1 /\ connfd[2] = P3)
    BY DEF ShutdownInv, ClocksInv, ConnInv
  <2>3. CASE Clock(P2) = 0
    BY <1>1, <2>1, <2>2, <2>3 DEF p2_loop, Recv, CoordinatorEvent
  <2>4. CASE Clock(P2) = 2
    BY <1>1, <2>1, <2>2, <2>4 DEF p2_loop, recv_ready, CoordinatorEvent
  <2>5. CASE Clock(P2) = 3
    BY <1>1, <2>1, <2>2, <2>5, Names DEF p2_loop, CoordinatorEvent
  <2>6. CASE Clock(P2) = 4
    BY <1>1, <2>1, <2>2, <2>6, Names DEF p2_loop, Recv, CoordinatorEvent
  <2>7. CASE Clock(P2) = 7
    BY <1>1, <2>1, <2>2, <2>7, Names DEF p2_loop, CoordinatorEvent
  <2>8. CASE Clock(P2) = 8
    BY <1>1, <2>1, <2>2, <2>8, Names DEF p2_loop, Recv, CoordinatorEvent
  <2>9. CASE Clock(P2) = 11
    <3>1. End(P2)
      BY <2>1, <2>9 DEF p2_loop
    <3> QED
      BY <2>1, <2>9, <3>1, Names DEF End, StateOnly
  <2> QED
    BY <2>2, <2>3, <2>4, <2>5, <2>6, <2>7, <2>8, <2>9
<1> QED
  BY <1>2, <1>3, Names DEF Step

LEMMA NextSteps ==
  ASSUME ShutdownInv, Next
  PROVE  \/ \E p \in Processes, s \in {"running", "ended", "failed"} : StateOnly(p, s)
         \/ \E p \in Peers : setup_client(p) \/ PeerEvent(p)
         \/ accept_new_client \/ CoordinatorEvent
<1>1. ASSUME NEW p \in Processes, Crash(p)
      PROVE  StateOnly(p, "failed")
  BY <1>1 DEF Crash, StateOnly
<1>2. PICK p \in Processes : Step(p) \/ Crash(p)
  BY DEF Next
<1>3. CASE Crash(p)
  BY <1>1, <1>3
<1>4. CASE Step(p) /\ p \in Peers
  BY <1>4, PeerSteps
<1>5. CASE Step(p) /\ p = P2
  BY <1>5, CoordinatorSteps
<1> QED
  BY <1>2, <1>3, <1>4, <1>5, Names

LEMMA InvStep == ShutdownInv /\ [Next]_vars => ShutdownInv'
<1> SUFFICES ASSUME ShutdownInv, [Next]_vars PROVE ShutdownInv'
  OBVIOUS
<1>1. CASE UNCHANGED vars
  <2>1. UNCHANGED <<local_clock_lamport, state, queue, connfd, chan>>
    BY <1>1 DEF vars
  <2>2. \A p \in Peers : PeerInv(p)' = PeerInv(p) /\ FromPeer(p)' = FromPeer(p) /\ ToPeer(p)' = ToPeer(p)
    BY <2>1 DEF PeerInv, FromPeer, ToPeer, Heard
  <2> QED
    BY <2>1, <2>2 DEF ShutdownInv, ClocksInv, StateInv, ConnInv, ChanInv
<1>2. ASSUME NEW p \in Processes, NEW s \in {"running", "ended", "failed"}, StateOnly(p, s)
      PROVE  ShutdownInv'
  BY <1>2, StateStep DEF StateOnly
<1>3. ASSUME NEW p \in Peers, PeerEvent(p)
      PROVE  ShutdownInv'
  BY <1>3, PeerReady, PeerTold, PeerDown DEF PeerEvent
<1>4. CASE CoordinatorEvent
  BY <1>4, HearsFirst, HearsSecond, Ordering, Acknowledged DEF CoordinatorEvent
<1> QED
  BY <1>1, <1>2, <1>3, <1>4, NextSteps, SetupClient, AcceptNewClient

LEMMA InvAlways == Spec => []ShutdownInv
BY InvInit, InvStep, PTL DEF Spec

LEMMA InvTellsPhase == ShutdownInv => ClockTellsPhase
<1> SUFFICES ASSUME ShutdownInv, NEW p \in Processes, NEW k \in 3..local_clock_lamport[p]
    PROVE  /\ local_clock_lamport[P1] >= 1 /\ local_clock_lamport[P3] >= 1
           /\ local_clock_lamport[EventOf[k]] >= k
  BY DEF ClockTellsPhase
<1>1. PeerInv(P1) /\ PeerInv(P3) /\ Clock(P2) \in {0, 2, 3, 4, 7, 8, 11} /\ (Clock(P2) >= 3 => Heard(P1) /\ Heard(P3))
  BY Names DEF ShutdownInv, ClocksInv, Heard
<1>2. /\ Clock(P1) \in {0, 1, 5, 6} /\ Clock(P3) \in {0, 1, 9, 10}
      /\ Clock(P2) >= 3 => Clock(P1) >= 1 /\ Clock(P3) >= 1
      /\ (Clock(P1) > 4 => Clock(P2) >= 4) /\ (Clock(P2) > 4 => Clock(P1) = 6)
      /\ (Clock(P3) > 8 => Clock(P2) >= 8) /\ (Clock(P2) > 8 => Clock(P3) = 10)
  BY <1>1, Names DEF PeerInv
<1>3. k \in 3..11 /\ Clock(p) >= k /\ p \in {P1, P2, P3}
  BY <1>1, <1>2, Names
<1>4. /\ EventOf[3] = P2 /\ EventOf[4] = P2 /\ EventOf[5] = P1 /\ EventOf[6] = P1 /\ EventOf[7] = P2
      /\ EventOf[8] = P2 /\ EventOf[9] = P3 /\ EventOf[10] = P3 /\ EventOf[11] = P2
  BY DEF EventOf
<1>5. Clock(P1) >= 1 /\ Clock(P3) >= 1 /\ Clock(P2) >= 3
  BY <1>1, <1>2, <1>3
<1>6. CASE k \in {3, 4}
  BY <1>1, <1>2, <1>3, <1>4, <1>5, <1>6
<1>7. CASE k \in {5, 6}
  BY <1>1, <1>2, <1>3, <1>4, <1>5, <1>7
<1>8. CASE k \in {7, 8}
  BY <1>1, <1>2, <1>3, <1>4, <1>5, <1>8
<1>9. CASE k \in {9, 10}
  BY <1>1, <1>2, <1>3, <1>4, <1>5, <1>9
<1>10. CASE k = 11
  BY <1>1, <1>2, <1>3, <1>4, <1>5, <1>10
<1> QED
  BY <1>3, <1>6, <1>7, <1>8, <1>9, <1>10

\* Whoever's clock has reached k knows that all events up to k have happened.
THEOREM ClocksTellThePhase == Spec => []ClockTellsPhase
BY InvAlways, InvTellsPhase, PTL

\* Whoever dies and whoever is accepted first, each process gets the messages it
\* waits for and no others.
THEOREM NothingUnexpectedArrives == Spec => []NothingUnexpected
<1>1. ShutdownInv => NothingUnexpected
  BY DEF ShutdownInv, StateInv, NothingUnexpected
<1> QED
  BY InvAlways, <1>1, PTL

-----------------------------------------------------------------------------
\* The refinement: OrderedShutdown's variables, as Shutdown's INSTANCE maps them.
readyBar == {p \in Peers : local_clock_lamport[p] >= 1}
downBar == IF local_clock_lamport[P3] >= 10 THEN 2 ELSE IF local_clock_lamport[P1] >= 6 THEN 1 ELSE 0
finishedBar == state[P2] = "ended"

LEMMA OrderedSteps ==
  /\ Ordered!Machines = Peers
  /\ \A p : Ordered!Ready(p) <=>
       readyBar' = readyBar \cup {p} /\ downBar' = downBar /\ finishedBar' = finishedBar
  /\ Ordered!Acknowledge <=>
       /\ readyBar = Peers /\ downBar < 2 /\ downBar' = downBar + 1
       /\ readyBar' = readyBar /\ finishedBar' = finishedBar
  /\ Ordered!Finish <=>
       downBar = 2 /\ finishedBar' = TRUE /\ readyBar' = readyBar /\ downBar' = downBar
  /\ UNCHANGED Ordered!vars <=>
       readyBar' = readyBar /\ downBar' = downBar /\ finishedBar' = finishedBar
<1>1. Ordered!Machines = Peers
  BY DEF Ordered!Machines, Peers
<1> QED
  BY <1>1 DEF Ordered!Ready, Ordered!Acknowledge, Ordered!Finish, Ordered!vars,
              readyBar, downBar, finishedBar

LEMMA OrderedInit == Init => Ordered!Init
BY Names DEF Init, Ordered!Init

\* A stutter leaves the peers' clocks, and whether P2 has ended, alone.
LEMMA OrderedStutter ==
  ASSUME Clock(P1)' = Clock(P1), Clock(P3)' = Clock(P3), finishedBar' = finishedBar
  PROVE  UNCHANGED Ordered!vars
<1>1. readyBar' = readyBar
  BY Names DEF readyBar
<1>2. downBar' = downBar
  BY DEF downBar
<1> QED
  BY <1>1, <1>2, OrderedSteps

\* A process that stops: P2 stops as it should only when both have gone down.
LEMMA StateOnlyMaps ==
  ASSUME ShutdownInv, NEW p \in Processes, NEW s \in {"running", "ended", "failed"}, StateOnly(p, s)
  PROVE  [Ordered!Next]_(Ordered!vars)
<1>1. /\ UNCHANGED local_clock_lamport /\ state' = [state EXCEPT ![p] = s] /\ state[p] # "ended"
      /\ state'[p] = s /\ \A q \in Processes : q # p => state'[q] = state[q]
  BY DEF StateOnly, Stop, ShutdownInv, StateInv
<1>2. CASE p = P2 /\ s = "ended"
  <2>1. Clock(P3) = 10
    BY <1>2, Names DEF StateOnly, ShutdownInv, ClocksInv, PeerInv
  <2>2. downBar = 2 /\ downBar' = downBar /\ readyBar' = readyBar /\ finishedBar' = TRUE
    BY <1>1, <1>2, <2>1 DEF downBar, readyBar, finishedBar
  <2> QED
    BY <2>2, OrderedSteps DEF Ordered!Next
<1>3. CASE ~(p = P2 /\ s = "ended")
  BY <1>1, <1>3, Names, OrderedStutter DEF finishedBar
<1> QED
  BY <1>2, <1>3

\* A peer's own event: it is ready, or it has gone down in its turn.
LEMMA PeerEventMaps ==
  ASSUME ShutdownInv, NEW p \in Peers, PeerEvent(p)
  PROVE  [Ordered!Next]_(Ordered!vars)
<1>0. PeerInv(P1) /\ PeerInv(P3) /\ p \in Processes /\ p \in {P1, P3} /\ local_clock_lamport \in [Processes -> Nat]
  BY Names, PeerFacts DEF ShutdownInv, ClocksInv
<1>1. CASE Clock(p) = 0 /\ send_message(p, P2, READY_TO_SHUTDOWN)
  <2>1. Clock(p)' = 1 /\ finishedBar' = finishedBar /\ \A q \in Processes : q # p => Clock(q)' = Clock(q)
    BY <1>0, <1>1, PeerFacts DEF send_message, Stop, finishedBar, ShutdownInv, StateInv
  <2>2. readyBar' = readyBar \cup {p} /\ downBar' = downBar /\ finishedBar' = finishedBar
    BY <1>1, <2>1, Names DEF readyBar, downBar
  <2> QED
    BY <2>2, OrderedSteps DEF Ordered!Next
<1>2. CASE Clock(p) \in 1..Order(p) /\ recv_message(p, P2, SHUTDOWN_NOW) /\ UNCHANGED <<queue, connfd>>
  <2>1. Clock(p)' = Order(p) + 1 /\ state' = state /\ \A q \in Processes : q # p => Clock(q)' = Clock(q)
    BY <1>0, <1>2, PeerTold DEF PeerEvent, recv_message
  <2>2. Clock(p) = 1
    BY <1>0, <1>2, Names DEF PeerInv
  <2>3. readyBar' = readyBar /\ downBar' = downBar /\ finishedBar' = finishedBar
    BY <1>0, <2>1, <2>2, Names DEF readyBar, downBar, finishedBar
  <2> QED
    BY <2>3, OrderedSteps
<1>3. CASE Clock(p) = Order(p) + 1 /\ send_message(p, P2, SHUTDOWN_ACK)
  <2>1. Clock(p)' = Order(p) + 2 /\ finishedBar' = finishedBar /\ \A q \in Processes : q # p => Clock(q)' = Clock(q)
    BY <1>0, <1>3, Names, PeerFacts DEF send_message, Stop, finishedBar, ShutdownInv, StateInv
  <2>2. Clock(P1) >= 1 /\ Clock(P3) >= 1
    BY <1>0, <1>3, Names DEF PeerInv, Heard, ShutdownInv, ClocksInv
  <2>3. p = P1 => Clock(P1)' = 6 /\ Clock(P1) = 5 /\ Clock(P3)' = Clock(P3) /\ Clock(P3) \in 0..9
    BY <1>0, <1>3, <2>1, Names DEF PeerInv
  <2>4. p = P3 => Clock(P3)' = 10 /\ Clock(P3) = 9 /\ Clock(P1)' = Clock(P1) /\ Clock(P1) = 6
    BY <1>0, <1>3, <2>1, Names DEF PeerInv, ShutdownInv, ClocksInv
  <2>5. readyBar = Peers /\ readyBar' = Peers
    BY <1>0, <2>1, <2>2, <2>3, <2>4, Names DEF readyBar
  <2>6. downBar < 2 /\ downBar' = downBar + 1 /\ finishedBar' = finishedBar
    <3>1. CASE p = P1
      BY <2>1, <2>3, <3>1 DEF downBar
    <3>2. CASE p = P3
      BY <2>1, <2>4, <3>2 DEF downBar
    <3> QED
      BY <1>0, <3>1, <3>2
  <2> QED
    BY <2>5, <2>6, OrderedSteps DEF Ordered!Next
<1> QED
  BY <1>1, <1>2, <1>3 DEF PeerEvent

LEMMA OrderedStep == ShutdownInv /\ [Next]_vars => [Ordered!Next]_(Ordered!vars)
<1> SUFFICES ASSUME ShutdownInv, [Next]_vars PROVE [Ordered!Next]_(Ordered!vars)
  OBVIOUS
<1>1. CASE UNCHANGED vars
  BY <1>1, OrderedStutter DEF vars, finishedBar
<1>2. ASSUME NEW p \in Peers, setup_client(p)
      PROVE  UNCHANGED Ordered!vars
  <2>1. UNCHANGED local_clock_lamport /\ state'[P2] = state[P2]
    BY <1>2, PeerFacts DEF setup_client, Stop, ShutdownInv, StateInv
  <2> QED
    BY <2>1, OrderedStutter DEF finishedBar
<1>3. CASE accept_new_client
  BY <1>3, OrderedStutter DEF accept_new_client, finishedBar
<1>4. CASE CoordinatorEvent
  <2>1. /\ local_clock_lamport \in [Processes -> Nat]
        /\ \E n : local_clock_lamport' = [local_clock_lamport EXCEPT ![P2] = n]
    BY <1>4 DEF CoordinatorEvent, send_message, recv_message, ShutdownInv, ClocksInv
  <2>2. Clock(P1)' = Clock(P1) /\ Clock(P3)' = Clock(P3)
    BY <2>1, Names
  <2>3. state[P2] = "running" /\ state' \in [Processes -> {"start", "running", "ended", "failed"}]
    BY <1>4, InvStep DEF CoordinatorEvent, ShutdownInv, StateInv
  <2>4. state'[P2] # "ended"
    BY <1>4, <2>3, Names DEF CoordinatorEvent, send_message, recv_message, Stop
  <2> QED
    BY <2>2, <2>3, <2>4, OrderedStutter DEF finishedBar
<1> QED
  BY <1>1, <1>2, <1>3, <1>4, NextSteps, StateOnlyMaps, PeerEventMaps

\* P1 goes down before P3, each after all were ready, and P2 is done last: every
\* step of the program is one of the abstract protocol's, or a stutter of it.
THEOREM ShutdownIsOrdered == Spec => ImplementsOrderedShutdown
BY InvAlways, OrderedInit, OrderedStep, PTL DEF Spec, ImplementsOrderedShutdown, Ordered!Spec
=============================================================================
