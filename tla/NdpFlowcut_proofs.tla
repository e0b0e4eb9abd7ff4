-------------------------- MODULE NdpFlowcut_proofs --------------------------
(***************************************************************************)
(* Proofs about the transport of NdpFlowcut, for every set of paths, flow  *)
(* size, window, routing and mode: types, and in-order delivery in a       *)
(* network that trims nothing.                                             *)
(***************************************************************************)
EXTENDS NdpFlowcut, FiniteSetTheorems, SequenceTheorems, WellFoundedInduction, TLAPS

-----------------------------------------------------------------------------
(* The operators the handlers are built from *)

\* The sizes of a finite set of sequence numbers are natural numbers.
LEMMA PacketSets ==
  ASSUME NEW S \in SUBSET Packets
  PROVE  IsFiniteSet(S) /\ Cardinality(S) \in Nat
<1>1. IsFiniteSet(Packets)
  BY FS_Interval, SizeAssumption DEF Packets
<1> QED
  BY <1>1, FS_Subset, FS_CardinalityType

\* When the next expected packet arrives, the cumulative acknowledgement
\* advances by at least one packet, passes only packets held back, and stays
\* within the flow.
LEMMA AdvanceType ==
  ASSUME NEW cum \in Nat, cum < NPackets, NEW held \in SUBSET Packets
  PROVE  /\ Advance(cum, held) \in cum + 1 .. NPackets
         /\ \A s \in cum + 2 .. Advance(cum, held) : s \in held
<1> DEFINE Gaps == {c \in Nat : c \in cum + 1 .. NPackets /\ c + 1 \notin held}
<1>1. NPackets \in Gaps
  BY SizeAssumption DEF Packets
<1>2. PICK c \in Gaps : \A d \in Gaps : ~ (<<d, c>> \in OpToRel(<, Nat))
  <2>1. Gaps # {} /\ Gaps \subseteq Nat
    BY <1>1
  <2> QED BY <2>1, WFMin, NatLessThanWellFounded
<1>3. \A d \in Gaps : ~ (d < c)
  BY <1>2 DEF OpToRel
<1>4. \A s \in cum + 2 .. c : s \in held
  <2> SUFFICES ASSUME NEW s \in cum + 2 .. c, s \notin held PROVE FALSE
    OBVIOUS
  <2>1. s - 1 \in Nat /\ s - 1 \in cum + 1 .. NPackets /\ (s - 1) + 1 \notin held /\ s - 1 < c
    BY SizeAssumption
  <2> QED BY <2>1, <1>3
<1>5. c \in cum + 1 .. NPackets /\ c + 1 \notin held
  OBVIOUS
<1> QED BY <1>4, <1>5 DEF Advance

\* Without a packet held back it advances by exactly one.
LEMMA AdvanceEmpty ==
  ASSUME NEW cum \in Nat, cum < NPackets
  PROVE  Advance(cum, {}) = cum + 1
<1>1. Advance(cum, {}) = CHOOSE c \in cum + 1 .. NPackets : \A s \in cum + 2 .. c : FALSE
  BY DEF Advance
<1>2. cum + 1 \in cum + 1 .. NPackets /\ \A s \in cum + 2 .. cum + 1 : FALSE
  BY SizeAssumption
<1>3. \A c \in cum + 1 .. NPackets : (\A s \in cum + 2 .. c : FALSE) => c = cum + 1
  <2> SUFFICES ASSUME NEW c \in cum + 1 .. NPackets, c # cum + 1
               PROVE  \E s \in cum + 2 .. c : TRUE
    OBVIOUS
  <2>1. c \in cum + 2 .. c
    OBVIOUS
  <2> QED BY <2>1
<1> QED BY <1>1, <1>2, <1>3

\* choose_route() returns an entropy of the source.
LEMMA RouteType ==
  ASSUME NEW once \in BOOLEAN, NEW first \in BOOLEAN, NEW choice \in Paths,
         NEW r \in choose_route(once, first, choice)
  PROVE  r.path \in Paths /\ r.first \in BOOLEAN /\ r.choice \in Paths
<1>1. \E p \in Paths, f \in BOOLEAN, c \in Paths : r = Route(p, f, c)
  <2>1. FromPath \in Paths /\ FALSE \in BOOLEAN
    BY PathsAssumption
  <2>2. CASE Routing = "ecmp"
    BY <2>1, <2>2, Zenon DEF choose_route
  <2>3. CASE Routing # "ecmp" /\ ~once
    BY <2>1, <2>3, Zenon DEF choose_route
  <2>4. CASE Routing # "ecmp" /\ once /\ Routing = "flowlet"
    BY <2>4, Zenon DEF choose_route
  <2>5. CASE Routing # "ecmp" /\ once /\ Routing # "flowlet"
    BY <2>1, <2>5, Zenon DEF choose_route
  <2> QED BY <2>2, <2>3, <2>4, <2>5, Zenon
<1>2. PICK p \in Paths, f \in BOOLEAN, c \in Paths : r = Route(p, f, c)
  BY <1>1
<1>3. r.path = p /\ r.first = f /\ r.choice = c
  BY <1>2 DEF Route
<1> QED BY <1>3

LEMMA NewPathidType ==
  ASSUME NEW p \in Paths
  PROVE  NewPathid(p) \in Paths
BY PathsAssumption DEF NewPathid


\* A function on 1..n is a sequence.
LEMMA FunctionIsSeq ==
  ASSUME NEW S, NEW n \in Nat, NEW f \in [1..n -> S]
  PROVE  f \in Seq(S)
BY SeqDef

\* A function on 1..n is a sequence of length n.
LEMMA FunctionLen ==
  ASSUME NEW S, NEW n \in Nat, NEW f \in [1..n -> S]
  PROVE  f \in Seq(S) /\ Len(f) = n
<1>1. f \in Seq(S)
  BY FunctionIsSeq
<1>2. Len(f) \in Nat /\ DOMAIN f = 1..Len(f) /\ DOMAIN f = 1..n
  BY <1>1, LenProperties
<1>3. \A m \in Nat : 1..m = 1..n => m = n
  <2> SUFFICES ASSUME NEW m \in Nat, 1..m = 1..n, m # n PROVE FALSE
    OBVIOUS
  <2>1. CASE m < n
    <3>1. n \in 1..n /\ n \notin 1..m
      BY <2>1
    <3> QED BY <3>1
  <2>2. CASE n < m
    <3>1. m \in 1..m /\ m \notin 1..n
      BY <2>2
    <3> QED BY <3>1
  <2> QED BY <2>1, <2>2
<1> QED BY <1>1, <1>2, <1>3

\* A sequence without one of its elements, as a trimmed or delivered packet
\* leaves it, is a sequence.
LEMMA RemoveAtType ==
  ASSUME NEW S, NEW q \in Seq(S), NEW i \in 1..Len(q)
  PROVE  RemoveAt(q, i) \in Seq(S)
<1>1. SubSeq(q, 1, i - 1) \in Seq(S)
  BY SubSeqProperties, ElementOfSeq
<1>2. SubSeq(q, i + 1, Len(q)) \in Seq(S)
  BY SubSeqProperties, ElementOfSeq
<1> QED BY <1>1, <1>2, ConcatProperties DEF RemoveAt

\* Wherever retransmissions enter a queue of packets, it stays one.
LEMMA OvertakeType ==
  ASSUME NEW S, NEW q \in Seq(S), NEW rs \in Seq(S), NEW t \in Overtake(q, rs)
  PROVE  t \in Seq(S)
<1>1. CASE rs = <<>>
  BY <1>1 DEF Overtake
<1>2. CASE rs # <<>>
  <2>1. PICK i \in 0..Len(q) : t = SubSeq(q, 1, i) \o rs \o SubSeq(q, i + 1, Len(q))
    BY <1>2 DEF Overtake
  <2>2. SubSeq(q, 1, i) \in Seq(S)
    BY SubSeqProperties, ElementOfSeq
  <2>3. SubSeq(q, i + 1, Len(q)) \in Seq(S)
    BY SubSeqProperties, ElementOfSeq
  <2>4. SubSeq(q, 1, i) \o rs \in Seq(S)
    BY <2>2, ConcatProperties
  <2> QED BY <2>1, <2>3, <2>4, ConcatProperties
<1> QED BY <1>1, <1>2

LEMMA TransmitType ==
  ASSUME net \in [Paths -> Seq(DataPackets)], NEW p \in Paths,
         NEW rs \in Seq(DataPackets), NEW new \in Seq(DataPackets),
         NEW n \in Transmit(p, rs, new)
  PROVE  n \in [Paths -> Seq(DataPackets)]
<1>1. PICK q \in Overtake(net[p], rs) :
        n = [[net EXCEPT ![p] = q] EXCEPT ![NewPathid(p)] = @ \o new]
  BY DEF Transmit
<1>2. q \in Seq(DataPackets)
  BY OvertakeType
<1> DEFINE mid == [net EXCEPT ![p] = q]
<1>3. mid \in [Paths -> Seq(DataPackets)]
  BY <1>2
<1>4. mid[NewPathid(p)] \o new \in Seq(DataPackets)
  BY <1>3, NewPathidType, ConcatProperties
<1>5. n = [mid EXCEPT ![NewPathid(p)] = mid[NewPathid(p)] \o new]
  BY <1>1
<1> HIDE DEF mid
<1> QED BY <1>3, <1>4, <1>5

\* Whatever the number of calls of send_packet() in one event, the source
\* stays within the flow and the network holds packets of the flow.
SendTypeOK ==
  /\ highest_sent \in 0..NPackets /\ flight_size \in 0..UintMax
  /\ rtx_queue \subseteq Packets
  /\ first_flowcut \in BOOLEAN /\ last_flowlet_choice \in Paths
  /\ net \in [Paths -> Seq(DataPackets)]

LEMMA SendBurstType ==
  ASSUME SendTypeOK, NEW rtxq \in SUBSET Packets,
         NEW burst \in Nat, burst <= Unsent(rtxq), NEW flight \in 0..UintMax,
         NEW once \in BOOLEAN, NEW first \in BOOLEAN, NEW choice \in Paths,
         SendBurst(burst, rtxq, flight, once, first, choice)
  PROVE  SendTypeOK'
<1> DEFINE again == Smaller(burst, Cardinality(rtxq))
           fresh == burst - again
           new   == [j \in 1..fresh |-> Data(highest_sent + j, FALSE)]
<1>1. Cardinality(rtxq) \in Nat
  BY PacketSets
<1>2. again \in Nat /\ fresh \in Nat /\ highest_sent + fresh \in 0..NPackets
      /\ fresh <= NPackets
  BY <1>1, SizeAssumption DEF Smaller, Unsent, SendTypeOK
<1> HIDE DEF again, fresh
<1>3. Plus(flight, fresh) \in 0..UintMax
  BY <1>2, SizeAssumption DEF Plus, SendTypeOK
<1>4. highest_sent' = highest_sent + fresh /\ flight_size' = Plus(flight, fresh)
  BY DEF SendBurst, again, fresh
<1>5. CASE burst = 0
  <2>1. /\ rtx_queue' = rtxq /\ net' = net
        /\ first_flowcut' = first /\ last_flowlet_choice' = choice
    BY <1>5, Zenon DEF SendBurst
  <2> QED BY <2>1, <1>2, <1>3, <1>4 DEF SendTypeOK
<1>6. CASE burst # 0
  <2>1. PICK f \in Lowest(rtxq, again), r \in choose_route(once, first, choice) :
          /\ rtx_queue' = rtxq \ {f[j] : j \in 1..again}
          /\ net' \in Transmit(r.path, [j \in 1..again |-> Data(f[j], TRUE)], new)
          /\ first_flowcut' = r.first
          /\ last_flowlet_choice' = r.choice
    BY <1>6, Zenon DEF SendBurst, again, fresh
  <2>2. r.path \in Paths /\ r.first \in BOOLEAN /\ r.choice \in Paths
    BY RouteType
  <2>3. f \in [1..again -> Packets]
    BY DEF Lowest
  <2>4. [j \in 1..again |-> Data(f[j], TRUE)] \in Seq(DataPackets)
    <3>1. [j \in 1..again |-> Data(f[j], TRUE)] \in [1..again -> DataPackets]
      BY <2>3 DEF Data, DataPackets
    <3> QED BY <1>2, <3>1, FunctionIsSeq
  <2>5. new \in Seq(DataPackets)
    <3>1. \A j \in 1..fresh : Data(highest_sent + j, FALSE) \in DataPackets
      BY <1>2, SizeAssumption DEF SendTypeOK, Data, DataPackets, Packets
    <3>2. new \in [1..fresh -> DataPackets]
      BY <3>1
    <3> QED BY <1>2, <3>2, FunctionIsSeq
  <2>6. net' \in [Paths -> Seq(DataPackets)]
    BY <2>1, <2>2, <2>4, <2>5, TransmitType DEF SendTypeOK
  <2> QED BY <2>1, <2>2, <2>6, <1>2, <1>3, <1>4 DEF SendTypeOK
<1> QED BY <1>5, <1>6


-----------------------------------------------------------------------------
(* Type correctness *)

\* The source has not sent for more pulls than it has received; without this
\* the number of packets a pull releases could be negative.
PullOrder == last_pull <= max_pull

\* Nothing moves before startflow(): the first window is the whole flow or
\* less because nothing of it has been sent.
IdleUntilStarted ==
  ~started => /\ highest_sent = 0 /\ rev = {} /\ hdr = <<>> /\ pull_queue = <<>>
              /\ \A p \in Paths : net[p] = <<>>

TypeInv == TypeOK /\ PullOrder /\ IdleUntilStarted

\* The variables that pull_packets() and its callers write.
PullTypeOK ==
  /\ SendTypeOK
  /\ last_pull \in Nat /\ max_pull \in Nat /\ PullOrder

LEMMA PullPacketsType ==
  ASSUME PullTypeOK, NEW no \in Nat, NEW rtxq \in SUBSET Packets,
         NEW flight \in 0..UintMax, NEW first \in BOOLEAN, NEW choice \in Paths,
         NEW stop \in BOOLEAN,
         pull_packets(no, rtxq, flight, first, choice, stop)
  PROVE  PullTypeOK'
<1> DEFINE top   == Larger(max_pull, no)
           burst == IF stop THEN 0 ELSE Smaller(top - last_pull, Unsent(rtxq))
<1>1. /\ max_pull' = top
      /\ last_pull' = last_pull + burst
      /\ SendBurst(burst, rtxq, flight, TRUE, first, choice)
  BY Zenon DEF pull_packets
<1>2. Unsent(rtxq) \in Nat
  BY PacketSets, SizeAssumption DEF Unsent, PullTypeOK, SendTypeOK
<1>3. top \in Nat /\ max_pull <= top /\ last_pull <= top
  BY DEF Larger, PullTypeOK, PullOrder
<1> HIDE DEF top
<1>4. burst \in Nat /\ burst <= Unsent(rtxq) /\ last_pull + burst <= top
  <2>1. CASE stop
    BY <2>1, <1>2, <1>3 DEF PullTypeOK
  <2>2. CASE ~stop
    BY <2>2, <1>2, <1>3 DEF PullTypeOK, Smaller
  <2> QED BY <2>1, <2>2
<1> HIDE DEF burst
<1>5. SendTypeOK'
  BY <1>1, <1>4, SendBurstType DEF PullTypeOK
<1> QED BY <1>1, <1>3, <1>4, <1>5 DEF PullTypeOK, PullOrder

LEMMA NothingSentType ==
  ASSUME PullTypeOK, NEW rtxq \in SUBSET Packets,
         NEW flight \in 0..UintMax, NEW first \in BOOLEAN, NEW choice \in Paths,
         NothingSent(rtxq, flight, first, choice)
  PROVE  PullTypeOK'
BY DEF PullTypeOK, SendTypeOK, PullOrder, NothingSent

\* A message of each kind shows the source a pull number it can use.
LEMMA MessageType ==
  ASSUME TypeOK, NEW m \in rev
  PROVE  /\ m.type = "PULL" => m.no \in Nat
         /\ m.type # "PULL" => m.ackno \in Packets /\ m.no \in Nat /\ m.pull \in BOOLEAN
                               /\ PullNo(m) \in Nat
<1>1. CASE m \in AckMessages
  <2>1. m.type = "ACK" /\ m.ackno \in Packets /\ m.no \in Nat /\ m.pull \in BOOLEAN
    BY <1>1 DEF AckMessages
  <2> QED BY <2>1 DEF PullNo
<1>2. CASE m \in NackMessages
  <2>1. m.type = "NACK" /\ m.ackno \in Packets /\ m.no \in Nat /\ m.pull \in BOOLEAN
    BY <1>2 DEF NackMessages
  <2> QED BY <2>1 DEF PullNo
<1>3. CASE m \in PullMessages
  BY <1>3 DEF PullMessages
<1> QED BY <1>1, <1>2, <1>3 DEF TypeOK

LEMMA ReceiveAckType ==
  ASSUME TypeInv, NEW m \in rev, NEW congested \in BOOLEAN, ReceiveAck(m, congested)
  PROVE  TypeInv'
<1> DEFINE flight   == MinusOne(flight_size)
           stop     == \/ stop_sending
                       \/ FlowcutMode = 1 /\ congested /\ flight_size # 0
                       \/ FlowcutMode = 0 /\ congested /\ Routing = "flowcut"
           drained  == Drained(stop, flight)
           first    == drained \/ first_flowcut
           stopping == stop /\ ~drained
<1>1. /\ m \in Acks
      /\ rev' = rev \ {m}
      /\ received_once' = TRUE
      /\ stop_sending' = stopping
      /\ completions' = IF Done(m) THEN completions + 1 ELSE completions
      /\ IF ~Done(m) /\ Pulls(m, drained)
         THEN pull_packets(PullNo(m), rtx_queue, flight, first,
                           last_flowlet_choice, stopping)
         ELSE NothingSent(rtx_queue, flight, first, last_flowlet_choice)
      /\ UNCHANGED <<started, sinkVars, pull_queue, hdr, trims>>
  BY Zenon DEF ReceiveAck
<1>2. flight \in 0..UintMax
  BY SizeAssumption DEF MinusOne, TypeInv, TypeOK
<1>3. drained \in BOOLEAN /\ stopping \in BOOLEAN /\ first \in BOOLEAN
  BY Zenon DEF TypeInv, TypeOK, Drained
<1>4. PullNo(m) \in Nat
  BY <1>1, MessageType DEF Acks, TypeInv
<1>5. PullTypeOK
  BY DEF PullTypeOK, SendTypeOK, TypeInv, TypeOK
<1>6. rtx_queue \in SUBSET Packets /\ last_flowlet_choice \in Paths
  BY DEF TypeInv, TypeOK
<1>7. completions' \in Nat
  BY <1>1 DEF TypeInv, TypeOK
<1> HIDE DEF flight, stop, drained, first, stopping
<1>8. PullTypeOK'
  <2>1. CASE ~Done(m) /\ Pulls(m, drained)
    BY <2>1, <1>1, <1>2, <1>3, <1>4, <1>5, <1>6, PullPacketsType
  <2>2. CASE ~(~Done(m) /\ Pulls(m, drained))
    <3>1. NothingSent(rtx_queue, flight, first, last_flowlet_choice)
      BY <2>2, <1>1, Zenon
    <3> QED BY <3>1, <1>2, <1>3, <1>5, <1>6, NothingSentType
  <2> QED BY <2>1, <2>2
<1>9. /\ received_once' \in BOOLEAN /\ stop_sending' \in BOOLEAN
  BY <1>1, <1>3
<1> QED
  BY <1>1, <1>7, <1>8, <1>9 DEF PullTypeOK, SendTypeOK, TypeInv, TypeOK, sinkVars,
            IdleUntilStarted

LEMMA ReceiveNackType ==
  ASSUME TypeInv, NEW m \in rev, ReceiveNack(m)
  PROVE  TypeInv'
<1> DEFINE rtxq == rtx_queue \union {m.ackno}
<1>1. /\ m \in Nacks
      /\ rev' = rev \ {m}
      /\ received_once' = TRUE
      /\ UNCHANGED <<started, stop_sending, completions, sinkVars, pull_queue,
                     hdr, trims>>
  BY Zenon DEF ReceiveNack
<1>2. PICK r \in choose_route(TRUE, first_flowcut, last_flowlet_choice) :
        IF m.pull \/ last_pull < max_pull
        THEN pull_packets(PullNo(m), rtxq, flight_size, r.first, r.choice, stop_sending)
        ELSE NothingSent(rtxq, flight_size, r.first, r.choice)
  BY Zenon DEF ReceiveNack
<1>3. m.ackno \in Packets /\ PullNo(m) \in Nat
  BY <1>1, MessageType DEF Nacks, TypeInv
<1>4. rtxq \in SUBSET Packets /\ flight_size \in 0..UintMax /\ stop_sending \in BOOLEAN
  BY <1>3 DEF TypeInv, TypeOK
<1>5. r.first \in BOOLEAN /\ r.choice \in Paths
  BY RouteType DEF TypeInv, TypeOK
<1>6. PullTypeOK
  BY DEF PullTypeOK, SendTypeOK, TypeInv, TypeOK
<1> HIDE DEF rtxq
<1>7. PullTypeOK'
  <2>1. CASE m.pull \/ last_pull < max_pull
    <3>1. pull_packets(PullNo(m), rtxq, flight_size, r.first, r.choice, stop_sending)
      BY <2>1, <1>2, Zenon
    <3> QED BY <3>1, <1>3, <1>4, <1>5, <1>6, PullPacketsType
  <2>2. CASE ~(m.pull \/ last_pull < max_pull)
    <3>1. NothingSent(rtxq, flight_size, r.first, r.choice)
      BY <2>2, <1>2, Zenon
    <3> QED BY <3>1, <1>4, <1>5, <1>6, NothingSentType
  <2> QED BY <2>1, <2>2
<1> QED
  BY <1>1, <1>7 DEF PullTypeOK, SendTypeOK, TypeInv, TypeOK, sinkVars,
            IdleUntilStarted

LEMMA ReceivePullType ==
  ASSUME TypeInv, NEW m \in rev, ReceivePull(m)
  PROVE  TypeInv'
<1>1. /\ m.type = "PULL"
      /\ rev' = rev \ {m}
      /\ received_once' = TRUE
      /\ pull_packets(m.no, rtx_queue, flight_size, first_flowcut,
                      last_flowlet_choice, stop_sending)
      /\ UNCHANGED <<started, stop_sending, completions, sinkVars, pull_queue,
                     hdr, trims>>
  BY Zenon DEF ReceivePull
<1>2. m.no \in Nat
  BY <1>1, MessageType DEF TypeInv
<1>3. PullTypeOK
  BY DEF PullTypeOK, SendTypeOK, TypeInv, TypeOK
<1>4. /\ rtx_queue \in SUBSET Packets /\ flight_size \in 0..UintMax
      /\ first_flowcut \in BOOLEAN /\ last_flowlet_choice \in Paths
      /\ stop_sending \in BOOLEAN
  BY DEF TypeInv, TypeOK
<1>5. PullTypeOK'
  BY <1>1, <1>2, <1>3, <1>4, PullPacketsType
<1> QED
  BY <1>1, <1>5 DEF PullTypeOK, SendTypeOK, TypeInv, TypeOK, sinkVars,
            IdleUntilStarted

LEMMA StartFlowType ==
  ASSUME TypeInv, StartFlow
  PROVE  TypeInv'
<1>1. /\ started' = TRUE
      /\ SendBurst(InitialWindow, rtx_queue, 0, received_once, first_flowcut,
                   last_flowlet_choice)
      /\ UNCHANGED <<last_pull, max_pull, received_once, stop_sending, completions,
                     sinkVars, pull_queue, hdr, rev, trims>>
  BY Zenon DEF StartFlow
<1>2. highest_sent = 0
  BY DEF StartFlow, TypeInv, IdleUntilStarted
<1>3. Cardinality(rtx_queue) \in Nat /\ rtx_queue \in SUBSET Packets
  BY PacketSets DEF TypeInv, TypeOK
<1>4. InitialWindow \in Nat /\ InitialWindow <= Unsent(rtx_queue)
  BY <1>2, <1>3, SizeAssumption DEF InitialWindow, Smaller, Unsent
<1>5. /\ SendTypeOK /\ received_once \in BOOLEAN /\ first_flowcut \in BOOLEAN
      /\ last_flowlet_choice \in Paths /\ 0 \in 0..UintMax
  BY SizeAssumption DEF SendTypeOK, TypeInv, TypeOK
<1> HIDE DEF InitialWindow
<1>6. SendTypeOK'
  BY <1>1, <1>3, <1>4, <1>5, SendBurstType
<1> QED
  BY <1>1, <1>6 DEF SendTypeOK, TypeInv, TypeOK, sinkVars, PullOrder, IdleUntilStarted

\* The sink's answer to an arrival: a message, and a pull that it carries or
\* that waits in the pacer.
LEMMA PulledType ==
  ASSUME TypeOK, NEW busy \in BOOLEAN
  PROVE  /\ Paced(busy) \in BOOLEAN /\ pull_no + 1 \in Nat
         /\ Append(pull_queue, pull_no + 1) \in Seq(Nat)
<1>1. pull_no + 1 \in Nat /\ pull_queue \in Seq(Nat)
  BY DEF TypeOK
<1>2. Append(pull_queue, pull_no + 1) \in Seq(Nat)
  BY <1>1, AppendProperties
<1> QED BY <1>1, <1>2, Zenon DEF Paced

LEMMA ReceiveDataType ==
  ASSUME TypeInv, NEW p \in Paths, NEW busy \in BOOLEAN, ReceiveData(p, busy)
  PROVE  TypeInv'
<1> DEFINE s     == Head(net[p]).seqno
           next  == s = cumulative_ack + 1
           gap   == s > cumulative_ack + 1
           cum   == IF next THEN Advance(cumulative_ack, received) ELSE cumulative_ack
           no    == pull_no + 1
           pulls == IF Paced(busy) THEN Append(pull_queue, no) ELSE pull_queue
<1>1. /\ net[p] # <<>>
      /\ net' = [net EXCEPT ![p] = Tail(@)]
      /\ cumulative_ack' = cum
      /\ received' = IF gap THEN received \union {s} ELSE {t \in received : t > cum}
      /\ ooo_number' = IF gap THEN ooo_number + 1 ELSE ooo_number
      /\ pull_no' = no
      /\ rev' = rev \union {Ack(s, cum, no, ~Paced(busy))}
      /\ pull_queue' = IF cum = NPackets THEN <<>> ELSE pulls
      /\ UNCHANGED <<srcVars, hdr, trims>>
  BY Zenon DEF ReceiveData
<1>2. started
  BY <1>1 DEF TypeInv, IdleUntilStarted
<1>3. Head(net[p]) \in DataPackets /\ Tail(net[p]) \in Seq(DataPackets)
  BY <1>1, HeadTailProperties DEF TypeInv, TypeOK
<1>4. s \in Packets
  BY <1>3 DEF DataPackets
<1>5. cumulative_ack \in 0..NPackets /\ received \in SUBSET Packets
  BY DEF TypeInv, TypeOK
<1>6. cum \in 0..NPackets
  <2>1. CASE next
    <3>1. cumulative_ack \in Nat /\ cumulative_ack < NPackets
      BY <2>1, <1>4, <1>5, SizeAssumption DEF Packets
    <3>2. Advance(cumulative_ack, received) \in cumulative_ack + 1 .. NPackets
      BY <3>1, <1>5, AdvanceType
    <3> QED BY <2>1, <3>1, <3>2, SizeAssumption
  <2>2. CASE ~next
    BY <2>2, <1>5
  <2> QED BY <2>1, <2>2
<1>7. Paced(busy) \in BOOLEAN /\ no \in Nat /\ Append(pull_queue, no) \in Seq(Nat)
  BY PulledType DEF TypeInv
<1> HIDE DEF s, next, gap, cum, no
<1>8. Ack(s, cum, no, ~Paced(busy)) \in AckMessages
  <2>1. (~Paced(busy)) \in BOOLEAN
    BY Zenon
  <2> QED BY <2>1, <1>4, <1>6, <1>7 DEF Ack, AckMessages
<1>9. rev' \subseteq (AckMessages \union NackMessages \union PullMessages)
  BY <1>1, <1>8 DEF TypeInv, TypeOK
<1>10. net' \in [Paths -> Seq(DataPackets)]
  BY <1>1, <1>3 DEF TypeInv, TypeOK
<1>11. received' \subseteq Packets
  BY <1>1, <1>4, <1>5
<1>12. ooo_number' \in Nat
  BY <1>1 DEF TypeInv, TypeOK
<1>13. pull_queue' \in Seq(Nat)
  BY <1>1, <1>7 DEF TypeInv, TypeOK
<1> QED
  BY <1>1, <1>2, <1>6, <1>7, <1>9, <1>10, <1>11, <1>12, <1>13
  DEF TypeInv, TypeOK, PullOrder, IdleUntilStarted, srcVars, sendVars, routeVars

LEMMA ReceiveHeaderType ==
  ASSUME TypeInv, NEW i \in 1..Len(hdr), NEW busy \in BOOLEAN, ReceiveHeader(i, busy)
  PROVE  TypeInv'
<1>1. hdr \in Seq(Packets) /\ hdr # <<>> /\ hdr[i] \in Packets
  BY EmptySeq, ElementOfSeq DEF TypeInv, TypeOK
<1>2. started
  BY <1>1 DEF TypeInv, IdleUntilStarted
<1>3. RemoveAt(hdr, i) \in Seq(Packets)
  BY <1>1, RemoveAtType
<1>4. /\ Paced(busy) \in BOOLEAN /\ pull_no + 1 \in Nat
      /\ Append(pull_queue, pull_no + 1) \in Seq(Nat)
  BY PulledType DEF TypeInv
<1>5. /\ hdr' = RemoveAt(hdr, i)
      /\ pull_no' = pull_no + 1
      /\ rev' = rev \union {Nack(hdr[i], pull_no + 1, ~Paced(busy))}
      /\ pull_queue' = IF Paced(busy) THEN Append(pull_queue, pull_no + 1) ELSE pull_queue
      /\ UNCHANGED <<srcVars, cumulative_ack, received, ooo_number, net, trims>>
  BY Zenon DEF ReceiveHeader
<1>6. Nack(hdr[i], pull_no + 1, ~Paced(busy)) \in NackMessages
  <2>1. (~Paced(busy)) \in BOOLEAN
    BY Zenon
  <2> QED BY <2>1, <1>1, <1>4 DEF Nack, NackMessages
<1>7. pull_queue' \in Seq(Nat)
  BY <1>4, <1>5 DEF TypeInv, TypeOK
<1> QED
  BY <1>2, <1>3, <1>4, <1>5, <1>6, <1>7
  DEF TypeInv, TypeOK, PullOrder, IdleUntilStarted, srcVars, sendVars, routeVars

LEMMA PacerTimeoutType ==
  ASSUME TypeInv, PacerTimeout
  PROVE  TypeInv'
<1>1. /\ pull_queue # <<>>
      /\ rev' = rev \union {Pull(Head(pull_queue))}
      /\ pull_queue' = Tail(pull_queue)
      /\ UNCHANGED <<srcVars, sinkVars, net, hdr, trims>>
  BY Zenon DEF PacerTimeout
<1>2. started
  BY <1>1 DEF TypeInv, IdleUntilStarted
<1>3. Head(pull_queue) \in Nat /\ Tail(pull_queue) \in Seq(Nat)
  BY <1>1, HeadTailProperties DEF TypeInv, TypeOK
<1>4. Pull(Head(pull_queue)) \in PullMessages
  BY <1>3 DEF Pull, PullMessages
<1> QED
  BY <1>1, <1>2, <1>3, <1>4
  DEF TypeInv, TypeOK, PullOrder, IdleUntilStarted, srcVars, sendVars, routeVars, sinkVars

LEMMA TrimType ==
  ASSUME TypeInv, NEW p \in Paths, NEW i \in 1..Len(net[p]), Trim(p, i)
  PROVE  TypeInv'
<1>1. net[p] \in Seq(DataPackets)
  BY DEF TypeInv, TypeOK
<1>2. net[p] # <<>> /\ net[p][i] \in DataPackets /\ RemoveAt(net[p], i) \in Seq(DataPackets)
  BY <1>1, EmptySeq, ElementOfSeq, RemoveAtType
<1>3. started
  BY <1>2 DEF TypeInv, IdleUntilStarted
<1>4. Append(hdr, net[p][i].seqno) \in Seq(Packets)
  <2>1. net[p][i].seqno \in Packets
    BY <1>2 DEF DataPackets
  <2> QED BY <2>1, AppendProperties DEF TypeInv, TypeOK
<1>5. trims' \in 0..MaxTrims
  BY SizeAssumption DEF Trim, TypeInv, TypeOK
<1>6. net' \in [Paths -> Seq(DataPackets)]
  BY <1>2 DEF Trim, TypeInv, TypeOK
<1> QED
  BY <1>3, <1>4, <1>5, <1>6
  DEF Trim, TypeInv, TypeOK, PullOrder, IdleUntilStarted, srcVars, sendVars, routeVars,
      sinkVars

\* The inductive invariant holds initially and is preserved by every step.
LEMMA InitTypeInv == Init => TypeInv
BY PathsAssumption, SizeAssumption, EmptySeq
DEF Init, TypeInv, TypeOK, PullOrder, IdleUntilStarted

LEMMA NextTypeInv == TypeInv /\ [Next]_vars => TypeInv'
<1> SUFFICES ASSUME TypeInv, [Next]_vars PROVE TypeInv'
  OBVIOUS
<1>1. CASE StartFlow
  BY <1>1, StartFlowType
<1>2. CASE DeliverReverse
  BY <1>2, ReceiveAckType, ReceiveNackType, ReceivePullType DEF DeliverReverse
<1>3. CASE DeliverData
  BY <1>3, ReceiveDataType DEF DeliverData
<1>4. CASE DeliverHeader
  BY <1>4, ReceiveHeaderType DEF DeliverHeader
<1>5. CASE PacerTimeout
  BY <1>5, PacerTimeoutType
<1>6. CASE TrimSome
  BY <1>6, TrimType DEF TrimSome
<1>7. CASE UNCHANGED vars
  BY <1>7 DEF TypeInv, TypeOK, PullOrder, IdleUntilStarted, vars, srcVars, sendVars,
              routeVars, sinkVars, netVars
<1> QED BY <1>1, <1>2, <1>3, <1>4, <1>5, <1>6, <1>7 DEF Next

\* Type correctness for every routing, mode, window, flow and number of trims.
THEOREM TypeCorrect == Spec => []TypeOK
<1>1. TypeInv => TypeOK
  BY DEF TypeInv
<1> QED BY <1>1, InitTypeInv, NextTypeInv, PTL DEF Spec

-----------------------------------------------------------------------------
(* In-order delivery in a network that trims nothing.  The argument is      *)
(* LosslessInv: the drain ends when _flight_size is zero, _flight_size      *)
(* counts what is in transit, so the path changes only when the network     *)
(* holds nothing of the flow.                                               *)

\* The network and the routing the theorems are about.
Lossless == MaxTrims = 0 /\ Routing = "flowcut"

LosslessIInv == TypeInv /\ LosslessInv

-----------------------------------------------------------------------------
(* The packets in transit as a window of the flow *)

\* The window of c and h is a sequence of packets, empty when h is c.
LEMMA WindowType ==
  ASSUME NEW c \in 0..NPackets, NEW h \in c..NPackets
  PROVE  /\ Window(c, h) \in Seq(DataPackets)
         /\ Len(Window(c, h)) = h - c
         /\ \A i \in 1 .. h - c : Window(c, h)[i] = Data(c + i, FALSE)
         /\ Window(c, h) = <<>> <=> h = c
<1>1. \A i \in 1 .. h - c : Data(c + i, FALSE) \in DataPackets
  BY SizeAssumption DEF Data, DataPackets, Packets
<1>2. h - c \in Nat
  BY SizeAssumption
<1>3. Window(c, h) \in [1 .. h - c -> DataPackets]
  BY <1>1 DEF Window
<1>4. Window(c, h) \in Seq(DataPackets) /\ Len(Window(c, h)) = h - c
  BY <1>2, <1>3, FunctionLen
<1>5. Window(c, h) = <<>> <=> h - c = 0
  BY <1>4, EmptySeq
<1>6. \A i \in 1 .. h - c : Window(c, h)[i] = Data(c + i, FALSE)
  BY DEF Window
<1>7. h - c = 0 <=> h = c
  BY SizeAssumption
<1> QED BY <1>4, <1>5, <1>6, <1>7, Zenon

\* Sending k packets extends the window at its end.
LEMMA WindowExtends ==
  ASSUME NEW c \in 0..NPackets, NEW h \in c..NPackets, NEW k \in Nat, h + k <= NPackets
  PROVE  Window(c, h) \o [j \in 1..k |-> Data(h + j, FALSE)] = Window(c, h + k)
<1> DEFINE new == [j \in 1..k |-> Data(h + j, FALSE)]
<1>1. new \in Seq(DataPackets) /\ Len(new) = k /\ \A j \in 1..k : new[j] = Data(h + j, FALSE)
  <2>1. \A j \in 1..k : Data(h + j, FALSE) \in DataPackets
    BY SizeAssumption DEF Data, DataPackets, Packets
  <2>2. new \in [1..k -> DataPackets]
    BY <2>1
  <2> QED BY <2>2, FunctionLen
<1> HIDE DEF new
<1>2. h + k \in c..NPackets
  BY SizeAssumption
<1>3. /\ Window(c, h) \in Seq(DataPackets) /\ Len(Window(c, h)) = h - c
      /\ \A i \in 1 .. h - c : Window(c, h)[i] = Data(c + i, FALSE)
  BY WindowType
<1>4. /\ Window(c, h + k) \in Seq(DataPackets) /\ Len(Window(c, h + k)) = (h + k) - c
      /\ \A i \in 1 .. (h + k) - c : Window(c, h + k)[i] = Data(c + i, FALSE)
  BY <1>2, WindowType
<1>5. /\ Window(c, h) \o new \in Seq(DataPackets)
      /\ Len(Window(c, h) \o new) = (h - c) + k
      /\ \A i \in 1 .. (h - c) + k : (Window(c, h) \o new)[i] =
            IF i <= h - c THEN Window(c, h)[i] ELSE new[i - (h - c)]
  <2>1. /\ Window(c, h) \o new \in Seq(DataPackets)
        /\ Len(Window(c, h) \o new) = Len(Window(c, h)) + Len(new)
        /\ \A i \in 1 .. Len(Window(c, h)) + Len(new) : (Window(c, h) \o new)[i] =
              IF i <= Len(Window(c, h)) THEN Window(c, h)[i] ELSE new[i - Len(Window(c, h))]
    BY <1>1, <1>3, ConcatProperties, Zenon
  <2>2. Len(new) = k /\ Len(Window(c, h)) = h - c
    BY <1>1, <1>3, Zenon
  <2> QED BY <2>1, <2>2, Zenon
<1>6. (h + k) - c = (h - c) + k
  BY SizeAssumption
<1>7. \A i \in 1 .. (h - c) + k : (Window(c, h) \o new)[i] = Window(c, h + k)[i]
  <2> SUFFICES ASSUME NEW i \in 1 .. (h - c) + k
               PROVE  (Window(c, h) \o new)[i] = Data(c + i, FALSE)
    BY <1>4, <1>6
  <2>1. CASE i <= h - c
    <3>1. i \in 1 .. h - c
      BY <2>1, SizeAssumption
    <3>2. (Window(c, h) \o new)[i] = Window(c, h)[i]
      BY <2>1, <1>5, Zenon
    <3> QED BY <3>1, <3>2, <1>3, Zenon
  <2>2. CASE ~(i <= h - c)
    <3>1. i - (h - c) \in 1..k /\ h + (i - (h - c)) = c + i
      BY <2>2, SizeAssumption
    <3>2. new[i - (h - c)] = Data(c + i, FALSE)
      BY <3>1, <1>1
    <3>3. (Window(c, h) \o new)[i] = new[i - (h - c)]
      BY <2>2, <1>5, Zenon
    <3> QED BY <3>2, <3>3, Zenon
  <2> QED BY <2>1, <2>2
<1>8. Window(c, h) \o new = Window(c, h + k)
  BY <1>4, <1>5, <1>6, <1>7, SeqEqual
<1> QED BY <1>8 DEF new

\* The first packet of a window is the one after the last acknowledged, and
\* the rest is the window that remains when it has been delivered.
LEMMA WindowSlides ==
  ASSUME NEW c \in 0..NPackets, NEW h \in c..NPackets, Window(c, h) # <<>>
  PROVE  /\ h > c
         /\ Head(Window(c, h)) = Data(c + 1, FALSE)
         /\ Tail(Window(c, h)) = Window(c + 1, h)
<1>1. /\ Window(c, h) \in Seq(DataPackets) /\ Len(Window(c, h)) = h - c
      /\ \A i \in 1 .. h - c : Window(c, h)[i] = Data(c + i, FALSE)
      /\ h > c
  <2>1. /\ Window(c, h) \in Seq(DataPackets) /\ Len(Window(c, h)) = h - c
        /\ \A i \in 1 .. h - c : Window(c, h)[i] = Data(c + i, FALSE)
        /\ h # c
    BY WindowType, Zenon
  <2>2. h > c
    BY <2>1, SizeAssumption
  <2> QED BY <2>1, <2>2, Zenon
<1>2. Head(Window(c, h)) = Data(c + 1, FALSE)
  <2>1. 1 \in 1 .. h - c
    BY <1>1, SizeAssumption
  <2>2. Window(c, h)[1] = Data(c + 1, FALSE)
    BY <1>1, <2>1, Zenon
  <2>3. Head(Window(c, h)) = Window(c, h)[1]
    BY <1>1
  <2> QED BY <2>2, <2>3
<1>3. c + 1 \in 0..NPackets /\ h \in c + 1 .. NPackets
  BY <1>1, SizeAssumption
<1>4. /\ Window(c + 1, h) \in Seq(DataPackets) /\ Len(Window(c + 1, h)) = h - (c + 1)
      /\ \A i \in 1 .. h - (c + 1) : Window(c + 1, h)[i] = Data((c + 1) + i, FALSE)
  BY <1>3, WindowType
<1>5. /\ Tail(Window(c, h)) \in Seq(DataPackets)
      /\ Len(Tail(Window(c, h))) = (h - c) - 1
      /\ \A i \in 1 .. (h - c) - 1 : Tail(Window(c, h))[i] = Window(c, h)[i + 1]
  BY <1>1, HeadTailProperties
<1>6. \A i \in 1 .. (h - c) - 1 : Tail(Window(c, h))[i] = Window(c + 1, h)[i]
  <2> SUFFICES ASSUME NEW i \in 1 .. (h - c) - 1
               PROVE  Tail(Window(c, h))[i] = Window(c + 1, h)[i]
    OBVIOUS
  <2>1. i + 1 \in 1 .. h - c /\ c + (i + 1) = (c + 1) + i /\ i \in 1 .. h - (c + 1)
    BY <1>1, SizeAssumption
  <2> QED BY <2>1, <1>1, <1>4, <1>5
<1>7. (h - c) - 1 = h - (c + 1)
  BY SizeAssumption
<1> QED BY <1>1, <1>2, <1>4, <1>5, <1>6, <1>7, SeqEqual

\* Without retransmissions, sending on path p appends to one queue only.
LEMMA TransmitNew ==
  ASSUME net \in [Paths -> Seq(DataPackets)], NEW p \in Paths, NEW new,
         NEW n \in Transmit(p, <<>>, new)
  PROVE  n = [net EXCEPT ![NewPathid(p)] = @ \o new]
<1>1. Overtake(net[p], <<>>) = {net[p]}
  BY DEF Overtake
<1>2. [net EXCEPT ![p] = net[p]] = net
  OBVIOUS
<1> QED BY <1>1, <1>2 DEF Transmit


-----------------------------------------------------------------------------
(* What a handler of the source may assume of the state it sends in: `flight'
   and `first' are the values it has already computed. *)
Sendable(flight, acks, first, once) ==
  /\ flight = (highest_sent - cumulative_ack) + acks
  /\ acks \in Nat /\ acks <= cumulative_ack /\ cumulative_ack <= highest_sent
  /\ first => flight = 0 /\ once
  /\ ~once => highest_sent = cumulative_ack /\ acks = 0
  /\ OneFifoPath

\* What sending, or not sending, leaves behind.
Sent(acks, first) ==
  /\ rtx_queue' = {}
  /\ highest_sent <= highest_sent' /\ cumulative_ack <= highest_sent'
  /\ flight_size' = (highest_sent' - cumulative_ack) + acks
  /\ first_flowcut' => first /\ flight_size' = 0
  /\ \/ last_flowlet_choice' = last_flowlet_choice
     \/ highest_sent = cumulative_ack /\ acks = 0
  /\ OneFifoPath'

\* What a step of the source does to the sliding window: it moves nothing
\* back, and it may change the path only when nothing of the flow is left in
\* the network or on the way back.
SourceStep ==
  /\ highest_sent <= highest_sent' /\ cumulative_ack' = cumulative_ack
  /\ \/ last_flowlet_choice' = last_flowlet_choice
     \/ highest_sent = cumulative_ack /\ Acks' = {}

\* With flowcut routing the path of a burst is the one chosen last, unless
\* nothing is in transit; the burst uses up first_flowcut.
LEMMA FlowcutRoute ==
  ASSUME Lossless, TypeInv, NEW flight, NEW acks, NEW first \in BOOLEAN,
         NEW once \in BOOLEAN, Sendable(flight, acks, first, once),
         NEW r \in choose_route(once, first, last_flowlet_choice)
  PROVE  /\ r.path = r.choice /\ ~r.first
         /\ r.choice = last_flowlet_choice \/ (highest_sent = cumulative_ack /\ acks = 0)
<1> DEFINE empty == highest_sent = cumulative_ack /\ acks = 0
<1>1. first => empty
  BY DEF Sendable, TypeInv, TypeOK
<1>2. \E p \in Paths : /\ r = Route(p, FALSE, p)
                       /\ p = last_flowlet_choice \/ empty
  <2>1. FromPath \in Paths /\ last_flowlet_choice \in Paths
    BY PathsAssumption DEF TypeInv, TypeOK
  <2>2. Routing # "ecmp" /\ Routing # "flowlet"
    BY DEF Lossless
  <2>3. CASE ~once
    <3>1. first = FALSE /\ empty
      BY <2>3, Zenon DEF Sendable
    <3>2. r = Route(FromPath, first, FromPath)
      BY <2>2, <2>3, Zenon DEF choose_route
    <3> QED BY <2>1, <3>1, <3>2, Zenon
  <2>4. CASE once /\ first
    <3>1. \E p \in Paths : r = Route(p, FALSE, p)
      BY <2>2, <2>4, Zenon DEF choose_route
    <3> QED BY <3>1, <2>4, <1>1, Zenon
  <2>5. CASE once /\ ~first
    <3>1. r = Route(last_flowlet_choice, FALSE, last_flowlet_choice)
      BY <2>2, <2>5, Zenon DEF choose_route
    <3> QED BY <2>1, <3>1, Zenon
  <2> QED BY <2>3, <2>4, <2>5, Zenon
<1>3. PICK p \in Paths : r = Route(p, FALSE, p) /\ (p = last_flowlet_choice \/ empty)
  BY <1>2, Zenon
<1>4. r.path = p /\ r.first = FALSE /\ r.choice = p
  BY <1>3 DEF Route
<1> QED BY <1>3, <1>4, Zenon

\* Wherever a burst is sent, the packets in transit are the current window on
\* that path, and nothing anywhere else.
LEMMA FlowcutPath ==
  ASSUME TypeInv, OneFifoPath, cumulative_ack <= highest_sent, NEW choice \in Paths,
         choice = last_flowlet_choice \/ highest_sent = cumulative_ack
  PROVE  /\ net[NewPathid(choice)] = Window(cumulative_ack, highest_sent)
         /\ \A p \in Paths : p # NewPathid(choice) => net[p] = <<>>
<1>1. CASE choice = last_flowlet_choice
  BY <1>1, Zenon DEF OneFifoPath
<1>2. CASE highest_sent = cumulative_ack
  <2>1. cumulative_ack \in 0..NPackets /\ highest_sent \in cumulative_ack..NPackets
    BY SizeAssumption DEF TypeInv, TypeOK
  <2>2. Window(cumulative_ack, highest_sent) = <<>>
    BY <2>1, <1>2, WindowType, Zenon
  <2>3. \A p \in Paths : net[p] = <<>>
    BY <2>2, Zenon DEF OneFifoPath
  <2> QED BY <2>2, <2>3, NewPathidType, Zenon
<1> QED BY <1>1, <1>2

LEMMA LosslessSend ==
  ASSUME Lossless, TypeInv, NEW burst \in Nat, burst <= Unsent({}),
         NEW flight \in 0..UintMax, NEW acks, NEW first \in BOOLEAN,
         NEW once \in BOOLEAN, Sendable(flight, acks, first, once),
         cumulative_ack' = cumulative_ack,
         SendBurst(burst, {}, flight, once, first, last_flowlet_choice)
  PROVE  Sent(acks, first)
<1> USE DEF TypeInv
<1>1. Cardinality({}) = 0
  BY FS_EmptySet
<1>2. /\ cumulative_ack \in 0..NPackets /\ highest_sent \in cumulative_ack..NPackets
      /\ acks \in Nat /\ acks <= cumulative_ack
      /\ flight = (highest_sent - cumulative_ack) + acks
      /\ burst <= NPackets - highest_sent
  BY <1>1, SizeAssumption DEF TypeOK, Sendable, Unsent
<1> DEFINE again == Smaller(burst, Cardinality({}))
           fresh == burst - again
           new   == [j \in 1..fresh |-> Data(highest_sent + j, FALSE)]
<1>3. again = 0 /\ fresh = burst
  BY <1>1 DEF Smaller
<1>4. highest_sent' = highest_sent + burst /\ flight_size' = Plus(flight, burst)
  <2>1. highest_sent' = highest_sent + fresh /\ flight_size' = Plus(flight, fresh)
    BY DEF SendBurst
  <2> QED BY <2>1, <1>3
<1>5. /\ flight_size' = (highest_sent' - cumulative_ack) + acks
      /\ highest_sent <= highest_sent' /\ cumulative_ack <= highest_sent'
  BY <1>2, <1>4, SizeAssumption DEF Plus
<1>6. CASE burst = 0
  <2>1. /\ rtx_queue' = {} /\ net' = net
        /\ first_flowcut' = first /\ last_flowlet_choice' = last_flowlet_choice
    BY <1>6, Zenon DEF SendBurst
  <2>2. highest_sent' = highest_sent /\ flight_size' = flight
    BY <1>2, <1>4, <1>5, <1>6
  <2>3. OneFifoPath'
    BY <2>1, <2>2 DEF OneFifoPath, Sendable
  <2> QED BY <2>1, <2>2, <2>3, <1>5 DEF Sendable, Sent
<1>7. CASE burst # 0
  <2>1. PICK f \in Lowest({}, again),
             r \in choose_route(once, first, last_flowlet_choice) :
          /\ rtx_queue' = {} \ {f[j] : j \in 1..again}
          /\ net' \in Transmit(r.path, [j \in 1..again |-> Data(f[j], TRUE)], new)
          /\ first_flowcut' = r.first
          /\ last_flowlet_choice' = r.choice
    BY <1>7, Zenon DEF SendBurst
  <2>2. /\ r.path = r.choice /\ ~r.first
        /\ r.choice = last_flowlet_choice \/ (highest_sent = cumulative_ack /\ acks = 0)
    BY FlowcutRoute
  <2>3. r.choice \in Paths
    BY RouteType DEF TypeOK
  <2> DEFINE w == NewPathid(r.choice)
  <2>4. /\ net[w] = Window(cumulative_ack, highest_sent)
        /\ \A p \in Paths : p # w => net[p] = <<>>
    BY <2>2, <2>3, FlowcutPath DEF Sendable
  <2>5. [j \in 1..again |-> Data(f[j], TRUE)] = <<>>
    <3>1. [j \in 1..again |-> Data(f[j], TRUE)] \in [1..0 -> DataPackets]
      BY <1>3
    <3> HIDE DEF again
    <3>2. /\ [j \in 1..again |-> Data(f[j], TRUE)] \in Seq(DataPackets)
          /\ Len([j \in 1..again |-> Data(f[j], TRUE)]) = 0
      BY <3>1, FunctionLen, Zenon
    <3> QED BY <3>2, EmptySeq
  <2>6. net' = [net EXCEPT ![w] = @ \o new]
    BY <2>1, <2>2, <2>3, <2>5, TransmitNew DEF TypeOK
  <2>7. Window(cumulative_ack, highest_sent) \o new =
          Window(cumulative_ack, highest_sent')
    <3>1. Window(cumulative_ack, highest_sent)
            \o [j \in 1..burst |-> Data(highest_sent + j, FALSE)] =
          Window(cumulative_ack, highest_sent + burst)
      <4>1. highest_sent + burst <= NPackets
        BY <1>2, SizeAssumption
      <4> QED BY <4>1, <1>2, WindowExtends, Zenon
    <3> QED BY <3>1, <1>3, <1>4
  <2>8. w \in Paths
    BY <2>3, NewPathidType
  <2> HIDE DEF w, new
  <2>9. /\ net'[w] = Window(cumulative_ack, highest_sent')
        /\ \A p \in Paths : p # w => net'[p] = <<>>
    BY <2>4, <2>6, <2>7, <2>8 DEF TypeOK
  <2>10. NewPathid(last_flowlet_choice') = w
    BY <2>1 DEF w
  <2>11. OneFifoPath'
    BY <2>9, <2>10 DEF OneFifoPath
  <2> QED BY <2>1, <2>2, <2>11, <1>5 DEF Sent
<1> QED BY <1>6, <1>7


LEMMA LosslessPull ==
  ASSUME Lossless, TypeInv, NEW no \in Nat, NEW flight \in 0..UintMax, NEW acks,
         NEW first \in BOOLEAN, NEW stop \in BOOLEAN,
         Sendable(flight, acks, first, TRUE), cumulative_ack' = cumulative_ack,
         pull_packets(no, {}, flight, first, last_flowlet_choice, stop)
  PROVE  Sent(acks, first)
<1> DEFINE burst == IF stop THEN 0 ELSE Smaller(Larger(max_pull, no) - last_pull, Unsent({}))
<1>1. SendBurst(burst, {}, flight, TRUE, first, last_flowlet_choice)
  BY Zenon DEF pull_packets
<1>2. Unsent({}) \in Nat
  BY FS_EmptySet, SizeAssumption DEF Unsent, TypeInv, TypeOK
<1>3. burst \in Nat /\ burst <= Unsent({})
  BY <1>2 DEF Larger, Smaller, TypeInv, TypeOK, PullOrder
<1> HIDE DEF burst
<1> QED BY <1>1, <1>3, LosslessSend

LEMMA LosslessNothingSent ==
  ASSUME TypeInv, NEW flight \in 0..UintMax, NEW acks, NEW first \in BOOLEAN,
         Sendable(flight, acks, first, TRUE), cumulative_ack' = cumulative_ack,
         NothingSent({}, flight, first, last_flowlet_choice)
  PROVE  Sent(acks, first)
BY DEF TypeInv, TypeOK, Sendable, NothingSent, OneFifoPath, Sent

\* What a step of the sink does to it.
SinkStep ==
  /\ cumulative_ack < highest_sent /\ cumulative_ack' = cumulative_ack + 1
  /\ UNCHANGED <<highest_sent, last_flowlet_choice>>

-----------------------------------------------------------------------------
(* The steps *)

\* The source's messages are numbered, and no NACK is among them.
LEMMA ConsumedMessage ==
  ASSUME NothingLost, PullsNumbered, IsFiniteSet(rev), NEW m \in rev,
         rev' = rev \ {m}, UNCHANGED <<pull_no, pull_queue>>
  PROVE  /\ \A x \in rev' : x.type # "NACK"
         /\ PullsNumbered' /\ IsFiniteSet(rev')
BY FS_RemoveElement DEF NothingLost, PullsNumbered

LEMMA ReceiveAckLossless ==
  ASSUME Lossless, LosslessIInv, NEW m \in rev, NEW congested \in BOOLEAN,
         ReceiveAck(m, congested)
  PROVE  LosslessInv' /\ SourceStep
<1> DEFINE flight   == MinusOne(flight_size)
           stop     == \/ stop_sending
                       \/ FlowcutMode = 1 /\ congested /\ flight_size # 0
                       \/ FlowcutMode = 0 /\ congested /\ Routing = "flowcut"
           drained  == Drained(stop, flight)
           first    == drained \/ first_flowcut
           stopping == stop /\ ~drained
           acks     == Cardinality(Acks) - 1
<1>1. /\ m \in Acks
      /\ rev' = rev \ {m}
      /\ received_once' = TRUE
      /\ IF ~Done(m) /\ Pulls(m, drained)
         THEN pull_packets(PullNo(m), rtx_queue, flight, first,
                           last_flowlet_choice, stopping)
         ELSE NothingSent(rtx_queue, flight, first, last_flowlet_choice)
      /\ UNCHANGED <<started, sinkVars, pull_queue, hdr, trims>>
  BY Zenon DEF ReceiveAck
<1>2. TypeInv /\ NothingLost /\ PullsNumbered /\ FlightCounts /\ OneFifoPath
  BY Zenon DEF LosslessIInv, LosslessInv
<1>3. IsFiniteSet(Acks) /\ Acks # {} /\ Acks' = Acks \ {m}
  BY <1>1, <1>2, FS_Subset DEF FlightCounts, Acks
<1>4. /\ Cardinality(Acks) \in Nat \ {0}
      /\ acks \in Nat /\ Cardinality(Acks') = acks
  <2>1. Cardinality(Acks) \in Nat /\ Cardinality(Acks) # 0
    BY <1>3, FS_EmptySet, FS_CardinalityType
  <2>2. Cardinality(Acks \ {m}) = Cardinality(Acks) - 1
    BY <1>1, <1>3, FS_RemoveElement
  <2> QED BY <2>1, <2>2, <1>3
<1>5. /\ highest_sent \in Nat /\ cumulative_ack \in Nat /\ flight_size \in 0..UintMax
      /\ cumulative_ack <= highest_sent /\ Cardinality(Acks) <= cumulative_ack
      /\ flight_size = (highest_sent - cumulative_ack) + Cardinality(Acks)
      /\ first_flowcut => flight_size = 0
  BY <1>2 DEF FlightCounts, TypeInv, TypeOK
<1>6. /\ flight = (highest_sent - cumulative_ack) + acks
      /\ flight \in 0..UintMax /\ acks <= cumulative_ack /\ ~first_flowcut
  BY <1>4, <1>5, SizeAssumption DEF MinusOne
<1>7. drained \in BOOLEAN /\ stopping \in BOOLEAN /\ first \in BOOLEAN
  BY <1>2, Zenon DEF TypeInv, TypeOK, Drained
<1>8. first => flight = 0
  BY <1>6 DEF Drained
<1>9. PullNo(m) \in Nat
  BY <1>1, <1>2, MessageType DEF Acks, TypeInv
<1> HIDE DEF flight, stop, drained, first, stopping, acks
<1>10. Sendable(flight, acks, first, TRUE)
  BY <1>2, <1>4, <1>5, <1>6, <1>8 DEF Sendable
<1>11. rtx_queue = {} /\ cumulative_ack' = cumulative_ack
  BY <1>1, <1>2 DEF NothingLost, sinkVars
<1>12. Sent(acks, first)
  <2>1. CASE ~Done(m) /\ Pulls(m, drained)
    <3>1. pull_packets(PullNo(m), {}, flight, first, last_flowlet_choice, stopping)
      BY <2>1, <1>1, <1>11, Zenon
    <3> QED BY <3>1, <1>2, <1>6, <1>7, <1>9, <1>10, <1>11, LosslessPull
  <2>2. CASE ~(~Done(m) /\ Pulls(m, drained))
    <3>1. NothingSent({}, flight, first, last_flowlet_choice)
      BY <2>2, <1>1, <1>11, Zenon
    <3> QED BY <3>1, <1>2, <1>6, <1>7, <1>10, <1>11, LosslessNothingSent
  <2> QED BY <2>1, <2>2
<1>13. /\ \A x \in rev' : x.type # "NACK"
       /\ PullsNumbered' /\ IsFiniteSet(rev')
  BY <1>1, <1>2, ConsumedMessage DEF FlightCounts, sinkVars
<1>14. NothingLost'
  BY <1>1, <1>2, <1>12, <1>13 DEF NothingLost, sinkVars, Sent
<1>15. FlightCounts'
  BY <1>1, <1>4, <1>6, <1>11, <1>12, <1>13 DEF FlightCounts, Sent
<1>16. SourceStep
  <2>1. acks = 0 => Acks' = {}
    BY <1>3, <1>4, FS_RemoveElement, FS_EmptySet
  <2> QED BY <2>1, <1>11, <1>12, Zenon DEF SourceStep, Sent
<1> QED BY <1>12, <1>13, <1>14, <1>15, <1>16 DEF LosslessInv, Sent

LEMMA ReceivePullLossless ==
  ASSUME Lossless, LosslessIInv, NEW m \in rev, ReceivePull(m)
  PROVE  LosslessInv' /\ SourceStep
<1> DEFINE acks == Cardinality(Acks)
<1>1. /\ m.type = "PULL"
      /\ rev' = rev \ {m}
      /\ received_once' = TRUE
      /\ pull_packets(m.no, rtx_queue, flight_size, first_flowcut,
                      last_flowlet_choice, stop_sending)
      /\ UNCHANGED <<started, stop_sending, completions, sinkVars, pull_queue,
                     hdr, trims>>
  BY Zenon DEF ReceivePull
<1>2. TypeInv /\ NothingLost /\ PullsNumbered /\ FlightCounts /\ OneFifoPath
  BY Zenon DEF LosslessIInv, LosslessInv
<1>3. IsFiniteSet(Acks) /\ Acks' = Acks
  BY <1>1, <1>2, FS_Subset DEF FlightCounts, Acks
<1>4. acks \in Nat /\ Cardinality(Acks') = acks
  BY <1>3, FS_CardinalityType
<1>5. Sendable(flight_size, acks, first_flowcut, TRUE)
  BY <1>2, <1>4 DEF FlightCounts, Sendable
<1>6. /\ m.no \in Nat /\ flight_size \in 0..UintMax /\ first_flowcut \in BOOLEAN
      /\ stop_sending \in BOOLEAN
  BY <1>1, <1>2, MessageType DEF TypeInv, TypeOK
<1>7. /\ rtx_queue = {} /\ cumulative_ack' = cumulative_ack
      /\ acks <= cumulative_ack /\ (first_flowcut => received_once)
  BY <1>1, <1>2 DEF NothingLost, FlightCounts, sinkVars
<1> HIDE DEF acks
<1>8. Sent(acks, first_flowcut)
  <2>1. pull_packets(m.no, {}, flight_size, first_flowcut, last_flowlet_choice,
                     stop_sending)
    BY <1>1, <1>7, Zenon
  <2> QED BY <2>1, <1>2, <1>5, <1>6, <1>7, LosslessPull
<1>9. /\ \A x \in rev' : x.type # "NACK"
      /\ PullsNumbered' /\ IsFiniteSet(rev')
  BY <1>1, <1>2, ConsumedMessage DEF FlightCounts, sinkVars
<1>10. NothingLost'
  BY <1>1, <1>2, <1>8, <1>9 DEF NothingLost, sinkVars, Sent
<1>11. FlightCounts'
  BY <1>1, <1>4, <1>7, <1>8, <1>9 DEF FlightCounts, Sent
<1>12. SourceStep
  <2>1. acks = 0 => Acks' = {}
    BY <1>3, <1>4, FS_EmptySet
  <2> QED BY <2>1, <1>7, <1>8, Zenon DEF SourceStep, Sent
<1> QED BY <1>8, <1>9, <1>10, <1>11, <1>12 DEF LosslessInv, Sent

LEMMA StartFlowLossless ==
  ASSUME Lossless, LosslessIInv, StartFlow
  PROVE  LosslessInv' /\ SourceStep
<1>1. /\ ~started
      /\ SendBurst(InitialWindow, rtx_queue, 0, received_once, first_flowcut,
                   last_flowlet_choice)
      /\ UNCHANGED <<last_pull, max_pull, received_once, stop_sending, completions,
                     sinkVars, pull_queue, hdr, rev, trims>>
  BY Zenon DEF StartFlow
<1>2. TypeInv /\ NothingLost /\ PullsNumbered /\ FlightCounts /\ OneFifoPath
  BY Zenon DEF LosslessIInv, LosslessInv
<1>3. highest_sent = 0 /\ rev = {} /\ Acks = {}
  BY <1>1, <1>2 DEF TypeInv, IdleUntilStarted, Acks
<1>4. Cardinality(Acks) = 0 /\ cumulative_ack = 0 /\ Acks' = Acks
  BY <1>1, <1>2, <1>3, FS_EmptySet DEF FlightCounts, TypeInv, TypeOK, Acks
<1>5. first_flowcut \in BOOLEAN /\ received_once \in BOOLEAN /\ 0 \in 0..UintMax
  BY <1>2, SizeAssumption DEF TypeInv, TypeOK
<1>6. Sendable(0, 0, first_flowcut, received_once)
  BY <1>2, <1>3, <1>4 DEF FlightCounts, Sendable
<1>7. rtx_queue = {} /\ cumulative_ack' = cumulative_ack
  BY <1>1, <1>2 DEF NothingLost, sinkVars
<1>8. InitialWindow \in Nat /\ InitialWindow <= Unsent({})
  BY <1>3, FS_EmptySet, SizeAssumption DEF InitialWindow, Smaller, Unsent
<1>9. SendBurst(InitialWindow, {}, 0, received_once, first_flowcut, last_flowlet_choice)
  BY <1>1, <1>7, Zenon
<1> HIDE DEF InitialWindow
<1>10. Sent(0, first_flowcut)
  BY <1>2, <1>5, <1>6, <1>7, <1>8, <1>9, LosslessSend
<1>11. NothingLost' /\ PullsNumbered'
  BY <1>1, <1>2, <1>10 DEF NothingLost, PullsNumbered, sinkVars, Sent
<1>12. FlightCounts'
  BY <1>1, <1>2, <1>4, <1>7, <1>10 DEF FlightCounts, Sent
<1>13. SourceStep
  <2>1. Acks' = {}
    BY <1>2, <1>3, <1>4 DEF TypeInv, IdleUntilStarted, Acks
  <2> QED BY <2>1, <1>7, <1>10, Zenon DEF SourceStep, Sent
<1> QED BY <1>10, <1>11, <1>12, <1>13 DEF LosslessInv, Sent


\* The packet that arrives is the first of the window, the one the sink waits
\* for; the window slides and the packet turns into an ACK.
LEMMA ReceiveDataLossless ==
  ASSUME LosslessIInv, NEW p \in Paths, NEW busy \in BOOLEAN, ReceiveData(p, busy)
  PROVE  LosslessInv' /\ SinkStep
<1> DEFINE w   == NewPathid(last_flowlet_choice)
           ack == Ack(cumulative_ack + 1, cumulative_ack + 1, pull_no + 1, ~Paced(busy))
<1>1. TypeInv /\ NothingLost /\ PullsNumbered /\ FlightCounts /\ OneFifoPath
  BY Zenon DEF LosslessIInv, LosslessInv
<1>2. /\ cumulative_ack \in 0..NPackets /\ highest_sent \in cumulative_ack..NPackets
      /\ cumulative_ack \in Nat /\ highest_sent \in Nat /\ pull_no \in Nat
      /\ flight_size \in Nat
  BY <1>1, SizeAssumption DEF FlightCounts, TypeInv, TypeOK
<1>3. net[p] # <<>>
  BY Zenon DEF ReceiveData
<1>4. p = w /\ net[p] = Window(cumulative_ack, highest_sent)
  BY <1>1, <1>3, Zenon DEF OneFifoPath
<1>5. /\ highest_sent > cumulative_ack
      /\ Head(net[p]) = Data(cumulative_ack + 1, FALSE)
      /\ Tail(net[p]) = Window(cumulative_ack + 1, highest_sent)
  <2>1. Window(cumulative_ack, highest_sent) # <<>>
    BY <1>3, <1>4
  <2> QED BY <2>1, <1>2, <1>4, WindowSlides
<1>6. Head(net[p]).seqno = cumulative_ack + 1
  BY <1>5 DEF Data
<1>7. received = {} /\ Advance(cumulative_ack, received) = cumulative_ack + 1
  <2>1. cumulative_ack < NPackets
    BY <1>2, <1>5, SizeAssumption
  <2> QED BY <2>1, <1>1, <1>2, AdvanceEmpty DEF NothingLost
<1>8. /\ net' = [net EXCEPT ![p] = Tail(net[p])]
      /\ cumulative_ack' = cumulative_ack + 1
      /\ received' = {} /\ ooo_number' = ooo_number
      /\ pull_no' = pull_no + 1
      /\ rev' = rev \union {ack}
      /\ pull_queue' \in {<<>>, pull_queue, Append(pull_queue, pull_no + 1)}
      /\ UNCHANGED <<srcVars, hdr, trims>>
  BY <1>2, <1>6, <1>7 DEF ReceiveData
<1>9. /\ UNCHANGED <<started, highest_sent, flight_size, rtx_queue, first_flowcut,
                     last_flowlet_choice, received_once, hdr>>
  BY <1>8 DEF srcVars, sendVars, routeVars
<1>10. /\ ack.type = "ACK" /\ ack.no = pull_no + 1
  BY DEF Ack
<1> HIDE DEF ack, w
<1>11. \A m \in rev : m.no <= pull_no /\ m.no \in Nat
  BY <1>1, MessageType DEF PullsNumbered, TypeInv
<1>12. ack \notin rev
  BY <1>2, <1>10, <1>11
<1>13. NothingLost'
  BY <1>1, <1>8, <1>9, <1>10 DEF NothingLost
<1>14. PullsNumbered'
  <2>1. \A m \in rev' : m.no <= pull_no'
    BY <1>2, <1>8, <1>10, <1>11
  <2>2. pull_queue \in Seq(Nat) /\ \A i \in 1..Len(pull_queue) : pull_queue[i] <= pull_no
    BY <1>1 DEF PullsNumbered, TypeInv, TypeOK
  <2>3. \A i \in 1..Len(pull_queue') : pull_queue'[i] <= pull_no + 1
    <3>1. CASE pull_queue' = <<>>
      BY <3>1
    <3>2. CASE pull_queue' = pull_queue
      <4>1. \A i \in 1..Len(pull_queue) : pull_queue[i] \in Nat
        BY <2>2, ElementOfSeq
      <4> QED BY <3>2, <4>1, <2>2, <1>2
    <3>3. CASE pull_queue' = Append(pull_queue, pull_no + 1)
      <4>1. \A i \in 1..Len(pull_queue) : pull_queue[i] \in Nat
        BY <2>2, ElementOfSeq
      <4> QED BY <3>3, <4>1, <2>2, <1>2, AppendProperties
    <3> QED BY <3>1, <3>2, <3>3, <1>8
  <2> QED BY <2>1, <2>3, <1>8 DEF PullsNumbered
<1>15. FlightCounts'
  <2>1. IsFiniteSet(rev) /\ IsFiniteSet(Acks)
    BY <1>1, FS_Subset DEF FlightCounts, Acks
  <2>2. IsFiniteSet(rev')
    BY <2>1, <1>8, FS_AddElement
  <2>3. Acks' = Acks \union {ack} /\ ack \notin Acks
    BY <1>8, <1>10, <1>12 DEF Acks
  <2>4. Cardinality(Acks') = Cardinality(Acks) + 1 /\ Cardinality(Acks) \in Nat
    BY <2>1, <2>3, FS_AddElement, FS_CardinalityType
  <2>5. /\ flight_size = (highest_sent - cumulative_ack) + Cardinality(Acks)
        /\ Cardinality(Acks) <= cumulative_ack
        /\ first_flowcut => flight_size = 0 /\ received_once
    BY <1>1 DEF FlightCounts
  <2>6. /\ highest_sent' = highest_sent /\ flight_size' = flight_size
        /\ cumulative_ack' = cumulative_ack + 1
        /\ first_flowcut' = first_flowcut /\ received_once' = received_once
    BY <1>8, <1>9
  <2>7. cumulative_ack' <= highest_sent' /\ Cardinality(Acks') <= cumulative_ack'
    BY <2>4, <2>5, <2>6, <1>2, <1>5
  <2>8. flight_size' = (highest_sent' - cumulative_ack') + Cardinality(Acks')
    BY <2>4, <2>5, <2>6, <1>2
  <2>9. first_flowcut' => flight_size' = 0 /\ received_once'
    BY <2>5, <2>6, Zenon
  <2> QED BY <2>2, <2>7, <2>8, <2>9 DEF FlightCounts
<1>16. OneFifoPath'
  <2>1. /\ net'[w] = Window(cumulative_ack + 1, highest_sent)
        /\ \A q \in Paths : q # w => net'[q] = net[q]
    BY <1>1, <1>4, <1>5, <1>8 DEF TypeInv, TypeOK
  <2>2. \A q \in Paths : q # w => net[q] = <<>>
    BY <1>1, Zenon DEF OneFifoPath, w
  <2>3. NewPathid(last_flowlet_choice') = w
    BY <1>9 DEF w
  <2> QED BY <2>1, <2>2, <2>3, <1>8, <1>9 DEF OneFifoPath
<1>17. SinkStep
  BY <1>2, <1>5, <1>8, <1>9 DEF SinkStep
<1> QED BY <1>13, <1>14, <1>15, <1>16, <1>17 DEF LosslessInv

LEMMA PacerTimeoutLossless ==
  ASSUME LosslessIInv, PacerTimeout
  PROVE  LosslessInv'
<1> DEFINE pull == Pull(Head(pull_queue))
<1>1. TypeInv /\ NothingLost /\ PullsNumbered /\ FlightCounts /\ OneFifoPath
  BY Zenon DEF LosslessIInv, LosslessInv
<1>2. /\ pull_queue # <<>>
      /\ rev' = rev \union {pull}
      /\ pull_queue' = Tail(pull_queue)
      /\ UNCHANGED <<srcVars, sinkVars, net, hdr, trims>>
  BY Zenon DEF PacerTimeout
<1>3. pull_queue \in Seq(Nat)
  BY <1>1 DEF TypeInv, TypeOK
<1>4. pull.type = "PULL" /\ pull.no = Head(pull_queue)
  BY DEF Pull
<1> HIDE DEF pull
<1>5. Head(pull_queue) = pull_queue[1] /\ Len(pull_queue) \in Nat \ {0}
  BY <1>2, <1>3, EmptySeq
<1>6. NothingLost'
  BY <1>1, <1>2, <1>4 DEF NothingLost, srcVars, sendVars, sinkVars
<1>7. PullsNumbered'
  <2>1. \A m \in rev' : m.no <= pull_no
    BY <1>1, <1>2, <1>4, <1>5 DEF PullsNumbered
  <2>2. \A i \in 1..Len(Tail(pull_queue)) : Tail(pull_queue)[i] <= pull_no
    BY <1>1, <1>2, <1>3, <1>5, HeadTailProperties DEF PullsNumbered
  <2> QED BY <2>1, <2>2, <1>2 DEF PullsNumbered, sinkVars
<1>8. FlightCounts'
  <2>1. Acks' = Acks /\ IsFiniteSet(rev')
    BY <1>1, <1>2, <1>4, FS_AddElement DEF Acks, FlightCounts
  <2> QED BY <2>1, <1>1, <1>2 DEF FlightCounts, srcVars, sendVars, routeVars, sinkVars
<1>9. OneFifoPath'
  BY <1>1, <1>2 DEF OneFifoPath, srcVars, sendVars, routeVars, sinkVars
<1> QED BY <1>6, <1>7, <1>8, <1>9 DEF LosslessInv

-----------------------------------------------------------------------------
(* The theorems *)

LEMMA InitLossless == Init => LosslessInv
<1> SUFFICES ASSUME Init PROVE LosslessInv
  OBVIOUS
<1>1. Acks = {} /\ IsFiniteSet(rev) /\ Cardinality(Acks) = 0
  BY FS_EmptySet DEF Init, Acks
<1>2. NothingLost /\ PullsNumbered
  BY DEF Init, NothingLost, PullsNumbered
<1>3. FlightCounts
  BY <1>1 DEF Init, FlightCounts
<1>4. OneFifoPath
  <2>0. 0 \in 0..NPackets
    BY SizeAssumption
  <2>1. Window(0, 0) = <<>>
    <3>1. Len(Window(0, 0)) = 0 /\ Window(0, 0) \in Seq(DataPackets)
      BY <2>0, WindowType
    <3> QED BY <3>1, EmptySeq
  <2>2. NewPathid(0) \in Paths
    BY PathsAssumption, NewPathidType
  <2> QED BY <2>1, <2>2 DEF Init, OneFifoPath
<1> QED BY <1>2, <1>3, <1>4 DEF LosslessInv

LEMMA NextLossless ==
  ASSUME Lossless, LosslessIInv, [Next]_vars
  PROVE  LosslessIInv'
<1>1. TypeInv'
  BY NextTypeInv DEF LosslessIInv
<1>2. CASE StartFlow
  BY <1>1, <1>2, StartFlowLossless DEF LosslessIInv
<1>3. CASE DeliverReverse
  <2>1. PICK m \in rev : \/ \E congested \in BOOLEAN : ReceiveAck(m, congested)
                         \/ ReceiveNack(m)
                         \/ ReceivePull(m)
    BY <1>3 DEF DeliverReverse
  <2>2. ~ReceiveNack(m)
    BY DEF ReceiveNack, Nacks, LosslessIInv, LosslessInv, NothingLost
  <2> QED BY <1>1, <2>1, <2>2, ReceiveAckLossless, ReceivePullLossless DEF LosslessIInv
<1>4. CASE DeliverData
  BY <1>1, <1>4, ReceiveDataLossless DEF DeliverData, LosslessIInv
<1>5. CASE DeliverHeader
  <2>1. hdr = <<>>
    BY DEF LosslessIInv, LosslessInv, NothingLost
  <2> QED BY <1>5, <2>1 DEF DeliverHeader
<1>6. CASE PacerTimeout
  BY <1>1, <1>6, PacerTimeoutLossless DEF LosslessIInv
<1>7. CASE TrimSome
  <2>1. trims \in 0..0
    BY DEF Lossless, LosslessIInv, TypeInv, TypeOK
  <2> QED BY <1>7, <2>1 DEF TrimSome, Trim, Lossless
<1>8. CASE UNCHANGED vars
  <2>1. /\ UNCHANGED <<hdr, rtx_queue, received, ooo_number, rev, pull_no, pull_queue>>
        /\ UNCHANGED <<cumulative_ack, highest_sent, flight_size, first_flowcut,
                       received_once, net, last_flowlet_choice>>
    BY <1>8 DEF vars, srcVars, sendVars, routeVars, sinkVars, netVars
  <2>2. NothingLost' /\ PullsNumbered'
    BY <2>1 DEF LosslessIInv, LosslessInv, NothingLost, PullsNumbered
  <2>3. FlightCounts' /\ OneFifoPath'
    BY <2>1 DEF LosslessIInv, LosslessInv, FlightCounts, OneFifoPath, Acks
  <2> QED BY <1>1, <2>2, <2>3 DEF LosslessIInv, LosslessInv
<1> QED BY <1>2, <1>3, <1>4, <1>5, <1>6, <1>7, <1>8 DEF Next

\* Every step moves the window at one of its ends, if it moves it at all.
LEMMA NextMovesWindow ==
  ASSUME Lossless, LosslessIInv, [Next]_vars
  PROVE  SourceStep \/ SinkStep
<1> DEFINE Still == UNCHANGED <<highest_sent, cumulative_ack, last_flowlet_choice>>
<1>1. Still => SourceStep
  BY DEF SourceStep, LosslessIInv, TypeInv, TypeOK
<1>2. CASE StartFlow
  BY <1>2, StartFlowLossless
<1>3. CASE DeliverReverse
  <2>1. PICK m \in rev : \/ \E congested \in BOOLEAN : ReceiveAck(m, congested)
                         \/ ReceiveNack(m)
                         \/ ReceivePull(m)
    BY <1>3 DEF DeliverReverse
  <2>2. ~ReceiveNack(m)
    BY DEF ReceiveNack, Nacks, LosslessIInv, LosslessInv, NothingLost
  <2> QED BY <2>1, <2>2, ReceiveAckLossless, ReceivePullLossless
<1>4. CASE DeliverData
  BY <1>4, ReceiveDataLossless DEF DeliverData
<1>5. CASE DeliverHeader
  <2>1. hdr = <<>>
    BY DEF LosslessIInv, LosslessInv, NothingLost
  <2> QED BY <1>5, <2>1 DEF DeliverHeader
<1>6. CASE PacerTimeout
  BY <1>1, <1>6 DEF PacerTimeout, srcVars, sendVars, routeVars, sinkVars
<1>7. CASE TrimSome
  BY <1>1, <1>7 DEF TrimSome, Trim, srcVars, sendVars, routeVars, sinkVars
<1>8. CASE UNCHANGED vars
  BY <1>1, <1>8 DEF vars, srcVars, sendVars, routeVars, sinkVars
<1> QED BY <1>2, <1>3, <1>4, <1>5, <1>6, <1>7, <1>8 DEF Next

LEMMA LosslessInductive ==
  ASSUME Lossless
  PROVE  Spec => []LosslessIInv
<1>1. Init => LosslessIInv
  BY InitTypeInv, InitLossless DEF LosslessIInv
<1>2. LosslessIInv /\ [Next]_vars => LosslessIInv'
  BY NextLossless
<1> QED BY <1>1, <1>2, PTL DEF Spec

\* The sliding window: the packets in transit are the next ones the sink
\* waits for, on one FIFO path, and the flight size counts them and the ACKs.
THEOREM LosslessInvariant ==
  ASSUME Lossless
  PROVE  Spec => []LosslessInv
<1>1. LosslessIInv => LosslessInv
  BY DEF LosslessIInv
<1> QED BY <1>1, LosslessInductive, PTL

\* In-order delivery: flowcut switching never reorders a flow in a network
\* that trims nothing, whatever the paths, the window and the drains.
THEOREM DeliveryInOrder ==
  ASSUME Lossless
  PROVE  Spec => []InOrder
<1>1. LosslessIInv => InOrder
  BY DEF LosslessIInv, LosslessInv, NothingLost, InOrder
<1> QED BY <1>1, LosslessInductive, PTL

\* A flow that drains is empty when it changes its path: the step that chooses
\* another one finds no packet of the flow in the network and no ACK on the
\* way back but the one it consumes.
THEOREM PathChangesWhenDrained ==
  ASSUME Lossless
  PROVE  Spec => SwitchOnlyWhenDrained
<1> DEFINE Drain == /\ NetSlots = {} /\ hdr = <<>> /\ rtx_queue = {} /\ Nacks = {}
                    /\ Acks \subseteq rev \ rev'
<1>1. ASSUME LosslessIInv, [Next]_vars
      PROVE  [last_flowlet_choice' # last_flowlet_choice => Drain]_vars
  <2> SUFFICES ASSUME last_flowlet_choice' # last_flowlet_choice PROVE Drain
    OBVIOUS
  <2>1. highest_sent = cumulative_ack /\ Acks' = {}
    BY <1>1, NextMovesWindow DEF SourceStep, SinkStep
  <2>2. TypeInv /\ NothingLost /\ OneFifoPath
    BY <1>1, Zenon DEF LosslessIInv, LosslessInv
  <2>3. cumulative_ack \in 0..NPackets /\ highest_sent \in cumulative_ack..NPackets
    BY <2>1, <2>2, SizeAssumption DEF TypeInv, TypeOK
  <2>4. Window(cumulative_ack, highest_sent) = <<>>
    BY <2>1, <2>3, WindowType, Zenon
  <2>5. \A p \in Paths : net[p] = <<>>
    BY <2>2, <2>4, Zenon DEF OneFifoPath
  <2>6. NetSlots = {}
    BY <2>5, EmptySeq DEF NetSlots
  <2>7. hdr = <<>> /\ rtx_queue = {} /\ Nacks = {}
    BY <2>2 DEF NothingLost, Nacks
  <2>8. Acks \subseteq rev \ rev'
    BY <2>1 DEF Acks
  <2> QED BY <2>6, <2>7, <2>8
<1>2. LosslessIInv /\ [Next]_vars => [last_flowlet_choice' # last_flowlet_choice => Drain]_vars
  BY <1>1
<1> QED BY <1>2, LosslessInductive, PTL DEF Spec, SwitchOnlyWhenDrained

\* The transport implements in-order delivery: every step sends packets that
\* follow those already sent, delivers the next packet of the flow, or does
\* neither, and the sink never holds a packet back.
THEOREM Refinement ==
  ASSUME Lossless
  PROVE  Spec => ImplementsInOrderDelivery
<1>1. Init => Abstract!Init
  BY DEF Init, Abstract!Init
<1>2. ASSUME LosslessIInv, LosslessIInv', [Next]_vars
      PROVE  [Abstract!Next]_(Abstract!abstractVars)
  <2>1. received = {} /\ received' = {}
    BY <1>2 DEF LosslessIInv, LosslessInv, NothingLost
  <2>2. /\ highest_sent \in Nat /\ highest_sent' \in Nat /\ highest_sent' <= NPackets
        /\ NPackets \in Nat
    BY <1>2, SizeAssumption DEF LosslessIInv, TypeInv, TypeOK
  <2>3. CASE SourceStep
    <3>1. CASE highest_sent' = highest_sent
      BY <2>1, <2>3, <3>1 DEF SourceStep, Abstract!abstractVars
    <3>2. CASE highest_sent' # highest_sent
      <4>1. highest_sent' \in highest_sent + 1 .. NPackets
        BY <2>2, <2>3, <3>2 DEF SourceStep
      <4> QED BY <4>1, <2>1, <2>3 DEF SourceStep, Abstract!Next, Abstract!Send
    <3> QED BY <3>1, <3>2
  <2>4. CASE SinkStep
    BY <2>1, <2>4 DEF SinkStep, Abstract!Next, Abstract!Deliver
  <2> QED BY <1>2, <2>3, <2>4, NextMovesWindow
<1>3. LosslessIInv /\ LosslessIInv' /\ [Next]_vars => [Abstract!Next]_(Abstract!abstractVars)
  BY <1>2
<1> QED BY <1>1, <1>3, LosslessInductive, PTL
        DEF Spec, ImplementsInOrderDelivery, Abstract!Spec

=============================================================================
