----------------------------- MODULE NdpFlowcut -----------------------------
(***************************************************************************)
(* One flow of the NDP transport under the three sticky routings of the    *)
(* artifact ("ecmp", "flowlet" and "flowcut"): the source NdpSrc with its  *)
(* flowcut drain, the sink NdpSink, the pull pacer of the sink's host and  *)
(* the network between them (fattree/sim/ndp.cpp).                         *)
(*                                                                         *)
(* Sizes are counted in packets of _mss bytes: a sequence number s stands  *)
(* for the bytes (s-1)*_mss+1 .. s*_mss and a size k for k*_mss bytes.     *)
(* Round-trip times are abstracted to one bit per ACK, "congested".        *)
(***************************************************************************)
EXTENDS Integers, Sequences, FiniteSets, SequencesExt

CONSTANTS Paths,        \* the ECMP entropies the source can write in a packet
          FromPath,     \* the entropy equal to the source's host number
          HotPath,      \* the entropy send_packet avoids for new packets (169)
          DetourPath,   \* the entropy it writes instead (172)
          NPackets,     \* _flow_size
          Cwnd,         \* _cwnd
          Routing,      \* custom_routing, the -routing_sc argument
          FlowcutMode,  \* flowcut_mode, the -flowcut_mode argument
          MaxTrims,     \* bound: packets the switches may trim in a behaviour
          UintMax       \* bound: largest value of the unsigned _flight_size

ASSUME PathsAssumption ==
  /\ Paths \subseteq Nat /\ 0 \in Paths /\ FromPath \in Paths
  /\ HotPath \in Paths => DetourPath \in Paths
ASSUME SizeAssumption ==
  /\ NPackets \in Nat \ {0} /\ Cwnd \in Nat \ {0}
  /\ MaxTrims \in Nat /\ UintMax \in Nat /\ NPackets <= UintMax
ASSUME ModeAssumption ==
  Routing \in {"ecmp", "flowlet", "flowcut"} /\ FlowcutMode \in 0..2

VARIABLES
  \* the source, NdpSrc
  started,              \* startflow() has run
  highest_sent,         \* _highest_sent
  flight_size,          \* _flight_size, unsigned
  last_pull, max_pull,  \* _last_pull and _max_pull
  rtx_queue,            \* the keys of the map _rtx_queue
  received_once, stop_sending, first_flowcut, last_flowlet_choice,
  completions,          \* activations of _end_trigger
  \* the sink, NdpSink
  cumulative_ack,       \* _cumulative_ack
  received,             \* _received, the packets held behind a gap
  ooo_number,           \* out-of-order arrivals
  pull_no,              \* _pull_no
  \* the pacer, NdpPullPacer
  pull_queue,           \* the flow's queue in _pull_queue
  \* the network
  net,                  \* net[p]: full packets in transit with entropy p
  hdr,                  \* trimmed packets in transit
  rev,                  \* ACKs, NACKs and PULLs in transit
  trims                 \* packets trimmed so far

routeVars == <<first_flowcut, last_flowlet_choice>>
sendVars  == <<highest_sent, flight_size, last_pull, max_pull, rtx_queue>>
srcVars   == <<started, sendVars, routeVars, received_once, stop_sending,
               completions>>
sinkVars  == <<cumulative_ack, received, ooo_number, pull_no>>
netVars   == <<net, hdr, rev, trims>>
vars      == <<srcVars, sinkVars, pull_queue, netVars>>

Smaller(a, b) == IF a < b THEN a ELSE b
Larger(a, b)  == IF a > b THEN a ELSE b

InitialWindow == Smaller(Cwnd, NPackets)

\* Messages.  `no' is the sink's pull number when the message was made; an
\* ACK or a NACK shows it to the source only if its pull bit is set.
Data(s, again)       == [seqno |-> s, rtx |-> again]
Ack(s, cum, no, b)   == [type |-> "ACK", ackno |-> s, cum |-> cum, no |-> no, pull |-> b]
Nack(s, no, b)       == [type |-> "NACK", ackno |-> s, no |-> no, pull |-> b]
Pull(no)             == [type |-> "PULL", no |-> no]

PullNoOneAhead(m) == IF m.pull THEN m.no + 1 ELSE 0
PullNo(m) == IF m.pull THEN m.no ELSE 0

Acks  == {m \in rev : m.type = "ACK"}
Nacks == {m \in rev : m.type = "NACK"}

-----------------------------------------------------------------------------
(* The source *)

\* choose_route(): the entropy of the next packet, with the values it leaves
\* in first_flowcut and last_flowlet_choice.  The gap a flowlet waits for is
\* time, so with "flowlet" the last entropy or any other may come next.
Route(p, first, choice) == [path |-> p, first |-> first, choice |-> choice]

choose_route_each_time(once, first, choice) ==
  IF once THEN {Route(p, FALSE, p) : p \in Paths} ELSE {Route(FromPath, first, FromPath)}

choose_route(once, first, choice) ==
  IF Routing = "ecmp" THEN {Route(FromPath, first, choice)}
  ELSE IF ~once       THEN {Route(FromPath, first, FromPath)}
  ELSE IF Routing = "flowlet" THEN {Route(p, first, p) : p \in Paths}
  ELSE IF first       THEN {Route(p, FALSE, p) : p \in Paths}
  ELSE                     {Route(choice, FALSE, choice)}

\* send_packet() writes 172 for 169, but only in packets sent the first time.
NewPathid(p) == IF p = HotPath THEN DetourPath ELSE p

SameLowest(S, k) ==
  {f \in [1..k -> S] : \A i \in 1..k, s \in S : f[i] <= s}

\* The k smallest keys of the map _rtx_queue in ascending order, as
\* send_packet() takes them from its beginning.  (A set of one function.)
Lowest(S, k) ==
  {f \in [1..k -> S] :
     /\ \A i, j \in 1..k : i < j => f[i] < f[j]
     /\ \A s \in S : s \in {f[i] : i \in 1..k} \/ \A i \in 1..k : f[i] < s}

\* New packets have the lowest priority in the host's queue, so a
\* retransmission overtakes those that are still waiting there: any number of
\* them, since how many have left the host is a matter of time.
Overtake(q, rs) ==
  IF rs = <<>> THEN {q}
  ELSE {SubSeq(q, 1, i) \o rs \o SubSeq(q, i + 1, Len(q)) :
          i \in {i \in 0..Len(q) : \A j \in i + 1 .. Len(q) : ~q[j].rtx}}

\* _flight_size += _mss, k times, and _flight_size -= _mss.
Plus(flight, k) ==
  IF flight + k > UintMax THEN flight + k - UintMax - 1 ELSE flight + k
MinusTwo(flight) == IF flight < 2 THEN UintMax ELSE flight - 2
MinusOne(flight) == IF flight = 0 THEN UintMax ELSE flight - 1

\* The state of the network after the source has sent the retransmissions rs
\* and the new packets `new' on path p.
Transmit(p, rs, new) ==
  {[[net EXCEPT ![p] = q] EXCEPT ![NewPathid(p)] = @ \o new] : q \in Overtake(net[p], rs)}

\* send_packet(), called `burst' times in one event: retransmissions come
\* before new packets, and only new packets count in _flight_size.
SendBurst(burst, rtxq, flight, once, first, choice) ==
  LET again == Smaller(burst, Cardinality(rtxq))
      fresh == burst - again
      new   == [j \in 1..fresh |-> Data(highest_sent + j, FALSE)]
  IN  /\ highest_sent' = highest_sent + fresh
      /\ flight_size' = Plus(flight, fresh)
      /\ IF burst = 0
         THEN /\ rtx_queue' = rtxq /\ net' = net
              /\ first_flowcut' = first /\ last_flowlet_choice' = choice
         ELSE \E f \in Lowest(rtxq, again), r \in choose_route(once, first, choice) :
                LET rs == [j \in 1..again |-> Data(f[j], TRUE)]
                IN  /\ rtx_queue' = rtxq \ {f[j] : j \in 1..again}
                    /\ net' \in Transmit(r.path, rs, new)
                    /\ first_flowcut' = r.first
                    /\ last_flowlet_choice' = r.choice

\* The calls of send_packet() that would still find a packet.
UnsentNewOnly(rtxq) == NPackets - highest_sent
UnsentOneTooMany(rtxq) == Cardinality(rtxq) + (NPackets + 1 - highest_sent)
Unsent(rtxq) == Cardinality(rtxq) + (NPackets - highest_sent)

\* pull_packets(): pulls are cumulative, and nothing is sent in a drain.
pull_packets(no, rtxq, flight, first, choice, stop) ==
  LET top   == Larger(max_pull, no)
      burst == IF stop THEN 0 ELSE Smaller(top - last_pull, Unsent(rtxq))
  IN  /\ max_pull' = top
      /\ last_pull' = last_pull + burst
      /\ SendBurst(burst, rtxq, flight, TRUE, first, choice)

\* A handler that returns without calling pull_packets().
NothingSent(rtxq, flight, first, choice) ==
  /\ rtx_queue' = rtxq /\ flight_size' = flight
  /\ first_flowcut' = first /\ last_flowlet_choice' = choice
  /\ UNCHANGED <<highest_sent, last_pull, max_pull, net>>

\* startflow(): the first window goes out unpulled.
StartFlow ==
  /\ ~started
  /\ started' = TRUE
  /\ SendBurst(InitialWindow, rtx_queue, 0, received_once, first_flowcut,
               last_flowlet_choice)
  /\ UNCHANGED <<last_pull, max_pull, received_once, stop_sending, completions,
                 sinkVars, pull_queue, hdr, rev, trims>>

\* The end of a drain: nothing is in flight any more.
DrainedTooEarly(stop, flight) == Routing = "flowcut" /\ stop /\ flight <= 1
DrainedBeforeStop(stop, flight) == Routing = "flowcut" /\ stop_sending /\ flight = 0
Drained(stop, flight) == Routing = "flowcut" /\ stop /\ flight = 0

\* The ACK shows that the sink has the whole flow.
DoneOneTooSoon(m) == m.cum >= NPackets - 1
Done(m) == m.cum >= NPackets

\* The ACK calls pull_packets(): it carries a pull or ends a drain.
PullsOnPullBitOnly(m, drained) == m.pull
Pulls(m, drained) == m.pull \/ drained

\* receivePacket() and processAck().  In mode 1 `congested' is the ACK's
\* stop_sending_flowcut, written by the ingress switch and cleared by
\* receivePacket() when nothing is in flight; in mode 0 it is the comparison
\* of the averaged round-trip time with flowcut_rtt_ratio.
ReceiveAck(m, congested) ==
  LET flight   == MinusOne(flight_size)
      stop     == \/ stop_sending
                  \/ FlowcutMode = 1 /\ congested /\ flight_size # 0
                  \/ FlowcutMode = 0 /\ congested /\ Routing = "flowcut"
      drained  == Drained(stop, flight)
      first    == drained \/ first_flowcut
      stopping == stop /\ ~drained
  IN  /\ m \in Acks
      /\ rev' = rev \ {m}
      /\ received_once' = TRUE
      /\ stop_sending' = stopping
      /\ completions' = IF Done(m) THEN completions + 1 ELSE completions
      /\ IF ~Done(m) /\ Pulls(m, drained)
         THEN pull_packets(PullNo(m), rtx_queue, flight, first,
                           last_flowlet_choice, stopping)
         ELSE NothingSent(rtx_queue, flight, first, last_flowlet_choice)
      /\ UNCHANGED <<started, sinkVars, pull_queue, hdr, trims>>

\* receivePacket() and processNack(): the packet made for the retransmission
\* already calls choose_route(), and is sent only if a pull allows it.
ReceiveNack(m) ==
  LET rtxq == rtx_queue \union {m.ackno}
  IN  /\ m \in Nacks
      /\ rev' = rev \ {m}
      /\ received_once' = TRUE
      /\ \E r \in choose_route(TRUE, first_flowcut, last_flowlet_choice) :
           IF m.pull \/ last_pull < max_pull
           THEN pull_packets(PullNo(m), rtxq, flight_size, r.first, r.choice,
                             stop_sending)
           ELSE NothingSent(rtxq, flight_size, r.first, r.choice)
      /\ UNCHANGED <<started, stop_sending, completions, sinkVars, pull_queue,
                     hdr, trims>>

\* receivePacket(), case NDPPULL.
ReceivePull(m) ==
  /\ m \in rev /\ m.type = "PULL"
  /\ rev' = rev \ {m}
  /\ received_once' = TRUE
  /\ pull_packets(m.no, rtx_queue, flight_size, first_flowcut,
                  last_flowlet_choice, stop_sending)
  /\ UNCHANGED <<started, stop_sending, completions, sinkVars, pull_queue,
                 hdr, trims>>

-----------------------------------------------------------------------------
(* The sink and its pacer *)

\* The new _cumulative_ack when the next expected packet arrives: it also
\* passes the packets of _received that follow without a gap.
Advance(cum, held) ==
  CHOOSE c \in cum + 1 .. NPackets :
    /\ \A s \in cum + 2 .. c : s \in held
    /\ c + 1 \notin held

\* sendPacket() of the pacer: the ACK or NACK carries its pull only if the
\* pacer is idle, that is, its queue is empty and the last pull is old enough.
\* The pacer serves every flow of the host, so it may be busy at any time.
Paced(busy) == busy \/ pull_queue # <<>>

\* receivePacket() of the sink for a full packet, with its trailing
\* release_pulls() once the whole flow has arrived.
ReceiveData(p, busy) ==
  LET s     == Head(net[p]).seqno
      next  == s = cumulative_ack + 1
      gap   == s > cumulative_ack + 1
      cum   == IF next THEN Advance(cumulative_ack, received) ELSE cumulative_ack
      no    == pull_no + 1
      pulls == IF Paced(busy) THEN Append(pull_queue, no) ELSE pull_queue
  IN  /\ net[p] # <<>>
      /\ net' = [net EXCEPT ![p] = Tail(@)]
      /\ cumulative_ack' = cum
      /\ received' = IF gap THEN received \union {s}
                     ELSE {t \in received : t > cum}
      /\ ooo_number' = IF gap THEN ooo_number + 1 ELSE ooo_number
      /\ pull_no' = no
      /\ rev' = rev \union {Ack(s, cum, no, ~Paced(busy))}
      /\ pull_queue' = IF cum = NPackets THEN <<>> ELSE pulls
      /\ UNCHANGED <<srcVars, hdr, trims>>

\* receivePacket() of the sink for a trimmed packet.  Headers have priority
\* at every hop and may have been trimmed at different ones: any may be next.
ReceiveHeader(i, busy) ==
  /\ hdr' = RemoveAt(hdr, i)
  /\ pull_no' = pull_no + 1
  /\ rev' = rev \union {Nack(hdr[i], pull_no + 1, ~Paced(busy))}
  /\ pull_queue' = IF Paced(busy) THEN Append(pull_queue, pull_no + 1) ELSE pull_queue
  /\ UNCHANGED <<srcVars, cumulative_ack, received, ooo_number, net, trims>>

\* doNextEvent() of the pacer.  With an empty queue it does nothing.
PacerTimeout ==
  /\ pull_queue # <<>>
  /\ rev' = rev \union {Pull(Head(pull_queue))}
  /\ pull_queue' = Tail(pull_queue)
  /\ UNCHANGED <<srcVars, sinkVars, net, hdr, trims>>

\* A switch whose low-priority queue is full, or whose link has failed, cuts
\* the payload of an arriving packet and queues the header.
Trim(p, i) ==
  /\ trims < MaxTrims
  /\ trims' = trims + 1
  /\ hdr' = Append(hdr, net[p][i].seqno)
  /\ net' = [net EXCEPT ![p] = RemoveAt(@, i)]
  /\ UNCHANGED <<srcVars, sinkVars, pull_queue, rev>>

-----------------------------------------------------------------------------
Init ==
  /\ started = FALSE /\ highest_sent = 0 /\ flight_size = 0
  /\ last_pull = 0 /\ max_pull = 0 /\ rtx_queue = {}
  /\ received_once = FALSE /\ stop_sending = FALSE /\ first_flowcut = FALSE
  /\ last_flowlet_choice = 0 /\ completions = 0
  /\ cumulative_ack = 0 /\ received = {} /\ ooo_number = 0 /\ pull_no = 0
  /\ pull_queue = <<>>
  /\ net = [p \in Paths |-> <<>>] /\ hdr = <<>> /\ rev = {} /\ trims = 0

DeliverReverse ==
  \E m \in rev : \/ \E congested \in BOOLEAN : ReceiveAck(m, congested)
                 \/ ReceiveNack(m)
                 \/ ReceivePull(m)

DeliverData == \E p \in Paths, busy \in BOOLEAN : ReceiveData(p, busy)

DeliverHeader == \E i \in 1..Len(hdr), busy \in BOOLEAN : ReceiveHeader(i, busy)

TrimSome == \E p \in Paths : \E i \in 1..Len(net[p]) : Trim(p, i)

Next ==
  \/ StartFlow
  \/ DeliverReverse
  \/ DeliverData
  \/ DeliverHeader
  \/ PacerTimeout
  \/ TrimSome

Spec == Init /\ [][Next]_vars

\* Every event the simulator has scheduled is eventually executed: the flow
\* starts, packets and messages arrive, and the pacer's timer fires.
Fairness ==
  /\ WF_vars(StartFlow)
  /\ WF_vars(DeliverData)
  /\ WF_vars(DeliverHeader)
  /\ WF_vars(DeliverReverse)
  /\ WF_vars(PacerTimeout)

FairSpec == Spec /\ Fairness

-----------------------------------------------------------------------------
(* Properties *)

Packets == 1..NPackets

DataPackets == [seqno : Packets, rtx : BOOLEAN]
AckMessages == [type : {"ACK"}, ackno : Packets, cum : 0..NPackets, no : Nat,
                pull : BOOLEAN]
NackMessages == [type : {"NACK"}, ackno : Packets, no : Nat, pull : BOOLEAN]
PullMessages == [type : {"PULL"}, no : Nat]

\* Every variable has the type its declaration gives it; in particular the
\* source never sends beyond the end of the flow.
TypeOK ==
  /\ started \in BOOLEAN /\ highest_sent \in 0..NPackets
  /\ flight_size \in 0..UintMax
  /\ last_pull \in Nat /\ max_pull \in Nat
  /\ rtx_queue \subseteq Packets
  /\ received_once \in BOOLEAN /\ stop_sending \in BOOLEAN
  /\ first_flowcut \in BOOLEAN /\ last_flowlet_choice \in Paths
  /\ completions \in Nat
  /\ cumulative_ack \in 0..NPackets /\ received \subseteq Packets
  /\ ooo_number \in Nat /\ pull_no \in Nat
  /\ pull_queue \in Seq(Nat)
  /\ net \in [Paths -> Seq(DataPackets)]
  /\ hdr \in Seq(Packets)
  /\ rev \subseteq (AckMessages \union NackMessages \union PullMessages)
  /\ trims \in 0..MaxTrims

\* The full packets in transit, by entropy and position.
NetSlots == UNION {{p} \X (1..Len(net[p])) : p \in Paths}

\* The promise of flowcut switching: no packet reaches the sink before its
\* predecessors, whatever order ACKs and pulls return in and however often
\* the source drains the flow and moves it to another path.
InOrder == ooo_number = 0 /\ received = {}

\* _flight_size counts exactly the new packets whose ACK has not been
\* processed, wherever they are: in transit, trimmed, NACKed, waiting to be
\* sent again, or delivered with the ACK under way.  The end of a drain is
\* decided on this number, which is unsigned and must not wrap.
FlightConservation ==
  flight_size = Cardinality(NetSlots) + Len(hdr) + Cardinality(Nacks)
                + Cardinality(rtx_queue) + Cardinality(Acks)

\* Receiver-driven flow control: every arrival at the sink mints one pull and
\* every packet sent after the first window spends one, so that no more than
\* the first window is ever in transit, however pulls are paced, flushed,
\* reordered or kept back by a drain.
CreditConservation ==
  started => /\ Cardinality(NetSlots) + Len(hdr) = InitialWindow + last_pull - pull_no
             /\ last_pull <= max_pull /\ max_pull <= pull_no

\* A packet that was sent has one and only one live copy: in transit, as a
\* header, as a NACK, in the retransmission queue or at the sink.
CopiesInTransit(s) ==
  Cardinality({x \in NetSlots : net[x[1]][x[2]].seqno = s})
  + Cardinality({i \in 1..Len(hdr) : hdr[i] = s})
  + Cardinality({m \in Nacks : m.ackno = s})

OneLiveCopy ==
  \A s \in 1..highest_sent :
    LET waiting == s \in rtx_queue
        arrived == s <= cumulative_ack \/ s \in received
    IN  IF waiting \/ arrived
        THEN CopiesInTransit(s) = 0 /\ ~(waiting /\ arrived)
        ELSE CopiesInTransit(s) = 1

\* All packets in transit belong to one flowcut: they travel on the path
\* chosen last, or on the one that new packets take instead of it.
OneFlowcutInFlight ==
  \A p \in Paths : net[p] # <<>> =>
    p \in {last_flowlet_choice, NewPathid(last_flowlet_choice)}

\* The trigger that starts the next flow is activated at most once, though
\* ACKs are reordered and any of them may report the whole flow.
CompletesOnce == completions <= 1

\* A step that changes the path of the flow finds nothing of it in the
\* network, in the retransmission queue or on the way back, the ACK that the
\* step consumes excepted.
SwitchOnlyWhenDrained ==
  [][last_flowlet_choice' # last_flowlet_choice =>
       /\ NetSlots = {} /\ hdr = <<>> /\ rtx_queue = {} /\ Nacks = {}
       /\ Acks \subseteq rev \ rev']_vars

\* Every flow completes, however often it is stopped on the way.
FlowCompletes == <>(completions > 0)

\* A source that stops sending starts again.
DrainEnds == stop_sending ~> ~stop_sending

\* A packet queued for retransmission is sent again.
NackedIsResent == \A s \in Packets : s \in rtx_queue ~> s \notin rtx_queue

\* Without trimming, the transport is a sliding window over one FIFO path:
\* the packets in transit are the next ones the sink expects, in order and on
\* the path of the current flowcut, and the flight size counts them and the
\* ACKs under way.  This is the inductive invariant behind InOrder.
Window(c, h) == [i \in 1 .. h - c |-> Data(c + i, FALSE)]

NothingLost ==
  /\ hdr = <<>> /\ rtx_queue = {} /\ received = {} /\ ooo_number = 0
  /\ \A m \in rev : m.type # "NACK"

PullsNumbered ==
  /\ \A m \in rev : m.no <= pull_no
  /\ \A i \in 1..Len(pull_queue) : pull_queue[i] <= pull_no

FlightCounts ==
  /\ cumulative_ack <= highest_sent
  /\ IsFiniteSet(rev) /\ Cardinality(Acks) <= cumulative_ack
  /\ flight_size = (highest_sent - cumulative_ack) + Cardinality(Acks)
  /\ first_flowcut => flight_size = 0 /\ received_once

OneFifoPath ==
  LET w == NewPathid(last_flowlet_choice)
  IN  /\ net[w] = Window(cumulative_ack, highest_sent)
      /\ \A p \in Paths : p # w => net[p] = <<>>

LosslessInv == NothingLost /\ PullsNumbered /\ FlightCounts /\ OneFifoPath

\* The transport implements in-order delivery: the sink takes the packets of
\* the flow one by one and never holds one back.
Abstract == INSTANCE InOrderDelivery
              WITH sent <- highest_sent, delivered <- cumulative_ack, held <- received

ImplementsInOrderDelivery == Abstract!Spec

=============================================================================
