---------------------------- MODULE FlowcutTable ----------------------------
(***************************************************************************)
(* The in-flight tables of the switches, for one flow                      *)
(* (fattree/sim/datacenter/fat_tree_interdc_switch.cpp).  Every switch on  *)
(* the way counts the bytes of the flow that went through it and were not  *)
(* acknowledged through it yet, and remembers the neighbour they came      *)
(* from; an ACK finds its way back by asking each switch for that name.    *)
(*                                                                         *)
(* The transport is abstracted to what the tables see of it: which path a  *)
(* packet takes (NdpFlowcut says when the path may change) and the reused  *)
(* storage a packet is built in (network.h, PacketDB).  NACKs and PULLs    *)
(* carry is_pull and leave the tables alone.                               *)
(***************************************************************************)
EXTENDS Integers, Sequences, FiniteSets, SequencesExt

CONSTANTS Switches,
          Source,      \* the host of the source
          NoNode,      \* no next hop given yet
          Paths,       \* the entropies of the source
          Hops,        \* Hops[p]: the switches a packet with entropy p meets
          HotPath,     \* the entropy new packets avoid (169)
          DetourPath,  \* the entropy they take instead (172)
          NPackets,    \* packets of the flow
          PacketSize,  \* bytes of a full packet: mss + 64
          AckedSize,   \* bytes an ACK takes out of an entry: 4096 + 64
          Routing,     \* custom_routing
          MaxTrims,    \* bound: packets trimmed in a behaviour
          MaxReuse     \* bound: packets built in a trimmed packet's storage

\* Every path starts at the source's TOR, and meets no switch twice.
ASSUME HopsAssumption ==
  /\ Paths # {} /\ Source \notin Switches /\ NoNode \notin Switches \union {Source}
  /\ Hops \in [Paths -> Seq(Switches)]
  /\ \A p \in Paths : Hops[p] # <<>> /\ IsInjective(Hops[p])
  /\ \A p, q \in Paths : Hops[p][1] = Hops[q][1]
  /\ HotPath \in Paths => DetourPath \in Paths
ASSUME NumbersAssumption ==
  /\ NPackets \in Nat /\ MaxTrims \in Nat /\ MaxReuse \in Nat
  /\ PacketSize \in Nat \ {0} /\ AckedSize \in Nat \ {0}
ASSUME RoutingAssumption == Routing \in {"flowlet", "flowcut"}

VARIABLES
  table,     \* _flowcut_table of each switch at the key of the flow
  pkt,       \* the packets of the flow and their ACKs
  current,   \* the path the source chose last
  dirty,     \* free packets in the pool whose _is_trim is still set
  trims,     \* packets trimmed so far
  reuses,    \* packets built in such storage so far
  aborted    \* an assert(false) was reached

bounds == <<trims, reuses>>
vars == <<table, pkt, current, dirty, bounds, aborted>>

Packets == 1..NPackets
Nodes   == Switches \union {Source}

Entry(bytes, name) == [in_flight_bytes |-> bytes, source_name |-> name]
NoEntry == Entry(0, Source)

\* A full packet or a header that has left `at' switches of its path, an ACK
\* at the switch `hop' with the next hop it was given there, and a packet the
\* network knows nothing of: not sent, NACKed, or acknowledged.
Forward(kind, p, at, is_trim) ==
  [kind |-> kind, path |-> p, at |-> at, is_trim |-> is_trim]
AckAt(p, hop, next) == [kind |-> "ack", path |-> p, hop |-> hop, next |-> next]
Away(kind) == [kind |-> kind]

OfKind(kind) == {i \in Packets : pkt[i].kind = kind}
Tor(p) == Hops[p][1]

-----------------------------------------------------------------------------
(* The table *)

\* increaseFlowInFlight(): an entry keeps the name it was created with.
increaseFlowInFlight(w, name) ==
  LET e == table[w]
  IN  table' = [table EXCEPT ![w] =
        IF e = NoEntry THEN Entry(PacketSize, name)
        ELSE Entry(e.in_flight_bytes + PacketSize, e.source_name)]

\* The entry after an ACK, erased when nothing is left of it.
AcknowledgedAtOnce(e) == NoEntry
AcknowledgedNeverErased(e) ==
  Entry(e.in_flight_bytes - AckedSize, e.source_name)
Acknowledged(e) ==
  IF e.in_flight_bytes <= AckedSize THEN NoEntry
  ELSE Entry(e.in_flight_bytes - AckedSize, e.source_name)

\* assert(false): the program stops.
Abort == aborted' = TRUE /\ UNCHANGED <<table, pkt, current, dirty, bounds>>

-----------------------------------------------------------------------------
(* The source and the sink, as the tables see them *)

\* Nothing of the flow is in the network: no packet, no header, no NACK that
\* waits to be sent again, and no ACK.
DrainedOfData == OfKind("data") = {}
Drained == \A i \in Packets : pkt[i].kind \in {"unsent", "done"}

\* With "flowcut" the path changes only after a drain, with "flowlet" after a
\* pause of any length.
ChoosePath == IF Routing = "flowlet" \/ Drained THEN Paths ELSE {current}
NewPathid(p) == IF p = HotPath THEN DetourPath ELSE p

\* newpkt() takes a packet from the pool and leaves _is_trim as it finds it.
BuildPacket(i, p) ==
  \E is_trim \in BOOLEAN :
    /\ is_trim => dirty > 0 /\ reuses < MaxReuse
    /\ pkt' = [pkt EXCEPT ![i] = Forward("data", p, 0, is_trim)]
    /\ dirty' = IF is_trim THEN dirty - 1 ELSE dirty
    /\ reuses' = IF is_trim THEN reuses + 1 ELSE reuses

SendNew(i) ==
  /\ pkt[i].kind = "unsent"
  /\ \A j \in 1 .. i - 1 : pkt[j].kind # "unsent"
  /\ current' \in ChoosePath
  /\ BuildPacket(i, NewPathid(current'))
  /\ UNCHANGED <<table, trims, aborted>>

SendAgain(i) ==
  /\ pkt[i].kind = "nack"
  /\ current' \in ChoosePath
  /\ BuildPacket(i, current')
  /\ UNCHANGED <<table, trims, aborted>>

\* The sink returns the packet to the pool and answers it with an ACK, which
\* starts at the last switch of the packet's path, or with a NACK.
Arrive(i) ==
  LET p == pkt[i].path
  IN  /\ pkt[i].kind \in {"data", "header"} /\ pkt[i].at = Len(Hops[p])
      /\ dirty' = IF pkt[i].is_trim THEN dirty + 1 ELSE dirty
      /\ pkt' = [pkt EXCEPT ![i] = IF @.kind = "data"
                                   THEN AckAt(p, Last(Hops[p]), NoNode)
                                   ELSE Away("nack")]
      /\ UNCHANGED <<table, current, bounds, aborted>>

-----------------------------------------------------------------------------
(* The switches *)

\* The neighbour a packet with entropy p came from at its k-th switch.
PreviousNameUnset(p, k) == IF k = 1 THEN NoNode ELSE Hops[p][k - 1]
PreviousName(p, k) == IF k = 1 THEN Source ELSE Hops[p][k - 1]

\* receivePacket(), egress, for a packet on its way to the sink: one that is
\* marked as trimmed is not counted, whether or not it has its payload.
Counts(i) == ~pkt[i].is_trim

ForwardEgress(i) ==
  LET p == pkt[i].path
      k == pkt[i].at + 1
  IN  /\ pkt[i].kind \in {"data", "header"} /\ k <= Len(Hops[p])
      /\ IF Counts(i) THEN increaseFlowInFlight(Hops[p][k], PreviousName(p, k))
         ELSE UNCHANGED table
      /\ pkt' = [pkt EXCEPT ![i] = Forward(@.kind, p, k, @.is_trim)]
      /\ UNCHANGED <<current, dirty, bounds, aborted>>

\* strip_payload(), in the queue behind a switch.
Trim(i) ==
  /\ pkt[i].kind = "data" /\ pkt[i].at > 0 /\ trims < MaxTrims
  /\ pkt' = [pkt EXCEPT ![i] = Forward("header", @.path, @.at, TRUE)]
  /\ trims' = trims + 1
  /\ UNCHANGED <<table, current, dirty, reuses, aborted>>

\* receivePacket(), ingress, for an ACK: getNextHop() knows the hosts of the
\* switch and asks getPreviousName() for everything else.  The name is that
\* of a neighbour towards the source, hence among the available hops.
AckIngress(i) ==
  LET w == pkt[i].hop
  IN  /\ pkt[i].kind = "ack" /\ pkt[i].next = NoNode
      /\ IF w # Tor(pkt[i].path) /\ table[w] = NoEntry THEN Abort
         ELSE /\ pkt' = [pkt EXCEPT ![i] = AckAt(@.path, w,
                           IF w = Tor(@.path) THEN Source ELSE table[w].source_name)]
              /\ UNCHANGED <<table, current, dirty, bounds, aborted>>

\* receivePacket(), egress, for an ACK, after the delay of the switch: the
\* entry is taken down, and the ACK goes to the next switch or the source.
AckEgress(i) ==
  LET w == pkt[i].hop
      n == pkt[i].next
  IN  /\ pkt[i].kind = "ack" /\ n # NoNode
      /\ IF table[w] = NoEntry THEN Abort
         ELSE /\ table' = [table EXCEPT ![w] = Acknowledged(@)]
              /\ pkt' = [pkt EXCEPT ![i] = IF n = Source THEN Away("done")
                                           ELSE AckAt(@.path, n, NoNode)]
              /\ UNCHANGED <<current, dirty, bounds, aborted>>

-----------------------------------------------------------------------------
Init ==
  /\ table = [w \in Switches |-> NoEntry]
  /\ pkt = [i \in Packets |-> Away("unsent")]
  /\ current \in Paths
  /\ dirty = 0 /\ trims = 0 /\ reuses = 0
  /\ aborted = FALSE

Next ==
  /\ ~aborted
  /\ \E i \in Packets :
       \/ SendNew(i)
       \/ SendAgain(i)
       \/ Arrive(i)
       \/ ForwardEgress(i)
       \/ Trim(i)
       \/ AckIngress(i)
       \/ AckEgress(i)

Spec == Init /\ [][Next]_vars

-----------------------------------------------------------------------------
(* Properties *)

PacketStates ==
  [kind : {"data", "header"}, path : Paths, at : Nat, is_trim : BOOLEAN]
    \union [kind : {"ack"}, path : Paths, hop : Switches, next : Nodes \union {NoNode}]
    \union [kind : {"unsent", "nack", "done"}]

Entries == [in_flight_bytes : Nat, source_name : Nodes]

\* Every variable has its type; in particular an entry never counts less than
\* nothing, and an ACK is never sent to a host other than the source.
TypeOK ==
  /\ table \in [Switches -> Entries]
  /\ pkt \in [Packets -> PacketStates]
  /\ \A i \in OfKind("data") \union OfKind("header") : pkt[i].at <= Len(Hops[pkt[i].path])
  /\ current \in Paths
  /\ dirty \in Nat /\ trims \in 0..MaxTrims /\ reuses \in 0..MaxReuse
  /\ aborted \in BOOLEAN

\* The position of switch w on path p, 0 if it is not on it.
Position(p, w) == IF \E k \in 1..Len(Hops[p]) : Hops[p][k] = w
                  THEN CHOOSE k \in 1..Len(Hops[p]) : Hops[p][k] = w ELSE 0

\* A packet has left switch w towards the sink, and its ACK has not left w.
Outstanding(m, w) ==
  \/ m.kind = "data" /\ Position(m.path, w) \in 1..m.at
  \/ m.kind = "ack" /\ Position(m.path, w) \in 1..Position(m.path, m.hop)

OutstandingBytes(f, w) ==
  PacketSize * Cardinality({i \in Packets : Outstanding(f[i], w)})

\* An ACK never finds its flow missing from the table of a switch: what
\* decreaseFlowInFlight() and getPreviousName() assert, "should never happen".
NeverAborts == ~aborted

\* The entry of a switch is what its declaration says, the bytes that are
\* outstanding in flight behind it: no more, no fewer, and none is left over.
InFlightIsOutstanding ==
  \A w \in Switches : table[w].in_flight_bytes = OutstandingBytes(pkt, w)

\* An entry never counts less than what is outstanding, so that it is still
\* there when the last ACK asks for it, even if headers left bytes behind.
InFlightCovers ==
  \A w \in Switches : table[w].in_flight_bytes >= OutstandingBytes(pkt, w)

\* ACKs retrace the path of their packets, switch by switch, so that the
\* round-trip time the source's TOR measures is that of the flowcut.
Retraces(p, w, next) ==
  \E k \in 1..Len(Hops[p]) :
    /\ Hops[p][k] = w
    /\ \/ next = NoNode
       \/ k = 1 /\ next = Source
       \/ k > 1 /\ next = Hops[p][k - 1]

AcksRetrace == \A i \in OfKind("ack") : Retraces(pkt[i].path, pkt[i].hop, pkt[i].next)

\* With flowcuts, packets of the size an ACK takes down and no trimming, the
\* tables hold one flowcut: all packets and ACKs are on the path it took, and
\* the entries name the switches of that path.  This is the inductive
\* invariant behind the three properties above.
OneFlowcut ==
  LET p == NewPathid(current)
  IN  /\ OfKind("header") = {} /\ OfKind("nack") = {} /\ dirty = 0
      /\ \A i \in OfKind("data") : pkt[i].path = p /\ ~pkt[i].is_trim
      /\ \A i \in OfKind("ack") : pkt[i].path = p
      /\ \A w \in Switches : table[w].in_flight_bytes = 0 <=> table[w] = NoEntry
      /\ \A k \in 1..Len(Hops[p]) :
           table[Hops[p][k]] # NoEntry => table[Hops[p][k]].source_name = PreviousName(p, k)

TableInv == NeverAborts /\ InFlightIsOutstanding /\ AcksRetrace /\ OneFlowcut

=============================================================================
