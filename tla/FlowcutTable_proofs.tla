------------------------- MODULE FlowcutTable_proofs -------------------------
(***************************************************************************)
(* The switches' tables of a flow, for every set of paths, flow size and   *)
(* number of flowcuts: types for every routing; and without trimming, that *)
(* the tables count exactly what is outstanding, that ACKs retrace the     *)
(* path of their packets, and that no ACK misses its entry.                *)
(***************************************************************************)
EXTENDS FlowcutTable, FiniteSetTheorems, TLAPS

-----------------------------------------------------------------------------
(* Packets and entries *)

\* The fields a packet in transit and an ACK have.
LEMMA PacketFields ==
  ASSUME NEW m \in PacketStates
  PROVE  /\ m.kind \in {"data", "header"} =>
              m.path \in Paths /\ m.at \in Nat /\ m.is_trim \in BOOLEAN
         /\ m.kind = "ack" =>
              m.path \in Paths /\ m.hop \in Switches /\ m.next \in Nodes \union {NoNode}
  BY DEF PacketStates

\* What the actions make of a packet is a packet.
LEMMA PacketMakers ==
  ASSUME NEW p \in Paths, NEW k \in Nat, NEW b \in BOOLEAN,
         NEW h \in Switches, NEW n \in Nodes \union {NoNode}
  PROVE  /\ Forward("data", p, k, b) \in PacketStates
         /\ Forward("header", p, k, b) \in PacketStates
         /\ AckAt(p, h, n) \in PacketStates
         /\ Away("unsent") \in PacketStates
         /\ Away("nack") \in PacketStates
         /\ Away("done") \in PacketStates
  BY DEF PacketStates, Forward, AckAt, Away

\* The switches of a path are switches, and the names a packet carries along
\* it are names of nodes.
LEMMA HopTypes ==
  ASSUME NEW p \in Paths
  PROVE  /\ Hops[p] \in Seq(Switches) /\ Len(Hops[p]) \in Nat \ {0}
         /\ \A k \in 1..Len(Hops[p]) : Hops[p][k] \in Switches
         /\ \A k \in 1..Len(Hops[p]) : PreviousName(p, k) \in Nodes
         /\ Last(Hops[p]) = Hops[p][Len(Hops[p])]
         /\ Tor(p) = Hops[p][1] /\ Tor(p) \in Switches
<1>1. Hops[p] \in Seq(Switches) /\ Hops[p] # <<>>
  BY HopsAssumption
<1>2. Len(Hops[p]) \in Nat \ {0}
  BY <1>1
<1>3. \A k \in 1..Len(Hops[p]) : Hops[p][k] \in Switches
  BY <1>1
<1>4. \A k \in 1..Len(Hops[p]) : k # 1 => k - 1 \in 1..Len(Hops[p])
  BY <1>2
<1>5. \A k \in 1..Len(Hops[p]) : PreviousName(p, k) \in Nodes
  BY <1>3, <1>4 DEF PreviousName, Nodes
<1>6. 1 \in 1..Len(Hops[p])
  BY <1>2
<1> QED BY <1>1, <1>2, <1>3, <1>5, <1>6 DEF Last, Tor

\* The operations of the table make entries of entries.
LEMMA EntryTypes ==
  ASSUME NEW e \in Entries, NEW n \in Nodes
  PROVE  /\ NoEntry \in Entries
         /\ Entry(PacketSize, n) \in Entries
         /\ Entry(e.in_flight_bytes + PacketSize, e.source_name) \in Entries
         /\ Acknowledged(e) \in Entries
<1>1. e.in_flight_bytes \in Nat /\ e.source_name \in Nodes /\ Source \in Nodes
  BY DEF Entries, Nodes
<1>2. \A b \in Nat, x \in Nodes : Entry(b, x) \in Entries
  BY DEF Entry, Entries
<1>3. PacketSize \in Nat /\ AckedSize \in Nat
  BY NumbersAssumption
<1>4. ~(e.in_flight_bytes <= AckedSize) => e.in_flight_bytes - AckedSize \in Nat
  BY <1>1, <1>3
<1> QED BY <1>1, <1>2, <1>3, <1>4 DEF NoEntry, Acknowledged

-----------------------------------------------------------------------------
(* Type correctness *)

\* The position of a packet on its way is one of its path.
AtOnPath(m) == m.kind \in {"data", "header"} => m.at <= Len(Hops[m.path])

\* TypeOK with the positions stated packet by packet.
LEMMA TypeOKPackets ==
  TypeOK <=> /\ table \in [Switches -> Entries]
             /\ pkt \in [Packets -> PacketStates]
             /\ \A i \in Packets : AtOnPath(pkt[i])
             /\ current \in Paths
             /\ dirty \in Nat /\ trims \in 0..MaxTrims /\ reuses \in 0..MaxReuse
             /\ aborted \in BOOLEAN
  BY DEF TypeOK, AtOnPath, OfKind

LEMMA InitType == Init => TypeOK
<1> SUFFICES ASSUME Init PROVE TypeOK
  OBVIOUS
<1>1. NoEntry \in Entries
  BY NumbersAssumption DEF NoEntry, Entry, Entries, Nodes
<1>2. Away("unsent") \in PacketStates
  BY DEF Away, PacketStates
<1>3. \A i \in Packets : AtOnPath(pkt[i])
  BY DEF Init, AtOnPath, Away
<1>4. /\ table \in [Switches -> Entries] /\ pkt \in [Packets -> PacketStates]
  BY <1>1, <1>2 DEF Init
<1>5. current \in Paths /\ dirty \in Nat /\ trims \in 0..MaxTrims /\ reuses \in 0..MaxReuse
  BY NumbersAssumption DEF Init
<1>6. aborted \in BOOLEAN
  BY DEF Init
<1> QED BY <1>3, <1>4, <1>5, <1>6, TypeOKPackets, Zenon

\* One packet changes: the type of the others is not disturbed.
LEMMA OnePacketType ==
  ASSUME pkt \in [Packets -> PacketStates], \A j \in Packets : AtOnPath(pkt[j]),
         NEW i \in Packets, NEW m \in PacketStates, AtOnPath(m),
         pkt' = [pkt EXCEPT ![i] = m]
  PROVE  pkt' \in [Packets -> PacketStates] /\ \A j \in Packets : AtOnPath(pkt'[j])
  OBVIOUS

\* A packet built for a path is one that has not left a switch.
LEMMA BuildType ==
  ASSUME TypeOK, NEW i \in Packets, NEW p \in Paths, BuildPacket(i, p)
  PROVE  /\ pkt' \in [Packets -> PacketStates]
         /\ \A j \in Packets : AtOnPath(pkt'[j])
         /\ dirty' \in Nat /\ reuses' \in 0..MaxReuse
<1>1. PICK b \in BOOLEAN :
        /\ b => dirty > 0 /\ reuses < MaxReuse
        /\ pkt' = [pkt EXCEPT ![i] = Forward("data", p, 0, b)]
        /\ dirty' = IF b THEN dirty - 1 ELSE dirty
        /\ reuses' = IF b THEN reuses + 1 ELSE reuses
  BY DEF BuildPacket
<1>2. Forward("data", p, 0, b) \in PacketStates
  BY DEF Forward, PacketStates
<1>3. AtOnPath(Forward("data", p, 0, b))
  BY HopTypes DEF AtOnPath, Forward
<1>4. dirty' \in Nat /\ reuses' \in 0..MaxReuse
  BY <1>1, NumbersAssumption DEF TypeOK
<1> QED BY <1>1, <1>2, <1>3, <1>4, OnePacketType, TypeOKPackets

\* The path the source chooses is a path.
LEMMA ChosenPath ==
  ASSUME TypeOK, current' \in ChoosePath
  PROVE  current' \in Paths /\ NewPathid(current') \in Paths
  BY HopsAssumption DEF TypeOK, ChoosePath, NewPathid

LEMMA NextType == TypeOK /\ [Next]_vars => TypeOK'
<1> SUFFICES ASSUME TypeOK, [Next]_vars PROVE TypeOK'
  OBVIOUS
<1>0. /\ table \in [Switches -> Entries] /\ pkt \in [Packets -> PacketStates]
      /\ \A i \in Packets : AtOnPath(pkt[i])
      /\ current \in Paths /\ dirty \in Nat
      /\ trims \in 0..MaxTrims /\ reuses \in 0..MaxReuse /\ aborted \in BOOLEAN
  BY TypeOKPackets
<1> SUFFICES /\ table' \in [Switches -> Entries]
             /\ pkt' \in [Packets -> PacketStates]
             /\ \A i \in Packets : AtOnPath(pkt'[i])
             /\ current' \in Paths /\ dirty' \in Nat
             /\ trims' \in 0..MaxTrims /\ reuses' \in 0..MaxReuse /\ aborted' \in BOOLEAN
  BY DEF TypeOK, AtOnPath, OfKind
<1>1. ASSUME NEW i \in Packets, SendNew(i)
      PROVE  TypeOK' 
  <2>1. current' \in Paths /\ NewPathid(current') \in Paths
    BY <1>1, ChosenPath DEF SendNew
  <2>2. BuildPacket(i, NewPathid(current'))
    BY <1>1 DEF SendNew
  <2> QED BY <1>0, <1>1, <2>1, <2>2, BuildType DEF SendNew, TypeOK, AtOnPath, OfKind
<1>2. ASSUME NEW i \in Packets, SendAgain(i)
      PROVE  TypeOK'
  <2>1. current' \in Paths
    BY <1>2, ChosenPath DEF SendAgain
  <2>2. BuildPacket(i, current')
    BY <1>2 DEF SendAgain
  <2> QED BY <1>0, <1>2, <2>1, <2>2, BuildType DEF SendAgain, TypeOK, AtOnPath, OfKind
<1>3. ASSUME NEW i \in Packets, Arrive(i)
      PROVE  TypeOK'
  <2> DEFINE p == pkt[i].path
             m == IF pkt[i].kind = "data" THEN AckAt(p, Last(Hops[p]), NoNode) ELSE Away("nack")
  <2>1. p \in Paths
    BY <1>0, <1>3, PacketFields DEF Arrive
  <2>2. Last(Hops[p]) \in Switches
    BY <2>1, HopTypes
  <2>3. m \in PacketStates
    BY <2>1, <2>2, PacketMakers, 0 \in Nat, TRUE \in BOOLEAN
  <2>4. AtOnPath(m)
    BY DEF AtOnPath, AckAt, Away
  <2>5. pkt' = [pkt EXCEPT ![i] = m]
    BY <1>3 DEF Arrive
  <2>6. dirty' \in Nat
    BY <1>0, <1>3 DEF Arrive
  <2> HIDE DEF m
  <2>7. pkt' \in [Packets -> PacketStates] /\ \A j \in Packets : AtOnPath(pkt'[j])
    BY <1>0, <2>3, <2>4, <2>5, OnePacketType
  <2> QED BY <1>0, <1>3, <2>6, <2>7 DEF Arrive, bounds, TypeOK, AtOnPath, OfKind
<1>4. ASSUME NEW i \in Packets, ForwardEgress(i)
      PROVE  TypeOK'
  <2> DEFINE p == pkt[i].path
             k == pkt[i].at + 1
             m == Forward(pkt[i].kind, p, k, pkt[i].is_trim)
  <2>1. p \in Paths /\ k \in Nat /\ pkt[i].is_trim \in BOOLEAN
    BY <1>0, <1>4, PacketFields DEF ForwardEgress
  <2>2. k \in 1..Len(Hops[p]) /\ pkt[i].kind \in {"data", "header"}
    <3>1. pkt[i].at \in Nat /\ k <= Len(Hops[p]) /\ pkt[i].kind \in {"data", "header"}
      BY <1>0, <1>4, PacketFields DEF ForwardEgress
    <3> QED BY <3>1, <2>1, HopTypes
  <2>3. m \in PacketStates
    BY <2>1, <2>2 DEF PacketStates, Forward
  <2>4. AtOnPath(m)
    BY <2>1, <2>2, HopTypes DEF AtOnPath, Forward
  <2>5. pkt' = [pkt EXCEPT ![i] = m]
    BY <1>4 DEF ForwardEgress
  <2>6. table' \in [Switches -> Entries]
    <3>1. Hops[p][k] \in Switches /\ PreviousName(p, k) \in Nodes
      BY <2>1, <2>2, HopTypes
    <3>2. CASE increaseFlowInFlight(Hops[p][k], PreviousName(p, k))
      BY <3>1, <3>2, <1>0, EntryTypes DEF increaseFlowInFlight
    <3>3. CASE UNCHANGED table
      BY <3>3, <1>0
    <3> QED BY <1>4, <3>2, <3>3 DEF ForwardEgress
  <2> HIDE DEF m
  <2>7. pkt' \in [Packets -> PacketStates] /\ \A j \in Packets : AtOnPath(pkt'[j])
    BY <1>0, <2>3, <2>4, <2>5, OnePacketType
  <2> QED BY <1>0, <1>4, <2>6, <2>7 DEF ForwardEgress, bounds, TypeOK, AtOnPath, OfKind
<1>5. ASSUME NEW i \in Packets, Trim(i)
      PROVE  TypeOK'
  <2> DEFINE m == Forward("header", pkt[i].path, pkt[i].at, TRUE)
  <2>1. m \in PacketStates
    BY <1>0, <1>5, PacketFields DEF Trim, Forward, PacketStates
  <2>2. AtOnPath(m)
    BY <1>0, <1>5 DEF Trim, AtOnPath, Forward
  <2>3. pkt' = [pkt EXCEPT ![i] = m] /\ trims' \in 0..MaxTrims
    BY <1>0, <1>5, NumbersAssumption DEF Trim
  <2> HIDE DEF m
  <2>4. pkt' \in [Packets -> PacketStates] /\ \A j \in Packets : AtOnPath(pkt'[j])
    BY <1>0, <2>1, <2>2, <2>3, OnePacketType
  <2> QED BY <1>0, <1>5, <2>3, <2>4 DEF Trim, TypeOK, AtOnPath, OfKind
<1>6. ASSUME NEW i \in Packets, AckIngress(i)
      PROVE  TypeOK'
  <2>1. CASE Abort
    BY <1>0, <2>1 DEF Abort, bounds, TypeOK, AtOnPath, OfKind
  <2>2. CASE ~Abort
    <3> DEFINE w == pkt[i].hop
               n == IF w = Tor(pkt[i].path) THEN Source ELSE table[w].source_name
               m == AckAt(pkt[i].path, w, n)
    <3>1. w \in Switches /\ pkt[i].path \in Paths
      BY <1>0, <1>6, PacketFields DEF AckIngress
    <3>2. n \in Nodes
      BY <1>0, <3>1 DEF Entries, Nodes
    <3>3. m \in PacketStates
      BY <3>1, <3>2, PacketMakers, 0 \in Nat, TRUE \in BOOLEAN
    <3>4. AtOnPath(m)
      BY DEF AtOnPath, AckAt
    <3>5. pkt' = [pkt EXCEPT ![i] = m]
      BY <1>6, <2>2 DEF AckIngress
    <3> HIDE DEF m
    <3>6. pkt' \in [Packets -> PacketStates] /\ \A j \in Packets : AtOnPath(pkt'[j])
      BY <1>0, <3>3, <3>4, <3>5, OnePacketType
    <3> QED BY <1>0, <1>6, <2>2, <3>6 DEF AckIngress, bounds, TypeOK, AtOnPath, OfKind
  <2> QED BY <2>1, <2>2
<1>7. ASSUME NEW i \in Packets, AckEgress(i)
      PROVE  TypeOK'
  <2>1. CASE Abort
    BY <1>0, <2>1 DEF Abort, bounds, TypeOK, AtOnPath, OfKind
  <2>2. CASE ~Abort
    <3> DEFINE w == pkt[i].hop
               n == pkt[i].next
               m == IF n = Source THEN Away("done") ELSE AckAt(pkt[i].path, n, NoNode)
    <3>1. w \in Switches /\ pkt[i].path \in Paths /\ n \in Nodes
      BY <1>0, <1>7, PacketFields DEF AckEgress
    <3>2. n # Source => n \in Switches
      BY <3>1 DEF Nodes
    <3>3. m \in PacketStates
      BY <3>1, <3>2 DEF AckAt, Away, PacketStates
    <3>4. AtOnPath(m)
      BY DEF AtOnPath, AckAt, Away
    <3>5. pkt' = [pkt EXCEPT ![i] = m]
      BY <1>7, <2>2 DEF AckEgress
    <3>6. table' \in [Switches -> Entries]
      <4>1. table' = [table EXCEPT ![w] = Acknowledged(table[w])]
        BY <1>7, <2>2 DEF AckEgress
      <4>2. Acknowledged(table[w]) \in Entries
        BY <1>0, <3>1, EntryTypes
      <4> QED BY <1>0, <4>1, <4>2
    <3> HIDE DEF m
    <3>7. pkt' \in [Packets -> PacketStates] /\ \A j \in Packets : AtOnPath(pkt'[j])
      BY <1>0, <3>3, <3>4, <3>5, OnePacketType
    <3> QED BY <1>0, <1>7, <2>2, <3>6, <3>7 DEF AckEgress, bounds, TypeOK, AtOnPath, OfKind
  <2> QED BY <2>1, <2>2
<1>8. CASE UNCHANGED vars
  BY <1>0, <1>8 DEF vars, bounds
<1>9. CASE Next
  BY <1>9, <1>1, <1>2, <1>3, <1>4, <1>5, <1>6, <1>7
     DEF Next, TypeOK, AtOnPath, OfKind
<1> QED BY <1>8, <1>9

\* Every variable keeps its type, for every routing and number of trims: an
\* entry never counts less than nothing, and every node an ACK is sent to
\* exists.
THEOREM TypeCorrect == Spec => []TypeOK
<1> QED BY InitType, NextType, PTL DEF Spec

-----------------------------------------------------------------------------
(* Without trimming.  In a network that trims nothing and with packets of   *)
(* the size an ACK takes down, each entry is exactly what is outstanding    *)
(* behind its switch, ACKs retrace the path of their packets, and no ACK    *)
(* misses its entry.  The argument is TableInv: as the source drains before *)
(* it changes the path, all that is in the network belongs to one path, and *)
(* so do the names in the entries.                                          *)

\* The network, the routing and the packets the theorems are about.
Lossless == MaxTrims = 0 /\ Routing = "flowcut" /\ PacketSize = AckedSize

\* A packet of the flowcut on path p, and the entry of switch w when the flowcut
\* on path p has b bytes outstanding behind w.
PacketOfFlowcut(m, p) ==
  /\ m.kind \notin {"header", "nack"}
  /\ m.kind = "data" => m.path = p /\ ~m.is_trim
  /\ m.kind = "ack" => m.path = p /\ Retraces(p, m.hop, m.next)

EntryOfFlowcut(e, w, p, b) ==
  /\ e.in_flight_bytes = b
  /\ e.in_flight_bytes = 0 <=> e = NoEntry
  /\ Position(p, w) # 0 /\ e # NoEntry => e.source_name = PreviousName(p, Position(p, w))

\* TableInv, packet by packet and switch by switch.
TableParts ==
  /\ ~aborted /\ dirty = 0
  /\ \A i \in Packets : PacketOfFlowcut(pkt[i], NewPathid(current))
  /\ \A w \in Switches :
       EntryOfFlowcut(table[w], w, NewPathid(current), OutstandingBytes(pkt, w))

TableIInv == TypeOK /\ TableParts

-----------------------------------------------------------------------------
(* Positions on a path *)

\* A path meets a switch at one position, which Position finds.
LEMMA PositionOf ==
  ASSUME NEW p \in Paths
  PROVE  /\ \A k \in 1..Len(Hops[p]) : Position(p, Hops[p][k]) = k
         /\ \A w : Position(p, w) \in 0..Len(Hops[p])
         /\ \A w : Position(p, w) # 0 => Hops[p][Position(p, w)] = w
<1> DEFINE D == 1..Len(Hops[p])
<1>1. Hops[p] \in Seq(Switches) /\ Len(Hops[p]) \in Nat
  BY HopTypes
<1>2. \A j, k \in D : Hops[p][j] = Hops[p][k] => j = k
  <2>1. DOMAIN Hops[p] = D
    BY <1>1
  <2>2. IsInjective(Hops[p])
    BY HopsAssumption
  <2> QED BY <2>1, <2>2 DEF IsInjective
<1>3. \A w : \/ Position(p, w) = 0 /\ ~\E k \in D : Hops[p][k] = w
             \/ Position(p, w) \in D /\ Hops[p][Position(p, w)] = w
  BY DEF Position
<1>4. \A k \in D : Position(p, Hops[p][k]) = k
  BY <1>2, <1>3
<1>5. \A w : Position(p, w) \in 0..Len(Hops[p])
  <2>1. 0 \in 0..Len(Hops[p]) /\ D \subseteq 0..Len(Hops[p])
    BY <1>1
  <2> HIDE DEF D
  <2> QED BY <2>1, <1>3
<1>6. \A w : Position(p, w) # 0 => Hops[p][Position(p, w)] = w
  BY <1>3
<1> QED BY <1>4, <1>5, <1>6

-----------------------------------------------------------------------------
(* Outstanding bytes *)

OutstandingAt(f, w) == {i \in Packets : Outstanding(f[i], w)}

\* The packets are finitely many, and so are those outstanding.
LEMMA OutstandingFinite ==
  ASSUME NEW f, NEW w
  PROVE  /\ IsFiniteSet(OutstandingAt(f, w))
         /\ Cardinality(OutstandingAt(f, w)) \in Nat
         /\ OutstandingBytes(f, w) = PacketSize * Cardinality(OutstandingAt(f, w))
<1>1. IsFiniteSet(Packets)
  BY FS_Interval, NumbersAssumption DEF Packets
<1>2. OutstandingAt(f, w) \subseteq Packets
  BY DEF OutstandingAt
<1>3. IsFiniteSet(OutstandingAt(f, w))
  BY <1>1, <1>2, FS_Subset
<1> QED BY <1>3, FS_CardinalityType DEF OutstandingBytes, OutstandingAt

\* Nothing is outstanding when no packet is.
LEMMA BytesNone ==
  ASSUME NEW f, NEW w, \A i \in Packets : ~Outstanding(f[i], w)
  PROVE  OutstandingBytes(f, w) = 0
<1>1. OutstandingAt(f, w) = {}
  BY DEF OutstandingAt
<1>2. OutstandingBytes(f, w) = PacketSize * 0
  BY <1>1, OutstandingFinite, FS_EmptySet
<1> QED BY <1>2, NumbersAssumption

\* A packet that is outstanding counts in full.
LEMMA BytesSome ==
  ASSUME NEW f, NEW w, NEW i \in Packets, Outstanding(f[i], w)
  PROVE  OutstandingBytes(f, w) >= PacketSize
<1> DEFINE c == Cardinality(OutstandingAt(f, w))
<1>1. i \in OutstandingAt(f, w)
  BY DEF OutstandingAt
<1>2. c \in Nat /\ c # 0
  BY <1>1, OutstandingFinite, FS_EmptySet
<1>3. OutstandingBytes(f, w) = PacketSize * c
  BY OutstandingFinite
<1> HIDE DEF c
<1>4. PacketSize * c >= PacketSize
  BY <1>2, NumbersAssumption
<1> QED BY <1>3, <1>4

\* One packet changes, for a switch that sees no difference.
LEMMA BytesSame ==
  ASSUME NEW S, NEW f \in [Packets -> S], NEW w, NEW i \in Packets, NEW m,
         Outstanding(f[i], w) <=> Outstanding(m, w)
  PROVE  OutstandingBytes([f EXCEPT ![i] = m], w) = OutstandingBytes(f, w)
<1> DEFINE g == [f EXCEPT ![i] = m]
<1>1. \A j \in Packets : Outstanding(g[j], w) <=> Outstanding(f[j], w)
  <2> TAKE j \in Packets
  <2>1. CASE j = i
    <3>1. g[j] = m
      BY <2>1
    <3> QED BY <2>1, <3>1
  <2>2. CASE j # i
    <3>1. g[j] = f[j]
      BY <2>2
    <3> QED BY <3>1
  <2> QED BY <2>1, <2>2
<1> HIDE DEF g
<1>2. {j \in Packets : Outstanding(g[j], w)} = {j \in Packets : Outstanding(f[j], w)}
  BY <1>1
<1>3. OutstandingBytes(g, w) = OutstandingBytes(f, w)
  BY <1>2 DEF OutstandingBytes
<1> QED BY <1>3 DEF g

\* A packet becomes outstanding.
LEMMA BytesMore ==
  ASSUME NEW S, NEW f \in [Packets -> S], NEW w, NEW i \in Packets, NEW m,
         ~Outstanding(f[i], w), Outstanding(m, w)
  PROVE  OutstandingBytes([f EXCEPT ![i] = m], w) = OutstandingBytes(f, w) + PacketSize
<1> DEFINE g == [f EXCEPT ![i] = m]
           c == Cardinality(OutstandingAt(f, w))
<1>1. g[i] = m /\ \A j \in Packets : j # i => g[j] = f[j]
  OBVIOUS
<1> HIDE DEF g
<1>2. OutstandingAt(g, w) = OutstandingAt(f, w) \union {i} /\ i \notin OutstandingAt(f, w)
  BY <1>1 DEF OutstandingAt
<1>3. Cardinality(OutstandingAt(g, w)) = c + 1
  BY <1>2, OutstandingFinite, FS_AddElement
<1>4. OutstandingBytes(g, w) = PacketSize * (c + 1) /\ OutstandingBytes(f, w) = PacketSize * c
  BY <1>3, OutstandingFinite
<1>5. c \in Nat
  BY OutstandingFinite
<1> HIDE DEF c
<1>6. PacketSize * (c + 1) = PacketSize * c + PacketSize
  BY <1>5, NumbersAssumption
<1>7. OutstandingBytes(g, w) = OutstandingBytes(f, w) + PacketSize
  BY <1>4, <1>6
<1> QED BY <1>7 DEF g

\* A packet is outstanding no more.
LEMMA BytesLess ==
  ASSUME NEW S, NEW f \in [Packets -> S], NEW w, NEW i \in Packets, NEW m,
         Outstanding(f[i], w), ~Outstanding(m, w)
  PROVE  OutstandingBytes([f EXCEPT ![i] = m], w) = OutstandingBytes(f, w) - PacketSize
<1> DEFINE g == [f EXCEPT ![i] = m]
           c == Cardinality(OutstandingAt(f, w))
<1>1. g[i] = m /\ \A j \in Packets : j # i => g[j] = f[j]
  OBVIOUS
<1> HIDE DEF g
<1>2. OutstandingAt(g, w) = OutstandingAt(f, w) \ {i} /\ i \in OutstandingAt(f, w)
  BY <1>1 DEF OutstandingAt
<1>3. Cardinality(OutstandingAt(g, w)) = c - 1
  BY <1>2, OutstandingFinite, FS_RemoveElement
<1>4. OutstandingBytes(g, w) = PacketSize * (c - 1) /\ OutstandingBytes(f, w) = PacketSize * c
  BY <1>3, OutstandingFinite
<1>5. c \in Nat
  BY OutstandingFinite
<1> HIDE DEF c
<1>6. PacketSize * (c - 1) = PacketSize * c - PacketSize
  BY <1>5, NumbersAssumption
<1>7. OutstandingBytes(g, w) = OutstandingBytes(f, w) - PacketSize
  BY <1>4, <1>6
<1> QED BY <1>7 DEF g

-----------------------------------------------------------------------------
(* The invariant *)

\* The parts make the invariant.
LEMMA PartsGiveInv == TableIInv => TableInv
<1> SUFFICES ASSUME TableIInv PROVE TableInv
  OBVIOUS
<1> DEFINE p == NewPathid(current)
<1>1. p \in Paths
  BY HopsAssumption DEF TableIInv, TypeOK, NewPathid
<1>2. NeverAborts
  BY DEF TableIInv, TableParts, NeverAborts
<1>3. InFlightIsOutstanding
  BY DEF TableIInv, TableParts, EntryOfFlowcut, InFlightIsOutstanding
<1>4. AcksRetrace
  BY DEF TableIInv, TableParts, PacketOfFlowcut, AcksRetrace, OfKind
<1>5. \A w \in Switches : table[w].in_flight_bytes = 0 <=> table[w] = NoEntry
  BY DEF TableIInv, TableParts, EntryOfFlowcut
<1>6. \A k \in 1..Len(Hops[p]) :
        table[Hops[p][k]] # NoEntry => table[Hops[p][k]].source_name = PreviousName(p, k)
  <2> TAKE k \in 1..Len(Hops[p])
  <2>1. Hops[p][k] \in Switches /\ Position(p, Hops[p][k]) = k /\ k # 0
    BY <1>1, HopTypes, PositionOf
  <2>2. EntryOfFlowcut(table[Hops[p][k]], Hops[p][k], p, OutstandingBytes(pkt, Hops[p][k]))
    BY <2>1 DEF TableIInv, TableParts
  <2> QED BY <2>1, <2>2 DEF EntryOfFlowcut
<1>7. /\ OfKind("header") = {} /\ OfKind("nack") = {} /\ dirty = 0
      /\ \A i \in OfKind("data") : pkt[i].path = p /\ ~pkt[i].is_trim
      /\ \A i \in OfKind("ack") : pkt[i].path = p
  BY DEF TableIInv, TableParts, PacketOfFlowcut, OfKind
<1>8. OneFlowcut
  BY <1>5, <1>6, <1>7 DEF OneFlowcut
<1> QED BY <1>2, <1>3, <1>4, <1>8 DEF TableInv

\* At first the tables are empty and nothing is outstanding.
LEMMA InitTable == Init => TableParts
<1> SUFFICES ASSUME Init PROVE TableParts
  OBVIOUS
<1>1. \A i \in Packets : PacketOfFlowcut(pkt[i], NewPathid(current))
  BY DEF Init, Away, PacketOfFlowcut
<1>2. \A w \in Switches : OutstandingBytes(pkt, w) = 0
  <2> TAKE w \in Switches
  <2>1. \A i \in Packets : ~Outstanding(pkt[i], w)
    BY DEF Init, Away, Outstanding
  <2> QED BY <2>1, BytesNone
<1>3. \A w \in Switches :
        EntryOfFlowcut(table[w], w, NewPathid(current), OutstandingBytes(pkt, w))
  BY <1>2 DEF Init, EntryOfFlowcut, NoEntry, Entry
<1> QED BY <1>1, <1>3 DEF Init, TableParts

\* What a packet of the flowcut and an entry are, with their types.
LEMMA PartTypes ==
  ASSUME TableIInv
  PROVE  /\ NewPathid(current) \in Paths
         /\ \A i \in Packets :
              /\ pkt[i] \in PacketStates /\ PacketOfFlowcut(pkt[i], NewPathid(current))
              /\ pkt[i].kind = "data" => pkt[i].at \in 0..Len(Hops[NewPathid(current)])
         /\ \A w \in Switches :
              /\ table[w] \in Entries
              /\ EntryOfFlowcut(table[w], w, NewPathid(current), OutstandingBytes(pkt, w))
         /\ pkt \in [Packets -> PacketStates] /\ table \in [Switches -> Entries]
<1> DEFINE p == NewPathid(current)
<1>1. p \in Paths
  BY HopsAssumption DEF TableIInv, TypeOK, NewPathid
<1>2. pkt \in [Packets -> PacketStates] /\ table \in [Switches -> Entries]
  BY DEF TableIInv, TypeOK
<1>3. ASSUME NEW i \in Packets, pkt[i].kind = "data"
      PROVE  pkt[i].at \in 0..Len(Hops[p])
  <2>1. pkt[i].path = p
    BY <1>3 DEF TableIInv, TableParts, PacketOfFlowcut
  <2>2. pkt[i].at \in Nat /\ pkt[i].at <= Len(Hops[pkt[i].path])
    BY <1>2, <1>3, PacketFields, TypeOKPackets DEF TableIInv, AtOnPath
  <2> QED BY <2>1, <2>2, <1>1, HopTypes
<1> QED BY <1>1, <1>2, <1>3 DEF TableIInv, TableParts

\* One packet changes, within the flowcut: it is enough to look at that packet
\* and at the entries.
LEMMA OnePacketParts ==
  ASSUME TableIInv, NEW i \in Packets, NEW m,
         pkt' = [pkt EXCEPT ![i] = m], PacketOfFlowcut(m, NewPathid(current)),
         current' = current, dirty' = dirty, aborted' = aborted,
         \A w \in Switches :
           EntryOfFlowcut(table'[w], w, NewPathid(current),
                          OutstandingBytes([pkt EXCEPT ![i] = m], w))
  PROVE  TableParts'
<1>1. \A j \in Packets : PacketOfFlowcut(pkt'[j], NewPathid(current))
  BY PartTypes
<1>2. NewPathid(current') = NewPathid(current)
  OBVIOUS
<1> QED BY <1>1, <1>2 DEF TableIInv, TableParts

-----------------------------------------------------------------------------
(* The steps *)

\* An entry that is not disturbed, when nothing changes behind its switch.
LEMMA EntrySame ==
  ASSUME TableIInv, NEW w \in Switches, NEW i \in Packets, NEW m,
         Outstanding(pkt[i], w) <=> Outstanding(m, w)
  PROVE  EntryOfFlowcut(table[w], w, NewPathid(current),
                        OutstandingBytes([pkt EXCEPT ![i] = m], w))
<1>1. OutstandingBytes([pkt EXCEPT ![i] = m], w) = OutstandingBytes(pkt, w)
  BY PartTypes, BytesSame
<1> QED BY <1>1, PartTypes

\* A source that chooses its path either keeps it or has drained, and then the
\* tables are empty: the entries fit the flowcut on the new path too.
LEMMA PathFits ==
  ASSUME Lossless, TableIInv, current' \in ChoosePath
  PROVE  /\ \A j \in Packets : PacketOfFlowcut(pkt[j], NewPathid(current'))
         /\ \A w \in Switches :
              EntryOfFlowcut(table[w], w, NewPathid(current'), OutstandingBytes(pkt, w))
<1>1. CASE Drained
  <2>1. \A j \in Packets : PacketOfFlowcut(pkt[j], NewPathid(current'))
    BY <1>1 DEF Drained, PacketOfFlowcut
  <2>2. ASSUME NEW w \in Switches
        PROVE  EntryOfFlowcut(table[w], w, NewPathid(current'), OutstandingBytes(pkt, w))
    <3>1. \A j \in Packets : ~Outstanding(pkt[j], w)
      BY <1>1 DEF Drained, Outstanding
    <3>2. OutstandingBytes(pkt, w) = 0
      BY <3>1, BytesNone
    <3> QED BY <3>2, PartTypes DEF EntryOfFlowcut
  <2> QED BY <2>1, <2>2
<1>2. CASE ~Drained
  <2>1. current' = current
    BY <1>2 DEF Lossless, ChoosePath
  <2> QED BY <2>1, PartTypes
<1> QED BY <1>1, <1>2

\* A new packet is counted nowhere yet.
LEMMA SendNewTable ==
  ASSUME Lossless, TableIInv, NEW i \in Packets, SendNew(i)
  PROVE  TableParts'
<1> DEFINE p == NewPathid(current')
           m == Forward("data", p, 0, FALSE)
<1>1. pkt' = [pkt EXCEPT ![i] = m] /\ dirty' = 0
  <2>1. dirty = 0
    BY DEF TableIInv, TableParts
  <2>2. PICK b \in BOOLEAN :
          /\ b => dirty > 0
          /\ pkt' = [pkt EXCEPT ![i] = Forward("data", p, 0, b)]
          /\ dirty' = IF b THEN dirty - 1 ELSE dirty
    BY DEF SendNew, BuildPacket
  <2>3. b = FALSE
    BY <2>1, <2>2
  <2> QED BY <2>1, <2>2, <2>3
<1>2. /\ \A j \in Packets : PacketOfFlowcut(pkt[j], p)
      /\ \A w \in Switches : EntryOfFlowcut(table[w], w, p, OutstandingBytes(pkt, w))
  BY PathFits DEF SendNew
<1>3. PacketOfFlowcut(m, p)
  BY DEF PacketOfFlowcut, Forward
<1>4. \A w : ~Outstanding(pkt[i], w) /\ ~Outstanding(m, w)
  <2>1. \A w : ~Outstanding(pkt[i], w)
    BY DEF SendNew, Outstanding
  <2>2. \A k : k \notin 1..0
    OBVIOUS
  <2>3. \A w : ~Outstanding(m, w)
    BY <2>2 DEF Outstanding, Forward
  <2> QED BY <2>1, <2>3
<1> HIDE DEF m, p
<1>5. \A w \in Switches : OutstandingBytes(pkt', w) = OutstandingBytes(pkt, w)
  BY <1>1, <1>4, BytesSame, PartTypes
<1>6. \A j \in Packets : PacketOfFlowcut(pkt'[j], p)
  BY <1>1, <1>2, <1>3, PartTypes
<1>7. table' = table /\ ~aborted'
  BY DEF SendNew, TableIInv, TableParts
<1>8. \A w \in Switches : EntryOfFlowcut(table'[w], w, p, OutstandingBytes(pkt', w))
  BY <1>2, <1>5, <1>7
<1> QED BY <1>1, <1>6, <1>7, <1>8 DEF TableParts, p

\* The ACK of a packet stands for it at every switch of its path.
LEMMA ArriveTable ==
  ASSUME TableIInv, NEW i \in Packets, Arrive(i)
  PROVE  TableParts'
<1> DEFINE p == NewPathid(current)
           L == Len(Hops[p])
           m == AckAt(p, Hops[p][L], NoNode)
<1>1. p \in Paths /\ PacketOfFlowcut(pkt[i], p)
  BY PartTypes
<1>2. pkt[i].kind = "data" /\ pkt[i].path = p /\ ~pkt[i].is_trim
  BY <1>1 DEF Arrive, PacketOfFlowcut
<1>3. pkt[i].at = L /\ L \in 1..L /\ Last(Hops[p]) = Hops[p][L]
  BY <1>1, <1>2, HopTypes DEF Arrive
<1>4. pkt' = [pkt EXCEPT ![i] = m] /\ dirty' = dirty /\ table' = table
      /\ current' = current /\ aborted' = aborted
  BY <1>2, <1>3 DEF Arrive
<1>5. Position(p, Hops[p][L]) = L
  BY <1>1, <1>3, PositionOf
<1>6. PacketOfFlowcut(m, p)
  BY <1>3 DEF PacketOfFlowcut, Retraces, AckAt
<1>7. \A w : Outstanding(pkt[i], w) <=> Outstanding(m, w)
  BY <1>2, <1>3, <1>5 DEF Outstanding, AckAt
<1> HIDE DEF m, p
<1>8. \A w \in Switches : EntryOfFlowcut(table'[w], w, p, OutstandingBytes([pkt EXCEPT ![i] = m], w))
  BY <1>4, <1>7, EntrySame DEF p
<1> QED BY <1>4, <1>6, <1>8, OnePacketParts DEF p

\* The switch that forwards a packet counts it, and no other switch does.
LEMMA ForwardEgressTable ==
  ASSUME TableIInv, NEW i \in Packets, ForwardEgress(i)
  PROVE  TableParts'
<1> DEFINE p == NewPathid(current)
           k == pkt[i].at + 1
           v == Hops[p][k]
           m == Forward("data", p, k, FALSE)
           g == [pkt EXCEPT ![i] = m]
<1>1. p \in Paths /\ PacketOfFlowcut(pkt[i], p) /\ pkt[i] \in PacketStates
  BY PartTypes
<1>2. pkt[i].kind = "data" /\ pkt[i].path = p /\ pkt[i].is_trim = FALSE
  <2>1. pkt[i].kind = "data" /\ pkt[i].path = p /\ ~pkt[i].is_trim
    BY <1>1 DEF ForwardEgress, PacketOfFlowcut
  <2>2. pkt[i].is_trim \in BOOLEAN
    BY <1>1, <2>1, PacketFields
  <2> QED BY <2>1, <2>2
<1>3. pkt[i].at \in Nat /\ k \in 1..Len(Hops[p])
  <2>1. pkt[i].at \in Nat /\ k <= Len(Hops[p])
    BY <1>1, <1>2, PacketFields DEF ForwardEgress
  <2> QED BY <2>1, <1>1, HopTypes
<1>4. v \in Switches /\ Position(p, v) = k /\ PreviousName(p, k) \in Nodes
  BY <1>1, <1>3, HopTypes, PositionOf
<1>5. increaseFlowInFlight(v, PreviousName(p, k)) /\ pkt' = g
      /\ dirty' = dirty /\ current' = current /\ aborted' = aborted
  BY <1>2 DEF ForwardEgress, Counts
<1>6. PacketOfFlowcut(m, p)
  BY DEF PacketOfFlowcut, Forward
<1>7. \A w : /\ Outstanding(pkt[i], w) <=> Position(p, w) \in 1..pkt[i].at
             /\ Outstanding(m, w) <=> Position(p, w) \in 1..k
  BY <1>2 DEF Outstanding, Forward
<1>8. ASSUME NEW w \in Switches, w # v
      PROVE  EntryOfFlowcut(table'[w], w, p, OutstandingBytes(g, w))
  <2>1. Position(p, w) # k /\ Position(p, w) \in Nat
    BY <1>1, <1>3, <1>8, PositionOf, HopTypes
  <2>2. Position(p, w) \in 1..pkt[i].at <=> Position(p, w) \in 1..k
    BY <2>1, <1>3
  <2>3. Outstanding(pkt[i], w) <=> Outstanding(m, w)
    BY <2>2, <1>7
  <2>4. table'[w] = table[w]
    BY <1>5, <1>8, PartTypes DEF increaseFlowInFlight
  <2> HIDE DEF m
  <2> QED BY <2>3, <2>4, EntrySame
<1>9. EntryOfFlowcut(table'[v], v, p, OutstandingBytes(g, v))
  <2>1. ~Outstanding(pkt[i], v) /\ Outstanding(m, v)
    <3>1. k \notin 1..pkt[i].at /\ k \in 1..k
      BY <1>3
    <3> QED BY <3>1, <1>4, <1>7
  <2> HIDE DEF m
  <2>2. OutstandingBytes(g, v) = OutstandingBytes(pkt, v) + PacketSize
    BY <2>1, BytesMore, PartTypes
  <2>3. /\ table[v] \in Entries /\ PacketSize \in Nat \ {0}
        /\ EntryOfFlowcut(table[v], v, p, OutstandingBytes(pkt, v))
    BY <1>4, PartTypes, NumbersAssumption
  <2>4. table'[v] = IF table[v] = NoEntry THEN Entry(PacketSize, PreviousName(p, k))
                    ELSE Entry(table[v].in_flight_bytes + PacketSize, table[v].source_name)
    BY <1>4, <1>5, PartTypes DEF increaseFlowInFlight
  <2> HIDE DEF v, k, p, g
  <2>5. table'[v].in_flight_bytes = OutstandingBytes(g, v)
    BY <2>2, <2>3, <2>4 DEF EntryOfFlowcut, Entry, Entries
  <2>6. table'[v].in_flight_bytes # 0
    BY <2>3, <2>4 DEF Entry, Entries
  <2>7. table'[v] # NoEntry
    BY <2>6 DEF NoEntry, Entry
  <2>8. table'[v].source_name = PreviousName(p, k)
    BY <2>3, <2>4, <1>3, <1>4 DEF EntryOfFlowcut, Entry
  <2> QED BY <2>5, <2>6, <2>7, <2>8, <1>4 DEF EntryOfFlowcut
<1> HIDE DEF m, p, v, k
<1>10. \A w \in Switches : EntryOfFlowcut(table'[w], w, p, OutstandingBytes(g, w))
  BY <1>8, <1>9
<1> QED BY <1>5, <1>6, <1>10, OnePacketParts DEF p

\* An ACK at a switch is outstanding there: its entry exists, and is no less
\* than a packet.  The ACK stands at one position of its path, and once it has
\* been given its next hop, that is the position before.
LEMMA AckHere ==
  ASSUME TableIInv, NEW i \in Packets, pkt[i].kind = "ack"
  PROVE  LET p == NewPathid(current)
             w == pkt[i].hop
         IN  /\ p \in Paths /\ pkt[i].path = p /\ w \in Switches
             /\ pkt[i].next \in Nodes \union {NoNode}
             /\ Position(p, w) \in 1..Len(Hops[p]) /\ Hops[p][Position(p, w)] = w
             /\ \/ pkt[i].next = NoNode
                \/ Position(p, w) = 1 /\ pkt[i].next = Source
                \/ Position(p, w) > 1 /\ pkt[i].next = Hops[p][Position(p, w) - 1]
             /\ table[w] # NoEntry /\ table[w].in_flight_bytes >= PacketSize
<1> DEFINE p == NewPathid(current)
           w == pkt[i].hop
           n == pkt[i].next
<1>1. p \in Paths /\ PacketOfFlowcut(pkt[i], p) /\ pkt[i] \in PacketStates
  BY PartTypes
<1>2. pkt[i].path = p /\ Retraces(p, w, n)
  BY <1>1 DEF PacketOfFlowcut
<1>3. w \in Switches /\ n \in Nodes \union {NoNode}
  BY <1>1, PacketFields
<1>4. PICK k \in 1..Len(Hops[p]) :
        /\ Hops[p][k] = w
        /\ \/ n = NoNode
           \/ k = 1 /\ n = Source
           \/ k > 1 /\ n = Hops[p][k - 1]
  BY <1>2 DEF Retraces
<1>5. Position(p, w) = k
  BY <1>1, <1>4, PositionOf
<1>6. k \in 1..k
  BY <1>4
<1>7. Outstanding(pkt[i], w)
  BY <1>2, <1>5, <1>6 DEF Outstanding
<1>8. OutstandingBytes(pkt, w) >= PacketSize
  BY <1>7, BytesSome
<1>9. EntryOfFlowcut(table[w], w, p, OutstandingBytes(pkt, w))
  BY <1>3, PartTypes
<1>10. table[w].in_flight_bytes >= PacketSize
  BY <1>8, <1>9 DEF EntryOfFlowcut
<1>11. table[w].in_flight_bytes # 0
  BY <1>10, NumbersAssumption
<1>12. table[w] # NoEntry
  BY <1>9, <1>11 DEF EntryOfFlowcut
<1> QED BY <1>1, <1>2, <1>3, <1>4, <1>5, <1>10, <1>12

\* The name in the entry is that of the switch before, or the source.
LEMMA AckIngressTable ==
  ASSUME TableIInv, NEW i \in Packets, AckIngress(i)
  PROVE  TableParts'
<1> DEFINE p == NewPathid(current)
           w == pkt[i].hop
           k == Position(p, w)
           n == IF w = Tor(p) THEN Source ELSE table[w].source_name
           m == AckAt(p, w, n)
<1>1. /\ p \in Paths /\ pkt[i].path = p /\ w \in Switches
      /\ k \in 1..Len(Hops[p]) /\ Hops[p][k] = w /\ table[w] # NoEntry
  BY AckHere DEF AckIngress
<1>2. /\ pkt' = [pkt EXCEPT ![i] = m] /\ table' = table
      /\ dirty' = dirty /\ current' = current /\ aborted' = aborted
  BY <1>1 DEF AckIngress
<1>3. n = PreviousName(p, k)
  <2>1. Tor(p) = Hops[p][1] /\ Position(p, Hops[p][1]) = 1
    <3>1. 1 \in 1..Len(Hops[p])
      BY <1>1, HopTypes
    <3> QED BY <1>1, <3>1, HopTypes, PositionOf
  <2>2. CASE w = Tor(p)
    BY <2>1, <2>2 DEF PreviousName
  <2>3. CASE w # Tor(p)
    <3>1. EntryOfFlowcut(table[w], w, p, OutstandingBytes(pkt, w)) /\ k # 0
      BY <1>1, PartTypes
    <3> QED BY <1>1, <2>3, <3>1 DEF EntryOfFlowcut
  <2> QED BY <2>2, <2>3
<1>4. \/ k = 1 /\ n = Source
      \/ k > 1 /\ n = Hops[p][k - 1]
  <2>1. k = 1 \/ k > 1
    BY <1>1, HopTypes
  <2> QED BY <1>3, <2>1 DEF PreviousName
<1> HIDE DEF n, k
<1>5. PacketOfFlowcut(m, p)
  <2>1. Retraces(p, w, n)
    BY <1>1, <1>4 DEF Retraces
  <2> QED BY <2>1 DEF PacketOfFlowcut, AckAt
<1>6. \A v : Outstanding(pkt[i], v) <=> Outstanding(m, v)
  BY <1>1 DEF AckIngress, Outstanding, AckAt
<1> HIDE DEF m, p
<1>7. \A v \in Switches : EntryOfFlowcut(table'[v], v, p, OutstandingBytes([pkt EXCEPT ![i] = m], v))
  BY <1>2, <1>6, EntrySame DEF p
<1> QED BY <1>2, <1>5, <1>7, OnePacketParts DEF p

\* An entry that an ACK takes down by a packet.
LEMMA EntryTakenDown ==
  ASSUME Lossless, NEW e \in Entries, NEW w, NEW p, NEW b \in Int,
         e.in_flight_bytes >= PacketSize, EntryOfFlowcut(e, w, p, b)
  PROVE  EntryOfFlowcut(Acknowledged(e), w, p, b - PacketSize)
<1>1. /\ e.in_flight_bytes \in Nat /\ PacketSize \in Nat \ {0}
      /\ AckedSize = PacketSize /\ e.in_flight_bytes = b /\ e # NoEntry
  <2>1. e.in_flight_bytes \in Nat /\ PacketSize \in Nat \ {0}
        /\ AckedSize = PacketSize /\ e.in_flight_bytes = b
    BY NumbersAssumption DEF Lossless, Entries, EntryOfFlowcut
  <2>2. e.in_flight_bytes # 0
    BY <2>1
  <2> QED BY <2>1, <2>2 DEF EntryOfFlowcut
<1>2. CASE e.in_flight_bytes <= AckedSize
  <2>1. b - PacketSize = 0
    BY <1>1, <1>2
  <2>2. Acknowledged(e) = NoEntry
    BY <1>2 DEF Acknowledged
  <2>3. NoEntry.in_flight_bytes = 0
    BY DEF NoEntry, Entry
  <2> QED BY <2>1, <2>2, <2>3 DEF EntryOfFlowcut
<1>3. CASE ~(e.in_flight_bytes <= AckedSize)
  <2> DEFINE d == Acknowledged(e)
  <2>1. d = Entry(e.in_flight_bytes - AckedSize, e.source_name)
    BY <1>3 DEF Acknowledged
  <2>2. d.in_flight_bytes = e.in_flight_bytes - AckedSize /\ d.source_name = e.source_name
    BY <2>1 DEF Entry
  <2>3. d.in_flight_bytes = b - PacketSize /\ d.in_flight_bytes # 0
    BY <1>1, <1>3, <2>2
  <2>4. NoEntry.in_flight_bytes = 0
    BY DEF NoEntry, Entry
  <2>5. d # NoEntry
    BY <2>3, <2>4
  <2> HIDE DEF d
  <2>6. Position(p, w) # 0 => d.source_name = PreviousName(p, Position(p, w))
    BY <1>1, <2>2 DEF EntryOfFlowcut
  <2>7. EntryOfFlowcut(d, w, p, b - PacketSize)
    BY <2>3, <2>5, <2>6 DEF EntryOfFlowcut
  <2> QED BY <2>7 DEF d
<1> QED BY <1>2, <1>3

\* The switch an ACK leaves takes its packet out of the entry, and the ACK
\* still stands for it at the switches before.
LEMMA AckEgressTable ==
  ASSUME Lossless, TableIInv, NEW i \in Packets, AckEgress(i)
  PROVE  TableParts'
<1> DEFINE p == NewPathid(current)
           w == pkt[i].hop
           k == Position(p, w)
           n == pkt[i].next
           m == IF n = Source THEN Away("done") ELSE AckAt(p, n, NoNode)
           g == [pkt EXCEPT ![i] = m]
<1>1. /\ p \in Paths /\ pkt[i].path = p /\ w \in Switches
      /\ k \in 1..Len(Hops[p]) /\ Hops[p][k] = w
      /\ table[w] # NoEntry /\ table[w].in_flight_bytes >= PacketSize
      /\ \/ k = 1 /\ n = Source
         \/ k > 1 /\ n = Hops[p][k - 1]
  BY AckHere DEF AckEgress
<1>2. pkt' = g /\ table' = [table EXCEPT ![w] = Acknowledged(table[w])]
      /\ dirty' = dirty /\ current' = current /\ aborted' = aborted
  BY <1>1 DEF AckEgress
<1>3. \/ k = 1 /\ m = Away("done")
      \/ k > 1 /\ m = AckAt(p, Hops[p][k - 1], NoNode) /\ k - 1 \in 1..Len(Hops[p])
  <2>1. CASE k = 1 /\ n = Source
    BY <2>1
  <2>2. CASE k > 1 /\ n = Hops[p][k - 1]
    <3>1. k - 1 \in 1..Len(Hops[p])
      BY <1>1, <2>2, HopTypes
    <3>2. n \in Switches
      BY <1>1, <2>2, <3>1, HopTypes
    <3>3. n # Source
      BY <3>2, HopsAssumption
    <3> QED BY <2>2, <3>1, <3>3
  <2> QED BY <1>1, <2>1, <2>2
<1> HIDE DEF m
<1>4. PacketOfFlowcut(m, p)
  <2>1. CASE m = Away("done")
    BY <2>1 DEF Away, PacketOfFlowcut
  <2>2. CASE m = AckAt(p, Hops[p][k - 1], NoNode) /\ k - 1 \in 1..Len(Hops[p])
    BY <2>2 DEF AckAt, PacketOfFlowcut, Retraces
  <2> QED BY <1>3, <2>1, <2>2
<1>5. \A v : /\ Outstanding(pkt[i], v) <=> Position(p, v) \in 1..k
             /\ Outstanding(m, v) <=> Position(p, v) \in 1 .. k - 1
  <2> TAKE v
  <2>1. Outstanding(pkt[i], v) <=> Position(p, v) \in 1..k
    BY <1>1 DEF AckEgress, Outstanding
  <2>2. CASE k = 1 /\ m = Away("done")
    <3>1. ~Outstanding(m, v)
      BY <2>2 DEF Away, Outstanding
    <3>2. Position(p, v) \notin 1 .. k - 1
      BY <2>2
    <3> QED BY <2>1, <3>1, <3>2
  <2>3. CASE m = AckAt(p, Hops[p][k - 1], NoNode) /\ k - 1 \in 1..Len(Hops[p])
    <3>1. Position(p, Hops[p][k - 1]) = k - 1
      BY <1>1, <2>3, PositionOf
    <3>2. Outstanding(m, v) <=> Position(p, v) \in 1 .. k - 1
      BY <2>3, <3>1 DEF AckAt, Outstanding
    <3> QED BY <2>1, <3>2
  <2> QED BY <1>3, <2>2, <2>3
<1>6. k \in Nat
  BY <1>1
<1>7. ASSUME NEW v \in Switches, v # w
      PROVE  EntryOfFlowcut(table'[v], v, p, OutstandingBytes(g, v))
  <2>1. Position(p, v) # k /\ Position(p, v) \in Nat
    BY <1>1, <1>6, <1>7, PositionOf, HopTypes
  <2>2. Position(p, v) \in 1..k <=> Position(p, v) \in 1 .. k - 1
    BY <2>1, <1>6
  <2>3. Outstanding(pkt[i], v) <=> Outstanding(m, v)
    BY <2>2, <1>5
  <2>4. table'[v] = table[v]
    BY <1>2, <1>7, PartTypes
  <2> QED BY <2>3, <2>4, EntrySame
<1>8. EntryOfFlowcut(table'[w], w, p, OutstandingBytes(g, w))
  <2>1. Outstanding(pkt[i], w) /\ ~Outstanding(m, w)
    <3>1. k \in 1..k /\ k \notin 1 .. k - 1
      BY <1>1
    <3> QED BY <3>1, <1>5
  <2>2. OutstandingBytes(g, w) = OutstandingBytes(pkt, w) - PacketSize
    BY <2>1, BytesLess, PartTypes
  <2>3. table[w] \in Entries /\ EntryOfFlowcut(table[w], w, p, OutstandingBytes(pkt, w))
    BY <1>1, PartTypes
  <2>4. OutstandingBytes(pkt, w) \in Int
    BY <2>3 DEF EntryOfFlowcut, Entries
  <2>5. EntryOfFlowcut(Acknowledged(table[w]), w, p, OutstandingBytes(pkt, w) - PacketSize)
    BY <1>1, <2>3, <2>4, EntryTakenDown
  <2>6. table'[w] = Acknowledged(table[w])
    BY <1>1, <1>2, PartTypes
  <2> QED BY <2>2, <2>5, <2>6
<1>9. \A v \in Switches : EntryOfFlowcut(table'[v], v, p, OutstandingBytes(g, v))
  BY <1>7, <1>8
<1> HIDE DEF p
<1> QED BY <1>2, <1>4, <1>9, OnePacketParts DEF p

\* Nothing is NACKed and nothing trimmed: the other actions do not happen.
LEMMA NextTable ==
  ASSUME Lossless, TableIInv, [Next]_vars
  PROVE  TableIInv'
<1>1. TypeOK'
  BY NextType DEF TableIInv
<1>2. TableParts'
  <2>1. CASE UNCHANGED vars
    BY <2>1 DEF TableIInv, TableParts, vars, bounds
  <2>2. ASSUME NEW i \in Packets, SendAgain(i)
        PROVE  FALSE
    BY <2>2, PartTypes DEF SendAgain, PacketOfFlowcut
  <2>3. ASSUME NEW i \in Packets, Trim(i)
        PROVE  FALSE
    <3>1. trims \in Nat /\ trims < MaxTrims /\ MaxTrims = 0
      BY <2>3, NumbersAssumption DEF Trim, TableIInv, TypeOK, Lossless
    <3> QED BY <3>1
  <2>4. CASE Next
    <3>1. PICK i \in Packets :
            \/ SendNew(i) \/ SendAgain(i) \/ Arrive(i) \/ ForwardEgress(i)
            \/ Trim(i) \/ AckIngress(i) \/ AckEgress(i)
      BY <2>4 DEF Next
    <3> QED BY <3>1, <2>2, <2>3, SendNewTable, ArriveTable, ForwardEgressTable,
               AckIngressTable, AckEgressTable
  <2> QED BY <2>1, <2>4
<1> QED BY <1>1, <1>2 DEF TableIInv

LEMMA TableInductive ==
  ASSUME Lossless
  PROVE  Spec => []TableIInv
<1>1. Init => TableIInv
  BY InitType, InitTable DEF TableIInv
<1>2. TableIInv /\ [Next]_vars => TableIInv'
  BY NextTable
<1> QED BY <1>1, <1>2, PTL DEF Spec

-----------------------------------------------------------------------------
\* The inductive invariant: the tables, the packets and the ACKs are those of
\* one flowcut, on one path.
THEOREM TableInvariant ==
  ASSUME Lossless
  PROVE  Spec => []TableInv
<1> QED BY PartsGiveInv, TableInductive, PTL

\* Nobody's assert(false) is reached: no ACK finds its flow missing from the
\* table of a switch.
THEOREM AcksFindTheirEntry ==
  ASSUME Lossless
  PROVE  Spec => []NeverAborts
<1>1. TableIInv => NeverAborts
  BY PartsGiveInv DEF TableInv
<1> QED BY <1>1, TableInductive, PTL

\* Each entry counts exactly the bytes of the flow that are outstanding behind
\* its switch, so that no entry outlives its flowcut and none ends early.
THEOREM TablesAreExact ==
  ASSUME Lossless
  PROVE  Spec => []InFlightIsOutstanding
<1>1. TableIInv => InFlightIsOutstanding
  BY PartsGiveInv DEF TableInv
<1> QED BY <1>1, TableInductive, PTL

\* ACKs retrace the path of their packets, switch by switch.
THEOREM AcksRetraceTheirPath ==
  ASSUME Lossless
  PROVE  Spec => []AcksRetrace
<1>1. TableIInv => AcksRetrace
  BY PartsGiveInv DEF TableInv
<1> QED BY <1>1, TableInductive, PTL

=============================================================================
