----------------------- MODULE DragonflyRouter_proofs -----------------------
(***************************************************************************)
(* An ACK finds an entry of its pair of hosts at every router, in any      *)
(* dragonfly and for any messages; and the counts of a router are right    *)
(* when no two messages have the same hosts (OneMessageAPair).             *)
(*                                                                         *)
(* What a router noted in ack_list is what it sent on and what has not     *)
(* come back: packets and ACKs on its links, and entries of its neighbours *)
(* that name it as the port (Books).  Its counts, which it changes when a  *)
(* packet is routed and not when it is handled, differ by what was routed  *)
(* and whose ACK was not (Open).  FitsInv says what channels, entries and  *)
(* hops look like; a hop is worth something only while its flowcut lasts.  *)
(*                                                                         *)
(* The search of ack_list compares hosts only, so with several messages of *)
(* a pair an ACK may take the entry of another message, and the books of a *)
(* message and its counts are wrong.  Taken together (Merged) the messages *)
(* of a pair still have right books (PairInv), and that is all a search by *)
(* hosts needs.                                                            *)
(***************************************************************************)
EXTENDS DragonflyRouter, Counting_proofs, WellFoundedInduction

\* ack_list is searched by the two hosts: no two messages share them.
OneMessageAPair == \A m, n \in Messages : Pair(m) = Pair(n) => m = n

---------------------------------------------------------------------------
(* The shape of the state *)

\* What channel l carries, and what router r may write down.
Entries == [msg : Messages, id : Nat, port : Routers \union Hosts]
Carried(l) == {p \in Packets : (p.ack <=> l.vc = AckVC) /\ p.id < Length[p.msg]}
Entry(r) == {e \in Entries : e.port \in Routers => Channel(r, e.port, AckVC) \in Channels}

\* The way of message m out of router r: to its host from the last router.
HopFits(r, m, hop) == IF r = Router[To[m]] THEN \E vc \in VCs : hop = Hop(To[m], vc)
                                           ELSE hop \in Hops[m][r]

HeadFits(q, hd, l) ==
  hd[l] # Unrouted =>
    /\ l.to \in Routers /\ q[l] # <<>>
    /\ IF l.vc = AckVC THEN hd[l] = AckHop
                       ELSE HopFits(l.to, Head(q[l]).msg, hd[l])
Queues == [Channels -> Seq(Packets)]
Lists == [Routers -> Seq(Entries)]

Fit(q, hd) ==
  /\ q \in Queues /\ DOMAIN hd = Channels
  /\ \A l \in Channels : q[l] \in Seq(Carried(l)) /\ HeadFits(q, hd, l)
ChannelsFit == Fit(queue, head)

Tallies == [first : Nat, second : Nat]
CachedFits(st, mc, r, m) == st[r][m].first > 0 => HopFits(r, m, mc[r][m])
CountsFit(st, mc) ==
  /\ st \in [Routers -> [Messages -> Tallies]]
  /\ mc \in [Routers -> [Messages -> [to : Routers \union Hosts, vc : Nat]]]
  /\ \A r \in Routers, m \in Messages : CachedFits(st, mc, r, m)
ListsFit(al) == al \in Lists /\ \A r \in Routers : al[r] \in Seq(Entry(r))
TablesFit == CountsFit(list_ack_status, map_cached) /\ ListsFit(ack_list)

NicsFit ==
  /\ sent \in [Messages -> Nat] /\ \A m \in Messages : sent[m] <= Length[m]
  /\ draining_map \in [Messages -> BOOLEAN] /\ draining_status \in [Messages -> BOOLEAN]
  /\ control \in [Hosts -> Seq([msg : Messages, stop : BOOLEAN])]
  /\ size_flowcut \in [Messages -> Nat] /\ latest_hop_count \in [Messages -> 0 .. 1]
  /\ recv \in [Messages -> Nat] /\ DOMAIN held = Messages
  /\ \A m \in Messages : recv[m] <= Length[m] /\ held[m] \subseteq recv[m] + 1 .. Length[m] - 1

FitsInv == ChannelsFit /\ TablesFit /\ NicsFit

---------------------------------------------------------------------------
(* The books of a router *)

\* The packets and the entries of message m, and the entries with port r.
PacketsOf(m) == {p \in Packets : p.msg = m}
EntriesOf(m) == {e \in Entries : e.msg = m}
EntriesBy(m, r) == {e \in EntriesOf(m) : e.port = r}

\* Channel l brings packets that r sent on to another router, or ACKs to r.
On(l, r) == IF l.vc = AckVC THEN l.to = r ELSE l.from = r /\ l.to \in Routers

\* The packets and ACKs of m on the channels of r; the ACKs of m that other
\* routers will send to r.
Load(q, r, m) == [l \in Channels |-> IF On(l, r) THEN HowMany(q[l], PacketsOf(m)) ELSE 0]
Due(al, r, m) == [x \in Routers |-> HowMany(al[x], EntriesBy(m, r))]

\* The packets of m that r has routed and whose ACK it has not, on channel l.
OpenAt(q, hd, l, r, m) ==
  IF l.vc = AckVC
  THEN IF l.to = r THEN HowMany(IF hd[l] = Unrouted THEN q[l] ELSE Tail(q[l]), PacketsOf(m)) ELSE 0
  ELSE (IF l.from = r /\ l.to \in Routers THEN HowMany(q[l], PacketsOf(m)) ELSE 0)
       + One(l.to = r /\ hd[l] # Unrouted /\ Head(q[l]).msg = m)
Open(q, hd, r, m) == [l \in Channels |-> OpenAt(q, hd, l, r, m)]

\* What r has noted of m, has sent on, will get from others, and has routed.
Kept(al, r, m) == HowMany(al[r], EntriesOf(m))
Out(q, r, m) == Total(Channels, Load(q, r, m))
Coming(al, r, m) == Total(Routers, Due(al, r, m))
Pending(q, hd, r, m) == Total(Channels, Open(q, hd, r, m))
Sums(q, hd, al, r, m) ==
  /\ Summed(Channels, Load(q, r, m)) /\ Summed(Channels, Open(q, hd, r, m))
  /\ Summed(Routers, Due(al, r, m))

\* The books of router r with counts c are off by x entries and y packets.
OffBy(q, hd, al, c, r, m, x, y) ==
  /\ Sums(q, hd, al, r, m) /\ x \in Int /\ y \in Int
  /\ Kept(al, r, m) + x = Out(q, r, m) + Coming(al, r, m)
  /\ r # Router[To[m]] => c.first + y = c.second + Coming(al, r, m) + Pending(q, hd, r, m)

\* The entries are what is out or due, and the counts differ by what is open
\* or due.  The last router notes nothing and counts no ACKs.
Balanced(q, hd, al, st, r, m) ==
  /\ OffBy(q, hd, al, st[r][m], r, m, 0, 0)
  /\ r = Router[To[m]] => Kept(al, r, m) = 0 /\ st[r][m].second = 0
Books == \A r \in Routers, m \in Messages : Balanced(queue, head, ack_list, list_ack_status, r, m)

RouterInv == FitsInv /\ Books


---------------------------------------------------------------------------
(* Channels *)

LEMMA VcsAreNumbers == VCs \subseteq Nat /\ AckVC \notin VCs
<1>1. \A m \in Messages, r \in Routers : \A h \in Hops[m][r] : h.vc \in Nat
  BY TopologyAssumption, SMT
<1>2. VCs \subseteq Nat
  BY <1>1, SMT DEF VCs, AllHops, HopsFrom
<1> QED BY <1>2, SMT DEF AckVC

LEMMA EdgesJoinRouters ==
  ASSUME NEW e \in Edges
  PROVE  e[1] \in Routers /\ e[2] \in Routers /\ e[1] # e[2]
<1>1. PICK m \in Messages : e \in Routers \X Routers /\ \E h \in Hops[m][e[1]] : h.to = e[2]
  BY Zenon DEF Edges, HopsFrom
<1>2. e[1] \in Routers /\ e[2] \in Routers
  BY <1>1, SMT
<1>3. Hops[m][e[1]] \subseteq [to : Routers \ {e[1]}, vc : Nat]
  BY <1>2, TopologyAssumption, Zenon
<1>4. PICK h \in Hops[m][e[1]] : h.to = e[2]
  BY <1>1, Zenon
<1>5. h.to \in Routers \ {e[1]}
  BY <1>3, SMT
<1> QED BY <1>2, <1>4, <1>5, Zenon

LEMMA InChannels ==
  ASSUME NEW l
  PROVE  l \in Channels <=>
           \/ \E e \in Edges, vc \in VCs : l = Channel(e[1], e[2], vc)
           \/ \E e \in Edges : l = Channel(e[1], e[2], AckVC)
           \/ \E e \in Edges : l = Channel(e[2], e[1], AckVC)
           \/ \E h \in Hosts : l = Channel(h, Router[h], 0)
           \/ \E r \in Routers, h \in Hosts, vc \in VCs : l = Channel(r, h, vc)
BY SMT DEF Channels

\* A packet goes from router to router, from a host to its router or from a
\* router to a host; an ACK from router to router, and wherever a packet came
\* from another router there is a channel for its ACK.
LEMMA ChannelKinds ==
  ASSUME NEW l \in Channels
  PROVE  /\ l = Channel(l.from, l.to, l.vc)
         /\ l.from \in Routers \union Hosts /\ l.to \in Routers \union Hosts
         /\ l.from # l.to
         /\ l.vc = AckVC => l.from \in Routers /\ l.to \in Routers
         /\ l.vc # AckVC => l.vc \in VCs
         /\ l.vc # AckVC /\ l.from \in Routers /\ l.to \in Routers =>
              Channel(l.to, l.from, AckVC) \in Channels
<1> DEFINE Good == /\ l = Channel(l.from, l.to, l.vc)
                   /\ l.from \in Routers \union Hosts /\ l.to \in Routers \union Hosts
                   /\ l.from # l.to
                   /\ l.vc = AckVC => l.from \in Routers /\ l.to \in Routers
                   /\ l.vc # AckVC => l.vc \in VCs
                   /\ l.vc # AckVC /\ l.from \in Routers /\ l.to \in Routers =>
                        Channel(l.to, l.from, AckVC) \in Channels
<1>1. ASSUME NEW a, NEW b, NEW vc, l = Channel(a, b, vc)
      PROVE  l.from = a /\ l.to = b /\ l.vc = vc
  BY <1>1, Zenon DEF Channel
<1>2. ASSUME NEW e \in Edges, NEW vc \in VCs, l = Channel(e[1], e[2], vc)
      PROVE  Good
  <2>1. l.from = e[1] /\ l.to = e[2] /\ l.vc = vc
    BY <1>1, <1>2, Zenon
  <2>2. Channel(e[2], e[1], AckVC) \in Channels
    BY InChannels, Zenon
  <2> QED BY <1>2, <2>1, <2>2, EdgesJoinRouters, VcsAreNumbers, Zenon
<1>3. ASSUME NEW e \in Edges, NEW a, NEW b, l = Channel(a, b, AckVC),
             (a = e[1] /\ b = e[2]) \/ (a = e[2] /\ b = e[1])
      PROVE  Good
  <2>1. l.from = a /\ l.to = b /\ l.vc = AckVC
    BY <1>1, <1>3, Zenon
  <2> QED BY <1>3, <2>1, EdgesJoinRouters, Zenon
<1>4. ASSUME NEW h \in Hosts, l = Channel(h, Router[h], 0)
      PROVE  Good
  <2>1. l.from = h /\ l.to = Router[h] /\ l.vc = 0
    BY <1>1, <1>4, Zenon
  <2>2. Router[h] \in Routers /\ h \notin Routers /\ 0 \in VCs
    BY TopologyAssumption, Zenon DEF VCs
  <2>3. l.from # l.to /\ l.vc # AckVC
    BY <2>1, <2>2, VcsAreNumbers, Zenon
  <2> QED BY <1>4, <2>1, <2>2, <2>3, Zenon
<1>5. ASSUME NEW r \in Routers, NEW h \in Hosts, NEW vc \in VCs, l = Channel(r, h, vc)
      PROVE  Good
  <2>1. l.from = r /\ l.to = h /\ l.vc = vc
    BY <1>1, <1>5, Zenon
  <2>2. h \notin Routers
    BY TopologyAssumption, Zenon
  <2> QED BY <1>5, <2>1, <2>2, VcsAreNumbers, Zenon
<1>6. \/ \E e \in Edges, vc \in VCs : l = Channel(e[1], e[2], vc)
      \/ \E e \in Edges : l = Channel(e[1], e[2], AckVC)
      \/ \E e \in Edges : l = Channel(e[2], e[1], AckVC)
      \/ \E h \in Hosts : l = Channel(h, Router[h], 0)
      \/ \E r \in Routers, h \in Hosts, vc \in VCs : l = Channel(r, h, vc)
  BY InChannels, Zenon
<1> HIDE DEF Good
<1>7. Good
  BY <1>2, <1>3, <1>4, <1>5, <1>6, Zenon
<1> QED BY <1>7, Zenon DEF Good

\* The channel a packet leaves by.
LEMMA HopsLead ==
  ASSUME NEW r \in Routers, NEW m \in Messages, NEW hop, HopFits(r, m, hop)
  PROVE  /\ Channel(r, hop.to, hop.vc) \in Channels /\ hop.vc # AckVC /\ hop.vc \in VCs
         /\ hop \in [to : Routers \union Hosts, vc : Nat]
         /\ hop # Unrouted /\ hop # AckHop
         /\ hop.to \in Hosts <=> r = Router[To[m]]
         /\ hop.to \in Routers <=> r # Router[To[m]]
         /\ hop.to # r
<1>1. To[m] \in Hosts /\ Hops[m][r] \subseteq [to : Routers \ {r}, vc : Nat]
      /\ Routers \intersect Hosts = {} /\ {"unrouted", "ack"} \intersect (Routers \union Hosts) = {}
  BY MessagesAssumption, TopologyAssumption, Zenon
<1>2. ASSUME hop.to \in Routers \union Hosts
      PROVE  hop # Unrouted /\ hop # AckHop
  <2>1. Unrouted.to = "unrouted" /\ AckHop.to = "ack"
    BY Zenon DEF Unrouted, AckHop, Hop
  <2> QED BY <1>1, <1>2, <2>1, Zenon
<1>3. CASE r = Router[To[m]]
  <2>1. PICK vc \in VCs : hop = Hop(To[m], vc)
    BY <1>3, Zenon DEF HopFits
  <2>2. hop.to = To[m] /\ hop.vc = vc /\ vc \in Nat /\ vc # AckVC
    BY <2>1, VcsAreNumbers, Zenon DEF Hop
  <2>3. hop \in [to : Routers \union Hosts, vc : Nat]
    BY <1>1, <2>1, <2>2, SMT DEF Hop
  <2>4. Channel(r, hop.to, hop.vc) \in Channels
    BY <1>1, <2>2, InChannels, Zenon
  <2>5. hop.to \in Hosts /\ hop.to \notin Routers /\ hop.to # r
    BY <1>1, <2>2, Zenon
  <2> QED BY <1>2, <1>3, <2>2, <2>3, <2>4, <2>5, Zenon
<1>4. CASE r # Router[To[m]]
  <2>1. hop \in Hops[m][r]
    BY <1>4, Zenon DEF HopFits
  <2>2. hop \in [to : Routers \ {r}, vc : Nat]
    BY <1>1, <2>1, Zenon
  <2>3. hop.to \in Routers /\ hop.to # r /\ hop.vc \in Nat
        /\ hop \in [to : Routers \union Hosts, vc : Nat]
    BY <2>2, SMT
  <2>4. hop.vc \in VCs
    <3>1. hop \in HopsFrom(r)
      BY <2>1, SMT DEF HopsFrom
    <3>2. hop \in AllHops
      BY <3>1, SMT DEF AllHops
    <3> QED BY <3>2, Zenon DEF VCs
  <2>5. <<r, hop.to>> \in Edges
    <3>1. <<r, hop.to>> \in Routers \X Routers /\ <<r, hop.to>>[1] = r /\ <<r, hop.to>>[2] = hop.to
      BY <2>3, SMT
    <3> QED BY <2>1, <3>1, Zenon DEF Edges, HopsFrom
  <2>6. Channel(r, hop.to, hop.vc) \in Channels
    <3>1. <<r, hop.to>>[1] = r /\ <<r, hop.to>>[2] = hop.to
      BY SMT
    <3> QED BY <2>4, <2>5, <3>1, InChannels, Zenon
  <2>7. hop.to \notin Hosts
    BY <1>1, <2>3, Zenon
  <2> QED BY <1>2, <1>4, <2>3, <2>4, <2>6, <2>7, VcsAreNumbers, Zenon
<1> QED BY <1>3, <1>4, Zenon


---------------------------------------------------------------------------
(* What a packet in and a packet out do to the sums *)

\* The packet is of message m; and counts for router r on channel l.
OfMsg(p, m) == One(p.msg = m)
Counts(l, r, p, m) == One(On(l, r) /\ p.msg = m)

LEMMA CountedInQueues ==
  ASSUME NEW q \in Queues, NEW l \in Channels, NEW m
  PROVE  /\ q[l] \in Seq(Packets) /\ HowMany(q[l], PacketsOf(m)) \in Nat
         /\ \A p \in Packets : p \in PacketsOf(m) <=> p.msg = m
<1>1. q[l] \in Seq(Packets)
  BY Zenon DEF Queues
<1> QED BY <1>1, HowManyIs, Zenon DEF PacketsOf

LEMMA PushIs ==
  ASSUME NEW q \in Queues, NEW l \in Channels, NEW p \in Packets
  PROVE  /\ Pushed(q, l, p) \in Queues /\ Pushed(q, l, p)[l] = Append(q[l], p)
         /\ \A g \in Channels \ {l} : Pushed(q, l, p)[g] = q[g]
<1>1. q[l] \in Seq(Packets)
  BY Zenon DEF Queues
<1>2. Append(q[l], p) \in Seq(Packets)
  BY <1>1, SMT
<1> QED BY <1>2, Zenon DEF Pushed, Queues

LEMMA PopIs ==
  ASSUME NEW q \in Queues, NEW l \in Channels, q[l] # <<>>
  PROVE  /\ Popped(q, l) \in Queues /\ Popped(q, l)[l] = Tail(q[l])
         /\ Head(q[l]) \in Packets
         /\ \A g \in Channels \ {l} : Popped(q, l)[g] = q[g]
<1>1. q[l] \in Seq(Packets)
  BY Zenon DEF Queues
<1>2. Tail(q[l]) \in Seq(Packets) /\ Head(q[l]) \in Packets
  BY <1>1, SMT
<1> QED BY <1>2, Zenon DEF Popped, Queues

LEMMA MorePackets ==
  ASSUME NEW s \in Seq(Packets), NEW p \in Packets, NEW m
  PROVE  HowMany(Append(s, p), PacketsOf(m)) = HowMany(s, PacketsOf(m)) + OfMsg(p, m)
<1>1. HowMany(Append(s, p), PacketsOf(m)) = HowMany(s, PacketsOf(m)) + One(p \in PacketsOf(m))
  BY HowManyAppend, Zenon
<1>2. One(p \in PacketsOf(m)) = OfMsg(p, m)
  BY Zenon DEF One, OfMsg, PacketsOf
<1> QED BY <1>1, <1>2, Zenon

LEMMA FewerPackets ==
  ASSUME NEW s \in Seq(Packets), s # <<>>, NEW m
  PROVE  HowMany(Tail(s), PacketsOf(m)) + OfMsg(Head(s), m) = HowMany(s, PacketsOf(m))
<1>1. HowMany(Tail(s), PacketsOf(m)) + One(Head(s) \in PacketsOf(m)) = HowMany(s, PacketsOf(m))
  BY HowManyTail, Zenon
<1>2. Head(s) \in Packets
  BY SMT
<1>3. One(Head(s) \in PacketsOf(m)) = OfMsg(Head(s), m)
  BY <1>2, Zenon DEF One, OfMsg, PacketsOf
<1> QED BY <1>1, <1>3, Zenon

\* The terms of a sum.
LoadTerms(a, q, r, m) ==
  /\ a \in [Channels -> Nat]
  /\ \A l \in Channels : /\ On(l, r) => a[l] = HowMany(q[l], PacketsOf(m))
                         /\ ~On(l, r) => a[l] = 0

LEMMA LoadIs ==
  ASSUME NEW q \in Queues, NEW r, NEW m
  PROVE  LoadTerms(Load(q, r, m), q, r, m)
<1>1. \A l \in Channels : HowMany(q[l], PacketsOf(m)) \in Nat
  BY CountedInQueues, Zenon
<1>2. 0 \in Nat
  BY SMT
<1> QED BY <1>1, <1>2, Zenon DEF Load, LoadTerms

LEMMA CountsIs ==
  ASSUME NEW l, NEW r, NEW p, NEW m
  PROVE  /\ Counts(l, r, p, m) \in {0, 1} /\ OfMsg(p, m) \in {0, 1}
         /\ On(l, r) => Counts(l, r, p, m) = OfMsg(p, m)
         /\ ~On(l, r) => Counts(l, r, p, m) = 0
BY Zenon DEF Counts, OfMsg, One

LEMMA PushLoad ==
  ASSUME NEW q \in Queues, NEW l \in Channels, NEW p \in Packets, NEW r, NEW m,
         Summed(Channels, Load(q, r, m))
  PROVE  /\ Summed(Channels, Load(Pushed(q, l, p), r, m))
         /\ Total(Channels, Load(Pushed(q, l, p), r, m)) = Total(Channels, Load(q, r, m)) + Counts(l, r, p, m)
<1>1. PICK t \in Queues : t = Pushed(q, l, p)
  BY PushIs, Zenon
<1>2. t[l] = Append(q[l], p) /\ \A g \in Channels \ {l} : t[g] = q[g]
  BY <1>1, PushIs, Zenon
<1>3. HowMany(t[l], PacketsOf(m)) = HowMany(q[l], PacketsOf(m)) + OfMsg(p, m)
  <2>1. HowMany(Append(q[l], p), PacketsOf(m)) = HowMany(q[l], PacketsOf(m)) + OfMsg(p, m)
    BY CountedInQueues, MorePackets, Zenon
  <2> QED BY <1>2, <2>1, Zenon
<1>4. PICK a : a = Load(q, r, m)
  BY Zenon
<1>5. PICK b : b = Load(t, r, m)
  BY Zenon
<1>6. \A g \in Channels : /\ On(g, r) => a[g] = HowMany(q[g], PacketsOf(m))
                          /\ ~On(g, r) => a[g] = 0
  <2>1. LoadTerms(a, q, r, m)
    BY <1>4, LoadIs, Zenon
  <2> QED BY <2>1, Zenon DEF LoadTerms
<1>7. /\ b \in [Channels -> Nat]
      /\ \A g \in Channels : /\ On(g, r) => b[g] = HowMany(t[g], PacketsOf(m))
                             /\ ~On(g, r) => b[g] = 0
  <2>1. LoadTerms(b, t, r, m)
    BY <1>5, LoadIs, Zenon
  <2> QED BY <2>1, Zenon DEF LoadTerms
<1>8. \A g \in Channels \ {l} : b[g] = a[g]
  BY <1>2, <1>6, <1>7, Zenon
<1>9. PICK d : d = Counts(l, r, p, m)
  BY Zenon
<1>10. d \in {0, 1} /\ (On(l, r) => d = OfMsg(p, m)) /\ (~On(l, r) => d = 0)
  BY <1>9, CountsIs, Zenon
<1>11. b[l] = a[l] + d
  <2>1. CASE On(l, r)
    BY <1>3, <1>6, <1>7, <1>10, <2>1, Zenon
  <2>2. CASE ~On(l, r)
    <3>1. 0 = 0 + 0
      BY SMT
    <3> QED BY <1>6, <1>7, <1>10, <2>2, <3>1, Zenon
  <2> QED BY <2>1, <2>2, Zenon
<1>12. Summed(Channels, a)
  BY <1>4, Zenon
<1>13. Grows(Channels, l, a, b, d)
  <2>1. Differs(Channels, l, a, b, d)
    BY <1>7, <1>8, <1>10, <1>12, Zenon DEF Differs
  <2> QED BY <1>11, <2>1, SMT DEF Grows
<1>14. Summed(Channels, b) /\ Total(Channels, b) = Total(Channels, a) + d
  BY <1>13, OneTermUp, SMT
<1> QED BY <1>1, <1>4, <1>5, <1>9, <1>14, Zenon

LEMMA PopLoad ==
  ASSUME NEW q \in Queues, NEW l \in Channels, q[l] # <<>>, NEW r, NEW m,
         Summed(Channels, Load(q, r, m))
  PROVE  /\ Summed(Channels, Load(Popped(q, l), r, m))
         /\ Total(Channels, Load(Popped(q, l), r, m)) + Counts(l, r, Head(q[l]), m) = Total(Channels, Load(q, r, m))
<1>1. PICK t : t = Popped(q, l)
  BY Zenon
<1>2. t \in Queues /\ t[l] = Tail(q[l]) /\ \A g \in Channels \ {l} : t[g] = q[g]
  BY <1>1, PopIs, Zenon
<1>3. HowMany(t[l], PacketsOf(m)) + OfMsg(Head(q[l]), m) = HowMany(q[l], PacketsOf(m))
  BY <1>2, CountedInQueues, FewerPackets, Zenon
<1>4. PICK a : a = Load(q, r, m)
  BY Zenon
<1>5. PICK b : b = Load(t, r, m)
  BY Zenon
<1>6. \A g \in Channels : /\ On(g, r) => a[g] = HowMany(q[g], PacketsOf(m))
                          /\ ~On(g, r) => a[g] = 0
  <2>1. LoadTerms(a, q, r, m)
    BY <1>4, LoadIs, Zenon
  <2> QED BY <2>1, Zenon DEF LoadTerms
<1>7. /\ b \in [Channels -> Nat]
      /\ \A g \in Channels : /\ On(g, r) => b[g] = HowMany(t[g], PacketsOf(m))
                             /\ ~On(g, r) => b[g] = 0
  <2>1. LoadTerms(b, t, r, m)
    BY <1>2, <1>5, LoadIs, Zenon
  <2> QED BY <2>1, Zenon DEF LoadTerms
<1>8. \A g \in Channels \ {l} : b[g] = a[g]
  BY <1>2, <1>6, <1>7, Zenon
<1>9. PICK d : d = Counts(l, r, Head(q[l]), m)
  BY Zenon
<1>10. d \in {0, 1} /\ (On(l, r) => d = OfMsg(Head(q[l]), m)) /\ (~On(l, r) => d = 0)
  BY <1>9, CountsIs, Zenon
<1>11. b[l] + d = a[l]
  <2>1. CASE On(l, r)
    BY <1>3, <1>6, <1>7, <1>10, <2>1, Zenon
  <2>2. CASE ~On(l, r)
    <3>1. 0 + 0 = 0
      BY SMT
    <3> QED BY <1>6, <1>7, <1>10, <2>2, <3>1, Zenon
  <2> QED BY <2>1, <2>2, Zenon
<1>12. Summed(Channels, a)
  BY <1>4, Zenon
<1>13. Shrinks(Channels, l, a, b, d)
  <2>1. Differs(Channels, l, a, b, d)
    BY <1>7, <1>8, <1>10, <1>12, Zenon DEF Differs
  <2> QED BY <1>11, <2>1, Zenon DEF Shrinks
<1>14. Summed(Channels, b) /\ Total(Channels, b) + d = Total(Channels, a)
  BY <1>13, OneTermDown, Zenon
<1> QED BY <1>1, <1>4, <1>5, <1>9, <1>14, Zenon


---------------------------------------------------------------------------
(* What is routed and not acknowledged *)

\* Only a packet that is there has been routed.
Routed(q, hd) == \A l \in Channels : hd[l] # Unrouted => q[l] # <<>>

OpenTerms(a, q, hd, r, m) ==
  a \in [Channels -> Nat] /\ \A l \in Channels : a[l] = OpenAt(q, hd, l, r, m)

LEMMA OpenAtIs ==
  ASSUME NEW q \in Queues, NEW hd, Routed(q, hd), NEW r, NEW m, NEW l \in Channels
  PROVE  OpenAt(q, hd, l, r, m) \in Nat
<1>1. q[l] \in Seq(Packets) /\ HowMany(q[l], PacketsOf(m)) \in Nat
  BY CountedInQueues, Zenon
<1>2. One(l.to = r /\ hd[l] # Unrouted /\ Head(q[l]).msg = m) \in {0, 1}
  BY Zenon DEF One
<1>3. CASE l.vc = AckVC /\ l.to = r /\ hd[l] # Unrouted
  <2>1. q[l] # <<>>
    BY <1>3, Zenon DEF Routed
  <2>2. Tail(q[l]) \in Seq(Packets)
    BY <1>1, <2>1, SMT
  <2>3. HowMany(Tail(q[l]), PacketsOf(m)) \in Nat
    BY <2>2, HowManyIs, Zenon
  <2> QED BY <1>3, <2>3, Zenon DEF OpenAt
<1>4. CASE l.vc = AckVC /\ ~(l.to = r /\ hd[l] # Unrouted)
  <2>1. 0 \in Nat
    BY SMT
  <2> QED BY <1>1, <1>4, <2>1, Zenon DEF OpenAt
<1>5. CASE l.vc # AckVC
  <2>1. PICK d \in {0, 1} : d = One(l.to = r /\ hd[l] # Unrouted /\ Head(q[l]).msg = m)
    BY <1>2, Zenon
  <2>2. OpenAt(q, hd, l, r, m) =
          (IF l.from = r /\ l.to \in Routers THEN HowMany(q[l], PacketsOf(m)) ELSE 0) + d
    BY <1>5, <2>1, Zenon DEF OpenAt
  <2> QED BY <1>1, <2>2, SMT
<1> QED BY <1>3, <1>4, <1>5, Zenon

LEMMA OpenIs ==
  ASSUME NEW q \in Queues, NEW hd, Routed(q, hd), NEW r, NEW m
  PROVE  OpenTerms(Open(q, hd, r, m), q, hd, r, m)
<1>1. \A l \in Channels : OpenAt(q, hd, l, r, m) \in Nat
  BY OpenAtIs, Zenon
<1> QED BY <1>1, Zenon DEF Open, OpenTerms

\* From one state to the next only channel l changes.
OneChannel(q, hd, t, he, l) ==
  /\ q \in Queues /\ t \in Queues /\ Routed(q, hd) /\ Routed(t, he) /\ l \in Channels
  /\ \A g \in Channels \ {l} : t[g] = q[g] /\ he[g] = hd[g]

LEMMA OthersAreAsOpen ==
  ASSUME NEW q, NEW hd, NEW t, NEW he, NEW l, NEW r, NEW m,
         OneChannel(q, hd, t, he, l)
  PROVE  \A g \in Channels \ {l} : OpenAt(t, he, g, r, m) = OpenAt(q, hd, g, r, m)
BY Zenon DEF OneChannel, OpenAt

LEMMA OpenDiffers ==
  ASSUME NEW q, NEW hd, NEW t, NEW he, NEW l, NEW r, NEW m,
         NEW d \in {0, 1}, OneChannel(q, hd, t, he, l),
         Summed(Channels, Open(q, hd, r, m))
  PROVE  /\ Differs(Channels, l, Open(q, hd, r, m), Open(t, he, r, m), d)
         /\ Open(q, hd, r, m)[l] = OpenAt(q, hd, l, r, m)
         /\ Open(t, he, r, m)[l] = OpenAt(t, he, l, r, m)
<1>1. PICK a : a = Open(q, hd, r, m)
  BY Zenon
<1>2. PICK b : b = Open(t, he, r, m)
  BY Zenon
<1>3. q \in Queues /\ t \in Queues /\ Routed(q, hd) /\ Routed(t, he) /\ l \in Channels
  BY Zenon DEF OneChannel
<1>4. OpenTerms(a, q, hd, r, m)
  BY <1>1, <1>3, OpenIs, Zenon
<1>5. OpenTerms(b, t, he, r, m)
  BY <1>2, <1>3, OpenIs, Zenon
<1>6. \A g \in Channels : a[g] = OpenAt(q, hd, g, r, m) /\ b[g] = OpenAt(t, he, g, r, m)
  BY <1>4, <1>5, Zenon DEF OpenTerms
<1>7. \A g \in Channels \ {l} : b[g] = a[g]
  <2>1. \A g \in Channels \ {l} : OpenAt(t, he, g, r, m) = OpenAt(q, hd, g, r, m)
    BY OthersAreAsOpen, SMT
  <2> QED BY <1>6, <2>1, Zenon
<1>8. Differs(Channels, l, a, b, d)
  BY <1>1, <1>3, <1>5, <1>7, Zenon DEF Differs, OpenTerms
<1> QED BY <1>1, <1>2, <1>3, <1>6, <1>8, Zenon

LEMMA OpenGrows ==
  ASSUME NEW q, NEW hd, NEW t, NEW he, NEW l, NEW r, NEW m,
         NEW d \in {0, 1}, OneChannel(q, hd, t, he, l),
         OpenAt(t, he, l, r, m) = OpenAt(q, hd, l, r, m) + d,
         Summed(Channels, Open(q, hd, r, m))
  PROVE  /\ Summed(Channels, Open(t, he, r, m))
         /\ Total(Channels, Open(t, he, r, m)) = Total(Channels, Open(q, hd, r, m)) + d
<1>1. Grows(Channels, l, Open(q, hd, r, m), Open(t, he, r, m), d)
  BY OpenDiffers, SMT DEF Grows
<1> QED BY <1>1, OneTermUp, SMT

LEMMA OpenShrinks ==
  ASSUME NEW q, NEW hd, NEW t, NEW he, NEW l, NEW r, NEW m,
         NEW d \in {0, 1}, OneChannel(q, hd, t, he, l),
         OpenAt(t, he, l, r, m) + d = OpenAt(q, hd, l, r, m),
         Summed(Channels, Open(q, hd, r, m))
  PROVE  /\ Summed(Channels, Open(t, he, r, m))
         /\ Total(Channels, Open(t, he, r, m)) + d = Total(Channels, Open(q, hd, r, m))
<1>1. Shrinks(Channels, l, Open(q, hd, r, m), Open(t, he, r, m), d)
  BY OpenDiffers, SMT DEF Shrinks
<1> QED BY <1>1, OneTermDown, Zenon

\* What a packet adds to the open ones: as it is put into a channel, as it is
\* routed by the router the channel leads to, and what taking it out removes.
Takes(l, r, p, m) == One(l.to = r /\ p.msg = m)
Closes(l, r, p, m) == One(l.vc # AckVC /\ (On(l, r) \/ l.to = r) /\ p.msg = m)

LEMMA TakesIs ==
  ASSUME NEW l, NEW r, NEW p, NEW m
  PROVE  /\ Takes(l, r, p, m) \in {0, 1} /\ Closes(l, r, p, m) \in {0, 1}
         /\ l.to = r => Takes(l, r, p, m) = OfMsg(p, m)
         /\ l.to # r => Takes(l, r, p, m) = 0
         /\ l.vc # AckVC /\ (On(l, r) \/ l.to = r) => Closes(l, r, p, m) = OfMsg(p, m)
         /\ ~(l.vc # AckVC /\ (On(l, r) \/ l.to = r)) => Closes(l, r, p, m) = 0
BY Zenon DEF Takes, Closes, OfMsg, One

\* The terms of a channel with nothing routed, and of one with a routed head.
LEMMA OpenUnrouted ==
  ASSUME NEW q \in Queues, NEW hd, NEW l \in Channels, hd[l] = Unrouted, NEW r, NEW m
  PROVE  /\ On(l, r) => OpenAt(q, hd, l, r, m) = HowMany(q[l], PacketsOf(m))
         /\ ~On(l, r) => OpenAt(q, hd, l, r, m) = 0
<1>1. One(l.to = r /\ hd[l] # Unrouted /\ Head(q[l]).msg = m) = 0
  BY Zenon DEF One
<1>2. HowMany(q[l], PacketsOf(m)) + 0 = HowMany(q[l], PacketsOf(m)) /\ 0 + 0 = 0
  <2>1. HowMany(q[l], PacketsOf(m)) \in Nat
    BY CountedInQueues, Zenon
  <2> QED BY <2>1, SMT
<1> QED BY <1>1, <1>2, Zenon DEF OpenAt, On

LEMMA OpenRoutedData ==
  ASSUME NEW q \in Queues, NEW hd, NEW l \in Channels, hd[l] # Unrouted, l.vc # AckVC, NEW r, NEW m
  PROVE  /\ On(l, r) => OpenAt(q, hd, l, r, m) = HowMany(q[l], PacketsOf(m))
         /\ l.to = r => OpenAt(q, hd, l, r, m) = OfMsg(Head(q[l]), m)
         /\ ~On(l, r) /\ l.to # r => OpenAt(q, hd, l, r, m) = 0
<1>1. l.to = r => One(l.to = r /\ hd[l] # Unrouted /\ Head(q[l]).msg = m) = OfMsg(Head(q[l]), m)
  BY Zenon DEF One, OfMsg
<1>2. l.to # r => One(l.to = r /\ hd[l] # Unrouted /\ Head(q[l]).msg = m) = 0
  BY Zenon DEF One
<1>3. /\ HowMany(q[l], PacketsOf(m)) + 0 = HowMany(q[l], PacketsOf(m)) /\ 0 + 0 = 0
      /\ 0 + OfMsg(Head(q[l]), m) = OfMsg(Head(q[l]), m)
  <2>1. HowMany(q[l], PacketsOf(m)) \in Nat /\ OfMsg(Head(q[l]), m) \in {0, 1}
    BY CountedInQueues, CountsIs, Zenon
  <2> QED BY <2>1, SMT
<1>4. On(l, r) => l.to # r
  BY ChannelKinds, Zenon DEF On
<1> QED BY <1>1, <1>2, <1>3, <1>4, Zenon DEF OpenAt, On

LEMMA OpenRoutedAck ==
  ASSUME NEW q \in Queues, NEW hd, NEW l \in Channels, hd[l] # Unrouted, l.vc = AckVC, NEW r, NEW m
  PROVE  /\ On(l, r) => OpenAt(q, hd, l, r, m) = HowMany(Tail(q[l]), PacketsOf(m))
         /\ ~On(l, r) => OpenAt(q, hd, l, r, m) = 0
BY Zenon DEF OpenAt, On

\* Only channel l gets another head.
Reheads(hd, he, l) == \A g \in Channels \ {l} : he[g] = hd[g]

\* A packet put into a channel, taken out of it by the router, and routed.
LEMMA PushOpen ==
  ASSUME NEW q \in Queues, NEW hd, NEW l \in Channels, NEW p \in Packets, NEW r, NEW m,
         Routed(q, hd), Summed(Channels, Open(q, hd, r, m))
  PROVE  /\ Routed(Pushed(q, l, p), hd)
         /\ Summed(Channels, Open(Pushed(q, l, p), hd, r, m))
         /\ Total(Channels, Open(Pushed(q, l, p), hd, r, m))
              = Total(Channels, Open(q, hd, r, m)) + Counts(l, r, p, m)
<1>1. PICK t : t = Pushed(q, l, p)
  BY Zenon
<1>2. t \in Queues /\ t[l] = Append(q[l], p) /\ \A g \in Channels \ {l} : t[g] = q[g]
  BY <1>1, PushIs, Zenon
<1>3. q[l] \in Seq(Packets)
  BY CountedInQueues, Zenon
<1>4. /\ t[l] # <<>> /\ HowMany(t[l], PacketsOf(m)) = HowMany(q[l], PacketsOf(m)) + OfMsg(p, m)
      /\ HowMany(q[l], PacketsOf(m)) \in Nat
  <2>1. Append(q[l], p) # <<>>
    BY <1>3, SMT
  <2>2. HowMany(Append(q[l], p), PacketsOf(m)) = HowMany(q[l], PacketsOf(m)) + OfMsg(p, m)
    BY <1>3, MorePackets, Zenon
  <2>3. HowMany(q[l], PacketsOf(m)) \in Nat
    BY CountedInQueues, Zenon
  <2> QED BY <1>2, <2>1, <2>2, <2>3, Zenon
<1>5. Routed(t, hd)
  BY <1>2, <1>4, Zenon DEF Routed
<1>6. OneChannel(q, hd, t, hd, l)
  BY <1>2, <1>5, Zenon DEF OneChannel
<1>7. PICK d : d = Counts(l, r, p, m)
  BY Zenon
<1>8. d \in {0, 1} /\ (On(l, r) => d = OfMsg(p, m)) /\ (~On(l, r) => d = 0)
  BY <1>7, CountsIs, Zenon
<1>9. OpenAt(t, hd, l, r, m) = OpenAt(q, hd, l, r, m) + d
  <2>1. CASE hd[l] = Unrouted
    <3>1. /\ On(l, r) => OpenAt(q, hd, l, r, m) = HowMany(q[l], PacketsOf(m))
          /\ ~On(l, r) => OpenAt(q, hd, l, r, m) = 0
      BY <2>1, OpenUnrouted, Zenon
    <3>2. /\ On(l, r) => OpenAt(t, hd, l, r, m) = HowMany(t[l], PacketsOf(m))
          /\ ~On(l, r) => OpenAt(t, hd, l, r, m) = 0
      BY <1>2, <2>1, OpenUnrouted, Zenon
    <3> QED BY <1>4, <1>8, <3>1, <3>2, SMT
  <2>2. CASE hd[l] # Unrouted
    <3>1. q[l] # <<>>
      BY <2>2, Zenon DEF Routed
    <3>2. Head(Append(q[l], p)) = Head(q[l]) /\ Tail(Append(q[l], p)) = Append(Tail(q[l]), p)
          /\ Tail(q[l]) \in Seq(Packets)
      BY <1>3, <3>1, SMT
    <3>3. CASE l.vc = AckVC
      <4>1. /\ On(l, r) => OpenAt(q, hd, l, r, m) = HowMany(Tail(q[l]), PacketsOf(m))
            /\ ~On(l, r) => OpenAt(q, hd, l, r, m) = 0
        BY <2>2, <3>3, OpenRoutedAck, Zenon
      <4>2. /\ On(l, r) => OpenAt(t, hd, l, r, m) = HowMany(Tail(t[l]), PacketsOf(m))
            /\ ~On(l, r) => OpenAt(t, hd, l, r, m) = 0
        BY <1>2, <2>2, <3>3, OpenRoutedAck, Zenon
      <4>3. HowMany(Append(Tail(q[l]), p), PacketsOf(m)) = HowMany(Tail(q[l]), PacketsOf(m)) + OfMsg(p, m)
        BY <3>2, MorePackets, Zenon
      <4>4. HowMany(Tail(t[l]), PacketsOf(m)) = HowMany(Tail(q[l]), PacketsOf(m)) + OfMsg(p, m)
        BY <1>2, <3>2, <4>3, Zenon
      <4> QED BY <1>8, <4>1, <4>2, <4>4, SMT
    <3>4. CASE l.vc # AckVC
      <4>1. /\ On(l, r) => OpenAt(q, hd, l, r, m) = HowMany(q[l], PacketsOf(m))
            /\ l.to = r => OpenAt(q, hd, l, r, m) = OfMsg(Head(q[l]), m)
            /\ ~On(l, r) /\ l.to # r => OpenAt(q, hd, l, r, m) = 0
        BY <2>2, <3>4, OpenRoutedData, Zenon
      <4>2. /\ On(l, r) => OpenAt(t, hd, l, r, m) = HowMany(t[l], PacketsOf(m))
            /\ l.to = r => OpenAt(t, hd, l, r, m) = OfMsg(Head(t[l]), m)
            /\ ~On(l, r) /\ l.to # r => OpenAt(t, hd, l, r, m) = 0
        BY <1>2, <2>2, <3>4, OpenRoutedData, ZenonT(40)
      <4>3. Head(t[l]) = Head(q[l]) /\ OfMsg(Head(q[l]), m) \in {0, 1}
        BY <1>2, <3>2, CountsIs, Zenon
      <4>4. On(l, r) => l.to # r
        BY <3>4, ChannelKinds, Zenon DEF On
      <4> QED BY <1>4, <1>8, <4>1, <4>2, <4>3, <4>4, SMT
    <3> QED BY <3>3, <3>4, Zenon
  <2> QED BY <2>1, <2>2, Zenon
<1>10. /\ Summed(Channels, Open(t, hd, r, m))
       /\ Total(Channels, Open(t, hd, r, m)) = Total(Channels, Open(q, hd, r, m)) + d
  BY <1>6, <1>8, <1>9, OpenGrows, SMT
<1> QED BY <1>1, <1>5, <1>7, <1>10, Zenon

LEMMA PopOpen ==
  ASSUME NEW q \in Queues, NEW hd, NEW he, NEW l \in Channels, NEW r, NEW m,
         Routed(q, hd), hd[l] # Unrouted, he[l] = Unrouted,
         Reheads(hd, he, l),
         Summed(Channels, Open(q, hd, r, m))
  PROVE  /\ Routed(Popped(q, l), he)
         /\ Summed(Channels, Open(Popped(q, l), he, r, m))
         /\ Total(Channels, Open(Popped(q, l), he, r, m)) + Closes(l, r, Head(q[l]), m)
              = Total(Channels, Open(q, hd, r, m))
<1>1. PICK t : t = Popped(q, l)
  BY Zenon
<1>2. q[l] # <<>>
  BY Zenon DEF Routed
<1>3. t \in Queues /\ t[l] = Tail(q[l]) /\ \A g \in Channels \ {l} : t[g] = q[g]
  BY <1>1, <1>2, PopIs, Zenon
<1>4. /\ HowMany(t[l], PacketsOf(m)) + OfMsg(Head(q[l]), m) = HowMany(q[l], PacketsOf(m))
      /\ HowMany(t[l], PacketsOf(m)) \in Nat
  <2>1. q[l] \in Seq(Packets)
    BY CountedInQueues, Zenon
  <2>2. HowMany(Tail(q[l]), PacketsOf(m)) + OfMsg(Head(q[l]), m) = HowMany(q[l], PacketsOf(m))
    BY <1>2, <2>1, FewerPackets, Zenon
  <2>3. HowMany(t[l], PacketsOf(m)) \in Nat
    BY <1>3, CountedInQueues, Zenon
  <2> QED BY <1>3, <2>2, <2>3, Zenon
<1>5. Routed(t, he)
  BY <1>3, Zenon DEF Routed, Reheads
<1>6. OneChannel(q, hd, t, he, l)
  BY <1>3, <1>5, Zenon DEF OneChannel, Reheads
<1>7. PICK d : d = Closes(l, r, Head(q[l]), m)
  BY Zenon
<1>8. /\ d \in {0, 1} /\ OfMsg(Head(q[l]), m) \in {0, 1}
      /\ l.vc # AckVC /\ (On(l, r) \/ l.to = r) => d = OfMsg(Head(q[l]), m)
      /\ ~(l.vc # AckVC /\ (On(l, r) \/ l.to = r)) => d = 0
  BY <1>7, TakesIs, CountsIs, SMT
<1>9. /\ On(l, r) => OpenAt(t, he, l, r, m) = HowMany(t[l], PacketsOf(m))
      /\ ~On(l, r) => OpenAt(t, he, l, r, m) = 0
  BY <1>3, OpenUnrouted, SMT
<1>10. OpenAt(t, he, l, r, m) + d = OpenAt(q, hd, l, r, m)
  <2>1. CASE l.vc = AckVC
    <3>1. /\ On(l, r) => OpenAt(q, hd, l, r, m) = HowMany(Tail(q[l]), PacketsOf(m))
          /\ ~On(l, r) => OpenAt(q, hd, l, r, m) = 0
      BY <2>1, OpenRoutedAck, Zenon
    <3> QED BY <1>3, <1>4, <1>8, <1>9, <2>1, <3>1, SMT
  <2>2. CASE l.vc # AckVC
    <3>1. /\ On(l, r) => OpenAt(q, hd, l, r, m) = HowMany(q[l], PacketsOf(m))
          /\ l.to = r => OpenAt(q, hd, l, r, m) = OfMsg(Head(q[l]), m)
          /\ ~On(l, r) /\ l.to # r => OpenAt(q, hd, l, r, m) = 0
      BY <2>2, OpenRoutedData, Zenon
    <3>2. On(l, r) => l.to # r
      BY <2>2, ChannelKinds, Zenon DEF On
    <3> QED BY <1>4, <1>8, <1>9, <2>2, <3>1, <3>2, SMT
  <2> QED BY <2>1, <2>2, Zenon
<1>11. /\ Summed(Channels, Open(t, he, r, m))
       /\ Total(Channels, Open(t, he, r, m)) + d = Total(Channels, Open(q, hd, r, m))
  BY <1>6, <1>8, <1>10, OpenShrinks, SMT
<1> QED BY <1>1, <1>5, <1>7, <1>11, Zenon

\* A router that routes a packet expects its ACK; one that routes the ACK
\* does not any more.
LEMMA RouteOpen ==
  ASSUME NEW q \in Queues, NEW hd, NEW he, NEW l \in Channels, NEW r, NEW m,
         Routed(q, hd), q[l] # <<>>, hd[l] = Unrouted, he[l] # Unrouted,
         Reheads(hd, he, l),
         Summed(Channels, Open(q, hd, r, m))
  PROVE  /\ Routed(q, he)
         /\ Summed(Channels, Open(q, he, r, m))
         /\ l.vc # AckVC =>
              Total(Channels, Open(q, he, r, m))
                = Total(Channels, Open(q, hd, r, m)) + Takes(l, r, Head(q[l]), m)
         /\ l.vc = AckVC =>
              Total(Channels, Open(q, he, r, m)) + Takes(l, r, Head(q[l]), m)
                = Total(Channels, Open(q, hd, r, m))
<1>1. Routed(q, he)
  BY Zenon DEF Routed, Reheads
<1>2. OneChannel(q, hd, q, he, l)
  BY <1>1, Zenon DEF OneChannel, Reheads
<1>3. PICK d : d = Takes(l, r, Head(q[l]), m)
  BY Zenon
<1>4. /\ d \in {0, 1} /\ OfMsg(Head(q[l]), m) \in {0, 1}
      /\ l.to = r => d = OfMsg(Head(q[l]), m)
      /\ l.to # r => d = 0
  BY <1>3, TakesIs, CountsIs, SMT
<1>5. /\ On(l, r) => OpenAt(q, hd, l, r, m) = HowMany(q[l], PacketsOf(m))
      /\ ~On(l, r) => OpenAt(q, hd, l, r, m) = 0
  BY OpenUnrouted, Zenon
<1>6. CASE l.vc # AckVC
  <2>1. /\ On(l, r) => OpenAt(q, he, l, r, m) = HowMany(q[l], PacketsOf(m))
        /\ l.to = r => OpenAt(q, he, l, r, m) = OfMsg(Head(q[l]), m)
        /\ ~On(l, r) /\ l.to # r => OpenAt(q, he, l, r, m) = 0
    BY <1>6, OpenRoutedData, Zenon
  <2>2. On(l, r) => l.to # r
    BY <1>6, ChannelKinds, Zenon DEF On
  <2>3. HowMany(q[l], PacketsOf(m)) \in Nat
    BY CountedInQueues, Zenon
  <2>4. OpenAt(q, he, l, r, m) = OpenAt(q, hd, l, r, m) + d
    BY <1>4, <1>5, <2>1, <2>2, <2>3, SMT
  <2>5. /\ Summed(Channels, Open(q, he, r, m))
        /\ Total(Channels, Open(q, he, r, m)) = Total(Channels, Open(q, hd, r, m)) + d
    BY <1>2, <1>4, <2>4, OpenGrows, SMT
  <2> QED BY <1>1, <1>3, <1>6, <2>5, Zenon
<1>7. CASE l.vc = AckVC
  <2>1. /\ On(l, r) => OpenAt(q, he, l, r, m) = HowMany(Tail(q[l]), PacketsOf(m))
        /\ ~On(l, r) => OpenAt(q, he, l, r, m) = 0
    BY <1>7, OpenRoutedAck, Zenon
  <2>2. /\ HowMany(Tail(q[l]), PacketsOf(m)) + OfMsg(Head(q[l]), m) = HowMany(q[l], PacketsOf(m))
    BY CountedInQueues, FewerPackets, Zenon
  <2>3. On(l, r) <=> l.to = r
    BY <1>7, Zenon DEF On
  <2>4. OpenAt(q, he, l, r, m) + d = OpenAt(q, hd, l, r, m)
    BY <1>4, <1>5, <2>1, <2>2, <2>3, SMT
  <2>5. /\ Summed(Channels, Open(q, he, r, m))
        /\ Total(Channels, Open(q, he, r, m)) + d = Total(Channels, Open(q, hd, r, m))
    BY <1>2, <1>4, <2>4, OpenShrinks, SMT
  <2> QED BY <1>1, <1>3, <1>7, <2>5, Zenon
<1> QED BY <1>6, <1>7, Zenon


---------------------------------------------------------------------------
(* What an entry noted and an entry taken out do to the sums *)

\* The entry counts for its router, and for the one it names as the port.
Notes(x, r, e, m) == One(x = r /\ e.msg = m)
Awaits(r, e, m) == One(e.port = r /\ e.msg = m)

LEMMA NotesIs ==
  ASSUME NEW x, NEW r, NEW e, NEW m
  PROVE  /\ Notes(x, r, e, m) \in {0, 1} /\ Awaits(r, e, m) \in {0, 1}
         /\ x = r => Notes(x, r, e, m) = OfMsg(e, m)
         /\ x # r => Notes(x, r, e, m) = 0
         /\ e.port = r => Awaits(r, e, m) = OfMsg(e, m)
         /\ e.port # r => Awaits(r, e, m) = 0
BY Zenon DEF Notes, Awaits, OfMsg, One

DueTerms(a, al, r, m) ==
  a \in [Routers -> Nat] /\ \A x \in Routers : a[x] = HowMany(al[x], EntriesBy(m, r))

LEMMA DueIs ==
  ASSUME NEW al \in Lists, NEW r, NEW m
  PROVE  DueTerms(Due(al, r, m), al, r, m)
<1>1. \A x \in Routers : al[x] \in Seq(Entries)
  BY Zenon DEF Lists
<1>2. \A x \in Routers : HowMany(al[x], EntriesBy(m, r)) \in Nat
  BY <1>1, HowManyIs, Zenon
<1> QED BY <1>2, Zenon DEF Due, DueTerms

\* From one state to the next only the list of x changes.
OneList(al, bl, x) ==
  /\ al \in Lists /\ bl \in Lists /\ x \in Routers
  /\ \A y \in Routers \ {x} : bl[y] = al[y]

LEMMA DueDiffers ==
  ASSUME NEW al, NEW bl, NEW x, NEW r, NEW m, NEW d \in {0, 1},
         OneList(al, bl, x), Summed(Routers, Due(al, r, m))
  PROVE  /\ Differs(Routers, x, Due(al, r, m), Due(bl, r, m), d)
         /\ Due(al, r, m)[x] = HowMany(al[x], EntriesBy(m, r))
         /\ Due(bl, r, m)[x] = HowMany(bl[x], EntriesBy(m, r))
<1>1. PICK a : a = Due(al, r, m)
  BY Zenon
<1>2. PICK b : b = Due(bl, r, m)
  BY Zenon
<1>3. /\ al \in Lists /\ bl \in Lists /\ x \in Routers
      /\ \A y \in Routers \ {x} : bl[y] = al[y]
  BY Zenon DEF OneList
<1>4. DueTerms(a, al, r, m)
  BY <1>1, <1>3, DueIs, Zenon
<1>5. DueTerms(b, bl, r, m)
  BY <1>2, <1>3, DueIs, Zenon
<1>6. /\ b \in [Routers -> Nat]
      /\ \A y \in Routers : /\ a[y] = HowMany(al[y], EntriesBy(m, r))
                            /\ b[y] = HowMany(bl[y], EntriesBy(m, r))
  BY <1>4, <1>5, Zenon DEF DueTerms
<1>7. \A y \in Routers \ {x} : b[y] = a[y]
  BY <1>3, <1>6, Zenon
<1>8. Differs(Routers, x, a, b, d)
  BY <1>1, <1>3, <1>6, <1>7, Zenon DEF Differs
<1> QED BY <1>1, <1>2, <1>3, <1>6, <1>8, Zenon

\* The entry e comes to the list of x, or goes from it at place i.
Noted(al, bl, x, e) == OneList(al, bl, x) /\ e \in Entries /\ bl[x] = Append(al[x], e)
Struck(al, bl, x, i) == OneList(al, bl, x) /\ i \in 1 .. Len(al[x]) /\ bl[x] = Without(al[x], i)

LEMMA EntrySets ==
  ASSUME NEW e \in Entries, NEW r, NEW m
  PROVE  /\ One(e \in EntriesBy(m, r)) = Awaits(r, e, m)
         /\ One(e \in EntriesOf(m)) = OfMsg(e, m)
BY Zenon DEF EntriesBy, EntriesOf, Awaits, OfMsg, One

LEMMA NoteDue ==
  ASSUME NEW al, NEW bl, NEW x, NEW e, NEW r, NEW m,
         Noted(al, bl, x, e), Summed(Routers, Due(al, r, m))
  PROVE  /\ Summed(Routers, Due(bl, r, m))
         /\ Total(Routers, Due(bl, r, m)) = Total(Routers, Due(al, r, m)) + Awaits(r, e, m)
<1>1. OneList(al, bl, x) /\ e \in Entries /\ bl[x] = Append(al[x], e)
  BY Zenon DEF Noted
<1>2. al[x] \in Seq(Entries)
  BY <1>1, Zenon DEF OneList, Lists
<1>3. PICK d : d = Awaits(r, e, m)
  BY Zenon
<1>4. d \in {0, 1}
  BY <1>3, NotesIs, SMT
<1>5. HowMany(Append(al[x], e), EntriesBy(m, r)) = HowMany(al[x], EntriesBy(m, r)) + One(e \in EntriesBy(m, r))
  BY <1>1, <1>2, HowManyAppend, Zenon
<1>6. One(e \in EntriesBy(m, r)) = d
  BY <1>1, <1>3, EntrySets, Zenon
<1>7. HowMany(bl[x], EntriesBy(m, r)) = HowMany(al[x], EntriesBy(m, r)) + d
  BY <1>1, <1>5, <1>6, Zenon
<1>8. /\ Differs(Routers, x, Due(al, r, m), Due(bl, r, m), d)
      /\ Due(al, r, m)[x] = HowMany(al[x], EntriesBy(m, r))
      /\ Due(bl, r, m)[x] = HowMany(bl[x], EntriesBy(m, r))
  <2>1. OneList(al, bl, x)
    BY <1>1, Zenon
  <2> QED BY <1>4, <2>1, DueDiffers, SMT
<1>9. Grows(Routers, x, Due(al, r, m), Due(bl, r, m), d)
  BY <1>7, <1>8, SMT DEF Grows
<1>10. /\ Summed(Routers, Due(bl, r, m))
       /\ Total(Routers, Due(bl, r, m)) = Total(Routers, Due(al, r, m)) + d
  BY <1>9, OneTermUp, SMT
<1> QED BY <1>3, <1>10, Zenon

LEMMA StrikeDue ==
  ASSUME NEW al, NEW bl, NEW x, NEW i, NEW r, NEW m,
         Struck(al, bl, x, i), Summed(Routers, Due(al, r, m))
  PROVE  /\ Summed(Routers, Due(bl, r, m))
         /\ Total(Routers, Due(bl, r, m)) + Awaits(r, al[x][i], m) = Total(Routers, Due(al, r, m))
<1>1. OneList(al, bl, x) /\ i \in 1 .. Len(al[x]) /\ bl[x] = Without(al[x], i)
  BY Zenon DEF Struck
<1>2. al[x] \in Seq(Entries)
  BY <1>1, Zenon DEF OneList, Lists
<1>3. PICK d : d = Awaits(r, al[x][i], m)
  BY Zenon
<1>4. d \in {0, 1}
  BY <1>3, NotesIs, SMT
<1>5. HowMany(Without(al[x], i), EntriesBy(m, r)) + One(al[x][i] \in EntriesBy(m, r)) = HowMany(al[x], EntriesBy(m, r))
  BY <1>1, <1>2, HowManyWithout, Zenon
<1>6. One(al[x][i] \in EntriesBy(m, r)) = d
  <2>1. al[x][i] \in Entries
    BY <1>1, <1>2, SMT
  <2> QED BY <1>3, <2>1, EntrySets, Zenon
<1>7. HowMany(bl[x], EntriesBy(m, r)) + d = HowMany(al[x], EntriesBy(m, r))
  BY <1>1, <1>5, <1>6, Zenon
<1>8. /\ Differs(Routers, x, Due(al, r, m), Due(bl, r, m), d)
      /\ Due(al, r, m)[x] = HowMany(al[x], EntriesBy(m, r))
      /\ Due(bl, r, m)[x] = HowMany(bl[x], EntriesBy(m, r))
  <2>1. OneList(al, bl, x)
    BY <1>1, Zenon
  <2> QED BY <1>4, <2>1, DueDiffers, SMT
<1>9. Shrinks(Routers, x, Due(al, r, m), Due(bl, r, m), d)
  BY <1>7, <1>8, SMT DEF Shrinks
<1>10. /\ Summed(Routers, Due(bl, r, m))
       /\ Total(Routers, Due(bl, r, m)) + d = Total(Routers, Due(al, r, m))
  BY <1>9, OneTermDown, SMT
<1> QED BY <1>3, <1>10, Zenon

LEMMA NoteKept ==
  ASSUME NEW al, NEW bl, NEW x, NEW e, NEW r \in Routers, NEW m, Noted(al, bl, x, e)
  PROVE  HowMany(bl[r], EntriesOf(m)) = HowMany(al[r], EntriesOf(m)) + Notes(x, r, e, m)
<1>1. OneList(al, bl, x) /\ e \in Entries /\ bl[x] = Append(al[x], e)
  BY Zenon DEF Noted
<1>2. al[r] \in Seq(Entries) /\ (x # r => bl[r] = al[r])
  BY <1>1, Zenon DEF OneList, Lists
<1>3. CASE x = r
  <2>1. HowMany(Append(al[r], e), EntriesOf(m)) = HowMany(al[r], EntriesOf(m)) + One(e \in EntriesOf(m))
    BY <1>1, <1>2, HowManyAppend, Zenon
  <2>2. One(e \in EntriesOf(m)) = Notes(x, r, e, m)
    BY <1>1, <1>3, EntrySets, NotesIs, SMT
  <2> QED BY <1>1, <1>3, <2>1, <2>2, Zenon
<1>4. CASE x # r
  <2>1. HowMany(al[r], EntriesOf(m)) \in Nat
    BY <1>2, HowManyIs, Zenon
  <2>2. Notes(x, r, e, m) = 0
    BY <1>4, NotesIs, SMT
  <2> QED BY <1>2, <1>4, <2>1, <2>2, SMT
<1> QED BY <1>3, <1>4, Zenon

LEMMA StrikeKept ==
  ASSUME NEW al, NEW bl, NEW x, NEW i, NEW r \in Routers, NEW m, Struck(al, bl, x, i)
  PROVE  HowMany(bl[r], EntriesOf(m)) + Notes(x, r, al[x][i], m) = HowMany(al[r], EntriesOf(m))
<1>1. OneList(al, bl, x) /\ i \in 1 .. Len(al[x]) /\ bl[x] = Without(al[x], i)
  BY Zenon DEF Struck
<1>2. al[r] \in Seq(Entries) /\ (x # r => bl[r] = al[r])
  BY <1>1, Zenon DEF OneList, Lists
<1>3. CASE x = r
  <2>1. HowMany(Without(al[r], i), EntriesOf(m)) + One(al[r][i] \in EntriesOf(m)) = HowMany(al[r], EntriesOf(m))
    BY <1>1, <1>2, <1>3, HowManyWithout, Zenon
  <2>2. al[r][i] \in Entries
    BY <1>1, <1>2, <1>3, SMT
  <2>3. One(al[r][i] \in EntriesOf(m)) = Notes(x, r, al[x][i], m)
    BY <1>3, <2>2, EntrySets, NotesIs, SMT
  <2> QED BY <1>1, <1>3, <2>1, <2>3, Zenon
<1>4. CASE x # r
  <2>1. HowMany(al[r], EntriesOf(m)) \in Nat
    BY <1>2, HowManyIs, Zenon
  <2>2. Notes(x, r, al[x][i], m) = 0
    BY <1>4, NotesIs, SMT
  <2> QED BY <1>2, <1>4, <2>1, <2>2, SMT
<1> QED BY <1>3, <1>4, Zenon


---------------------------------------------------------------------------
(* How far each part of a step puts the books off *)

LEMMA SumsAre ==
  ASSUME NEW q, NEW hd, NEW al \in Lists, NEW r \in Routers, NEW m, Sums(q, hd, al, r, m)
  PROVE  /\ Kept(al, r, m) \in Nat /\ Out(q, r, m) \in Nat
         /\ Coming(al, r, m) \in Nat /\ Pending(q, hd, r, m) \in Nat
         /\ Summed(Channels, Load(q, r, m)) /\ Summed(Channels, Open(q, hd, r, m))
         /\ Summed(Routers, Due(al, r, m))
<1>1. /\ Summed(Channels, Load(q, r, m)) /\ Summed(Channels, Open(q, hd, r, m))
      /\ Summed(Routers, Due(al, r, m))
  BY Zenon DEF Sums
<1>2. al[r] \in Seq(Entries)
  BY Zenon DEF Lists
<1>3. Kept(al, r, m) \in Nat
  BY <1>2, HowManyIs, Zenon DEF Kept
<1> QED BY <1>1, <1>3, SummedIs, Zenon DEF Out, Coming, Pending

LEMMA PushOff ==
  ASSUME NEW q \in Queues, NEW hd, NEW al \in Lists, NEW c \in Tallies,
         NEW r \in Routers, NEW m, NEW x, NEW y, NEW l \in Channels, NEW p \in Packets,
         Routed(q, hd), OffBy(q, hd, al, c, r, m, x, y)
  PROVE  OffBy(Pushed(q, l, p), hd, al, c, r, m, x + Counts(l, r, p, m), y + Counts(l, r, p, m))
<1>1. PICK t : t = Pushed(q, l, p)
  BY Zenon
<1>2. PICK d : d = Counts(l, r, p, m)
  BY Zenon
<1>3. Sums(q, hd, al, r, m) /\ x \in Int /\ y \in Int
  BY Zenon DEF OffBy
<1>4. /\ Kept(al, r, m) \in Nat /\ Out(q, r, m) \in Nat
      /\ Coming(al, r, m) \in Nat /\ Pending(q, hd, r, m) \in Nat
      /\ Summed(Channels, Load(q, r, m)) /\ Summed(Channels, Open(q, hd, r, m))
      /\ Summed(Routers, Due(al, r, m))
  BY <1>3, SumsAre, Zenon
<1>5. /\ Summed(Channels, Load(Pushed(q, l, p), r, m))
      /\ Out(Pushed(q, l, p), r, m) = Out(q, r, m) + Counts(l, r, p, m)
  BY <1>4, PushLoad, SMT DEF Out
<1>6. /\ Summed(Channels, Open(Pushed(q, l, p), hd, r, m))
      /\ Pending(Pushed(q, l, p), hd, r, m) = Pending(q, hd, r, m) + Counts(l, r, p, m)
  BY <1>4, PushOpen, SMT DEF Pending
<1>7. Sums(t, hd, al, r, m)
  BY <1>1, <1>4, <1>5, <1>6, Zenon DEF Sums
<1>8. d \in {0, 1} /\ c.first \in Nat /\ c.second \in Nat
  BY <1>2, CountsIs, SMT DEF Tallies
<1>9. /\ Kept(al, r, m) + x = Out(q, r, m) + Coming(al, r, m)
      /\ r # Router[To[m]] => c.first + y = c.second + Coming(al, r, m) + Pending(q, hd, r, m)
  BY Zenon DEF OffBy
<1>10. /\ Out(t, r, m) = Out(q, r, m) + d
       /\ Pending(t, hd, r, m) = Pending(q, hd, r, m) + d
  BY <1>1, <1>2, <1>5, <1>6, Zenon
<1>11. /\ x + d \in Int /\ y + d \in Int
       /\ Kept(al, r, m) + (x + d) = Out(t, r, m) + Coming(al, r, m)
       /\ r # Router[To[m]] => c.first + (y + d) = c.second + Coming(al, r, m) + Pending(t, hd, r, m)
  BY <1>3, <1>4, <1>8, <1>9, <1>10, SMT
<1>12. OffBy(t, hd, al, c, r, m, x + d, y + d)
  BY <1>7, <1>11, Zenon DEF OffBy
<1> QED BY <1>1, <1>2, <1>12, Zenon

LEMMA PopOff ==
  ASSUME NEW q \in Queues, NEW hd, NEW he, NEW al \in Lists, NEW c \in Tallies,
         NEW r \in Routers, NEW m, NEW x, NEW y, NEW l \in Channels,
         Routed(q, hd), hd[l] # Unrouted, he[l] = Unrouted,
         Reheads(hd, he, l),
         OffBy(q, hd, al, c, r, m, x, y)
  PROVE  OffBy(Popped(q, l), he, al, c, r, m,
               x - Counts(l, r, Head(q[l]), m), y - Closes(l, r, Head(q[l]), m))
<1>1. PICK t : t = Popped(q, l)
  BY Zenon
<1>2. PICK d : d = Counts(l, r, Head(q[l]), m)
  BY Zenon
<1>3. PICK f : f = Closes(l, r, Head(q[l]), m)
  BY Zenon
<1>4. Sums(q, hd, al, r, m) /\ x \in Int /\ y \in Int
  BY Zenon DEF OffBy
<1>5. /\ Kept(al, r, m) \in Nat /\ Out(q, r, m) \in Nat
      /\ Coming(al, r, m) \in Nat /\ Pending(q, hd, r, m) \in Nat
      /\ Summed(Channels, Load(q, r, m)) /\ Summed(Channels, Open(q, hd, r, m))
      /\ Summed(Routers, Due(al, r, m))
  BY <1>4, SumsAre, Zenon
<1>6. q[l] # <<>>
  BY Zenon DEF Routed
<1>7. /\ Summed(Channels, Load(Popped(q, l), r, m))
      /\ Out(Popped(q, l), r, m) + Counts(l, r, Head(q[l]), m) = Out(q, r, m)
  BY <1>5, <1>6, PopLoad, SMT DEF Out
<1>8. /\ Summed(Channels, Open(Popped(q, l), he, r, m))
      /\ Pending(Popped(q, l), he, r, m) + Closes(l, r, Head(q[l]), m) = Pending(q, hd, r, m)
  BY <1>5, PopOpen, SMT DEF Pending
<1>9. Sums(t, he, al, r, m)
  BY <1>1, <1>5, <1>7, <1>8, Zenon DEF Sums
<1>10. d \in {0, 1} /\ f \in {0, 1} /\ c.first \in Nat /\ c.second \in Nat
  BY <1>2, <1>3, CountsIs, TakesIs, SMT DEF Tallies
<1>11. /\ Kept(al, r, m) + x = Out(q, r, m) + Coming(al, r, m)
       /\ r # Router[To[m]] => c.first + y = c.second + Coming(al, r, m) + Pending(q, hd, r, m)
  BY Zenon DEF OffBy
<1>12. /\ Out(t, r, m) + d = Out(q, r, m)
       /\ Pending(t, he, r, m) + f = Pending(q, hd, r, m)
  BY <1>1, <1>2, <1>3, <1>7, <1>8, Zenon
<1>13. Out(t, r, m) \in Nat /\ Pending(t, he, r, m) \in Nat
  BY <1>9, SumsAre, Zenon
<1>14. /\ x - d \in Int /\ y - f \in Int
       /\ Kept(al, r, m) + (x - d) = Out(t, r, m) + Coming(al, r, m)
       /\ r # Router[To[m]] => c.first + (y - f) = c.second + Coming(al, r, m) + Pending(t, he, r, m)
  BY <1>4, <1>5, <1>10, <1>11, <1>12, <1>13, SMT
<1>15. OffBy(t, he, al, c, r, m, x - d, y - f)
  BY <1>9, <1>14, Zenon DEF OffBy
<1> QED BY <1>1, <1>2, <1>3, <1>15, Zenon

\* The channels of ACKs carry nothing else; and the counts that router r has
\* of message m after packet p was routed at the end of channel l.
OfKind(p, l) == IF p.ack THEN l.vc = AckVC ELSE l.vc # AckVC
Tally(l, r, p, m, c) == IF l.to # r \/ p.msg # m THEN c
                        ELSE IF p.ack THEN [c EXCEPT !.second = @ + 1]
                                      ELSE [c EXCEPT !.first = @ + 1]

LEMMA TallyIs ==
  ASSUME NEW l, NEW r, NEW p, NEW m, NEW c \in Tallies, OfKind(p, l)
  PROVE  /\ Tally(l, r, p, m, c) \in Tallies
         /\ l.vc # AckVC => /\ Tally(l, r, p, m, c).first = c.first + Takes(l, r, p, m)
                            /\ Tally(l, r, p, m, c).second = c.second
         /\ l.vc = AckVC => /\ Tally(l, r, p, m, c).first = c.first
                            /\ Tally(l, r, p, m, c).second = c.second + Takes(l, r, p, m)
BY SMT DEF Tally, Tallies, OfKind, Takes, One

LEMMA RouteOff ==
  ASSUME NEW q \in Queues, NEW hd, NEW he, NEW al \in Lists, NEW c \in Tallies,
         NEW r \in Routers, NEW m, NEW x, NEW y, NEW l \in Channels,
         Routed(q, hd), q[l] # <<>>, hd[l] = Unrouted, he[l] # Unrouted,
         Reheads(hd, he, l),
         OfKind(Head(q[l]), l), OffBy(q, hd, al, c, r, m, x, y)
  PROVE  /\ OffBy(q, he, al, Tally(l, r, Head(q[l]), m, c), r, m, x, y)
         /\ Tally(l, r, Head(q[l]), m, c) \in Tallies
<1>1. Sums(q, hd, al, r, m) /\ x \in Int /\ y \in Int
  BY Zenon DEF OffBy
<1>2. /\ Kept(al, r, m) \in Nat /\ Out(q, r, m) \in Nat
      /\ Coming(al, r, m) \in Nat /\ Pending(q, hd, r, m) \in Nat
      /\ Summed(Channels, Load(q, r, m)) /\ Summed(Channels, Open(q, hd, r, m))
      /\ Summed(Routers, Due(al, r, m))
  BY <1>1, SumsAre, Zenon
<1>3. PICK d : d = Takes(l, r, Head(q[l]), m)
  BY Zenon
<1>4. /\ Summed(Channels, Open(q, he, r, m))
      /\ l.vc # AckVC => Pending(q, he, r, m) = Pending(q, hd, r, m) + d
      /\ l.vc = AckVC => Pending(q, he, r, m) + d = Pending(q, hd, r, m)
  <2>1. /\ Summed(Channels, Open(q, he, r, m))
        /\ l.vc # AckVC =>
              Total(Channels, Open(q, he, r, m))
                = Total(Channels, Open(q, hd, r, m)) + Takes(l, r, Head(q[l]), m)
        /\ l.vc = AckVC =>
              Total(Channels, Open(q, he, r, m)) + Takes(l, r, Head(q[l]), m)
                = Total(Channels, Open(q, hd, r, m))
    <3>1. Summed(Channels, Open(q, hd, r, m))
      BY <1>2, Zenon
    <3> QED BY <3>1, RouteOpen, SMT
  <2> QED BY <1>3, <2>1, Zenon DEF Pending
<1>5. Sums(q, he, al, r, m)
  BY <1>2, <1>4, Zenon DEF Sums
<1>6. Pending(q, he, r, m) \in Nat
  BY <1>5, SumsAre, Zenon
<1>7. PICK k : k = Tally(l, r, Head(q[l]), m, c)
  BY Zenon
<1>8. d \in Nat
  <2>1. d \in {0, 1}
    BY <1>3, TakesIs, SMT
  <2> QED BY <2>1, SMT
<1>9. /\ k \in Tallies
      /\ l.vc # AckVC => k.first = c.first + d /\ k.second = c.second
      /\ l.vc = AckVC => k.first = c.first /\ k.second = c.second + d
  BY <1>3, <1>7, TallyIs, SMT
<1>10. /\ Kept(al, r, m) + x = Out(q, r, m) + Coming(al, r, m)
       /\ r # Router[To[m]] => c.first + y = c.second + Coming(al, r, m) + Pending(q, hd, r, m)
  BY Zenon DEF OffBy
<1>11. c.first \in Nat /\ c.second \in Nat
  BY SMT DEF Tallies
<1>12. /\ Coming(al, r, m) \in Nat /\ Pending(q, he, r, m) \in Nat /\ Pending(q, hd, r, m) \in Nat
       /\ d \in Nat /\ y \in Int /\ c.first \in Nat /\ c.second \in Nat
       /\ r # Router[To[m]] => c.first + y = c.second + Coming(al, r, m) + Pending(q, hd, r, m)
  BY <1>1, <1>2, <1>6, <1>8, <1>10, <1>11, Zenon
<1>13. r # Router[To[m]] => k.first + y = k.second + Coming(al, r, m) + Pending(q, he, r, m)
  <2>1. CASE l.vc = AckVC
    <3>1. /\ k.first = c.first /\ k.second = c.second + d
          /\ Pending(q, he, r, m) + d = Pending(q, hd, r, m)
      BY <1>4, <1>9, <2>1, Zenon
    <3> QED BY <1>12, <3>1, SMT
  <2>2. CASE l.vc # AckVC
    <3>1. /\ k.first = c.first + d /\ k.second = c.second
          /\ Pending(q, he, r, m) = Pending(q, hd, r, m) + d
      BY <1>4, <1>9, <2>2, Zenon
    <3>2. ASSUME r # Router[To[m]]
          PROVE  (c.first + d) + y = c.second + Coming(al, r, m) + (Pending(q, hd, r, m) + d)
      <4>1. PICK a \in Nat : a = c.first
        BY <1>12, Zenon
      <4>2. PICK b \in Nat : b = c.second
        BY <1>12, Zenon
      <4>3. PICK e \in Nat : e = Coming(al, r, m)
        BY <1>12, Zenon
      <4>4. PICK o \in Nat : o = Pending(q, hd, r, m)
        BY <1>12, Zenon
      <4>5. a + y = b + e + o
        BY <1>12, <3>2, <4>1, <4>2, <4>3, <4>4, Zenon
      <4>6. (a + d) + y = b + e + (o + d)
        BY <1>12, <4>5, SMT
      <4> QED BY <4>1, <4>2, <4>3, <4>4, <4>6, Zenon
    <3> QED BY <3>1, <3>2, Zenon
  <2> QED BY <2>1, <2>2, Zenon
<1>14. OffBy(q, he, al, k, r, m, x, y)
  BY <1>1, <1>5, <1>10, <1>13, Zenon DEF OffBy
<1> QED BY <1>9, <1>7, <1>14, Zenon

LEMMA NoteOff ==
  ASSUME NEW q, NEW hd, NEW al, NEW bl, NEW c \in Tallies, NEW r \in Routers, NEW m,
         NEW x, NEW y, NEW z, NEW e,
         Noted(al, bl, z, e), OffBy(q, hd, al, c, r, m, x, y)
  PROVE  OffBy(q, hd, bl, c, r, m, x + Awaits(r, e, m) - Notes(z, r, e, m), y + Awaits(r, e, m))
<1>1. Sums(q, hd, al, r, m) /\ x \in Int /\ y \in Int /\ al \in Lists /\ bl \in Lists
  BY Zenon DEF OffBy, Noted, OneList
<1>2. /\ Kept(al, r, m) \in Nat /\ Out(q, r, m) \in Nat
      /\ Coming(al, r, m) \in Nat /\ Pending(q, hd, r, m) \in Nat
      /\ Summed(Channels, Load(q, r, m)) /\ Summed(Channels, Open(q, hd, r, m))
      /\ Summed(Routers, Due(al, r, m))
  BY <1>1, SumsAre, Zenon
<1>3. PICK d : d = Awaits(r, e, m)
  BY Zenon
<1>4. PICK f : f = Notes(z, r, e, m)
  BY Zenon
<1>5. Summed(Routers, Due(bl, r, m)) /\ Coming(bl, r, m) = Coming(al, r, m) + d
  BY <1>2, <1>3, NoteDue, SMT DEF Coming
<1>6. Kept(bl, r, m) = Kept(al, r, m) + f
  BY <1>4, NoteKept, SMT DEF Kept
<1>7. Sums(q, hd, bl, r, m)
  BY <1>2, <1>5, Zenon DEF Sums
<1>8. d \in {0, 1} /\ f \in {0, 1} /\ c.first \in Nat /\ c.second \in Nat
  BY <1>3, <1>4, NotesIs, SMT DEF Tallies
<1>9. /\ Kept(al, r, m) + x = Out(q, r, m) + Coming(al, r, m)
      /\ r # Router[To[m]] => c.first + y = c.second + Coming(al, r, m) + Pending(q, hd, r, m)
  BY Zenon DEF OffBy
<1>10. /\ x + d - f \in Int /\ y + d \in Int
       /\ Kept(bl, r, m) + (x + d - f) = Out(q, r, m) + Coming(bl, r, m)
       /\ r # Router[To[m]] => c.first + (y + d) = c.second + Coming(bl, r, m) + Pending(q, hd, r, m)
  <2>1. x + d - f \in Int /\ y + d \in Int
    BY <1>1, <1>8, SMT
  <2>2. Kept(bl, r, m) + (x + d - f) = Out(q, r, m) + Coming(bl, r, m)
    BY <1>1, <1>2, <1>5, <1>6, <1>8, <1>9, SMT
  <2>3. r # Router[To[m]] => c.first + (y + d) = c.second + Coming(bl, r, m) + Pending(q, hd, r, m)
    BY <1>1, <1>2, <1>5, <1>8, <1>9, SMT
  <2> QED BY <2>1, <2>2, <2>3, Zenon
<1>11. OffBy(q, hd, bl, c, r, m, x + d - f, y + d)
  BY <1>7, <1>10, Zenon DEF OffBy
<1> QED BY <1>3, <1>4, <1>11, Zenon

LEMMA StrikeOff ==
  ASSUME NEW q, NEW hd, NEW al, NEW bl, NEW c \in Tallies, NEW r \in Routers, NEW m,
         NEW x, NEW y, NEW z, NEW i,
         Struck(al, bl, z, i), OffBy(q, hd, al, c, r, m, x, y)
  PROVE  OffBy(q, hd, bl, c, r, m, x + Notes(z, r, al[z][i], m) - Awaits(r, al[z][i], m),
                                   y - Awaits(r, al[z][i], m))
<1>1. Sums(q, hd, al, r, m) /\ x \in Int /\ y \in Int /\ al \in Lists /\ bl \in Lists
  BY Zenon DEF OffBy, Struck, OneList
<1>2. /\ Kept(al, r, m) \in Nat /\ Out(q, r, m) \in Nat
      /\ Coming(al, r, m) \in Nat /\ Pending(q, hd, r, m) \in Nat
      /\ Summed(Channels, Load(q, r, m)) /\ Summed(Channels, Open(q, hd, r, m))
      /\ Summed(Routers, Due(al, r, m))
  BY <1>1, SumsAre, Zenon
<1>3. PICK d : d = Awaits(r, al[z][i], m)
  BY Zenon
<1>4. PICK f : f = Notes(z, r, al[z][i], m)
  BY Zenon
<1>5. Summed(Routers, Due(bl, r, m)) /\ Coming(bl, r, m) + d = Coming(al, r, m)
  BY <1>2, <1>3, StrikeDue, SMT DEF Coming
<1>6. Kept(bl, r, m) + f = Kept(al, r, m)
  BY <1>4, StrikeKept, SMT DEF Kept
<1>7. Sums(q, hd, bl, r, m)
  BY <1>2, <1>5, Zenon DEF Sums
<1>8. Kept(bl, r, m) \in Nat /\ Coming(bl, r, m) \in Nat
  BY <1>1, <1>7, SumsAre, Zenon
<1>9. d \in {0, 1} /\ f \in {0, 1} /\ c.first \in Nat /\ c.second \in Nat
  BY <1>3, <1>4, NotesIs, SMT DEF Tallies
<1>10. /\ Kept(al, r, m) + x = Out(q, r, m) + Coming(al, r, m)
       /\ r # Router[To[m]] => c.first + y = c.second + Coming(al, r, m) + Pending(q, hd, r, m)
  BY Zenon DEF OffBy
<1>11. /\ x + f - d \in Int /\ y - d \in Int
       /\ Kept(bl, r, m) + (x + f - d) = Out(q, r, m) + Coming(bl, r, m)
       /\ r # Router[To[m]] => c.first + (y - d) = c.second + Coming(bl, r, m) + Pending(q, hd, r, m)
  <2>1. x + f - d \in Int /\ y - d \in Int
    BY <1>1, <1>9, SMT
  <2>2. Kept(bl, r, m) + (x + f - d) = Out(q, r, m) + Coming(bl, r, m)
    BY <1>1, <1>2, <1>5, <1>6, <1>8, <1>9, <1>10, SMT
  <2>3. r # Router[To[m]] => c.first + (y - d) = c.second + Coming(bl, r, m) + Pending(q, hd, r, m)
    BY <1>1, <1>2, <1>5, <1>8, <1>9, <1>10, SMT
  <2> QED BY <2>1, <2>2, <2>3, Zenon
<1>12. OffBy(q, hd, bl, c, r, m, x + f - d, y - d)
  BY <1>7, <1>11, Zenon DEF OffBy
<1> QED BY <1>3, <1>4, <1>12, Zenon


---------------------------------------------------------------------------
(* The shape of the channels and the tables after each part of a step *)

LEMMA CarriedIs ==
  ASSUME NEW l, NEW p \in Carried(l)
  PROVE  /\ p \in Packets /\ p.msg \in Messages /\ p.id \in Nat /\ p.id < Length[p.msg]
         /\ OfKind(p, l) /\ p.ack \in BOOLEAN
         /\ l.vc = AckVC <=> p.ack = TRUE
BY SMT DEF Carried, OfKind, Packets

LEMMA FitIs ==
  ASSUME NEW q, NEW hd, Fit(q, hd)
  PROVE  /\ q \in Queues /\ Routed(q, hd) /\ DOMAIN hd = Channels
         /\ \A l \in Channels : q[l] \in Seq(Carried(l))
<1>1. /\ q \in Queues /\ DOMAIN hd = Channels
      /\ \A l \in Channels : q[l] \in Seq(Carried(l)) /\ HeadFits(q, hd, l)
  BY Zenon DEF Fit
<1>2. Routed(q, hd)
  BY <1>1, Zenon DEF Routed, HeadFits
<1> QED BY <1>1, <1>2, Zenon

LEMMA AppendIs ==
  ASSUME NEW S, NEW s \in Seq(S), NEW p \in S
  PROVE  /\ Append(s, p) \in Seq(S) /\ Append(s, p) # <<>>
         /\ s # <<>> => Head(Append(s, p)) = Head(s)
BY SMTT(20)

LEMMA PushFits ==
  ASSUME NEW q, NEW hd, NEW l \in Channels, NEW p \in Carried(l), Fit(q, hd)
  PROVE  Fit(Pushed(q, l, p), hd)
<1>1. PICK t : t = Pushed(q, l, p)
  BY Zenon
<1>2. /\ q \in Queues /\ DOMAIN hd = Channels
      /\ \A g \in Channels : q[g] \in Seq(Carried(g)) /\ HeadFits(q, hd, g)
  BY Zenon DEF Fit
<1>3. /\ t \in Queues /\ t[l] = Append(q[l], p)
      /\ \A g \in Channels \ {l} : t[g] = q[g]
  <2>1. p \in Packets
    BY CarriedIs, Zenon
  <2> QED BY <1>1, <1>2, <2>1, PushIs, Zenon
<1>4. q[l] \in Seq(Carried(l)) /\ HeadFits(q, hd, l)
  BY <1>2, Zenon
<1>5. t[l] \in Seq(Carried(l)) /\ t[l] # <<>> /\ (q[l] # <<>> => Head(t[l]) = Head(q[l]))
  <2>1. PICK s \in Seq(Carried(l)) : s = q[l]
    BY <1>4, Zenon
  <2>2. Append(s, p) \in Seq(Carried(l)) /\ Append(s, p) # <<>> /\ (s # <<>> => Head(Append(s, p)) = Head(s))
    BY AppendIs, Zenon
  <2> QED BY <1>3, <2>1, <2>2, Zenon
<1>6. HeadFits(t, hd, l)
  BY <1>4, <1>5, Zenon DEF HeadFits
<1>7. \A g \in Channels \ {l} : t[g] \in Seq(Carried(g)) /\ HeadFits(t, hd, g)
  BY <1>2, <1>3, Zenon DEF HeadFits
<1>8. Fit(t, hd)
  BY <1>2, <1>3, <1>5, <1>6, <1>7, Zenon DEF Fit
<1> QED BY <1>1, <1>8, Zenon

LEMMA PopFits ==
  ASSUME NEW q, NEW hd, NEW he, NEW l \in Channels, Fit(q, hd), q[l] # <<>>,
         DOMAIN he = Channels, he[l] = Unrouted, Reheads(hd, he, l)
  PROVE  Fit(Popped(q, l), he)
<1>1. PICK t : t = Popped(q, l)
  BY Zenon
<1>2. /\ q \in Queues
      /\ \A g \in Channels : q[g] \in Seq(Carried(g)) /\ HeadFits(q, hd, g)
  BY Zenon DEF Fit
<1>3. /\ t \in Queues /\ t[l] = Tail(q[l])
      /\ \A g \in Channels \ {l} : t[g] = q[g] /\ he[g] = hd[g]
  BY <1>1, <1>2, PopIs, Zenon DEF Reheads
<1>4. q[l] \in Seq(Carried(l))
  BY <1>2, Zenon
<1>5. t[l] \in Seq(Carried(l))
  BY <1>3, <1>4, SMT
<1>6. HeadFits(t, he, l)
  BY Zenon DEF HeadFits
<1>7. \A g \in Channels \ {l} : t[g] \in Seq(Carried(g)) /\ HeadFits(t, he, g)
  BY <1>2, <1>3, Zenon DEF HeadFits
<1>8. Fit(t, he)
  BY <1>2, <1>3, <1>5, <1>6, <1>7, Zenon DEF Fit
<1> QED BY <1>1, <1>8, Zenon

\* The hop a packet may be given at the end of channel l.
GoodHop(l, p, hop) ==
  IF l.vc = AckVC THEN hop = AckHop ELSE HopFits(l.to, p.msg, hop)

LEMMA RouteFits ==
  ASSUME NEW q, NEW hd, NEW he, NEW l \in Channels, Fit(q, hd), q[l] # <<>>, l.to \in Routers,
         DOMAIN he = Channels, GoodHop(l, Head(q[l]), he[l]), Reheads(hd, he, l)
  PROVE  Fit(q, he)
<1>1. /\ q \in Queues
      /\ \A g \in Channels : q[g] \in Seq(Carried(g)) /\ HeadFits(q, hd, g)
  BY Zenon DEF Fit
<1>2. \A g \in Channels \ {l} : HeadFits(q, he, g)
  BY <1>1, Zenon DEF HeadFits, Reheads
<1>3. HeadFits(q, he, l)
  BY Zenon DEF HeadFits, GoodHop
<1> QED BY <1>1, <1>2, <1>3, Zenon DEF Fit

LEMMA GoodHopIsRouted ==
  ASSUME NEW l \in Channels, NEW p \in Carried(l), NEW hop, l.to \in Routers, GoodHop(l, p, hop)
  PROVE  hop # Unrouted
<1>1. CASE l.vc = AckVC
  <2>1. hop = AckHop
    BY <1>1, Zenon DEF GoodHop
  <2>2. AckHop.vc = AckVC /\ Unrouted.vc = 0
    BY Zenon DEF AckHop, Unrouted, Hop
  <2>3. AckVC # 0
    BY SMT DEF AckVC
  <2> QED BY <2>1, <2>2, <2>3, Zenon
<1>2. CASE l.vc # AckVC
  <2>1. HopFits(l.to, p.msg, hop) /\ p.msg \in Messages
    BY <1>2, CarriedIs, Zenon DEF GoodHop
  <2> QED BY <2>1, HopsLead, Zenon
<1> QED BY <1>1, <1>2, Zenon

\* What Routes offers; a cached hop is offered only when its count is not 0.
LEMMA RoutesAreGood ==
  ASSUME NEW l \in Channels, NEW p \in Carried(l), NEW hop \in Routes(l, p), l.to \in Routers,
         CountsFit(list_ack_status, map_cached),
         list_ack_status[l.to][p.msg].second <= list_ack_status[l.to][p.msg].first
  PROVE  GoodHop(l, p, hop)
<1>1. p.msg \in Messages /\ OfKind(p, l) /\ p.ack \in BOOLEAN
  BY CarriedIs, Zenon
<1>2. CASE p.ack
  BY <1>1, <1>2, Zenon DEF Routes, OfKind, GoodHop
<1>3. CASE ~p.ack /\ SamePath(l.to, p.msg)
  <2>1. PICK c \in Tallies : c = list_ack_status[l.to][p.msg]
    BY <1>1, Zenon DEF CountsFit
  <2>2. c.second <= c.first /\ c.first # c.second
    BY <1>3, <2>1, Zenon DEF SamePath
  <2>3. c.first > 0
    BY <2>2, SMT DEF Tallies
  <2>4. HopFits(l.to, p.msg, map_cached[l.to][p.msg])
    BY <1>1, <2>1, <2>3, Zenon DEF CountsFit, CachedFits
  <2>5. hop = map_cached[l.to][p.msg] /\ l.vc # AckVC
    BY <1>1, <1>3, Zenon DEF Routes, OfKind
  <2> QED BY <2>4, <2>5, Zenon DEF GoodHop
<1>4. CASE ~p.ack /\ ~SamePath(l.to, p.msg) /\ Router[To[p.msg]] = l.to
  <2>1. hop = Hop(To[p.msg], l.vc) /\ l.vc # AckVC
    BY <1>1, <1>4, Zenon DEF Routes, OfKind
  <2>2. l.vc \in VCs
    BY <2>1, ChannelKinds, Zenon
  <2>3. HopFits(l.to, p.msg, hop)
    BY <1>4, <2>1, <2>2, Zenon DEF HopFits
  <2> QED BY <2>1, <2>3, Zenon DEF GoodHop
<1>5. CASE ~p.ack /\ ~SamePath(l.to, p.msg) /\ Router[To[p.msg]] # l.to
  <2>1. hop \in Hops[p.msg][l.to] /\ l.vc # AckVC
    BY <1>1, <1>5, Zenon DEF Routes, OfKind
  <2>2. HopFits(l.to, p.msg, hop)
    BY <1>5, <2>1, Zenon DEF HopFits
  <2> QED BY <2>1, <2>2, Zenon DEF GoodHop
<1> QED BY <1>2, <1>3, <1>4, <1>5, Zenon

\* The tables of router r after it routed packet p.
LEMMA CountedFits ==
  ASSUME NEW st, NEW mc, NEW l \in Channels, NEW p \in Carried(l), NEW hop,
         l.to \in Routers, CountsFit(st, mc), GoodHop(l, p, hop)
  PROVE  /\ CountsFit([st EXCEPT ![l.to] = Counted(@, p)], [mc EXCEPT ![l.to] = Cached(@, p, hop)])
         /\ \A r \in Routers, m \in Messages :
              [st EXCEPT ![l.to] = Counted(@, p)][r][m] = Tally(l, r, p, m, st[r][m])
<1>1. /\ p.msg \in Messages /\ OfKind(p, l) /\ p.ack \in BOOLEAN
      /\ (l.vc = AckVC <=> p.ack = TRUE)
  BY CarriedIs, Zenon
<1>2. /\ st \in [Routers -> [Messages -> Tallies]]
      /\ mc \in [Routers -> [Messages -> [to : Routers \union Hosts, vc : Nat]]]
      /\ \A r \in Routers, m \in Messages : CachedFits(st, mc, r, m)
  BY Zenon DEF CountsFit
<1>3. PICK s2 : s2 = [st EXCEPT ![l.to] = Counted(@, p)]
  BY Zenon
<1>4. PICK m2 : m2 = [mc EXCEPT ![l.to] = Cached(@, p, hop)]
  BY Zenon
<1>5. DOMAIN s2 = Routers /\ s2[l.to] = Counted(st[l.to], p) /\ \A r \in Routers \ {l.to} : s2[r] = st[r]
  BY <1>2, <1>3, Zenon
<1>6. DOMAIN m2 = Routers /\ m2[l.to] = Cached(mc[l.to], p, hop) /\ \A r \in Routers \ {l.to} : m2[r] = mc[r]
  BY <1>2, <1>4, Zenon
<1>7. ASSUME NEW m \in Messages
      PROVE  s2[l.to][m] = Tally(l, l.to, p, m, st[l.to][m])
  <2>1. st[l.to] \in [Messages -> Tallies]
    BY <1>2, Zenon
  <2>2. CASE p.msg # m
    BY <1>5, <2>1, <2>2, Zenon DEF Counted, Tally
  <2>3. CASE p.msg = m
    BY <1>5, <2>1, <2>3, SMT DEF Counted, Tally
  <2> QED BY <2>2, <2>3, Zenon
<1>8. \A r \in Routers, m \in Messages : s2[r][m] = Tally(l, r, p, m, st[r][m])
  BY <1>5, <1>7, Zenon DEF Tally
<1>9. ASSUME NEW r \in Routers, NEW m \in Messages
      PROVE  s2[r][m] \in Tallies
  <2>1. st[r][m] \in Tallies
    BY <1>2, Zenon
  <2>2. Tally(l, r, p, m, st[r][m]) \in Tallies
    BY <1>1, <2>1, TallyIs, SMT
  <2> QED BY <1>8, <2>2, Zenon
<1>10. s2 \in [Routers -> [Messages -> Tallies]]
  <2>1. ASSUME NEW r \in Routers
        PROVE  DOMAIN s2[r] = Messages
    <3>1. st[r] \in [Messages -> Tallies]
      BY <1>2, Zenon
    <3> QED BY <1>5, <3>1, Zenon DEF Counted
  <2>2. ASSUME NEW r \in Routers
        PROVE  s2[r] \in [Messages -> Tallies]
    <3>1. DOMAIN s2[r] = Messages /\ \A m \in Messages : s2[r][m] \in Tallies
      BY <1>9, <2>1, Zenon
    <3>2. s2[r] = [m \in Messages |-> s2[r][m]]
      <4>1. \E f : s2[r] = [m \in Messages |-> f[m]]
        <5>1. st[r] \in [Messages -> Tallies]
          BY <1>2, Zenon
        <5> QED BY <1>5, <5>1, SMT DEF Counted
      <4> QED BY <4>1, Zenon
    <3> QED BY <3>1, <3>2, Zenon
  <2> QED BY <1>3, <1>5, <2>2, <1>2, Zenon
<1>11. CASE p.ack
  <2>1. m2 = mc
    BY <1>2, <1>4, <1>11, SMT DEF Cached
  <2>2. ASSUME NEW r \in Routers, NEW m \in Messages
        PROVE  s2[r][m].first = st[r][m].first
    <3>1. st[r][m] \in Tallies
      BY <1>2, Zenon
    <3>2. Tally(l, r, p, m, st[r][m]).first = st[r][m].first
      BY <1>1, <1>11, <3>1, TallyIs, SMT
    <3> QED BY <1>8, <3>2, Zenon
  <2>3. ASSUME NEW r \in Routers, NEW m \in Messages
        PROVE  CachedFits(s2, m2, r, m)
    <3>1. CachedFits(st, mc, r, m)
      BY <1>2, Zenon
    <3>2. s2[r][m].first = st[r][m].first /\ m2[r][m] = mc[r][m]
      BY <2>1, <2>2, Zenon
    <3>3. s2[r][m].first > 0 => HopFits(r, m, mc[r][m])
      BY <3>1, <3>2, Zenon DEF CachedFits
    <3> QED BY <3>2, <3>3, Zenon DEF CachedFits
  <2>4. CountsFit(s2, m2)
    BY <1>2, <1>10, <2>1, <2>3, Zenon DEF CountsFit
  <2> QED BY <1>3, <1>4, <1>8, <2>4, Zenon
<1>12. CASE ~p.ack
  <2>1. HopFits(l.to, p.msg, hop)
    BY <1>1, <1>12, Zenon DEF GoodHop
  <2>2. hop \in [to : Routers \union Hosts, vc : Nat]
    BY <1>1, <2>1, HopsLead, Zenon
  <2>3. m2 \in [Routers -> [Messages -> [to : Routers \union Hosts, vc : Nat]]]
    <3>1. mc[l.to] \in [Messages -> [to : Routers \union Hosts, vc : Nat]]
      BY <1>2, Zenon
    <3>2. Cached(mc[l.to], p, hop) \in [Messages -> [to : Routers \union Hosts, vc : Nat]]
      BY <1>1, <2>2, <3>1, Zenon DEF Cached
    <3> QED BY <1>2, <1>4, <3>2, Zenon
  <2>4. ASSUME NEW r \in Routers, NEW m \in Messages
        PROVE  CachedFits(s2, m2, r, m)
    <3>1. CASE r = l.to /\ m = p.msg
      <4>1. mc[l.to] \in [Messages -> [to : Routers \union Hosts, vc : Nat]]
        BY <1>2, Zenon
      <4>2. m2[r][m] = hop
        BY <1>6, <1>12, <3>1, <4>1, Zenon DEF Cached
      <4> QED BY <2>1, <3>1, <4>2, Zenon DEF CachedFits
    <3>2. CASE ~(r = l.to /\ m = p.msg)
      <4>1. mc[r] \in [Messages -> [to : Routers \union Hosts, vc : Nat]]
        BY <1>2, Zenon
      <4>2. m2[r][m] = mc[r][m]
        BY <1>6, <1>12, <3>2, <4>1, Zenon DEF Cached
      <4>3. s2[r][m] = st[r][m]
        BY <1>8, <3>2, Zenon DEF Tally
      <4> QED BY <1>2, <4>2, <4>3, Zenon DEF CachedFits
    <3> QED BY <3>1, <3>2, Zenon
  <2> QED BY <1>3, <1>4, <1>8, <1>10, <2>3, <2>4, Zenon DEF CountsFit
<1> QED BY <1>11, <1>12, Zenon


---------------------------------------------------------------------------
(* What the books say, and what is left of them after a packet was taken   *)

\* An ACK is on its way to a router only if the router waits for it.
LEMMA AcksAreExpected ==
  ASSUME ChannelsFit, TablesFit, Books,
         NEW l \in Channels, l.vc = AckVC, NEW i \in 1 .. Len(queue[l]), NEW m, m = queue[l][i].msg
  PROVE  /\ m \in Messages /\ l.to \in Routers /\ l.to # Router[To[m]]
         /\ \E k \in 1 .. Len(ack_list[l.to]) : ack_list[l.to][k].msg = m
<1>1. l.to \in Routers /\ On(l, l.to)
  BY ChannelKinds, Zenon DEF On
<1>2. queue \in Queues /\ queue[l] \in Seq(Carried(l))
  BY FitIs, Zenon DEF ChannelsFit
<1>3. queue[l][i] \in Carried(l)
  BY <1>2, SMT
<1>4. queue[l][i] \in Packets /\ m \in Messages
  BY <1>3, CarriedIs, Zenon
<1>5. queue[l][i] \in PacketsOf(m)
  BY <1>4, Zenon DEF PacketsOf
<1>6. queue[l] \in Seq(Packets)
  BY <1>2, CountedInQueues, Zenon
<1>7. HowMany(queue[l], PacketsOf(m)) # 0
  BY <1>5, <1>6, HowManyIs, Zenon
<1>8. /\ OffBy(queue, head, ack_list, list_ack_status[l.to][m], l.to, m, 0, 0)
      /\ l.to = Router[To[m]] => Kept(ack_list, l.to, m) = 0
  BY <1>1, <1>4, Zenon DEF Books, Balanced
<1>9. /\ Sums(queue, head, ack_list, l.to, m)
      /\ Kept(ack_list, l.to, m) + 0 = Out(queue, l.to, m) + Coming(ack_list, l.to, m)
  BY <1>8, Zenon DEF OffBy
<1>10. ack_list \in Lists
  BY Zenon DEF TablesFit, ListsFit
<1>11. /\ Kept(ack_list, l.to, m) \in Nat /\ Out(queue, l.to, m) \in Nat
       /\ Coming(ack_list, l.to, m) \in Nat /\ Summed(Channels, Load(queue, l.to, m))
  BY <1>1, <1>9, <1>10, SumsAre, Zenon
<1>12. Out(queue, l.to, m) # 0
  <2>1. LoadTerms(Load(queue, l.to, m), queue, l.to, m)
    BY <1>2, LoadIs, Zenon
  <2>2. Load(queue, l.to, m)[l] # 0
    BY <1>1, <1>7, <2>1, Zenon DEF LoadTerms
  <2> QED BY <1>11, <2>2, SummedIs, Zenon DEF Out
<1>13. Kept(ack_list, l.to, m) # 0
  BY <1>9, <1>11, <1>12, SMT
<1>14. ack_list[l.to] \in Seq(Entries)
  BY <1>1, <1>10, Zenon DEF Lists
<1>15. PICK k \in 1 .. Len(ack_list[l.to]) : ack_list[l.to][k] \in EntriesOf(m)
  BY <1>13, <1>14, HowManyIs, Zenon DEF Kept
<1>16. ack_list[l.to][k].msg = m
  BY <1>15, Zenon DEF EntriesOf
<1> QED BY <1>1, <1>4, <1>8, <1>13, <1>16, Zenon

LEMMA AcksAtMostPackets ==
  ASSUME TablesFit, Books, NEW r \in Routers, NEW m \in Messages
  PROVE  list_ack_status[r][m].second <= list_ack_status[r][m].first
<1>1. PICK c \in Tallies : c = list_ack_status[r][m]
  BY Zenon DEF TablesFit, CountsFit
<1>2. c.first \in Nat /\ c.second \in Nat
  BY SMT DEF Tallies
<1>3. /\ OffBy(queue, head, ack_list, c, r, m, 0, 0)
      /\ r = Router[To[m]] => c.second = 0
  BY <1>1, Zenon DEF Books, Balanced
<1>4. CASE r = Router[To[m]]
  BY <1>1, <1>2, <1>3, <1>4, SMT
<1>5. CASE r # Router[To[m]]
  <2>1. /\ Sums(queue, head, ack_list, r, m)
        /\ c.first + 0 = c.second + Coming(ack_list, r, m) + Pending(queue, head, r, m)
    BY <1>3, <1>5, Zenon DEF OffBy
  <2>2. ack_list \in Lists
    BY Zenon DEF TablesFit, ListsFit
  <2>3. Coming(ack_list, r, m) \in Nat /\ Pending(queue, head, r, m) \in Nat
    BY <2>1, <2>2, SumsAre, Zenon
  <2>4. c.second <= c.first
    BY <1>2, <2>1, <2>3, SMT
  <2> QED BY <1>1, <2>4, Zenon
<1> QED BY <1>4, <1>5, Zenon

\* The packet p is gone from channel l, and the next one may have been routed.
Recvd(l, p, q, he, st, mc) ==
  /\ Fit(q, he) /\ CountsFit(st, mc)
  /\ \A r \in Routers, m \in Messages :
       /\ OffBy(q, he, ack_list, st[r][m], r, m, 0 - Counts(l, r, p, m), 0 - Closes(l, r, p, m))
       /\ r = Router[To[m]] => st[r][m].second = 0

LEMMA PopRecvd ==
  ASSUME ChannelsFit, TablesFit, Books,
         NEW l \in Channels, head[l] # Unrouted, NEW he, he = [head EXCEPT ![l] = Unrouted]
  PROVE  Recvd(l, Head(queue[l]), Popped(queue, l), he, list_ack_status, map_cached)
<1>1. queue \in Queues /\ Routed(queue, head) /\ DOMAIN head = Channels /\ Fit(queue, head)
  BY FitIs, Zenon DEF ChannelsFit
<1>2. queue[l] # <<>>
  BY <1>1, Zenon DEF Routed
<1>3. DOMAIN he = Channels /\ he[l] = Unrouted /\ Reheads(head, he, l)
  BY <1>1, Zenon DEF Reheads
<1>4. Fit(Popped(queue, l), he)
  BY <1>1, <1>2, <1>3, PopFits, Zenon
<1>5. CountsFit(list_ack_status, map_cached) /\ ack_list \in Lists
  BY Zenon DEF TablesFit, ListsFit
<1>6. ASSUME NEW r \in Routers, NEW m \in Messages
      PROVE  /\ OffBy(Popped(queue, l), he, ack_list, list_ack_status[r][m], r, m,
                      0 - Counts(l, r, Head(queue[l]), m), 0 - Closes(l, r, Head(queue[l]), m))
             /\ r = Router[To[m]] => list_ack_status[r][m].second = 0
  <2>1. PICK c \in Tallies : c = list_ack_status[r][m]
    BY <1>5, Zenon DEF CountsFit
  <2>2. /\ OffBy(queue, head, ack_list, c, r, m, 0, 0)
        /\ r = Router[To[m]] => c.second = 0
    BY <2>1, Zenon DEF Books, Balanced
  <2>3. OffBy(Popped(queue, l), he, ack_list, c, r, m,
              0 - Counts(l, r, Head(queue[l]), m), 0 - Closes(l, r, Head(queue[l]), m))
    BY <1>1, <1>3, <1>5, <2>2, PopOff, Zenon
  <2> QED BY <2>1, <2>2, <2>3, Zenon
<1> QED BY <1>4, <1>5, <1>6, Zenon DEF Recvd

LEMMA SecondIs ==
  ASSUME NEW S, NEW s \in Seq(S), Len(s) > 1
  PROVE  /\ s[2] \in S /\ Tail(s) # <<>> /\ Head(Tail(s)) = s[2]
         /\ 2 \in 1 .. Len(s)
<1>1. 2 \in 1 .. Len(s) /\ s[2] \in S
  BY SMT
<1>2. s # <<>>
  BY SMT
<1>3. PICK t \in Seq(S) : t = Tail(s)
  <2>1. Tail(s) \in Seq(S)
    BY <1>2, SMT
  <2> QED BY <2>1, Zenon
<1>4. Len(t) = Len(s) - 1 /\ t[1] = s[2]
  BY <1>2, <1>3, SMT
<1>5. t # <<>> /\ Head(t) = t[1]
  BY <1>4, SMT
<1> QED BY <1>1, <1>3, <1>4, <1>5, Zenon

LEMMA RecvIs ==
  ASSUME ChannelsFit, TablesFit, Books,
         NEW l \in Channels, l.to \in Routers, head[l] # Unrouted, NEW next \in NextHeads(l)
  PROVE  Recvd(l, Head(queue[l]), Popped(queue, l), [head EXCEPT ![l] = next],
               [list_ack_status EXCEPT ![l.to] = StatusAfter(l, next)],
               [map_cached EXCEPT ![l.to] = CachedAfter(l, next)])
<1>1. queue \in Queues /\ Routed(queue, head) /\ DOMAIN head = Channels
      /\ queue[l] \in Seq(Carried(l))
  BY FitIs, Zenon DEF ChannelsFit
<1>2. queue[l] # <<>>
  BY <1>1, Zenon DEF Routed
<1>3. /\ CountsFit(list_ack_status, map_cached) /\ ack_list \in Lists
      /\ list_ack_status \in [Routers -> [Messages -> Tallies]] /\ DOMAIN map_cached = Routers
      /\ map_cached \in [Routers -> [Messages -> [to : Routers \union Hosts, vc : Nat]]]
  BY Zenon DEF TablesFit, ListsFit, CountsFit
<1>4. CASE next = Unrouted
  <2>1. [list_ack_status EXCEPT ![l.to] = StatusAfter(l, next)] = list_ack_status
    BY <1>3, <1>4, Zenon DEF StatusAfter
  <2>2. [map_cached EXCEPT ![l.to] = CachedAfter(l, next)] = map_cached
    BY <1>3, <1>4, Zenon DEF CachedAfter
  <2> QED BY <1>4, <2>1, <2>2, PopRecvd, Zenon
<1>5. CASE next # Unrouted
  <2> DEFINE q == Popped(queue, l)
             he == [head EXCEPT ![l] = Unrouted]
             hf == [head EXCEPT ![l] = next]
             p == queue[l][2]
             st == [list_ack_status EXCEPT ![l.to] = Counted(@, p)]
             mc == [map_cached EXCEPT ![l.to] = Cached(@, p, next)]
  <2>1. Len(queue[l]) > 1 /\ next \in Routes(l, p)
    BY <1>5, Zenon DEF NextHeads
  <2>2. /\ p \in Carried(l) /\ Tail(queue[l]) # <<>> /\ Head(Tail(queue[l])) = p
        /\ 2 \in 1 .. Len(queue[l])
    BY <1>1, <2>1, SecondIs, Zenon
  <2>3. q \in Queues /\ q[l] # <<>> /\ Head(q[l]) = p
    BY <1>1, <1>2, <2>2, PopIs, Zenon
  <2>4. Recvd(l, Head(queue[l]), q, he, list_ack_status, map_cached)
    BY PopRecvd, Zenon
  <2>5. he[l] = Unrouted /\ hf[l] = next /\ Reheads(he, hf, l) /\ DOMAIN hf = Channels
    BY <1>1, Zenon DEF Reheads
  <2>6. p.msg \in Messages /\ OfKind(p, l)
    BY <2>2, CarriedIs, Zenon
  <2>7. GoodHop(l, p, next)
    <3>1. list_ack_status[l.to][p.msg].second <= list_ack_status[l.to][p.msg].first
      BY <2>6, AcksAtMostPackets, Zenon
    <3> QED BY <1>3, <2>1, <2>2, <3>1, RoutesAreGood, Zenon
  <2>8. /\ [list_ack_status EXCEPT ![l.to] = StatusAfter(l, next)] = st
        /\ [map_cached EXCEPT ![l.to] = CachedAfter(l, next)] = mc
    BY <1>3, <1>5, Zenon DEF StatusAfter, CachedAfter
  <2>9. CountsFit(st, mc) /\ \A r \in Routers, m \in Messages : st[r][m] = Tally(l, r, p, m, list_ack_status[r][m])
    <3>1. CountsFit(list_ack_status, map_cached) /\ p \in Carried(l)
      BY <1>3, <2>2, Zenon
    <3> HIDE DEF p
    <3> QED BY <2>7, <3>1, CountedFits, SMT
  <2>10. l.vc = AckVC => l.to # Router[To[p.msg]]
    BY <2>2, AcksAreExpected, SMT
  <2> HIDE DEF q, he, hf, p, st, mc
  <2>11. Fit(q, he) /\ Routed(q, he)
    BY <2>4, FitIs, Zenon DEF Recvd
  <2>12. Fit(q, hf)
    BY <2>3, <2>5, <2>7, <2>11, RouteFits, Zenon
  <2>13. ASSUME NEW r \in Routers, NEW m \in Messages
         PROVE  /\ OffBy(q, hf, ack_list, st[r][m], r, m,
                         0 - Counts(l, r, Head(queue[l]), m), 0 - Closes(l, r, Head(queue[l]), m))
                /\ r = Router[To[m]] => st[r][m].second = 0
    <3>1. PICK c \in Tallies : c = list_ack_status[r][m]
      BY <1>3, Zenon
    <3>2. /\ OffBy(q, he, ack_list, c, r, m,
                   0 - Counts(l, r, Head(queue[l]), m), 0 - Closes(l, r, Head(queue[l]), m))
          /\ r = Router[To[m]] => c.second = 0
      BY <2>4, <3>1, Zenon DEF Recvd
    <3>3. st[r][m] = Tally(l, r, p, m, c)
      BY <2>9, <3>1, Zenon
    <3>4. PICK x : x = 0 - Counts(l, r, Head(queue[l]), m)
      BY Zenon
    <3>5. PICK y : y = 0 - Closes(l, r, Head(queue[l]), m)
      BY Zenon
    <3>6. OffBy(q, he, ack_list, c, r, m, x, y)
      BY <3>2, <3>4, <3>5, Zenon
    <3>7. hf[l] # Unrouted /\ OfKind(Head(q[l]), l)
      BY <1>5, <2>3, <2>5, <2>6, Zenon
    <3>8. OffBy(q, hf, ack_list, Tally(l, r, Head(q[l]), m, c), r, m, x, y)
      BY <1>3, <2>3, <2>5, <2>11, <3>6, <3>7, RouteOff, Zenon
    <3>9. OffBy(q, hf, ack_list, st[r][m], r, m, x, y)
      BY <2>3, <3>3, <3>8, Zenon
    <3>10. r = Router[To[m]] => st[r][m].second = 0
      <4>1. CASE l.vc # AckVC
        <5>1. Tally(l, r, p, m, c).second = c.second
          BY <2>6, <4>1, TallyIs, SMT
        <5> QED BY <3>2, <3>3, <5>1, Zenon
      <4>2. CASE l.vc = AckVC /\ r = Router[To[m]]
        <5>1. l.to # r \/ p.msg # m
          BY <2>10, <4>2, Zenon
        <5> QED BY <3>2, <3>3, <5>1, Zenon DEF Tally
      <4> QED BY <4>1, <4>2, Zenon
    <3> QED BY <3>4, <3>5, <3>9, <3>10, Zenon
  <2>14. Recvd(l, Head(queue[l]), q, hf, st, mc)
    BY <2>9, <2>12, <2>13, Zenon DEF Recvd
  <2> QED BY <2>8, <2>14, Zenon DEF q, hf
<1> QED BY <1>4, <1>5, Zenon


---------------------------------------------------------------------------
(* The parts of a step add up to nothing *)

LEMMA Settled ==
  ASSUME NEW q, NEW hd, NEW al, NEW st, NEW r, NEW m, NEW x, NEW y,
         OffBy(q, hd, al, st[r][m], r, m, x, y), x = 0, r # Router[To[m]] => y = 0,
         r = Router[To[m]] => Kept(al, r, m) = 0 /\ st[r][m].second = 0
  PROVE  Balanced(q, hd, al, st, r, m)
<1>1. 0 \in Int
  BY SMT
<1>2. OffBy(q, hd, al, st[r][m], r, m, 0, 0)
  BY <1>1, Zenon DEF OffBy
<1> QED BY <1>2, Zenon DEF Balanced

\* From router to router: the entry stands for the packet at both ends.
LEMMA ForwardAddsUp ==
  ASSUME NEW l \in Channels, NEW g \in Channels, NEW p, NEW e, NEW r \in Routers, NEW m,
         l.vc # AckVC, l.to \in Routers, g.vc # AckVC, g.from = l.to, g.to \in Routers,
         e.msg = p.msg, e.port = l.from
  PROVE  /\ ((0 - Counts(l, r, p, m)) + Counts(g, r, p, m)) + Awaits(r, e, m) - Notes(l.to, r, e, m) = 0
         /\ ((0 - Closes(l, r, p, m)) + Counts(g, r, p, m)) + Awaits(r, e, m) = 0
<1>1. PICK o \in {0, 1} : o = OfMsg(p, m)
  BY CountsIs, SMT
<1>2. OfMsg(e, m) = o
  BY <1>1, Zenon DEF OfMsg
<1>3. On(l, r) <=> l.from = r
  BY Zenon DEF On
<1>4. On(g, r) <=> l.to = r
  BY Zenon DEF On
<1>5. l.from # l.to
  BY ChannelKinds, Zenon
<1>6. Counts(l, r, p, m) = IF l.from = r THEN o ELSE 0
  BY <1>1, <1>3, CountsIs, SMT
<1>7. Counts(g, r, p, m) = IF l.to = r THEN o ELSE 0
  BY <1>1, <1>4, CountsIs, SMT
<1>8. Awaits(r, e, m) = IF l.from = r THEN o ELSE 0
  BY <1>2, NotesIs, SMT
<1>9. Notes(l.to, r, e, m) = IF l.to = r THEN o ELSE 0
  BY <1>2, NotesIs, SMT
<1>10. Closes(l, r, p, m) = IF l.from = r \/ l.to = r THEN o ELSE 0
  BY <1>1, <1>3, TakesIs, SMT
<1>11. CASE l.from = r
  BY <1>5, <1>6, <1>7, <1>8, <1>9, <1>10, <1>11, SMT
<1>12. CASE l.from # r /\ l.to = r
  BY <1>6, <1>7, <1>8, <1>9, <1>10, <1>12, SMT
<1>13. CASE l.from # r /\ l.to # r
  BY <1>6, <1>7, <1>8, <1>9, <1>10, <1>13, SMT
<1> QED BY <1>11, <1>12, <1>13, Zenon

\* From the last router to the host: the ACK stands for the packet.
LEMMA DeliverAddsUp ==
  ASSUME NEW l \in Channels, NEW g \in Channels, NEW k \in Channels, NEW p, NEW a,
         NEW r \in Routers, NEW m,
         l.vc # AckVC, l.to = Router[To[p.msg]], l.to \in Routers, g.vc # AckVC, g.to \notin Routers,
         k.vc = AckVC, k.to = l.from, a.msg = p.msg
  PROVE  /\ ((0 - Counts(l, r, p, m)) + Counts(g, r, p, m)) + Counts(k, r, a, m) = 0
         /\ r # Router[To[m]] =>
              ((0 - Closes(l, r, p, m)) + Counts(g, r, p, m)) + Counts(k, r, a, m) = 0
<1>1. PICK o \in {0, 1} : o = OfMsg(p, m)
  BY CountsIs, SMT
<1>2. OfMsg(a, m) = o
  BY <1>1, Zenon DEF OfMsg
<1>3. On(l, r) <=> l.from = r
  BY Zenon DEF On
<1>4. ~On(g, r)
  BY Zenon DEF On
<1>5. On(k, r) <=> l.from = r
  BY Zenon DEF On
<1>6. Counts(l, r, p, m) = IF l.from = r THEN o ELSE 0
  BY <1>1, <1>3, CountsIs, SMT
<1>7. Counts(g, r, p, m) = 0
  BY <1>4, CountsIs, SMT
<1>8. Counts(k, r, a, m) = IF l.from = r THEN o ELSE 0
  BY <1>2, <1>5, CountsIs, SMT
<1>9. Closes(l, r, p, m) = IF l.from = r \/ l.to = r THEN o ELSE 0
  BY <1>1, <1>3, TakesIs, SMT
<1>10. r # Router[To[m]] /\ l.to = r => o = 0
  BY <1>1, Zenon DEF OfMsg, One
<1>11. CASE l.from = r
  BY <1>6, <1>7, <1>8, <1>9, <1>11, SMT
<1>12. CASE l.from # r /\ l.to = r
  BY <1>6, <1>7, <1>8, <1>9, <1>10, <1>12, SMT
<1>13. CASE l.from # r /\ l.to # r
  BY <1>6, <1>7, <1>8, <1>9, <1>13, SMT
<1> QED BY <1>11, <1>12, <1>13, Zenon

\* The same when the packet came from a host: nobody waits for it.
LEMMA HandOverAddsUp ==
  ASSUME NEW l \in Channels, NEW g \in Channels, NEW p, NEW r \in Routers, NEW m,
         l.vc # AckVC, l.to = Router[To[p.msg]], l.from \notin Routers, g.vc # AckVC, g.to \notin Routers
  PROVE  /\ (0 - Counts(l, r, p, m)) + Counts(g, r, p, m) = 0
         /\ r # Router[To[m]] => (0 - Closes(l, r, p, m)) + Counts(g, r, p, m) = 0
<1>1. PICK o \in {0, 1} : o = OfMsg(p, m)
  BY CountsIs, SMT
<1>2. ~On(l, r) /\ ~On(g, r)
  BY Zenon DEF On
<1>3. Counts(l, r, p, m) = 0 /\ Counts(g, r, p, m) = 0
  BY <1>2, CountsIs, SMT
<1>4. Closes(l, r, p, m) = IF l.to = r THEN o ELSE 0
  BY <1>1, <1>2, TakesIs, SMT
<1>5. r # Router[To[m]] /\ l.to = r => o = 0
  BY <1>1, Zenon DEF OfMsg, One
<1>6. r # Router[To[m]] => Closes(l, r, p, m) = 0
  BY <1>4, <1>5, Zenon
<1>7. (0 - 0) + 0 = 0
  BY SMT
<1> QED BY <1>3, <1>6, <1>7, Zenon

\* An ACK takes its entry with it, to the router the entry names or to a host.
LEMMA BackAddsUp ==
  ASSUME NEW l \in Channels, NEW k \in Channels, NEW p, NEW e, NEW r \in Routers, NEW m,
         l.vc = AckVC, k.vc = AckVC, k.to = e.port, e.msg = p.msg
  PROVE  /\ ((0 - Counts(l, r, p, m)) + Notes(l.to, r, e, m) - Awaits(r, e, m)) + Counts(k, r, p, m) = 0
         /\ ((0 - Closes(l, r, p, m)) - Awaits(r, e, m)) + Counts(k, r, p, m) = 0
<1>1. PICK o \in {0, 1} : o = OfMsg(p, m)
  BY CountsIs, SMT
<1>2. OfMsg(e, m) = o
  BY <1>1, Zenon DEF OfMsg
<1>3. On(l, r) <=> l.to = r
  BY Zenon DEF On
<1>4. On(k, r) <=> e.port = r
  BY Zenon DEF On
<1>5. Counts(l, r, p, m) = IF l.to = r THEN o ELSE 0
  BY <1>1, <1>3, CountsIs, SMT
<1>6. Counts(k, r, p, m) = IF e.port = r THEN o ELSE 0
  BY <1>1, <1>4, CountsIs, SMT
<1>7. Awaits(r, e, m) = IF e.port = r THEN o ELSE 0
  BY <1>2, NotesIs, SMT
<1>8. Notes(l.to, r, e, m) = IF l.to = r THEN o ELSE 0
  BY <1>2, NotesIs, SMT
<1>9. Closes(l, r, p, m) = 0
  BY TakesIs, SMT
<1>10. CASE l.to = r
  BY <1>5, <1>6, <1>7, <1>8, <1>9, <1>10, SMT
<1>11. CASE l.to # r
  BY <1>5, <1>6, <1>7, <1>8, <1>9, <1>11, SMT
<1> QED BY <1>10, <1>11, Zenon

LEMMA BackToHostAddsUp ==
  ASSUME NEW l \in Channels, NEW p, NEW e, NEW r \in Routers, NEW m,
         l.vc = AckVC, e.port \notin Routers, e.msg = p.msg
  PROVE  /\ (0 - Counts(l, r, p, m)) + Notes(l.to, r, e, m) - Awaits(r, e, m) = 0
         /\ (0 - Closes(l, r, p, m)) - Awaits(r, e, m) = 0
<1>1. PICK o \in {0, 1} : o = OfMsg(p, m)
  BY CountsIs, SMT
<1>2. OfMsg(e, m) = o
  BY <1>1, Zenon DEF OfMsg
<1>3. On(l, r) <=> l.to = r
  BY Zenon DEF On
<1>4. Counts(l, r, p, m) = IF l.to = r THEN o ELSE 0
  BY <1>1, <1>3, CountsIs, SMT
<1>5. Awaits(r, e, m) = 0
  BY NotesIs, SMT
<1>6. Notes(l.to, r, e, m) = IF l.to = r THEN o ELSE 0
  BY <1>2, NotesIs, SMT
<1>7. Closes(l, r, p, m) = 0
  BY TakesIs, SMT
<1> QED BY <1>4, <1>5, <1>6, <1>7, SMT


---------------------------------------------------------------------------
(* The actions *)

LEMMA BooksAre ==
  ASSUME ChannelsFit, TablesFit, Books
  PROVE  /\ queue \in Queues /\ Routed(queue, head) /\ DOMAIN head = Channels /\ ack_list \in Lists
         /\ Fit(queue, head) /\ CountsFit(list_ack_status, map_cached) /\ ListsFit(ack_list)
         /\ \A r \in Routers, m \in Messages :
              /\ list_ack_status[r][m] \in Tallies
              /\ OffBy(queue, head, ack_list, list_ack_status[r][m], r, m, 0, 0)
              /\ r = Router[To[m]] => Kept(ack_list, r, m) = 0 /\ list_ack_status[r][m].second = 0
<1>1. Fit(queue, head) /\ CountsFit(list_ack_status, map_cached) /\ ListsFit(ack_list)
  BY Zenon DEF ChannelsFit, TablesFit
<1>2. list_ack_status \in [Routers -> [Messages -> Tallies]] /\ ack_list \in Lists
  BY <1>1, Zenon DEF CountsFit, ListsFit
<1>3. ASSUME NEW r \in Routers, NEW m \in Messages
      PROVE  /\ list_ack_status[r][m] \in Tallies
             /\ OffBy(queue, head, ack_list, list_ack_status[r][m], r, m, 0, 0)
             /\ r = Router[To[m]] => Kept(ack_list, r, m) = 0 /\ list_ack_status[r][m].second = 0
  BY <1>2, Zenon DEF Books, Balanced
<1> QED BY <1>1, <1>2, <1>3, FitIs, Zenon

\* The packet a step takes.
LEMMA HeadIsCarried ==
  ASSUME ChannelsFit, NEW l \in Channels, queue[l] # <<>>
  PROVE  /\ Head(queue[l]) \in Carried(l)
         /\ 1 \in 1 .. Len(queue[l]) /\ Head(queue[l]) = queue[l][1]
<1>1. PICK s \in Seq(Carried(l)) : s = queue[l]
  BY FitIs, Zenon DEF ChannelsFit
<1>2. s # <<>>
  BY <1>1, Zenon
<1>3. Head(s) \in Carried(l) /\ 1 \in 1 .. Len(s) /\ Head(s) = s[1]
  BY <1>2, SMT
<1> QED BY <1>1, <1>3, Zenon

LEMMA GetPayloadKeeps ==
  ASSUME ChannelsFit, TablesFit, Books, NicsFit, NEW m0 \in Messages, getPayload(m0)
  PROVE  ChannelsFit' /\ TablesFit' /\ Books' /\ NicsFit'
<1> DEFINE g == Channel(From[m0], Router[From[m0]], 0)
           p == [msg |-> m0, id |-> sent[m0], ack |-> FALSE]
<1>1. /\ sent[m0] < Length[m0]
      /\ queue' = Pushed(queue, g, p) /\ sent' = [sent EXCEPT ![m0] = @ + 1]
      /\ UNCHANGED <<head, tables, drain, draining_map, recv, held>>
  BY Zenon DEF getPayload
<1>2. /\ sent \in [Messages -> Nat] /\ \A m \in Messages : sent[m] <= Length[m]
      /\ sent[m0] \in Nat /\ Length[m0] \in Nat
  BY MessagesAssumption, Zenon DEF NicsFit
<1>3. /\ From[m0] \in Hosts /\ Router[From[m0]] \in Routers /\ From[m0] \notin Routers
  BY MessagesAssumption, TopologyAssumption, Zenon
<1>4. g \in Channels
  BY <1>3, InChannels, Zenon
<1>5. g.from = From[m0] /\ g.vc = 0 /\ 0 # AckVC
  <2>1. 0 # AckVC
    BY SMT DEF AckVC
  <2> QED BY <2>1, Zenon DEF Channel
<1>6. p \in Carried(g)
  <2>1. p \in Packets /\ p.ack = FALSE /\ p.id = sent[m0] /\ p.msg = m0
    BY <1>2, SMT DEF Packets
  <2> HIDE DEF p, g
  <2> QED BY <1>1, <1>5, <2>1, Zenon DEF Carried
<1> HIDE DEF g, p
<1>7. /\ queue \in Queues /\ Routed(queue, head) /\ ack_list \in Lists /\ Fit(queue, head)
      /\ \A r \in Routers, m \in Messages :
           /\ list_ack_status[r][m] \in Tallies
           /\ OffBy(queue, head, ack_list, list_ack_status[r][m], r, m, 0, 0)
           /\ r = Router[To[m]] => Kept(ack_list, r, m) = 0 /\ list_ack_status[r][m].second = 0
  BY BooksAre, Zenon
<1>8. ChannelsFit'
  <2>1. Fit(Pushed(queue, g, p), head)
    BY <1>4, <1>6, <1>7, PushFits, Zenon
  <2> QED BY <1>1, <2>1, Zenon DEF ChannelsFit
<1>9. TablesFit'
  BY <1>1, Zenon DEF TablesFit, tables
<1>10. ASSUME NEW r \in Routers, NEW m \in Messages
       PROVE  Balanced(queue', head, ack_list, list_ack_status, r, m)
  <2>1. ~On(g, r)
    BY <1>3, <1>5, Zenon DEF On
  <2>2. Counts(g, r, p, m) = 0 /\ 0 + 0 = 0
    <3>1. 0 + 0 = 0
      BY SMT
    <3> QED BY <2>1, <3>1, CountsIs, SMT
  <2>3. p \in Packets
    BY <1>6, CarriedIs, Zenon
  <2>4. PICK c \in Tallies : c = list_ack_status[r][m]
    BY <1>7, Zenon
  <2>5. OffBy(queue, head, ack_list, c, r, m, 0, 0)
    BY <1>7, <2>4, Zenon
  <2>6. OffBy(Pushed(queue, g, p), head, ack_list, c, r, m, 0 + Counts(g, r, p, m), 0 + Counts(g, r, p, m))
    BY <1>4, <1>7, <2>3, <2>5, PushOff, Zenon
  <2>7. OffBy(queue', head, ack_list, list_ack_status[r][m], r, m, 0, 0)
    BY <1>1, <2>2, <2>4, <2>6, Zenon
  <2> QED BY <1>7, <2>7, Settled, Zenon
<1>11. Books'
  BY <1>1, <1>10, Zenon DEF Books, tables
<1>12. NicsFit'
  <2>1. sent[m0] + 1 \in Nat /\ sent[m0] + 1 <= Length[m0]
    BY <1>1, <1>2, SMT
  <2>2. sent' \in [Messages -> Nat] /\ \A m \in Messages : sent'[m] <= Length[m]
    BY <1>1, <1>2, <2>1, Zenon
  <2> QED BY <1>1, <2>2, Zenon DEF NicsFit, drain
<1> QED BY <1>8, <1>9, <1>11, <1>12, Zenon

\* Nothing that a router keeps changes.
LEMMA TablesStay ==
  ASSUME ChannelsFit, TablesFit, Books, UNCHANGED <<channels, tables>>
  PROVE  ChannelsFit' /\ TablesFit' /\ Books'
<1>1. UNCHANGED <<queue, head, list_ack_status, map_cached, ack_list>>
  BY Zenon DEF channels, tables
<1> QED BY <1>1, Zenon DEF ChannelsFit, TablesFit, Books

LEMMA ElementIs ==
  ASSUME NEW S, NEW s \in Seq(S), NEW i \in DOMAIN s
  PROVE  i \in 1 .. Len(s) /\ s[i] \in S
BY SMT

LEMMA ProcessControlKeeps ==
  ASSUME ChannelsFit, TablesFit, Books, NicsFit, NEW h \in Hosts, processControl(h)
  PROVE  ChannelsFit' /\ TablesFit' /\ Books' /\ NicsFit'
<1>1. PICK i \in DOMAIN control[h] :
        /\ draining_map' = [draining_map EXCEPT ![control[h][i].msg] = ~control[h][i].stop]
        /\ control' = [control EXCEPT ![h] = Without(control[h], i)]
        /\ UNCHANGED <<channels, tables, size_flowcut, latest_hop_count, draining_status>>
        /\ UNCHANGED <<sent, recv, held>>
  BY Zenon DEF processControl, Without
<1>2. control[h] \in Seq([msg : Messages, stop : BOOLEAN]) /\ DOMAIN control = Hosts
  BY Zenon DEF NicsFit
<1>3. i \in 1 .. Len(control[h])
  BY <1>2, ElementIs, Zenon
<1>4. Without(control[h], i) \in Seq([msg : Messages, stop : BOOLEAN])
  BY <1>2, <1>3, WithoutIs, Zenon
<1>5. control' \in [Hosts -> Seq([msg : Messages, stop : BOOLEAN])]
  BY <1>1, <1>4, Zenon DEF NicsFit
<1>6. draining_map' \in [Messages -> BOOLEAN]
  BY <1>1, Zenon DEF NicsFit
<1>7. NicsFit'
  BY <1>1, <1>5, <1>6, Zenon DEF NicsFit
<1> QED BY <1>1, <1>7, TablesStay, Zenon

LEMMA ArriveKeeps ==
  ASSUME ChannelsFit, TablesFit, Books, NicsFit, NEW l \in Channels, Arrive(l)
  PROVE  ChannelsFit' /\ TablesFit' /\ Books' /\ NicsFit'
<1> DEFINE p == Head(queue[l])
<1>1. PICK hop \in Routes(l, p) :
        /\ l.to \in Routers /\ queue[l] # <<>> /\ head[l] = Unrouted
        /\ head' = [head EXCEPT ![l] = hop]
        /\ list_ack_status' = [list_ack_status EXCEPT ![l.to] = Counted(@, p)]
        /\ map_cached' = [map_cached EXCEPT ![l.to] = Cached(@, p, hop)]
        /\ UNCHANGED <<queue, ack_list, drain, nics>>
  BY Zenon DEF Arrive
<1>2. /\ queue \in Queues /\ Routed(queue, head) /\ ack_list \in Lists /\ Fit(queue, head)
      /\ DOMAIN head = Channels /\ ListsFit(ack_list)
      /\ CountsFit(list_ack_status, map_cached)
      /\ \A r \in Routers, m \in Messages :
           /\ list_ack_status[r][m] \in Tallies
           /\ OffBy(queue, head, ack_list, list_ack_status[r][m], r, m, 0, 0)
           /\ r = Router[To[m]] => Kept(ack_list, r, m) = 0 /\ list_ack_status[r][m].second = 0
  BY BooksAre, Zenon
<1>3. p \in Carried(l) /\ 1 \in 1 .. Len(queue[l]) /\ p = queue[l][1]
  BY <1>1, HeadIsCarried, Zenon
<1> HIDE DEF p
<1>4. p.msg \in Messages /\ OfKind(p, l)
  BY <1>3, CarriedIs, Zenon
<1>5. GoodHop(l, p, hop)
  <2>1. list_ack_status[l.to][p.msg].second <= list_ack_status[l.to][p.msg].first
    BY <1>1, <1>4, AcksAtMostPackets, Zenon
  <2> QED BY <1>1, <1>2, <1>3, <2>1, RoutesAreGood, Zenon
<1>6. hop # Unrouted
  BY <1>1, <1>3, <1>5, GoodHopIsRouted, Zenon
<1>7. head'[l] = hop /\ DOMAIN head' = Channels /\ Reheads(head, head', l)
  BY <1>1, <1>2, Zenon DEF Reheads
<1>8. ChannelsFit'
  <2>1. GoodHop(l, Head(queue[l]), head'[l])
    BY <1>5, <1>7, Zenon DEF p
  <2>2. Fit(queue, head')
    BY <1>1, <1>2, <1>7, <2>1, RouteFits, Zenon
  <2> QED BY <1>1, <2>2, Zenon DEF ChannelsFit
<1>9. /\ CountsFit(list_ack_status', map_cached')
      /\ \A r \in Routers, m \in Messages :
           list_ack_status'[r][m] = Tally(l, r, p, m, list_ack_status[r][m])
  <2>1. /\ CountsFit([list_ack_status EXCEPT ![l.to] = Counted(@, p)], [map_cached EXCEPT ![l.to] = Cached(@, p, hop)])
        /\ \A r \in Routers, m \in Messages :
             [list_ack_status EXCEPT ![l.to] = Counted(@, p)][r][m] = Tally(l, r, p, m, list_ack_status[r][m])
    <3>1. l.to \in Routers /\ CountsFit(list_ack_status, map_cached)
      BY <1>1, <1>2, Zenon
    <3> QED BY <1>3, <1>5, <3>1, CountedFits, SMT
  <2> QED BY <1>1, <2>1, Zenon
<1>10. TablesFit'
  BY <1>1, <1>2, <1>9, Zenon DEF TablesFit
<1>11. l.vc = AckVC => l.to # Router[To[p.msg]]
  BY <1>3, AcksAreExpected, Zenon
<1>12. ASSUME NEW r \in Routers, NEW m \in Messages
       PROVE  Balanced(queue, head', ack_list, list_ack_status', r, m)
  <2>1. PICK c \in Tallies : c = list_ack_status[r][m]
    BY <1>2, Zenon
  <2>2. /\ OffBy(queue, head, ack_list, c, r, m, 0, 0)
        /\ r = Router[To[m]] => Kept(ack_list, r, m) = 0 /\ c.second = 0
    BY <1>2, <2>1, Zenon
  <2>3. PICK k : k = Tally(l, r, p, m, c)
    BY Zenon
  <2>4. list_ack_status'[r][m] = k
    BY <1>9, <2>1, <2>3, Zenon
  <2>5. head'[l] # Unrouted /\ OfKind(Head(queue[l]), l)
    BY <1>4, <1>6, <1>7, Zenon DEF p
  <2>6. OffBy(queue, head', ack_list, Tally(l, r, Head(queue[l]), m, c), r, m, 0, 0)
    BY <1>1, <1>2, <1>7, <2>2, <2>5, RouteOff, Zenon
  <2>7. OffBy(queue, head', ack_list, list_ack_status'[r][m], r, m, 0, 0)
    BY <2>3, <2>4, <2>6, Zenon DEF p
  <2>8. r = Router[To[m]] => k.second = 0
    <3>1. CASE l.vc # AckVC
      <4>1. k.second = c.second
        BY <1>4, <2>3, <3>1, TallyIs, SMT
      <4> QED BY <2>2, <4>1, Zenon
    <3>2. CASE l.vc = AckVC /\ r = Router[To[m]]
      <4>1. l.to # r \/ p.msg # m
        BY <1>11, <3>2, Zenon
      <4> QED BY <2>2, <2>3, <4>1, Zenon DEF Tally
    <3> QED BY <3>1, <3>2, Zenon
  <2> QED BY <2>2, <2>4, <2>7, <2>8, Settled, Zenon
<1>13. Books'
  BY <1>1, <1>12, Zenon DEF Books
<1>14. NicsFit'
  BY <1>1, Zenon DEF NicsFit, nics, drain
<1> QED BY <1>8, <1>10, <1>13, <1>14, Zenon

\* A packet that leaves for the host is in no router's books any more.
LEMMA LeaveOff ==
  ASSUME NEW q \in Queues, NEW hd, NEW al \in Lists, NEW c \in Tallies,
         NEW r \in Routers, NEW m, NEW x, NEW y, NEW l \in Channels,
         Routed(q, hd), q[l] # <<>>, hd[l] = Unrouted, ~On(l, r),
         OffBy(q, hd, al, c, r, m, x, y)
  PROVE  OffBy(Popped(q, l), hd, al, c, r, m, x, y)
<1>1. PICK t : t = Popped(q, l)
  BY Zenon
<1>2. t \in Queues /\ \A g \in Channels \ {l} : t[g] = q[g]
  BY <1>1, PopIs, Zenon
<1>3. /\ Sums(q, hd, al, r, m) /\ x \in Int /\ y \in Int
      /\ Kept(al, r, m) + x = Out(q, r, m) + Coming(al, r, m)
      /\ r # Router[To[m]] => c.first + y = c.second + Coming(al, r, m) + Pending(q, hd, r, m)
  BY Zenon DEF OffBy
<1>4. Summed(Channels, Load(q, r, m)) /\ Summed(Channels, Open(q, hd, r, m)) /\ Summed(Routers, Due(al, r, m))
  BY <1>3, Zenon DEF Sums
<1>5. Summed(Channels, Load(t, r, m)) /\ Out(t, r, m) = Out(q, r, m)
  <2>1. /\ Summed(Channels, Load(Popped(q, l), r, m))
        /\ Out(Popped(q, l), r, m) + Counts(l, r, Head(q[l]), m) = Out(q, r, m)
    BY <1>4, PopLoad, SMT DEF Out
  <2>2. Counts(l, r, Head(q[l]), m) = 0
    BY CountsIs, SMT
  <2>3. Summed(Channels, Load(t, r, m)) /\ Out(t, r, m) + 0 = Out(q, r, m)
    BY <1>1, <2>1, <2>2, Zenon
  <2>4. Out(t, r, m) \in Nat
    BY <2>3, SummedIs, Zenon DEF Out
  <2> QED BY <2>3, <2>4, SMT
<1>6. Summed(Channels, Open(t, hd, r, m)) /\ Pending(t, hd, r, m) = Pending(q, hd, r, m)
  <2>1. Routed(t, hd)
    BY <1>2, Zenon DEF Routed
  <2>2. OneChannel(q, hd, t, hd, l)
    BY <1>2, <2>1, Zenon DEF OneChannel
  <2>3. OpenAt(q, hd, l, r, m) = 0 /\ OpenAt(t, hd, l, r, m) = 0
    BY <1>2, OpenUnrouted, SMT
  <2>4. 0 \in {0, 1} /\ OpenAt(t, hd, l, r, m) = OpenAt(q, hd, l, r, m) + 0
    BY <2>3, SMT
  <2>5. /\ Summed(Channels, Open(t, hd, r, m))
        /\ Total(Channels, Open(t, hd, r, m)) = Total(Channels, Open(q, hd, r, m)) + 0
    BY <1>4, <2>2, <2>4, OpenGrows, SMT
  <2>6. Total(Channels, Open(q, hd, r, m)) \in Nat
    BY <1>4, SummedIs, Zenon
  <2> QED BY <2>5, <2>6, SMT DEF Pending
<1>7. Sums(t, hd, al, r, m)
  BY <1>4, <1>5, <1>6, Zenon DEF Sums
<1>8. OffBy(t, hd, al, c, r, m, x, y)
  BY <1>3, <1>5, <1>6, <1>7, Zenon DEF OffBy
<1> QED BY <1>1, <1>8, Zenon

\* The number of the next packet to be expected.
LEMMA NextExpected ==
  ASSUME NEW len \in Nat, NEW first \in Nat, first <= len,
         NEW early, early \subseteq Nat, \A k \in early : k < len,
         NEW n, n = CHOOSE k \in first .. len : k \notin early /\ first .. k - 1 \subseteq early
  PROVE  n \in Nat /\ n <= len
<1> DEFINE Free == {k \in Nat : k \in first .. len /\ k \notin early}
<1>1. len \in Free
  BY SMT
<1>2. PICK k \in Free : \A d \in Free : ~ (<<d, k>> \in OpToRel(<, Nat))
  <2>1. Free # {} /\ Free \subseteq Nat
    BY <1>1, SMT
  <2> HIDE DEF Free
  <2> QED BY <2>1, WFMin, NatLessThanWellFounded, Zenon
<1>3. \A d \in Free : ~ (d < k)
  BY <1>2 DEF OpToRel
<1>4. k \in first .. len /\ k \notin early /\ first .. k - 1 \subseteq early
  BY <1>3, SMT
<1>5. n \in first .. len
  BY <1>4, Zenon
<1> QED BY <1>5, SMT

LEMMA HandleEventKeeps ==
  ASSUME ChannelsFit, TablesFit, Books, NicsFit, NEW l \in Channels, handle_event(l)
  PROVE  ChannelsFit' /\ TablesFit' /\ Books' /\ NicsFit'
<1> DEFINE p == Head(queue[l])
           early == held[p.msg] \union {p.id}
           next == CHOOSE n \in recv[p.msg] .. Length[p.msg] :
                     n \notin early /\ recv[p.msg] .. n - 1 \subseteq early
<1>1. /\ l.from \in Routers /\ l.to \in Hosts /\ queue[l] # <<>>
      /\ queue' = Popped(queue, l)
      /\ \/ recv' = [recv EXCEPT ![p.msg] = next] /\ held' = [held EXCEPT ![p.msg] = {n \in early : n > next}]
         \/ UNCHANGED <<recv, held>>
      /\ UNCHANGED <<head, tables, drain, sent, draining_map>>
  BY Zenon DEF handle_event
<1>2. /\ queue \in Queues /\ Routed(queue, head) /\ ack_list \in Lists /\ Fit(queue, head)
      /\ DOMAIN head = Channels
      /\ \A r \in Routers, m \in Messages :
           /\ list_ack_status[r][m] \in Tallies
           /\ OffBy(queue, head, ack_list, list_ack_status[r][m], r, m, 0, 0)
           /\ r = Router[To[m]] => Kept(ack_list, r, m) = 0 /\ list_ack_status[r][m].second = 0
  BY BooksAre, Zenon
<1>3. l.to \notin Routers /\ l.vc # AckVC
  BY <1>1, TopologyAssumption, ChannelKinds, Zenon
<1>4. head[l] = Unrouted
  BY <1>2, <1>3, Zenon DEF Fit, HeadFits
<1>5. p \in Carried(l)
  BY <1>1, HeadIsCarried, Zenon
<1>6. p.msg \in Messages /\ p.id \in Nat /\ p.id < Length[p.msg]
  <2> HIDE DEF p
  <2> QED BY <1>5, CarriedIs, Zenon
<1>7. ChannelsFit'
  <2>1. Reheads(head, head, l)
    BY Zenon DEF Reheads
  <2>2. Fit(Popped(queue, l), head)
    BY <1>1, <1>2, <1>4, <2>1, PopFits, Zenon
  <2> QED BY <1>1, <2>2, Zenon DEF ChannelsFit
<1>8. TablesFit'
  BY <1>1, Zenon DEF TablesFit, tables
<1>9. ASSUME NEW r \in Routers, NEW m \in Messages
      PROVE  Balanced(queue', head, ack_list, list_ack_status, r, m)
  <2>1. ~On(l, r)
    BY <1>3, Zenon DEF On
  <2>2. PICK c \in Tallies : c = list_ack_status[r][m]
    BY <1>2, Zenon
  <2>3. OffBy(queue, head, ack_list, c, r, m, 0, 0)
    BY <1>2, <2>2, Zenon
  <2>4. OffBy(Popped(queue, l), head, ack_list, c, r, m, 0, 0)
    BY <1>1, <1>2, <1>4, <2>1, <2>3, LeaveOff, Zenon
  <2>5. OffBy(queue', head, ack_list, list_ack_status[r][m], r, m, 0, 0)
    BY <1>1, <2>2, <2>4, Zenon
  <2> QED BY <1>2, <2>5, Settled, Zenon
<1>10. Books'
  BY <1>1, <1>9, Zenon DEF Books, tables
<1>11. NicsFit'
  <2>1. /\ sent \in [Messages -> Nat] /\ \A m \in Messages : sent[m] <= Length[m]
        /\ draining_map \in [Messages -> BOOLEAN] /\ draining_status \in [Messages -> BOOLEAN]
        /\ control \in [Hosts -> Seq([msg : Messages, stop : BOOLEAN])]
        /\ size_flowcut \in [Messages -> Nat] /\ latest_hop_count \in [Messages -> 0 .. 1]
        /\ recv \in [Messages -> Nat] /\ DOMAIN held = Messages
        /\ \A m \in Messages : recv[m] <= Length[m] /\ held[m] \subseteq recv[m] + 1 .. Length[m] - 1
    BY Zenon DEF NicsFit
  <2>2. CASE recv' = [recv EXCEPT ![p.msg] = next] /\ held' = [held EXCEPT ![p.msg] = {n \in early : n > next}]
    <3>1. /\ recv[p.msg] \in Nat /\ Length[p.msg] \in Nat /\ recv[p.msg] <= Length[p.msg]
          /\ held[p.msg] \subseteq recv[p.msg] + 1 .. Length[p.msg] - 1
      BY <1>6, <2>1, MessagesAssumption, Zenon
    <3>2. early \subseteq Nat /\ \A k \in early : k < Length[p.msg]
      <4>1. \A k \in held[p.msg] : k \in Nat /\ k < Length[p.msg]
        BY <3>1, SMT
      <4> QED BY <1>6, <4>1, Zenon
    <3>3. PICK n : n = next
      BY Zenon
    <3>4. n \in Nat /\ n <= Length[p.msg]
      <4> HIDE DEF early, p
      <4> QED BY <3>1, <3>2, <3>3, NextExpected, Zenon
    <3>5. {k \in early : k > n} \subseteq n + 1 .. Length[p.msg] - 1
      <4> HIDE DEF early, p
      <4>1. PICK len \in Nat : len = Length[p.msg]
        BY <3>1, Zenon
      <4>2. \A k \in Nat : k > n /\ k < len => k \in n + 1 .. len - 1
        BY <3>4, <4>1, SMT
      <4> QED BY <3>2, <4>1, <4>2, Zenon
    <3> HIDE DEF early, p, next
    <3>6. recv' \in [Messages -> Nat] /\ DOMAIN held' = Messages
      BY <1>6, <2>1, <2>2, <3>3, <3>4, Zenon
    <3>7. \A m \in Messages : recv'[m] <= Length[m] /\ held'[m] \subseteq recv'[m] + 1 .. Length[m] - 1
      BY <1>6, <2>1, <2>2, <3>3, <3>4, <3>5, Zenon
    <3> QED BY <1>1, <2>1, <3>6, <3>7, Zenon DEF NicsFit, drain
  <2>3. CASE UNCHANGED <<recv, held>>
    BY <1>1, <2>3, Zenon DEF NicsFit, drain
  <2> QED BY <1>1, <2>2, <2>3, Zenon
<1> QED BY <1>7, <1>8, <1>10, <1>11, Zenon

\* Where a packet goes that leaves for another router or for the host.
LEMMA DataLeads ==
  ASSUME ChannelsFit, NEW l \in Channels, l.to \in Routers, head[l] # Unrouted,
         NEW p, p = Head(queue[l]), ~p.ack, NEW g, g = Channel(l.to, head[l].to, head[l].vc)
  PROVE  /\ p \in Carried(l) /\ l.vc # AckVC /\ p.msg \in Messages
         /\ g \in Channels /\ g.from = l.to /\ g.to = head[l].to /\ g.vc # AckVC /\ p \in Carried(g)
         /\ g.to \in Hosts <=> l.to = Router[To[p.msg]]
         /\ g.to \in Routers <=> l.to # Router[To[p.msg]]
<1>1. /\ queue \in Queues /\ queue[l] \in Seq(Carried(l)) /\ HeadFits(queue, head, l)
  BY Zenon DEF ChannelsFit, Fit
<1>2. queue[l] # <<>> /\ (l.vc # AckVC => HopFits(l.to, p.msg, head[l]))
  BY <1>1, Zenon DEF HeadFits
<1>3. p \in Carried(l)
  BY <1>2, HeadIsCarried, Zenon
<1>4. p \in Packets /\ p.msg \in Messages /\ p.id < Length[p.msg] /\ OfKind(p, l)
  BY <1>3, CarriedIs, Zenon
<1>5. l.vc # AckVC
  BY <1>4, Zenon DEF OfKind
<1>6. HopFits(l.to, p.msg, head[l])
  BY <1>2, <1>5, Zenon
<1>7. /\ g \in Channels /\ head[l].vc # AckVC
      /\ head[l].to \in Hosts <=> l.to = Router[To[p.msg]]
      /\ head[l].to \in Routers <=> l.to # Router[To[p.msg]]
  BY <1>4, <1>6, HopsLead, Zenon
<1>8. g.from = l.to /\ g.to = head[l].to /\ g.vc = head[l].vc
  BY Zenon DEF Channel
<1>9. p \in Carried(g)
  BY <1>4, <1>7, <1>8, Zenon DEF Carried
<1> QED BY <1>3, <1>4, <1>5, <1>7, <1>8, <1>9, Zenon

\* What a step leaves behind.
Keeps(q, hd, al, st, mc) ==
  /\ Fit(q, hd) /\ CountsFit(st, mc) /\ ListsFit(al)
  /\ \A r \in Routers, m \in Messages : Balanced(q, hd, al, st, r, m)

LEMMA RecvdIs ==
  ASSUME ChannelsFit, TablesFit, Books, NEW l \in Channels, NEW p, NEW q, NEW he, NEW st, NEW mc,
         Recvd(l, p, q, he, st, mc)
  PROVE  /\ Fit(q, he) /\ q \in Queues /\ Routed(q, he) /\ CountsFit(st, mc)
         /\ ack_list \in Lists /\ ListsFit(ack_list)
         /\ \A r \in Routers, m \in Messages :
              /\ st[r][m] \in Tallies
              /\ OffBy(q, he, ack_list, st[r][m], r, m, 0 - Counts(l, r, p, m), 0 - Closes(l, r, p, m))
              /\ r = Router[To[m]] => Kept(ack_list, r, m) = 0 /\ st[r][m].second = 0
<1>1. /\ Fit(q, he) /\ CountsFit(st, mc)
      /\ \A r \in Routers, m \in Messages :
           /\ OffBy(q, he, ack_list, st[r][m], r, m, 0 - Counts(l, r, p, m), 0 - Closes(l, r, p, m))
           /\ r = Router[To[m]] => st[r][m].second = 0
  BY Zenon DEF Recvd
<1>2. /\ ack_list \in Lists /\ ListsFit(ack_list)
      /\ \A r \in Routers, m \in Messages : r = Router[To[m]] => Kept(ack_list, r, m) = 0
  BY BooksAre, Zenon
<1>3. st \in [Routers -> [Messages -> Tallies]]
  BY <1>1, Zenon DEF CountsFit
<1>4. \A r \in Routers, m \in Messages : st[r][m] \in Tallies
  BY <1>3, Zenon
<1> QED BY <1>1, <1>2, <1>4, FitIs, Zenon

LEMMA NothingNoted ==
  ASSUME NEW al, NEW bl, NEW x, NEW e, NEW r \in Routers, NEW m,
         Noted(al, bl, x, e), Notes(x, r, e, m) = 0, Kept(al, r, m) = 0
  PROVE  Kept(bl, r, m) = 0
<1>1. HowMany(bl[r], EntriesOf(m)) = HowMany(al[r], EntriesOf(m)) + Notes(x, r, e, m)
  BY NoteKept, SMT
<1>2. HowMany(al[r], EntriesOf(m)) = 0
  BY Zenon DEF Kept
<1>3. HowMany(bl[r], EntriesOf(m)) = 0
  BY <1>1, <1>2, SMT
<1> QED BY <1>3, Zenon DEF Kept

LEMMA NothingStruck ==
  ASSUME NEW al, NEW bl, NEW x, NEW i, NEW r \in Routers, NEW m,
         Struck(al, bl, x, i), Kept(al, r, m) = 0
  PROVE  Kept(bl, r, m) = 0
<1>1. HowMany(bl[r], EntriesOf(m)) + Notes(x, r, al[x][i], m) = HowMany(al[r], EntriesOf(m))
  BY StrikeKept, SMT
<1>2. HowMany(al[r], EntriesOf(m)) = 0
  BY Zenon DEF Kept
<1>3. HowMany(bl[r], EntriesOf(m)) \in Nat
  <2>1. bl[r] \in Seq(Entries)
    BY Zenon DEF Struck, OneList, Lists
  <2> QED BY <2>1, HowManyIs, Zenon
<1>4. PICK d \in {0, 1} : d = Notes(x, r, al[x][i], m)
  BY NotesIs, SMT
<1>5. HowMany(bl[r], EntriesOf(m)) + d = 0
  BY <1>1, <1>2, <1>4, Zenon
<1>6. HowMany(bl[r], EntriesOf(m)) = 0
  BY <1>3, <1>5, SMT
<1> QED BY <1>6, Zenon DEF Kept

LEMMA NotedFits ==
  ASSUME ListsFit(ack_list), NEW l \in Channels, l.to \in Routers, l.vc # AckVC, NEW p \in Carried(l),
         NEW al, al = [ack_list EXCEPT ![l.to] = Append(@, AckInfo(p, l.from))],
         NEW e, e = AckInfo(p, l.from)
  PROVE  /\ e.msg = p.msg /\ e.port = l.from
         /\ Noted(ack_list, al, l.to, e) /\ ListsFit(al)
<1>3. p \in Packets /\ p.msg \in Messages /\ p.id \in Nat
  BY CarriedIs, Zenon
<1>4. /\ l.from \in Routers \union Hosts
      /\ l.from \in Routers => Channel(l.to, l.from, AckVC) \in Channels
  BY ChannelKinds, Zenon
<1>5. e \in Entries /\ e.msg = p.msg /\ e.port = l.from
  BY <1>3, <1>4, SMT DEF Entries, AckInfo
<1>6. e \in Entry(l.to)
  BY <1>4, <1>5, Zenon DEF Entry
<1>7. /\ DOMAIN ack_list = Routers /\ ack_list \in Lists
      /\ \A r \in Routers : ack_list[r] \in Seq(Entry(r)) /\ ack_list[r] \in Seq(Entries)
  BY Zenon DEF ListsFit, Lists
<1>8. /\ DOMAIN al = Routers /\ al[l.to] = Append(ack_list[l.to], e)
      /\ \A r \in Routers \ {l.to} : al[r] = ack_list[r]
      /\ al = [ack_list EXCEPT ![l.to] = al[l.to]]
  BY <1>7, Zenon
<1>9. al[l.to] \in Seq(Entry(l.to)) /\ al[l.to] \in Seq(Entries)
  BY <1>5, <1>6, <1>7, <1>8, AppendIs, Zenon
<1>10. al \in Lists
  BY <1>7, <1>8, <1>9, Zenon DEF Lists
<1>11. ListsFit(al)
  BY <1>7, <1>8, <1>9, <1>10, Zenon DEF ListsFit
<1>12. Noted(ack_list, al, l.to, e)
  BY <1>5, <1>7, <1>8, <1>10, Zenon DEF Noted, OneList
<1> QED BY <1>5, <1>11, <1>12, Zenon

\* A packet that goes on to another router, with an entry for its ACK.
LEMMA ForwardKeeps ==
  ASSUME ChannelsFit, TablesFit, Books, NEW l \in Channels, l.to \in Routers, l.vc # AckVC,
         NEW p \in Carried(l), NEW g \in Channels, p \in Carried(g),
         g.from = l.to, g.vc # AckVC, g.to \in Routers, l.to # Router[To[p.msg]],
         NEW q, NEW he, NEW st, NEW mc, Recvd(l, p, q, he, st, mc),
         NEW al, NEW e, e.msg = p.msg, e.port = l.from, Noted(ack_list, al, l.to, e), ListsFit(al)
  PROVE  Keeps(Pushed(q, g, p), he, al, st, mc)
<1>1. /\ Fit(q, he) /\ q \in Queues /\ Routed(q, he) /\ CountsFit(st, mc)
      /\ ack_list \in Lists /\ ListsFit(ack_list)
      /\ \A r \in Routers, m \in Messages :
           /\ st[r][m] \in Tallies
           /\ OffBy(q, he, ack_list, st[r][m], r, m, 0 - Counts(l, r, p, m), 0 - Closes(l, r, p, m))
           /\ r = Router[To[m]] => Kept(ack_list, r, m) = 0 /\ st[r][m].second = 0
  BY RecvdIs, SMT
<1>3. p \in Packets
  BY CarriedIs, Zenon
<1>13. Fit(Pushed(q, g, p), he)
  BY <1>1, PushFits, Zenon
<1>14. ASSUME NEW r \in Routers, NEW m \in Messages
       PROVE  Balanced(Pushed(q, g, p), he, al, st, r, m)
  <2>1. PICK c \in Tallies : c = st[r][m]
    BY <1>1, Zenon
  <2>2. OffBy(q, he, ack_list, c, r, m, 0 - Counts(l, r, p, m), 0 - Closes(l, r, p, m))
    BY <1>1, <2>1, Zenon
  <2>3. OffBy(Pushed(q, g, p), he, ack_list, c, r, m,
              (0 - Counts(l, r, p, m)) + Counts(g, r, p, m), (0 - Closes(l, r, p, m)) + Counts(g, r, p, m))
    BY <1>1, <1>3, <2>2, PushOff, Zenon
  <2>4. OffBy(Pushed(q, g, p), he, al, c, r, m,
              ((0 - Counts(l, r, p, m)) + Counts(g, r, p, m)) + Awaits(r, e, m) - Notes(l.to, r, e, m),
              ((0 - Closes(l, r, p, m)) + Counts(g, r, p, m)) + Awaits(r, e, m))
    BY <2>3, NoteOff, Zenon
  <2>5. /\ ((0 - Counts(l, r, p, m)) + Counts(g, r, p, m)) + Awaits(r, e, m) - Notes(l.to, r, e, m) = 0
        /\ ((0 - Closes(l, r, p, m)) + Counts(g, r, p, m)) + Awaits(r, e, m) = 0
    BY ForwardAddsUp, SMT
  <2>6. OffBy(Pushed(q, g, p), he, al, st[r][m], r, m, 0, 0)
    BY <2>1, <2>4, <2>5, Zenon
  <2>7. r = Router[To[m]] => Kept(al, r, m) = 0
    <3>1. ASSUME r = Router[To[m]]
          PROVE  Kept(al, r, m) = 0
      <4>1. l.to # r \/ e.msg # m
        BY <3>1, Zenon
      <4>2. Notes(l.to, r, e, m) = 0
        <5>1. CASE l.to # r
          BY <5>1, NotesIs, SMT
        <5>2. CASE l.to = r
          <6>1. OfMsg(e, m) = 0
            BY <4>1, <5>2, Zenon DEF OfMsg, One
          <6> QED BY <5>2, <6>1, NotesIs, SMT
        <5> QED BY <5>1, <5>2, Zenon
      <4>3. Kept(ack_list, r, m) = 0
        BY <1>1, <3>1, Zenon
      <4> QED BY <4>2, <4>3, NothingNoted, Zenon
    <3> QED BY <3>1, Zenon
  <2> QED BY <1>1, <2>6, <2>7, Settled, Zenon
<1> QED BY <1>1, <1>13, <1>14, Zenon DEF Keeps

LEMMA AckOfPacket ==
  ASSUME NEW p \in Packets, NEW v \in BOOLEAN
  PROVE  /\ [p EXCEPT !.ack = v] \in Packets /\ [p EXCEPT !.ack = v].msg = p.msg
         /\ [p EXCEPT !.ack = v].id = p.id /\ [p EXCEPT !.ack = v].ack = v
<1>1. DOMAIN p = {"msg", "id", "ack"} /\ p.msg \in Messages /\ p.id \in Nat
  BY SMT DEF Packets
<1>2. PICK a : a = [msg |-> p.msg, id |-> p.id, ack |-> v]
  BY Zenon
<1>3. a = [p EXCEPT !.ack = v]
  BY <1>2, SMT DEF Packets
<1>4. a \in Packets /\ a.msg = p.msg /\ a.id = p.id /\ a.ack = v
  BY <1>1, <1>2, Zenon DEF Packets
<1> QED BY <1>3, <1>4, Zenon

\* A packet that the last router passes to the host, with its ACK sent back.
LEMMA DeliverKeeps ==
  ASSUME ChannelsFit, TablesFit, Books, NEW l \in Channels, l.to \in Routers, l.vc # AckVC,
         NEW p \in Carried(l), NEW g \in Channels, p \in Carried(g),
         g.vc # AckVC, g.to \notin Routers, l.to = Router[To[p.msg]],
         NEW k \in Channels, k.vc = AckVC, k.to = l.from,
         NEW a \in Packets, a.msg = p.msg, a.id = p.id, a.ack = TRUE,
         NEW q, NEW he, NEW st, NEW mc, Recvd(l, p, q, he, st, mc)
  PROVE  Keeps(Pushed(Pushed(q, g, p), k, a), he, ack_list, st, mc)
<1>1. /\ Fit(q, he) /\ q \in Queues /\ Routed(q, he) /\ CountsFit(st, mc)
      /\ ack_list \in Lists /\ ListsFit(ack_list)
      /\ \A r \in Routers, m \in Messages :
           /\ st[r][m] \in Tallies
           /\ OffBy(q, he, ack_list, st[r][m], r, m, 0 - Counts(l, r, p, m), 0 - Closes(l, r, p, m))
           /\ r = Router[To[m]] => Kept(ack_list, r, m) = 0 /\ st[r][m].second = 0
  BY RecvdIs, SMT
<1>2. p \in Packets /\ p.msg \in Messages /\ p.id \in Nat /\ p.id < Length[p.msg]
  BY CarriedIs, Zenon
<1>3. a \in Packets /\ a.msg = p.msg
  BY Zenon
<1>4. a \in Carried(k)
  BY <1>2, Zenon DEF Carried
<1>5. PICK t : t = Pushed(q, g, p)
  BY Zenon
<1>6. Fit(t, he) /\ t \in Queues /\ Routed(t, he)
  BY <1>1, <1>5, PushFits, FitIs, Zenon
<1>7. Fit(Pushed(t, k, a), he)
  BY <1>4, <1>6, PushFits, Zenon
<1>8. ASSUME NEW r \in Routers, NEW m \in Messages
      PROVE  Balanced(Pushed(t, k, a), he, ack_list, st, r, m)
  <2>1. PICK c \in Tallies : c = st[r][m]
    BY <1>1, Zenon
  <2>2. PICK x : x = 0 - Counts(l, r, p, m)
    BY Zenon
  <2>3. PICK y : y = 0 - Closes(l, r, p, m)
    BY Zenon
  <2>4. OffBy(q, he, ack_list, c, r, m, x, y)
    BY <1>1, <2>1, <2>2, <2>3, Zenon
  <2>5. PICK u : u = Counts(g, r, p, m)
    BY Zenon
  <2>6. OffBy(Pushed(q, g, p), he, ack_list, c, r, m, x + Counts(g, r, p, m), y + Counts(g, r, p, m))
    BY <1>1, <1>2, <2>4, PushOff, Zenon
  <2>7. OffBy(t, he, ack_list, c, r, m, x + u, y + u)
    BY <1>5, <2>5, <2>6, Zenon
  <2>8. OffBy(Pushed(t, k, a), he, ack_list, c, r, m,
              (x + u) + Counts(k, r, a, m), (y + u) + Counts(k, r, a, m))
    BY <1>1, <1>3, <1>6, <2>7, PushOff, Zenon
  <2>9. /\ ((0 - Counts(l, r, p, m)) + Counts(g, r, p, m)) + Counts(k, r, a, m) = 0
        /\ r # Router[To[m]] =>
             ((0 - Closes(l, r, p, m)) + Counts(g, r, p, m)) + Counts(k, r, a, m) = 0
    <3>1. a.msg = p.msg
      BY <1>3, Zenon
    <3> QED BY <3>1, DeliverAddsUp, SMTT(30)
  <2>10. /\ (x + u) + Counts(k, r, a, m) = 0
         /\ r # Router[To[m]] => (y + u) + Counts(k, r, a, m) = 0
    BY <2>2, <2>3, <2>5, <2>9, Zenon
  <2>11. OffBy(Pushed(t, k, a), he, ack_list, st[r][m], r, m,
               (x + u) + Counts(k, r, a, m), (y + u) + Counts(k, r, a, m))
    BY <2>1, <2>8, Zenon
  <2> QED BY <1>1, <2>10, <2>11, Settled, Zenon
<1> QED BY <1>1, <1>5, <1>7, <1>8, Zenon DEF Keeps

\* The same when the packet came straight from a host: there is no ACK.
LEMMA HandOverKeeps ==
  ASSUME ChannelsFit, TablesFit, Books, NEW l \in Channels, l.to \in Routers, l.vc # AckVC,
         NEW p \in Carried(l), NEW g \in Channels, p \in Carried(g),
         g.vc # AckVC, g.to \notin Routers, l.to = Router[To[p.msg]], l.from \notin Routers,
         NEW q, NEW he, NEW st, NEW mc, Recvd(l, p, q, he, st, mc)
  PROVE  Keeps(Pushed(q, g, p), he, ack_list, st, mc)
<1>1. /\ Fit(q, he) /\ q \in Queues /\ Routed(q, he) /\ CountsFit(st, mc)
      /\ ack_list \in Lists /\ ListsFit(ack_list)
      /\ \A r \in Routers, m \in Messages :
           /\ st[r][m] \in Tallies
           /\ OffBy(q, he, ack_list, st[r][m], r, m, 0 - Counts(l, r, p, m), 0 - Closes(l, r, p, m))
           /\ r = Router[To[m]] => Kept(ack_list, r, m) = 0 /\ st[r][m].second = 0
  BY RecvdIs, SMT
<1>2. p \in Packets
  BY CarriedIs, Zenon
<1>3. Fit(Pushed(q, g, p), he)
  BY <1>1, PushFits, Zenon
<1>4. ASSUME NEW r \in Routers, NEW m \in Messages
      PROVE  Balanced(Pushed(q, g, p), he, ack_list, st, r, m)
  <2>1. PICK c \in Tallies : c = st[r][m]
    BY <1>1, Zenon
  <2>2. OffBy(q, he, ack_list, c, r, m, 0 - Counts(l, r, p, m), 0 - Closes(l, r, p, m))
    BY <1>1, <2>1, Zenon
  <2>3. OffBy(Pushed(q, g, p), he, ack_list, c, r, m,
              (0 - Counts(l, r, p, m)) + Counts(g, r, p, m), (0 - Closes(l, r, p, m)) + Counts(g, r, p, m))
    BY <1>1, <1>2, <2>2, PushOff, Zenon
  <2>4. /\ (0 - Counts(l, r, p, m)) + Counts(g, r, p, m) = 0
        /\ r # Router[To[m]] => (0 - Closes(l, r, p, m)) + Counts(g, r, p, m) = 0
    BY HandOverAddsUp, SMT
  <2>5. PICK x : x = (0 - Counts(l, r, p, m)) + Counts(g, r, p, m)
    BY Zenon
  <2>6. PICK y : y = (0 - Closes(l, r, p, m)) + Counts(g, r, p, m)
    BY Zenon
  <2>7. OffBy(Pushed(q, g, p), he, ack_list, st[r][m], r, m, x, y)
    BY <2>1, <2>3, <2>5, <2>6, Zenon
  <2> QED BY <1>1, <2>4, <2>5, <2>6, <2>7, Settled, Zenon
<1> QED BY <1>1, <1>3, <1>4, Zenon DEF Keeps

\* A message to the NIC of the source.
LEMMA DrainMessageFits ==
  ASSUME NEW m \in Messages, NEW b \in BOOLEAN, NEW ct \in [Hosts -> Seq([msg : Messages, stop : BOOLEAN])]
  PROVE  [ct EXCEPT ![From[m]] = Append(@, [msg |-> m, stop |-> b])]
           \in [Hosts -> Seq([msg : Messages, stop : BOOLEAN])]
<1>1. PICK c : c = [msg |-> m, stop |-> b]
  BY Zenon
<1>2. c \in [msg : Messages, stop : BOOLEAN]
  BY <1>1, SMT
<1>3. From[m] \in Hosts /\ ct[From[m]] \in Seq([msg : Messages, stop : BOOLEAN])
  BY MessagesAssumption, Zenon
<1>4. Append(ct[From[m]], c) \in Seq([msg : Messages, stop : BOOLEAN])
  BY <1>2, <1>3, AppendIs, Zenon
<1> QED BY <1>1, <1>4, Zenon

\* Only the NICs and what they are told change, and those as Grow says.
LEMMA GrowFits ==
  ASSUME NicsFit, NEW l, NEW hop, NEW m \in Messages, Grow(l, hop, m), UNCHANGED nics
  PROVE  NicsFit'
<1>1. /\ size_flowcut \in [Messages -> Nat] /\ draining_status \in [Messages -> BOOLEAN]
      /\ control \in [Hosts -> Seq([msg : Messages, stop : BOOLEAN])]
  BY Zenon DEF NicsFit
<1>2. PICK size : size = size_flowcut[m] + (IF l.to = Router[From[m]] THEN 1 ELSE 0)
  BY Zenon
<1>3. size \in Nat
  <2>1. size_flowcut[m] \in Nat
    BY <1>1, Zenon
  <2> QED BY <1>2, <2>1, SMT
<1>4. /\ size_flowcut' = [size_flowcut EXCEPT ![m] = size]
      /\ \/ UNCHANGED <<draining_status, control>>
         \/ /\ draining_status' = [draining_status EXCEPT ![m] = TRUE]
            /\ control' = [control EXCEPT ![From[m]] = Append(@, [msg |-> m, stop |-> FALSE])]
      /\ UNCHANGED latest_hop_count
  BY <1>2, Zenon DEF Grow
<1>5. size_flowcut' \in [Messages -> Nat]
  BY <1>1, <1>3, <1>4, Zenon
<1>6. /\ draining_status' \in [Messages -> BOOLEAN]
      /\ control' \in [Hosts -> Seq([msg : Messages, stop : BOOLEAN])]
  <2>1. CASE UNCHANGED <<draining_status, control>>
    BY <1>1, <2>1, Zenon
  <2>2. CASE /\ draining_status' = [draining_status EXCEPT ![m] = TRUE]
             /\ control' = [control EXCEPT ![From[m]] = Append(@, [msg |-> m, stop |-> FALSE])]
    BY <1>1, <2>2, DrainMessageFits, Zenon
  <2> QED BY <1>4, <2>1, <2>2, Zenon
<1> QED BY <1>4, <1>5, <1>6, Zenon DEF NicsFit, nics

LEMMA DataKeeps ==
  ASSUME ChannelsFit, TablesFit, Books, NicsFit, NEW l \in Channels,
         l.to \in Routers, queue[l] # <<>>, head[l] # Unrouted,
         NEW next \in NextHeads(l), Data(l, next)
  PROVE  ChannelsFit' /\ TablesFit' /\ Books' /\ NicsFit'
<1> DEFINE p == Head(queue[l])
           g == Channel(l.to, head[l].to, head[l].vc)
           k == Channel(l.to, l.from, AckVC)
           a == [p EXCEPT !.ack = TRUE]
           q == Popped(queue, l)
<1>1. /\ ~p.ack
      /\ head' = [head EXCEPT ![l] = next]
      /\ map_cached' = [map_cached EXCEPT ![l.to] = CachedAfter(l, next)]
      /\ list_ack_status' = [list_ack_status EXCEPT ![l.to] = StatusAfter(l, next)]
      /\ head[l].to \in Hosts =>
           /\ ack_list' = ack_list
           /\ l.from \in Hosts => queue' = Pushed(q, g, p)
           /\ l.from \notin Hosts => queue' = Pushed(Pushed(q, g, p), k, a)
      /\ head[l].to \notin Hosts =>
           /\ queue' = Pushed(q, g, p)
           /\ ack_list' = [ack_list EXCEPT ![l.to] = Append(@, AckInfo(p, l.from))]
      /\ Grow(l, head[l], p.msg)
      /\ UNCHANGED nics
  BY Zenon DEF Data, recvs, Listed
<1>2. Recvd(l, p, q, head', list_ack_status', map_cached')
  BY <1>1, RecvIs, Zenon
<1>3. /\ p \in Carried(l) /\ l.vc # AckVC /\ p.msg \in Messages
      /\ g \in Channels /\ g.from = l.to /\ g.to = head[l].to /\ g.vc # AckVC /\ p \in Carried(g)
      /\ g.to \in Hosts <=> l.to = Router[To[p.msg]]
      /\ g.to \in Routers <=> l.to # Router[To[p.msg]]
  BY <1>1, DataLeads, Zenon
<1>4. /\ l.from \in Routers \union Hosts /\ (l.from \in Routers => k \in Channels)
      /\ k.vc = AckVC /\ k.to = l.from
  <2>1. /\ l.from \in Routers \union Hosts
        /\ l.from \in Routers => Channel(l.to, l.from, AckVC) \in Channels
    BY <1>3, ChannelKinds, Zenon
  <2> QED BY <2>1, Zenon DEF Channel
<1>5. a \in Packets /\ a.msg = p.msg /\ a.id = p.id /\ a.ack = TRUE
  <2>1. p \in Packets
    BY <1>3, CarriedIs, Zenon
  <2> HIDE DEF p
  <2> QED BY <2>1, AckOfPacket, Zenon
<1>6. Routers \intersect Hosts = {}
  BY TopologyAssumption, Zenon
<1> HIDE DEF p, g, k, a, q
<1>7. Keeps(queue', head', ack_list', list_ack_status', map_cached')
  <2>1. CASE g.to \in Routers
    <3>1. l.to # Router[To[p.msg]] /\ head[l].to \notin Hosts
      BY <1>3, <1>6, <2>1, Zenon
    <3>2. /\ queue' = Pushed(q, g, p)
          /\ ack_list' = [ack_list EXCEPT ![l.to] = Append(@, AckInfo(p, l.from))]
      BY <1>1, <3>1, Zenon
    <3>3. PICK e : e = AckInfo(p, l.from)
      BY Zenon
    <3>4. ListsFit(ack_list)
      BY Zenon DEF TablesFit
    <3>5. e.msg = p.msg /\ e.port = l.from /\ Noted(ack_list, ack_list', l.to, e) /\ ListsFit(ack_list')
      BY <1>3, <3>2, <3>3, <3>4, NotedFits, Zenon
    <3>6. Keeps(Pushed(q, g, p), head', ack_list', list_ack_status', map_cached')
      BY <1>2, <1>3, <2>1, <3>1, <3>5, ForwardKeeps, Zenon
    <3> QED BY <3>2, <3>6, Zenon
  <2>2. CASE g.to \notin Routers /\ l.from \in Hosts
    <3>1. /\ l.to = Router[To[p.msg]] /\ queue' = Pushed(q, g, p) /\ ack_list' = ack_list
          /\ l.from \notin Routers
      BY <1>1, <1>3, <1>6, <2>2, Zenon
    <3>2. Keeps(Pushed(q, g, p), head', ack_list, list_ack_status', map_cached')
      BY <1>2, <1>3, <2>2, <3>1, HandOverKeeps, Zenon
    <3> QED BY <3>1, <3>2, Zenon
  <2>3. CASE g.to \notin Routers /\ l.from \notin Hosts
    <3>1. /\ l.to = Router[To[p.msg]] /\ queue' = Pushed(Pushed(q, g, p), k, a) /\ ack_list' = ack_list
          /\ k \in Channels /\ k.vc = AckVC /\ k.to = l.from
      BY <1>1, <1>3, <1>4, <2>3, Zenon
    <3>2. Keeps(Pushed(Pushed(q, g, p), k, a), head', ack_list, list_ack_status', map_cached')
      BY <1>2, <1>3, <1>5, <2>3, <3>1, DeliverKeeps, Zenon
    <3> QED BY <3>1, <3>2, Zenon
  <2> QED BY <2>1, <2>2, <2>3, Zenon
<1>8. NicsFit'
  BY <1>1, <1>3, GrowFits, Zenon
<1> QED BY <1>7, <1>8, Zenon DEF Keeps, ChannelsFit, TablesFit, Books

\* The entry an ACK takes: the first one of its pair of hosts.
LEMMA FirstMatch ==
  ASSUME NEW r \in Routers, ack_list[r] \in Seq(Entry(r)), NEW p,
         NEW k \in 1 .. Len(ack_list[r]), Pair(ack_list[r][k].msg) = Pair(p.msg)
  PROVE  /\ Matching(r, p) # {} /\ Match(r, p) \in 1 .. Len(ack_list[r])
         /\ ack_list[r][Match(r, p)] \in Entry(r)
         /\ Pair(ack_list[r][Match(r, p)].msg) = Pair(p.msg)
<1>1. DOMAIN ack_list[r] = 1 .. Len(ack_list[r]) /\ 1 .. Len(ack_list[r]) \subseteq Nat
  BY SMT
<1>2. k \in Matching(r, p) /\ Matching(r, p) \subseteq Nat
  BY <1>1, Zenon DEF Matching
<1>3. PICK i \in Matching(r, p) : \A d \in Matching(r, p) : ~ (<<d, i>> \in OpToRel(<, Nat))
  BY <1>2, WFMin, NatLessThanWellFounded, Zenon
<1>4. \A d \in Matching(r, p) : ~ (d < i)
  BY <1>2, <1>3 DEF OpToRel
<1>5. \A d \in Matching(r, p) : i <= d
  <2>1. \A d \in Nat : d \in Matching(r, p) => i \in Nat /\ ~ (d < i)
    BY <1>2, <1>4, Zenon
  <2>2. \A d \in Nat : d \in Matching(r, p) => i <= d
    BY <2>1, SMT
  <2> QED BY <1>2, <2>2, Zenon
<1>6. Match(r, p) \in Matching(r, p)
  BY <1>5, Zenon DEF Match
<1>7. PICK n : n = Match(r, p)
  BY Zenon
<1>8. n \in 1 .. Len(ack_list[r]) /\ Pair(ack_list[r][n].msg) = Pair(p.msg)
  BY <1>1, <1>6, <1>7, Zenon DEF Matching
<1>9. ack_list[r][n] \in Entry(r)
  BY <1>1, <1>8, ElementIs, Zenon
<1> QED BY <1>2, <1>7, <1>8, <1>9, Zenon

\* It is one of its own message, if no other message has the same hosts.
LEMMA MatchIs ==
  ASSUME OneMessageAPair, NEW r \in Routers, ack_list[r] \in Seq(Entry(r)),
         NEW p, p.msg \in Messages, NEW k \in 1 .. Len(ack_list[r]), ack_list[r][k].msg = p.msg
  PROVE  /\ Matching(r, p) # {} /\ Match(r, p) \in 1 .. Len(ack_list[r])
         /\ ack_list[r][Match(r, p)] \in Entry(r)
         /\ ack_list[r][Match(r, p)].msg = p.msg
<1>1. Pair(ack_list[r][k].msg) = Pair(p.msg)
  BY Zenon
<1>2. /\ Matching(r, p) # {} /\ Match(r, p) \in 1 .. Len(ack_list[r])
      /\ ack_list[r][Match(r, p)] \in Entry(r)
      /\ Pair(ack_list[r][Match(r, p)].msg) = Pair(p.msg)
  BY <1>1, FirstMatch, Zenon
<1>3. PICK e \in Entry(r) : e = ack_list[r][Match(r, p)]
  BY <1>2, Zenon
<1>4. e.msg \in Messages
  BY SMT DEF Entry, Entries
<1>5. e.msg = p.msg
  BY <1>2, <1>3, <1>4, Zenon DEF OneMessageAPair
<1> QED BY <1>2, <1>3, <1>5, Zenon

LEMMA AckLeads ==
  ASSUME ChannelsFit, TablesFit, Books, OneMessageAPair,
         NEW l \in Channels, l.vc = AckVC, queue[l] # <<>>, NEW p, p = Head(queue[l])
  PROVE  /\ p \in Carried(l) /\ p.msg \in Messages /\ l.to \in Routers /\ l.to # Router[To[p.msg]]
         /\ Matching(l.to, p) # {} /\ Match(l.to, p) \in 1 .. Len(ack_list[l.to])
         /\ ack_list[l.to][Match(l.to, p)] \in Entry(l.to)
         /\ ack_list[l.to][Match(l.to, p)].msg = p.msg
<1>2. p \in Carried(l) /\ 1 \in 1 .. Len(queue[l]) /\ p = queue[l][1]
  BY HeadIsCarried, Zenon
<1>3. PICK m : m = p.msg
  BY Zenon
<1>4. m = queue[l][1].msg
  BY <1>2, <1>3, Zenon
<1>5. /\ m \in Messages /\ l.to \in Routers /\ l.to # Router[To[m]]
      /\ \E k \in 1 .. Len(ack_list[l.to]) : ack_list[l.to][k].msg = m
  <2>1. 1 \in 1 .. Len(queue[l])
    BY <1>2, Zenon
  <2> QED BY <1>4, <2>1, AcksAreExpected, SMT
<1>6. PICK k \in 1 .. Len(ack_list[l.to]) : ack_list[l.to][k].msg = p.msg
  BY <1>3, <1>5, Zenon
<1>7. ack_list[l.to] \in Seq(Entry(l.to)) /\ p.msg \in Messages
  BY <1>3, <1>5, Zenon DEF TablesFit, ListsFit
<1> QED BY <1>2, <1>3, <1>5, <1>6, <1>7, MatchIs, Zenon

\* The list without the entry.
LEMMA StruckFits ==
  ASSUME ListsFit(ack_list), NEW r \in Routers, NEW i \in 1 .. Len(ack_list[r]),
         NEW al, al = [ack_list EXCEPT ![r] = Without(@, i)]
  PROVE  Struck(ack_list, al, r, i) /\ ListsFit(al)
<1>1. /\ DOMAIN ack_list = Routers /\ ack_list \in Lists
      /\ \A x \in Routers : ack_list[x] \in Seq(Entry(x)) /\ ack_list[x] \in Seq(Entries)
  BY Zenon DEF ListsFit, Lists
<1>2. /\ DOMAIN al = Routers /\ al[r] = Without(ack_list[r], i)
      /\ \A x \in Routers \ {r} : al[x] = ack_list[x]
      /\ al = [ack_list EXCEPT ![r] = al[r]]
  BY <1>1, Zenon
<1>3. al[r] \in Seq(Entry(r)) /\ al[r] \in Seq(Entries)
  BY <1>1, <1>2, WithoutIs, Zenon
<1>4. al \in Lists
  BY <1>1, <1>2, <1>3, Zenon DEF Lists
<1>5. ListsFit(al)
  BY <1>1, <1>2, <1>3, <1>4, Zenon DEF ListsFit
<1>6. Struck(ack_list, al, r, i)
  BY <1>1, <1>2, <1>4, Zenon DEF Struck, OneList
<1> QED BY <1>5, <1>6, Zenon

\* Counts that are equal may start again.
Restarts(st, su) ==
  \A r \in Routers, m \in Messages :
    \/ su[r][m] = st[r][m]
    \/ st[r][m].first = st[r][m].second /\ su[r][m] = NotCounted

LEMMA RestartFits ==
  ASSUME NEW st, NEW su, NEW mc, CountsFit(st, mc), su \in [Routers -> [Messages -> Tallies]], Restarts(st, su)
  PROVE  CountsFit(su, mc)
<1>1. ASSUME NEW r \in Routers, NEW m \in Messages
      PROVE  CachedFits(su, mc, r, m)
  <2>1. CASE su[r][m] = st[r][m]
    BY <2>1, Zenon DEF CountsFit, CachedFits
  <2>2. CASE su[r][m] = NotCounted
    <3>1. NotCounted.first = 0
      BY Zenon DEF NotCounted
    <3>2. ~(NotCounted.first > 0)
      BY <3>1, SMT
    <3> QED BY <2>2, <3>2, Zenon DEF CachedFits
  <2> QED BY <2>1, <2>2, Zenon DEF Restarts
<1> QED BY <1>1, Zenon DEF CountsFit

LEMMA RestartOff ==
  ASSUME NEW q, NEW hd, NEW al \in Lists, NEW c \in Tallies, NEW d \in Tallies, NEW r \in Routers, NEW m, NEW x, NEW y,
         d = c \/ (c.first = c.second /\ d = NotCounted),
         OffBy(q, hd, al, c, r, m, x, y)
  PROVE  OffBy(q, hd, al, d, r, m, x, y)
<1>1. CASE d = c
  BY <1>1, Zenon
<1>2. CASE c.first = c.second /\ d = NotCounted
  <2>1. /\ Sums(q, hd, al, r, m) /\ x \in Int /\ y \in Int
        /\ Kept(al, r, m) + x = Out(q, r, m) + Coming(al, r, m)
        /\ r # Router[To[m]] => c.first + y = c.second + Coming(al, r, m) + Pending(q, hd, r, m)
    BY Zenon DEF OffBy
  <2>2. c.first \in Nat /\ d.first = 0 /\ d.second = 0
    BY <1>2, SMT DEF Tallies, NotCounted
  <2>3. Coming(al, r, m) \in Nat /\ Pending(q, hd, r, m) \in Nat
    BY <2>1, SumsAre, Zenon
  <2>4. r # Router[To[m]] => d.first + y = d.second + Coming(al, r, m) + Pending(q, hd, r, m)
    <3>1. ASSUME r # Router[To[m]]
          PROVE  0 + y = 0 + Coming(al, r, m) + Pending(q, hd, r, m)
      <4>1. PICK a \in Nat : a = c.first
        BY <2>2, Zenon
      <4>2. a + y = a + Coming(al, r, m) + Pending(q, hd, r, m)
        BY <1>2, <2>1, <3>1, <4>1, Zenon
      <4> QED BY <2>1, <2>3, <4>2, SMT
    <3> QED BY <2>2, <3>1, Zenon
  <2> QED BY <2>1, <2>4, Zenon DEF OffBy
<1> QED BY <1>1, <1>2, Zenon

\* An ACK that goes on to the router its entry names.
LEMMA BackKeeps ==
  ASSUME ChannelsFit, TablesFit, Books, NEW l \in Channels, l.to \in Routers, l.vc = AckVC,
         NEW p \in Carried(l), NEW k \in Channels, k.vc = AckVC,
         NEW i, NEW e, e = ack_list[l.to][i], e.msg = p.msg, k.to = e.port,
         NEW al, Struck(ack_list, al, l.to, i), ListsFit(al),
         NEW q, NEW he, NEW st, NEW mc, Recvd(l, p, q, he, st, mc),
         NEW su \in [Routers -> [Messages -> Tallies]], Restarts(st, su)
  PROVE  Keeps(Pushed(q, k, p), he, al, su, mc)
<1>1. /\ Fit(q, he) /\ q \in Queues /\ Routed(q, he) /\ CountsFit(st, mc)
      /\ ack_list \in Lists /\ ListsFit(ack_list)
      /\ \A r \in Routers, m \in Messages :
           /\ st[r][m] \in Tallies
           /\ OffBy(q, he, ack_list, st[r][m], r, m, 0 - Counts(l, r, p, m), 0 - Closes(l, r, p, m))
           /\ r = Router[To[m]] => Kept(ack_list, r, m) = 0 /\ st[r][m].second = 0
  BY RecvdIs, SMT
<1>2. p \in Packets /\ p.msg \in Messages /\ p.id \in Nat /\ p.id < Length[p.msg] /\ p.ack = TRUE
  BY CarriedIs, Zenon
<1>3. p \in Carried(k)
  BY <1>2, Zenon DEF Carried
<1>4. Fit(Pushed(q, k, p), he)
  BY <1>1, <1>3, PushFits, Zenon
<1>5. PICK t : t = Pushed(q, k, p)
  BY Zenon
<1>6. al \in Lists
  BY Zenon DEF ListsFit
<1>7. ASSUME NEW r \in Routers, NEW m \in Messages
      PROVE  Balanced(t, he, al, su, r, m)
  <2>1. PICK c \in Tallies : c = st[r][m]
    BY <1>1, Zenon
  <2>2. PICK x : x = 0 - Counts(l, r, p, m)
    BY Zenon
  <2>3. PICK y : y = 0 - Closes(l, r, p, m)
    BY Zenon
  <2>4. OffBy(q, he, ack_list, c, r, m, x, y)
    BY <1>1, <2>1, <2>2, <2>3, Zenon
  <2>5. PICK x1 : x1 = x + Notes(l.to, r, e, m) - Awaits(r, e, m)
    BY Zenon
  <2>6. PICK y1 : y1 = y - Awaits(r, e, m)
    BY Zenon
  <2>7. OffBy(q, he, al, c, r, m,
              x + Notes(l.to, r, ack_list[l.to][i], m) - Awaits(r, ack_list[l.to][i], m),
              y - Awaits(r, ack_list[l.to][i], m))
    BY <2>4, StrikeOff, Zenon
  <2>8. OffBy(q, he, al, c, r, m, x1, y1)
    BY <2>5, <2>6, <2>7, Zenon
  <2>9. OffBy(Pushed(q, k, p), he, al, c, r, m, x1 + Counts(k, r, p, m), y1 + Counts(k, r, p, m))
    BY <1>1, <1>2, <1>6, <2>8, PushOff, Zenon
  <2>10. PICK x2 : x2 = x1 + Counts(k, r, p, m)
    BY Zenon
  <2>11. PICK y2 : y2 = y1 + Counts(k, r, p, m)
    BY Zenon
  <2>12. OffBy(t, he, al, c, r, m, x2, y2)
    BY <1>5, <2>9, <2>10, <2>11, Zenon
  <2>13. /\ ((0 - Counts(l, r, p, m)) + Notes(l.to, r, e, m) - Awaits(r, e, m)) + Counts(k, r, p, m) = 0
         /\ ((0 - Closes(l, r, p, m)) - Awaits(r, e, m)) + Counts(k, r, p, m) = 0
    BY BackAddsUp, SMTT(20)
  <2>14. x2 = 0 /\ y2 = 0
    BY <2>2, <2>3, <2>5, <2>6, <2>10, <2>11, <2>13, Zenon
  <2>15. PICK d \in Tallies : d = su[r][m]
    BY Zenon
  <2>16. d = c \/ (c.first = c.second /\ d = NotCounted)
    BY <2>1, <2>15, Zenon DEF Restarts
  <2>17. OffBy(t, he, al, su[r][m], r, m, x2, y2)
    BY <1>6, <2>12, <2>15, <2>16, RestartOff, Zenon
  <2>18. r = Router[To[m]] => Kept(al, r, m) = 0 /\ su[r][m].second = 0
    <3>1. ASSUME r = Router[To[m]]
          PROVE  Kept(al, r, m) = 0 /\ su[r][m].second = 0
      <4>1. Kept(ack_list, r, m) = 0 /\ c.second = 0
        BY <1>1, <2>1, <3>1, Zenon
      <4>2. Kept(al, r, m) = 0
        BY <4>1, NothingStruck, Zenon
      <4>3. NotCounted.second = 0
        BY Zenon DEF NotCounted
      <4> QED BY <2>15, <2>16, <4>1, <4>2, <4>3, Zenon
    <3> QED BY <3>1, Zenon
  <2> QED BY <2>14, <2>17, <2>18, Settled, Zenon
<1>8. CountsFit(su, mc)
  BY <1>1, RestartFits, Zenon
<1> QED BY <1>4, <1>5, <1>7, <1>8, Zenon DEF Keeps

\* An ACK that ends at the port of the host.
LEMMA BackToHostKeeps ==
  ASSUME ChannelsFit, TablesFit, Books, NEW l \in Channels, l.to \in Routers, l.vc = AckVC,
         NEW p \in Carried(l),
         NEW i, NEW e, e = ack_list[l.to][i], e.msg = p.msg, e.port \notin Routers,
         NEW al, Struck(ack_list, al, l.to, i), ListsFit(al),
         NEW q, NEW he, NEW st, NEW mc, Recvd(l, p, q, he, st, mc),
         NEW su \in [Routers -> [Messages -> Tallies]], Restarts(st, su)
  PROVE  Keeps(q, he, al, su, mc)
<1>1. /\ Fit(q, he) /\ q \in Queues /\ Routed(q, he) /\ CountsFit(st, mc)
      /\ ack_list \in Lists /\ ListsFit(ack_list)
      /\ \A r \in Routers, m \in Messages :
           /\ st[r][m] \in Tallies
           /\ OffBy(q, he, ack_list, st[r][m], r, m, 0 - Counts(l, r, p, m), 0 - Closes(l, r, p, m))
           /\ r = Router[To[m]] => Kept(ack_list, r, m) = 0 /\ st[r][m].second = 0
  BY RecvdIs, SMT
<1>6. al \in Lists
  BY Zenon DEF ListsFit
<1>7. ASSUME NEW r \in Routers, NEW m \in Messages
      PROVE  Balanced(q, he, al, su, r, m)
  <2>1. PICK c \in Tallies : c = st[r][m]
    BY <1>1, Zenon
  <2>2. PICK x : x = 0 - Counts(l, r, p, m)
    BY Zenon
  <2>3. PICK y : y = 0 - Closes(l, r, p, m)
    BY Zenon
  <2>4. OffBy(q, he, ack_list, c, r, m, x, y)
    BY <1>1, <2>1, <2>2, <2>3, Zenon
  <2>5. PICK x1 : x1 = x + Notes(l.to, r, e, m) - Awaits(r, e, m)
    BY Zenon
  <2>6. PICK y1 : y1 = y - Awaits(r, e, m)
    BY Zenon
  <2>7. OffBy(q, he, al, c, r, m,
              x + Notes(l.to, r, ack_list[l.to][i], m) - Awaits(r, ack_list[l.to][i], m),
              y - Awaits(r, ack_list[l.to][i], m))
    BY <2>4, StrikeOff, Zenon
  <2>8. OffBy(q, he, al, c, r, m, x1, y1)
    BY <2>5, <2>6, <2>7, Zenon
  <2>13. /\ (0 - Counts(l, r, p, m)) + Notes(l.to, r, e, m) - Awaits(r, e, m) = 0
         /\ (0 - Closes(l, r, p, m)) - Awaits(r, e, m) = 0
    BY BackToHostAddsUp, SMT
  <2>14. x1 = 0 /\ y1 = 0
    BY <2>2, <2>3, <2>5, <2>6, <2>13, Zenon
  <2>15. PICK d \in Tallies : d = su[r][m]
    BY Zenon
  <2>16. d = c \/ (c.first = c.second /\ d = NotCounted)
    BY <2>1, <2>15, Zenon DEF Restarts
  <2>17. OffBy(q, he, al, su[r][m], r, m, x1, y1)
    BY <1>6, <2>8, <2>15, <2>16, RestartOff, Zenon
  <2>18. r = Router[To[m]] => Kept(al, r, m) = 0 /\ su[r][m].second = 0
    <3>1. ASSUME r = Router[To[m]]
          PROVE  Kept(al, r, m) = 0 /\ su[r][m].second = 0
      <4>1. Kept(ack_list, r, m) = 0 /\ c.second = 0
        BY <1>1, <2>1, <3>1, Zenon
      <4>2. Kept(al, r, m) = 0
        BY <4>1, NothingStruck, Zenon
      <4>3. NotCounted.second = 0
        BY Zenon DEF NotCounted
      <4> QED BY <2>15, <2>16, <4>1, <4>2, <4>3, Zenon
    <3> QED BY <3>1, Zenon
  <2> QED BY <2>14, <2>17, <2>18, Settled, Zenon
<1>8. CountsFit(su, mc)
  BY <1>1, RestartFits, Zenon
<1> QED BY <1>1, <1>7, <1>8, Zenon DEF Keeps

LEMMA EndDrainFits ==
  ASSUME NicsFit, NEW r, NEW p, p.msg \in Messages, NEW port, NEW drained,
         EndDrain(r, p, port, drained), UNCHANGED nics
  PROVE  NicsFit'
<1>1. /\ size_flowcut \in [Messages -> Nat] /\ draining_status \in [Messages -> BOOLEAN]
      /\ latest_hop_count \in [Messages -> 0 .. 1]
      /\ control \in [Hosts -> Seq([msg : Messages, stop : BOOLEAN])]
  BY Zenon DEF NicsFit
<1>2. CASE UNCHANGED drain
  BY <1>2, Zenon DEF NicsFit, nics, drain
<1>3. CASE ~UNCHANGED drain
  <2>1. /\ size_flowcut' = [size_flowcut EXCEPT ![p.msg] = IF drained THEN 0 ELSE size_flowcut[p.msg]]
        /\ latest_hop_count' =
             [latest_hop_count EXCEPT ![p.msg] = IF port \in Hosts THEN 1 ELSE latest_hop_count[p.msg]]
        /\ \/ UNCHANGED <<draining_status, control>>
           \/ /\ draining_status' = [draining_status EXCEPT ![p.msg] = FALSE]
              /\ control' = [control EXCEPT ![From[p.msg]] = Append(@, [msg |-> p.msg, stop |-> TRUE])]
    BY <1>3, Zenon DEF EndDrain
  <2>2. size_flowcut' \in [Messages -> Nat]
    <3>1. 0 \in Nat /\ size_flowcut[p.msg] \in Nat
      BY <1>1, SMT
    <3>2. (IF drained THEN 0 ELSE size_flowcut[p.msg]) \in Nat
      BY <3>1, Zenon
    <3> QED BY <1>1, <2>1, <3>2, Zenon
  <2>3. latest_hop_count' \in [Messages -> 0 .. 1]
    <3>1. 1 \in 0 .. 1
      BY SMT
    <3>2. (IF port \in Hosts THEN 1 ELSE latest_hop_count[p.msg]) \in 0 .. 1
      BY <1>1, <3>1, Zenon
    <3> QED BY <1>1, <2>1, <3>2, Zenon
  <2>4. /\ draining_status' \in [Messages -> BOOLEAN]
        /\ control' \in [Hosts -> Seq([msg : Messages, stop : BOOLEAN])]
    <3>1. CASE UNCHANGED <<draining_status, control>>
      BY <1>1, <3>1, Zenon
    <3>2. CASE /\ draining_status' = [draining_status EXCEPT ![p.msg] = FALSE]
               /\ control' = [control EXCEPT ![From[p.msg]] = Append(@, [msg |-> p.msg, stop |-> TRUE])]
      BY <1>1, <3>2, DrainMessageFits, Zenon
    <3> QED BY <2>1, <3>1, <3>2, Zenon
  <2> QED BY <2>2, <2>3, <2>4, Zenon DEF NicsFit, nics
<1> QED BY <1>2, <1>3, Zenon

\* The counts of a router start again after the last ACK in flight.
After(status, m) == IF status[m].first = status[m].second THEN [status EXCEPT ![m] = NotCounted]
                                                          ELSE status

LEMMA AckRestarts ==
  ASSUME NEW s0 \in [Routers -> [Messages -> Tallies]], NEW x \in Routers, NEW m0 \in Messages,
         NEW status \in [Messages -> Tallies]
  PROVE  /\ [s0 EXCEPT ![x] = After(status, m0)] \in [Routers -> [Messages -> Tallies]]
         /\ Restarts([s0 EXCEPT ![x] = status], [s0 EXCEPT ![x] = After(status, m0)])
<1> DEFINE st == [s0 EXCEPT ![x] = status]
           su == [s0 EXCEPT ![x] = After(status, m0)]
<1>1. NotCounted \in Tallies
  BY SMT DEF NotCounted, Tallies
<1>3. CASE status[m0].first = status[m0].second
  <2>1. PICK t : t = [status EXCEPT ![m0] = NotCounted]
    BY Zenon
  <2>2. t \in [Messages -> Tallies] /\ t[m0] = NotCounted /\ \A m \in Messages \ {m0} : t[m] = status[m]
    BY <1>1, <2>1, Zenon
  <2>3. su = [s0 EXCEPT ![x] = t]
    BY <1>3, <2>1, Zenon DEF After
  <2>4. su \in [Routers -> [Messages -> Tallies]]
    BY <2>2, <2>3, Zenon
  <2>5. Restarts(st, su)
    BY <1>3, <2>2, <2>3, Zenon DEF Restarts
  <2> QED BY <2>4, <2>5, Zenon
<1>4. CASE status[m0].first # status[m0].second
  <2>1. su = st /\ su \in [Routers -> [Messages -> Tallies]]
    BY <1>4, Zenon DEF After
  <2> QED BY <2>1, Zenon DEF Restarts
<1> QED BY <1>3, <1>4, Zenon

LEMMA AckKeeps ==
  ASSUME ChannelsFit, TablesFit, Books, NicsFit, OneMessageAPair, NEW l \in Channels,
         l.to \in Routers, queue[l] # <<>>, head[l] # Unrouted,
         NEW next \in NextHeads(l), Ack(l, next)
  PROVE  ChannelsFit' /\ TablesFit' /\ Books' /\ NicsFit'
<1> DEFINE p == Head(queue[l])
           i == Match(l.to, p)
           e == ack_list[l.to][i]
           status == StatusAfter(l, next)
           drained == status[p.msg].first = status[p.msg].second
           st == [list_ack_status EXCEPT ![l.to] = status]
           q == Popped(queue, l)
           k == Channel(l.to, e.port, AckVC)
<1>1. p.ack
  BY Zenon DEF Ack
<1>2. l.vc = AckVC
  <2>1. p \in Carried(l)
    BY HeadIsCarried, Zenon
  <2>2. OfKind(p, l)
    <3> HIDE DEF p
    <3> QED BY <2>1, CarriedIs, Zenon
  <2> QED BY <1>1, <2>2, Zenon DEF OfKind
<1>3. /\ p \in Carried(l) /\ p.msg \in Messages
      /\ Matching(l.to, p) # {} /\ i \in 1 .. Len(ack_list[l.to])
      /\ e \in Entry(l.to) /\ e.msg = p.msg
  BY <1>2, AckLeads, Zenon
<1>4. /\ head' = [head EXCEPT ![l] = next]
      /\ map_cached' = [map_cached EXCEPT ![l.to] = CachedAfter(l, next)]
      /\ ack_list' = [ack_list EXCEPT ![l.to] = Without(@, i)]
      /\ list_ack_status' = [list_ack_status EXCEPT ![l.to] =
                               IF drained THEN [status EXCEPT ![p.msg] = NotCounted] ELSE status]
      /\ queue' = IF e.port \in Hosts THEN q ELSE Pushed(q, k, p)
      /\ EndDrain(l.to, p, e.port, drained)
      /\ UNCHANGED nics
  BY <1>3, Zenon DEF Ack, recvs, Without
<1>5. Recvd(l, p, q, head', st, map_cached')
  BY <1>4, RecvIs, Zenon
<1>6. /\ e.port \in Routers \union Hosts /\ (e.port \in Routers => k \in Channels)
      /\ k.vc = AckVC /\ k.to = e.port
  <2>1. PICK f \in Entry(l.to) : f = e
    BY <1>3, Zenon
  <2>2. f.port \in Routers \union Hosts /\ (f.port \in Routers => Channel(l.to, f.port, AckVC) \in Channels)
    <3>1. f \in Entries /\ (f.port \in Routers => Channel(l.to, f.port, AckVC) \in Channels)
      BY Zenon DEF Entry
    <3>2. f.port \in Routers \union Hosts
      BY <3>1, SMT DEF Entries
    <3> QED BY <3>1, <3>2, Zenon
  <2> QED BY <2>1, <2>2, Zenon DEF Channel
<1>7. Routers \intersect Hosts = {}
  BY TopologyAssumption, Zenon
<1>8. ListsFit(ack_list) /\ list_ack_status \in [Routers -> [Messages -> Tallies]]
  BY Zenon DEF TablesFit, CountsFit
<1>9. Struck(ack_list, ack_list', l.to, i) /\ ListsFit(ack_list')
  BY <1>3, <1>4, <1>8, StruckFits, Zenon
<1>10. list_ack_status' \in [Routers -> [Messages -> Tallies]] /\ Restarts(st, list_ack_status')
  <2>1. st \in [Routers -> [Messages -> Tallies]]
    BY <1>5, Zenon DEF Recvd, CountsFit
  <2>2. status \in [Messages -> Tallies]
    <3>1. st[l.to] = status
      BY <1>8, Zenon
    <3> QED BY <2>1, <3>1, Zenon
  <2> HIDE DEF p, status
  <2>3. list_ack_status' = [list_ack_status EXCEPT ![l.to] = After(status, p.msg)]
    BY <1>4, Zenon DEF After
  <2> QED BY <1>3, <1>8, <2>2, <2>3, AckRestarts, Zenon
<1> HIDE DEF p, i, e, status, drained, st, q, k
<1>11. e = ack_list[l.to][i]
  BY Zenon DEF e
<1>12. Keeps(queue', head', ack_list', list_ack_status', map_cached')
  <2>1. CASE e.port \in Hosts
    <3>1. e.port \notin Routers /\ queue' = q
      BY <1>4, <1>7, <2>1, Zenon
    <3>2. Keeps(q, head', ack_list', list_ack_status', map_cached')
      BY <1>2, <1>3, <1>5, <1>9, <1>10, <1>11, <3>1, BackToHostKeeps, Zenon
    <3> QED BY <3>1, <3>2, Zenon
  <2>2. CASE e.port \notin Hosts
    <3>1. k \in Channels /\ k.vc = AckVC /\ k.to = e.port /\ queue' = Pushed(q, k, p)
      BY <1>4, <1>6, <2>2, Zenon
    <3>2. Keeps(Pushed(q, k, p), head', ack_list', list_ack_status', map_cached')
      BY <1>2, <1>3, <1>5, <1>9, <1>10, <1>11, <3>1, BackKeeps, Zenon
    <3> QED BY <3>1, <3>2, Zenon
  <2> QED BY <2>1, <2>2, Zenon
<1>13. NicsFit'
  BY <1>3, <1>4, EndDrainFits, Zenon
<1> QED BY <1>12, <1>13, Zenon DEF Keeps, ChannelsFit, TablesFit, Books

---------------------------------------------------------------------------
(* The invariant holds *)

LEMMA InitFits ==
  ASSUME Init
  PROVE  FitsInv
<1>1. /\ queue = [l \in Channels |-> <<>>] /\ head = [l \in Channels |-> Unrouted]
      /\ list_ack_status = [r \in Routers |-> [m \in Messages |-> NotCounted]]
      /\ map_cached = [r \in Routers |-> [m \in Messages |-> Hop(Port0[r], 0)]]
      /\ ack_list = [r \in Routers |-> <<>>]
      /\ sent = [m \in Messages |-> 0] /\ draining_map = [m \in Messages |-> FALSE]
      /\ size_flowcut = [m \in Messages |-> 0] /\ latest_hop_count = [m \in Messages |-> 0]
      /\ draining_status = [m \in Messages |-> FALSE] /\ control = [h \in Hosts |-> <<>>]
      /\ recv = [m \in Messages |-> 0] /\ held = [m \in Messages |-> {}]
  BY Zenon DEF Init
<1>2. ASSUME NEW S
      PROVE  <<>> \in Seq(S)
  BY SMT
<1>3. ChannelsFit
  <2>1. queue \in Queues /\ DOMAIN head = Channels
    BY <1>1, <1>2, Zenon DEF Queues
  <2>2. \A l \in Channels : queue[l] \in Seq(Carried(l)) /\ HeadFits(queue, head, l)
    BY <1>1, <1>2, Zenon DEF HeadFits
  <2> QED BY <2>1, <2>2, Zenon DEF ChannelsFit, Fit
<1>4. TablesFit
  <2>1. NotCounted \in Tallies /\ NotCounted.first = 0 /\ ~(0 > 0)
    BY SMT DEF NotCounted, Tallies
  <2>2. list_ack_status \in [Routers -> [Messages -> Tallies]]
    BY <1>1, <2>1, Zenon
  <2>3. \A r \in Routers : Hop(Port0[r], 0) \in [to : Routers \union Hosts, vc : Nat]
    <3>1. ASSUME NEW h \in Hosts
          PROVE  Hop(h, 0) \in [to : Routers \union Hosts, vc : Nat]
      BY SMT DEF Hop
    <3>2. \A r \in Routers : Port0[r] \in Hosts
      BY TopologyAssumption, Zenon
    <3> QED BY <3>1, <3>2, Zenon
  <2>4. map_cached \in [Routers -> [Messages -> [to : Routers \union Hosts, vc : Nat]]]
    BY <1>1, <2>3, Zenon
  <2>5. \A r \in Routers, m \in Messages : CachedFits(list_ack_status, map_cached, r, m)
    BY <1>1, <2>1, Zenon DEF CachedFits
  <2>6. ListsFit(ack_list)
    BY <1>1, <1>2, Zenon DEF ListsFit, Lists
  <2> QED BY <2>2, <2>4, <2>5, <2>6, Zenon DEF TablesFit, CountsFit
<1>5. NicsFit
  <2>1. Length \in [Messages -> Nat] /\ 0 \in Nat /\ 0 \in 0 .. 1 /\ \A n \in Nat : 0 <= n
    BY MessagesAssumption, SMT
  <2>2. \A m \in Messages : 0 <= Length[m]
    BY <2>1, Zenon
  <2> QED BY <1>1, <1>2, <2>1, <2>2, Zenon DEF NicsFit
<1> QED BY <1>3, <1>4, <1>5, Zenon DEF FitsInv

LEMMA InitBalances ==
  ASSUME Init
  PROVE  Books
<1>1. /\ \A l \in Channels : queue[l] = <<>> /\ head[l] = Unrouted
      /\ \A r \in Routers : ack_list[r] = <<>>
      /\ \A r \in Routers, m \in Messages : list_ack_status[r][m] = NotCounted
  BY Zenon DEF Init
<1>2. queue \in Queues /\ Routed(queue, head) /\ ack_list \in Lists
  <2>1. ChannelsFit /\ TablesFit
    BY InitFits, Zenon DEF FitsInv
  <2> QED BY <2>1, FitIs, Zenon DEF ChannelsFit, TablesFit, ListsFit
<1>3. ASSUME NEW r \in Routers, NEW m \in Messages
      PROVE  Balanced(queue, head, ack_list, list_ack_status, r, m)
  <2>1. Summed(Channels, Load(queue, r, m)) /\ Total(Channels, Load(queue, r, m)) = 0
    <3>1. LoadTerms(Load(queue, r, m), queue, r, m)
      BY <1>2, LoadIs, Zenon
    <3>2. \A l \in Channels : Load(queue, r, m)[l] = 0
      BY <1>1, <3>1, HowManyOfNone, Zenon DEF LoadTerms
    <3> QED BY <3>1, <3>2, SummedNone, Zenon DEF LoadTerms
  <2>2. Summed(Channels, Open(queue, head, r, m)) /\ Total(Channels, Open(queue, head, r, m)) = 0
    <3>1. OpenTerms(Open(queue, head, r, m), queue, head, r, m)
      BY <1>2, OpenIs, Zenon
    <3>2. ASSUME NEW l \in Channels
          PROVE  OpenAt(queue, head, l, r, m) = 0
      <4>1. /\ On(l, r) => OpenAt(queue, head, l, r, m) = HowMany(queue[l], PacketsOf(m))
            /\ ~On(l, r) => OpenAt(queue, head, l, r, m) = 0
        BY <1>1, <1>2, OpenUnrouted, Zenon
      <4>2. HowMany(queue[l], PacketsOf(m)) = 0
        BY <1>1, HowManyOfNone, Zenon
      <4> QED BY <4>1, <4>2, Zenon
    <3>3. \A l \in Channels : Open(queue, head, r, m)[l] = 0
      BY <3>1, <3>2, Zenon DEF OpenTerms
    <3> QED BY <3>1, <3>3, SummedNone, Zenon DEF OpenTerms
  <2>3. Summed(Routers, Due(ack_list, r, m)) /\ Total(Routers, Due(ack_list, r, m)) = 0
    <3>1. DueTerms(Due(ack_list, r, m), ack_list, r, m)
      BY <1>2, DueIs, Zenon
    <3>2. \A x \in Routers : Due(ack_list, r, m)[x] = 0
      BY <1>1, <3>1, HowManyOfNone, Zenon DEF DueTerms
    <3> QED BY <3>1, <3>2, SummedNone, Zenon DEF DueTerms
  <2>4. Kept(ack_list, r, m) = 0
    BY <1>1, HowManyOfNone, Zenon DEF Kept
  <2>5. NotCounted.first = 0 /\ NotCounted.second = 0
    BY Zenon DEF NotCounted
  <2>6. 0 \in Int /\ 0 + 0 = 0 /\ 0 + 0 + 0 = 0
    BY SMT
  <2>7. Sums(queue, head, ack_list, r, m)
    BY <2>1, <2>2, <2>3, Zenon DEF Sums
  <2>8. /\ Out(queue, r, m) = 0 /\ Coming(ack_list, r, m) = 0 /\ Pending(queue, head, r, m) = 0
    BY <2>1, <2>2, <2>3, Zenon DEF Out, Coming, Pending
  <2>9. OffBy(queue, head, ack_list, NotCounted, r, m, 0, 0)
    BY <2>4, <2>5, <2>6, <2>7, <2>8, Zenon DEF OffBy
  <2> QED BY <1>1, <2>4, <2>5, <2>9, Zenon DEF Balanced
<1> QED BY <1>3, Zenon DEF Books

\* The induction step, one case for each action.
LEMMA StepKeeps ==
  ASSUME OneMessageAPair, RouterInv, [Next]_vars
  PROVE  RouterInv'
<1>1. ChannelsFit /\ TablesFit /\ Books /\ NicsFit
  BY Zenon DEF RouterInv, FitsInv
<1>2. ASSUME NEW m \in Messages, getPayload(m)
      PROVE  ChannelsFit' /\ TablesFit' /\ Books' /\ NicsFit'
  BY <1>1, <1>2, GetPayloadKeeps, Zenon
<1>3. ASSUME NEW h \in Hosts, processControl(h)
      PROVE  ChannelsFit' /\ TablesFit' /\ Books' /\ NicsFit'
  BY <1>1, <1>3, ProcessControlKeeps, Zenon
<1>4. ASSUME NEW l \in Channels, Arrive(l)
      PROVE  ChannelsFit' /\ TablesFit' /\ Books' /\ NicsFit'
  BY <1>1, <1>4, ArriveKeeps, Zenon
<1>5. ASSUME NEW l \in Channels, Cross(l)
      PROVE  ChannelsFit' /\ TablesFit' /\ Books' /\ NicsFit'
  <2>1. PICK next \in NextHeads(l) : Data(l, next) \/ Ack(l, next)
    BY <1>5, Zenon DEF Cross
  <2>2. l.to \in Routers /\ queue[l] # <<>> /\ head[l] # Unrouted
    BY <1>5, Zenon DEF Cross
  <2>3. CASE Data(l, next)
    BY <1>1, <2>2, <2>3, DataKeeps, Zenon
  <2>4. CASE Ack(l, next)
    BY <1>1, <2>2, <2>4, AckKeeps, Zenon
  <2> QED BY <2>1, <2>3, <2>4, Zenon
<1>6. ASSUME NEW l \in Channels, handle_event(l)
      PROVE  ChannelsFit' /\ TablesFit' /\ Books' /\ NicsFit'
  BY <1>1, <1>6, HandleEventKeeps, Zenon
<1>7. ASSUME UNCHANGED vars
      PROVE  ChannelsFit' /\ TablesFit' /\ Books' /\ NicsFit'
  <2>1. UNCHANGED <<channels, tables, drain, nics>>
    BY <1>7, Zenon DEF vars
  <2>2. ChannelsFit' /\ TablesFit' /\ Books'
    BY <1>1, <2>1, TablesStay, Zenon
  <2>3. NicsFit'
    BY <1>1, <2>1, Zenon DEF NicsFit, nics, drain
  <2> QED BY <2>2, <2>3, Zenon
<1>8. ChannelsFit' /\ TablesFit' /\ Books' /\ NicsFit'
  BY <1>2, <1>3, <1>4, <1>5, <1>6, <1>7, Zenon DEF Next
<1> QED BY <1>8, Zenon DEF RouterInv, FitsInv

\* The shape of the state and the books of every router, for any dragonfly in
\* which no two messages have the same two hosts (topo_dragonfly::route_packet
\* and the ack_list of hr_router::clock_handler).
THEOREM RouterBooks == ASSUME OneMessageAPair PROVE Spec => []RouterInv
<1>1. Init => RouterInv
  BY InitFits, InitBalances, Zenon DEF RouterInv
<1>2. RouterInv /\ [Next]_vars => RouterInv'
  BY StepKeeps, Zenon
<1> QED BY <1>1, <1>2, PTL DEF Spec

---------------------------------------------------------------------------
(* What follows from it *)

LEMMA InvTypes ==
  ASSUME RouterInv
  PROVE  TypeOK
<1>1. ChannelsFit /\ TablesFit /\ Books /\ NicsFit
  BY Zenon DEF RouterInv, FitsInv
<1>2. ASSUME NEW l \in Channels
      PROVE  /\ \A i \in DOMAIN queue[l] : queue[l][i] \in Packets
             /\ queue[l] = <<>> => head[l] = Unrouted
  <2>1. queue \in Queues /\ Routed(queue, head)
    BY <1>1, FitIs, Zenon DEF ChannelsFit
  <2>2. queue[l] \in Seq(Packets)
    BY <2>1, Zenon DEF Queues
  <2>3. \A i \in DOMAIN queue[l] : queue[l][i] \in Packets
    BY <2>2, ElementIs, Zenon
  <2> QED BY <2>1, <2>3, Zenon DEF Routed
<1>3. ASSUME NEW r \in Routers, NEW m \in Messages
      PROVE  /\ list_ack_status[r][m] \in [first : Nat, second : Nat]
             /\ list_ack_status[r][m].second <= list_ack_status[r][m].first
  <2>1. list_ack_status[r][m] \in Tallies
    BY <1>1, Zenon DEF TablesFit, CountsFit
  <2> QED BY <1>1, <2>1, AcksAtMostPackets, Zenon DEF Tallies
<1>4. ASSUME NEW m \in Messages
      PROVE  recv[m] \in 0 .. Length[m] /\ held[m] \subseteq recv[m] + 1 .. Length[m]
  <2>1. /\ recv[m] \in Nat /\ recv[m] <= Length[m] /\ Length[m] \in Nat
        /\ held[m] \subseteq recv[m] + 1 .. Length[m] - 1
    BY <1>1, MessagesAssumption, Zenon DEF NicsFit
  <2> QED BY <2>1, SMT
<1>5. /\ sent \in [Messages -> Nat] /\ \A m \in Messages : sent[m] <= Length[m]
      /\ draining_map \in [Messages -> BOOLEAN] /\ draining_status \in [Messages -> BOOLEAN]
      /\ size_flowcut \in [Messages -> Nat] /\ latest_hop_count \in [Messages -> 0 .. 1]
  BY <1>1, Zenon DEF NicsFit
<1> QED BY <1>2, <1>3, <1>4, <1>5, Zenon DEF TypeOK

\* Every variable of the routers and the NICs has its type, and a router has
\* never seen more ACKs of a message than it passed packets on.
THEOREM RouterTypes == ASSUME OneMessageAPair PROVE Spec => []TypeOK
<1>1. RouterInv => TypeOK
  BY InvTypes, Zenon
<1> QED BY <1>1, RouterBooks, PTL

---------------------------------------------------------------------------
(* The messages of a pair taken for one.  The books of a router hold for a *)
(* pair of hosts whatever messages it has, and whichever of its entries an *)
(* ACK takes.                                                              *)

\* One message for all that have the same two hosts.
OneOf(pair) == CHOOSE n \in Messages : Pair(n) = pair
Merged(p) == [p EXCEPT !.msg = OneOf(Pair(@))]
MergedSeq(s) == [i \in 1 .. Len(s) |-> Merged(s[i])]
MergedQueue(q) == [l \in Channels |-> MergedSeq(q[l])]
MergedLists(al) == [r \in Routers |-> MergedSeq(al[r])]

LEMMA OneOfIs ==
  ASSUME NEW m \in Messages
  PROVE  OneOf(Pair(m)) \in Messages /\ Pair(OneOf(Pair(m))) = Pair(m)
BY Zenon DEF OneOf

LEMMA MergedPacket ==
  ASSUME NEW p \in Packets
  PROVE  /\ Merged(p) \in Packets /\ Merged(p).msg = OneOf(Pair(p.msg)) /\ p.msg \in Messages
<1>1. p.msg \in Messages
  BY SMT DEF Packets
<1>2. PICK m \in Messages : m = OneOf(Pair(p.msg))
  BY <1>1, OneOfIs, Zenon
<1>3. [p EXCEPT !.msg = m] \in Packets /\ [p EXCEPT !.msg = m].msg = m
  BY SMT DEF Packets
<1>4. Merged(p) = [p EXCEPT !.msg = m]
  BY <1>2, Zenon DEF Merged
<1> QED BY <1>1, <1>2, <1>3, <1>4, Zenon

LEMMA MergedEntry ==
  ASSUME NEW e \in Entries
  PROVE  /\ Merged(e) \in Entries /\ Merged(e).msg = OneOf(Pair(e.msg)) /\ e.msg \in Messages
         /\ Merged(e).port = e.port
<1>1. e.msg \in Messages
  BY SMT DEF Entries
<1>2. PICK m \in Messages : m = OneOf(Pair(e.msg))
  BY <1>1, OneOfIs, Zenon
<1>3. [e EXCEPT !.msg = m] \in Entries /\ [e EXCEPT !.msg = m].msg = m /\ [e EXCEPT !.msg = m].port = e.port
  BY SMT DEF Entries
<1>4. Merged(e) = [e EXCEPT !.msg = m]
  BY <1>2, Zenon DEF Merged
<1> QED BY <1>1, <1>2, <1>3, <1>4, Zenon

\* What is merged element by element keeps its place.
LEMMA MergedSeqIs ==
  ASSUME NEW S, NEW s \in Seq(S), \A x \in S : Merged(x) \in S
  PROVE  /\ MergedSeq(s) \in Seq(S) /\ Len(MergedSeq(s)) = Len(s)
         /\ \A i \in 1 .. Len(s) : MergedSeq(s)[i] = Merged(s[i])
         /\ s # <<>> => MergedSeq(s) # <<>> /\ Head(MergedSeq(s)) = Merged(Head(s))
<1> DEFINE t == MergedSeq(s)
<1>1. Len(s) \in Nat /\ \A i \in 1 .. Len(s) : s[i] \in S
  BY SMT
<1>2. t = [i \in 1 .. Len(s) |-> Merged(s[i])]
  BY Zenon DEF MergedSeq
<1>3. t \in [1 .. Len(s) -> S] /\ \A i \in 1 .. Len(s) : t[i] = Merged(s[i])
  BY <1>1, <1>2, Zenon
<1> HIDE DEF t
<1>4. t \in Seq(S) /\ Len(t) = Len(s)
  BY <1>1, <1>3, SMT
<1>5. ASSUME s # <<>>
      PROVE  t # <<>> /\ Head(t) = Merged(Head(s))
  <2>1. 1 \in 1 .. Len(s) /\ Head(s) = s[1]
    BY <1>5, SMT
  <2>2. t # <<>> /\ Head(t) = t[1]
    BY <1>4, <2>1, SMT
  <2> QED BY <1>3, <2>1, <2>2, Zenon
<1> QED BY <1>3, <1>4, <1>5, Zenon DEF t

LEMMA MergedAppend ==
  ASSUME NEW S, NEW s \in Seq(S), NEW x \in S, \A y \in S : Merged(y) \in S
  PROVE  MergedSeq(Append(s, x)) = Append(MergedSeq(s), Merged(x))
<1>1. PICK t \in Seq(S) : t = Append(s, x)
  BY AppendIs, Zenon
<1>2. Len(t) = Len(s) + 1 /\ Len(s) \in Nat /\ t[Len(s) + 1] = x /\ \A i \in 1 .. Len(s) : t[i] = s[i]
  BY <1>1, SMT
<1>3. /\ MergedSeq(s) \in Seq(S) /\ Len(MergedSeq(s)) = Len(s)
      /\ \A i \in 1 .. Len(s) : MergedSeq(s)[i] = Merged(s[i])
  BY MergedSeqIs, Zenon
<1>4. /\ MergedSeq(t) \in Seq(S) /\ Len(MergedSeq(t)) = Len(t)
      /\ \A i \in 1 .. Len(t) : MergedSeq(t)[i] = Merged(t[i])
  BY MergedSeqIs, Zenon
<1>5. PICK u \in Seq(S) : u = Append(MergedSeq(s), Merged(x))
  BY <1>3, AppendIs, Zenon
<1>6. Len(u) = Len(s) + 1 /\ u[Len(s) + 1] = Merged(x) /\ \A i \in 1 .. Len(s) : u[i] = Merged(s[i])
  BY <1>3, <1>5, SMT
<1>7. ASSUME NEW i \in 1 .. Len(s) + 1
      PROVE  MergedSeq(t)[i] = u[i]
  <2>1. i \in 1 .. Len(s) \/ i = Len(s) + 1
    BY <1>2, SMT
  <2> QED BY <1>2, <1>4, <1>6, <2>1, Zenon
<1>8. MergedSeq(t) = u
  <2>1. PICK v \in Seq(S) : v = MergedSeq(t)
    BY <1>4, Zenon
  <2>2. Len(v) = Len(u) /\ \A i \in 1 .. Len(u) : v[i] = u[i]
    BY <1>2, <1>4, <1>6, <1>7, <2>1, Zenon
  <2>3. v = u
    BY <2>2, SMT
  <2> QED BY <2>1, <2>3, Zenon
<1> QED BY <1>1, <1>5, <1>8, Zenon

LEMMA MergedTail ==
  ASSUME NEW S, NEW s \in Seq(S), s # <<>>, \A y \in S : Merged(y) \in S
  PROVE  MergedSeq(Tail(s)) = Tail(MergedSeq(s))
<1>0. PICK x : x = Tail(s)
  BY Zenon
<1>1. PICK t \in Seq(S) : t = Tail(s)
  <2>1. x \in Seq(S)
    BY <1>0, SMT
  <2> QED BY <1>0, <2>1, Zenon
<1>2. Len(t) = Len(s) - 1 /\ Len(s) \in Nat \ {0} /\ \A i \in 1 .. Len(s) - 1 : t[i] = s[i + 1] /\ i + 1 \in 1 .. Len(s)
  BY <1>1, SMT
<1>3. /\ MergedSeq(s) \in Seq(S) /\ Len(MergedSeq(s)) = Len(s) /\ MergedSeq(s) # <<>>
      /\ \A i \in 1 .. Len(s) : MergedSeq(s)[i] = Merged(s[i])
  BY MergedSeqIs, Zenon
<1>4. /\ MergedSeq(t) \in Seq(S) /\ Len(MergedSeq(t)) = Len(t)
      /\ \A i \in 1 .. Len(t) : MergedSeq(t)[i] = Merged(t[i])
  BY MergedSeqIs, Zenon
<1>5. PICK u \in Seq(S) : u = Tail(MergedSeq(s))
  <2>1. PICK v \in Seq(S) : v = MergedSeq(s) /\ v # <<>>
    BY <1>3, Zenon
  <2>2. PICK y : y = Tail(v)
    BY Zenon
  <2>3. y \in Seq(S)
    BY <2>1, <2>2, SMT
  <2> QED BY <2>1, <2>2, <2>3, Zenon
<1>6. Len(u) = Len(s) - 1 /\ \A i \in 1 .. Len(s) - 1 : u[i] = MergedSeq(s)[i + 1]
  <2>1. PICK v \in Seq(S) : v = MergedSeq(s)
    BY <1>3, Zenon
  <2>2. v # <<>> /\ Len(v) = Len(s) /\ u = Tail(v)
    BY <1>3, <1>5, <2>1, Zenon
  <2>3. Len(u) = Len(v) - 1 /\ \A i \in 1 .. Len(v) - 1 : u[i] = v[i + 1]
    BY <2>2, SMT
  <2> QED BY <2>1, <2>2, <2>3, Zenon
<1>7. \A i \in 1 .. Len(s) - 1 : MergedSeq(t)[i] = u[i]
  BY <1>2, <1>3, <1>4, <1>6, Zenon
<1>8. MergedSeq(t) = u
  <2>1. PICK v \in Seq(S) : v = MergedSeq(t)
    BY <1>4, Zenon
  <2>2. Len(v) = Len(u) /\ \A i \in 1 .. Len(u) : v[i] = u[i]
    BY <1>2, <1>4, <1>6, <1>7, <2>1, Zenon
  <2>3. v = u
    BY <2>2, SMT
  <2> QED BY <2>1, <2>3, Zenon
<1> QED BY <1>1, <1>5, <1>8, Zenon

LEMMA MergedWithout ==
  ASSUME NEW S, NEW s \in Seq(S), NEW k \in 1 .. Len(s), \A y \in S : Merged(y) \in S
  PROVE  MergedSeq(Without(s, k)) = Without(MergedSeq(s), k)
<1>1. PICK t \in Seq(S) : t = Without(s, k)
  BY WithoutIs, Zenon
<1>2. /\ Len(t) = Len(s) - 1
      /\ \A i \in 1 .. Len(s) - 1 : (i < k => t[i] = s[i]) /\ (i >= k => t[i] = s[i + 1])
  BY <1>1, WithoutIs, Zenon
<1>3. /\ MergedSeq(s) \in Seq(S) /\ Len(MergedSeq(s)) = Len(s)
      /\ \A i \in 1 .. Len(s) : MergedSeq(s)[i] = Merged(s[i])
  BY MergedSeqIs, Zenon
<1>4. /\ MergedSeq(t) \in Seq(S) /\ Len(MergedSeq(t)) = Len(t)
      /\ \A i \in 1 .. Len(t) : MergedSeq(t)[i] = Merged(t[i])
  BY MergedSeqIs, Zenon
<1>5. PICK v \in Seq(S) : v = MergedSeq(s)
  BY <1>3, Zenon
<1>6. Len(v) = Len(s) /\ k \in 1 .. Len(v) /\ \A i \in 1 .. Len(s) : v[i] = Merged(s[i])
  BY <1>3, <1>5, Zenon
<1>7. PICK u \in Seq(S) : u = Without(v, k)
  BY <1>6, WithoutIs, Zenon
<1>8. /\ Len(u) = Len(s) - 1
      /\ \A i \in 1 .. Len(s) - 1 : (i < k => u[i] = v[i]) /\ (i >= k => u[i] = v[i + 1])
  BY <1>6, <1>7, WithoutIs, Zenon
<1>9. \A i \in 1 .. Len(s) - 1 : i \in 1 .. Len(s) /\ i + 1 \in 1 .. Len(s) /\ (i < k \/ i >= k)
  BY SMT
<1>10. ASSUME NEW i \in 1 .. Len(s) - 1
       PROVE  MergedSeq(t)[i] = u[i]
  <2>1. MergedSeq(t)[i] = Merged(t[i])
    BY <1>2, <1>4, Zenon
  <2>2. CASE i < k
    <3>1. t[i] = s[i] /\ u[i] = v[i] /\ v[i] = Merged(s[i])
      BY <1>2, <1>6, <1>8, <1>9, <2>2, Zenon
    <3> QED BY <2>1, <3>1, Zenon
  <2>3. CASE i >= k
    <3>1. t[i] = s[i + 1] /\ u[i] = v[i + 1] /\ v[i + 1] = Merged(s[i + 1])
      BY <1>2, <1>6, <1>8, <1>9, <2>3, Zenon
    <3> QED BY <2>1, <3>1, Zenon
  <2> QED BY <1>9, <2>2, <2>3, Zenon
<1>11. MergedSeq(t) = u
  <2>1. PICK w \in Seq(S) : w = MergedSeq(t)
    BY <1>4, Zenon
  <2>2. Len(w) = Len(u) /\ \A i \in 1 .. Len(u) : w[i] = u[i]
    BY <1>2, <1>4, <1>8, <1>10, <2>1, Zenon
  <2>3. w = u
    BY <2>2, SMT
  <2> QED BY <2>1, <2>3, Zenon
<1> QED BY <1>1, <1>5, <1>7, <1>11, Zenon

LEMMA MergedQueueIs ==
  ASSUME NEW q \in Queues
  PROVE  /\ MergedQueue(q) \in Queues
         /\ \A l \in Channels : q[l] # <<>> => /\ MergedQueue(q)[l] # <<>>
                                              /\ Head(MergedQueue(q)[l]) = Merged(Head(q[l]))
<1>1. \A x \in Packets : Merged(x) \in Packets
  BY MergedPacket, Zenon
<1>2. ASSUME NEW l \in Channels
      PROVE  /\ MergedSeq(q[l]) \in Seq(Packets)
             /\ q[l] # <<>> => MergedSeq(q[l]) # <<>> /\ Head(MergedSeq(q[l])) = Merged(Head(q[l]))
  <2>1. q[l] \in Seq(Packets)
    BY Zenon DEF Queues
  <2> QED BY <1>1, <2>1, MergedSeqIs, Zenon
<1> QED BY <1>2, Zenon DEF MergedQueue, Queues

LEMMA MergedPush ==
  ASSUME NEW q \in Queues, NEW l \in Channels, NEW p \in Packets
  PROVE  MergedQueue(Pushed(q, l, p)) = Pushed(MergedQueue(q), l, Merged(p))
<1>1. \A x \in Packets : Merged(x) \in Packets
  BY MergedPacket, Zenon
<1>2. q[l] \in Seq(Packets)
  BY Zenon DEF Queues
<1>3. MergedSeq(Append(q[l], p)) = Append(MergedSeq(q[l]), Merged(p))
  BY <1>1, <1>2, MergedAppend, Zenon
<1>4. Pushed(q, l, p)[l] = Append(q[l], p) /\ \A g \in Channels \ {l} : Pushed(q, l, p)[g] = q[g]
  BY PushIs, Zenon
<1>5. ASSUME NEW g \in Channels
      PROVE  MergedSeq(Pushed(q, l, p)[g]) = Pushed(MergedQueue(q), l, Merged(p))[g]
  <2>1. CASE g = l
    BY <1>3, <1>4, <2>1, Zenon DEF Pushed, MergedQueue
  <2>2. CASE g # l
    <3>1. MergedQueue(q) \in Queues /\ Merged(p) \in Packets
      BY MergedQueueIs, MergedPacket, Zenon
    <3>2. \A f \in Channels \ {l} : Pushed(MergedQueue(q), l, Merged(p))[f] = MergedQueue(q)[f]
      BY <3>1, PushIs, Zenon
    <3>3. MergedQueue(q)[g] = MergedSeq(q[g]) /\ g \in Channels \ {l}
      BY <2>2, Zenon DEF MergedQueue
    <3> QED BY <1>4, <3>2, <3>3, Zenon
  <2> QED BY <2>1, <2>2, Zenon
<1>6. Pushed(MergedQueue(q), l, Merged(p)) = [g \in Channels |-> Pushed(MergedQueue(q), l, Merged(p))[g]]
  BY Zenon DEF Pushed, MergedQueue
<1> QED BY <1>5, <1>6, Zenon DEF MergedQueue

LEMMA MergedPop ==
  ASSUME NEW q \in Queues, NEW l \in Channels, q[l] # <<>>
  PROVE  MergedQueue(Popped(q, l)) = Popped(MergedQueue(q), l)
<1>1. \A x \in Packets : Merged(x) \in Packets
  BY MergedPacket, Zenon
<1>2. q[l] \in Seq(Packets)
  BY Zenon DEF Queues
<1>3. MergedSeq(Tail(q[l])) = Tail(MergedSeq(q[l]))
  BY <1>1, <1>2, MergedTail, Zenon
<1>4. Popped(q, l)[l] = Tail(q[l]) /\ \A g \in Channels \ {l} : Popped(q, l)[g] = q[g]
  BY PopIs, Zenon
<1>5. ASSUME NEW g \in Channels
      PROVE  MergedSeq(Popped(q, l)[g]) = Popped(MergedQueue(q), l)[g]
  <2>1. CASE g = l
    BY <1>3, <1>4, <2>1, Zenon DEF Popped, MergedQueue
  <2>2. CASE g # l
    <3>1. MergedQueue(q) \in Queues /\ MergedQueue(q)[l] # <<>>
      BY MergedQueueIs, Zenon
    <3>2. \A f \in Channels \ {l} : Popped(MergedQueue(q), l)[f] = MergedQueue(q)[f]
      BY <3>1, PopIs, Zenon
    <3>3. MergedQueue(q)[g] = MergedSeq(q[g]) /\ g \in Channels \ {l}
      BY <2>2, Zenon DEF MergedQueue
    <3> QED BY <1>4, <3>2, <3>3, Zenon
  <2> QED BY <2>1, <2>2, Zenon
<1>6. Popped(MergedQueue(q), l) = [g \in Channels |-> Popped(MergedQueue(q), l)[g]]
  BY Zenon DEF Popped, MergedQueue
<1> QED BY <1>5, <1>6, Zenon DEF MergedQueue

LEMMA MergedListsAre ==
  ASSUME NEW al \in Lists
  PROVE  /\ MergedLists(al) \in Lists
         /\ \A r \in Routers : /\ MergedLists(al)[r] = MergedSeq(al[r]) /\ Len(MergedSeq(al[r])) = Len(al[r])
                               /\ \A i \in 1 .. Len(al[r]) : MergedSeq(al[r])[i] = Merged(al[r][i])
<1>1. \A x \in Entries : Merged(x) \in Entries
  BY MergedEntry, Zenon
<1>2. ASSUME NEW r \in Routers
      PROVE  /\ MergedSeq(al[r]) \in Seq(Entries) /\ Len(MergedSeq(al[r])) = Len(al[r])
             /\ \A i \in 1 .. Len(al[r]) : MergedSeq(al[r])[i] = Merged(al[r][i])
  <2>1. al[r] \in Seq(Entries)
    BY Zenon DEF Lists
  <2> QED BY <1>1, <2>1, MergedSeqIs, Zenon
<1> QED BY <1>2, Zenon DEF MergedLists, Lists

LEMMA MergedNote ==
  ASSUME NEW al, NEW bl, NEW x, NEW e, Noted(al, bl, x, e)
  PROVE  Noted(MergedLists(al), MergedLists(bl), x, Merged(e))
<1>1. /\ al \in Lists /\ bl \in Lists /\ x \in Routers /\ e \in Entries /\ bl[x] = Append(al[x], e)
      /\ \A y \in Routers \ {x} : bl[y] = al[y]
  BY Zenon DEF Noted, OneList
<1>2. /\ MergedLists(al) \in Lists /\ MergedLists(bl) \in Lists /\ Merged(e) \in Entries
      /\ \A y \in Routers : MergedLists(al)[y] = MergedSeq(al[y]) /\ MergedLists(bl)[y] = MergedSeq(bl[y])
  BY <1>1, MergedListsAre, MergedEntry, Zenon
<1>3. MergedSeq(Append(al[x], e)) = Append(MergedSeq(al[x]), Merged(e))
  <2>1. \A y \in Entries : Merged(y) \in Entries
    BY MergedEntry, Zenon
  <2>2. al[x] \in Seq(Entries)
    BY <1>1, Zenon DEF Lists
  <2> QED BY <1>1, <2>1, <2>2, MergedAppend, Zenon
<1> QED BY <1>1, <1>2, <1>3, Zenon DEF Noted, OneList

LEMMA MergedStrike ==
  ASSUME NEW al, NEW bl, NEW x, NEW i, Struck(al, bl, x, i)
  PROVE  /\ Struck(MergedLists(al), MergedLists(bl), x, i)
         /\ MergedLists(al)[x][i] = Merged(al[x][i]) /\ al[x][i] \in Entries
<1>1. /\ al \in Lists /\ bl \in Lists /\ x \in Routers /\ i \in 1 .. Len(al[x]) /\ bl[x] = Without(al[x], i)
      /\ \A y \in Routers \ {x} : bl[y] = al[y]
  BY Zenon DEF Struck, OneList
<1>2. /\ MergedLists(al) \in Lists /\ MergedLists(bl) \in Lists
      /\ \A y \in Routers : MergedLists(al)[y] = MergedSeq(al[y]) /\ MergedLists(bl)[y] = MergedSeq(bl[y])
      /\ Len(MergedSeq(al[x])) = Len(al[x]) /\ MergedSeq(al[x])[i] = Merged(al[x][i])
  BY <1>1, MergedListsAre, Zenon
<1>3. al[x] \in Seq(Entries)
  BY <1>1, Zenon DEF Lists
<1>4. al[x][i] \in Entries
  BY <1>1, <1>3, SMT
<1>5. MergedSeq(Without(al[x], i)) = Without(MergedSeq(al[x]), i)
  <2>1. \A y \in Entries : Merged(y) \in Entries
    BY MergedEntry, Zenon
  <2> QED BY <1>1, <1>3, <2>1, MergedWithout, Zenon
<1> QED BY <1>1, <1>2, <1>4, <1>5, Zenon DEF Struck, OneList

---------------------------------------------------------------------------
(* The books of a pair *)

\* What router r has noted is off by x from what is out on its links or due.
Astray(q, al, r, m, x) ==
  /\ q \in Queues /\ al \in Lists /\ x \in Int
  /\ Summed(Channels, Load(q, r, m)) /\ Summed(Routers, Due(al, r, m))
  /\ Kept(al, r, m) + x = Out(q, r, m) + Coming(al, r, m)

LEMMA AstrayIs ==
  ASSUME NEW q, NEW al, NEW r \in Routers, NEW m, NEW x, Astray(q, al, r, m, x)
  PROVE  /\ Kept(al, r, m) \in Nat /\ Out(q, r, m) \in Nat /\ Coming(al, r, m) \in Nat /\ x \in Int
         /\ Kept(al, r, m) + x = Out(q, r, m) + Coming(al, r, m)
<1>1. al[r] \in Seq(Entries)
  BY Zenon DEF Astray, Lists
<1>2. Kept(al, r, m) \in Nat
  BY <1>1, HowManyIs, Zenon DEF Kept
<1>3. Out(q, r, m) \in Nat /\ Coming(al, r, m) \in Nat
  BY SummedIs, Zenon DEF Astray, Out, Coming
<1> QED BY <1>2, <1>3, Zenon DEF Astray

LEMMA PushAstray ==
  ASSUME NEW q, NEW al, NEW r \in Routers, NEW m, NEW x, Astray(q, al, r, m, x),
         NEW l \in Channels, NEW p \in Packets
  PROVE  Astray(Pushed(q, l, p), al, r, m, x + Counts(l, r, p, m))
<1>1. q \in Queues /\ al \in Lists /\ Summed(Channels, Load(q, r, m)) /\ Summed(Routers, Due(al, r, m))
  BY Zenon DEF Astray
<1>2. PICK t : t = Pushed(q, l, p)
  BY Zenon
<1>3. PICK d \in {0, 1} : d = Counts(l, r, p, m)
  BY CountsIs, Zenon
<1>4. t \in Queues /\ Summed(Channels, Load(t, r, m)) /\ Out(t, r, m) = Out(q, r, m) + d
  <2>1. Pushed(q, l, p) \in Queues
    BY <1>1, PushIs, Zenon
  <2>2. /\ Summed(Channels, Load(Pushed(q, l, p), r, m))
        /\ Total(Channels, Load(Pushed(q, l, p), r, m)) = Total(Channels, Load(q, r, m)) + Counts(l, r, p, m)
    BY <1>1, PushLoad, SMTT(20)
  <2> QED BY <1>2, <1>3, <2>1, <2>2, Zenon DEF Out
<1>5. /\ Kept(al, r, m) \in Nat /\ Out(q, r, m) \in Nat /\ Coming(al, r, m) \in Nat /\ x \in Int
      /\ Kept(al, r, m) + x = Out(q, r, m) + Coming(al, r, m)
  <2>1. Astray(q, al, r, m, x)
    OBVIOUS
  <2> QED BY <2>1, AstrayIs, SMTT(20)
<1>6. x + d \in Int /\ Kept(al, r, m) + (x + d) = Out(t, r, m) + Coming(al, r, m)
  BY <1>4, <1>5, SMT
<1>7. Astray(t, al, r, m, x + d)
  BY <1>1, <1>4, <1>6, Zenon DEF Astray
<1> QED BY <1>2, <1>3, <1>7, Zenon

LEMMA PopAstray ==
  ASSUME NEW q, NEW al, NEW r \in Routers, NEW m, NEW x, Astray(q, al, r, m, x),
         NEW l \in Channels, q[l] # <<>>
  PROVE  Astray(Popped(q, l), al, r, m, x - Counts(l, r, Head(q[l]), m))
<1>1. q \in Queues /\ al \in Lists /\ Summed(Channels, Load(q, r, m)) /\ Summed(Routers, Due(al, r, m))
  BY Zenon DEF Astray
<1>2. PICK t : t = Popped(q, l)
  BY Zenon
<1>3. PICK d \in {0, 1} : d = Counts(l, r, Head(q[l]), m)
  BY CountsIs, Zenon
<1>4. t \in Queues /\ Summed(Channels, Load(t, r, m)) /\ Out(t, r, m) + d = Out(q, r, m)
  <2>1. Popped(q, l) \in Queues
    BY <1>1, PopIs, Zenon
  <2>2. /\ Summed(Channels, Load(Popped(q, l), r, m))
        /\ Total(Channels, Load(Popped(q, l), r, m)) + Counts(l, r, Head(q[l]), m) = Total(Channels, Load(q, r, m))
    BY <1>1, PopLoad, SMTT(20)
  <2> QED BY <1>2, <1>3, <2>1, <2>2, Zenon DEF Out
<1>5. /\ Kept(al, r, m) \in Nat /\ Out(q, r, m) \in Nat /\ Coming(al, r, m) \in Nat /\ x \in Int
      /\ Kept(al, r, m) + x = Out(q, r, m) + Coming(al, r, m)
  <2>1. Astray(q, al, r, m, x)
    OBVIOUS
  <2> QED BY <2>1, AstrayIs, SMTT(20)
<1>6. Out(t, r, m) \in Nat
  BY <1>4, SummedIs, Zenon DEF Out
<1>7. x - d \in Int /\ Kept(al, r, m) + (x - d) = Out(t, r, m) + Coming(al, r, m)
  BY <1>4, <1>5, <1>6, SMT
<1>8. Astray(t, al, r, m, x - d)
  BY <1>1, <1>4, <1>7, Zenon DEF Astray
<1> QED BY <1>2, <1>3, <1>8, Zenon

LEMMA NoteAstray ==
  ASSUME NEW q, NEW al, NEW r \in Routers, NEW m, NEW x, Astray(q, al, r, m, x),
         NEW bl, NEW z, NEW e, Noted(al, bl, z, e)
  PROVE  Astray(q, bl, r, m, x + Awaits(r, e, m) - Notes(z, r, e, m))
<1>1. q \in Queues /\ Summed(Channels, Load(q, r, m)) /\ Summed(Routers, Due(al, r, m)) /\ bl \in Lists
  BY Zenon DEF Astray, Noted, OneList
<1>2. PICK d \in {0, 1} : d = Awaits(r, e, m)
  BY NotesIs, Zenon
<1>3. PICK f \in {0, 1} : f = Notes(z, r, e, m)
  BY NotesIs, Zenon
<1>4. Summed(Routers, Due(bl, r, m)) /\ Coming(bl, r, m) = Coming(al, r, m) + d
  BY <1>1, <1>2, NoteDue, SMT DEF Coming
<1>5. Kept(bl, r, m) = Kept(al, r, m) + f
  <2>1. Noted(al, bl, z, e) /\ r \in Routers
    OBVIOUS
  <2>2. HowMany(bl[r], EntriesOf(m)) = HowMany(al[r], EntriesOf(m)) + Notes(z, r, e, m)
    BY <2>1, NoteKept, SMTT(30)
  <2> QED BY <1>3, <2>2, Zenon DEF Kept
<1>6. /\ Kept(al, r, m) \in Nat /\ Out(q, r, m) \in Nat /\ Coming(al, r, m) \in Nat /\ x \in Int
      /\ Kept(al, r, m) + x = Out(q, r, m) + Coming(al, r, m)
  <2>1. Astray(q, al, r, m, x)
    OBVIOUS
  <2> QED BY <2>1, AstrayIs, SMTT(20)
<1>7. x + d - f \in Int /\ Kept(bl, r, m) + (x + d - f) = Out(q, r, m) + Coming(bl, r, m)
  BY <1>4, <1>5, <1>6, SMT
<1>8. Astray(q, bl, r, m, x + d - f)
  BY <1>1, <1>4, <1>7, Zenon DEF Astray
<1> QED BY <1>2, <1>3, <1>8, Zenon

LEMMA StrikeAstray ==
  ASSUME NEW q, NEW al, NEW r \in Routers, NEW m, NEW x, Astray(q, al, r, m, x),
         NEW bl, NEW z, NEW i, Struck(al, bl, z, i)
  PROVE  Astray(q, bl, r, m, x + Notes(z, r, al[z][i], m) - Awaits(r, al[z][i], m))
<1>1. q \in Queues /\ Summed(Channels, Load(q, r, m)) /\ Summed(Routers, Due(al, r, m)) /\ bl \in Lists
  BY Zenon DEF Astray, Struck, OneList
<1>2. PICK d \in {0, 1} : d = Awaits(r, al[z][i], m)
  BY NotesIs, Zenon
<1>3. PICK f \in {0, 1} : f = Notes(z, r, al[z][i], m)
  BY NotesIs, Zenon
<1>4. Summed(Routers, Due(bl, r, m)) /\ Coming(bl, r, m) + d = Coming(al, r, m)
  BY <1>1, <1>2, StrikeDue, SMT DEF Coming
<1>5. Kept(bl, r, m) + f = Kept(al, r, m)
  BY <1>3, StrikeKept, SMT DEF Kept
<1>6. /\ Kept(al, r, m) \in Nat /\ Out(q, r, m) \in Nat /\ Coming(al, r, m) \in Nat /\ x \in Int
      /\ Kept(al, r, m) + x = Out(q, r, m) + Coming(al, r, m)
  <2>1. Astray(q, al, r, m, x)
    OBVIOUS
  <2> QED BY <2>1, AstrayIs, SMTT(20)
<1>7. Kept(bl, r, m) \in Nat /\ Coming(bl, r, m) \in Nat
  <2>1. bl[r] \in Seq(Entries)
    BY <1>1, Zenon DEF Lists
  <2> QED BY <1>4, <2>1, HowManyIs, SummedIs, Zenon DEF Kept, Coming
<1>8. x + f - d \in Int /\ Kept(bl, r, m) + (x + f - d) = Out(q, r, m) + Coming(bl, r, m)
  BY <1>4, <1>5, <1>6, <1>7, SMT
<1>9. Astray(q, bl, r, m, x + f - d)
  BY <1>1, <1>4, <1>8, Zenon DEF Astray
<1> QED BY <1>2, <1>3, <1>9, Zenon

---------------------------------------------------------------------------
(* The shape of the state, for messages that may be taken for one another *)

\* The hops that lead out of router r, whether its messages go that way or not.
Ways(r) == {hop \in [to : Routers \union Hosts, vc : VCs] : Channel(r, hop.to, hop.vc) \in Channels}
GoodWay(l, hop) == IF l.vc = AckVC THEN hop = AckHop ELSE hop \in Ways(l.to)
HeadLeads(q, hd, l) == hd[l] # Unrouted => l.to \in Routers /\ q[l] # <<>> /\ GoodWay(l, hd[l])
LooseFit(q, hd) ==
  /\ q \in Queues /\ DOMAIN hd = Channels
  /\ \A l \in Channels : q[l] \in Seq(Carried(l)) /\ HeadLeads(q, hd, l)
CachedLeads(mc) == DOMAIN mc = Routers /\ \A r \in Routers : mc[r] \in [Messages -> Ways(r)]

LEMMA WaysLead ==
  ASSUME NEW r \in Routers, NEW hop \in Ways(r), NEW g, g = Channel(r, hop.to, hop.vc)
  PROVE  /\ g \in Channels /\ g.from = r /\ g.to = hop.to /\ g.vc # AckVC
         /\ g.to \in Routers \union Hosts
         /\ hop # Unrouted /\ hop # AckHop
<1>1. hop \in [to : Routers \union Hosts, vc : VCs] /\ g \in Channels
  BY Zenon DEF Ways
<1>2. hop.to \in Routers \union Hosts /\ hop.vc \in VCs
  BY <1>1, SMT
<1>3. hop.vc # AckVC
  BY <1>2, VcsAreNumbers, Zenon
<1>4. g.from = r /\ g.to = hop.to /\ g.vc = hop.vc
  BY Zenon DEF Channel
<1>5. Unrouted.to = "unrouted" /\ AckHop.vc = AckVC
  BY Zenon DEF Unrouted, AckHop, Hop
<1>6. "unrouted" \notin Routers \union Hosts
  BY TopologyAssumption, Zenon
<1> QED BY <1>1, <1>2, <1>3, <1>4, <1>5, <1>6, Zenon

LEMMA HopIsAWay ==
  ASSUME NEW r \in Routers, NEW t \in Routers \union Hosts, NEW vc \in VCs, Channel(r, t, vc) \in Channels
  PROVE  Hop(t, vc) \in Ways(r)
<1>1. PICK hop : hop = Hop(t, vc)
  BY Zenon
<1>2. hop \in [to : Routers \union Hosts, vc : VCs] /\ hop.to = t /\ hop.vc = vc
  BY <1>1, SMT DEF Hop
<1>3. hop \in Ways(r)
  BY <1>2, Zenon DEF Ways
<1> QED BY <1>1, <1>3, Zenon

\* The port of any host will do, and any hop of the routing algorithm.
LEMMA HostIsAWay ==
  ASSUME NEW r \in Routers, NEW h \in Hosts, NEW vc \in VCs
  PROVE  Hop(h, vc) \in Ways(r)
<1>1. Channel(r, h, vc) \in Channels
  BY InChannels, Zenon
<1> QED BY <1>1, HopIsAWay, Zenon

LEMMA HopsAreWays ==
  ASSUME NEW r \in Routers, NEW m \in Messages, r # Router[To[m]], NEW hop \in Hops[m][r]
  PROVE  hop \in Ways(r)
<1>1. HopFits(r, m, hop)
  BY Zenon DEF HopFits
<1>2. /\ Channel(r, hop.to, hop.vc) \in Channels /\ hop.vc \in VCs
      /\ hop \in [to : Routers \union Hosts, vc : Nat]
  BY <1>1, HopsLead, Zenon
<1>3. hop = Hop(hop.to, hop.vc) /\ hop.to \in Routers \union Hosts
  BY <1>2, SMT DEF Hop
<1> QED BY <1>2, <1>3, HopIsAWay, Zenon

LEMMA RoutesLead ==
  ASSUME NEW l \in Channels, NEW p \in Carried(l), NEW hop \in Routes(l, p), l.to \in Routers,
         CachedLeads(map_cached)
  PROVE  GoodWay(l, hop)
<1>1. p.msg \in Messages /\ OfKind(p, l) /\ p.ack \in BOOLEAN
  BY CarriedIs, Zenon
<1>2. CASE p.ack
  BY <1>1, <1>2, Zenon DEF Routes, OfKind, GoodWay
<1>3. CASE ~p.ack
  <2>1. l.vc # AckVC /\ l.vc \in VCs
    BY <1>1, <1>3, ChannelKinds, Zenon DEF OfKind
  <2>2. \/ hop = map_cached[l.to][p.msg]
        \/ hop = Hop(To[p.msg], l.vc)
        \/ Router[To[p.msg]] # l.to /\ hop \in Hops[p.msg][l.to]
    BY <1>3, Zenon DEF Routes
  <2>3. map_cached[l.to][p.msg] \in Ways(l.to)
    BY <1>1, Zenon DEF CachedLeads
  <2>4. Hop(To[p.msg], l.vc) \in Ways(l.to)
    <3>1. To[p.msg] \in Hosts
      BY <1>1, MessagesAssumption, Zenon
    <3> QED BY <2>1, <3>1, HostIsAWay, Zenon
  <2>5. Router[To[p.msg]] # l.to /\ hop \in Hops[p.msg][l.to] => hop \in Ways(l.to)
    BY <1>1, HopsAreWays, Zenon
  <2> QED BY <2>1, <2>2, <2>3, <2>4, <2>5, Zenon DEF GoodWay
<1> QED BY <1>1, <1>2, <1>3, Zenon

LEMMA GoodWayIsRouted ==
  ASSUME NEW l \in Channels, NEW hop, l.to \in Routers, GoodWay(l, hop)
  PROVE  hop # Unrouted
<1>1. CASE l.vc = AckVC
  <2>1. hop = AckHop
    BY <1>1, Zenon DEF GoodWay
  <2>2. AckHop.vc = AckVC /\ Unrouted.vc = 0
    BY Zenon DEF AckHop, Unrouted, Hop
  <2>3. AckVC # 0
    BY SMT DEF AckVC
  <2> QED BY <2>1, <2>2, <2>3, Zenon
<1>2. CASE l.vc # AckVC
  BY <1>2, WaysLead, Zenon DEF GoodWay
<1> QED BY <1>1, <1>2, Zenon

LEMMA LoosePush ==
  ASSUME NEW q, NEW hd, NEW l \in Channels, NEW p \in Carried(l), LooseFit(q, hd)
  PROVE  LooseFit(Pushed(q, l, p), hd)
<1>1. PICK t : t = Pushed(q, l, p)
  BY Zenon
<1>2. /\ q \in Queues /\ DOMAIN hd = Channels
      /\ \A g \in Channels : q[g] \in Seq(Carried(g)) /\ HeadLeads(q, hd, g)
  BY Zenon DEF LooseFit
<1>3. /\ t \in Queues /\ t[l] = Append(q[l], p)
      /\ \A g \in Channels \ {l} : t[g] = q[g]
  <2>1. p \in Packets
    BY CarriedIs, Zenon
  <2> QED BY <1>1, <1>2, <2>1, PushIs, Zenon
<1>4. t[l] \in Seq(Carried(l)) /\ t[l] # <<>>
  <2>1. PICK s \in Seq(Carried(l)) : s = q[l]
    BY <1>2, Zenon
  <2>2. Append(s, p) \in Seq(Carried(l)) /\ Append(s, p) # <<>>
    BY AppendIs, Zenon
  <2> QED BY <1>3, <2>1, <2>2, Zenon
<1>5. HeadLeads(t, hd, l)
  BY <1>2, <1>4, Zenon DEF HeadLeads
<1>6. \A g \in Channels \ {l} : t[g] \in Seq(Carried(g)) /\ HeadLeads(t, hd, g)
  BY <1>2, <1>3, Zenon DEF HeadLeads
<1>7. LooseFit(t, hd)
  BY <1>2, <1>3, <1>4, <1>5, <1>6, Zenon DEF LooseFit
<1> QED BY <1>1, <1>7, Zenon

LEMMA LoosePop ==
  ASSUME NEW q, NEW hd, NEW he, NEW l \in Channels, LooseFit(q, hd), q[l] # <<>>,
         DOMAIN he = Channels, he[l] = Unrouted, Reheads(hd, he, l)
  PROVE  LooseFit(Popped(q, l), he)
<1>1. PICK t : t = Popped(q, l)
  BY Zenon
<1>2. /\ q \in Queues
      /\ \A g \in Channels : q[g] \in Seq(Carried(g)) /\ HeadLeads(q, hd, g)
  BY Zenon DEF LooseFit
<1>3. /\ t \in Queues /\ t[l] = Tail(q[l])
      /\ \A g \in Channels \ {l} : t[g] = q[g] /\ he[g] = hd[g]
  BY <1>1, <1>2, PopIs, Zenon DEF Reheads
<1>4. q[l] \in Seq(Carried(l))
  BY <1>2, Zenon
<1>5. t[l] \in Seq(Carried(l))
  BY <1>3, <1>4, SMT
<1>6. HeadLeads(t, he, l)
  BY Zenon DEF HeadLeads
<1>7. \A g \in Channels \ {l} : t[g] \in Seq(Carried(g)) /\ HeadLeads(t, he, g)
  BY <1>2, <1>3, Zenon DEF HeadLeads
<1>8. LooseFit(t, he)
  BY <1>2, <1>3, <1>5, <1>6, <1>7, Zenon DEF LooseFit
<1> QED BY <1>1, <1>8, Zenon

LEMMA LooseRoute ==
  ASSUME NEW q, NEW hd, NEW he, NEW l \in Channels, LooseFit(q, hd), q[l] # <<>>, l.to \in Routers,
         DOMAIN he = Channels, GoodWay(l, he[l]), Reheads(hd, he, l)
  PROVE  LooseFit(q, he)
<1>1. /\ q \in Queues
      /\ \A g \in Channels : q[g] \in Seq(Carried(g)) /\ HeadLeads(q, hd, g)
  BY Zenon DEF LooseFit
<1>2. \A g \in Channels \ {l} : HeadLeads(q, he, g)
  BY <1>1, Zenon DEF HeadLeads, Reheads
<1>3. HeadLeads(q, he, l)
  BY Zenon DEF HeadLeads
<1> QED BY <1>1, <1>2, <1>3, Zenon DEF LooseFit

LEMMA CachedLead ==
  ASSUME NEW mc, NEW l \in Channels, NEW p \in Carried(l), NEW hop,
         l.to \in Routers, CachedLeads(mc), GoodWay(l, hop)
  PROVE  CachedLeads([mc EXCEPT ![l.to] = Cached(@, p, hop)])
<1>1. p.msg \in Messages /\ OfKind(p, l) /\ p.ack \in BOOLEAN
  BY CarriedIs, Zenon
<1>2. PICK c : c = Cached(mc[l.to], p, hop)
  BY Zenon
<1>3. mc[l.to] \in [Messages -> Ways(l.to)]
  BY Zenon DEF CachedLeads
<1>4. c \in [Messages -> Ways(l.to)]
  <2>1. CASE p.ack
    BY <1>2, <1>3, <2>1, Zenon DEF Cached
  <2>2. CASE ~p.ack
    <3>1. hop \in Ways(l.to)
      BY <1>1, <2>2, Zenon DEF GoodWay, OfKind
    <3>2. c = [mc[l.to] EXCEPT ![p.msg] = hop]
      BY <1>2, <2>2, Zenon DEF Cached
    <3> QED BY <1>3, <3>1, <3>2, Zenon
  <2> QED BY <2>1, <2>2, Zenon
<1>5. CachedLeads([mc EXCEPT ![l.to] = c])
  BY <1>4, Zenon DEF CachedLeads
<1>6. [mc EXCEPT ![l.to] = Cached(@, p, hop)] = [mc EXCEPT ![l.to] = c]
  BY <1>2, Zenon
<1> QED BY <1>5, <1>6, Zenon

\* What PortControl::recv leaves in the input buffer.
LEMMA LooseRecv ==
  ASSUME LooseFit(queue, head), CachedLeads(map_cached),
         NEW l \in Channels, l.to \in Routers, head[l] # Unrouted, NEW next \in NextHeads(l)
  PROVE  /\ LooseFit(Popped(queue, l), [head EXCEPT ![l] = next])
         /\ CachedLeads([map_cached EXCEPT ![l.to] = CachedAfter(l, next)])
<1>1. /\ queue \in Queues /\ DOMAIN head = Channels /\ queue[l] \in Seq(Carried(l)) /\ queue[l] # <<>>
  BY Zenon DEF LooseFit, HeadLeads
<1>2. PICK hu : hu = [head EXCEPT ![l] = Unrouted]
  BY Zenon
<1>3. PICK he : he = [head EXCEPT ![l] = next]
  BY Zenon
<1>4. PICK t : t = Popped(queue, l)
  BY Zenon
<1>5. LooseFit(t, hu)
  <2>1. DOMAIN hu = Channels /\ hu[l] = Unrouted /\ Reheads(head, hu, l)
    BY <1>1, <1>2, Zenon DEF Reheads
  <2>2. LooseFit(Popped(queue, l), hu)
    BY <1>1, <2>1, LoosePop, Zenon
  <2> QED BY <1>4, <2>2, Zenon
<1>6. CASE next = Unrouted
  <2>1. he = hu
    BY <1>2, <1>3, <1>6, Zenon
  <2>2. CachedLeads([map_cached EXCEPT ![l.to] = CachedAfter(l, next)])
    <3>1. CachedAfter(l, next) = map_cached[l.to]
      BY <1>6, Zenon DEF CachedAfter
    <3>2. PICK c : c = CachedAfter(l, next)
      BY Zenon
    <3>3. c \in [Messages -> Ways(l.to)]
      BY <3>1, <3>2, Zenon DEF CachedLeads
    <3>4. CachedLeads([map_cached EXCEPT ![l.to] = c])
      BY <3>3, Zenon DEF CachedLeads
    <3> QED BY <3>2, <3>4, Zenon
  <2> QED BY <1>3, <1>4, <1>5, <2>1, <2>2, Zenon
<1>7. CASE next # Unrouted
  <2>1. Len(queue[l]) > 1 /\ next \in Routes(l, queue[l][2])
    BY <1>7, Zenon DEF NextHeads
  <2>2. PICK s \in Seq(Carried(l)) : s = queue[l]
    BY <1>1, Zenon
  <2>3. s[2] \in Carried(l) /\ Tail(s) # <<>>
    BY <2>1, <2>2, SecondIs, Zenon
  <2>4. PICK p \in Carried(l) : p = queue[l][2]
    BY <2>2, <2>3, Zenon
  <2>5. GoodWay(l, next)
    BY <2>1, <2>4, RoutesLead, Zenon
  <2>6. t[l] # <<>>
    <3>1. Popped(queue, l)[l] = Tail(queue[l])
      BY <1>1, PopIs, Zenon
    <3> QED BY <1>4, <2>2, <2>3, <3>1, Zenon
  <2>7. LooseFit(t, he)
    <3>1. DOMAIN he = Channels /\ he[l] = next /\ Reheads(hu, he, l)
      BY <1>1, <1>2, <1>3, Zenon DEF Reheads
    <3>2. GoodWay(l, he[l])
      BY <2>5, <3>1, Zenon
    <3> QED BY <1>5, <2>6, <3>1, <3>2, LooseRoute, Zenon
  <2>8. CachedLeads([map_cached EXCEPT ![l.to] = Cached(@, p, next)])
    BY <2>5, CachedLead, Zenon
  <2>9. [map_cached EXCEPT ![l.to] = Cached(@, p, next)] = [map_cached EXCEPT ![l.to] = CachedAfter(l, next)]
    BY <1>7, <2>4, Zenon DEF CachedAfter
  <2> QED BY <1>3, <1>4, <2>7, <2>8, <2>9, Zenon
<1> QED BY <1>6, <1>7, Zenon

\* The same for all messages of a pair together.
AstrayAsOne(q, al, r, m, x) == Astray(MergedQueue(q), MergedLists(al), r, m, x)
Even(q, al) == \A r \in Routers, m \in Messages : AstrayAsOne(q, al, r, m, 0)

LEMMA PutIn ==
  ASSUME NEW q \in Queues, NEW al, NEW r \in Routers, NEW m, NEW x, AstrayAsOne(q, al, r, m, x),
         NEW l \in Channels, NEW p \in Packets
  PROVE  AstrayAsOne(Pushed(q, l, p), al, r, m, x + Counts(l, r, Merged(p), m))
<1>1. MergedQueue(Pushed(q, l, p)) = Pushed(MergedQueue(q), l, Merged(p))
  BY MergedPush, Zenon
<1>2. PICK t : t = MergedQueue(q)
  BY Zenon
<1>3. PICK b : b = MergedLists(al)
  BY Zenon
<1>4. PICK o \in Packets : o = Merged(p)
  BY MergedPacket, Zenon
<1>5. Astray(t, b, r, m, x)
  BY <1>2, <1>3, Zenon DEF AstrayAsOne
<1>6. Astray(Pushed(t, l, o), b, r, m, x + Counts(l, r, o, m))
  BY <1>5, PushAstray, Zenon
<1> QED BY <1>1, <1>2, <1>3, <1>4, <1>6, Zenon DEF AstrayAsOne

LEMMA TakeOut ==
  ASSUME NEW q \in Queues, NEW al, NEW r \in Routers, NEW m, NEW x, AstrayAsOne(q, al, r, m, x),
         NEW l \in Channels, q[l] # <<>>
  PROVE  AstrayAsOne(Popped(q, l), al, r, m, x - Counts(l, r, Merged(Head(q[l])), m))
<1>1. MergedQueue(Popped(q, l)) = Popped(MergedQueue(q), l)
  BY MergedPop, Zenon
<1>2. PICK t : t = MergedQueue(q)
  BY Zenon
<1>3. PICK b : b = MergedLists(al)
  BY Zenon
<1>4. t[l] # <<>> /\ Head(t[l]) = Merged(Head(q[l]))
  BY <1>2, MergedQueueIs, Zenon
<1>5. Astray(t, b, r, m, x)
  BY <1>2, <1>3, Zenon DEF AstrayAsOne
<1>6. Astray(Popped(t, l), b, r, m, x - Counts(l, r, Head(t[l]), m))
  BY <1>4, <1>5, PopAstray, Zenon
<1> QED BY <1>1, <1>2, <1>3, <1>4, <1>6, Zenon DEF AstrayAsOne

LEMMA NoteDown ==
  ASSUME NEW q, NEW al, NEW r \in Routers, NEW m, NEW x, AstrayAsOne(q, al, r, m, x),
         NEW bl, NEW z, NEW e, Noted(al, bl, z, e)
  PROVE  AstrayAsOne(q, bl, r, m, x + Awaits(r, Merged(e), m) - Notes(z, r, Merged(e), m))
<1>1. PICK t : t = MergedQueue(q)
  BY Zenon
<1>2. PICK a : a = MergedLists(al)
  BY Zenon
<1>3. PICK b : b = MergedLists(bl)
  BY Zenon
<1>4. PICK o : o = Merged(e)
  BY Zenon
<1>5. Astray(t, a, r, m, x)
  BY <1>1, <1>2, Zenon DEF AstrayAsOne
<1>6. Noted(a, b, z, o)
  BY <1>2, <1>3, <1>4, MergedNote, Zenon
<1>7. Astray(t, b, r, m, x + Awaits(r, o, m) - Notes(z, r, o, m))
  BY <1>5, <1>6, NoteAstray, Zenon
<1> QED BY <1>1, <1>3, <1>4, <1>7, Zenon DEF AstrayAsOne

LEMMA StrikeOut ==
  ASSUME NEW q, NEW al, NEW r \in Routers, NEW m, NEW x, AstrayAsOne(q, al, r, m, x),
         NEW bl, NEW z, NEW i, Struck(al, bl, z, i), NEW e, e = al[z][i]
  PROVE  AstrayAsOne(q, bl, r, m, x + Notes(z, r, Merged(e), m) - Awaits(r, Merged(e), m))
<1>1. PICK t : t = MergedQueue(q)
  BY Zenon
<1>2. PICK a : a = MergedLists(al)
  BY Zenon
<1>3. PICK b : b = MergedLists(bl)
  BY Zenon
<1>5. Astray(t, a, r, m, x)
  BY <1>1, <1>2, Zenon DEF AstrayAsOne
<1>6. Struck(a, b, z, i) /\ a[z][i] = Merged(e)
  <2>1. Struck(MergedLists(al), MergedLists(bl), z, i) /\ MergedLists(al)[z][i] = Merged(al[z][i])
    <3>1. Struck(al, bl, z, i)
      OBVIOUS
    <3> QED BY <3>1, MergedStrike, SMT
  <2> QED BY <1>2, <1>3, <2>1, Zenon
<1>7. Astray(t, b, r, m, x + Notes(z, r, a[z][i], m) - Awaits(r, a[z][i], m))
  BY <1>5, <1>6, StrikeAstray, Zenon
<1> QED BY <1>1, <1>3, <1>6, <1>7, Zenon DEF AstrayAsOne

---------------------------------------------------------------------------
(* Each move leaves the books of a pair even *)

LEMMA EvenForward ==
  ASSUME NEW q \in Queues, NEW al, Even(q, al), NEW l \in Channels, q[l] # <<>>,
         NEW p \in Packets, p = Head(q[l]), l.vc # AckVC, l.to \in Routers,
         NEW g \in Channels, g.vc # AckVC, g.from = l.to, g.to \in Routers,
         NEW bl, NEW e, e.msg = p.msg, e.port = l.from, Noted(al, bl, l.to, e)
  PROVE  Even(Pushed(Popped(q, l), g, p), bl)
<1>1. PICK t \in Queues : t = Popped(q, l)
  BY PopIs, Zenon
<1>2. PICK o : o = Merged(p)
  BY Zenon
<1>3. PICK f : f = Merged(e)
  BY Zenon
<1>4. f.msg = o.msg /\ f.port = l.from
  <2>1. e \in Entries
    BY Zenon DEF Noted
  <2>2. o.msg = OneOf(Pair(p.msg))
    BY <1>2, MergedPacket, Zenon
  <2>3. f.msg = OneOf(Pair(e.msg)) /\ f.port = e.port
    BY <1>3, <2>1, MergedEntry, Zenon
  <2> QED BY <2>2, <2>3, Zenon
<1>5. ASSUME NEW r \in Routers, NEW m \in Messages
      PROVE  AstrayAsOne(Pushed(t, g, p), bl, r, m, 0)
  <2>1. AstrayAsOne(q, al, r, m, 0)
    BY Zenon DEF Even
  <2>2. PICK x : x = 0 - Counts(l, r, o, m)
    BY Zenon
  <2>3. AstrayAsOne(t, al, r, m, x)
    BY <1>1, <1>2, <2>1, <2>2, TakeOut, Zenon
  <2>4. PICK y : y = x + Counts(g, r, o, m)
    BY Zenon
  <2>5. AstrayAsOne(Pushed(t, g, p), al, r, m, y)
    BY <1>2, <2>3, <2>4, PutIn, Zenon
  <2>6. AstrayAsOne(Pushed(t, g, p), bl, r, m, y + Awaits(r, f, m) - Notes(l.to, r, f, m))
    BY <1>3, <2>5, NoteDown, Zenon
  <2>7. ((0 - Counts(l, r, o, m)) + Counts(g, r, o, m)) + Awaits(r, f, m) - Notes(l.to, r, f, m) = 0
    BY <1>4, ForwardAddsUp, SMTT(30)
  <2> QED BY <2>2, <2>4, <2>6, <2>7, Zenon
<1> QED BY <1>1, <1>5, Zenon DEF Even

\* The packet goes to a host, its ACK back to where it came from.
LEMMA EvenTurn ==
  ASSUME NEW q \in Queues, NEW al, Even(q, al), NEW l \in Channels, q[l] # <<>>,
         NEW p \in Packets, p = Head(q[l]), l.vc # AckVC, l.to \in Routers,
         NEW g \in Channels, g.vc # AckVC, g.to \notin Routers,
         NEW k \in Channels, k.vc = AckVC, k.to = l.from, NEW a \in Packets, a.msg = p.msg
  PROVE  Even(Pushed(Pushed(Popped(q, l), g, p), k, a), al)
<1>1. PICK t \in Queues : t = Popped(q, l)
  BY PopIs, Zenon
<1>2. PICK u \in Queues : u = Pushed(t, g, p)
  BY PushIs, Zenon
<1>3. PICK o : o = Merged(p)
  BY Zenon
<1>4. PICK f : f = Merged(a)
  BY Zenon
<1>5. f.msg = o.msg
  <2>1. o.msg = OneOf(Pair(p.msg))
    BY <1>3, MergedPacket, Zenon
  <2>2. f.msg = OneOf(Pair(a.msg))
    BY <1>4, MergedPacket, Zenon
  <2> QED BY <2>1, <2>2, Zenon
<1>6. ASSUME NEW r \in Routers, NEW m \in Messages
      PROVE  AstrayAsOne(Pushed(u, k, a), al, r, m, 0)
  <2>1. AstrayAsOne(q, al, r, m, 0)
    BY Zenon DEF Even
  <2>2. PICK x : x = 0 - Counts(l, r, o, m)
    BY Zenon
  <2>3. AstrayAsOne(t, al, r, m, x)
    BY <1>1, <1>3, <2>1, <2>2, TakeOut, Zenon
  <2>4. PICK y : y = x + Counts(g, r, o, m)
    BY Zenon
  <2>5. AstrayAsOne(u, al, r, m, y)
    BY <1>2, <1>3, <2>3, <2>4, PutIn, Zenon
  <2>6. AstrayAsOne(Pushed(u, k, a), al, r, m, y + Counts(k, r, f, m))
    BY <1>4, <2>5, PutIn, Zenon
  <2>7. y + Counts(k, r, f, m) = 0
    <3>1. PICK d \in {0, 1} : d = OfMsg(o, m)
      BY CountsIs, SMT
    <3>2. OfMsg(f, m) = d
      BY <1>5, <3>1, Zenon DEF OfMsg
    <3>3. /\ On(l, r) <=> l.from = r
          /\ ~On(g, r)
          /\ On(k, r) <=> l.from = r
      BY Zenon DEF On
    <3>4. Counts(l, r, o, m) = IF l.from = r THEN d ELSE 0
      BY <3>1, <3>3, CountsIs, SMT
    <3>5. Counts(g, r, o, m) = 0
      BY <3>3, CountsIs, SMT
    <3>6. Counts(k, r, f, m) = IF l.from = r THEN d ELSE 0
      BY <3>2, <3>3, CountsIs, SMT
    <3> QED BY <2>2, <2>4, <3>4, <3>5, <3>6, SMT
  <2> QED BY <2>6, <2>7, Zenon
<1> QED BY <1>1, <1>2, <1>6, Zenon DEF Even

\* The packet goes from one host to another, and no router waits for an ACK.
LEMMA EvenPast ==
  ASSUME NEW q \in Queues, NEW al, Even(q, al), NEW l \in Channels, q[l] # <<>>,
         NEW p \in Packets, p = Head(q[l]), l.vc # AckVC, l.from \notin Routers,
         NEW g \in Channels, g.vc # AckVC, g.to \notin Routers
  PROVE  Even(Pushed(Popped(q, l), g, p), al)
<1>1. PICK t \in Queues : t = Popped(q, l)
  BY PopIs, Zenon
<1>2. PICK o : o = Merged(p)
  BY Zenon
<1>3. ASSUME NEW r \in Routers, NEW m \in Messages
      PROVE  AstrayAsOne(Pushed(t, g, p), al, r, m, 0)
  <2>1. AstrayAsOne(q, al, r, m, 0)
    BY Zenon DEF Even
  <2>2. PICK x : x = 0 - Counts(l, r, o, m)
    BY Zenon
  <2>3. AstrayAsOne(t, al, r, m, x)
    BY <1>1, <1>2, <2>1, <2>2, TakeOut, Zenon
  <2>4. AstrayAsOne(Pushed(t, g, p), al, r, m, x + Counts(g, r, o, m))
    BY <1>2, <2>3, PutIn, Zenon
  <2>5. x + Counts(g, r, o, m) = 0
    <3>1. ~On(l, r) /\ ~On(g, r)
      BY Zenon DEF On
    <3>2. Counts(l, r, o, m) = 0 /\ Counts(g, r, o, m) = 0
      BY <3>1, CountsIs, SMT
    <3> QED BY <2>2, <3>2, SMT
  <2> QED BY <2>4, <2>5, Zenon
<1> QED BY <1>1, <1>3, Zenon DEF Even

\* An ACK goes on with the entry it took.
LEMMA EvenBack ==
  ASSUME NEW q \in Queues, NEW al, Even(q, al), NEW l \in Channels, q[l] # <<>>,
         NEW p \in Packets, p = Head(q[l]), l.vc = AckVC,
         NEW bl, NEW i, Struck(al, bl, l.to, i), NEW e, e = al[l.to][i], Pair(e.msg) = Pair(p.msg),
         NEW k \in Channels, k.vc = AckVC, k.to = e.port
  PROVE  Even(Pushed(Popped(q, l), k, p), bl)
<1>1. PICK t \in Queues : t = Popped(q, l)
  BY PopIs, Zenon
<1>2. PICK o : o = Merged(p)
  BY Zenon
<1>3. PICK f : f = Merged(e)
  BY Zenon
<1>4. f.msg = o.msg /\ f.port = e.port
  <2>1. e \in Entries
    BY MergedStrike, Zenon
  <2>2. o.msg = OneOf(Pair(p.msg))
    BY <1>2, MergedPacket, Zenon
  <2>3. f.msg = OneOf(Pair(e.msg)) /\ f.port = e.port
    BY <1>3, <2>1, MergedEntry, Zenon
  <2> QED BY <2>2, <2>3, Zenon
<1>5. ASSUME NEW r \in Routers, NEW m \in Messages
      PROVE  AstrayAsOne(Pushed(t, k, p), bl, r, m, 0)
  <2>1. AstrayAsOne(q, al, r, m, 0)
    BY Zenon DEF Even
  <2>2. PICK x : x = 0 - Counts(l, r, o, m)
    BY Zenon
  <2>3. AstrayAsOne(t, al, r, m, x)
    BY <1>1, <1>2, <2>1, <2>2, TakeOut, Zenon
  <2>4. PICK y : y = x + Notes(l.to, r, f, m) - Awaits(r, f, m)
    BY Zenon
  <2>5. AstrayAsOne(t, bl, r, m, y)
    BY <1>3, <2>3, <2>4, StrikeOut, Zenon
  <2>6. AstrayAsOne(Pushed(t, k, p), bl, r, m, y + Counts(k, r, o, m))
    BY <1>2, <2>5, PutIn, Zenon
  <2>7. ((0 - Counts(l, r, o, m)) + Notes(l.to, r, f, m) - Awaits(r, f, m)) + Counts(k, r, o, m) = 0
    <3>1. k.to = f.port /\ f.msg = o.msg
      BY <1>4, Zenon
    <3> QED BY <3>1, BackAddsUp, SMTT(30)
  <2> QED BY <2>2, <2>4, <2>6, <2>7, Zenon
<1> QED BY <1>1, <1>5, Zenon DEF Even

LEMMA EvenHome ==
  ASSUME NEW q \in Queues, NEW al, Even(q, al), NEW l \in Channels, q[l] # <<>>,
         NEW p \in Packets, p = Head(q[l]), l.vc = AckVC,
         NEW bl, NEW i, Struck(al, bl, l.to, i), NEW e, e = al[l.to][i], Pair(e.msg) = Pair(p.msg),
         e.port \notin Routers
  PROVE  Even(Popped(q, l), bl)
<1>1. PICK t \in Queues : t = Popped(q, l)
  BY PopIs, Zenon
<1>2. PICK o : o = Merged(p)
  BY Zenon
<1>3. PICK f : f = Merged(e)
  BY Zenon
<1>4. f.msg = o.msg /\ f.port = e.port
  <2>1. e \in Entries
    BY MergedStrike, Zenon
  <2>2. o.msg = OneOf(Pair(p.msg))
    BY <1>2, MergedPacket, Zenon
  <2>3. f.msg = OneOf(Pair(e.msg)) /\ f.port = e.port
    BY <1>3, <2>1, MergedEntry, Zenon
  <2> QED BY <2>2, <2>3, Zenon
<1>5. ASSUME NEW r \in Routers, NEW m \in Messages
      PROVE  AstrayAsOne(t, bl, r, m, 0)
  <2>1. AstrayAsOne(q, al, r, m, 0)
    BY Zenon DEF Even
  <2>2. PICK x : x = 0 - Counts(l, r, o, m)
    BY Zenon
  <2>3. AstrayAsOne(t, al, r, m, x)
    BY <1>1, <1>2, <2>1, <2>2, TakeOut, Zenon
  <2>4. AstrayAsOne(t, bl, r, m, x + Notes(l.to, r, f, m) - Awaits(r, f, m))
    BY <1>3, <2>3, StrikeOut, Zenon
  <2>5. (0 - Counts(l, r, o, m)) + Notes(l.to, r, f, m) - Awaits(r, f, m) = 0
    <3>1. f.port \notin Routers /\ f.msg = o.msg
      BY <1>4, Zenon
    <3> QED BY <3>1, BackToHostAddsUp, SMTT(30)
  <2> QED BY <2>2, <2>4, <2>5, Zenon
<1> QED BY <1>1, <1>5, Zenon DEF Even

\* Packets on a link to or from a host are in no router's books.
LEMMA EvenSent ==
  ASSUME NEW q \in Queues, NEW al, Even(q, al), NEW l \in Channels, NEW p \in Packets,
         \A r \in Routers : ~On(l, r)
  PROVE  Even(Pushed(q, l, p), al)
<1>1. ASSUME NEW r \in Routers, NEW m \in Messages
      PROVE  AstrayAsOne(Pushed(q, l, p), al, r, m, 0)
  <2>1. AstrayAsOne(q, al, r, m, 0)
    BY Zenon DEF Even
  <2>2. AstrayAsOne(Pushed(q, l, p), al, r, m, 0 + Counts(l, r, Merged(p), m))
    BY <2>1, PutIn, Zenon
  <2>3. 0 + Counts(l, r, Merged(p), m) = 0
    <3>1. Counts(l, r, Merged(p), m) = 0
      BY CountsIs, Zenon
    <3>2. 0 + 0 = 0
      BY SMT
    <3> QED BY <3>1, <3>2, Zenon
  <2> QED BY <2>2, <2>3, Zenon
<1> QED BY <1>1, Zenon DEF Even

LEMMA EvenReceived ==
  ASSUME NEW q \in Queues, NEW al, Even(q, al), NEW l \in Channels, q[l] # <<>>,
         \A r \in Routers : ~On(l, r)
  PROVE  Even(Popped(q, l), al)
<1>1. ASSUME NEW r \in Routers, NEW m \in Messages
      PROVE  AstrayAsOne(Popped(q, l), al, r, m, 0)
  <2>1. AstrayAsOne(q, al, r, m, 0)
    BY Zenon DEF Even
  <2>2. AstrayAsOne(Popped(q, l), al, r, m, 0 - Counts(l, r, Merged(Head(q[l])), m))
    BY <2>1, TakeOut, Zenon
  <2>3. 0 - Counts(l, r, Merged(Head(q[l])), m) = 0
    <3>1. Counts(l, r, Merged(Head(q[l])), m) = 0
      BY CountsIs, Zenon
    <3>2. 0 - 0 = 0
      BY SMT
    <3> QED BY <3>1, <3>2, Zenon
  <2> QED BY <2>2, <2>3, Zenon
<1> QED BY <1>1, Zenon DEF Even

---------------------------------------------------------------------------
(* What an ACK finds *)

\* All of it but what the NICs receive.
PairInv ==
  /\ LooseFit(queue, head) /\ CachedLeads(map_cached) /\ ListsFit(ack_list)
  /\ sent \in [Messages -> Nat] /\ Even(queue, ack_list)

LEMMA PairInvIs ==
  ASSUME PairInv
  PROVE  /\ LooseFit(queue, head) /\ CachedLeads(map_cached) /\ ListsFit(ack_list)
         /\ sent \in [Messages -> Nat] /\ Even(queue, ack_list)
         /\ queue \in Queues /\ DOMAIN head = Channels /\ ack_list \in Lists
         /\ \A l \in Channels : HeadLeads(queue, head, l)
BY Zenon DEF PairInv, LooseFit, ListsFit

LEMMA LooseHead ==
  ASSUME LooseFit(queue, head), NEW l \in Channels, queue[l] # <<>>
  PROVE  Head(queue[l]) \in Carried(l) /\ Head(queue[l]) \in Packets
<1>1. PICK s \in Seq(Carried(l)) : s = queue[l]
  BY Zenon DEF LooseFit
<1>2. s # <<>>
  BY <1>1, Zenon
<1>3. PICK p \in Carried(l) : p = Head(s)
  <2>1. Head(s) \in Carried(l)
    BY <1>2, SMT
  <2> QED BY <2>1, Zenon
<1>4. p \in Packets
  BY CarriedIs, Zenon
<1> QED BY <1>1, <1>3, <1>4, Zenon

LEMMA AckFindsEntry ==
  ASSUME PairInv, NEW l \in Channels, l.vc = AckVC, queue[l] # <<>>, NEW p, p = Head(queue[l])
  PROVE  /\ l.to \in Routers /\ p \in Carried(l) /\ p \in Packets
         /\ Matching(l.to, p) # {} /\ Match(l.to, p) \in 1 .. Len(ack_list[l.to])
         /\ ack_list[l.to][Match(l.to, p)] \in Entry(l.to)
         /\ Pair(ack_list[l.to][Match(l.to, p)].msg) = Pair(p.msg)
<1>1. /\ LooseFit(queue, head) /\ ListsFit(ack_list) /\ Even(queue, ack_list)
      /\ queue \in Queues /\ ack_list \in Lists
  BY PairInvIs, Zenon
<1>2. PICK r \in Routers : r = l.to
  BY ChannelKinds, Zenon
<1>3. On(l, r)
  BY <1>2, Zenon DEF On
<1>4. p \in Carried(l) /\ p \in Packets
  BY <1>1, LooseHead, Zenon
<1>5. PICK t \in Queues : t = MergedQueue(queue)
  BY <1>1, MergedQueueIs, Zenon
<1>6. PICK b \in Lists : b = MergedLists(ack_list)
  BY <1>1, MergedListsAre, Zenon
<1>7. PICK o \in Packets : o = Merged(p)
  BY <1>4, MergedPacket, Zenon
<1>8. PICK m \in Messages : m = o.msg
  BY MergedPacket, Zenon
<1>9. p.msg \in Messages /\ m = OneOf(Pair(p.msg)) /\ Pair(m) = Pair(p.msg)
  <2>1. p.msg \in Messages /\ m = OneOf(Pair(p.msg))
    BY <1>4, <1>7, <1>8, MergedPacket, Zenon
  <2> QED BY <2>1, OneOfIs, Zenon
<1>10. t[l] # <<>> /\ Head(t[l]) = o
  BY <1>1, <1>5, <1>7, MergedQueueIs, Zenon
<1>11. HowMany(t[l], PacketsOf(m)) # 0
  <2>1. PICK s \in Seq(Packets) : s = t[l]
    BY Zenon DEF Queues
  <2>2. s # <<>> /\ Head(s) = o
    BY <1>10, <2>1, Zenon
  <2>3. 1 \in 1 .. Len(s) /\ s[1] = o
    BY <2>2, SMT
  <2>4. o \in PacketsOf(m)
    BY <1>8, Zenon DEF PacketsOf
  <2> QED BY <2>1, <2>3, <2>4, HowManyIs, Zenon
<1>12. Astray(t, b, r, m, 0)
  BY <1>1, <1>5, <1>6, Zenon DEF Even, AstrayAsOne
<1>13. /\ Kept(b, r, m) \in Nat /\ Out(t, r, m) \in Nat /\ Coming(b, r, m) \in Nat
       /\ Kept(b, r, m) + 0 = Out(t, r, m) + Coming(b, r, m)
  BY <1>12, AstrayIs, SMTT(20)
<1>14. Out(t, r, m) # 0
  <2>1. LoadTerms(Load(t, r, m), t, r, m)
    BY LoadIs, Zenon
  <2>2. Load(t, r, m)[l] # 0
    BY <1>3, <1>11, <2>1, Zenon DEF LoadTerms
  <2>3. Summed(Channels, Load(t, r, m))
    BY <1>12, Zenon DEF Astray
  <2> QED BY <2>2, <2>3, SummedIs, Zenon DEF Out
<1>15. Kept(b, r, m) # 0
  BY <1>13, <1>14, SMT
<1>16. b[r] = MergedSeq(ack_list[r]) /\ Len(b[r]) = Len(ack_list[r])
       /\ \A k \in 1 .. Len(ack_list[r]) : b[r][k] = Merged(ack_list[r][k])
  <2>1. /\ MergedLists(ack_list)[r] = MergedSeq(ack_list[r])
        /\ Len(MergedSeq(ack_list[r])) = Len(ack_list[r])
        /\ \A k \in 1 .. Len(ack_list[r]) : MergedSeq(ack_list[r])[k] = Merged(ack_list[r][k])
    BY <1>1, MergedListsAre, Zenon
  <2> QED BY <1>6, <2>1, Zenon
<1>17. PICK k \in 1 .. Len(ack_list[r]) : b[r][k] \in EntriesOf(m)
  <2>1. b[r] \in Seq(Entries)
    BY Zenon DEF Lists
  <2> QED BY <1>15, <1>16, <2>1, HowManyIs, Zenon DEF Kept
<1>18. Pair(ack_list[r][k].msg) = Pair(p.msg)
  <2>1. b[r][k].msg = m /\ b[r][k] = Merged(ack_list[r][k])
    BY <1>16, <1>17, Zenon DEF EntriesOf
  <2>2. ack_list[r] \in Seq(Entries)
    BY <1>1, Zenon DEF Lists
  <2>3. PICK e \in Entries : e = ack_list[r][k]
    BY <2>2, ElementIs, SMT
  <2>4. m = OneOf(Pair(e.msg)) /\ e.msg \in Messages
    BY <2>1, <2>3, MergedEntry, Zenon
  <2>5. Pair(m) = Pair(e.msg)
    BY <2>4, OneOfIs, Zenon
  <2> QED BY <1>9, <2>3, <2>5, Zenon
<1>19. ack_list[r] \in Seq(Entry(r))
  BY <1>1, Zenon DEF ListsFit
<1>20. /\ Matching(r, p) # {} /\ Match(r, p) \in 1 .. Len(ack_list[r])
       /\ ack_list[r][Match(r, p)] \in Entry(r)
       /\ Pair(ack_list[r][Match(r, p)].msg) = Pair(p.msg)
  BY <1>18, <1>19, FirstMatch, Zenon
<1> QED BY <1>2, <1>4, <1>20, Zenon

---------------------------------------------------------------------------
(* The actions, for messages that may be taken for one another *)

LEMMA SendPairs ==
  ASSUME PairInv, NEW m0 \in Messages, getPayload(m0)
  PROVE  PairInv'
<1> DEFINE g == Channel(From[m0], Router[From[m0]], 0)
           p == [msg |-> m0, id |-> sent[m0], ack |-> FALSE]
<1>1. /\ sent[m0] < Length[m0]
      /\ queue' = Pushed(queue, g, p) /\ sent' = [sent EXCEPT ![m0] = @ + 1]
      /\ UNCHANGED <<head, map_cached, ack_list>>
  BY Zenon DEF getPayload, tables
<1>2. /\ LooseFit(queue, head) /\ CachedLeads(map_cached) /\ ListsFit(ack_list)
      /\ sent \in [Messages -> Nat] /\ Even(queue, ack_list) /\ queue \in Queues
  BY PairInvIs, Zenon
<1>3. /\ From[m0] \in Hosts /\ Router[From[m0]] \in Routers /\ From[m0] \notin Routers
      /\ sent[m0] \in Nat
  BY <1>2, MessagesAssumption, TopologyAssumption, Zenon
<1>4. g \in Channels
  BY <1>3, InChannels, Zenon
<1>5. g.from = From[m0] /\ g.vc = 0 /\ 0 # AckVC
  <2>1. 0 # AckVC
    BY SMT DEF AckVC
  <2> QED BY <2>1, Zenon DEF Channel
<1>6. p \in Packets /\ p \in Carried(g)
  <2>1. p \in Packets /\ p.ack = FALSE /\ p.id = sent[m0] /\ p.msg = m0
    BY <1>3, SMT DEF Packets
  <2> HIDE DEF p, g
  <2> QED BY <1>1, <1>5, <2>1, Zenon DEF Carried
<1> HIDE DEF g, p
<1>7. LooseFit(queue', head')
  <2>1. LooseFit(Pushed(queue, g, p), head)
    BY <1>2, <1>4, <1>6, LoosePush, Zenon
  <2> QED BY <1>1, <2>1, Zenon
<1>8. Even(queue', ack_list')
  <2>1. \A r \in Routers : ~On(g, r)
    BY <1>3, <1>5, Zenon DEF On
  <2>2. Even(Pushed(queue, g, p), ack_list)
    BY <1>2, <1>4, <1>6, <2>1, EvenSent, Zenon
  <2> QED BY <1>1, <2>2, Zenon
<1>9. sent' \in [Messages -> Nat]
  <2>1. sent[m0] + 1 \in Nat
    BY <1>3, SMT
  <2> QED BY <1>1, <1>2, <2>1, Zenon
<1>10. CachedLeads(map_cached') /\ ListsFit(ack_list')
  BY <1>1, <1>2, Zenon
<1> QED BY <1>7, <1>8, <1>9, <1>10, Zenon DEF PairInv

LEMMA StayPairs ==
  ASSUME PairInv, UNCHANGED <<channels, tables>>, UNCHANGED sent
  PROVE  PairInv'
<1>1. UNCHANGED <<queue, head, map_cached, ack_list, sent>>
  BY Zenon DEF channels, tables
<1> QED BY <1>1, Zenon DEF PairInv

LEMMA ArrivePairs ==
  ASSUME PairInv, NEW l \in Channels, Arrive(l)
  PROVE  PairInv'
<1> DEFINE p == Head(queue[l])
<1>1. PICK hop \in Routes(l, p) :
        /\ l.to \in Routers /\ queue[l] # <<>> /\ head[l] = Unrouted
        /\ head' = [head EXCEPT ![l] = hop]
        /\ map_cached' = [map_cached EXCEPT ![l.to] = Cached(@, p, hop)]
        /\ UNCHANGED <<queue, ack_list, sent>>
  BY Zenon DEF Arrive, nics
<1>2. /\ LooseFit(queue, head) /\ CachedLeads(map_cached) /\ ListsFit(ack_list)
      /\ sent \in [Messages -> Nat] /\ Even(queue, ack_list) /\ DOMAIN head = Channels
  BY PairInvIs, Zenon
<1>3. p \in Carried(l)
  BY <1>1, <1>2, LooseHead, Zenon
<1> HIDE DEF p
<1>4. GoodWay(l, hop)
  BY <1>1, <1>2, <1>3, RoutesLead, Zenon
<1>5. head'[l] = hop /\ DOMAIN head' = Channels /\ Reheads(head, head', l)
  BY <1>1, <1>2, Zenon DEF Reheads
<1>6. LooseFit(queue', head')
  <2>1. GoodWay(l, head'[l])
    BY <1>4, <1>5, Zenon
  <2>2. PICK he : he = head'
    BY Zenon
  <2>3. LooseFit(queue, he)
    BY <1>1, <1>2, <1>5, <2>1, <2>2, LooseRoute, Zenon
  <2> QED BY <1>1, <2>2, <2>3, Zenon
<1>7. CachedLeads(map_cached')
  <2>1. CachedLeads([map_cached EXCEPT ![l.to] = Cached(@, p, hop)])
    BY <1>1, <1>2, <1>3, <1>4, CachedLead, Zenon
  <2> QED BY <1>1, <2>1, Zenon
<1>8. ListsFit(ack_list') /\ sent' \in [Messages -> Nat] /\ Even(queue', ack_list')
  BY <1>1, <1>2, Zenon
<1> QED BY <1>6, <1>7, <1>8, Zenon DEF PairInv

LEMMA ReceivePairs ==
  ASSUME PairInv, NEW l \in Channels, handle_event(l)
  PROVE  PairInv'
<1>1. /\ l.from \in Routers /\ l.to \in Hosts /\ queue[l] # <<>> /\ queue' = Popped(queue, l)
      /\ UNCHANGED <<head, map_cached, ack_list, sent>>
  BY Zenon DEF handle_event, tables
<1>2. /\ LooseFit(queue, head) /\ CachedLeads(map_cached) /\ ListsFit(ack_list)
      /\ sent \in [Messages -> Nat] /\ Even(queue, ack_list) /\ queue \in Queues
      /\ DOMAIN head = Channels /\ HeadLeads(queue, head, l)
  BY PairInvIs, Zenon
<1>3. l.to \notin Routers /\ l.vc # AckVC
  BY <1>1, TopologyAssumption, ChannelKinds, Zenon
<1>4. LooseFit(queue', head')
  <2>1. head[l] = Unrouted /\ Reheads(head, head, l)
    BY <1>2, <1>3, Zenon DEF HeadLeads, Reheads
  <2>2. LooseFit(Popped(queue, l), head)
    BY <1>1, <1>2, <2>1, LoosePop, Zenon
  <2> QED BY <1>1, <2>2, Zenon
<1>5. Even(queue', ack_list')
  <2>1. \A r \in Routers : ~On(l, r)
    BY <1>3, Zenon DEF On
  <2>2. Even(Popped(queue, l), ack_list)
    BY <1>1, <1>2, <2>1, EvenReceived, Zenon
  <2> QED BY <1>1, <2>2, Zenon
<1>6. CachedLeads(map_cached') /\ ListsFit(ack_list') /\ sent' \in [Messages -> Nat]
  BY <1>1, <1>2, Zenon
<1> QED BY <1>4, <1>5, <1>6, Zenon DEF PairInv

LEMMA DataPairs ==
  ASSUME PairInv, NEW l \in Channels, l.to \in Routers, queue[l] # <<>>, head[l] # Unrouted,
         NEW next \in NextHeads(l), Data(l, next)
  PROVE  PairInv'
<1> DEFINE p == Head(queue[l])
           g == Channel(l.to, head[l].to, head[l].vc)
           k == Channel(l.to, l.from, AckVC)
           a == [p EXCEPT !.ack = TRUE]
           q == Popped(queue, l)
<1>1. /\ ~p.ack
      /\ head' = [head EXCEPT ![l] = next]
      /\ map_cached' = [map_cached EXCEPT ![l.to] = CachedAfter(l, next)]
      /\ head[l].to \in Hosts =>
           /\ ack_list' = ack_list
           /\ l.from \in Hosts => queue' = Pushed(q, g, p)
           /\ l.from \notin Hosts => queue' = Pushed(Pushed(q, g, p), k, a)
      /\ head[l].to \notin Hosts =>
           /\ queue' = Pushed(q, g, p)
           /\ ack_list' = [ack_list EXCEPT ![l.to] = Append(@, AckInfo(p, l.from))]
      /\ UNCHANGED sent
  BY Zenon DEF Data, recvs, Listed, nics
<1>2. /\ LooseFit(queue, head) /\ CachedLeads(map_cached) /\ ListsFit(ack_list)
      /\ sent \in [Messages -> Nat] /\ Even(queue, ack_list) /\ queue \in Queues
      /\ HeadLeads(queue, head, l)
  BY PairInvIs, Zenon
<1>3. LooseFit(q, head') /\ CachedLeads(map_cached')
  BY <1>1, <1>2, LooseRecv, Zenon
<1>4. p \in Carried(l) /\ p \in Packets
  BY <1>2, LooseHead, Zenon
<1>5. p = Head(queue[l]) /\ p.msg \in Messages /\ p.id < Length[p.msg] /\ l.vc # AckVC
  <2> HIDE DEF p
  <2>1. p.msg \in Messages /\ p.id < Length[p.msg] /\ OfKind(p, l)
    BY <1>4, CarriedIs, Zenon
  <2>2. p = Head(queue[l])
    BY Zenon DEF p
  <2> QED BY <1>1, <2>1, <2>2, Zenon DEF OfKind
<1>6. /\ g \in Channels /\ g.from = l.to /\ g.to = head[l].to /\ g.vc # AckVC
      /\ g.to \in Routers \union Hosts
  <2>1. head[l] \in Ways(l.to)
    BY <1>2, <1>5, Zenon DEF HeadLeads, GoodWay
  <2>2. PICK c : c = g
    BY Zenon
  <2>3. c = Channel(l.to, head[l].to, head[l].vc)
    BY <2>2, Zenon
  <2>4. c \in Channels /\ c.from = l.to /\ c.to = head[l].to /\ c.vc # AckVC /\ c.to \in Routers \union Hosts
    BY <2>1, <2>3, WaysLead, SMTT(20)
  <2> QED BY <2>2, <2>4, Zenon
<1>7. /\ l.from \in Routers \union Hosts /\ (l.from \in Routers => k \in Channels)
      /\ k.vc = AckVC /\ k.to = l.from
  <2>1. /\ l.from \in Routers \union Hosts
        /\ l.from \in Routers => Channel(l.to, l.from, AckVC) \in Channels
    BY <1>5, ChannelKinds, Zenon
  <2> QED BY <2>1, Zenon DEF Channel
<1>8. a \in Packets /\ a.msg = p.msg /\ a.id = p.id /\ a.ack = TRUE
  <2> HIDE DEF p
  <2> QED BY <1>4, AckOfPacket, Zenon
<1>9. Routers \intersect Hosts = {}
  BY TopologyAssumption, Zenon
<1>10. q = Popped(queue, l)
  OBVIOUS
<1> HIDE DEF p, g, k, a, q
<1>11. p \in Carried(g) /\ a \in Carried(k)
  BY <1>1, <1>4, <1>5, <1>6, <1>7, <1>8, Zenon DEF Carried
<1>12. PICK he : he = head'
  BY Zenon
<1>13. LooseFit(Pushed(q, g, p), he)
  BY <1>3, <1>6, <1>11, <1>12, LoosePush, Zenon
<1>14. CASE g.to \in Routers
  <2>1. head[l].to \notin Hosts
    BY <1>6, <1>9, <1>14, Zenon
  <2>2. /\ queue' = Pushed(q, g, p)
        /\ ack_list' = [ack_list EXCEPT ![l.to] = Append(@, AckInfo(p, l.from))]
    BY <1>1, <2>1, Zenon
  <2>3. PICK e : e = AckInfo(p, l.from)
    BY Zenon
  <2>4. PICK al : al = ack_list'
    BY Zenon
  <2>5. e.msg = p.msg /\ e.port = l.from /\ Noted(ack_list, al, l.to, e) /\ ListsFit(al)
    BY <1>2, <1>4, <1>5, <2>2, <2>3, <2>4, NotedFits, Zenon
  <2>6. Even(Pushed(Popped(queue, l), g, p), al)
    BY <1>2, <1>4, <1>5, <1>6, <1>14, <2>5, EvenForward, Zenon
  <2> QED BY <1>1, <1>2, <1>3, <1>10, <1>12, <1>13, <2>2, <2>4, <2>5, <2>6, Zenon DEF PairInv
<1>15. CASE g.to \notin Routers /\ l.from \in Hosts
  <2>1. queue' = Pushed(q, g, p) /\ ack_list' = ack_list /\ l.from \notin Routers
    BY <1>1, <1>6, <1>9, <1>15, Zenon
  <2>2. Even(Pushed(Popped(queue, l), g, p), ack_list)
    BY <1>2, <1>4, <1>5, <1>6, <1>15, <2>1, EvenPast, Zenon
  <2> QED BY <1>1, <1>2, <1>3, <1>10, <1>12, <1>13, <2>1, <2>2, Zenon DEF PairInv
<1>16. CASE g.to \notin Routers /\ l.from \notin Hosts
  <2>1. queue' = Pushed(Pushed(q, g, p), k, a) /\ ack_list' = ack_list /\ k \in Channels
    BY <1>1, <1>6, <1>7, <1>16, Zenon
  <2>2. Even(Pushed(Pushed(Popped(queue, l), g, p), k, a), ack_list)
    BY <1>2, <1>4, <1>5, <1>6, <1>7, <1>8, <1>16, <2>1, EvenTurn, Zenon
  <2>3. LooseFit(Pushed(Pushed(q, g, p), k, a), he)
    <3>1. PICK t : t = Pushed(q, g, p)
      BY Zenon
    <3>2. LooseFit(Pushed(t, k, a), he)
      BY <1>11, <1>13, <2>1, <3>1, LoosePush, Zenon
    <3> QED BY <3>1, <3>2, Zenon
  <2> QED BY <1>1, <1>2, <1>3, <1>10, <1>12, <2>1, <2>2, <2>3, Zenon DEF PairInv
<1> QED BY <1>14, <1>15, <1>16, Zenon

LEMMA AckPairs ==
  ASSUME PairInv, NEW l \in Channels, l.to \in Routers, queue[l] # <<>>, head[l] # Unrouted,
         NEW next \in NextHeads(l), Ack(l, next)
  PROVE  PairInv'
<1> DEFINE p == Head(queue[l])
           i == Match(l.to, p)
           e == ack_list[l.to][i]
           q == Popped(queue, l)
           k == Channel(l.to, e.port, AckVC)
<1>1. p.ack
  BY Zenon DEF Ack
<1>2. /\ LooseFit(queue, head) /\ CachedLeads(map_cached) /\ ListsFit(ack_list)
      /\ sent \in [Messages -> Nat] /\ Even(queue, ack_list) /\ queue \in Queues
  BY PairInvIs, Zenon
<1>3. l.vc = AckVC
  <2>1. p \in Carried(l)
    BY <1>2, LooseHead, Zenon
  <2>2. OfKind(p, l)
    <3> HIDE DEF p
    <3> QED BY <2>1, CarriedIs, Zenon
  <2> QED BY <1>1, <2>2, Zenon DEF OfKind
<1>4. /\ p \in Carried(l) /\ p \in Packets /\ Matching(l.to, p) # {}
      /\ i \in 1 .. Len(ack_list[l.to]) /\ e \in Entry(l.to) /\ Pair(e.msg) = Pair(p.msg)
  BY <1>3, AckFindsEntry, Zenon
<1>5. /\ head' = [head EXCEPT ![l] = next]
      /\ map_cached' = [map_cached EXCEPT ![l.to] = CachedAfter(l, next)]
      /\ ack_list' = [ack_list EXCEPT ![l.to] = Without(@, i)]
      /\ queue' = IF e.port \in Hosts THEN q ELSE Pushed(q, k, p)
      /\ UNCHANGED sent
  BY <1>4, Zenon DEF Ack, recvs, Without, nics
<1>6. LooseFit(q, head') /\ CachedLeads(map_cached')
  BY <1>2, <1>5, LooseRecv, Zenon
<1>7. /\ e.port \in Routers \union Hosts /\ (e.port \in Routers => k \in Channels)
      /\ k.vc = AckVC /\ k.to = e.port
  <2>1. PICK f \in Entry(l.to) : f = e
    BY <1>4, Zenon
  <2>2. f.port \in Routers \union Hosts /\ (f.port \in Routers => Channel(l.to, f.port, AckVC) \in Channels)
    <3>1. f \in Entries /\ (f.port \in Routers => Channel(l.to, f.port, AckVC) \in Channels)
      BY Zenon DEF Entry
    <3>2. f.port \in Routers \union Hosts
      BY <3>1, SMT DEF Entries
    <3> QED BY <3>1, <3>2, Zenon
  <2> QED BY <2>1, <2>2, Zenon DEF Channel
<1>8. Routers \intersect Hosts = {}
  BY TopologyAssumption, Zenon
<1>9. PICK al : al = ack_list'
  BY Zenon
<1>10. Struck(ack_list, al, l.to, i) /\ ListsFit(al)
  BY <1>2, <1>4, <1>5, <1>9, StruckFits, Zenon
<1>11. p = Head(queue[l]) /\ e = ack_list[l.to][i] /\ q = Popped(queue, l)
  OBVIOUS
<1> HIDE DEF p, i, e, q, k
<1>12. PICK he : he = head'
  BY Zenon
<1>13. CASE e.port \in Hosts
  <2>1. e.port \notin Routers /\ queue' = q
    BY <1>5, <1>8, <1>13, Zenon
  <2>2. Even(Popped(queue, l), al)
    BY <1>2, <1>3, <1>4, <1>10, <1>11, <2>1, EvenHome, Zenon
  <2> QED BY <1>2, <1>5, <1>6, <1>9, <1>10, <1>11, <2>1, <2>2, Zenon DEF PairInv
<1>14. CASE e.port \notin Hosts
  <2>1. k \in Channels /\ k.vc = AckVC /\ k.to = e.port /\ queue' = Pushed(q, k, p)
    BY <1>5, <1>7, <1>14, Zenon
  <2>2. Even(Pushed(Popped(queue, l), k, p), al)
    BY <1>2, <1>3, <1>4, <1>10, <1>11, <2>1, EvenBack, Zenon
  <2>3. p \in Carried(k)
    BY <1>3, <1>4, <2>1, Zenon DEF Carried
  <2>4. LooseFit(Pushed(q, k, p), he)
    BY <1>6, <1>12, <2>1, <2>3, LoosePush, Zenon
  <2> QED BY <1>2, <1>5, <1>6, <1>9, <1>10, <1>11, <1>12, <2>1, <2>2, <2>4, Zenon DEF PairInv
<1> QED BY <1>13, <1>14, Zenon

LEMMA InitPairs ==
  ASSUME Init
  PROVE  PairInv
<1>1. /\ queue = [l \in Channels |-> <<>>] /\ head = [l \in Channels |-> Unrouted]
      /\ map_cached = [r \in Routers |-> [m \in Messages |-> Hop(Port0[r], 0)]]
      /\ ack_list = [r \in Routers |-> <<>>] /\ sent = [m \in Messages |-> 0]
  BY Zenon DEF Init
<1>2. ASSUME NEW S
      PROVE  <<>> \in Seq(S)
  BY SMT
<1>3. LooseFit(queue, head)
  BY <1>1, <1>2, Zenon DEF LooseFit, Queues, HeadLeads
<1>4. CachedLeads(map_cached)
  <2>1. 0 \in VCs
    BY Zenon DEF VCs
  <2>2. \A r \in Routers : Port0[r] \in Hosts
    BY TopologyAssumption, Zenon
  <2>3. \A r \in Routers : Hop(Port0[r], 0) \in Ways(r)
    BY <2>1, <2>2, HostIsAWay, Zenon
  <2> QED BY <1>1, <2>3, Zenon DEF CachedLeads
<1>5. ListsFit(ack_list)
  BY <1>1, <1>2, Zenon DEF ListsFit, Lists
<1>6. sent \in [Messages -> Nat]
  <2>1. 0 \in Nat
    BY SMT
  <2> QED BY <1>1, <2>1, Zenon
<1>7. Even(queue, ack_list)
  <2>1. PICK t \in Queues : t = MergedQueue(queue)
    BY <1>3, MergedQueueIs, Zenon DEF LooseFit
  <2>2. PICK b \in Lists : b = MergedLists(ack_list)
    BY <1>5, MergedListsAre, Zenon DEF ListsFit
  <2>3. MergedSeq(<<>>) = <<>>
    BY SMT DEF MergedSeq
  <2>4. \A l \in Channels : t[l] = <<>>
    BY <1>1, <2>1, <2>3, Zenon DEF MergedQueue
  <2>5. \A r \in Routers : b[r] = <<>>
    BY <1>1, <2>2, <2>3, Zenon DEF MergedLists
  <2>6. ASSUME NEW r \in Routers, NEW m \in Messages
        PROVE  Astray(t, b, r, m, 0)
    <3>1. Summed(Channels, Load(t, r, m)) /\ Total(Channels, Load(t, r, m)) = 0
      <4>1. LoadTerms(Load(t, r, m), t, r, m)
        BY LoadIs, Zenon
      <4>2. \A l \in Channels : Load(t, r, m)[l] = 0
        BY <2>4, <4>1, HowManyOfNone, Zenon DEF LoadTerms
      <4> QED BY <4>1, <4>2, SummedNone, Zenon DEF LoadTerms
    <3>2. Summed(Routers, Due(b, r, m)) /\ Total(Routers, Due(b, r, m)) = 0
      <4>1. DueTerms(Due(b, r, m), b, r, m)
        BY DueIs, Zenon
      <4>2. \A x \in Routers : Due(b, r, m)[x] = 0
        BY <2>5, <4>1, HowManyOfNone, Zenon DEF DueTerms
      <4> QED BY <4>1, <4>2, SummedNone, Zenon DEF DueTerms
    <3>3. Kept(b, r, m) = 0
      BY <2>5, HowManyOfNone, Zenon DEF Kept
    <3>4. Out(t, r, m) = 0 /\ Coming(b, r, m) = 0 /\ 0 \in Int /\ 0 + 0 = 0
      <4>1. 0 \in Int /\ 0 + 0 = 0
        BY SMT
      <4> QED BY <3>1, <3>2, <4>1, Zenon DEF Out, Coming
    <3> QED BY <3>1, <3>2, <3>3, <3>4, Zenon DEF Astray
  <2> QED BY <2>1, <2>2, <2>6, Zenon DEF Even, AstrayAsOne
<1> QED BY <1>3, <1>4, <1>5, <1>6, <1>7, Zenon DEF PairInv

LEMMA StepPairs ==
  ASSUME PairInv, [Next]_vars
  PROVE  PairInv'
<1>1. ASSUME NEW m \in Messages, getPayload(m)
      PROVE  PairInv'
  BY <1>1, SendPairs, Zenon
<1>2. ASSUME NEW h \in Hosts, processControl(h)
      PROVE  PairInv'
  BY <1>2, StayPairs, Zenon DEF processControl
<1>3. ASSUME NEW l \in Channels, Arrive(l)
      PROVE  PairInv'
  BY <1>3, ArrivePairs, Zenon
<1>4. ASSUME NEW l \in Channels, Cross(l)
      PROVE  PairInv'
  <2>1. PICK next \in NextHeads(l) : Data(l, next) \/ Ack(l, next)
    BY <1>4, Zenon DEF Cross
  <2>2. l.to \in Routers /\ queue[l] # <<>> /\ head[l] # Unrouted
    BY <1>4, Zenon DEF Cross
  <2>3. CASE Data(l, next)
    BY <2>2, <2>3, DataPairs, Zenon
  <2>4. CASE Ack(l, next)
    BY <2>2, <2>4, AckPairs, Zenon
  <2> QED BY <2>1, <2>3, <2>4, Zenon
<1>5. ASSUME NEW l \in Channels, handle_event(l)
      PROVE  PairInv'
  BY <1>5, ReceivePairs, Zenon
<1>6. ASSUME UNCHANGED vars
      PROVE  PairInv'
  BY <1>6, StayPairs, Zenon DEF vars, nics
<1> QED BY <1>1, <1>2, <1>3, <1>4, <1>5, <1>6, Zenon DEF Next

LEMMA PairsFindEntries ==
  ASSUME PairInv
  PROVE  AcksFindAnEntry
<1>1. ASSUME NEW l \in Channels, l.to \in Routers, head[l] = AckHop
      PROVE  Matching(l.to, Head(queue[l])) # {}
  <2>1. HeadLeads(queue, head, l)
    BY PairInvIs, Zenon
  <2>2. AckHop # Unrouted
    <3>1. AckHop.vc = AckVC /\ Unrouted.vc = 0
      BY Zenon DEF AckHop, Unrouted, Hop
    <3>2. AckVC # 0
      BY SMT DEF AckVC
    <3> QED BY <3>1, <3>2, Zenon
  <2>3. queue[l] # <<>> /\ GoodWay(l, AckHop)
    BY <1>1, <2>1, <2>2, Zenon DEF HeadLeads
  <2>4. l.vc = AckVC
    <3>1. SUFFICES ASSUME l.vc # AckVC PROVE FALSE
      OBVIOUS
    <3>2. l.to \in Routers /\ AckHop \in Ways(l.to)
      BY <1>1, <2>3, <3>1, Zenon DEF GoodWay
    <3>3. PICK hop \in Ways(l.to) : hop = AckHop
      BY <3>2, Zenon
    <3>4. PICK g : g = Channel(l.to, hop.to, hop.vc)
      BY Zenon
    <3>5. hop # AckHop
      BY <3>2, <3>4, WaysLead, SMTT(20)
    <3> QED BY <3>3, <3>5, Zenon
  <2> QED BY <2>3, <2>4, AckFindsEntry, Zenon
<1> QED BY <1>1, Zenon DEF AcksFindAnEntry

\* An ACK finds an entry of its pair of hosts in ack_list at every router, in any
\* dragonfly, whatever messages its hosts send each other at the same time and
\* although the search may take the entry of another one (hr_router::clock_handler):
\* for a pair a router has noted as much as is out on its links and due to it.
THEOREM AcksFindEntries == Spec => []AcksFindAnEntry
<1>1. Init => PairInv
  BY InitPairs, Zenon
<1>2. PairInv /\ [Next]_vars => PairInv'
  BY StepPairs, Zenon
<1>3. PairInv => AcksFindAnEntry
  BY PairsFindEntries, Zenon
<1> QED BY <1>1, <1>2, <1>3, PTL DEF Spec
=============================================================================
