--------------------------- MODULE DragonflyRouter ---------------------------
(***************************************************************************)
(* Flowcut switching in the dragonfly: the routers count the packets of a  *)
(* message they sent on and the ACKs that came back, keep its path while   *)
(* the two differ (topo_dragonfly::route_packet), send the ACK of a packet *)
(* back along the ports the packet came in by, and stop the NIC of the     *)
(* source when a flowcut grows too large, until everything in flight is    *)
(* acknowledged (hr_router::clock_handler, Nic::SendMachine).              *)
(*                                                                         *)
(* A queue stands for an output buffer, its link and the input buffer at   *)
(* the other end.  Only the head of an input buffer has been routed: on    *)
(* its arrival, or when the packet before it was taken out.                *)
(***************************************************************************)
EXTENDS Integers, Sequences

CONSTANTS
  Routers, Hosts,
  Router,        \* Router[h]: the router of host h
  Hops,          \* Hops[m][r]: the [to, vc] the routing algorithm may choose in r for m
  Port0,         \* Port0[r]: what port 0 of router r leads to
  Messages, From, To, Length,
  flowcut_mode,  \* 0 .. 6: what makes the first router stop the source
  flowcut_value, \* mode 0: the size a flowcut may reach (in packets, as MPRSize)
  MPRSize,       \* mode 2: the size below which it stops nothing (20000 bytes)
  BufferSize     \* packets a channel takes (ACKs are sent without credits)

ASSUME MessagesAssumption ==
  /\ Messages \subseteq Nat /\ Length \in [Messages -> Nat]
  /\ From \in [Messages -> Hosts] /\ To \in [Messages -> Hosts]
  /\ \A m \in Messages : Router[From[m]] # Router[To[m]]
  /\ flowcut_mode \in 0 .. 6 /\ {flowcut_value, MPRSize} \subseteq Nat
  /\ BufferSize \in Nat \ {0}

\* A hop leads to another router, in a virtual channel of packets.
ASSUME TopologyAssumption ==
  /\ Routers \intersect Hosts = {} /\ Router \in [Hosts -> Routers]
  /\ Port0 \in [Routers -> Hosts]
  /\ \A m \in Messages, r \in Routers : Hops[m][r] \subseteq [to : Routers \ {r}, vc : Nat]
  /\ {"unrouted", "ack"} \intersect (Routers \union Hosts) = {}

VARIABLES
  sent,            \* sent[m]: how many packets of message m its NIC sent
  draining_map,    \* draining_map[m]: the NIC was told to hold message m back
  queue,           \* queue[l]: the packets on their way over channel l
  head,            \* head[l]: the hop of the first of them, once it is routed
  list_ack_status, \* per router and message: packets sent on, ACKs received
  map_cached,      \* per router and message: the hop of the current flowcut
  ack_list,        \* ack_list[r]: the ACKs router r waits for and their ports
  size_flowcut,    \* size_flowcut[m] of the first router
  latest_hop_count,\* of the first router: 0, or 1 once it was set by an ACK of m
  draining_status, \* draining_status_map[m] of the first router
  control,         \* control[h]: drain messages on their way to host h
  recv,            \* recv[m]: the next packet the receiving NIC expects
  held             \* held[m]: packets it got before an earlier one

channels == <<queue, head>>
tables == <<list_ack_status, map_cached, ack_list>>
drain == <<size_flowcut, latest_hop_count, draining_status, control>>
nics == <<sent, draining_map, recv, held>>
vars == <<channels, tables, drain, nics>>

---------------------------------------------------------------------------
(* Channels, packets, hops.                                                *)

\* ACKs leave a port first and without waiting for credits.  At the other end
\* they share the input buffer of virtual channel 0 with packets; here they
\* have a channel of their own, which lets them pass each other in more ways.
AckVC == -1
Channel(from, to, vc) == [from |-> from, to |-> to, vc |-> vc]
Hop(to, vc) == [to |-> to, vc |-> vc]
Unrouted == Hop("unrouted", 0)
AckHop == Hop("ack", AckVC)    \* an ACK's port is looked up in ack_list

HopsFrom(r) == UNION {Hops[m][r] : m \in Messages}
AllHops == UNION {HopsFrom(r) : r \in Routers}
VCs == {0} \union {h.vc : h \in AllHops}
Edges == {e \in Routers \X Routers : \E h \in HopsFrom(e[1]) : h.to = e[2]}
Channels == {Channel(e[1], e[2], vc) : e \in Edges, vc \in VCs}
     \union {Channel(e[1], e[2], AckVC) : e \in Edges}
     \union {Channel(e[2], e[1], AckVC) : e \in Edges}
     \union {Channel(h, Router[h], 0) : h \in Hosts}
     \union {Channel(r, h, vc) : r \in Routers, h \in Hosts, vc \in VCs}
Packets == [msg : Messages, id : Nat, ack : BOOLEAN]
Ports(r) == {l.from : l \in {c \in Channels : c.to = r}}

Pair(m) == <<From[m], To[m]>>
NotCounted == [first |-> 0, second |-> 0]
Pushed(q, l, p) == [q EXCEPT ![l] = Append(@, p)]
Space(l) == Len(queue[l]) < BufferSize
Popped(q, l) == [q EXCEPT ![l] = Tail(@)]

Init ==
  /\ sent = [m \in Messages |-> 0]
  /\ draining_map = [m \in Messages |-> FALSE]
  /\ queue = [l \in Channels |-> <<>>]
  /\ head = [l \in Channels |-> Unrouted]
  /\ list_ack_status = [r \in Routers |-> [m \in Messages |-> NotCounted]]
  /\ map_cached = [r \in Routers |-> [m \in Messages |-> Hop(Port0[r], 0)]]
  /\ ack_list = [r \in Routers |-> <<>>]
  /\ size_flowcut = [m \in Messages |-> 0]
  /\ latest_hop_count = [m \in Messages |-> 0]
  /\ draining_status = [m \in Messages |-> FALSE]
  /\ control = [h \in Hosts |-> <<>>]
  /\ recv = [m \in Messages |-> 0]
  /\ held = [m \in Messages |-> {}]

---------------------------------------------------------------------------
(* The NIC of the source.                                                  *)

\* SendMachine::getPayload: the messages of a host go one after the other; the
\* one at the front waits as long as it is draining.
getPayload(m) ==
  /\ sent[m] < Length[m] /\ ~draining_map[m]
  /\ Space(Channel(From[m], Router[From[m]], 0))
  /\ \A n \in Messages : n < m /\ From[n] = From[m] => sent[n] = Length[n]
  /\ queue' = Pushed(queue, Channel(From[m], Router[From[m]], 0),
                     [msg |-> m, id |-> sent[m], ack |-> FALSE])
  /\ sent' = [sent EXCEPT ![m] = @ + 1]
  /\ UNCHANGED <<head, tables, drain, draining_map, recv, held>>

\* RecvMachine::processPkt on a drain message.  The stop is a clone of an ACK,
\* which the port sends before the packets, among them a start, that wait in it.
processControl(h) ==
  \E i \in DOMAIN control[h] :
    LET c == control[h][i] IN
    /\ \A j \in 1 .. i - 1 : control[h][j].stop # c.stop
    /\ i # 1 => c.stop
    /\ draining_map' = [draining_map EXCEPT ![c.msg] = ~c.stop]
    /\ control' = [control EXCEPT ![h] =
                     SubSeq(@, 1, i - 1) \o SubSeq(@, i + 1, Len(@))]
    /\ UNCHANGED <<channels, tables, size_flowcut, latest_hop_count, draining_status>>
    /\ UNCHANGED <<sent, recv, held>>

---------------------------------------------------------------------------
(* topo_dragonfly::route_packet                                            *)

\* A flowcut lasts while an ACK is due; and with the last one written off.
SamePathLate(r, m) ==
  list_ack_status[r][m].first > list_ack_status[r][m].second + 1
SamePath(r, m) == list_ack_status[r][m].first # list_ack_status[r][m].second

\* The hops packet p may be given when it becomes the head of channel l.
Routes(l, p) ==
  IF p.ack THEN {AckHop}
  ELSE IF SamePath(l.to, p.msg) THEN {map_cached[l.to][p.msg]}
  ELSE IF Router[To[p.msg]] = l.to THEN {Hop(To[p.msg], l.vc)}
  ELSE Hops[p.msg][l.to]

\* The count of packet p; and with an ACK counted by the router once more.
CountedTwice(status, p) == IF p.ack THEN [status EXCEPT ![p.msg].second = @ + 2]
                                    ELSE [status EXCEPT ![p.msg].first = @ + 1]
Counted(status, p) == IF p.ack THEN [status EXCEPT ![p.msg].second = @ + 1]
                               ELSE [status EXCEPT ![p.msg].first = @ + 1]
Cached(cached, p, hop) == IF p.ack THEN cached ELSE [cached EXCEPT ![p.msg] = hop]

\* handle_input_n2r and handle_input_r2r: a packet that arrives in an empty
\* input buffer is routed at once.
Arrive(l) ==
  /\ l.to \in Routers /\ queue[l] # <<>> /\ head[l] = Unrouted
  /\ \E hop \in Routes(l, Head(queue[l])) :
       /\ head' = [head EXCEPT ![l] = hop]
       /\ list_ack_status' = [list_ack_status EXCEPT ![l.to] = Counted(@, Head(queue[l]))]
       /\ map_cached' = [map_cached EXCEPT ![l.to] = Cached(@, Head(queue[l]), hop)]
  /\ UNCHANGED <<queue, ack_list, drain, nics>>

\* PortControl::recv routes the next packet of the buffer, if there is one, and
\* counts it before the router handles the packet it took out; and without that.
NextHeads(l) ==
  {Unrouted} \union (IF Len(queue[l]) > 1 THEN Routes(l, queue[l][2]) ELSE {})
StatusAfterUncounted(l, hop) == list_ack_status[l.to]
StatusAfter(l, hop) == IF hop = Unrouted THEN list_ack_status[l.to]
                       ELSE Counted(list_ack_status[l.to], queue[l][2])
CachedAfter(l, hop) == IF hop = Unrouted THEN map_cached[l.to]
                       ELSE Cached(map_cached[l.to], queue[l][2], hop)
recvs(l, hop) ==
  /\ head' = [head EXCEPT ![l] = hop]
  /\ map_cached' = [map_cached EXCEPT ![l.to] = CachedAfter(l, hop)]

---------------------------------------------------------------------------
(* hr_router::clock_handler, for the packet one input port gives up.       *)

\* Whether the first router asks the source of m to drain.  The length of an
\* output queue (mode 1) and what ACKs measured (2 and 3) may be anything, once
\* there is an ACK; mode 3 may divide by an average that its flowcut took along.
needs_drain(m, size) ==
  CASE flowcut_mode = 0 -> {size > flowcut_value}
    [] flowcut_mode = 1 -> BOOLEAN
    [] flowcut_mode = 2 -> IF latest_hop_count[m] < 1 \/ size < MPRSize THEN {FALSE} ELSE BOOLEAN
    [] flowcut_mode = 3 -> IF latest_hop_count[m] < 1 THEN {FALSE} ELSE BOOLEAN
    [] flowcut_mode = 4 -> {TRUE}
    [] flowcut_mode \in {5, 6} -> {FALSE}

\* A packet makes its flowcut grow.  When it comes from the host and goes to
\* another router, the source is stopped if a drain is needed and not under way.
Grow(l, hop, m) ==
  LET size == size_flowcut[m] + (IF l.to = Router[From[m]] THEN 1 ELSE 0) IN
  /\ size_flowcut' = [size_flowcut EXCEPT ![m] = size]
  /\ \E needed \in needs_drain(m, size) :
       IF l.from \in Hosts /\ hop.to \notin Hosts /\ ~draining_status[m] /\ needed
       THEN /\ draining_status' = [draining_status EXCEPT ![m] = TRUE]
            /\ control' = [control EXCEPT ![From[m]] = Append(@, [msg |-> m, stop |-> FALSE])]
       ELSE UNCHANGED <<draining_status, control>>
  /\ UNCHANGED latest_hop_count

\* The list of a router with the ACK of one more packet; and with no more than
\* one entry for each pair of hosts.
AckInfo(p, port) == [msg |-> p.msg, id |-> p.id, port |-> port]
ListedOncePerPair(list, p, port) ==
  IF \E i \in DOMAIN list : Pair(list[i].msg) = Pair(p.msg) THEN list
  ELSE Append(list, AckInfo(p, port))
Listed(list, p, port) == Append(list, AckInfo(p, port))

\* A data packet.  The last router acknowledges it as it passes it to the port
\* of the host; every other one notes the port the ACK must leave by.
Data(l, next) ==
  LET p == Head(queue[l])
      hop == head[l]
      on == Pushed(Popped(queue, l), Channel(l.to, hop.to, hop.vc), p) IN
  /\ ~p.ack
  /\ Space(Channel(l.to, hop.to, hop.vc))
  /\ recvs(l, next)
  /\ list_ack_status' = [list_ack_status EXCEPT ![l.to] = StatusAfter(l, next)]
  /\ IF hop.to \in Hosts
     THEN /\ queue' = IF l.from \in Hosts THEN on
                      ELSE Pushed(on, Channel(l.to, l.from, AckVC), [p EXCEPT !.ack = TRUE])
          /\ UNCHANGED ack_list
     ELSE /\ queue' = on
          /\ ack_list' = [ack_list EXCEPT ![l.to] = Listed(@, p, l.from)]
  /\ Grow(l, hop, p.msg)
  /\ UNCHANGED nics

\* The entry an ACK takes: the first one of the same source and destination.
Matching(r, p) ==
  {i \in DOMAIN ack_list[r] : Pair(ack_list[r][i].msg) = Pair(p.msg)}
Match(r, p) == CHOOSE i \in Matching(r, p) : \A j \in Matching(r, p) : i <= j

\* What an ACK that leaves by port changes for the drain at its first router:
\* with the last ACK in flight the flowcut ends, and with it the drain.  (Packets
\* are of more than 50 bytes, so that their ACKs are measured.)
EndDrain(r, p, port, drained) ==
  IF r # Router[From[p.msg]] THEN UNCHANGED drain
  ELSE /\ size_flowcut' = [size_flowcut EXCEPT ![p.msg] = IF drained THEN 0 ELSE @]
       /\ latest_hop_count' = [latest_hop_count EXCEPT ![p.msg] = IF port \in Hosts THEN 1 ELSE @]
       /\ IF port \in Hosts /\ drained /\ draining_status[p.msg] /\ p.id > 1
          THEN /\ draining_status' = [draining_status EXCEPT ![p.msg] = FALSE]
               /\ control' = [control EXCEPT ![From[p.msg]] =
                                Append(@, [msg |-> p.msg, stop |-> TRUE])]
          ELSE UNCHANGED <<draining_status, control>>

\* An ACK takes its entry out of the list and leaves by the port it names; at
\* the port of a host it ends.  Without an entry the port is whatever an
\* uninitialised variable holds.
Ack(l, next) ==
  LET r == l.to
      p == Head(queue[l])
      found == Matching(r, p) # {}
      i == Match(r, p)
      status == StatusAfter(l, next)
      drained == status[p.msg].first = status[p.msg].second IN
  /\ p.ack
  /\ recvs(l, next)
  /\ ack_list' = IF ~found THEN ack_list
                 ELSE [ack_list EXCEPT ![r] = SubSeq(@, 1, i - 1) \o SubSeq(@, i + 1, Len(@))]
  /\ list_ack_status' = [list_ack_status EXCEPT ![r] =
                           IF drained THEN [status EXCEPT ![p.msg] = NotCounted] ELSE status]
  /\ \E port \in IF found THEN {ack_list[r][i].port} ELSE Ports(r) :
       /\ queue' = IF port \in Hosts THEN Popped(queue, l)
                   ELSE Pushed(Popped(queue, l), Channel(r, port, AckVC), p)
       /\ EndDrain(r, p, port, drained)
  /\ UNCHANGED nics

Cross(l) ==
  /\ l.to \in Routers /\ queue[l] # <<>> /\ head[l] # Unrouted
  /\ \E next \in NextHeads(l) : Data(l, next) \/ Ack(l, next)

\* ReorderLinkControl::handle_event: the NIC at the other end keeps a packet
\* back until the earlier ones are there.  It counts per source; a packet that
\* waits for another message only is taken to have been received here.
handle_event(l) ==
  /\ l.from \in Routers /\ l.to \in Hosts /\ queue[l] # <<>>
  /\ queue' = Popped(queue, l)
  /\ LET p == Head(queue[l])
         early == held[p.msg] \union {p.id}
         next == CHOOSE n \in recv[p.msg] .. Length[p.msg] :
                   n \notin early /\ recv[p.msg] .. n - 1 \subseteq early
     IN IF To[p.msg] = l.to
        THEN /\ recv' = [recv EXCEPT ![p.msg] = next]
             /\ held' = [held EXCEPT ![p.msg] = {n \in early : n > next}]
        ELSE UNCHANGED <<recv, held>>
  /\ UNCHANGED <<head, tables, drain, sent, draining_map>>

---------------------------------------------------------------------------
Next ==
  \/ \E m \in Messages : getPayload(m)
  \/ \E h \in Hosts : processControl(h)
  \/ \E l \in Channels : Arrive(l) \/ Cross(l) \/ handle_event(l)

Spec == Init /\ [][Next]_vars

---------------------------------------------------------------------------
(* What must hold.                                                         *)

\* Every variable has its type, and no router has seen more ACKs of a message
\* than packets (the counts topo_dragonfly::route_packet compares).
TypeOK ==
  /\ sent \in [Messages -> Nat] /\ \A m \in Messages : sent[m] <= Length[m]
  /\ draining_map \in [Messages -> BOOLEAN] /\ draining_status \in [Messages -> BOOLEAN]
  /\ \A l \in Channels : \A i \in DOMAIN queue[l] : queue[l][i] \in Packets
  /\ \A l \in Channels : queue[l] = <<>> => head[l] = Unrouted
  /\ \A r \in Routers : \A m \in Messages :
       /\ list_ack_status[r][m] \in [first : Nat, second : Nat]
       /\ list_ack_status[r][m].second <= list_ack_status[r][m].first
  /\ size_flowcut \in [Messages -> Nat] /\ latest_hop_count \in [Messages -> 0 .. 1]
  /\ \A m \in Messages : recv[m] \in 0 .. Length[m] /\ held[m] \subseteq recv[m] + 1 .. Length[m]

\* A router that is about to handle an ACK finds an entry of its pair of hosts,
\* so the port the ACK leaves by is one a packet of the pair came in by and never
\* an uninitialised variable, although the search of ack_list compares neither
\* message nor packet (hr_router::clock_handler) and ACKs pass each other.
AcksFindAnEntry ==
  \A l \in Channels : l.to \in Routers /\ head[l] = AckHop => Matching(l.to, Head(queue[l])) # {}

\* When a message is free to take another path, as no ACK of it is due at its
\* first router (topo_dragonfly::route_packet), nothing of it is left between
\* routers, but for ACKs the first router has counted and is about to handle.
ChoosesWhenDrained ==
  \A m \in Messages : LET r == Router[From[m]] IN
    ~SamePath(r, m) =>
      \A l \in Channels : l.from \in Routers /\ l.to \in Routers =>
        \A i \in DOMAIN queue[l] : queue[l][i].msg = m => l.to = r /\ i = 1 /\ head[l] = AckHop

\* The packets of a message reach the NIC in the order they were sent in,
\* whatever paths the flowcuts took: the promise of flowcut switching.
Flow(m) == INSTANCE InOrderDelivery
             WITH NPackets <- Length[m], sent <- sent[m], delivered <- recv[m], held <- held[m]
KeepsOrder == /\ \A m \in Messages : Flow(m)!Init
              /\ [][\A m \in Messages : [Flow(m)!Next]_(Flow(m)!abstractVars)]_nics

\* "FINISHING THE CURRENT DRAIN, RESTARTING FLOW" (hr_router::clock_handler): a
\* message that its NIC holds back before its end, with nothing of it left in the
\* network, will be told to go on by a stop that is on its way.
StopIsOnItsWay ==
  \A m \in Messages :
    /\ draining_map[m] /\ sent[m] < Length[m]
    /\ \A l \in Channels : \A i \in DOMAIN queue[l] : queue[l][i].msg # m
    =>
      \E i \in DOMAIN control[From[m]] : control[From[m]][i] = [msg |-> m, stop |-> TRUE]
=============================================================================
