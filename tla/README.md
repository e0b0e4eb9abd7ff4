# Flowcut switching: a verification development

TLA+ models, model-checking runs and machine-checked proofs for the flowcut
switching artifact (`src/`). The repository holds two simulators of the same
idea: a flow keeps its path (a *flowcut*) until the network is congested, stops,
waits until nothing of it is left in the network (the *drain*), and only then
takes another path, so that its packets never race each other.

## 1. Inventory

### The fat-tree simulator, `src/fattree/sim` (htsim, C++, one thread)

A discrete-event simulator: every component is an event source or a packet sink,
handlers run to completion, and the event list decides which runs next.
"Concurrency" is therefore the order of events: packets in transit, ACKs, NACKs
and pulls on their way back, and timers.

| component | state | operations | makes it correct |
|---|---|---|---|
| `NdpSrc` (`ndp.cpp`) | `_highest_sent`, `_flight_size`, `_rtx_queue`, `_last_pull`/`_max_pull`, `stop_sending`, `first_flowcut`, `last_flowlet_choice`, `received_once` | `startflow`, `receivePacket` (ACK, NACK, PULL), `pull_packets`, `send_packet`, `choose_route` | packets are sent once per credit, path changes only on an empty network, drains end, the flow completes once |
| `NdpSink` (`ndp.cpp`) | `_cumulative_ack`, `_received`, `_pull_no`, `ooo_number` | `receivePacket` (full and trimmed packets), `send_ack`, `send_nack` | nothing is delivered out of order, one pull per arrival |
| `NdpPullPacer` (`ndp.cpp`) | the time of the last pull, events of its own | `sendPacket`, `enqueue_pull`, `release_pulls`, `doNextEvent` | every pull is either on an ACK or paced, and is never left without a timer |
| `PrioPullQueue`, `FairPullQueue` (`priopullqueue.*`, `fairpullqueue.*`), `CircularBuffer` (`circular_buffer.h`) | per flow a ring that doubles, per priority an iterator and a counter | `enqueue`, `dequeue`, `flush_flow`, `push`, `pop` | pulls of a flow stay in order, flows take turns, an iterator never points at an erased queue |
| `FatTreeInterDCSwitch` (`datacenter/fat_tree_interdc_switch.*`) | `_flowcut_table` (bytes in flight, previous hop), `_base_rtt_table`, `_fib` | ingress: `getNextHop`, egress: `increase`/`decreaseFlowInFlight` | the entry of a flow exists while it is in flight, ACKs retrace its path |
| path selection (same file) | queue sizes and utilisation | `adaptive_route`, `adaptive_route_p2c`, `replace_worst_choice`, `compare_*` | the best port is chosen; the comparisons form an order |
| `CompositeQueue` | low- and high-priority queue | `receivePacket` (trims or drops), `completeService` | trimmed, never silently lost |
| `FairPriorityQueue` (`queue.cpp`) | three queues, the packet in service, pause state | `receivePacket`, `beginService`, `completeService` | one packet in service, nothing lost by pause and resume |
| `LosslessInputQueue`, `LosslessOutputQueue` (`queue_lossless_*.cpp`) | bytes counted per ingress, `_state_recv`; `_enqueued`, `_vq`, `_sending`, `_state_send` | `receivePacket`, `completedService`, `sendPause`; `completeService` | counters are what is queued, the headroom suffices, nobody stays paused for ever |
| `EventList`, triggers | pending events | `doNextEvent`, `triggerIsPending` | every event is executed, in time order |
| other transports, LogGOPSim, topologies | | | not flowcut switching: left out |

Interaction: `NdpSrc` sends a packet into the host queue; switches forward it by
hashing its entropy (`pathid`), count it in their table and may trim it;
`NdpSink` answers a full packet with an ACK and a header with a NACK, both
carrying a pull, or a pull paced later; the TOR at the source marks the ACK when
its round trip was long (mode 1), or the source compares the averaged round trip
itself (mode 0), and the source stops. While it is stopped it remembers pulls and
sends nothing. The ACK that finds nothing in flight ends the drain and counts as
a pull.

The build takes `PrioPullQueue`: the choice in `ndp.h:421` is an `#elifdef`, which
is not a directive of the C++17 the Makefile asks for. Receivers have one of two
priorities (`ndp.cpp:1494`, `1529`, `set_priority()`); with one priority the queue
is `FairPullQueue`.

The pacer of a host is shared by the flows that end there. A flow that completes
takes its pulls out of the queue while the pacer's event is pending and while the
iterator may point at its ring. A lossless ingress pauses the queue that sends to
it by calling its `receivePacket()` in the same event, whatever that queue is doing.

What is hard: the messages on the way back have no order; the drain's end is decided
on an unsigned byte count that is changed in
two handlers and not for retransmissions; trimmed packets leave the FIFO path and
come back as retransmissions, which overtake; the wake-up after a drain must not
need a message nobody will send.

### The dragonfly simulator, `src/dragonfly` (SST 11, modified `merlin`)

The files are those of `merlin` and `firefly` under
`sst-elements-library-11.0.0/src/sst/elements/`.

| component | state | operations | makes it correct |
|---|---|---|---|
| `hr_router` (`hr_router/hr_router.cc`) | `ack_list`, `draining_status_map`, measured delays | `clock_handler`: data, ACKs, `needs_drain` | every ACK finds an entry and goes back the way of its packet, a drain that was started is stopped |
| `topo_dragonfly` (`topology/dragonfly.cc`) | `list_ack_status`, `map_cached`, `size_flowcut` | `route_packet` | a flowcut keeps its path, and ends with its last ACK |
| `PortControl` (`interfaces/portControl.cc`) | an input and an output buffer per virtual channel, ACKs of their own | `recv`, `send`, `handle_input_*` | heads alone are routed, ACKs leave a port before packets (at the receiver they share `input_buf[0]` with packets) |
| `ReorderLinkControl` (`interfaces/reorderLinkControl.cc`) | the next sequence number expected from each host, packets kept back | `handle_event` | the NIC sees packets in order |
| NIC (`firefly/nicSendMachine.cc`, `nicRecvMachine.h`) | messages to send, `draining_map` | `getPayload`, `processPkt` | a message that drains is held back, and let go |

Data goes from the NIC over one or more routers to the NIC of the receiver. The
last router answers each packet as it passes it on, and the ACK goes back hop by
hop: each router looks up in `ack_list` the port the packet came in by. The first
router adds up the size of a flowcut and asks `needs_drain()`: by the size (mode 0), by
the length of an output queue (1), by the measured delay above a size (2) or its
gradient (3), always (4) or never (5, 6). It then sends the NIC a start message, the
NIC holds the message
back, and the ACK that finds nothing left in flight lets it go on. What is hard:
ACKs pass packets, the next packet is routed before the current one is handled,
paths of one message merge again, `ack_list` is searched by hosts alone, and the start
and the stop of a drain wait in different buffers of a port. The rest of SST is
vendored.

## 2. Plan

1. **NdpFlowcut** (done): one flow, source, sink, pacer and network, because this
   is where in-order delivery is won or lost. Abstract specification:
   **InOrderDelivery** (done).
2. **FlowcutTable** (done): the switches' in-flight tables along a path, the
   ingress and egress stages, ACKs that retrace a path, trimmed packets, reused
   packet storage; an entry is exactly what is outstanding behind its switch.
   Left: the mark on ACKs from `_base_rtt_table`, and two flows with one key.
3. **PullPacer** over **PrioPullQueue** over **CircularBuffer** (done): several
   flows, the timers, `flush_flow`; abstract specification **FairPulls** (done).
4. **LosslessSwitch** (done): host queues with priorities, pause and resume, the
   ingress counters and output queues of one switch. Left: several switches that
   pause each other in a cycle, `LosslessQueue`, and `CompositeQueue`.
5. **DragonflyRouter** (done): router, routing and NIC; it is held to
   **InOrderDelivery** too. Left: the flowlet branch of `route_packet()`, the
   choice of a port by queue length.
6. **AdaptiveRoute** (left): the selection functions of the fat-tree switch as
   operators against "an entry no other is better than"; no routing of the
   artifact's runs calls them.
7. Proofs: type correctness, in-order delivery and the table's invariant without
   trimming (done); ring buffer, pull queue and pacer (done); wake-ups, counters,
   hosts and headroom of the lossless switch (done); the conservation laws and the
   drain with trimming (done); types, books, the entries ACKs find, the choice of a path
   and in-order delivery of the dragonfly (done). Left: in-order delivery of the
   dragonfly over routes that may lead back, and with several messages of one pair of
   hosts (section 6).

Modules to be proved about declare their parameters as CONSTANTS with named
assumptions, use recursive functions and no RECURSIVE operator.

## 3. Modules

| module | models |
|---|---|
| `NdpFlowcut` | `NdpSrc`, `NdpSink`, what a flow sees of `NdpPullPacer`, switches and pipes |
| `InOrderDelivery` | the promise of `README.md`: packets are delivered one by one, in order |
| `FlowcutTable`, `MCFlowcutTable` | `_flowcut_table` of all switches for one flow; the trees the runs use |
| `CircularBuffer` | the ring that doubles |
| `PrioPullQueue` | the queue of pulls: rings, iterators, counters (extends `CircularBuffer`) |
| `PullPacer`, `MCPullPacer` | `NdpPullPacer`, shared by several flows (extends `PrioPullQueue`) |
| `FairPulls` | the promise of the queue: pulls in order, flows in turn |
| `LosslessSwitch` | `FairPriorityQueue`, `LosslessInputQueue`, `LosslessOutputQueue` |
| `DragonflyRouter`, `MCDragonflyRouter` | `hr_router`, `topo_dragonfly`, ports and NICs; three routers of one group and two messages of one pair of hosts |
| `Counting` | sums over a finite set, and how often a value occurs in a sequence |
| `NdpFlowcut_proofs` | type correctness of `NdpFlowcut`; without trims the sliding window, in-order delivery, the drain, the refinement |
| `NdpFlowcut_trimming_proofs` | packets, pulls and completions are conserved under trimming; the drain |
| `FlowcutTable_proofs` | type correctness of `FlowcutTable`; without trims the tables count exactly what is outstanding, and ACKs retrace their path |
| `Counting_proofs` | what one changed term, one appended or removed element does to a sum or a count |
| `PullPacer_proofs` | `push()` appends to a ring and `pop()` takes the oldest, whatever the size and the wrap; type correctness, counters, timers and their number, pacing, and that the queue implements `FairPulls` |
| `LosslessSwitch_proofs` | no wake-up is lost, counters are exact, hosts keep their packets, the headroom suffices |
| `DragonflyRouter_proofs` | the books of every router of a dragonfly; types, and that every ACK finds an entry |
| `DragonflyOrder_proofs` | the packets of a message reach the NIC of a dragonfly in order; a path is chosen when nothing is left |

### NdpFlowcut and the code

Sizes are counted in packets of `_mss` bytes. The variables are the fields of the
same name, plus the network: `net[p]` holds the full packets in transit with
entropy `p` in FIFO order, `hdr` the trimmed ones, `rev` the messages on the way
back as a set (pull numbers make them distinct).

| action | code |
|---|---|
| `StartFlow` | `startflow()`: the first window |
| `ReceiveAck` | `receivePacket()` and `processAck()`: mode 1 mark, flight size, mode 0 comparison, end of the drain, end of the flow, pull |
| `ReceiveNack` | `processNack()`: `choose_route()` for the retransmission's packet, `_rtx_queue`, pull |
| `ReceivePull` | `receivePacket()`, case `NDPPULL` |
| `pull_packets`, `SendBurst` | the loop of `pull_packets()`; the calls of `send_packet()` in one event: retransmissions first, lowest sequence number first, then new packets |
| `choose_route`, `NewPathid` | `choose_route()` under `ECMP_RANDOM_ECN`; the remapping of entropy 169 to 172, for new packets only |
| `ReceiveData` | the sink's `receivePacket()`, `send_ack()`, the pacer's `sendPacket()`, the trailing `release_pulls()` |
| `ReceiveHeader` | the sink's `receivePacket()` for a header, `send_nack()` |
| `PacerTimeout` | the pacer's `doNextEvent()` |
| `Trim` | `CompositeQueue::receivePacket()`: `strip_payload()` |

Abstractions, all of which allow more behaviours than the code: time is left out,
so a round-trip time is one bit, a flowlet's gap has always or never passed, and
the pacer may be busy with other flows at any time; a path is one FIFO queue; any
packet may be trimmed; messages on the way back arrive in any order (ACKs in fact
retrace the data's path); a retransmission overtakes any number of new packets on
its path, since how many of them have left the host depends on time.

### FlowcutTable and the code

One flow, all switches on its paths. `table[w]` is the entry of switch `w` at the
flow's key; "no entry" is `in_flight_bytes` zero with the source's name, which no
entry that exists can be. `pkt[i]` is the i-th packet of the flow or the ACK that
answers it: how many switches of its path it has left, or the switch it is at and
the next hop it was given there.

| action | code |
|---|---|
| `SendNew`, `SendAgain` | `send_packet()` and `choose_route()`: the path, the remapping for new packets, and the storage from `PacketDB` |
| `Arrive` | the sink's `receivePacket()`: a full packet becomes an ACK at the last switch, a header a NACK |
| `ForwardEgress` | a switch's `receivePacket()`, egress stage, for a packet: `increaseFlowInFlight()` unless `is_trim()` |
| `Trim` | `Packet::strip_payload()` in the queue behind a switch |
| `AckIngress` | ingress stage for an ACK: `getNextHop()`, `getPreviousName()` |
| `AckEgress` | egress stage for an ACK, after the switch's delay: `decreaseFlowInFlight()` |
| `Abort` | the `assert(false)` of the table functions; assertions are compiled in |

NACKs and pulls carry `is_pull` and leave the tables alone, so a NACK is only a
packet that waits to be sent again. The transport is reduced to what the tables
see of it: `Drained` is what `NdpFlowcut` proves of the moment a path changes.
Packets and ACKs pass each other freely (in the code a path is FIFO); the ingress
stage of a packet on its way to the sink reads nothing of the table, so it is part
of `ForwardEgress`. `dirty` counts the packets in the pool whose `_is_trim` is
still set. Left out: `_base_rtt_table` and the congestion mark (times; the mark is
an input of `NdpFlowcut`), the FIB and the choice among equal ports (a path is
what an entropy gives), and other flows with the same pair of hosts.

`NdpFlowcut` and `FlowcutTable` are not composed in one module: the first shows
that the path changes only when nothing of the flow is in the network, the second
assumes exactly that of "flowcut" routing and shows what the tables then do.

### PullPacer and the code

Flows are numbered in the order `std::map` gives their ids, so that an iterator is
the number of a flow or `End`. A ring is a record with the fields of
`CircularBuffer`; `push` doubles it and moves the elements that wrapped around.
Times are ticks: `since` is how long ago the last pull was sent, up to
`DrainTime`; `timers[t]` counts the pacer's events that are due in `t` ticks.

| action | code |
|---|---|
| `Answer` | the sink's `receivePacket()`, `sendPacket()`: the pull goes with the ACK or is queued |
| `Complete` | the last packet of a flow: `sendPacket()`, then `release_pulls()` |
| `RequestToSend` | `process_request_to_send()`, `enqueue_pull()`; an RTS with several grants is several steps |
| `SendPull`, `TimerOfNobody` | `doNextEvent()`, with a pull to send and without |
| `Tick` | the event list goes on to a later time |
| `enqueue`, `dequeue`, `flush_flow` | the same names in `priopullqueue.cpp`; `Turn` is the search of `dequeue()` |

`overtaken` is a history: who was served while a flow waits. The sinks are left
out but for what they ask of the pacer; `NdpFlowcut` has them.

### LosslessSwitch and the code

The link of one sender, the ingress that counts it, and the output queues behind.
Packets have one size and are counted; a host queue is a count per priority and
output, an output queue the sequence of the senders its packets came from, with
`vq` beside it as in the code. `Tells` is `sendPause()`: the call into the sender
is part of the event that makes it.

| action | code |
|---|---|
| `HostSend`, `HostSent` | `FairPriorityQueue::receivePacket()`, `completeService()` |
| `UplinkSend`, `UplinkSent` | `LosslessOutputQueue::receivePacket()`, `completeService()` of another switch |
| `Arrive` | `LosslessInputQueue::receivePacket()` and the output's `receivePacket()` |
| `OutputSent` | the output's `completeService()`: what is dropped for its timeout budget, the packet that leaves, `completedService()` of its ingress |
| `PausedFromBelow`, `ResumedFromBelow` | pause frames for an output |

`HostBegins` may find no packet although bytes are counted, as the code may:
`assert(_sending != NULL)` is the field `failed`. The order among the flows of one
host is any order. Pause frames that a host passes on to its sources are left out,
since NDP ignores them.

### DragonflyRouter and the code

A channel stands for an output buffer, its link and the input buffer at the other
end. ACKs leave a port first and without credits (`ack_buf`), and at the other end go
into `input_buf[0]` with the packets of that channel; the model gives them a channel of
their own (`AckVC`) all the way, so they pass packets in more ways than in the code.
`head[l]` is the hop of the packet at the head of an input buffer once it was routed.

| action | code |
|---|---|
| `getPayload` | `SendMachine::getPayload()` |
| `Arrive` | `handle_input_n2r()`, `handle_input_r2r()`: a packet that finds the buffer empty is routed |
| `Cross` with `Data` | `clock_handler()` for a packet, after `PortControl::recv()` routed the next one: ACK or entry in `ack_list` (`Listed`), size and start of a drain (`Grow`) |
| `Cross` with `Ack` | `clock_handler()` for an ACK: its entry (`Matching`, `Match`), the end of the flowcut and of the drain (`EndDrain`) |
| `processControl` | `RecvMachine::processPkt()` of a start or stop message; a stop may come before a start that was sent earlier |
| `handle_event` | `ReorderLinkControl::handle_event()` |

The count of packets and ACKs is changed when a packet is *routed*
(`route_packet()`), so `Counted` is part of `Arrive` and of `recvs`. `needs_drain` has
the modes of the code: mode 0 compares the size of the flowcut, mode 2 asks besides the
size (`MPRSize`, 20000 bytes) for a delay, modes 1 and 3 have no condition on the size.
What a mode measures may say anything; modes 2 and 3 need an ACK first
(`latest_hop_count`). Sizes are in packets. An ACK without an entry leaves by any port,
as `next_ack_port` is not initialised, and a hop that was never cached is port 0
(`Port0`). Packets are put in order per message, where the code does it per pair of
hosts: a NIC sends the messages of a pair one after the other, and a packet that waits
for one of an earlier message only is taken to have been received. Packets between hosts
of one router are excluded by `MessagesAssumption`.

## 4. Runs

| run | configuration | shows |
|---|---|---|
| `lossless` | flowcut, mode 0, 6 packets, window 3, 3 paths, no trims | `TypeOK`, `InOrder`, `LosslessInv` (the inductive invariant), `SwitchOnlyWhenDrained`, `FlowCompletes`, `DrainEnds`, `ImplementsInOrderDelivery` |
| `trims` | flowcut, mode 1, 4 packets, window 2, 2 trims | `FlightConservation`, `CreditConservation`, `OneLiveCopy`, `OneFlowcutInFlight`, `SwitchOnlyWhenDrained` |
| `flowlet` | flowlet, 3 packets, window 2, 2 trims | `OneLiveCopy`, `CompletesOnce`, `NackedIsResent`, `FlowCompletes` with reordering |
| `trim_reorders` | flowcut, 1 trim | `InOrder` fails (finding) |
| `drain_strands_nack` | flowcut, mode 0, 1 trim | `NackedIsResent` fails (finding) |
| `table_flowcut` | 3 packets, 3 paths of a three-tier tree that share all, some or only their outer switches, no trims | `TypeOK`, `NeverAborts`, `InFlightIsOutstanding`, `AcksRetrace`, `TableInv` (the inductive invariant) |
| `table_trims` | one path, 2 trims, no storage reused | `InFlightCovers`, `NeverAborts`: entries count too much, never too little |
| `pacer` | three flows of two priorities, rings of three slots, up to three pulls | `TypeOK`, `QueuesAgree`, `SomeTimerIsSet`, `TimersBounded`, `PacedUntilCompletion`, `ImplementsFairPulls`, `PullsGetOut` |
| `pfc` | a host with two priorities and another switch, one output, one packet dropped | `TypeOK`, `HostKeepsItsPackets`, `IngressCountsTheQueues`, `NoLostWakeUp`, `HeadroomSuffices`, `PausedSendersGoOn` |
| `dragonfly` | three routers, two paths that merge, two messages of one pair of hosts, of four packets and of one, mode 2 | `TypeOK`, `AcksFindAnEntry`, `ChoosesWhenDrained`, `KeepsOrder` |
| `dragonfly_drain` | the same routers and messages, mode 0 with a size of two | `StopIsOnItsWay` fails (finding) |
| `table_reused_packet` | one path, 1 trim, its storage reused | `NeverAborts` fails (finding) |

Bounds. `NPackets` and `Cwnd`: six packets and a window of three let a flow drain,
move and drain again before it ends, with packets of the window before and after
each move; three are enough for two retransmissions to wait together behind a
third packet. Three paths are needed for the remapping of one path to another and
a third to come from. `MaxTrims` is two: the same packet can be trimmed again as a
retransmission, or two packets in either order. `UintMax` bounds the unsigned
flight size well above what it may hold, so a decrement at zero shows as a wrap.
For the tables, three packets allow a packet of the next flowcut, an ACK of it and
an entry with two packets at the same time; the three paths share four, two and
no inner switches. `MaxReuse` bounds how often a trimmed packet's storage is taken
from the pool.

For the pacer, rings of three slots with up to three pulls (`MaxQueued`) double and
wrap around, also both at once; two flows of one priority take turns and a third
one, of the other priority, must wait; a `DrainTime` of two ticks leaves a tick
between a pull and the next. For the lossless switch, a packet has `PacketSize` 2,
the thresholds are 3 and 2: one packet stays below `High` and two are above it,
and a counter of one packet is not below `Low` while none is, so a sender is paused
for two completions. `MaxWire` and `MaxBacklog` bound what a link and a sender
hold; `MaxDrain` 1 says that the switch sends at most one packet of a host while
the host serialises one (links of one speed); `MaxExpired` bounds the packets
dropped for their timeout budget. With `MaxDrain` 1 no resume meets a service, so the
run does not reach that hazard (section 5). `IngressCountsTheQueues` and
`PausedSendersGoOn` speak of the states before the first such drop.

For the dragonfly, the source sends a message of four packets and, without waiting for
their ACKs, one of a single packet to the same host. Mode 2 may drain the first whenever
it has at least `MPRSize` 2 packets in a flowcut and an ACK came back: with three packets
under way it is held back, the ACK of the third lets it go on, and the fourth may take
the other path. Meanwhile ACKs of both messages are due at a router and come back over
two links, so the search of `ack_list` does give an ACK the entry of the other message;
TLC reaches both. `BufferSize` 2 makes packets wait for room. In `dragonfly_drain` a
flowcut of three packets is the first that is too large for `flowcut_value` 2, and the
fourth one is what the NIC holds back.

Deadlock is checked for `pacer` and `pfc`, which never stop. It is not for the
others: the event list runs empty when the flow is over, and, with trimming, when
a drain cannot end (the second finding); a dragonfly run ends when all messages
are delivered and acknowledged, or a drain cannot end (the last finding).

Fairness. The event list executes every pending event, so weak fairness holds for
the start of the flow, for the delivery of packets, headers and messages, and for
the pacer's timer. Trimming is never required. For the same reason `PullPacer` has
it for `Tick` and for the events that are due, and nothing is asked of the sinks:
`PullsGetOut` says what happens when they stop. In `LosslessSwitch` it holds for
the ends of service and the arrivals, and for `ResumedFromBelow`: what comes behind
an output is supposed to let it go on, since a cycle of pauses is not modelled. No
fairness is stated for `DragonflyRouter`; that a drain ends is stated as
`StopIsOnItsWay`, a state predicate: with nothing of the message left in the network,
the stop that ends its drain is on its way.

## 5. Findings

* A single trimmed packet makes the sink receive the flow out of order, although
  the path never changes: the promise "in-order delivery under any network
  conditions" needs a network that does not trim. (`trim_reorders`)
* A packet NACKed while the source drains is never sent again and the flow stops
  for ever: the drain waits for the flight size to reach zero, the flight size
  counts the packet, and `pull_packets()` sends nothing in a drain, not even what
  waits in `_rtx_queue`. (`drain_strands_nack`)
* `strip_payload()` sets `_is_trim` and nothing resets it when `PacketDB` hands the
  packet out again. The full packet built in it is counted by no switch, and its
  ACK reaches the `assert(false)` that says "should never happen".
  (`table_reused_packet`)
* In the dragonfly the stop that ends a drain is a clone of an ACK and overtakes the
  start, which is a clone of a packet and still waits in the port of the host. The NIC
  takes the stop first and then the start, and holds the message back for ever,
  although nothing of it is in flight: the comment "FINISHING THE CURRENT DRAIN,
  RESTARTING FLOW" does not hold. (`dragonfly_drain`)

Remarks, for which there is no run. A trimmed packet was counted by every switch up to
the trim, and neither its header nor its NACK takes anything off: after the flow has
drained, entries are left over, against the "outstanding packets/bytes" of
`fat_tree_interdc_switch.h:95`. A left-over entry keeps the previous
hop of the old path: with two paths of a two-tier tree, three packets and one trim, an ACK of the
next flowcut is sent to a switch that has no entry for it, and `NeverAborts` fails.
The same happens under "flowlet" routing without any trim, since the path then
changes with packets in transit. An ACK takes down 4160 bytes whatever the packet
size: with 2048-byte packets (`PacketSize` 2112) entries end early. `flowcut_mode`
0 is commented "no flowcut" in `ndp.h`, and "nic" in `ndp.cpp`; the code drains,
as the second says.

*Pacer.* `release_pulls()` leaves the pacer's event in the event list; with the
next queued pull there are two, and two pulls can go out closer than the drain time
(`ndp.cpp:2144`: "pace out it's PULL packets"). `PacedUntilCompletion` is what is
left of pacing, `TimersBounded` limits the burst.

*Lossless queues.* A resume frame calls `beginService()` even while a packet is in
service. With `MaxDrain` 2, where a switch drains two packets while the host
serialises one, TLC finds a pause and a resume within one service: a second packet
goes into service and the first is lost, or `assert(_sending != NULL)` fails. A
packet dropped for its timeout budget (`queue_lossless_output.cpp:171`) stays in
`_vq` and its ingress is not told: from then on completions are credited to the
wrong ingress, a counter may go below zero (`assert(_queuesize >= 0)`), and a
sender may stay paused for ever. That is why `IngressCountsTheQueues` and
`PausedSendersGoOn` speak of `expired`; only `UEC_DROP` sets a budget
(`network.h:187` has 0). The test that exempts control packets from the drop also
reads `_enqueued._queue[count_good]`, the slot it is about to write, and not the
packet in question.

*Dragonfly.* (a) A drain that begins with packet 0 or 1 never ends, since only an ACK
with `packet_id_in_message > 1` ends it (`hr_router.cc:929`). This takes a
`flowcut_value` below two packets or one of the modes 1, 3 and 4, which do not look at
the size. (b) `ack_list` is searched by the two hosts alone (`hr_router.cc:863`). Every
ACK does find an entry (`AcksFindEntries`), and at the first router all entries of a pair
name the same port. But where paths of two messages of a pair merge before another
router, an ACK leaves that router by the port of the other message, a router counts an
ACK whose packet it did not see, and a later packet of that message is sent to port 0,
the default of `map_cached`: a path is kept while the two counts *differ*. (c) With a
router behind the first one that has two ways (four routers, one
of them the end of a detour) a drain may never end. `route_packet()` counts an ACK when
it becomes the head of its input buffer (`dragonfly.cc:1425`), and the ACK may wait there
while the crossbar tries others. Once it is counted the router behind may choose again,
the ACKs of later packets come back through another buffer and pass the one that waits,
and the flowcut then ends at the first router with the ACK of packet 0 or 1, which the
test of (a) does not accept. In `route_adaptive_local()` only the first router chooses
for packets that stay in their group, the case of the runs; the router at the end of a
global link chooses again when the packet is routed over a third group. (d) Mode 3
divides two integers, `latest_rtt`, which nothing writes, and `exponential_avg`, which
the end of a flowcut erases, while `latest_hop_count` stays: the first packet of the next
flowcut divides by zero (`hr_router.cc:737`). Reading shows besides that order at the
destination rests on the last router never counting its own ACKs, so that its entry is
never erased; that packets between two hosts of one router get no ACK and leave their
entry behind; and that `active_flows` only ever goes down.

## 6. Proofs

The theorems of `NdpFlowcut` are about its `Spec`, for every set of paths, flow
size, window and flowcut mode that the assumptions `PathsAssumption`,
`SizeAssumption` and `ModeAssumption` allow.

* `TypeCorrect`: `Spec => []TypeOK`, for every routing and any number of trims.
  `TypeOK` is not inductive: that the number of packets a pull releases is not
  negative needs `_last_pull <= _max_pull` (`PullOrder`), and that the first
  window fits the flow needs that nothing was sent before `startflow()`
  (`IdleUntilStarted`). `TypeInv` is the conjunction of the three.
* Under `Lossless` (flowcut routing, no trims):
  `LosslessInvariant` (`[]LosslessInv`), `DeliveryInOrder` (`[]InOrder`),
  `PathChangesWhenDrained` (`SwitchOnlyWhenDrained`) and `Refinement`
  (`ImplementsInOrderDelivery`). The argument: the packets in transit are the
  window `cumulative_ack + 1 .. highest_sent`, in order, all on the path of the
  last choice (`OneFifoPath`); `flight_size` is the length of the window plus the
  ACKs under way (`FlightCounts`), so it is zero only if both are empty; the drain
  ends then and only then, and a new path is chosen only after that. Without
  `FlightCounts` the end of the drain says nothing about the network; without
  `OneFifoPath` the arrival of a packet says nothing about its number; without
  `PullsNumbered` two ACKs could be the same element of `rev`.
  Each action has one lemma (`StartFlowLossless`, `ReceiveAckLossless`, ...), all
  sending goes through `LosslessSend`, and sequences are handled in
  `WindowExtends` and `WindowSlides`.

The theorems of `FlowcutTable` are for every set of switches, every set of paths
that start at one TOR and meet no switch twice, and every number of packets
(`HopsAssumption`, `NumbersAssumption`, `RoutingAssumption`).

* `TypeCorrect`: `Spec => []TypeOK` for every routing and any number of trims. It
  is inductive as it stands; it says among others that the subtraction in
  `decreaseFlowInFlight()` never goes below zero.
* Under `Lossless` (flowcut routing, no trims, packets of the size an ACK takes
  down): `TableInvariant`, `AcksFindTheirEntry` (`[]NeverAborts`), `TablesAreExact`
  (`[]InFlightIsOutstanding`) and `AcksRetraceTheirPath` (`[]AcksRetrace`). The
  argument is `TableInv`: an ACK finds its entry because the entry counts it
  (`InFlightIsOutstanding`), it is counted there because it is on the path of its
  packet (`AcksRetrace`), and it gets the right next hop because every entry was
  made by a packet of the same path (`OneFlowcut`), which holds since entries are
  erased by the time the path changes. None of the three is inductive alone. The
  proof states the invariant packet by packet and entry by entry (`TableParts`);
  `BytesSame`, `BytesMore` and `BytesLess` say what one packet does to the bytes
  outstanding at a switch, `PositionOf` that a path meets a switch once, and each
  action has one lemma (`ForwardEgressTable`, `AckEgressTable`, ...).

The theorems of `CircularBuffer` are about its operators, for every initial size:
`PushAppends` and `PopTakesHead` say that `Contents` grows at the end and shrinks
at the front, also when `push()` doubles a ring that has wrapped around. They need
`Ring`, the relation between the two indices and the count: the ring is never full,
and `next_push` is `count` slots after `next_pop`.

The theorems of `PullPacer` are for any number of flows, any priorities, any
initial size and any drain time.

* `CountersAgree` (`QueuesAgree`): `prio_counts` and `pull_count` are the numbers of
  pulls queued, and an iterator points at a ring that exists or at the end. Pulls
  are counted as pairs of a flow and a position (`Cells`), so that the operations
  add or remove one pair or all pairs of a flow.
* `PullsHaveTimer` (`SomeTimerIsSet`): pulls that wait have an event that is due no
  later than one drain time after the last pull. `TimerInv` adds the types of the
  timers, and the counters from `QueueInv`.
* `QueueIsFair` (`ImplementsFairPulls`): the rings are the sequences of `FairPulls`
  by the theorems of `CircularBuffer`, and nobody is served twice while another
  waits because of `Round`: with flows ranked from the iterator on and round again,
  whoever was served while a flow waits is ranked behind it (`ServeKeepsRound`,
  `WithdrawKeepsRound` for a flow that leaves, `AskKeepsRound`).
* `TypeCorrect`: `TypeOK`, from the three.
* `TimersAreFew` (`TimersBounded`): the events are at most the completed flows, and
  one more while pulls wait (`TimersFew`): a pull that comes to an empty queue adds an
  event, the last pull that is sent uses one up, and only a flow that completes may
  empty the queue without using one.
* `PullsArePaced` (`PacedUntilCompletion`), from the same invariant: before the first
  completion there is one event at most, and it is due when the drain time is over
  (`Paced`).

The theorems of `LosslessSwitch` are for any senders and outputs, any of the code's
three priorities and any thresholds, unless they say `Spaced`.

* `WakeUps` (`NoLostWakeUp`): `WakeUpInv` says it queue by queue (`HostFits`,
  `UplinkFits`, `OutFits`); each operation on a queue has a lemma that it serves
  what it may serve, and `TellsAgree` that a pause frame keeps the two ends of a link
  in agreement.
* `PortTypes` (`TypeOK`): `TypeInv` gives what every queue, link and counter holds. A
  host never counts less than it holds, since the end of a service takes off a packet
  that was counted, and a port in service holds a packet.
* `IngressCountsQueues` (`IngressCountsTheQueues`): `CountInv`, by which an ingress
  counts a packet when it enters an output, `_vq` is `_enqueued`, and the packet that
  leaves is taken off the ingress it came from.
* `UplinkHeadroom`: for another switch as the sender, the bytes an ingress counts
  and those that may still come stay below the threshold plus `MaxWire + 1` packets
  (`Headroom`, the part of `HeadroomSuffices` that concerns switches). `RoomInv`: an
  ingress that does not pause is below the threshold, and once it does, what it
  counts and what may still come do not grow together.
* `HostsKeepTheirPackets` (`HostKeepsItsPackets`) and `HeadroomIsEnough`
  (`HeadroomSuffices`) are under `Spaced`: `Low + PacketSize * MaxDrain <= High + 1`,
  the thresholds are further apart than what leaves the switch while a host
  serialises a packet. Without it a pause and a resume fit into one service and the
  properties fail (section 5). `HostInv` says that a host counts exactly what it
  holds (`HostExact`), that a host told to pause in the middle of a service still
  serves, and what its ingress counts is above `High` but for what left during that
  service (`PauseIsRecent`), so the resume finds the service over, and that what its
  ingress counts, its link holds and it serves fits (`HostRoom`).

`CountInv`, `HostInv`, `Books` (below) and the number of the pacer's timers count with
`Counting`:
`Total` is the number of the pairs it stands for, so that what the proofs need
(`CellsMore`, `OccurrencesAppend`, `OccurrencesTail`, ...) are facts about finite
sets in `Counting_proofs` and no induction is needed.

The theorems of `NdpFlowcut_trimming_proofs` are for any number of trims, every mode
and every set of paths; the first four are for every routing, the last two assume
flowcut routing.

* `CompletesAtMostOnce` (`CompletesOnce`), `FlightIsConserved`
  (`FlightConservation`), `CreditIsConserved` (`CreditConservation`) and
  `LiveCopyIsOne` (`OneLiveCopy`) follow from `ConservationInv`. `PlaceBooks` says
  that every packet sent is in exactly one place, where a place is a set of numbers:
  the queues of the network, the headers, the NACKs, the packets to send again, the
  sink. It also says that `_flight_size` is the number of those not acknowledged, and
  that what is in transit is what the first window and the pulls spent allow.
  `PullBooks` says that no pull is spent before the sink queued it, without which the
  credit could go below zero; `EndBooks` that one ACK at most reports the end of the
  flow. None of the properties is inductive: `OneLiveCopy` needs all places disjoint,
  the flight needs `OneLiveCopy`, and a subtraction in `_flight_size` needs the ACK
  it consumes to be counted. The properties count occurrences in sequences, the
  invariant numbers in sets; `PlacesCounted` and the lemmas around it
  relate the two.
* `OneFlowcut` (`OneFlowcutInFlight`) and `SwitchIsDrained` (`SwitchOnlyWhenDrained`)
  follow from `FlowcutInv`, which adds `FlowcutBooks`: a send opens a flowcut only
  when `_flight_size` is 0, and by `PlaceBooks` (`BooksZero`) nothing of the flow is
  then left anywhere.

The theorems of `DragonflyRouter` are for any routers, hosts, hops, messages, bounds
and buffer sizes that `MessagesAssumption` and `TopologyAssumption` allow. The latter
says that a hop leads to another router and that names do not clash; routes may have
any length and may meet a router twice. All but `AcksFindEntries` also assume
`OneMessageAPair`: no two messages with the same two hosts, by which `ack_list` is
searched. The run `dragonfly` has two such messages, so what it shows of `TypeOK`,
`ChoosesWhenDrained` and `KeepsOrder` is not an instance of these theorems; section 5,
(b), says where messages of one pair do get in each other's way. `PacketsStayInOrder` and
`ChoiceFindsNothing` assume `NoWayBack` besides, which the hops of the run satisfy.

* `RouterBooks` (`[]RouterInv`): `FitsInv` gives the shape of the state. ACKs are alone
  in their channels, the hop of a head leads from where it is to a neighbour, or from
  the last router to the host, and the hop of the current flowcut (`map_cached`) is
  worth reading only once a packet was counted. `Books` are two equations for every
  router and message (`Balanced`). What a router has noted in `ack_list` is what it
  sent on and is still in a channel as a packet, what is in a channel to it as an ACK,
  and the entries of its neighbours that name it as their port. Its two counts differ
  by what it has routed and whose ACK it has not; the two equations are different ones
  because `route_packet()` counts when a packet becomes the head of its buffer, and
  `clock_handler()` notes when it leaves. A step is a sequence of operations, each of
  which puts the books of some routers off by a known amount (`PushOff`, `PopOff`,
  `RouteOff`, `NoteOff`, `StrikeOff`), and there is one lemma per step that the
  amounts cancel (`ForwardAddsUp`, `DeliverAddsUp`, `BackAddsUp`).
* `AcksFindEntries` (`[]AcksFindAnEntry`), for any messages. When messages share a pair
  of hosts the books of one of them are wrong, as an ACK may take the entry of another.
  `PairInv` takes all messages of a pair for one (`Merged`), and keeps of the books
  what a search by hosts cannot disturb: the entries of a router are what is out on its
  links, as packets or ACKs, and what its neighbours owe it. An ACK in a channel to a
  router is part of that sum, so an entry of its pair is there. Counts and paths of a
  flowcut are no part of the invariant, as they may go wrong.
* `RouterTypes` (`TypeOK`): with the second equation the ACKs a router counted are
  never more than its packets (`AcksAtMostPackets`), which the end of a flowcut, two
  equal counts, relies on.
* `PacketsStayInOrder` (`KeepsOrder`), under `NoWayBack` besides: for every message the
  routers have a rank that all its hops raise. The inductive invariant is `OrderInv`
  for each message, on top of `RouterInv`. The routers the message is at or has noted
  stand in a line from its first to its last router (`Lined`, `Rooted`): no two have
  the same rank, and the hop of each leads to the next one. What is in flight lies on
  that line, and what is further on was sent earlier (`Sorted`, `Risen`); together it
  is `recv .. sent - 1` without a gap (`Between`), so what comes to the NIC is what it
  expects, and it holds nothing back. A hop may change only in a router that counted as
  many ACKs as packets. By the books nothing is then out behind it, so it is the end of
  the line (`IdleIsTop`) and the line may go on from it in any direction
  (`TurnsLine`). The last router is different: it notes nothing and counts its own
  ACKs never, which is why its hop, once chosen, stays (`LastCounts`).
* `ChoiceFindsNothing` (`[]ChoosesWhenDrained`), from `OrderInv` and the books: when the
  first router has counted as many ACKs as packets, nothing is out on its links or owed
  to it that it has not counted, so it is the end of the line, and no router further on
  holds anything of the message or has noted an ACK.

None of these properties is inductive: that an ACK finds its entry needs the entries of
all routers before it, that the counts do not cross needs what is on the links, and the
order at the NIC needs the order on the whole way there. TLC confirmed `RouterInv` and
`OrderInv` on a run with messages of different pairs, and `PairInv` on the run
`dragonfly`, before they were proved.

`NoWayBack` holds for minimal routes and for detours inside one group: the source's
router, the router with the link to the other group, the one that link leads to, the
last one. It may fail for routes over a third group. `route_packet()` keeps port and VC
of a flowcut but not `dest.mid_group` of a packet (`dragonfly.cc:1595`, commented out),
so a packet that follows its flowcut to the link of one group may, where that flowcut
has just ended, be routed on to the link of another, and at another time the other way
round. A rank is then impossible although no flowcut runs in a circle, and the theorem
says nothing. With the constants changed to four routers with such hops and messages
of up to four packets, TLC finds `KeepsOrder` true.

*Only model-checked.* Liveness (`FlowCompletes`, `DrainEnds`, `NackedIsResent`,
`PullsGetOut`, `PausedSendersGoOn`) and fairness, which is stated by ENABLED, are out of
this prover's reach. Of the safety properties, `InFlightCovers`, and `NeverAborts` when
packets are trimmed, are left to the run `table_trims`, which has one path and reuses no
storage; and the types, the choice of a path and the order of two messages of one pair of
hosts to the run `dragonfly`. No module declares a recursive operator, and no theorem is
by induction over data.

## 7. Not modelled

*Of the modelled components.* Random spraying and the other route strategies of
`choose_route()` (they promise no order); RTS mode and returned packets of the
source (`processRTS`); retransmission timers (compiled out: `RESEND_ON_TIMEOUT` is
not defined); the receiver's oversubscription control (off by default); window
increase by the pacer (`RCV_CWND` is 0); a stop time; pull spacing drawn from a
measured distribution (no program uses it); several flows with one key of the
flowcut table; the congestion mark from `_base_rtt_table` (times); cycles of pauses;
in the dragonfly, credits in transit, crossbar arbitration, the flowlet branch, the
measured delays behind `needs_drain`; statistics and logging.

*Components.* The path selection functions and `CompositeQueue`'s own scheduling
are left (section 2). The rest takes no part in flowcut switching and is not meant
to be modelled: the other transports of htsim, its topologies (static
construction), the trace front end LogGOPSim, the scripts, and above all the SST
core and the other SST elements, which are vendored frameworks many times the size
of the artifact's own code. The models therefore stand for a small share of the
repository's lines, and for most of those that decide about flowcuts.
