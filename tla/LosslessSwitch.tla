--------------------------- MODULE LosslessSwitch ---------------------------
(***************************************************************************)
(* Priority flow control at one switch: the queues that send to it, its    *)
(* ingress counters (LosslessInputQueue) and its output queues             *)
(* (LosslessOutputQueue).  An ingress that counts too many packets tells   *)
(* its sender to pause, and to go on when enough of them have left the     *)
(* output queues they wait in.  A sender is the queue of a host            *)
(* (FairPriorityQueue) or an output queue of another switch.               *)
(*                                                                         *)
(* Packets are counted, all of one size; two thresholds apart by less than *)
(* a packet are stated in fractions of PacketSize.  Pause frames take no   *)
(* time: LosslessInputQueue::sendPause() calls receivePacket() of the      *)
(* sender.                                                                 *)
(***************************************************************************)
EXTENDS Integers, FiniteSetsExt, Counting

CONSTANTS Hosts,        \* senders whose queue is a FairPriorityQueue
          Uplinks,      \* senders whose queue is a LosslessOutputQueue
          Outputs,      \* output queues of the switch
          Prios,        \* Q_LO, Q_MID, Q_HI as 0, 1, 2
          NoPacket,
          PacketSize,
          High, Low,    \* _high_threshold, _low_threshold
          MaxWire,      \* bound: packets of a sender the link holds
          MaxBacklog,   \* bound: packets that wait in a sender
          MaxDrain,     \* bound: packets of a host that leave the switch
                        \* while the host serialises one
          MaxExpired    \* bound: packets dropped for their timeout budget

Senders == Hosts \union Uplinks

ASSUME ThresholdAssumption ==
  /\ PacketSize \in Nat \ {0} /\ High \in Nat \ {0} /\ Low \in Nat /\ High > Low
ASSUME PortsAssumption ==
  /\ Hosts \intersect Uplinks = {} /\ Prios \subseteq 0..2 /\ Prios # {}
  /\ NoPacket \notin [prio : Prios, to : Outputs]
  /\ MaxWire \in Nat /\ MaxBacklog \in Nat /\ MaxDrain \in Nat /\ MaxExpired \in Nat

VARIABLES
  host,      \* the queue of each host
  uplink,    \* the queue of each other switch
  wire,      \* packets on the link from a sender, by the output they go to
  ingress,   \* _queuesize and _state_recv of the ingress of each sender
  out,       \* the output queues
  below,     \* whether what comes behind an output has paused it
  drained,   \* packets of a host that left since its last service began
  expired    \* packets dropped for their timeout budget

vars == <<host, uplink, wire, ingress, out, below, drained, expired>>

-----------------------------------------------------------------------------
(* FairPriorityQueue, the queue of a host *)

NewHost == [queue    |-> [p \in Prios |-> [o \in Outputs |-> 0]],
            size     |-> [p \in Prios |-> 0],
            sending  |-> NoPacket,
            state    |-> "READY",
            timers   |-> 0,
            failed   |-> FALSE]

Waiting(h, p) == {o \in Outputs : h.queue[p][o] > 0}
Busy(h) == \E p \in Prios : h.size[p] > 0     \* queuesize() > 0

\* beginService(): the highest priority that has bytes, any of its flows.  The
\* bytes of the packet in service count, so the queue may turn out empty:
\* assert(_sending != NULL).
HostBegins(h) ==
  LET p == Max({q \in Prios : h.size[q] > 0})
  IN  IF Waiting(h, p) = {} THEN {[h EXCEPT !.failed = TRUE]}
      ELSE {[h EXCEPT !.queue[p][o] = @ - 1,
                      !.sending = [prio |-> p, to |-> o],
                      !.timers = @ + 1] : o \in Waiting(h, p)}

\* receivePacket(), a packet of the host.
HostEnqueues(h, p, o) ==
  LET added == [h EXCEPT !.queue[p][o] = @ + 1, !.size[p] = @ + 1]
  IN  IF ~Busy(h) /\ h.state = "READY" THEN HostBegins(added) ELSE {added}

\* receivePacket(), a pause frame, and one with sleepTime() = 0.
HostPausesAtOnce(h) == [h EXCEPT !.state = "PAUSED"]
HostPauses(h) ==
  [h EXCEPT !.state = IF Busy(h) THEN "PAUSE_RECEIVED" ELSE "PAUSED"]
HostResumes(h) ==
  LET ready == [h EXCEPT !.state = "READY"]
  IN  IF Busy(h) THEN HostBegins(ready) ELSE {ready}

\* completeService(): what leaves, and the queue afterwards.
HostLeaves(h) == IF h.state = "PAUSED" THEN NoPacket ELSE h.sending
HostCompletes(h) ==
  LET over  == [h EXCEPT !.timers = @ - 1]
      sent  == IF h.sending = NoPacket THEN over
               ELSE [over EXCEPT !.size[h.sending.prio] = @ - 1, !.sending = NoPacket]
      after == [sent EXCEPT !.state = IF @ = "PAUSE_RECEIVED" THEN "PAUSED" ELSE @]
  IN  IF h.state = "PAUSED" THEN {over}
      ELSE IF Busy(after) /\ after.state = "READY" THEN HostBegins(after)
      ELSE {after}

-----------------------------------------------------------------------------
(* LosslessOutputQueue: of the switch, or of another one that sends to it.  *)
(* It holds what identifies a packet to the model: the sender it came from, *)
(* or the output it goes to.                                                *)

NewPort == [enqueued |-> <<>>, vq |-> <<>>, sending |-> FALSE, state |-> "READY"]

PortBegins(q) == [q EXCEPT !.sending = TRUE]
PortEnqueues(q, x) ==
  LET added == [q EXCEPT !.enqueued = Append(@, x), !.vq = Append(@, x)]
  IN  IF q.enqueued = <<>> /\ q.state = "READY" THEN PortBegins(added) ELSE added
PortPauses(q) ==
  [q EXCEPT !.state = IF q.sending THEN "PAUSE_RECEIVED" ELSE "PAUSED"]
PortResumesIdle(q) == [q EXCEPT !.state = "READY"]
PortResumes(q) ==
  LET ready == [q EXCEPT !.state = "READY"]
  IN  IF q.enqueued # <<>> /\ ~q.sending THEN PortBegins(ready) ELSE ready

\* completeService() drops what has used up its timeout budget, the packets at
\* the positions in `late', without telling the ingress they came from.
Nth(S, k) == CHOOSE i \in S : Cardinality({j \in S : j <= i}) = k
Kept(q, late) ==
  LET on_time == DOMAIN q.enqueued \ late
  IN  [q EXCEPT !.enqueued = [k \in 1..Cardinality(on_time) |-> q.enqueued[Nth(on_time, k)]]]

\* When something is left its head leaves, and the ingress at the head of _vq
\* is told.
PortCompletes(q, late) ==
  LET kept  == Kept(q, late)
      after == [kept EXCEPT !.enqueued = Tail(@), !.vq = Tail(@), !.sending = FALSE,
                            !.state = IF @ = "PAUSE_RECEIVED" THEN "PAUSED" ELSE @]
  IN  IF kept.enqueued = <<>> THEN [kept EXCEPT !.sending = FALSE]
      ELSE IF after.enqueued # <<>> /\ after.state = "READY" THEN PortBegins(after)
      ELSE after

-----------------------------------------------------------------------------
(* LosslessInputQueue: one for each sender *)

Ingress(bytes, state) == [bytes |-> bytes, state |-> state]

\* receivePacket() and completedService(): the counter, and the pause state it
\* leads to.
FilledUntilPaused(i) ==
  IF i.state = "PAUSED" THEN i
  ELSE Ingress(i.bytes + PacketSize,
               IF i.bytes + PacketSize > High THEN "PAUSED" ELSE "READY")
FilledLate(i) ==
  Ingress(i.bytes + PacketSize, IF i.bytes > High THEN "PAUSED" ELSE i.state)
Filled(i) ==
  LET bytes == i.bytes + PacketSize
  IN  Ingress(bytes, IF bytes > High THEN "PAUSED" ELSE i.state)
Drained(i) ==
  LET bytes == i.bytes - PacketSize
  IN  Ingress(bytes, IF bytes < Low THEN "READY" ELSE i.state)

\* sendPause(): the sender's receivePacket(), within the same event.
Tells(u, before, after) ==
  LET pauses  == before.state = "READY" /\ after.state = "PAUSED"
      resumes == before.state = "PAUSED" /\ after.state = "READY"
  IN  /\ IF u \in Hosts /\ pauses THEN host' = [host EXCEPT ![u] = HostPauses(@)]
         ELSE IF u \in Hosts /\ resumes
         THEN \E h \in HostResumes(host[u]) : host' = [host EXCEPT ![u] = h]
         ELSE UNCHANGED host
      /\ uplink' = IF u \in Uplinks /\ pauses
                   THEN [uplink EXCEPT ![u] = PortPauses(@)]
                   ELSE IF u \in Uplinks /\ resumes
                   THEN [uplink EXCEPT ![u] = PortResumes(@)]
                   ELSE uplink

-----------------------------------------------------------------------------
(* The events *)

\* assert(_sending != NULL), assert(_queuesize >= 0)
Aborted == (\E u \in Hosts : host[u].failed) \/ (\E u \in Senders : ingress[u].bytes < 0)

\* A packet of the host u, with priority p and for output o, is queued.
HostSend(u, p, o) ==
  /\ ~Aborted
  /\ \A q \in Prios : host[u].size[q] < MaxBacklog
  /\ \E h \in HostEnqueues(host[u], p, o) :
       host' = [host EXCEPT ![u] = h]
  /\ UNCHANGED <<uplink, wire, ingress, out, below, drained, expired>>

HostSent(u) ==
  /\ ~Aborted
  /\ host[u].timers > 0 /\ Len(wire[u]) < MaxWire
  /\ host' \in {[host EXCEPT ![u] = h] : h \in HostCompletes(host[u])}
  /\ wire' = [wire EXCEPT ![u] = IF HostLeaves(host[u]) = NoPacket THEN @
                                 ELSE Append(@, HostLeaves(host[u]).to)]
  /\ drained' = [drained EXCEPT ![u] = 0]
  /\ UNCHANGED <<uplink, ingress, out, below, expired>>

\* Another switch queues a packet for output o, and sends one.
UplinkSend(u, o) ==
  /\ ~Aborted
  /\ Len(uplink[u].enqueued) < MaxBacklog
  /\ uplink' = [uplink EXCEPT ![u] = PortEnqueues(@, o)]
  /\ UNCHANGED <<host, wire, ingress, out, below, drained, expired>>

UplinkSent(u) ==
  /\ ~Aborted
  /\ uplink[u].sending /\ Len(wire[u]) < MaxWire
  /\ uplink' = [uplink EXCEPT ![u] = PortCompletes(@, {})]
  /\ wire' = [wire EXCEPT ![u] = Append(@, Head(uplink[u].enqueued))]
  /\ UNCHANGED <<host, ingress, out, below, drained, expired>>

\* A packet reaches the switch: its ingress counts it, perhaps pauses its
\* sender, and passes it to its output (Packet::sendOn2).
Arrive(u) ==
  /\ ~Aborted
  /\ wire[u] # <<>>
  /\ wire' = [wire EXCEPT ![u] = Tail(@)]
  /\ ingress' = [ingress EXCEPT ![u] = Filled(@)]
  /\ Tells(u, ingress[u], ingress'[u])
  /\ out' = [out EXCEPT ![Head(wire[u])] = PortEnqueues(@, u)]
  /\ UNCHANGED <<below, drained, expired>>

\* completeService() of an output.
OutputSent(o) ==
  /\ ~Aborted
  /\ out[o].sending
  /\ \E late \in SUBSET DOMAIN out[o].enqueued :
       /\ expired + Cardinality(late) <= MaxExpired
       /\ expired' = expired + Cardinality(late)
       /\ out' = [out EXCEPT ![o] = PortCompletes(@, late)]
       /\ IF Len(out'[o].vq) = Len(out[o].vq)
          THEN UNCHANGED <<host, uplink, ingress, drained>>
          ELSE LET u == Head(out[o].vq)
                   serialises == u \in Hosts /\ host[u].timers > 0
               IN  /\ serialises => drained[u] < MaxDrain
                   /\ drained' = IF serialises THEN [drained EXCEPT ![u] = @ + 1] ELSE drained
                   /\ ingress' = [ingress EXCEPT ![u] = Drained(@)]
                   /\ Tells(u, ingress[u], ingress'[u])
  /\ UNCHANGED <<wire, below>>

\* What comes behind an output pauses it and lets it go on.
PausedFromBelow(o) ==
  /\ ~Aborted
  /\ below[o] = "READY"
  /\ below' = [below EXCEPT ![o] = "PAUSED"]
  /\ out' = [out EXCEPT ![o] = PortPauses(@)]
  /\ UNCHANGED <<host, uplink, wire, ingress, drained, expired>>
ResumedFromBelow(o) ==
  /\ ~Aborted
  /\ below[o] = "PAUSED"
  /\ below' = [below EXCEPT ![o] = "READY"]
  /\ out' = [out EXCEPT ![o] = PortResumes(@)]
  /\ UNCHANGED <<host, uplink, wire, ingress, drained, expired>>

Init ==
  /\ host = [u \in Hosts |-> NewHost]
  /\ uplink = [u \in Uplinks |-> NewPort]
  /\ wire = [u \in Senders |-> <<>>]
  /\ ingress = [u \in Senders |-> Ingress(0, "READY")]
  /\ out = [o \in Outputs |-> NewPort]
  /\ below = [o \in Outputs |-> "READY"]
  /\ drained = [u \in Hosts |-> 0]
  /\ expired = 0

Next ==
  \/ \E u \in Hosts, p \in Prios, o \in Outputs : HostSend(u, p, o)
  \/ \E u \in Hosts : HostSent(u)
  \/ \E u \in Uplinks, o \in Outputs : UplinkSend(u, o)
  \/ \E u \in Uplinks : UplinkSent(u)
  \/ \E u \in Senders : Arrive(u)
  \/ \E o \in Outputs : OutputSent(o) \/ PausedFromBelow(o) \/ ResumedFromBelow(o)

\* Events that are scheduled happen, and what comes behind an output always
\* lets it go on.
Fairness ==
  /\ \A u \in Hosts : WF_vars(HostSent(u))
  /\ \A u \in Uplinks : WF_vars(UplinkSent(u))
  /\ \A u \in Senders : WF_vars(Arrive(u))
  /\ \A o \in Outputs : WF_vars(OutputSent(o)) /\ WF_vars(ResumedFromBelow(o))
Spec == Init /\ [][Next]_vars /\ Fairness

-----------------------------------------------------------------------------
(* Properties *)

States == {"READY", "PAUSED", "PAUSE_RECEIVED"}
InService(u) == IF u \in Hosts THEN host[u].timers ELSE IF uplink[u].sending THEN 1 ELSE 0

\* The queues and counters have their types.
TypeOK ==
  /\ \A u \in Hosts :
       /\ host[u].queue \in [Prios -> [Outputs -> Nat]] /\ host[u].size \in [Prios -> Nat]
       /\ host[u].sending \in [prio : Prios, to : Outputs] \union {NoPacket}
       /\ host[u].state \in States /\ host[u].timers \in Nat /\ host[u].failed \in BOOLEAN
       /\ drained[u] \in 0..MaxDrain
  /\ \A u \in Uplinks : uplink[u].enqueued \in Seq(Outputs) /\ uplink[u].state \in States
  /\ \A u \in Senders : wire[u] \in Seq(Outputs) /\ Len(wire[u]) <= MaxWire
  /\ \A u \in Senders : /\ ingress[u] \in [bytes : Int, state : {"READY", "PAUSED"}]
                         /\ expired = 0 => ingress[u].bytes \in Nat
  /\ \A o \in Outputs : out[o].enqueued \in Seq(Senders) /\ out[o].state \in States
  /\ expired \in 0..MaxExpired

\* The queue of a host keeps its packets: its counters are what waits and what
\* is in service, one packet is in service at a time and its end is scheduled
\* once, and no assertion of it fails.
HostKeepsItsPackets ==
  \A u \in Hosts : LET h == host[u] IN
    /\ ~h.failed
    /\ h.timers = IF h.sending = NoPacket THEN 0 ELSE 1
    /\ \A p \in Prios :
         h.size[p] = Total(Outputs, h.queue[p])
                     + (IF h.sending # NoPacket /\ h.sending.prio = p THEN 1 ELSE 0)

\* An ingress counts the packets that came through it and are still in an
\* output queue, as long as no packet was dropped for its timeout budget.
OutputsHold(u) == Total(Outputs, [o \in Outputs |-> Occurrences(out[o].enqueued, u)])
IngressCountsTheQueues ==
  expired = 0 =>
    /\ \A o \in Outputs : out[o].vq = out[o].enqueued
    /\ \A u \in Senders : ingress[u].bytes = PacketSize * OutputsHold(u)

\* No wake-up is lost: a sender is paused exactly when its ingress wants it to
\* be, and whoever may send and has something to send is sending.
NoLostWakeUp ==
  /\ \A u \in Hosts :
       /\ host[u].state = "READY" <=> ingress[u].state = "READY"
       /\ host[u].state = "READY" /\ Busy(host[u]) /\ ~host[u].failed => host[u].timers > 0
  /\ \A u \in Uplinks :
       /\ uplink[u].state = "READY" <=> ingress[u].state = "READY"
       /\ uplink[u].state = "READY" /\ uplink[u].enqueued # <<>> => uplink[u].sending
  /\ \A o \in Outputs :
       /\ out[o].state = "READY" <=> below[o] = "READY"
       /\ out[o].state = "READY" /\ out[o].enqueued # <<>> => out[o].sending

\* What a link can still bring fits: beyond the threshold an ingress receives
\* at most the packet that crossed it, those on the link and one in service.
Headroom(u) == ingress[u].bytes + PacketSize * (Len(wire[u]) + InService(u))
                 <= High + PacketSize * (MaxWire + 1)
HeadroomSuffices == \A u \in Senders : Headroom(u)

\* A paused sender goes on, unless a packet was dropped for its timeout
\* budget: its ingress counts it for ever.
PausedSendersGoOn ==
  \A u \in Senders : (ingress[u].state = "PAUSED") ~>
                       (ingress[u].state = "READY" \/ expired > 0)
=============================================================================
