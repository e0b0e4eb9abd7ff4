------------------------ MODULE LosslessSwitch_proofs ------------------------
(***************************************************************************)
(* Priority flow control loses no wake-up and no packet, for any number of *)
(* senders, outputs and priorities and any thresholds.                     *)
(*                                                                         *)
(* NoLostWakeUp is stated per queue (HostFits, UplinkFits, OutFits), with  *)
(* what makes it inductive: the shape of the records, that a host counts   *)
(* the ends of service it scheduled with a natural number, and that an     *)
(* ingress and what is behind an output are in one of two states.          *)
(*                                                                         *)
(* TypeInv says what every queue, link and counter holds (a host never     *)
(* counts less than it holds, a port in service holds a packet), CountInv  *)
(* that an ingress counts what waits in the outputs until a packet is      *)
(* dropped.  HostInv says that a host counts exactly what it holds: for    *)
(* it a host that goes on must have nothing in service, which needs        *)
(* thresholds that are apart (Spaced) and the packets that left since its  *)
(* service began (PauseIsRecent).  RoomInv and HostRoom bound what may     *)
(* still come to an ingress.                                               *)
(***************************************************************************)
EXTENDS LosslessSwitch, Counting_proofs

HostFields == {"queue", "size", "sending", "state", "timers", "failed"}
PortFields == {"enqueued", "vq", "sending", "state"}

\* A host queue that may send and has something to send is serving it.
HostServes(h) ==
  /\ DOMAIN h = HostFields /\ h.timers \in Nat
  /\ h.state = "READY" /\ Busy(h) /\ ~h.failed => h.timers > 0
PortServes(q) ==
  /\ DOMAIN q = PortFields
  /\ q.state = "READY" /\ q.enqueued # <<>> => q.sending

Agree(q, i) == q.state = "READY" <=> i.state = "READY"
TwoStates(i) == i.state \in {"READY", "PAUSED"}

HostFits(u) == HostServes(host[u]) /\ Agree(host[u], ingress[u]) /\ TwoStates(ingress[u])
UplinkFits(u) ==
  PortServes(uplink[u]) /\ Agree(uplink[u], ingress[u]) /\ TwoStates(ingress[u])
OutFits(o) ==
  /\ PortServes(out[o]) /\ (out[o].state = "READY" <=> below[o] = "READY")
  /\ below[o] \in {"READY", "PAUSED"}
Maps ==
  /\ DOMAIN host = Hosts /\ DOMAIN uplink = Uplinks /\ DOMAIN ingress = Senders
  /\ DOMAIN out = Outputs /\ DOMAIN below = Outputs

WakeUpInv ==
  /\ Maps
  /\ \A u \in Hosts : HostFits(u)
  /\ \A u \in Uplinks : UplinkFits(u)
  /\ \A o \in Outputs : OutFits(o)

-----------------------------------------------------------------------------
(* What the operations of a queue do to it *)

\* A host that begins service serves, or an assertion failed; it stays in its
\* state.
LEMMA BeginServes ==
  ASSUME NEW h, DOMAIN h = HostFields, h.timers \in Nat, NEW g \in HostBegins(h)
  PROVE  HostServes(g) /\ g.state = h.state
<1> DEFINE p == Max({q \in Prios : h.size[q] > 0})
<1>1. CASE Waiting(h, p) = {}
  <2>1. g = [h EXCEPT !.failed = TRUE]
    BY <1>1, Zenon DEF HostBegins
  <2>2. DOMAIN g = HostFields /\ g.failed /\ g.timers = h.timers /\ g.state = h.state
    BY <2>1, Zenon DEF HostFields
  <2> QED BY <2>2, Zenon DEF HostServes
<1>2. CASE Waiting(h, p) # {}
  <2>1. PICK o \in Waiting(h, p) :
          g = [h EXCEPT !.queue[p][o] = @ - 1, !.sending = [prio |-> p, to |-> o],
                        !.timers = @ + 1]
    BY <1>2, Zenon DEF HostBegins
  <2>2. DOMAIN g = HostFields /\ g.timers = h.timers + 1 /\ g.state = h.state
    BY <2>1, Zenon DEF HostFields
  <2>3. g.timers \in Nat /\ g.timers > 0
    BY <2>2, SMT
  <2> QED BY <2>2, <2>3, Zenon DEF HostServes
<1> QED BY <1>1, <1>2, Zenon

\* A packet joins the queue of a host.
LEMMA EnqueueServes ==
  ASSUME NEW h, HostServes(h), NEW p, NEW o, NEW g \in HostEnqueues(h, p, o)
  PROVE  HostServes(g) /\ g.state = h.state
<1> DEFINE added == [h EXCEPT !.queue[p][o] = @ + 1, !.size[p] = @ + 1]
<1>1. /\ DOMAIN added = HostFields /\ added.timers = h.timers /\ added.state = h.state
      /\ added.timers \in Nat /\ added.failed = h.failed
  BY Zenon DEF HostServes, HostFields
<1>2. CASE ~Busy(h) /\ h.state = "READY"
  <2>1. g \in HostBegins(added)
    BY <1>2, Zenon DEF HostEnqueues
  <2> HIDE DEF added
  <2> QED BY <1>1, <2>1, BeginServes, Zenon
<1>3. CASE ~(~Busy(h) /\ h.state = "READY")
  <2>1. g = added
    BY <1>3, Zenon DEF HostEnqueues
  <2> HIDE DEF added
  <2>2. h.state = "READY" /\ ~h.failed => h.timers > 0
    BY <1>3, Zenon DEF HostServes
  <2> QED BY <1>1, <2>1, <2>2, Zenon DEF HostServes
<1> QED BY <1>2, <1>3, Zenon

\* A service of a host ends.
LEMMA CompleteServes ==
  ASSUME NEW h, HostServes(h), h.timers > 0, NEW g \in HostCompletes(h)
  PROVE  HostServes(g) /\ (g.state = "READY" <=> h.state = "READY")
<1> DEFINE over  == [h EXCEPT !.timers = @ - 1]
           sent  == IF h.sending = NoPacket THEN over
                    ELSE [over EXCEPT !.size[h.sending.prio] = @ - 1, !.sending = NoPacket]
           after == [sent EXCEPT !.state = IF @ = "PAUSE_RECEIVED" THEN "PAUSED" ELSE @]
<1>1. DOMAIN h = HostFields /\ h.timers \in Nat
  BY Zenon DEF HostServes
<1>2. DOMAIN over = HostFields /\ over.timers = h.timers - 1 /\ over.state = h.state
  BY <1>1, Zenon DEF HostFields
<1>3. h.timers - 1 \in Nat
  BY <1>1, SMT
<1>4. DOMAIN sent = HostFields /\ sent.timers = over.timers /\ sent.state = over.state
  <2> HIDE DEF over
  <2> QED BY <1>2, Zenon DEF HostFields
<1>5. /\ DOMAIN after = HostFields /\ after.timers = sent.timers
      /\ after.state = IF sent.state = "PAUSE_RECEIVED" THEN "PAUSED" ELSE sent.state
  <2> HIDE DEF sent
  <2> QED BY <1>4, Zenon DEF HostFields
<1>6. g \in IF h.state = "PAUSED" THEN {over}
            ELSE IF Busy(after) /\ after.state = "READY" THEN HostBegins(after)
            ELSE {after}
  BY Zenon DEF HostCompletes
<1> HIDE DEF over, sent, after
<1>7. /\ DOMAIN after = HostFields /\ after.timers \in Nat
      /\ after.state = "READY" <=> h.state = "READY"
  BY <1>2, <1>3, <1>4, <1>5, Zenon
<1>8. CASE h.state = "PAUSED"
  BY <1>2, <1>3, <1>6, <1>8, Zenon DEF HostServes
<1>9. CASE h.state # "PAUSED" /\ Busy(after) /\ after.state = "READY"
  <2>1. g \in HostBegins(after)
    BY <1>6, <1>9, Zenon
  <2> QED BY <1>7, <2>1, BeginServes, Zenon
<1>10. CASE h.state # "PAUSED" /\ ~(Busy(after) /\ after.state = "READY")
  <2>1. g = after
    BY <1>6, <1>10, Zenon
  <2> QED BY <1>7, <1>10, <2>1, Zenon DEF HostServes
<1> QED BY <1>8, <1>9, <1>10, Zenon

\* Pause and resume frames reach a host.
LEMMA PauseServes ==
  ASSUME NEW h, HostServes(h)
  PROVE  HostServes(HostPauses(h)) /\ HostPauses(h).state # "READY"
<1> DEFINE g == HostPauses(h)
<1>1. DOMAIN g = HostFields /\ g.timers = h.timers /\ g.state # "READY"
  BY Zenon DEF HostPauses, HostServes, HostFields
<1> HIDE DEF g
<1>2. HostServes(g)
  BY <1>1, Zenon DEF HostServes
<1> QED BY <1>1, <1>2, Zenon DEF g

LEMMA ResumeServes ==
  ASSUME NEW h, HostServes(h), NEW g \in HostResumes(h)
  PROVE  HostServes(g) /\ g.state = "READY"
<1> DEFINE ready == [h EXCEPT !.state = "READY"]
<1>1. /\ DOMAIN ready = HostFields /\ ready.timers = h.timers /\ ready.timers \in Nat
      /\ ready.state = "READY" /\ ready.size = h.size
  BY Zenon DEF HostServes, HostFields
<1>2. CASE Busy(h)
  <2>1. g \in HostBegins(ready)
    BY <1>2, Zenon DEF HostResumes
  <2> HIDE DEF ready
  <2> QED BY <1>1, <2>1, BeginServes, Zenon
<1>3. CASE ~Busy(h)
  <2>1. g = ready
    BY <1>3, Zenon DEF HostResumes
  <2>2. ~Busy(ready)
    BY <1>1, <1>3, Zenon DEF Busy
  <2> HIDE DEF ready
  <2> QED BY <1>1, <2>1, <2>2, Zenon DEF HostServes
<1> QED BY <1>2, <1>3, Zenon

\* The same of an output queue, of the switch or of another one.
LEMMA PortEnqueueServes ==
  ASSUME NEW q, PortServes(q), NEW x
  PROVE  PortServes(PortEnqueues(q, x)) /\ PortEnqueues(q, x).state = q.state
<1> DEFINE added == [q EXCEPT !.enqueued = Append(@, x), !.vq = Append(@, x)]
           g == PortEnqueues(q, x)
<1>1. /\ DOMAIN added = PortFields /\ added.sending = q.sending /\ added.state = q.state
  BY Zenon DEF PortServes, PortFields
<1>2. CASE q.enqueued = <<>> /\ q.state = "READY"
  <2>1. g = [added EXCEPT !.sending = TRUE]
    BY <1>2, Zenon DEF PortEnqueues, PortBegins
  <2> HIDE DEF added, g
  <2>2. DOMAIN g = PortFields /\ g.sending /\ g.state = added.state
    BY <1>1, <2>1, Zenon DEF PortFields
  <2>3. PortServes(g) /\ g.state = q.state
    BY <1>1, <2>2, Zenon DEF PortServes
  <2> QED BY <2>3, Zenon DEF g
<1>3. CASE ~(q.enqueued = <<>> /\ q.state = "READY")
  <2>1. g = added
    BY <1>3, Zenon DEF PortEnqueues
  <2>2. q.state = "READY" => q.sending
    BY <1>3, Zenon DEF PortServes
  <2> HIDE DEF added, g
  <2>3. PortServes(g) /\ g.state = q.state
    BY <1>1, <2>1, <2>2, Zenon DEF PortServes
  <2> QED BY <2>3, Zenon DEF g
<1> QED BY <1>2, <1>3, Zenon

LEMMA PortCompleteServes ==
  ASSUME NEW q, PortServes(q), NEW late
  PROVE  /\ PortServes(PortCompletes(q, late))
         /\ PortCompletes(q, late).state = "READY" <=> q.state = "READY"
<1> DEFINE kept  == Kept(q, late)
           after == [kept EXCEPT !.enqueued = Tail(@), !.vq = Tail(@), !.sending = FALSE,
                                 !.state = IF @ = "PAUSE_RECEIVED" THEN "PAUSED" ELSE @]
           g == PortCompletes(q, late)
<1>1. DOMAIN kept = PortFields /\ kept.state = q.state
  <2> DEFINE on_time == DOMAIN q.enqueued \ late
             some == [k \in 1 .. Cardinality(on_time) |-> q.enqueued[Nth(on_time, k)]]
  <2>1. kept = [q EXCEPT !.enqueued = some]
    BY Zenon DEF Kept
  <2> HIDE DEF some, kept
  <2> QED BY <2>1, Zenon DEF PortServes, PortFields
<1> HIDE DEF kept
<1>2. /\ DOMAIN after = PortFields
      /\ after.state = "READY" <=> kept.state = "READY"
  <2>1. DOMAIN after = PortFields
    BY <1>1, Zenon DEF PortFields
  <2>2. after.state = IF kept.state = "PAUSE_RECEIVED" THEN "PAUSED" ELSE kept.state
    BY <1>1, Zenon DEF PortFields
  <2> HIDE DEF after
  <2> QED BY <2>1, <2>2, Zenon
<1>3. g = IF kept.enqueued = <<>> THEN [kept EXCEPT !.sending = FALSE]
          ELSE IF after.enqueued # <<>> /\ after.state = "READY"
               THEN [after EXCEPT !.sending = TRUE]
          ELSE after
  BY Zenon DEF PortCompletes, PortBegins, kept
<1> HIDE DEF after, g
<1>4. CASE kept.enqueued = <<>>
  <2>1. DOMAIN g = PortFields /\ g.enqueued = <<>> /\ g.state = kept.state
    BY <1>1, <1>3, <1>4, Zenon DEF PortFields
  <2> QED BY <1>1, <2>1, Zenon DEF PortServes, g
<1>5. CASE kept.enqueued # <<>> /\ after.enqueued # <<>> /\ after.state = "READY"
  <2>1. DOMAIN g = PortFields /\ g.sending /\ g.state = after.state
    BY <1>2, <1>3, <1>5, Zenon DEF PortFields
  <2> QED BY <1>1, <1>2, <2>1, Zenon DEF PortServes, g
<1>6. CASE kept.enqueued # <<>> /\ ~(after.enqueued # <<>> /\ after.state = "READY")
  <2>1. g = after
    BY <1>3, <1>6, Zenon
  <2> QED BY <1>1, <1>2, <1>6, <2>1, Zenon DEF PortServes, g
<1> QED BY <1>4, <1>5, <1>6, Zenon

LEMMA PortPauseServes ==
  ASSUME NEW q, PortServes(q)
  PROVE  PortServes(PortPauses(q)) /\ PortPauses(q).state # "READY"
<1> DEFINE g == PortPauses(q)
<1>1. DOMAIN g = PortFields /\ g.state # "READY"
  BY Zenon DEF PortPauses, PortServes, PortFields
<1> HIDE DEF g
<1>2. PortServes(g)
  BY <1>1, Zenon DEF PortServes
<1> QED BY <1>1, <1>2, Zenon DEF g

LEMMA PortResumeServes ==
  ASSUME NEW q, PortServes(q)
  PROVE  PortServes(PortResumes(q)) /\ PortResumes(q).state = "READY"
<1> DEFINE ready == [q EXCEPT !.state = "READY"]
           g == PortResumes(q)
<1>1. /\ DOMAIN ready = PortFields /\ ready.state = "READY"
      /\ ready.enqueued = q.enqueued /\ ready.sending = q.sending
  BY Zenon DEF PortServes, PortFields
<1>2. g = IF q.enqueued # <<>> /\ ~q.sending THEN [ready EXCEPT !.sending = TRUE] ELSE ready
  BY Zenon DEF PortResumes, PortBegins
<1> HIDE DEF ready, g
<1>3. CASE q.enqueued # <<>> /\ ~q.sending
  <2>1. DOMAIN g = PortFields /\ g.sending /\ g.state = "READY"
    BY <1>1, <1>2, <1>3, Zenon DEF PortFields
  <2> QED BY <2>1, Zenon DEF PortServes, g
<1>4. CASE ~(q.enqueued # <<>> /\ ~q.sending)
  <2>1. g = ready
    BY <1>2, <1>4, Zenon
  <2> QED BY <1>1, <1>4, <2>1, Zenon DEF PortServes, g
<1> QED BY <1>3, <1>4, Zenon

\* A sender and its ingress still agree after sendPause(): the ingress moves
\* between its two states and tells, or stays in its state.
Told(u) ==
  /\ u \in Hosts => HostFits(u)'
  /\ u \in Uplinks => UplinkFits(u)'

LEMMA TellsAgree ==
  ASSUME WakeUpInv, NEW u \in Senders, NEW after,
         ingress' = [ingress EXCEPT ![u] = after],
         TwoStates(after),
         Tells(u, ingress[u], after)
  PROVE  /\ Told(u)
         /\ DOMAIN host' = Hosts /\ DOMAIN uplink' = Uplinks /\ DOMAIN ingress' = Senders
         /\ \A w \in Hosts \ {u} : host'[w] = host[w]
         /\ \A w \in Uplinks \ {u} : uplink'[w] = uplink[w]
<1> DEFINE before == ingress[u]
           pauses  == before.state = "READY" /\ after.state = "PAUSED"
           resumes == before.state = "PAUSED" /\ after.state = "READY"
<1>1. ingress'[u] = after /\ DOMAIN ingress' = Senders
  BY Zenon DEF WakeUpInv, Maps
<1>2. u \in Hosts \/ u \in Uplinks
  BY Zenon DEF Senders
<1>3. Hosts \intersect Uplinks = {}
  BY PortsAssumption, Zenon
<1>4. DOMAIN host = Hosts /\ DOMAIN uplink = Uplinks
  BY Zenon DEF WakeUpInv, Maps
<1>5. CASE u \in Hosts
  <2>1. u \notin Uplinks /\ uplink' = uplink
    BY <1>3, <1>5, Zenon DEF Tells
  <2>2. HostServes(host[u]) /\ Agree(host[u], before) /\ TwoStates(before)
    BY <1>5, Zenon DEF WakeUpInv, HostFits
  <2>3. CASE pauses
    <3>1. host' = [host EXCEPT ![u] = HostPauses(host[u])]
      BY <1>5, <2>3, Zenon DEF Tells
    <3>2. host'[u] = HostPauses(host[u]) /\ DOMAIN host' = Hosts
          /\ \A w \in Hosts \ {u} : host'[w] = host[w]
      BY <1>4, <1>5, <3>1, Zenon
    <3>3. HostServes(host'[u]) /\ host'[u].state # "READY"
      BY <2>2, <3>2, PauseServes, Zenon
    <3>4. after.state # "READY"
      BY <2>3, Zenon
    <3>5. HostFits(u)'
      BY <1>1, <3>3, <3>4, Zenon DEF HostFits, Agree
    <3> QED BY <1>1, <1>4, <2>1, <3>2, <3>5, Zenon DEF Told
  <2>4. CASE ~pauses /\ resumes
    <3>1. PICK g \in HostResumes(host[u]) : host' = [host EXCEPT ![u] = g]
      BY <1>5, <2>4, Zenon DEF Tells
    <3>2. host'[u] = g /\ DOMAIN host' = Hosts
          /\ \A w \in Hosts \ {u} : host'[w] = host[w]
      BY <1>4, <1>5, <3>1, Zenon
    <3>3. HostServes(host'[u]) /\ host'[u].state = "READY"
      BY <2>2, <3>2, ResumeServes, Zenon
    <3>4. HostFits(u)'
      BY <1>1, <2>4, <3>3, Zenon DEF HostFits, Agree
    <3> QED BY <1>1, <1>4, <2>1, <3>2, <3>4, Zenon DEF Told
  <2>5. CASE ~pauses /\ ~resumes
    <3>1. host' = host
      BY <1>5, <2>5, Zenon DEF Tells
    <3>2. after.state = before.state
      BY <2>2, <2>5, Zenon DEF TwoStates
    <3>3. HostFits(u)'
      BY <1>1, <2>2, <3>1, <3>2, Zenon DEF HostFits, Agree
    <3> QED BY <1>1, <1>4, <2>1, <3>1, <3>3, Zenon DEF Told
  <2> QED BY <2>3, <2>4, <2>5, Zenon
<1>6. CASE u \in Uplinks
  <2>1. u \notin Hosts /\ host' = host
    BY <1>3, <1>6, Zenon DEF Tells
  <2>2. PortServes(uplink[u]) /\ Agree(uplink[u], before) /\ TwoStates(before)
    BY <1>6, Zenon DEF WakeUpInv, UplinkFits
  <2>3. CASE pauses
    <3>1. uplink' = [uplink EXCEPT ![u] = PortPauses(uplink[u])]
      BY <1>6, <2>3, Zenon DEF Tells
    <3>2. uplink'[u] = PortPauses(uplink[u]) /\ DOMAIN uplink' = Uplinks
          /\ \A w \in Uplinks \ {u} : uplink'[w] = uplink[w]
      BY <1>4, <1>6, <3>1, Zenon
    <3>3. PortServes(uplink'[u]) /\ uplink'[u].state # "READY"
      BY <2>2, <3>2, PortPauseServes, Zenon
    <3>4. after.state # "READY"
      BY <2>3, Zenon
    <3>5. UplinkFits(u)'
      BY <1>1, <3>3, <3>4, Zenon DEF UplinkFits, Agree
    <3> QED BY <1>1, <1>4, <2>1, <3>2, <3>5, Zenon DEF Told
  <2>4. CASE ~pauses /\ resumes
    <3>1. uplink' = [uplink EXCEPT ![u] = PortResumes(uplink[u])]
      BY <1>6, <2>4, Zenon DEF Tells
    <3>2. uplink'[u] = PortResumes(uplink[u]) /\ DOMAIN uplink' = Uplinks
          /\ \A w \in Uplinks \ {u} : uplink'[w] = uplink[w]
      BY <1>4, <1>6, <3>1, Zenon
    <3>3. PortServes(uplink'[u]) /\ uplink'[u].state = "READY"
      BY <2>2, <3>2, PortResumeServes, Zenon
    <3>4. UplinkFits(u)'
      BY <1>1, <2>4, <3>3, Zenon DEF UplinkFits, Agree
    <3> QED BY <1>1, <1>4, <2>1, <3>2, <3>4, Zenon DEF Told
  <2>5. CASE ~pauses /\ ~resumes
    <3>1. uplink' = uplink
      BY <1>6, <2>5, Zenon DEF Tells
    <3>2. after.state = before.state
      BY <2>2, <2>5, Zenon DEF TwoStates
    <3>3. UplinkFits(u)'
      BY <1>1, <2>2, <3>1, <3>2, Zenon DEF UplinkFits, Agree
    <3> QED BY <1>1, <1>4, <2>1, <3>1, <3>3, Zenon DEF Told
  <2> QED BY <2>3, <2>4, <2>5, Zenon
<1> QED BY <1>2, <1>5, <1>6, Zenon

-----------------------------------------------------------------------------
(* The steps *)

\* What keeps the invariant where only some queues changed.
SameHosts(H) == \A u \in H : host'[u] = host[u] /\ ingress'[u] = ingress[u]
SameUplinks(U) == \A u \in U : uplink'[u] = uplink[u] /\ ingress'[u] = ingress[u]

LEMMA SameFits ==
  ASSUME WakeUpInv
  PROVE  /\ \A H \in SUBSET Hosts : SameHosts(H) => \A u \in H : HostFits(u)'
         /\ \A U \in SUBSET Uplinks : SameUplinks(U) => \A u \in U : UplinkFits(u)'
         /\ UNCHANGED <<out, below>> => \A o \in Outputs : OutFits(o)'
<1>1. ASSUME NEW H \in SUBSET Hosts, SameHosts(H), NEW u \in H
      PROVE  HostFits(u)'
  <2>1. HostFits(u) /\ host'[u] = host[u] /\ ingress'[u] = ingress[u]
    BY <1>1, Zenon DEF WakeUpInv, SameHosts
  <2> QED BY <2>1, Zenon DEF HostFits
<1>2. ASSUME NEW U \in SUBSET Uplinks, SameUplinks(U), NEW u \in U
      PROVE  UplinkFits(u)'
  <2>1. UplinkFits(u) /\ uplink'[u] = uplink[u] /\ ingress'[u] = ingress[u]
    BY <1>2, Zenon DEF WakeUpInv, SameUplinks
  <2> QED BY <2>1, Zenon DEF UplinkFits
<1>3. ASSUME UNCHANGED <<out, below>>, NEW o \in Outputs
      PROVE  OutFits(o)'
  <2>1. OutFits(o) /\ out' = out /\ below' = below
    BY <1>3, Zenon DEF WakeUpInv
  <2> QED BY <2>1, Zenon DEF OutFits
<1> QED BY <1>1, <1>2, <1>3, Zenon

\* Everything but the output queues, after an ingress told its sender.
LEMMA ToldFits ==
  ASSUME WakeUpInv, NEW u, NEW after,
         ingress' = [ingress EXCEPT ![u] = after],
         u \in Senders => TwoStates(after),
         Tells(u, ingress[u], after)
  PROVE  /\ DOMAIN host' = Hosts /\ DOMAIN uplink' = Uplinks /\ DOMAIN ingress' = Senders
         /\ \A w \in Hosts : HostFits(w)'
         /\ \A w \in Uplinks : UplinkFits(w)'
<1>1. DOMAIN host = Hosts /\ DOMAIN uplink = Uplinks /\ DOMAIN ingress = Senders
  BY Zenon DEF WakeUpInv, Maps
<1>2. CASE u \in Senders
  <2>1. /\ Told(u)
        /\ DOMAIN host' = Hosts /\ DOMAIN uplink' = Uplinks /\ DOMAIN ingress' = Senders
        /\ \A w \in Hosts \ {u} : host'[w] = host[w]
        /\ \A w \in Uplinks \ {u} : uplink'[w] = uplink[w]
    BY <1>2, TellsAgree, Zenon
  <2>2. \A w \in Senders \ {u} : ingress'[w] = ingress[w]
    BY <1>1, Zenon
  <2>3. SameHosts(Hosts \ {u}) /\ SameUplinks(Uplinks \ {u})
    BY <2>1, <2>2, Zenon DEF SameHosts, SameUplinks, Senders
  <2>4. /\ \A w \in Hosts \ {u} : HostFits(w)'
        /\ \A w \in Uplinks \ {u} : UplinkFits(w)'
    BY <2>3, SameFits, Zenon
  <2>5. \A w \in Hosts : HostFits(w)'
    BY <2>1, <2>4, Zenon DEF Told
  <2>6. \A w \in Uplinks : UplinkFits(w)'
    BY <2>1, <2>4, Zenon DEF Told
  <2> QED BY <2>1, <2>5, <2>6, Zenon
<1>3. CASE u \notin Senders
  <2>1. u \notin Hosts /\ u \notin Uplinks /\ host' = host /\ uplink' = uplink
    BY <1>3, Zenon DEF Tells, Senders
  <2>2. DOMAIN ingress' = Senders /\ \A w \in Senders : ingress'[w] = ingress[w]
    BY <1>1, <1>3, Zenon
  <2>3. SameHosts(Hosts) /\ SameUplinks(Uplinks)
    BY <2>1, <2>2, Zenon DEF SameHosts, SameUplinks, Senders
  <2> QED BY <1>1, <2>1, <2>2, <2>3, SameFits, Zenon
<1> QED BY <1>2, <1>3, Zenon

LEMMA WakeUpInvStep == WakeUpInv /\ [Next]_vars => WakeUpInv'
<1> SUFFICES ASSUME WakeUpInv, [Next]_vars
             PROVE  WakeUpInv'
  OBVIOUS
<1>1. /\ DOMAIN host = Hosts /\ DOMAIN uplink = Uplinks /\ DOMAIN ingress = Senders
      /\ DOMAIN out = Outputs /\ DOMAIN below = Outputs
  BY Zenon DEF WakeUpInv, Maps
\* A host of its own.
<1>2. ASSUME NEW u \in Hosts, NEW g, host' = [host EXCEPT ![u] = g],
             HostServes(g), g.state = "READY" <=> host[u].state = "READY",
             UNCHANGED <<uplink, ingress, out, below>>
      PROVE  WakeUpInv'
  <2>1. DOMAIN host' = Hosts /\ host'[u] = g /\ \A w \in Hosts \ {u} : host'[w] = host[w]
    BY <1>1, <1>2, Zenon
  <2>2. uplink' = uplink /\ ingress' = ingress /\ out' = out /\ below' = below
    BY <1>2, Zenon
  <2>3. HostFits(u)'
    <3>1. HostFits(u)
      BY Zenon DEF WakeUpInv
    <3> QED BY <1>2, <2>1, <2>2, <3>1, Zenon DEF HostFits, Agree
  <2>4. SameHosts(Hosts \ {u}) /\ SameUplinks(Uplinks)
    BY <2>1, <2>2, Zenon DEF SameHosts, SameUplinks
  <2>5. /\ \A w \in Hosts \ {u} : HostFits(w)'
        /\ \A w \in Uplinks : UplinkFits(w)'
        /\ \A o \in Outputs : OutFits(o)'
    BY <2>2, <2>4, SameFits, Zenon
  <2>6. Maps'
    BY <1>1, <2>1, <2>2, Zenon DEF Maps
  <2> QED BY <2>3, <2>5, <2>6, Zenon DEF WakeUpInv
<1>3. ASSUME NEW u \in Uplinks, NEW g, uplink' = [uplink EXCEPT ![u] = g],
             PortServes(g), g.state = "READY" <=> uplink[u].state = "READY",
             UNCHANGED <<host, ingress, out, below>>
      PROVE  WakeUpInv'
  <2>1. /\ DOMAIN uplink' = Uplinks /\ uplink'[u] = g
        /\ \A w \in Uplinks \ {u} : uplink'[w] = uplink[w]
    BY <1>1, <1>3, Zenon
  <2>2. host' = host /\ ingress' = ingress /\ out' = out /\ below' = below
    BY <1>3, Zenon
  <2>3. UplinkFits(u)'
    <3>1. UplinkFits(u)
      BY Zenon DEF WakeUpInv
    <3> QED BY <1>3, <2>1, <2>2, <3>1, Zenon DEF UplinkFits, Agree
  <2>4. SameHosts(Hosts) /\ SameUplinks(Uplinks \ {u})
    BY <2>1, <2>2, Zenon DEF SameHosts, SameUplinks
  <2>5. /\ \A w \in Hosts : HostFits(w)'
        /\ \A w \in Uplinks \ {u} : UplinkFits(w)'
        /\ \A o \in Outputs : OutFits(o)'
    BY <2>2, <2>4, SameFits, Zenon
  <2>6. Maps'
    BY <1>1, <2>1, <2>2, Zenon DEF Maps
  <2> QED BY <2>3, <2>5, <2>6, Zenon DEF WakeUpInv
<1>4. ASSUME NEW u \in Hosts, NEW p \in Prios, NEW o \in Outputs, HostSend(u, p, o)
      PROVE  WakeUpInv'
  <2>1. PICK g \in HostEnqueues(host[u], p, o) : host' = [host EXCEPT ![u] = g]
    BY <1>4, Zenon DEF HostSend
  <2>2. HostServes(host[u])
    BY Zenon DEF WakeUpInv, HostFits
  <2>3. HostServes(g) /\ g.state = host[u].state
    <3> DEFINE h == host[u]
    <3>1. HostServes(h) /\ g \in HostEnqueues(h, p, o)
      BY <2>1, <2>2, Zenon
    <3> HIDE DEF h
    <3>2. HostServes(g) /\ g.state = h.state
      BY <3>1, EnqueueServes, Zenon
    <3> QED BY <3>2, Zenon DEF h
  <2>4. UNCHANGED <<uplink, ingress, out, below>>
    BY <1>4, Zenon DEF HostSend
  <2> QED BY <1>2, <2>1, <2>3, <2>4, Zenon
<1>5. ASSUME NEW u \in Hosts, HostSent(u)
      PROVE  WakeUpInv'
  <2>1. PICK g \in HostCompletes(host[u]) : host' = [host EXCEPT ![u] = g]
    BY <1>5, Zenon DEF HostSent
  <2>2. HostServes(host[u]) /\ host[u].timers > 0
    BY <1>5, Zenon DEF WakeUpInv, HostFits, HostSent
  <2>3. HostServes(g) /\ (g.state = "READY" <=> host[u].state = "READY")
    BY <2>2, CompleteServes, Zenon
  <2>4. UNCHANGED <<uplink, ingress, out, below>>
    BY <1>5, Zenon DEF HostSent
  <2> QED BY <1>2, <2>1, <2>3, <2>4, Zenon
<1>6. ASSUME NEW u \in Uplinks, NEW o \in Outputs, UplinkSend(u, o)
      PROVE  WakeUpInv'
  <2>1. uplink' = [uplink EXCEPT ![u] = PortEnqueues(uplink[u], o)]
    BY <1>6, Zenon DEF UplinkSend
  <2>2. PortServes(uplink[u])
    BY Zenon DEF WakeUpInv, UplinkFits
  <2>3. /\ PortServes(PortEnqueues(uplink[u], o))
        /\ PortEnqueues(uplink[u], o).state = uplink[u].state
    BY <2>2, PortEnqueueServes, Zenon
  <2>4. UNCHANGED <<host, ingress, out, below>>
    BY <1>6, Zenon DEF UplinkSend
  <2> QED BY <1>3, <2>1, <2>3, <2>4, Zenon
<1>7. ASSUME NEW u \in Uplinks, UplinkSent(u)
      PROVE  WakeUpInv'
  <2>1. uplink' = [uplink EXCEPT ![u] = PortCompletes(uplink[u], {})]
    BY <1>7, Zenon DEF UplinkSent
  <2>2. PortServes(uplink[u])
    BY Zenon DEF WakeUpInv, UplinkFits
  <2>3. /\ PortServes(PortCompletes(uplink[u], {}))
        /\ PortCompletes(uplink[u], {}).state = "READY" <=> uplink[u].state = "READY"
    BY <2>2, PortCompleteServes, Zenon
  <2>4. UNCHANGED <<host, ingress, out, below>>
    BY <1>7, Zenon DEF UplinkSent
  <2> QED BY <1>3, <2>1, <2>3, <2>4, Zenon
<1>8. ASSUME NEW u \in Senders, Arrive(u)
      PROVE  WakeUpInv'
  <2> DEFINE after == Filled(ingress[u])
             o == Head(wire[u])
  <2>1. /\ ingress' = [ingress EXCEPT ![u] = after]
        /\ out' = [out EXCEPT ![o] = PortEnqueues(out[o], u)]
        /\ below' = below
    BY <1>8, Zenon DEF Arrive
  <2>2. Tells(u, ingress[u], after)
    <3>1. ingress'[u] = after
      BY <1>1, <2>1, Zenon
    <3> QED BY <1>8, <3>1, Zenon DEF Arrive
  <2>3. TwoStates(after)
    <3>1. TwoStates(ingress[u])
      BY Zenon DEF WakeUpInv, HostFits, UplinkFits, Senders
    <3> QED BY <3>1, Zenon DEF TwoStates, Filled, Ingress
  <2> HIDE DEF after
  <2>4. /\ DOMAIN host' = Hosts /\ DOMAIN uplink' = Uplinks /\ DOMAIN ingress' = Senders
        /\ \A w \in Hosts : HostFits(w)'
        /\ \A w \in Uplinks : UplinkFits(w)'
    BY <2>1, <2>2, <2>3, ToldFits, Zenon
  <2> HIDE DEF o
  <2>5. /\ DOMAIN out' = Outputs
        /\ \A w \in Outputs : out'[w] = out[w] \/ out'[w] = PortEnqueues(out[w], u)
    BY <1>1, <2>1, Zenon
  <2>6. ASSUME NEW w \in Outputs
        PROVE  OutFits(w)'
    <3>1. OutFits(w)
      BY Zenon DEF WakeUpInv
    <3>2. PortServes(out'[w]) /\ out'[w].state = out[w].state
      BY <2>5, <3>1, PortEnqueueServes, Zenon DEF OutFits
    <3> QED BY <2>1, <3>1, <3>2, Zenon DEF OutFits
  <2>7. Maps'
    BY <1>1, <2>1, <2>4, <2>5, Zenon DEF Maps
  <2> QED BY <2>4, <2>6, <2>7, Zenon DEF WakeUpInv
<1>9. ASSUME NEW o \in Outputs, OutputSent(o)
      PROVE  WakeUpInv'
  <2>1. PICK late \in SUBSET DOMAIN out[o].enqueued :
          /\ out' = [out EXCEPT ![o] = PortCompletes(out[o], late)]
          /\ IF Len(out'[o].vq) = Len(out[o].vq)
             THEN UNCHANGED <<host, uplink, ingress, drained>>
             ELSE LET u == Head(out[o].vq)
                  IN  /\ ingress' = [ingress EXCEPT ![u] = Drained(ingress[u])]
                      /\ Tells(u, ingress[u], ingress'[u])
    BY <1>9, Zenon DEF OutputSent
  <2>2. below' = below
    BY <1>9, Zenon DEF OutputSent
  <2>3. /\ DOMAIN out' = Outputs
        /\ \A w \in Outputs : out'[w] = out[w] \/ out'[w] = PortCompletes(out[w], late)
    BY <1>1, <2>1, Zenon
  <2>4. ASSUME NEW w \in Outputs
        PROVE  OutFits(w)'
    <3>1. OutFits(w)
      BY Zenon DEF WakeUpInv
    <3>2. PortServes(out'[w]) /\ (out'[w].state = "READY" <=> out[w].state = "READY")
      BY <2>3, <3>1, PortCompleteServes, SMT DEF OutFits
    <3> QED BY <2>2, <3>1, <3>2, Zenon DEF OutFits
  <2>5. CASE Len(out'[o].vq) = Len(out[o].vq)
    <3>1. host' = host /\ uplink' = uplink /\ ingress' = ingress
      BY <2>1, <2>5, Zenon
    <3>2. SameHosts(Hosts) /\ SameUplinks(Uplinks)
      BY <3>1, Zenon DEF SameHosts, SameUplinks
    <3>3. (\A w \in Hosts : HostFits(w)') /\ (\A w \in Uplinks : UplinkFits(w)')
      BY <3>2, SameFits, Zenon
    <3>4. Maps'
      BY <1>1, <2>2, <2>3, <3>1, Zenon DEF Maps
    <3> QED BY <2>4, <3>3, <3>4, Zenon DEF WakeUpInv
  <2>6. CASE Len(out'[o].vq) # Len(out[o].vq)
    <3>0. PICK u : u = Head(out[o].vq)
      BY Zenon
    <3> DEFINE after == Drained(ingress[u])
    <3>1. /\ ingress' = [ingress EXCEPT ![u] = after]
          /\ Tells(u, ingress[u], ingress'[u])
      BY <2>1, <2>6, <3>0, Zenon
    <3>2. ASSUME u \in Senders
          PROVE  TwoStates(after) /\ Tells(u, ingress[u], after)
      <4>1. TwoStates(ingress[u])
        BY <3>2, Zenon DEF WakeUpInv, HostFits, UplinkFits, Senders
      <4>2. TwoStates(after)
        BY <4>1, Zenon DEF TwoStates, Drained, Ingress
      <4> HIDE DEF after
      <4>3. ingress'[u] = after
        BY <1>1, <3>1, <3>2, Zenon
      <4> QED BY <3>1, <4>2, <4>3, Zenon
    <3>3. ASSUME u \notin Senders
          PROVE  Tells(u, ingress[u], after)
      BY <3>1, <3>3, Zenon DEF Tells, Senders
    <3> HIDE DEF after
    <3>4. (u \in Senders => TwoStates(after)) /\ Tells(u, ingress[u], after)
      BY <3>2, <3>3, Zenon
    <3>5. /\ DOMAIN host' = Hosts /\ DOMAIN uplink' = Uplinks /\ DOMAIN ingress' = Senders
          /\ \A w \in Hosts : HostFits(w)'
          /\ \A w \in Uplinks : UplinkFits(w)'
      BY <3>1, <3>4, ToldFits, Zenon
    <3>6. Maps'
      BY <1>1, <2>2, <2>3, <3>5, Zenon DEF Maps
    <3> QED BY <2>4, <3>5, <3>6, Zenon DEF WakeUpInv
  <2> QED BY <2>5, <2>6, Zenon
<1>10. ASSUME NEW o \in Outputs, NEW g, NEW state, out' = [out EXCEPT ![o] = g],
              below' = [below EXCEPT ![o] = state],
              PortServes(g), g.state = "READY" <=> state = "READY",
              state \in {"READY", "PAUSED"},
              UNCHANGED <<host, uplink, ingress>>
       PROVE  WakeUpInv'
  <2>1. /\ DOMAIN out' = Outputs /\ DOMAIN below' = Outputs
        /\ out'[o] = g /\ below'[o] = state
        /\ \A w \in Outputs \ {o} : out'[w] = out[w] /\ below'[w] = below[w]
    BY <1>1, <1>10, Zenon
  <2>2. host' = host /\ uplink' = uplink /\ ingress' = ingress
    BY <1>10, Zenon
  <2>3. OutFits(o)'
    BY <1>10, <2>1, Zenon DEF OutFits
  <2>4. \A w \in Outputs \ {o} : OutFits(w)'
    BY <2>1, Zenon DEF OutFits, WakeUpInv
  <2>5. SameHosts(Hosts) /\ SameUplinks(Uplinks)
    BY <2>2, Zenon DEF SameHosts, SameUplinks
  <2>6. (\A w \in Hosts : HostFits(w)') /\ (\A w \in Uplinks : UplinkFits(w)')
    BY <2>5, SameFits, Zenon
  <2>7. Maps'
    BY <1>1, <2>1, <2>2, Zenon DEF Maps
  <2> QED BY <2>3, <2>4, <2>6, <2>7, Zenon DEF WakeUpInv
<1>11. ASSUME NEW o \in Outputs, PausedFromBelow(o)
       PROVE  WakeUpInv'
  <2>1. PortServes(out[o])
    BY Zenon DEF WakeUpInv, OutFits
  <2>2. PortServes(PortPauses(out[o])) /\ PortPauses(out[o]).state # "READY"
    BY <2>1, PortPauseServes, Zenon
  <2>3. /\ out' = [out EXCEPT ![o] = PortPauses(out[o])]
        /\ below' = [below EXCEPT ![o] = "PAUSED"]
        /\ UNCHANGED <<host, uplink, ingress>>
    BY <1>11, Zenon DEF PausedFromBelow
  <2> QED BY <1>10, <2>2, <2>3, Zenon
<1>12. ASSUME NEW o \in Outputs, ResumedFromBelow(o)
       PROVE  WakeUpInv'
  <2>1. PortServes(out[o])
    BY Zenon DEF WakeUpInv, OutFits
  <2>2. PortServes(PortResumes(out[o])) /\ PortResumes(out[o]).state = "READY"
    BY <2>1, PortResumeServes, Zenon
  <2>3. /\ out' = [out EXCEPT ![o] = PortResumes(out[o])]
        /\ below' = [below EXCEPT ![o] = "READY"]
        /\ UNCHANGED <<host, uplink, ingress>>
    BY <1>12, Zenon DEF ResumedFromBelow
  <2> QED BY <1>10, <2>2, <2>3, Zenon
<1>13. ASSUME UNCHANGED vars
       PROVE  WakeUpInv'
  BY <1>13, Zenon DEF vars, WakeUpInv, Maps, HostFits, UplinkFits, OutFits
<1> QED BY <1>4, <1>5, <1>6, <1>7, <1>8, <1>9, <1>11, <1>12, <1>13, Zenon DEF Next

\* It holds of the initial queues, and gives the property.
LEMMA WakeUpInvInit == Init => WakeUpInv
<1> SUFFICES ASSUME Init
             PROVE  WakeUpInv
  OBVIOUS
<1>1. Maps
  BY Zenon DEF Init, Maps
<1>2. PortServes(NewPort) /\ NewPort.state = "READY"
  BY Zenon DEF NewPort, PortServes, PortFields
<1>3. HostServes(NewHost) /\ NewHost.state = "READY"
  <2>1. DOMAIN NewHost = HostFields /\ NewHost.timers = 0 /\ NewHost.state = "READY"
    BY Zenon DEF NewHost, HostFields
  <2>2. NewHost.size = [p \in Prios |-> 0]
    BY Zenon DEF NewHost
  <2>3. \A p \in Prios : ~(NewHost.size[p] > 0)
    BY <2>2, SMT
  <2>4. ~Busy(NewHost)
    BY <2>3, Zenon DEF Busy
  <2>5. 0 \in Nat
    BY SMT
  <2> QED BY <2>1, <2>4, <2>5, Zenon DEF HostServes
<1>4. \A u \in Senders : ingress[u].state = "READY"
  BY Zenon DEF Init, Ingress
<1>5. \A u \in Hosts : HostFits(u)
  <2>1. \A u \in Hosts : host[u] = NewHost /\ ingress[u].state = "READY"
    BY <1>4, Zenon DEF Init, Senders
  <2> QED BY <1>3, <2>1, Zenon DEF HostFits, Agree, TwoStates
<1>6. \A u \in Uplinks : UplinkFits(u)
  <2>1. \A u \in Uplinks : uplink[u] = NewPort /\ ingress[u].state = "READY"
    BY <1>4, Zenon DEF Init, Senders
  <2> QED BY <1>2, <2>1, Zenon DEF UplinkFits, Agree, TwoStates
<1>7. \A o \in Outputs : OutFits(o)
  <2>1. \A o \in Outputs : out[o] = NewPort /\ below[o] = "READY"
    BY Zenon DEF Init
  <2> QED BY <1>2, <2>1, Zenon DEF OutFits
<1> QED BY <1>1, <1>5, <1>6, <1>7, Zenon DEF WakeUpInv

\* No wake-up is lost: a sender is paused exactly when its ingress wants it to
\* be, an output exactly when what is behind it does, and a queue that may send
\* and has something to send is sending it.
THEOREM WakeUps == Spec => []NoLostWakeUp
<1>1. WakeUpInv => NoLostWakeUp
  <2> SUFFICES ASSUME WakeUpInv
               PROVE  NoLostWakeUp
    OBVIOUS
  <2>1. \A u \in Hosts :
          /\ host[u].state = "READY" <=> ingress[u].state = "READY"
          /\ host[u].state = "READY" /\ Busy(host[u]) /\ ~host[u].failed => host[u].timers > 0
    BY Zenon DEF WakeUpInv, HostFits, HostServes, Agree
  <2>2. \A u \in Uplinks :
          /\ uplink[u].state = "READY" <=> ingress[u].state = "READY"
          /\ uplink[u].state = "READY" /\ uplink[u].enqueued # <<>> => uplink[u].sending
    BY Zenon DEF WakeUpInv, UplinkFits, PortServes, Agree
  <2>3. \A o \in Outputs :
          /\ out[o].state = "READY" <=> below[o] = "READY"
          /\ out[o].state = "READY" /\ out[o].enqueued # <<>> => out[o].sending
    BY Zenon DEF WakeUpInv, OutFits, PortServes
  <2> QED BY <2>1, <2>2, <2>3, Zenon DEF NoLostWakeUp
<1> QED BY <1>1, WakeUpInvInit, WakeUpInvStep, PTL DEF Spec

-----------------------------------------------------------------------------
(* The headroom an ingress needs for another switch *)

IsSequence(s) == \E S : s \in Seq(S)

\* What may still come from u: the packets on its link and the one in service.
Coming(u) == Len(wire[u]) + (IF uplink[u].sending THEN 1 ELSE 0)

\* An ingress that has not paused its sender is below the threshold; from then
\* on what it counts and what may still come do not grow together.
Room(u) ==
  /\ ingress[u].bytes \in Int /\ IsSequence(wire[u]) /\ Len(wire[u]) <= MaxWire
  /\ ingress[u].state = "READY" => ingress[u].bytes <= High
  /\ ingress[u].bytes + PacketSize * Coming(u) <= High + PacketSize * (MaxWire + 1)
RoomInv == DOMAIN wire = Senders /\ \A u \in Uplinks : Room(u)

\* Multiples of the size of a packet.
LEMMA Multiples ==
  ASSUME NEW m \in Nat, NEW n \in Nat
  PROVE  /\ PacketSize * m \in Nat /\ PacketSize * (m + 1) = PacketSize * m + PacketSize
         /\ m <= n => PacketSize * m <= PacketSize * n
<1>1. PacketSize \in Nat
  BY ThresholdAssumption, SMT
<1>2. PacketSize * m \in Nat /\ PacketSize * (m + 1) = PacketSize * m + PacketSize
  BY <1>1, SMT
<1>3. ASSUME m <= n
      PROVE  PacketSize * m <= PacketSize * n
  <2>1. PICK d \in Nat : n = m + d
    <3>1. n - m \in Nat /\ n = m + (n - m)
      BY <1>3, SMT
    <3> QED BY <3>1, Zenon
  <2>2. PacketSize * n = PacketSize * m + PacketSize * d /\ PacketSize * d \in Nat
    BY <1>1, <2>1, SMT
  <2> QED BY <1>2, <2>2, SMT
<1> QED BY <1>2, <1>3, Zenon

\* Below the threshold there is room, whatever comes.
LEMMA RoomWhenReady ==
  ASSUME NEW i \in Int, NEW l \in Nat, NEW c \in Nat,
         i <= High, l <= MaxWire, c <= l + 1
  PROVE  i + PacketSize * c <= High + PacketSize * (MaxWire + 1)
<1>1. MaxWire + 1 \in Nat /\ c <= MaxWire + 1 /\ High \in Nat
  BY PortsAssumption, ThresholdAssumption, SMT
<1>2. /\ PacketSize * c <= PacketSize * (MaxWire + 1)
      /\ PacketSize * c \in Nat /\ PacketSize * (MaxWire + 1) \in Nat
  BY <1>1, Multiples, Zenon
<1> QED BY <1>1, <1>2, SMT

\* A paused switch begins no service.
LEMMA PausedPortWaits ==
  ASSUME NEW q, DOMAIN q = PortFields, q.state # "READY"
  PROVE  /\ \A x : PortEnqueues(q, x).sending = q.sending
         /\ PortCompletes(q, {}).sending = FALSE
<1>1. ASSUME NEW x
      PROVE  PortEnqueues(q, x).sending = q.sending
  <2>1. PortEnqueues(q, x) = [q EXCEPT !.enqueued = Append(@, x), !.vq = Append(@, x)]
    BY Zenon DEF PortEnqueues
  <2> QED BY <2>1, Zenon DEF PortFields
<1> DEFINE kept  == Kept(q, {})
           after == [kept EXCEPT !.enqueued = Tail(@), !.vq = Tail(@), !.sending = FALSE,
                                 !.state = IF @ = "PAUSE_RECEIVED" THEN "PAUSED" ELSE @]
           g == PortCompletes(q, {})
<1>2. DOMAIN kept = PortFields /\ kept.state = q.state
  <2> DEFINE on_time == DOMAIN q.enqueued \ {}
             some == [k \in 1 .. Cardinality(on_time) |-> q.enqueued[Nth(on_time, k)]]
  <2>1. kept = [q EXCEPT !.enqueued = some]
    BY Zenon DEF Kept
  <2> HIDE DEF some, kept
  <2> QED BY <2>1, Zenon DEF PortFields
<1> HIDE DEF kept
<1>3. after.state # "READY" /\ after.sending = FALSE
  <2>1. /\ after.state = IF kept.state = "PAUSE_RECEIVED" THEN "PAUSED" ELSE kept.state
        /\ after.sending = FALSE
    BY <1>2, Zenon DEF PortFields
  <2> HIDE DEF after
  <2> QED BY <1>2, <2>1, Zenon
<1>4. [kept EXCEPT !.sending = FALSE].sending = FALSE
  BY <1>2, Zenon DEF PortFields
<1>5. g = IF kept.enqueued = <<>> THEN [kept EXCEPT !.sending = FALSE]
          ELSE IF after.enqueued # <<>> /\ after.state = "READY"
               THEN [after EXCEPT !.sending = TRUE]
          ELSE after
  BY Zenon DEF PortCompletes, PortBegins, kept
<1>6. g.sending = FALSE
  <2> HIDE DEF after, g
  <2> QED BY <1>3, <1>4, <1>5, Zenon
<1> QED BY <1>1, <1>6, Zenon

\* The state a link and the two ends of it are in after a step that changes
\* none of them, or the two ends only.
LEMMA RoomOfTheSame ==
  ASSUME NEW u, Room(u), wire'[u] = wire[u], ingress'[u] = ingress[u],
         uplink'[u].sending = uplink[u].sending
  PROVE  Room(u)'
<1>1. Coming(u)' = Coming(u)
  BY Zenon DEF Coming
<1> QED BY <1>1, Zenon DEF Room

\* Sequences, whatever they hold.
LEMMA SequenceSteps ==
  ASSUME NEW s, IsSequence(s)
  PROVE  /\ Len(s) \in Nat
         /\ \A x : IsSequence(Append(s, x)) /\ Len(Append(s, x)) = Len(s) + 1
         /\ s # <<>> => IsSequence(Tail(s)) /\ Len(s) > 0 /\ Len(Tail(s)) = Len(s) - 1
<1>1. PICK S : s \in Seq(S)
  BY Zenon DEF IsSequence
<1>2. ASSUME NEW x
      PROVE  IsSequence(Append(s, x)) /\ Len(Append(s, x)) = Len(s) + 1
  <2>1. s \in Seq(S \union {x})
    BY <1>1, SMT
  <2>2. Append(s, x) \in Seq(S \union {x}) /\ Len(Append(s, x)) = Len(s) + 1
    BY <2>1, SMT
  <2> QED BY <2>2, Zenon DEF IsSequence
<1>3. ASSUME s # <<>>
      PROVE  IsSequence(Tail(s)) /\ Len(s) > 0 /\ Len(Tail(s)) = Len(s) - 1
  <2>1. Tail(s) \in Seq(S) /\ Len(s) > 0 /\ Len(Tail(s)) = Len(s) - 1
    BY <1>1, <1>3, SMT
  <2> QED BY <2>1, Zenon DEF IsSequence
<1>4. Len(s) \in Nat
  BY <1>1, SMT
<1> QED BY <1>2, <1>3, <1>4, Zenon

\* The counter of an ingress and the state it leads to.
LEMMA IngressCounts ==
  ASSUME NEW i
  PROVE  /\ Filled(i).bytes = i.bytes + PacketSize
         /\ Filled(i).state = IF i.bytes + PacketSize > High THEN "PAUSED" ELSE i.state
         /\ Drained(i).bytes = i.bytes - PacketSize
         /\ Drained(i).state = IF i.bytes - PacketSize < Low THEN "READY" ELSE i.state
<1>1. ASSUME NEW b, NEW t
      PROVE  Ingress(b, t).bytes = b /\ Ingress(b, t).state = t
  BY Zenon DEF Ingress
<1> QED BY <1>1, Zenon DEF Filled, Drained

\* What may still come is a number, at most one more than the link holds.
LEMMA ComingBounds ==
  ASSUME NEW u, IsSequence(wire[u])
  PROVE  Coming(u) \in Nat /\ Coming(u) <= Len(wire[u]) + 1
<1>1. Len(wire[u]) \in Nat
  BY SequenceSteps, Zenon
<1>2. Coming(u) = Len(wire[u]) + 1 \/ Coming(u) = Len(wire[u]) + 0
  BY Zenon DEF Coming
<1> QED BY <1>1, <1>2, SMT

\* The link of a switch that may send, whatever it does next.
LEMMA RoomAfterReady ==
  ASSUME NEW u, IsSequence(wire[u])', (Len(wire[u]) <= MaxWire)',
         (ingress[u].bytes \in Int)', (ingress[u].bytes <= High)'
  PROVE  Room(u)'
<1>1. Coming(u)' \in Nat /\ Coming(u)' <= Len(wire'[u]) + 1
  <2>1. Len(wire'[u]) \in Nat
    BY SequenceSteps, Zenon
  <2>2. Coming(u)' = Len(wire'[u]) + 1 \/ Coming(u)' = Len(wire'[u]) + 0
    BY Zenon DEF Coming
  <2> QED BY <2>1, <2>2, SMT
<1>2. Len(wire'[u]) \in Nat
  BY SequenceSteps, Zenon
<1>3. ingress'[u].bytes + PacketSize * Coming(u)' <= High + PacketSize * (MaxWire + 1)
  BY <1>1, <1>2, RoomWhenReady, Zenon
<1> QED BY <1>3, Zenon DEF Room

\* Its packet leaves, a paused one's too.
LEMMA RoomUplinkSent ==
  ASSUME WakeUpInv, RoomInv, NEW u \in Uplinks, UplinkSent(u)
  PROVE  Room(u)'
<1>1. /\ Room(u) /\ UplinkFits(u) /\ DOMAIN wire = Senders /\ DOMAIN uplink = Uplinks
  BY Zenon DEF RoomInv, WakeUpInv, Maps
<1>2. u \in Senders
  BY Zenon DEF Senders
<1>3. /\ uplink[u].sending /\ Len(wire[u]) < MaxWire
      /\ uplink' = [uplink EXCEPT ![u] = PortCompletes(uplink[u], {})]
      /\ wire' = [wire EXCEPT ![u] = Append(wire[u], Head(uplink[u].enqueued))]
      /\ ingress' = ingress
  BY Zenon DEF UplinkSent
<1>4. /\ uplink'[u] = PortCompletes(uplink[u], {})
      /\ wire'[u] = Append(wire[u], Head(uplink[u].enqueued))
  BY <1>1, <1>2, <1>3, Zenon
<1>5. /\ IsSequence(wire'[u]) /\ Len(wire'[u]) = Len(wire[u]) + 1 /\ Len(wire[u]) \in Nat
  BY <1>1, <1>4, SequenceSteps, Zenon DEF Room
<1>6. Len(wire'[u]) <= MaxWire
  BY <1>3, <1>5, PortsAssumption, SMT
<1>7. CASE ingress[u].state = "READY"
  <2>1. ingress'[u].bytes \in Int /\ ingress'[u].bytes <= High
    BY <1>1, <1>3, <1>7, Zenon DEF Room
  <2> QED BY <1>5, <1>6, <2>1, RoomAfterReady, Zenon
<1>8. CASE ingress[u].state # "READY"
  <2>1. DOMAIN uplink[u] = PortFields /\ uplink[u].state # "READY"
    BY <1>1, <1>8, Zenon DEF UplinkFits, Agree, PortServes
  <2>2. uplink'[u].sending = FALSE
    BY <1>4, <2>1, PausedPortWaits, Zenon
  <2>3. Coming(u)' = Len(wire'[u]) + 0 /\ Coming(u) = Len(wire[u]) + 1
    BY <1>3, <2>2, Zenon DEF Coming
  <2>4. Coming(u)' = Coming(u)
    BY <1>5, <2>3, SMT
  <2> QED BY <1>1, <1>3, <1>5, <1>6, <2>4, Zenon DEF Room
<1> QED BY <1>7, <1>8, Zenon

\* A packet of u arrives: what was coming is counted now.
LEMMA RoomArrive ==
  ASSUME WakeUpInv, RoomInv, NEW u \in Uplinks, Arrive(u)
  PROVE  Room(u)'
<1>1. /\ Room(u) /\ UplinkFits(u) /\ DOMAIN wire = Senders /\ DOMAIN uplink = Uplinks
      /\ DOMAIN ingress = Senders
  BY Zenon DEF RoomInv, WakeUpInv, Maps
<1>2. u \in Senders
  BY Zenon DEF Senders
<1>3. /\ wire[u] # <<>> /\ wire' = [wire EXCEPT ![u] = Tail(wire[u])]
      /\ ingress' = [ingress EXCEPT ![u] = Filled(ingress[u])]
      /\ Tells(u, ingress[u], ingress'[u])
  BY Zenon DEF Arrive
<1>4. wire'[u] = Tail(wire[u]) /\ ingress'[u] = Filled(ingress[u])
  BY <1>1, <1>2, <1>3, Zenon
<1>5. /\ IsSequence(wire'[u]) /\ Len(wire'[u]) = Len(wire[u]) - 1
      /\ Len(wire[u]) \in Nat /\ Len(wire[u]) > 0
  BY <1>1, <1>3, <1>4, SequenceSteps, Zenon DEF Room
<1>6. /\ ingress'[u].bytes = ingress[u].bytes + PacketSize
      /\ ingress'[u].state = IF ingress[u].bytes + PacketSize > High THEN "PAUSED"
                             ELSE ingress[u].state
  BY <1>4, IngressCounts, Zenon
<1>7. uplink'[u].sending = uplink[u].sending
  <2>1. DOMAIN uplink[u] = PortFields
    BY <1>1, Zenon DEF UplinkFits, PortServes
  <2>2. u \notin Hosts
    BY PortsAssumption, Zenon
  <2>3. ~(ingress[u].state = "PAUSED" /\ ingress'[u].state = "READY")
    BY <1>6, Zenon
  <2>4. uplink' = [uplink EXCEPT ![u] = PortPauses(uplink[u])] \/ uplink' = uplink
    BY <1>3, <2>2, <2>3, Zenon DEF Tells
  <2>5. uplink'[u] = PortPauses(uplink[u]) \/ uplink'[u] = uplink[u]
    BY <1>1, <2>4, Zenon
  <2>6. PortPauses(uplink[u]).sending = uplink[u].sending
    BY <2>1, Zenon DEF PortPauses, PortFields
  <2> QED BY <2>5, <2>6, Zenon
<1>8. Coming(u) \in Nat /\ Coming(u)' \in Nat /\ Coming(u) = Coming(u)' + 1
  <2>1. \/ Coming(u) = Len(wire[u]) + 1 /\ Coming(u)' = Len(wire'[u]) + 1
        \/ Coming(u) = Len(wire[u]) + 0 /\ Coming(u)' = Len(wire'[u]) + 0
    BY <1>7, Zenon DEF Coming
  <2> QED BY <1>5, <2>1, SMT
<1>9. /\ PacketSize * Coming(u)' \in Nat
      /\ PacketSize * (Coming(u)' + 1) = PacketSize * Coming(u)' + PacketSize
  BY <1>8, Multiples, Zenon
<1>10. /\ ingress[u].bytes \in Int /\ Len(wire[u]) <= MaxWire
       /\ ingress[u].bytes + PacketSize * Coming(u) <= High + PacketSize * (MaxWire + 1)
  BY <1>1, Zenon DEF Room
<1>11. /\ PacketSize \in Nat /\ High \in Nat /\ MaxWire + 1 \in Nat
  BY ThresholdAssumption, PortsAssumption, SMT
<1>12. PacketSize * (MaxWire + 1) \in Nat
  BY <1>11, Multiples, Zenon
<1>13. ingress'[u].bytes + PacketSize * Coming(u)' <= High + PacketSize * (MaxWire + 1)
  <2> DEFINE a == PacketSize * Coming(u)'
             b == PacketSize * (MaxWire + 1)
  <2>1. ingress[u].bytes + (a + PacketSize) <= High + b
    BY <1>8, <1>9, <1>10, Zenon
  <2>2. a \in Nat /\ b \in Nat
    BY <1>9, <1>12, Zenon
  <2> HIDE DEF a, b
  <2>3. ingress'[u].bytes + a <= High + b
    BY <1>6, <1>10, <1>11, <2>1, <2>2, SMT
  <2> QED BY <2>3, Zenon DEF a, b
<1>14. ingress'[u].bytes \in Int /\ Len(wire'[u]) <= MaxWire
  BY <1>5, <1>6, <1>10, <1>11, PortsAssumption, SMT
<1>15. ingress'[u].state = "READY" => ingress'[u].bytes <= High
  <2>1. ~(ingress'[u].bytes > High) => ingress'[u].bytes <= High
    BY <1>11, <1>14, SMT
  <2>2. ingress'[u].state = "READY" => ~(ingress'[u].bytes > High)
    BY <1>6, Zenon
  <2> QED BY <2>1, <2>2, Zenon
<1> QED BY <1>5, <1>13, <1>14, <1>15, Zenon DEF Room

\* A packet that came from u leaves an output, and u may go on.
LEMMA RoomDrained ==
  ASSUME WakeUpInv, RoomInv, NEW u \in Uplinks, wire' = wire,
         ingress' = [ingress EXCEPT ![u] = Drained(ingress[u])],
         Tells(u, ingress[u], ingress'[u])
  PROVE  Room(u)'
<1>1. /\ Room(u) /\ UplinkFits(u) /\ DOMAIN uplink = Uplinks /\ DOMAIN ingress = Senders
  BY Zenon DEF RoomInv, WakeUpInv, Maps
<1>2. ingress'[u] = Drained(ingress[u])
  BY <1>1, Zenon DEF Senders
<1>3. /\ ingress'[u].bytes = ingress[u].bytes - PacketSize
      /\ ingress'[u].state = IF ingress[u].bytes - PacketSize < Low THEN "READY"
                             ELSE ingress[u].state
  BY <1>2, IngressCounts, Zenon
<1>4. /\ ingress[u].bytes \in Int /\ IsSequence(wire[u]) /\ Len(wire[u]) <= MaxWire
      /\ ingress[u].bytes + PacketSize * Coming(u) <= High + PacketSize * (MaxWire + 1)
      /\ ingress[u].state = "READY" => ingress[u].bytes <= High
  BY <1>1, Zenon DEF Room
<1>5. PacketSize \in Nat /\ High \in Nat /\ Low \in Nat /\ High > Low
  BY ThresholdAssumption, SMT
<1>6. ingress'[u].bytes \in Int /\ ingress'[u].bytes <= ingress[u].bytes
  BY <1>3, <1>4, <1>5, SMT
<1>7. ingress'[u].state = "READY" => ingress'[u].bytes <= High
  <2>1. ingress[u].bytes - PacketSize < Low => ingress'[u].bytes <= High
    BY <1>3, <1>4, <1>5, SMT
  <2>2. ingress[u].bytes <= High => ingress'[u].bytes <= High
    BY <1>4, <1>5, <1>6, SMT
  <2> QED BY <1>3, <1>4, <2>1, <2>2, Zenon
<1>8. CASE ingress'[u].state = "READY"
  <2>1. IsSequence(wire'[u]) /\ Len(wire'[u]) <= MaxWire
    BY <1>4, Zenon
  <2> QED BY <1>6, <1>7, <1>8, <2>1, RoomAfterReady, Zenon
<1>9. CASE ingress'[u].state # "READY"
  <2>1. u \notin Hosts
    BY PortsAssumption, Zenon
  <2>2. ~(ingress[u].state = "READY" /\ ingress'[u].state = "PAUSED")
    BY <1>3, Zenon
  <2>3. uplink' = uplink
    BY <1>9, <2>1, <2>2, Zenon DEF Tells
  <2>4. Coming(u)' = Coming(u)
    BY <2>3, Zenon DEF Coming
  <2>5. Coming(u) \in Nat /\ MaxWire + 1 \in Nat
    BY <1>4, ComingBounds, PortsAssumption, SMT
  <2>6. PacketSize * Coming(u) \in Nat /\ PacketSize * (MaxWire + 1) \in Nat
    BY <2>5, Multiples, Zenon
  <2>7. ingress'[u].bytes + PacketSize * Coming(u) <= High + PacketSize * (MaxWire + 1)
    <3> DEFINE a == PacketSize * Coming(u)
               b == PacketSize * (MaxWire + 1)
    <3>1. ingress[u].bytes + a <= High + b /\ a \in Nat /\ b \in Nat
      BY <1>4, <2>6, Zenon
    <3> HIDE DEF a, b
    <3>2. ingress'[u].bytes + a <= High + b
      BY <1>4, <1>5, <1>6, <3>1, SMT
    <3> QED BY <3>2, Zenon DEF a, b
  <2> QED BY <1>4, <1>6, <1>7, <2>4, <2>7, Zenon DEF Room
<1> QED BY <1>8, <1>9, Zenon

LEMMA RoomInvStep == WakeUpInv /\ RoomInv /\ [Next]_vars => RoomInv'
<1> SUFFICES ASSUME WakeUpInv, RoomInv, [Next]_vars
             PROVE  RoomInv'
  OBVIOUS
<1>1. /\ DOMAIN wire = Senders /\ DOMAIN uplink = Uplinks /\ DOMAIN ingress = Senders
      /\ \A u \in Uplinks : Room(u) /\ UplinkFits(u)
  BY Zenon DEF RoomInv, WakeUpInv, Maps
<1>2. Hosts \intersect Uplinks = {} /\ Senders = Hosts \union Uplinks
  BY PortsAssumption, Zenon DEF Senders
\* A step that leaves the links of the other switches alone.
<1>3. ASSUME NEW U \in SUBSET Uplinks, wire' = wire, ingress' = ingress,
             \A u \in U : uplink'[u] = uplink[u]
      PROVE  \A u \in U : Room(u)'
  BY <1>1, <1>3, RoomOfTheSame, Zenon
<1>4. ASSUME NEW h \in Hosts, NEW p \in Prios, NEW o \in Outputs, HostSend(h, p, o)
      PROVE  RoomInv'
  <2>1. wire' = wire /\ ingress' = ingress /\ uplink' = uplink
    BY <1>4, Zenon DEF HostSend
  <2> QED BY <1>1, <1>3, <2>1, Zenon DEF RoomInv
<1>5. ASSUME NEW h \in Hosts, HostSent(h)
      PROVE  RoomInv'
  <2> DEFINE w == IF HostLeaves(host[h]) = NoPacket THEN wire[h]
                  ELSE Append(wire[h], HostLeaves(host[h]).to)
  <2>1. wire' = [wire EXCEPT ![h] = w] /\ ingress' = ingress /\ uplink' = uplink
    BY <1>5, Zenon DEF HostSent
  <2> HIDE DEF w
  <2>2. DOMAIN wire' = Senders /\ \A u \in Uplinks : wire'[u] = wire[u]
    BY <1>1, <1>2, <2>1, Zenon
  <2>3. \A u \in Uplinks : Room(u)'
    BY <1>1, <2>1, <2>2, RoomOfTheSame, Zenon
  <2> QED BY <2>2, <2>3, Zenon DEF RoomInv
<1>6. ASSUME NEW v \in Uplinks, NEW o \in Outputs, UplinkSend(v, o)
      PROVE  RoomInv'
  <2>1. /\ wire' = wire /\ ingress' = ingress
        /\ uplink' = [uplink EXCEPT ![v] = PortEnqueues(uplink[v], o)]
    BY <1>6, Zenon DEF UplinkSend
  <2>2. /\ uplink'[v] = PortEnqueues(uplink[v], o)
        /\ \A u \in Uplinks \ {v} : uplink'[u] = uplink[u]
    BY <1>1, <2>1, Zenon
  <2>3. \A u \in Uplinks \ {v} : Room(u)'
    BY <1>3, <2>1, <2>2, Zenon
  <2>4. CASE ingress[v].state = "READY"
    <3>1. /\ IsSequence(wire'[v]) /\ Len(wire'[v]) <= MaxWire
          /\ ingress'[v].bytes \in Int /\ ingress'[v].bytes <= High
      BY <1>1, <2>1, <2>4, Zenon DEF Room
    <3>2. Room(v)'
      BY <3>1, RoomAfterReady, Zenon
    <3> QED BY <1>1, <2>1, <2>3, <3>2, Zenon DEF RoomInv
  <2>5. CASE ingress[v].state # "READY"
    <3>1. DOMAIN uplink[v] = PortFields /\ uplink[v].state # "READY"
      BY <1>1, <2>5, Zenon DEF UplinkFits, Agree, PortServes
    <3>2. uplink'[v].sending = uplink[v].sending
      <4>1. PortEnqueues(uplink[v], o).sending = uplink[v].sending
        BY <3>1, PausedPortWaits, Zenon
      <4> QED BY <2>2, <4>1, Zenon
    <3>3. wire'[v] = wire[v] /\ ingress'[v] = ingress[v] /\ Room(v)
      BY <1>1, <2>1, Zenon
    <3>4. Room(v)'
      BY <3>2, <3>3, RoomOfTheSame, Zenon
    <3> QED BY <1>1, <2>1, <2>3, <3>4, Zenon DEF RoomInv
  <2> QED BY <2>4, <2>5, Zenon
<1>7. ASSUME NEW v \in Uplinks, UplinkSent(v)
      PROVE  RoomInv'
  <2>1. Room(v)'
    BY <1>7, RoomUplinkSent, Zenon
  <2>2. /\ ingress' = ingress
        /\ uplink' = [uplink EXCEPT ![v] = PortCompletes(uplink[v], {})]
        /\ wire' = [wire EXCEPT ![v] = Append(wire[v], Head(uplink[v].enqueued))]
    BY <1>7, Zenon DEF UplinkSent
  <2>3. /\ DOMAIN wire' = Senders
        /\ \A u \in Uplinks \ {v} : uplink'[u] = uplink[u] /\ wire'[u] = wire[u]
    BY <1>1, <1>2, <2>2, Zenon
  <2>4. \A u \in Uplinks \ {v} : Room(u)'
    BY <1>1, <2>2, <2>3, RoomOfTheSame, Zenon
  <2> QED BY <2>1, <2>3, <2>4, Zenon DEF RoomInv
\* An ingress tells its sender: what the other switches see.
<1>8. ASSUME NEW v, NEW a, ingress' = [ingress EXCEPT ![v] = a],
             Tells(v, ingress[v], ingress'[v])
      PROVE  \A u \in Uplinks \ {v} : uplink'[u] = uplink[u] /\ ingress'[u] = ingress[u]
  <2>1. \/ uplink' = uplink
        \/ uplink' = [uplink EXCEPT ![v] = PortPauses(uplink[v])]
        \/ uplink' = [uplink EXCEPT ![v] = PortResumes(uplink[v])]
    BY <1>8, Zenon DEF Tells
  <2>2. \A u \in Uplinks \ {v} : uplink'[u] = uplink[u]
    BY <1>1, <2>1, Zenon
  <2>3. \A u \in Uplinks \ {v} : ingress'[u] = ingress[u]
    BY <1>1, <1>2, <1>8, Zenon
  <2> QED BY <2>2, <2>3, Zenon
<1>9. ASSUME NEW v \in Senders, Arrive(v)
      PROVE  RoomInv'
  <2>1. /\ wire' = [wire EXCEPT ![v] = Tail(wire[v])]
        /\ ingress' = [ingress EXCEPT ![v] = Filled(ingress[v])]
        /\ Tells(v, ingress[v], ingress'[v])
    BY <1>9, Zenon DEF Arrive
  <2>2. /\ DOMAIN wire' = Senders
        /\ \A u \in Uplinks \ {v} : wire'[u] = wire[u]
    BY <1>1, <1>2, <2>1, Zenon
  <2>3. \A u \in Uplinks \ {v} : uplink'[u] = uplink[u] /\ ingress'[u] = ingress[u]
    BY <1>8, <2>1, Zenon
  <2>4. \A u \in Uplinks \ {v} : Room(u)'
    BY <1>1, <2>2, <2>3, RoomOfTheSame, Zenon
  <2>5. v \in Uplinks => Room(v)'
    BY <1>9, RoomArrive, Zenon
  <2> QED BY <2>2, <2>4, <2>5, Zenon DEF RoomInv
<1>10. ASSUME NEW o \in Outputs, OutputSent(o)
       PROVE  RoomInv'
  <2>1. wire' = wire
    BY <1>10, Zenon DEF OutputSent
  <2>2. CASE UNCHANGED <<host, uplink, ingress, drained>>
    <3>1. uplink' = uplink /\ ingress' = ingress
      BY <2>2, Zenon
    <3> QED BY <1>1, <1>3, <2>1, <3>1, Zenon DEF RoomInv
  <2>3. CASE ~UNCHANGED <<host, uplink, ingress, drained>>
    <3>0. PICK v : v = Head(out[o].vq)
      BY Zenon
    <3>1. /\ ingress' = [ingress EXCEPT ![v] = Drained(ingress[v])]
          /\ Tells(v, ingress[v], ingress'[v])
      BY <1>10, <2>3, <3>0, Zenon DEF OutputSent
    <3>2. \A u \in Uplinks \ {v} : uplink'[u] = uplink[u] /\ ingress'[u] = ingress[u]
      BY <1>8, <3>1, Zenon
    <3>3. \A u \in Uplinks \ {v} : Room(u)'
      BY <1>1, <2>1, <3>2, RoomOfTheSame, Zenon
    <3>4. ASSUME v \in Uplinks
          PROVE  Room(v)'
      BY <2>1, <3>1, <3>4, RoomDrained, Zenon
    <3>5. \A u \in Uplinks : Room(u)'
      BY <3>3, <3>4, Zenon
    <3> QED BY <1>1, <2>1, <3>5, Zenon DEF RoomInv
  <2> QED BY <2>2, <2>3, Zenon
<1>11. ASSUME NEW o \in Outputs, PausedFromBelow(o) \/ ResumedFromBelow(o)
       PROVE  RoomInv'
  <2>1. wire' = wire /\ ingress' = ingress /\ uplink' = uplink
    BY <1>11, Zenon DEF PausedFromBelow, ResumedFromBelow
  <2> QED BY <1>1, <1>3, <2>1, Zenon DEF RoomInv
<1>12. ASSUME UNCHANGED vars
       PROVE  RoomInv'
  <2>1. wire' = wire /\ ingress' = ingress /\ uplink' = uplink
    BY <1>12, Zenon DEF vars
  <2> QED BY <1>1, <1>3, <2>1, Zenon DEF RoomInv
<1> QED
  BY <1>4, <1>5, <1>6, <1>7, <1>9, <1>10, <1>11, <1>12, Zenon DEF Next

\* An ingress that another switch sends to never counts, and is never owed, more
\* than the threshold, the packets its link holds and one in service: the
\* headroom its buffer needs, whatever the order of pauses, resumes and packets.
THEOREM UplinkHeadroom == Spec => [](\A u \in Uplinks : Headroom(u))
<1>1. Init => RoomInv
  <2> SUFFICES ASSUME Init
               PROVE  RoomInv
    OBVIOUS
  <2>0. DOMAIN wire = Senders
    BY Zenon DEF Init
  <2> SUFFICES ASSUME NEW u \in Uplinks
               PROVE  Room(u)
    BY <2>0, Zenon DEF RoomInv
  <2>1. wire[u] = <<>> /\ uplink[u] = NewPort /\ ingress[u] = Ingress(0, "READY")
    BY Zenon DEF Init, Senders
  <2>2. ingress[u].bytes = 0 /\ uplink[u].sending = FALSE
    <3>1. Ingress(0, "READY").bytes = 0 /\ NewPort.sending = FALSE
      BY Zenon DEF Ingress, NewPort
    <3> QED BY <2>1, <3>1, Zenon
  <2>3. <<>> \in Seq(Outputs) /\ Len(<<>>) = 0
    BY SMT
  <2>4. IsSequence(wire[u]) /\ Len(wire[u]) = 0
    BY <2>1, <2>3, Zenon DEF IsSequence
  <2>5. /\ ingress[u].bytes \in Int /\ ingress[u].bytes <= High /\ Len(wire[u]) <= MaxWire
        /\ 0 \in Nat /\ 0 <= 0 + 1
    BY <2>2, <2>4, PortsAssumption, ThresholdAssumption, SMT
  <2>6. Coming(u) = 0
    <3>1. Coming(u) = 0 + 0
      BY <2>2, <2>4, Zenon DEF Coming
    <3> QED BY <3>1, SMT
  <2>7. ingress[u].bytes + PacketSize * Coming(u) <= High + PacketSize * (MaxWire + 1)
    BY <2>4, <2>5, <2>6, RoomWhenReady, Zenon
  <2> QED BY <2>1, <2>4, <2>5, <2>7, Zenon DEF Room
<1>2. RoomInv => \A u \in Uplinks : Headroom(u)
  <2> SUFFICES ASSUME RoomInv, NEW u \in Uplinks
               PROVE  Headroom(u)
    OBVIOUS
  <2>1. ingress[u].bytes + PacketSize * Coming(u) <= High + PacketSize * (MaxWire + 1)
    BY Zenon DEF RoomInv, Room
  <2>2. u \notin Hosts
    BY PortsAssumption, Zenon
  <2> QED BY <2>1, <2>2, Zenon DEF Headroom, Coming, InService
<1> QED BY <1>1, <1>2, WakeUpInvInit, WakeUpInvStep, RoomInvStep, PTL DEF Spec

-----------------------------------------------------------------------------
(* What the output queues hold *)

\* The k-th member of a finite set of numbers is one of them: no two have as
\* many before them.
LEMMA NthIs ==
  ASSUME NEW S \in SUBSET Nat, IsFiniteSet(S), NEW k \in 1 .. Cardinality(S)
  PROVE  Nth(S, k) \in S
<1> DEFINE n == Cardinality(S)
           UpTo(i) == {j \in S : j <= i}
           rank == [i \in S |-> Cardinality(UpTo(i))]
<1>1. n \in Nat
  BY FS_CardinalityType, Zenon
<1>2. ASSUME NEW i \in S
      PROVE  IsFiniteSet(UpTo(i)) /\ Cardinality(UpTo(i)) \in 1 .. n
  <2>1. UpTo(i) \in SUBSET S /\ i \in UpTo(i)
    <3>1. i <= i
      BY SMT
    <3> QED BY <3>1, Zenon
  <2> HIDE DEF UpTo
  <2>2. /\ IsFiniteSet(UpTo(i)) /\ Cardinality(UpTo(i)) <= n
        /\ Cardinality(UpTo(i)) \in Nat
    BY <2>1, FS_Subset, FS_CardinalityType, Zenon
  <2>3. Cardinality(UpTo(i)) # 0
    BY <2>1, <2>2, FS_EmptySet, Zenon
  <2> HIDE DEF n
  <2>4. Cardinality(UpTo(i)) \in 1 .. n
    BY <1>1, <2>2, <2>3, SMT
  <2> QED BY <2>2, <2>4, Zenon
<1>3. ASSUME NEW i \in S, NEW j \in S, i < j
      PROVE  Cardinality(UpTo(i)) # Cardinality(UpTo(j))
  <2>1. UpTo(i) \subseteq UpTo(j)
    <3>1. \A l \in Nat : l <= i => l <= j
      BY <1>3, SMT
    <3> QED BY <3>1, Zenon
  <2>2. j \in UpTo(j) /\ j \notin UpTo(i)
    BY <1>3, SMT
  <2> HIDE DEF UpTo
  <2>3. IsFiniteSet(UpTo(j)) /\ UpTo(i) \in SUBSET UpTo(j) /\ UpTo(i) # UpTo(j)
    BY <1>2, <2>1, <2>2, Zenon
  <2> QED BY <2>3, FS_Subset, Zenon
<1>4. rank \in [S -> 1 .. n]
  <2> HIDE DEF UpTo, n
  <2> QED BY <1>2, Zenon
<1>5. \A i \in S, j \in S : rank[i] = rank[j] => i = j
  <2> SUFFICES ASSUME NEW i \in S, NEW j \in S, rank[i] = rank[j], i # j
               PROVE  FALSE
    BY Zenon
  <2>1. i < j \/ j < i
    BY SMT
  <2>2. Cardinality(UpTo(i)) = Cardinality(UpTo(j))
    BY Zenon
  <2> HIDE DEF UpTo
  <2> QED BY <1>3, <2>1, <2>2, Zenon
<1> HIDE DEF rank
<1>6. rank \in Injection(S, 1 .. n)
  BY <1>4, <1>5, Zenon DEF Injection, IsInjective
<1>7. IsFiniteSet(1 .. n) /\ Cardinality(1 .. n) = n
  <2>1. 1 \in Int /\ n \in Int /\ (n = 0 \/ ~(1 > n)) /\ n - 1 + 1 = n
    BY <1>1, SMT
  <2> HIDE DEF n
  <2>2. Cardinality(1 .. n) = IF 1 > n THEN 0 ELSE n - 1 + 1
    BY <2>1, FS_Interval, Zenon
  <2>3. IsFiniteSet(1 .. n)
    BY <2>1, FS_Interval, Zenon
  <2> QED BY <1>1, <2>1, <2>2, <2>3, SMT
<1>8. rank \in Surjection(S, 1 .. n)
  BY <1>6, <1>7, FS_Injection, Zenon
<1>9. PICK i \in S : rank[i] = k
  BY <1>8, Zenon DEF Surjection
<1>10. \E j \in S : Cardinality({l \in S : l <= j}) = k
  BY <1>9, Zenon DEF rank
<1> QED BY <1>10, Zenon DEF Nth

\* In a row of numbers from 1 on it is k itself.
LEMMA NthOfRow ==
  ASSUME NEW n \in Nat
  PROVE  \A k \in 1 .. n : Nth(1 .. n, k) = k
<1>1. ASSUME NEW i \in 1 .. n
      PROVE  Cardinality({j \in 1 .. n : j <= i}) = i
  <2>1. {j \in 1 .. n : j <= i} = 1 .. i
    BY SMT
  <2>2. Cardinality(1 .. i) = i
    <3>1. 1 \in Int /\ i \in Int /\ ~(1 > i) /\ i - 1 + 1 = i
      BY SMT
    <3>2. Cardinality(1 .. i) = IF 1 > i THEN 0 ELSE i - 1 + 1
      BY <3>1, FS_Interval, Zenon
    <3> QED BY <3>1, <3>2, Zenon
  <2> QED BY <2>1, <2>2, Zenon
<1>2. ASSUME NEW k \in 1 .. n
      PROVE  Nth(1 .. n, k) = k
  <2>1. \A i \in 1 .. n : Cardinality({j \in 1 .. n : j <= i}) = k <=> i = k
    BY <1>1, Zenon
  <2>2. Nth(1 .. n, k) = CHOOSE i \in 1 .. n : Cardinality({j \in 1 .. n : j <= i}) = k
    BY Zenon DEF Nth
  <2> QED BY <2>1, <2>2, Zenon
<1> QED BY <1>2, Zenon

\* A queue of packets of S; a dropped packet leaves enqueued and not vq.
PortTyped(q, S) ==
  /\ DOMAIN q = PortFields
  /\ q.enqueued \in Seq(S) /\ q.vq \in Seq(S) /\ Len(q.enqueued) <= Len(q.vq)
  /\ q.state \in States /\ q.sending \in BOOLEAN
SendsSomething(q) == q.sending => q.enqueued # <<>>

\* What is left after the drops: packets of the queue, all of them if none is
\* late.
LEMMA KeptIs ==
  ASSUME NEW S, NEW q, PortTyped(q, S), NEW late \in SUBSET DOMAIN q.enqueued
  PROVE  /\ PortTyped(Kept(q, late), S)
         /\ Kept(q, late).vq = q.vq /\ Kept(q, late).state = q.state
         /\ late = {} => Kept(q, late).enqueued = q.enqueued
<1> DEFINE s == q.enqueued
           on_time == DOMAIN s \ late
           some == [k \in 1 .. Cardinality(on_time) |-> s[Nth(on_time, k)]]
           g == Kept(q, late)
<1>1. DOMAIN g = PortFields /\ g.enqueued = some /\ g.vq = q.vq /\ g.sending = q.sending
      /\ g.state = q.state
  <2>1. g = [q EXCEPT !.enqueued = some]
    BY Zenon DEF Kept
  <2> HIDE DEF some, g
  <2> QED BY <2>1, Zenon DEF PortTyped, PortFields
<1>2. s \in Seq(S) /\ Len(s) \in Nat /\ DOMAIN s = 1 .. Len(s) /\ q.vq \in Seq(S)
      /\ Len(q.vq) \in Nat /\ Len(s) <= Len(q.vq)
  BY SMT DEF PortTyped
<1>3. IsFiniteSet(1 .. Len(s)) /\ Cardinality(1 .. Len(s)) = Len(s)
  <2>1. 1 \in Int /\ Len(s) \in Int /\ (Len(s) = 0 \/ ~(1 > Len(s)))
        /\ Len(s) - 1 + 1 = Len(s)
    BY <1>2, SMT
  <2>2. Cardinality(1 .. Len(s)) = IF 1 > Len(s) THEN 0 ELSE Len(s) - 1 + 1
    BY <2>1, FS_Interval, Zenon
  <2>3. IsFiniteSet(1 .. Len(s))
    BY <2>1, FS_Interval, Zenon
  <2> HIDE DEF s
  <2> QED BY <1>2, <2>1, <2>2, <2>3, SMT
<1>4. /\ on_time \in SUBSET Nat /\ IsFiniteSet(on_time) /\ Cardinality(on_time) \in Nat
      /\ Cardinality(on_time) <= Len(s)
  <2>1. on_time \in SUBSET (1 .. Len(s))
    BY <1>2, Zenon
  <2>2. IsFiniteSet(on_time) /\ Cardinality(on_time) <= Len(s)
    <3> HIDE DEF on_time
    <3> QED BY <1>3, <2>1, FS_Subset, Zenon
  <2>3. on_time \in SUBSET Nat
    <3> HIDE DEF on_time
    <3> QED BY <2>1, SMT
  <2> QED BY <2>2, <2>3, FS_CardinalityType, Zenon
<1>5. some \in Seq(S) /\ Len(some) = Cardinality(on_time)
  <2>1. ASSUME NEW k \in 1 .. Cardinality(on_time)
        PROVE  s[Nth(on_time, k)] \in S
    <3>1. Nth(on_time, k) \in on_time
      <4> HIDE DEF on_time
      <4> QED BY <1>4, <2>1, NthIs, Zenon
    <3>2. Nth(on_time, k) \in DOMAIN s
      BY <3>1, Zenon
    <3> HIDE DEF on_time, s
    <3> QED BY <1>2, <3>2, SMT
  <2>2. some \in [1 .. Cardinality(on_time) -> S]
    <3> HIDE DEF on_time, s
    <3> QED BY <2>1, Zenon
  <2> HIDE DEF some, on_time
  <2> QED BY <1>4, <2>2, SMT
<1>6. ASSUME late = {}
      PROVE  some = s
  <2>1. on_time = 1 .. Len(s) /\ Cardinality(on_time) = Len(s)
    BY <1>2, <1>3, <1>6, Zenon
  <2>2. some = [k \in 1 .. Len(s) |-> s[k]]
    <3>1. \A k \in 1 .. Len(s) : Nth(on_time, k) = k
      <4> HIDE DEF on_time
      <4> QED BY <1>2, <2>1, NthOfRow, Zenon
    <3> HIDE DEF on_time
    <3> QED BY <2>1, <3>1, Zenon
  <2> HIDE DEF some, s
  <2> QED BY <1>2, <2>2, SMT
<1>7. g.enqueued \in Seq(S) /\ Len(g.enqueued) <= Len(g.vq)
  <2> HIDE DEF some, g, on_time, s
  <2> QED BY <1>1, <1>2, <1>4, <1>5, SMT
<1>8. PortTyped(g, S)
  <2> HIDE DEF some, g, on_time, s
  <2> QED BY <1>1, <1>2, <1>7, Zenon DEF PortTyped
<1>9. g.vq = q.vq /\ g.state = q.state /\ (late = {} => g.enqueued = q.enqueued)
  <2> HIDE DEF some, g, on_time
  <2> QED BY <1>1, <1>6, Zenon
<1> HIDE DEF some, on_time, s
<1> QED BY <1>8, <1>9, Zenon

\* A packet joins a queue, a queue is paused or goes on.
LEMMA PortEnqueueHolds ==
  ASSUME NEW S, NEW q, PortTyped(q, S), NEW x \in S
  PROVE  LET g == PortEnqueues(q, x)
         IN  /\ PortTyped(g, S) /\ SendsSomething(g)
             /\ g.enqueued = Append(q.enqueued, x) /\ g.vq = Append(q.vq, x)
<1> DEFINE added == [q EXCEPT !.enqueued = Append(@, x), !.vq = Append(@, x)]
           g == PortEnqueues(q, x)
<1>1. /\ DOMAIN added = PortFields /\ added.sending = q.sending /\ added.state = q.state
      /\ added.enqueued = Append(q.enqueued, x) /\ added.vq = Append(q.vq, x)
  BY Zenon DEF PortTyped, PortFields
<1>2. \/ g = added
      \/ g = [added EXCEPT !.sending = TRUE]
  BY Zenon DEF PortEnqueues, PortBegins
<1> HIDE DEF added, g
<1>3. /\ DOMAIN g = PortFields /\ g.sending \in {TRUE, q.sending} /\ g.state = q.state
      /\ g.enqueued = Append(q.enqueued, x) /\ g.vq = Append(q.vq, x)
  <2>1. CASE g = added
    BY <1>1, <2>1, Zenon
  <2>2. CASE g = [added EXCEPT !.sending = TRUE]
    BY <1>1, <2>2, Zenon DEF PortFields
  <2> QED BY <1>2, <2>1, <2>2, Zenon
<1>4. PICK s, v : s = q.enqueued /\ v = q.vq
  BY Zenon
<1>5. s \in Seq(S) /\ v \in Seq(S) /\ Len(s) <= Len(v)
  BY <1>4, Zenon DEF PortTyped
<1>6. /\ Append(s, x) \in Seq(S) /\ Append(v, x) \in Seq(S) /\ Append(s, x) # <<>>
      /\ Len(Append(s, x)) <= Len(Append(v, x))
  <2>1. ASSUME NEW w \in Seq(S)
        PROVE  /\ Append(w, x) \in Seq(S) /\ Len(Append(w, x)) = Len(w) + 1
               /\ Len(w) \in Nat /\ Append(w, x) # <<>>
    BY SMT
  <2>2. Len(s) + 1 <= Len(v) + 1
    <3>1. Len(s) \in Nat /\ Len(v) \in Nat
      BY <1>5, <2>1, Zenon
    <3> QED BY <1>5, <3>1, SMT
  <2> QED BY <1>5, <2>1, <2>2, Zenon
<1>7. g.state \in States /\ g.sending \in BOOLEAN
  BY <1>3, Zenon DEF PortTyped
<1>8. PortTyped(g, S) /\ SendsSomething(g)
  BY <1>3, <1>4, <1>6, <1>7, Zenon DEF PortTyped, SendsSomething
<1> QED BY <1>3, <1>8, Zenon DEF g

LEMMA PortPauseHolds ==
  ASSUME NEW S, NEW q, PortTyped(q, S)
  PROVE  LET g == PortPauses(q)
         IN  /\ PortTyped(g, S) /\ g.sending = q.sending
             /\ g.enqueued = q.enqueued /\ g.vq = q.vq
<1> DEFINE g == PortPauses(q)
<1>1. /\ DOMAIN g = PortFields /\ g.sending = q.sending /\ g.state \in States
      /\ g.enqueued = q.enqueued /\ g.vq = q.vq
  BY Zenon DEF PortPauses, PortTyped, PortFields, States
<1> HIDE DEF g
<1>2. PortTyped(g, S)
  BY <1>1, Zenon DEF PortTyped
<1> QED BY <1>1, <1>2, Zenon DEF g

LEMMA PortResumeHolds ==
  ASSUME NEW S, NEW q, PortTyped(q, S)
  PROVE  LET g == PortResumes(q)
         IN  /\ PortTyped(g, S)
             /\ SendsSomething(q) => SendsSomething(g)
             /\ g.enqueued = q.enqueued /\ g.vq = q.vq
<1> DEFINE ready == [q EXCEPT !.state = "READY"]
           g == PortResumes(q)
<1>1. /\ DOMAIN ready = PortFields /\ ready.state \in States
      /\ ready.enqueued = q.enqueued /\ ready.sending = q.sending /\ ready.vq = q.vq
  BY Zenon DEF PortTyped, PortFields, States
<1>2. g = IF q.enqueued # <<>> /\ ~q.sending THEN [ready EXCEPT !.sending = TRUE] ELSE ready
  BY Zenon DEF PortResumes, PortBegins
<1> HIDE DEF ready, g
<1>3. /\ DOMAIN g = PortFields /\ g.state \in States
      /\ g.enqueued = q.enqueued /\ g.vq = q.vq
      /\ g.sending = q.sending \/ (g.sending = TRUE /\ q.enqueued # <<>>)
  <2>1. CASE q.enqueued # <<>> /\ ~q.sending
    <3>1. g = [ready EXCEPT !.sending = TRUE]
      BY <1>2, <2>1, Zenon
    <3> QED BY <1>1, <2>1, <3>1, Zenon DEF PortFields
  <2>2. CASE ~(q.enqueued # <<>> /\ ~q.sending)
    <3>1. g = ready
      BY <1>2, <2>2, Zenon
    <3> QED BY <1>1, <3>1, Zenon
  <2> QED BY <2>1, <2>2, Zenon
<1>4. g.sending \in BOOLEAN
  BY <1>3, Zenon DEF PortTyped
<1>5. PortTyped(g, S) /\ (SendsSomething(q) => SendsSomething(g))
  BY <1>3, <1>4, Zenon DEF PortTyped, SendsSomething
<1> QED BY <1>3, <1>5, Zenon DEF g

\* A service ends: with every packet dropped nothing leaves, else the head of
\* what is left, and of vq.
LEMMA PortCompleteHolds ==
  ASSUME NEW S, NEW q, PortTyped(q, S), NEW late \in SUBSET DOMAIN q.enqueued
  PROVE  LET g == PortCompletes(q, late)
             left == Kept(q, late).enqueued
         IN  /\ PortTyped(g, S) /\ SendsSomething(g)
             /\ \/ left = <<>> /\ g.enqueued = <<>> /\ g.vq = q.vq
                \/ /\ left # <<>> /\ q.vq # <<>>
                   /\ g.enqueued = Tail(left) /\ g.vq = Tail(q.vq)
                   /\ Len(g.vq) # Len(q.vq)
             /\ left \in Seq(S)
             /\ late = {} => left = q.enqueued
<1> DEFINE kept  == Kept(q, late)
           after == [kept EXCEPT !.enqueued = Tail(@), !.vq = Tail(@), !.sending = FALSE,
                                 !.state = IF @ = "PAUSE_RECEIVED" THEN "PAUSED" ELSE @]
           g == PortCompletes(q, late)
<1>1. PortTyped(kept, S) /\ kept.vq = q.vq /\ (late = {} => kept.enqueued = q.enqueued)
  BY KeptIs, Zenon
<1> HIDE DEF kept
<1>2. PICK s, v : s = kept.enqueued /\ v = kept.vq
  BY Zenon
<1>3. s \in Seq(S) /\ v \in Seq(S) /\ Len(s) <= Len(v) /\ DOMAIN kept = PortFields
      /\ kept.state \in States /\ kept.sending \in BOOLEAN
  BY <1>1, <1>2, Zenon DEF PortTyped
<1>4. ASSUME s # <<>>
      PROVE  /\ v # <<>> /\ Tail(s) \in Seq(S) /\ Tail(v) \in Seq(S)
             /\ Len(Tail(s)) <= Len(Tail(v)) /\ Len(Tail(v)) # Len(v)
  BY <1>3, <1>4, SMT
<1>5. /\ DOMAIN after = PortFields /\ after.enqueued = Tail(s) /\ after.vq = Tail(v)
      /\ after.sending = FALSE /\ after.state \in States
  <2>1. /\ DOMAIN after = PortFields /\ after.enqueued = Tail(s) /\ after.vq = Tail(v)
        /\ after.sending = FALSE
        /\ after.state = IF kept.state = "PAUSE_RECEIVED" THEN "PAUSED" ELSE kept.state
    BY <1>2, <1>3, Zenon DEF PortFields
  <2> HIDE DEF after
  <2> QED BY <1>3, <2>1, Zenon DEF States
<1>6. g = IF kept.enqueued = <<>> THEN [kept EXCEPT !.sending = FALSE]
          ELSE IF after.enqueued # <<>> /\ after.state = "READY"
               THEN [after EXCEPT !.sending = TRUE]
          ELSE after
  BY Zenon DEF PortCompletes, PortBegins, kept
<1> HIDE DEF after, g
<1>7. CASE s = <<>>
  <2>1. g = [kept EXCEPT !.sending = FALSE]
    BY <1>2, <1>6, <1>7, Zenon
  <2>2. /\ DOMAIN g = PortFields /\ g.enqueued = s /\ g.vq = v /\ g.sending = FALSE
        /\ g.state = kept.state
    BY <1>2, <1>3, <2>1, Zenon DEF PortFields
  <2>3. PortTyped(g, S) /\ SendsSomething(g)
    BY <1>3, <2>2, Zenon DEF PortTyped, SendsSomething
  <2> QED BY <1>1, <1>2, <1>3, <1>7, <2>2, <2>3, Zenon DEF g, kept
<1>8. CASE s # <<>>
  <2>1. \/ g = after
        \/ g = [after EXCEPT !.sending = TRUE] /\ after.enqueued # <<>>
    BY <1>2, <1>6, <1>8, Zenon
  <2>2. /\ DOMAIN g = PortFields /\ g.enqueued = Tail(s) /\ g.vq = Tail(v)
        /\ g.sending = FALSE \/ (g.sending = TRUE /\ Tail(s) # <<>>)
        /\ g.state \in States
    <3>1. CASE g = after
      BY <1>5, <3>1, Zenon
    <3>2. CASE g = [after EXCEPT !.sending = TRUE] /\ after.enqueued # <<>>
      BY <1>5, <3>2, Zenon DEF PortFields
    <3> QED BY <2>1, <3>1, <3>2, Zenon
  <2>3. PortTyped(g, S) /\ SendsSomething(g)
    BY <1>4, <1>8, <2>2, Zenon DEF PortTyped, SendsSomething
  <2> QED BY <1>1, <1>2, <1>3, <1>4, <1>8, <2>2, <2>3, Zenon DEF g, kept
<1> QED BY <1>7, <1>8, Zenon

-----------------------------------------------------------------------------
(* What the queue of a host holds *)

Packets == [prio : Prios, to : Outputs]
InHand(h, p) == IF h.sending # NoPacket /\ h.sending.prio = p THEN 1 ELSE 0
Held(h, p) == Total(Outputs, h.queue[p]) + InHand(h, p)

\* The queue of a host never counts less than it holds.
HostTyped(h) ==
  /\ DOMAIN h = HostFields
  /\ h.queue \in [Prios -> [Outputs -> Nat]] /\ h.size \in [Prios -> Nat]
  /\ h.sending \in Packets \union {NoPacket}
  /\ h.state \in States /\ h.timers \in Nat /\ h.failed \in BOOLEAN
  /\ \A p \in Prios : IsFiniteSet(Cells(Outputs, h.queue[p])) /\ Held(h, p) <= h.size[p]

\* It counts what it holds, and has scheduled the end of its service.
HostExact(h) ==
  /\ ~h.failed
  /\ h.timers = IF h.sending = NoPacket THEN 0 ELSE 1
  /\ \A p \in Prios : h.size[p] = Held(h, p)
  /\ h.state = "PAUSED" => h.sending = NoPacket
  /\ h.state = "READY" /\ Busy(h) => h.sending # NoPacket

LEMMA MaxIsOne ==
  ASSUME NEW S \in SUBSET Prios, S # {}
  PROVE  Max(S) \in S
<1>1. S \subseteq 0 .. 2
  BY PortsAssumption, Zenon
<1>2. \E x \in S : \A y \in S : x >= y
  <2>1. CASE 2 \in S
    BY <1>1, <2>1, SMT
  <2>2. CASE 2 \notin S /\ 1 \in S
    BY <1>1, <2>2, SMT
  <2>3. CASE 2 \notin S /\ 1 \notin S
    <3>1. \A y \in S : y = 0
      BY <1>1, <2>3, SMT
    <3>2. PICK x \in S : TRUE
      BY Zenon
    <3>3. 0 >= 0
      BY SMT
    <3> QED BY <3>1, <3>2, <3>3, Zenon
  <2> QED BY <2>1, <2>2, <2>3, Zenon
<1> QED BY <1>2, Zenon DEF Max

\* One packet more or less for an output.
LEMMA OneMore ==
  ASSUME NEW n \in [Outputs -> Nat], IsFiniteSet(Cells(Outputs, n)), NEW o \in Outputs
  PROVE  LET m == [n EXCEPT ![o] = n[o] + 1]
         IN  /\ m \in [Outputs -> Nat] /\ IsFiniteSet(Cells(Outputs, m))
             /\ Total(Outputs, n) \in Nat /\ Total(Outputs, m) = Total(Outputs, n) + 1
<1> DEFINE m == [n EXCEPT ![o] = n[o] + 1]
<1>1. n[o] \in Nat
  BY Zenon
<1>2. n[o] + 1 \in Nat
  BY <1>1, SMT
<1>3. m \in [Outputs -> Nat]
  BY <1>2, Zenon
<1>4. Numbered(Outputs, n)
  BY NumberedIs, Zenon
<1>5. LET c == Cells(Outputs, [n EXCEPT ![o] = n[o] + 1])
      IN  IsFiniteSet(c) /\ Cardinality(c) = Cardinality(Cells(Outputs, n)) + 1
  BY <1>4, CellsMore, Zenon
<1>6. Cardinality(Cells(Outputs, n)) \in Nat
  BY FS_CardinalityType, Zenon
<1> QED BY <1>3, <1>5, <1>6, Zenon DEF Total

LEMMA OneLess ==
  ASSUME NEW n \in [Outputs -> Nat], IsFiniteSet(Cells(Outputs, n)), NEW o \in Outputs,
         n[o] > 0
  PROVE  LET m == [n EXCEPT ![o] = n[o] - 1]
         IN  /\ m \in [Outputs -> Nat] /\ IsFiniteSet(Cells(Outputs, m))
             /\ Total(Outputs, n) \in Nat /\ Total(Outputs, m) \in Nat
             /\ Total(Outputs, m) = Total(Outputs, n) - 1
<1> DEFINE m == [n EXCEPT ![o] = n[o] - 1]
<1>1. n[o] \in Nat
  BY Zenon
<1>2. n[o] - 1 \in Nat
  BY <1>1, SMT
<1>3. m \in [Outputs -> Nat]
  BY <1>2, Zenon
<1>4. Numbered(Outputs, n)
  BY NumberedIs, Zenon
<1>5. LET c == Cells(Outputs, [n EXCEPT ![o] = n[o] - 1])
      IN  IsFiniteSet(c) /\ Cardinality(c) = Cardinality(Cells(Outputs, n)) - 1
  BY <1>4, CellsLess, Zenon
<1>6. Cardinality(Cells(Outputs, n)) \in Nat /\ Cardinality(Cells(Outputs, m)) \in Nat
  BY <1>5, FS_CardinalityType, Zenon
<1> QED BY <1>3, <1>5, <1>6, Zenon DEF Total

LEMMA HeldIs ==
  ASSUME NEW h, HostTyped(h), NEW p \in Prios
  PROVE  /\ Total(Outputs, h.queue[p]) \in Nat /\ InHand(h, p) \in {0, 1}
         /\ Held(h, p) \in Nat /\ h.size[p] \in Nat /\ Held(h, p) <= h.size[p]
         /\ Total(Outputs, h.queue[p]) = 0 <=> Waiting(h, p) = {}
<1>1. h.queue[p] \in [Outputs -> Nat] /\ IsFiniteSet(Cells(Outputs, h.queue[p]))
      /\ h.size[p] \in Nat /\ Held(h, p) <= h.size[p]
  BY Zenon DEF HostTyped
<1>2. PICK n : n = h.queue[p]
  BY Zenon
<1>3. Numbered(Outputs, n)
  BY <1>1, <1>2, NumberedIs, Zenon
<1>4. /\ Cardinality(Cells(Outputs, n)) \in Nat
      /\ Cardinality(Cells(Outputs, n)) = 0 <=> \A o \in Outputs : n[o] = 0
  BY <1>1, <1>2, <1>3, CellsEmpty, Zenon
<1>5. \A o \in Outputs : n[o] = 0 <=> ~(n[o] > 0)
  <2> SUFFICES ASSUME NEW o \in Outputs
               PROVE  n[o] = 0 <=> ~(n[o] > 0)
    BY Zenon
  <2>1. n[o] \in Nat
    BY <1>1, <1>2, Zenon
  <2> QED BY <2>1, SMT
<1>6. Waiting(h, p) = {} <=> \A o \in Outputs : ~(n[o] > 0)
  BY <1>2, Zenon DEF Waiting
<1>7. InHand(h, p) \in {0, 1}
  BY Zenon DEF InHand
<1>8. Held(h, p) \in Nat
  <2>1. Held(h, p) = Total(Outputs, n) + InHand(h, p) /\ Total(Outputs, n) \in Nat
    BY <1>2, <1>4, Zenon DEF Held, Total
  <2> QED BY <1>7, <2>1, SMT
<1> QED BY <1>1, <1>2, <1>4, <1>5, <1>6, <1>7, <1>8, Zenon DEF Total

\* What only the other fields tell apart has the same counters.
LEMMA HeldOfSame ==
  ASSUME NEW h, HostTyped(h), NEW g, DOMAIN g = HostFields, g.queue = h.queue, g.size = h.size,
         g.sending = h.sending, g.state \in States, g.timers \in Nat, g.failed \in BOOLEAN
  PROVE  /\ HostTyped(g)
         /\ \A p \in Prios : Held(g, p) = Held(h, p)
<1>1. \A p \in Prios : Held(g, p) = Held(h, p)
  BY Zenon DEF Held, InHand
<1> QED BY <1>1, Zenon DEF HostTyped

\* A packet in service keeps a queue busy.
LEMMA BusyInService ==
  ASSUME NEW h, HostTyped(h), h.sending # NoPacket
  PROVE  Busy(h)
<1>1. h.sending \in Packets
  BY Zenon DEF HostTyped
<1>2. PICK p \in Prios : p = h.sending.prio
  <2>1. \A x \in Packets : x.prio \in Prios
    BY Zenon DEF Packets
  <2> QED BY <1>1, <2>1, Zenon
<1>3. InHand(h, p) = 1
  BY <1>2, Zenon DEF InHand
<1>4. /\ Total(Outputs, h.queue[p]) \in Nat /\ h.size[p] \in Nat
      /\ Total(Outputs, h.queue[p]) + InHand(h, p) <= h.size[p]
  BY HeldIs, Zenon DEF Held
<1>5. h.size[p] > 0
  <2>1. ASSUME NEW t \in Nat, NEW s \in Nat, t + 1 <= s
        PROVE  s > 0
    BY <2>1, SMT
  <2> QED BY <1>3, <1>4, <2>1, Zenon
<1> QED BY <1>5, Zenon DEF Busy

\* A service begins: the packet moves from what waits into service.
LEMMA HostBeginHolds ==
  ASSUME NEW h, HostTyped(h), Busy(h), NEW g \in HostBegins(h)
  PROVE  /\ HostTyped(g)
         /\ /\ h.sending = NoPacket /\ ~h.failed /\ h.timers = 0 /\ h.state = "READY"
            /\ \A p \in Prios : h.size[p] = Held(h, p)
            => HostExact(g)
<1> DEFINE S == {q \in Prios : h.size[q] > 0}
<1>1. PICK p : p = Max(S)
  BY Zenon
<1>2. p \in Prios /\ h.size[p] > 0
  <2>1. S \in SUBSET Prios /\ S # {}
    BY Zenon DEF Busy
  <2>2. p \in S
    <3> HIDE DEF S
    <3> QED BY <1>1, <2>1, MaxIsOne, Zenon
  <2> QED BY <2>2, Zenon
<1>3. g \in IF Waiting(h, p) = {} THEN {[h EXCEPT !.failed = TRUE]}
            ELSE {[h EXCEPT !.queue[p][o] = @ - 1,
                            !.sending = [prio |-> p, to |-> o],
                            !.timers = @ + 1] : o \in Waiting(h, p)}
  BY <1>1, Zenon DEF HostBegins
<1>4. /\ DOMAIN h = HostFields /\ h.queue \in [Prios -> [Outputs -> Nat]]
      /\ h.size \in [Prios -> Nat] /\ h.state \in States /\ h.timers \in Nat
      /\ \A q \in Prios : IsFiniteSet(Cells(Outputs, h.queue[q])) /\ Held(h, q) <= h.size[q]
  BY Zenon DEF HostTyped
<1>5. /\ Total(Outputs, h.queue[p]) \in Nat /\ h.size[p] \in Nat
      /\ Total(Outputs, h.queue[p]) = 0 <=> Waiting(h, p) = {}
  BY <1>2, HeldIs, Zenon
<1>6. CASE Waiting(h, p) = {}
  <2>1. g = [h EXCEPT !.failed = TRUE]
    BY <1>3, <1>6, Zenon
  <2>2. /\ DOMAIN g = HostFields /\ g.queue = h.queue /\ g.size = h.size
        /\ g.sending = h.sending /\ g.state = h.state /\ g.timers = h.timers /\ g.failed = TRUE
    BY <1>4, <2>1, Zenon DEF HostFields
  <2>3. HostTyped(g)
    BY <1>4, <2>2, HeldOfSame, Zenon
  <2>4. ASSUME h.sending = NoPacket, h.size[p] = Held(h, p)
        PROVE  FALSE
    <3>1. Held(h, p) = 0 + 0
      BY <1>5, <1>6, <2>4, Zenon DEF Held, InHand
    <3> QED BY <1>2, <2>4, <3>1, SMT
  <2> QED BY <1>2, <2>3, <2>4, Zenon
<1>7. CASE Waiting(h, p) # {}
  <2>1. PICK o \in Waiting(h, p) :
          g = [h EXCEPT !.queue[p][o] = @ - 1, !.sending = [prio |-> p, to |-> o],
                        !.timers = @ + 1]
    BY <1>3, <1>7, Zenon
  <2>2. PICK n : n = h.queue[p]
    BY Zenon
  <2> DEFINE m == [n EXCEPT ![o] = n[o] - 1]
             x == [prio |-> p, to |-> o]
  <2>3. n \in [Outputs -> Nat] /\ IsFiniteSet(Cells(Outputs, n)) /\ o \in Outputs /\ n[o] > 0
    BY <1>2, <1>4, <2>1, <2>2, Zenon DEF Waiting
  <2>4. /\ m \in [Outputs -> Nat] /\ IsFiniteSet(Cells(Outputs, m))
        /\ Total(Outputs, n) \in Nat /\ Total(Outputs, m) \in Nat
        /\ Total(Outputs, m) = Total(Outputs, n) - 1
    BY <2>3, OneLess, Zenon
  <2>5. x \in Packets /\ x # NoPacket /\ x.prio = p
    <3>1. x \in Packets
      BY <1>2, <2>3, Zenon DEF Packets
    <3>2. NoPacket \notin Packets
      BY PortsAssumption, Zenon DEF Packets
    <3>3. x.prio = p
      BY Zenon
    <3> HIDE DEF x
    <3> QED BY <3>1, <3>2, <3>3, Zenon
  <2>6. /\ DOMAIN g = HostFields /\ g.queue = [h.queue EXCEPT ![p] = m]
        /\ g.size = h.size /\ g.sending = x /\ g.state = h.state
        /\ g.timers = h.timers + 1 /\ g.failed = h.failed
    BY <1>4, <2>1, <2>2, Zenon DEF HostFields
  <2> HIDE DEF m, x
  <2>7. /\ g.queue \in [Prios -> [Outputs -> Nat]] /\ g.queue[p] = m
        /\ \A q \in Prios \ {p} : g.queue[q] = h.queue[q]
    BY <1>2, <1>4, <2>4, <2>6, Zenon
  <2>8. ASSUME NEW q \in Prios, q # p
        PROVE  /\ Held(g, q) <= h.size[q]
               /\ h.sending = NoPacket => Held(g, q) = Held(h, q)
    <3>1. PICK t : t = Total(Outputs, h.queue[q])
      BY Zenon
    <3>2. /\ t \in Nat /\ InHand(h, q) \in {0, 1} /\ h.size[q] \in Nat
          /\ t + InHand(h, q) <= h.size[q] /\ Held(h, q) = t + InHand(h, q)
      BY <3>1, HeldIs, Zenon DEF Held
    <3>3. Held(g, q) = t + 0
      BY <2>5, <2>6, <2>7, <2>8, <3>1, Zenon DEF Held, InHand
    <3>4. t + 0 <= h.size[q]
      BY <3>2, SMT
    <3>5. h.sending = NoPacket => InHand(h, q) = 0
      BY Zenon DEF InHand
    <3> QED BY <3>2, <3>3, <3>4, <3>5, Zenon
  <2>9. /\ Held(g, p) <= h.size[p]
        /\ h.sending = NoPacket => Held(g, p) = Held(h, p)
    <3>1. PICK t, r, k : /\ t = Total(Outputs, h.queue[p]) /\ r = Total(Outputs, m)
                         /\ k = InHand(h, p)
      BY Zenon
    <3>2. /\ t \in Nat /\ r \in Nat /\ r = t - 1 /\ k \in {0, 1} /\ h.size[p] \in Nat
          /\ t + k <= h.size[p] /\ Held(h, p) = t + k
      BY <1>2, <2>2, <2>4, <3>1, HeldIs, Zenon DEF Held
    <3>3. Held(g, p) = r + 1
      BY <2>5, <2>6, <2>7, <3>1, Zenon DEF Held, InHand
    <3>4. r + 1 <= h.size[p] /\ (k = 0 => r + 1 = t + k)
      BY <3>2, SMT
    <3>5. h.sending = NoPacket => k = 0
      BY <3>1, Zenon DEF InHand
    <3> QED BY <3>2, <3>3, <3>4, <3>5, Zenon
  <2>10. h.timers + 1 \in Nat /\ (h.timers = 0 => h.timers + 1 = 1)
    BY <1>4, SMT
  <2>11. HostTyped(g)
    <3>1. \A q \in Prios : IsFiniteSet(Cells(Outputs, g.queue[q])) /\ Held(g, q) <= g.size[q]
      BY <1>4, <2>4, <2>6, <2>7, <2>8, <2>9, Zenon
    <3>2. g.failed \in BOOLEAN
      BY <2>6, Zenon DEF HostTyped
    <3> QED BY <1>4, <2>5, <2>6, <2>7, <2>10, <3>1, <3>2, Zenon DEF HostTyped
  <2>12. ASSUME h.sending = NoPacket, ~h.failed, h.timers = 0, h.state = "READY",
                \A q \in Prios : h.size[q] = Held(h, q)
         PROVE  HostExact(g)
    <3>1. \A q \in Prios : g.size[q] = Held(g, q)
      BY <2>6, <2>8, <2>9, <2>12, Zenon
    <3> QED BY <2>5, <2>6, <2>10, <2>12, <3>1, Zenon DEF HostExact
  <2> QED BY <2>11, <2>12, Zenon
<1> QED BY <1>6, <1>7, Zenon

\* A packet of the host joins its queue.
LEMMA HostEnqueueHolds ==
  ASSUME NEW h, HostTyped(h), NEW p \in Prios, NEW o \in Outputs,
         NEW g \in HostEnqueues(h, p, o)
  PROVE  HostTyped(g) /\ (HostExact(h) => HostExact(g))
<1> DEFINE added == [h EXCEPT !.queue[p][o] = @ + 1, !.size[p] = @ + 1]
<1>1. /\ DOMAIN h = HostFields /\ h.queue \in [Prios -> [Outputs -> Nat]]
      /\ h.size \in [Prios -> Nat]
      /\ \A q \in Prios : IsFiniteSet(Cells(Outputs, h.queue[q])) /\ Held(h, q) <= h.size[q]
  BY Zenon DEF HostTyped
<1>2. PICK n, s : n = h.queue[p] /\ s = h.size[p]
  BY Zenon
<1> DEFINE m == [n EXCEPT ![o] = n[o] + 1]
<1>3. n \in [Outputs -> Nat] /\ IsFiniteSet(Cells(Outputs, n)) /\ s \in Nat
  BY <1>1, <1>2, Zenon
<1>4. /\ m \in [Outputs -> Nat] /\ IsFiniteSet(Cells(Outputs, m))
      /\ Total(Outputs, n) \in Nat /\ Total(Outputs, m) = Total(Outputs, n) + 1
  BY <1>3, OneMore, Zenon
<1>5. /\ DOMAIN added = HostFields /\ added.queue = [h.queue EXCEPT ![p] = m]
      /\ added.size = [h.size EXCEPT ![p] = s + 1]
      /\ added.sending = h.sending /\ added.state = h.state
      /\ added.timers = h.timers /\ added.failed = h.failed
  BY <1>1, <1>2, Zenon DEF HostFields
<1> HIDE DEF m, added
<1>6. s + 1 \in Nat /\ s + 1 > 0
  BY <1>3, SMT
<1>7. /\ added.queue \in [Prios -> [Outputs -> Nat]] /\ added.queue[p] = m
      /\ added.size \in [Prios -> Nat] /\ added.size[p] = s + 1
      /\ \A q \in Prios \ {p} : added.queue[q] = h.queue[q] /\ added.size[q] = h.size[q]
  BY <1>1, <1>4, <1>5, <1>6, Zenon
<1>8. \A q \in Prios \ {p} : Held(added, q) = Held(h, q)
  BY <1>5, <1>7, Zenon DEF Held, InHand
<1>9. /\ Held(added, p) <= s + 1
      /\ Held(h, p) = s => Held(added, p) = s + 1
  <2>1. PICK t, r, k : /\ t = Total(Outputs, n) /\ r = Total(Outputs, m)
                       /\ k = InHand(h, p)
    BY Zenon
  <2>2. /\ t \in Nat /\ r = t + 1 /\ k \in {0, 1} /\ t + k <= s /\ Held(h, p) = t + k
    BY <1>2, <1>4, <2>1, HeldIs, Zenon DEF Held
  <2>3. Held(added, p) = r + k
    BY <1>5, <1>7, <2>1, Zenon DEF Held, InHand
  <2>4. r + k <= s + 1 /\ (t + k = s => r + k = s + 1)
    BY <1>3, <2>2, SMT
  <2> QED BY <2>2, <2>3, <2>4, Zenon
<1>10. HostTyped(added)
  <2>1. \A q \in Prios : /\ IsFiniteSet(Cells(Outputs, added.queue[q]))
                         /\ Held(added, q) <= added.size[q]
    BY <1>1, <1>4, <1>7, <1>8, <1>9, Zenon
  <2>2. /\ added.sending \in Packets \union {NoPacket} /\ added.state \in States
        /\ added.timers \in Nat /\ added.failed \in BOOLEAN
    BY <1>5, Zenon DEF HostTyped
  <2> QED BY <1>5, <1>7, <2>1, <2>2, Zenon DEF HostTyped
<1>11. Busy(added)
  BY <1>6, <1>7, Zenon DEF Busy
<1>12. (\A q \in Prios : h.size[q] = Held(h, q)) => \A q \in Prios : added.size[q] = Held(added, q)
  BY <1>2, <1>7, <1>8, <1>9, Zenon
<1>13. CASE ~Busy(h) /\ h.state = "READY"
  <2>1. g \in HostBegins(added)
    BY <1>13, Zenon DEF HostEnqueues, added
  <2>2. /\ HostTyped(g)
        /\ /\ added.sending = NoPacket /\ ~added.failed /\ added.timers = 0
           /\ added.state = "READY"
           /\ \A q \in Prios : added.size[q] = Held(added, q)
           => HostExact(g)
    BY <1>10, <1>11, <2>1, HostBeginHolds, Zenon
  <2>3. h.sending = NoPacket
    BY <1>13, BusyInService, Zenon
  <2>4. HostExact(h) => ~h.failed /\ h.timers = 0 /\ \A q \in Prios : h.size[q] = Held(h, q)
    BY <2>3, Zenon DEF HostExact
  <2> QED BY <1>5, <1>12, <1>13, <2>2, <2>3, <2>4, Zenon
<1>14. CASE ~(~Busy(h) /\ h.state = "READY")
  <2>1. g = added
    BY <1>14, Zenon DEF HostEnqueues, added
  <2>2. HostExact(h) => HostExact(added)
    BY <1>5, <1>12, <1>14, Zenon DEF HostExact
  <2> QED BY <1>10, <2>1, <2>2, Zenon
<1> QED BY <1>13, <1>14, Zenon

\* A pause frame reaches it: what is in service is sent first.
LEMMA HostPauseHolds ==
  ASSUME NEW h, HostTyped(h)
  PROVE  LET g == HostPauses(h)
         IN  /\ HostTyped(g) /\ (HostExact(h) => HostExact(g))
             /\ g.timers = h.timers /\ g.sending = h.sending
             /\ g.state = IF Busy(h) THEN "PAUSE_RECEIVED" ELSE "PAUSED"
<1> DEFINE g == HostPauses(h)
<1>1. /\ DOMAIN g = HostFields /\ g.queue = h.queue /\ g.size = h.size
      /\ g.sending = h.sending /\ g.timers = h.timers /\ g.failed = h.failed
      /\ g.state = IF Busy(h) THEN "PAUSE_RECEIVED" ELSE "PAUSED"
  BY Zenon DEF HostPauses, HostTyped, HostFields
<1> HIDE DEF g
<1>2. g.state \in States /\ g.timers \in Nat /\ g.failed \in BOOLEAN
  BY <1>1, Zenon DEF HostTyped, States
<1>3. HostTyped(g) /\ \A p \in Prios : Held(g, p) = Held(h, p)
  BY <1>1, <1>2, HeldOfSame, Zenon
<1>4. g.state = "PAUSED" => g.sending = NoPacket
  BY <1>1, BusyInService, Zenon
<1>5. HostExact(h) => HostExact(g)
  BY <1>1, <1>3, <1>4, Zenon DEF HostExact
<1> QED BY <1>1, <1>3, <1>5, Zenon DEF g

\* A resume frame reaches it: it begins where it left off, which needs that
\* nothing is in service.
LEMMA HostResumeHolds ==
  ASSUME NEW h, HostTyped(h), NEW g \in HostResumes(h)
  PROVE  HostTyped(g) /\ (HostExact(h) /\ h.sending = NoPacket => HostExact(g))
<1> DEFINE ready == [h EXCEPT !.state = "READY"]
<1>1. /\ DOMAIN ready = HostFields /\ ready.queue = h.queue /\ ready.size = h.size
      /\ ready.sending = h.sending /\ ready.timers = h.timers /\ ready.failed = h.failed
      /\ ready.state = "READY"
  BY Zenon DEF HostTyped, HostFields
<1>2. g \in IF Busy(h) THEN HostBegins(ready) ELSE {ready}
  BY Zenon DEF HostResumes
<1> HIDE DEF ready
<1>3. ready.state \in States /\ ready.timers \in Nat /\ ready.failed \in BOOLEAN
  BY <1>1, Zenon DEF HostTyped, States
<1>4. HostTyped(ready) /\ \A p \in Prios : Held(ready, p) = Held(h, p)
  BY <1>1, <1>3, HeldOfSame, Zenon
<1>5. Busy(ready) <=> Busy(h)
  BY <1>1, Zenon DEF Busy
<1>6. CASE Busy(h)
  <2>1. g \in HostBegins(ready)
    BY <1>2, <1>6, Zenon
  <2>2. /\ HostTyped(g)
        /\ /\ ready.sending = NoPacket /\ ~ready.failed /\ ready.timers = 0
           /\ ready.state = "READY"
           /\ \A p \in Prios : ready.size[p] = Held(ready, p)
           => HostExact(g)
    BY <1>4, <1>5, <1>6, <2>1, HostBeginHolds, Zenon
  <2>3. HostExact(h) /\ h.sending = NoPacket =>
          ~h.failed /\ h.timers = 0 /\ \A p \in Prios : h.size[p] = Held(h, p)
    BY Zenon DEF HostExact
  <2> QED BY <1>1, <1>4, <2>2, <2>3, Zenon
<1>7. CASE ~Busy(h)
  <2>1. g = ready
    BY <1>2, <1>7, Zenon
  <2>2. HostExact(h) => HostExact(ready)
    BY <1>1, <1>4, <1>5, <1>7, Zenon DEF HostExact
  <2> QED BY <1>4, <2>1, <2>2, Zenon
<1> QED BY <1>6, <1>7, Zenon

\* A service ends: its packet leaves, and the next begins unless the host is
\* paused.
LEMMA HostCompleteHolds ==
  ASSUME NEW h, HostTyped(h), h.timers > 0, NEW g \in HostCompletes(h)
  PROVE  /\ HostTyped(g) /\ (HostExact(h) => HostExact(g))
         /\ g.state # "PAUSE_RECEIVED"
<1> DEFINE over  == [h EXCEPT !.timers = @ - 1]
           sent  == IF h.sending = NoPacket THEN over
                    ELSE [over EXCEPT !.size[h.sending.prio] = @ - 1, !.sending = NoPacket]
           after == [sent EXCEPT !.state = IF @ = "PAUSE_RECEIVED" THEN "PAUSED" ELSE @]
<1>1. /\ DOMAIN h = HostFields /\ h.queue \in [Prios -> [Outputs -> Nat]]
      /\ h.size \in [Prios -> Nat] /\ h.timers \in Nat
      /\ h.sending \in Packets \union {NoPacket} /\ h.state \in States
      /\ \A q \in Prios : IsFiniteSet(Cells(Outputs, h.queue[q])) /\ Held(h, q) <= h.size[q]
  BY Zenon DEF HostTyped
<1>2. h.timers - 1 \in Nat /\ (h.timers = 1 => h.timers - 1 = 0)
  BY <1>1, SMT
<1>3. /\ DOMAIN over = HostFields /\ over.timers = h.timers - 1 /\ over.queue = h.queue
      /\ over.size = h.size /\ over.sending = h.sending /\ over.state = h.state
      /\ over.failed = h.failed
  BY <1>1, Zenon DEF HostFields
<1>4. HostTyped(over)
  <2>1. over.state \in States /\ over.timers \in Nat /\ over.failed \in BOOLEAN
    BY <1>2, <1>3, Zenon DEF HostTyped
  <2> HIDE DEF over
  <2> QED BY <1>3, <2>1, HeldOfSame, Zenon
<1>5. /\ HostTyped(sent) /\ sent.sending = NoPacket /\ sent.timers = h.timers - 1
      /\ sent.state = h.state /\ sent.failed = h.failed
      /\ (\A p \in Prios : h.size[p] = Held(h, p)) => \A p \in Prios : sent.size[p] = Held(sent, p)
  <2>1. CASE h.sending = NoPacket
    <3>1. sent = over
      BY <2>1, Zenon
    <3> HIDE DEF over, sent
    <3>2. \A p \in Prios : Held(over, p) = Held(h, p)
      BY <1>3, Zenon DEF Held, InHand
    <3> QED BY <1>3, <1>4, <2>1, <3>1, <3>2, Zenon
  <2>2. CASE h.sending # NoPacket
    <3>1. PICK p \in Prios : p = h.sending.prio
      <4>1. \A x \in Packets : x.prio \in Prios
        BY Zenon DEF Packets
      <4> QED BY <1>1, <2>2, <4>1, Zenon
    <3>2. PICK s : s = h.size[p]
      BY Zenon
    <3>3. sent = [over EXCEPT !.size[p] = @ - 1, !.sending = NoPacket]
      BY <2>2, <3>1, Zenon
    <3> HIDE DEF over, sent
    <3>4. /\ DOMAIN sent = HostFields /\ sent.queue = h.queue
          /\ sent.size = [h.size EXCEPT ![p] = s - 1] /\ sent.sending = NoPacket
          /\ sent.state = h.state /\ sent.timers = h.timers - 1 /\ sent.failed = h.failed
      BY <1>3, <3>2, <3>3, Zenon DEF HostFields
    <3>5. PICK t : t = Total(Outputs, h.queue[p])
      BY Zenon
    <3>6. InHand(h, p) = 1
      BY <2>2, <3>1, Zenon DEF InHand
    <3>7. t \in Nat /\ s \in Nat /\ t + 1 <= s /\ Held(h, p) = t + 1
      BY <3>2, <3>5, <3>6, HeldIs, Zenon DEF Held
    <3>8. s - 1 \in Nat /\ t + 0 <= s - 1 /\ (s = t + 1 => s - 1 = t + 0)
      BY <3>7, SMT
    <3>9. /\ sent.size \in [Prios -> Nat] /\ sent.size[p] = s - 1
          /\ \A q \in Prios \ {p} : sent.size[q] = h.size[q]
      BY <1>1, <3>4, <3>8, Zenon
    <3>10. Held(sent, p) = t + 0
      BY <3>4, <3>5, Zenon DEF Held, InHand
    <3>11. \A q \in Prios \ {p} : Held(sent, q) = Held(h, q)
      BY <3>1, <3>4, Zenon DEF Held, InHand
    <3>12. \A q \in Prios : /\ IsFiniteSet(Cells(Outputs, sent.queue[q]))
                            /\ Held(sent, q) <= sent.size[q]
      BY <1>1, <3>4, <3>8, <3>9, <3>10, <3>11, Zenon
    <3>13. HostTyped(sent)
      <4>1. sent.timers \in Nat /\ sent.failed \in BOOLEAN
        BY <1>2, <3>4, Zenon DEF HostTyped
      <4> QED BY <1>1, <3>4, <3>9, <3>12, <4>1, Zenon DEF HostTyped
    <3>14. (\A q \in Prios : h.size[q] = Held(h, q)) =>
             \A q \in Prios : sent.size[q] = Held(sent, q)
      BY <3>2, <3>7, <3>8, <3>9, <3>10, <3>11, Zenon
    <3> QED BY <3>4, <3>13, <3>14, Zenon
  <2> QED BY <2>1, <2>2, Zenon
<1>6. /\ DOMAIN after = HostFields /\ after.queue = sent.queue /\ after.size = sent.size
      /\ after.sending = sent.sending /\ after.timers = sent.timers
      /\ after.failed = sent.failed
      /\ after.state = IF sent.state = "PAUSE_RECEIVED" THEN "PAUSED" ELSE sent.state
  <2> HIDE DEF sent
  <2> QED BY <1>5, Zenon DEF HostTyped, HostFields
<1>7. g \in IF h.state = "PAUSED" THEN {over}
            ELSE IF Busy(after) /\ after.state = "READY" THEN HostBegins(after)
            ELSE {after}
  BY Zenon DEF HostCompletes
<1> HIDE DEF over, sent, after
<1>8. /\ HostTyped(after) /\ after.sending = NoPacket /\ after.timers = h.timers - 1
      /\ after.failed = h.failed
      /\ (\A p \in Prios : h.size[p] = Held(h, p)) =>
           \A p \in Prios : after.size[p] = Held(after, p)
  <2>1. after.state \in States /\ after.timers \in Nat /\ after.failed \in BOOLEAN
    BY <1>5, <1>6, Zenon DEF HostTyped, States
  <2>2. HostTyped(after) /\ \A p \in Prios : Held(after, p) = Held(sent, p)
    BY <1>5, <1>6, <2>1, HeldOfSame, Zenon
  <2> QED BY <1>5, <1>6, <2>2, Zenon
<1>9. after.state # "PAUSE_RECEIVED"
  BY <1>6, Zenon
<1>10. HostExact(h) => /\ h.timers = 1 /\ ~h.failed /\ h.state # "PAUSED"
                       /\ \A p \in Prios : h.size[p] = Held(h, p)
  <2>1. ~(0 > 0)
    BY SMT
  <2> QED BY <2>1, Zenon DEF HostExact
<1>11. CASE h.state = "PAUSED"
  <2>1. g = over
    BY <1>7, <1>11, Zenon
  <2> QED BY <1>3, <1>4, <1>10, <1>11, <2>1, Zenon
<1>12. CASE h.state # "PAUSED" /\ Busy(after) /\ after.state = "READY"
  <2>1. g \in HostBegins(after)
    BY <1>7, <1>12, Zenon
  <2>2. /\ HostTyped(g)
        /\ /\ after.sending = NoPacket /\ ~after.failed /\ after.timers = 0
           /\ after.state = "READY"
           /\ \A p \in Prios : after.size[p] = Held(after, p)
           => HostExact(g)
    BY <1>8, <1>12, <2>1, HostBeginHolds, Zenon
  <2>3. g.state = after.state
    BY <1>8, <2>1, BeginServes, Zenon DEF HostTyped
  <2> QED BY <1>2, <1>8, <1>9, <1>10, <1>12, <2>2, <2>3, Zenon
<1>13. CASE h.state # "PAUSED" /\ ~(Busy(after) /\ after.state = "READY")
  <2>1. g = after
    BY <1>7, <1>13, Zenon
  <2>2. HostExact(h) => HostExact(after)
    <3>1. HostExact(h) => after.timers = 0
      BY <1>2, <1>8, <1>10, Zenon
    <3> QED BY <1>8, <1>10, <1>13, <3>1, Zenon DEF HostExact
  <2> QED BY <1>8, <1>9, <2>1, <2>2, Zenon
<1> QED BY <1>11, <1>12, <1>13, Zenon

\* What leaves goes to an output of the switch.
LEMMA HostLeavesFor ==
  ASSUME NEW h, HostTyped(h), HostLeaves(h) # NoPacket
  PROVE  HostLeaves(h).to \in Outputs /\ HostLeaves(h) = h.sending
<1>1. HostLeaves(h) = h.sending /\ h.sending \in Packets
  BY Zenon DEF HostLeaves, HostTyped
<1>2. \A x \in Packets : x.to \in Outputs
  BY Zenon DEF Packets
<1> QED BY <1>1, <1>2, Zenon

-----------------------------------------------------------------------------
(* The types of the queues, links and counters *)

LinkTyped(u) == wire[u] \in Seq(Outputs) /\ Len(wire[u]) <= MaxWire
IngressTyped(u) == ingress[u] \in [bytes : Int, state : {"READY", "PAUSED"}]
UplinkTyped(u) == PortTyped(uplink[u], Outputs) /\ SendsSomething(uplink[u])

TypeInv ==
  /\ DOMAIN wire = Senders /\ DOMAIN drained = Hosts
  /\ \A u \in Senders : LinkTyped(u) /\ IngressTyped(u)
  /\ \A u \in Hosts : HostTyped(host[u]) /\ drained[u] \in 0 .. MaxDrain
  /\ \A u \in Uplinks : UplinkTyped(u)
  /\ \A o \in Outputs : PortTyped(out[o], Senders)
  /\ expired \in 0 .. MaxExpired

\* A frame leaves the queues that send to the switch typed.
LEMMA TellsTyped ==
  ASSUME Maps, TypeInv, NEW u, NEW before, NEW after, Tells(u, before, after)
  PROVE  /\ \A w \in Hosts : HostTyped(host'[w])
         /\ \A w \in Uplinks : UplinkTyped(w)'
<1>1. /\ DOMAIN host = Hosts /\ DOMAIN uplink = Uplinks
      /\ \A w \in Hosts : HostTyped(host[w])
      /\ \A w \in Uplinks : UplinkTyped(w)
  BY Zenon DEF Maps, TypeInv
<1>2. ASSUME NEW w \in Hosts
      PROVE  HostTyped(host'[w])
  <2>1. \/ host' = host
        \/ host' = [host EXCEPT ![u] = HostPauses(host[u])]
        \/ \E h \in HostResumes(host[u]) : host' = [host EXCEPT ![u] = h]
    BY Zenon DEF Tells
  <2>2. \/ host'[w] = host[w] \/ host'[w] = HostPauses(host[w])
        \/ host'[w] \in HostResumes(host[w])
    BY <1>1, <2>1, Zenon
  <2>3. PICK h : h = host[w]
    BY Zenon
  <2>4. HostTyped(h)
    BY <1>1, <2>3, Zenon
  <2>5. HostTyped(HostPauses(h)) /\ \A g \in HostResumes(h) : HostTyped(g)
    BY <2>4, HostPauseHolds, HostResumeHolds, Zenon
  <2> QED BY <2>2, <2>3, <2>4, <2>5, Zenon
<1>3. ASSUME NEW w \in Uplinks
      PROVE  UplinkTyped(w)'
  <2>1. \/ uplink' = uplink
        \/ uplink' = [uplink EXCEPT ![u] = PortPauses(uplink[u])]
        \/ uplink' = [uplink EXCEPT ![u] = PortResumes(uplink[u])]
    BY Zenon DEF Tells
  <2>2. \/ uplink'[w] = uplink[w] \/ uplink'[w] = PortPauses(uplink[w])
        \/ uplink'[w] = PortResumes(uplink[w])
    BY <1>1, <2>1, Zenon
  <2>3. PICK q : q = uplink[w]
    BY Zenon
  <2>4. PortTyped(q, Outputs) /\ SendsSomething(q)
    BY <1>1, <2>3, Zenon DEF UplinkTyped
  <2>5. PortTyped(PortPauses(q), Outputs) /\ SendsSomething(PortPauses(q))
    <3>1. /\ PortTyped(PortPauses(q), Outputs) /\ PortPauses(q).sending = q.sending
          /\ PortPauses(q).enqueued = q.enqueued
      BY <2>4, PortPauseHolds, Zenon
    <3> QED BY <2>4, <3>1, Zenon DEF SendsSomething
  <2>6. PortTyped(PortResumes(q), Outputs) /\ SendsSomething(PortResumes(q))
    <3>1. /\ PortTyped(PortResumes(q), Outputs)
          /\ SendsSomething(q) => SendsSomething(PortResumes(q))
      BY <2>4, PortResumeHolds, Zenon
    <3> QED BY <2>4, <3>1, Zenon
  <2> QED BY <2>2, <2>3, <2>4, <2>5, <2>6, Zenon DEF UplinkTyped
<1> QED BY <1>2, <1>3, Zenon

\* The counter of an ingress stays a number.
LEMMA IngressStaysTyped ==
  ASSUME Maps, TypeInv, NEW u, NEW i,
         i = Filled(ingress[u]) \/ i = Drained(ingress[u]),
         ingress' = [ingress EXCEPT ![u] = i]
  PROVE  \A w \in Senders : IngressTyped(w)'
<1>1. DOMAIN ingress = Senders /\ \A w \in Senders : IngressTyped(w)
  BY Zenon DEF Maps, TypeInv
<1>2. ASSUME NEW w \in Senders, w = u
      PROVE  IngressTyped(w)'
  <2>1. ingress'[w] = i /\ ingress[u].bytes \in Int /\ ingress[u].state \in {"READY", "PAUSED"}
    BY <1>1, <1>2, Zenon DEF IngressTyped
  <2>2. PICK b : b = ingress[u].bytes
    BY Zenon
  <2>3. b + PacketSize \in Int /\ b - PacketSize \in Int
    BY <2>1, <2>2, ThresholdAssumption, SMT
  <2>4. \A n \in Int, t \in {"READY", "PAUSED"} :
          Ingress(n, t) \in [bytes : Int, state : {"READY", "PAUSED"}]
    BY Zenon DEF Ingress
  <2>5. /\ Filled(ingress[u]) \in [bytes : Int, state : {"READY", "PAUSED"}]
        /\ Drained(ingress[u]) \in [bytes : Int, state : {"READY", "PAUSED"}]
    BY <2>1, <2>2, <2>3, <2>4, Zenon DEF Filled, Drained
  <2> QED BY <2>1, <2>5, Zenon DEF IngressTyped
<1>3. ASSUME NEW w \in Senders, w # u
      PROVE  IngressTyped(w)'
  BY <1>1, <1>3, Zenon DEF IngressTyped
<1> QED BY <1>2, <1>3, Zenon

LEMMA TypeInvInit == Init => TypeInv
<1> SUFFICES ASSUME Init
             PROVE  TypeInv
  OBVIOUS
<1>1. /\ wire = [u \in Senders |-> <<>>] /\ drained = [u \in Hosts |-> 0]
      /\ ingress = [u \in Senders |-> Ingress(0, "READY")] /\ expired = 0
      /\ host = [u \in Hosts |-> NewHost] /\ uplink = [u \in Uplinks |-> NewPort]
      /\ out = [o \in Outputs |-> NewPort]
  BY Zenon DEF Init
<1>2. 0 \in 0 .. MaxDrain /\ 0 \in 0 .. MaxExpired /\ 0 \in Int
  BY PortsAssumption, SMT
<1>3. <<>> \in Seq(Outputs) /\ <<>> \in Seq(Senders) /\ Len(<<>>) = 0
  BY SMT
<1>4. \A u \in Senders : LinkTyped(u)
  <2>1. Len(<<>>) <= MaxWire
    BY <1>3, PortsAssumption, SMT
  <2> QED BY <1>1, <1>3, <2>1, Zenon DEF LinkTyped
<1>5. \A u \in Senders : IngressTyped(u)
  <2>1. Ingress(0, "READY") \in [bytes : Int, state : {"READY", "PAUSED"}]
    BY <1>2, Zenon DEF Ingress
  <2> QED BY <1>1, <1>2, <2>1, Zenon DEF IngressTyped
<1>6. \A S : <<>> \in Seq(S) => PortTyped(NewPort, S) /\ SendsSomething(NewPort)
  <2>1. /\ DOMAIN NewPort = PortFields /\ NewPort.enqueued = <<>> /\ NewPort.vq = <<>>
        /\ NewPort.sending = FALSE /\ NewPort.state = "READY"
    BY Zenon DEF NewPort, PortFields
  <2>2. Len(<<>>) <= Len(<<>>)
    BY <1>3, SMT
  <2> QED BY <2>1, <2>2, Zenon DEF PortTyped, SendsSomething, States
<1>7. HostTyped(NewHost)
  <2> DEFINE h == NewHost
             none == [o \in Outputs |-> 0]
  <2>1. /\ DOMAIN h = HostFields /\ h.queue = [p \in Prios |-> none]
        /\ h.size = [p \in Prios |-> 0] /\ h.sending = NoPacket /\ h.state = "READY"
        /\ h.timers = 0 /\ h.failed = FALSE
    BY Zenon DEF NewHost, HostFields
  <2>2. none \in [Outputs -> Nat] /\ \A o \in Outputs : none[o] = 0
    <3>1. 0 \in Nat
      BY SMT
    <3> QED BY <3>1, Zenon
  <2> HIDE DEF h, none
  <2>3. IsFiniteSet(Cells(Outputs, none)) /\ Total(Outputs, none) = 0
    BY <2>2, CellsNone, Zenon DEF Total
  <2>4. ASSUME NEW p \in Prios
        PROVE  /\ h.queue[p] = none /\ h.size[p] = 0 /\ Held(h, p) <= h.size[p]
    <3>1. h.queue[p] = none /\ h.size[p] = 0 /\ InHand(h, p) = 0
      BY <2>1, Zenon DEF InHand
    <3>2. Held(h, p) = 0 + 0
      BY <2>3, <3>1, Zenon DEF Held
    <3>3. Held(h, p) <= 0
      BY <3>2, SMT
    <3> QED BY <3>1, <3>3, Zenon
  <2>5. h.queue \in [Prios -> [Outputs -> Nat]] /\ h.size \in [Prios -> Nat] /\ 0 \in Nat
    <3>1. 0 \in Nat
      BY SMT
    <3> QED BY <2>1, <2>2, <3>1, Zenon
  <2>6. HostTyped(h)
    BY <2>1, <2>3, <2>4, <2>5, Zenon DEF HostTyped, States
  <2> QED BY <2>6, Zenon DEF h
<1>8. /\ \A u \in Hosts : HostTyped(host[u]) /\ drained[u] \in 0 .. MaxDrain
      /\ \A u \in Uplinks : UplinkTyped(u)
      /\ \A o \in Outputs : PortTyped(out[o], Senders)
  BY <1>1, <1>2, <1>3, <1>6, <1>7, Zenon DEF UplinkTyped
<1> QED BY <1>1, <1>2, <1>4, <1>5, <1>8, Zenon DEF TypeInv

\* What a step does to the links and queues it leaves alone, or changes one of.
LEMMA TypeInvStep == Maps /\ TypeInv /\ [Next]_vars => TypeInv'
<1> SUFFICES ASSUME Maps, TypeInv, [Next]_vars
             PROVE  TypeInv'
  OBVIOUS
<1>1. /\ DOMAIN host = Hosts /\ DOMAIN uplink = Uplinks /\ DOMAIN ingress = Senders
      /\ DOMAIN out = Outputs /\ DOMAIN wire = Senders /\ DOMAIN drained = Hosts
  BY Zenon DEF Maps, TypeInv
<1>2. /\ \A u \in Senders : LinkTyped(u) /\ IngressTyped(u)
      /\ \A u \in Hosts : HostTyped(host[u]) /\ drained[u] \in 0 .. MaxDrain
      /\ \A u \in Uplinks : UplinkTyped(u)
      /\ \A o \in Outputs : PortTyped(out[o], Senders)
      /\ expired \in 0 .. MaxExpired
  BY Zenon DEF TypeInv
<1>3. /\ wire' = wire => DOMAIN wire' = Senders /\ \A u \in Senders : LinkTyped(u)'
      /\ ingress' = ingress => \A u \in Senders : IngressTyped(u)'
      /\ host' = host => \A u \in Hosts : HostTyped(host'[u])
      /\ uplink' = uplink => \A u \in Uplinks : UplinkTyped(u)'
      /\ out' = out => \A o \in Outputs : PortTyped(out'[o], Senders)
      /\ drained' = drained =>
           DOMAIN drained' = Hosts /\ \A u \in Hosts : drained'[u] \in 0 .. MaxDrain
      /\ expired' = expired => expired' \in 0 .. MaxExpired
  BY <1>1, <1>2, Zenon DEF LinkTyped, IngressTyped, UplinkTyped
<1>4. ASSUME NEW u \in Hosts, NEW g, HostTyped(g), host' = [host EXCEPT ![u] = g]
      PROVE  \A w \in Hosts : HostTyped(host'[w])
  BY <1>1, <1>2, <1>4, Zenon
<1>5. ASSUME NEW u \in Uplinks, NEW g, PortTyped(g, Outputs), SendsSomething(g),
             uplink' = [uplink EXCEPT ![u] = g]
      PROVE  \A w \in Uplinks : UplinkTyped(w)'
  <2>1. uplink'[u] = g /\ \A w \in Uplinks \ {u} : uplink'[w] = uplink[w]
    BY <1>1, <1>5, Zenon
  <2> QED BY <1>2, <1>5, <2>1, Zenon DEF UplinkTyped
<1>6. ASSUME NEW o \in Outputs, NEW g, PortTyped(g, Senders), out' = [out EXCEPT ![o] = g]
      PROVE  \A w \in Outputs : PortTyped(out'[w], Senders)
  BY <1>1, <1>2, <1>6, Zenon
<1>7. ASSUME NEW u \in Senders, NEW s \in Seq(Outputs), Len(s) <= MaxWire,
             wire' = [wire EXCEPT ![u] = s]
      PROVE  DOMAIN wire' = Senders /\ \A w \in Senders : LinkTyped(w)'
  <2>1. /\ DOMAIN wire' = Senders /\ wire'[u] = s
        /\ \A w \in Senders \ {u} : wire'[w] = wire[w]
    BY <1>1, <1>7, Zenon
  <2> QED BY <1>2, <1>7, <2>1, Zenon DEF LinkTyped
\* One packet more or less on a link.
<1>8. ASSUME NEW s \in Seq(Outputs), Len(s) <= MaxWire
      PROVE  /\ Len(s) < MaxWire =>
                  \A o \in Outputs : /\ Append(s, o) \in Seq(Outputs)
                                     /\ Len(Append(s, o)) <= MaxWire
             /\ s # <<>> => /\ Tail(s) \in Seq(Outputs) /\ Len(Tail(s)) <= MaxWire
                            /\ Head(s) \in Outputs
  <2>1. MaxWire \in Nat
    BY PortsAssumption, Zenon
  <2>2. ASSUME NEW o \in Outputs
        PROVE  Append(s, o) \in Seq(Outputs) /\ Len(Append(s, o)) = Len(s) + 1
    BY SMT
  <2>3. Len(s) \in Nat
    BY SMT
  <2>4. Len(s) < MaxWire => Len(s) + 1 <= MaxWire
    BY <2>1, <2>3, SMT
  <2>5. ASSUME s # <<>>
        PROVE  Tail(s) \in Seq(Outputs) /\ Len(Tail(s)) = Len(s) - 1 /\ Head(s) \in Outputs
    BY <2>5, SMT
  <2>6. Len(s) - 1 <= MaxWire
    BY <1>8, <2>1, <2>3, SMT
  <2> QED BY <2>2, <2>4, <2>5, <2>6, Zenon
<1>9. ASSUME NEW u \in Hosts, NEW p \in Prios, NEW o \in Outputs, HostSend(u, p, o)
      PROVE  TypeInv'
  <2>1. PICK h : h = host[u]
    BY Zenon
  <2>2. PICK g \in HostEnqueues(h, p, o) : host' = [host EXCEPT ![u] = g]
    BY <1>9, <2>1, Zenon DEF HostSend
  <2>3. HostTyped(h)
    BY <1>2, <2>1, Zenon
  <2>4. HostTyped(g)
    BY <2>2, <2>3, HostEnqueueHolds, Zenon
  <2>5. /\ wire' = wire /\ ingress' = ingress /\ uplink' = uplink /\ out' = out
        /\ drained' = drained /\ expired' = expired
    BY <1>9, Zenon DEF HostSend
  <2>6. \A w \in Hosts : HostTyped(host'[w])
    BY <1>4, <2>2, <2>4, Zenon
  <2> QED BY <1>3, <2>5, <2>6, Zenon DEF TypeInv
<1>10. ASSUME NEW u \in Hosts, HostSent(u)
       PROVE  TypeInv'
  <2>1. PICK h, x : h = host[u] /\ x = HostLeaves(h)
    BY Zenon
  <2>2. /\ h.timers > 0 /\ Len(wire[u]) < MaxWire
        /\ \E g \in HostCompletes(h) : host' = [host EXCEPT ![u] = g]
        /\ wire' = [wire EXCEPT ![u] = IF x = NoPacket THEN wire[u] ELSE Append(wire[u], x.to)]
        /\ drained' = [drained EXCEPT ![u] = 0]
        /\ uplink' = uplink /\ ingress' = ingress /\ out' = out /\ expired' = expired
    BY <1>10, <2>1, Zenon DEF HostSent
  <2>3. PICK g \in HostCompletes(h) : host' = [host EXCEPT ![u] = g]
    BY <2>2, Zenon
  <2>4. HostTyped(h)
    BY <1>2, <2>1, Zenon
  <2>5. HostTyped(g)
    BY <2>2, <2>3, <2>4, HostCompleteHolds, Zenon
  <2>6. \A w \in Hosts : HostTyped(host'[w])
    BY <1>4, <2>3, <2>5, Zenon
  <2>7. PICK s : s = IF x = NoPacket THEN wire[u] ELSE Append(wire[u], x.to)
    BY Zenon
  <2>8. u \in Senders /\ wire[u] \in Seq(Outputs) /\ Len(wire[u]) <= MaxWire
    BY <1>2, Zenon DEF Senders, LinkTyped
  <2>9. x # NoPacket => x.to \in Outputs
    BY <2>1, <2>4, HostLeavesFor, Zenon
  <2>10. s \in Seq(Outputs) /\ Len(s) <= MaxWire
    BY <1>8, <2>2, <2>7, <2>8, <2>9, Zenon
  <2>11. DOMAIN wire' = Senders /\ \A w \in Senders : LinkTyped(w)'
    BY <1>7, <2>2, <2>7, <2>8, <2>10, Zenon
  <2>12. DOMAIN drained' = Hosts /\ \A w \in Hosts : drained'[w] \in 0 .. MaxDrain
    <3>1. 0 \in 0 .. MaxDrain
      BY PortsAssumption, SMT
    <3> QED BY <1>1, <1>2, <2>2, <3>1, Zenon
  <2> QED BY <1>3, <2>2, <2>6, <2>11, <2>12, Zenon DEF TypeInv
<1>11. ASSUME NEW u \in Uplinks, NEW o \in Outputs, UplinkSend(u, o)
       PROVE  TypeInv'
  <2>1. PICK q : q = uplink[u]
    BY Zenon
  <2>2. /\ uplink' = [uplink EXCEPT ![u] = PortEnqueues(q, o)]
        /\ host' = host /\ wire' = wire /\ ingress' = ingress /\ out' = out
        /\ drained' = drained /\ expired' = expired
    BY <1>11, <2>1, Zenon DEF UplinkSend
  <2>3. PortTyped(q, Outputs)
    BY <1>2, <2>1, Zenon DEF UplinkTyped
  <2>4. PortTyped(PortEnqueues(q, o), Outputs) /\ SendsSomething(PortEnqueues(q, o))
    BY <2>3, PortEnqueueHolds, Zenon
  <2>5. \A w \in Uplinks : UplinkTyped(w)'
    BY <1>5, <2>2, <2>4, Zenon
  <2> QED BY <1>2, <1>3, <2>2, <2>5, Zenon DEF TypeInv
<1>12. ASSUME NEW u \in Uplinks, UplinkSent(u)
       PROVE  TypeInv'
  <2>1. PICK q : q = uplink[u]
    BY Zenon
  <2>2. /\ q.sending /\ Len(wire[u]) < MaxWire
        /\ uplink' = [uplink EXCEPT ![u] = PortCompletes(q, {})]
        /\ wire' = [wire EXCEPT ![u] = Append(wire[u], Head(q.enqueued))]
        /\ host' = host /\ ingress' = ingress /\ out' = out
        /\ drained' = drained /\ expired' = expired
    BY <1>12, <2>1, Zenon DEF UplinkSent
  <2>3. PortTyped(q, Outputs) /\ q.enqueued # <<>>
    BY <1>2, <2>1, <2>2, Zenon DEF UplinkTyped, SendsSomething
  <2>4. PortTyped(PortCompletes(q, {}), Outputs) /\ SendsSomething(PortCompletes(q, {}))
    <3>1. {} \in SUBSET DOMAIN q.enqueued
      BY Zenon
    <3> QED BY <2>3, <3>1, PortCompleteHolds, Zenon
  <2>5. \A w \in Uplinks : UplinkTyped(w)'
    BY <1>5, <2>2, <2>4, Zenon
  <2>6. u \in Senders /\ wire[u] \in Seq(Outputs) /\ Len(wire[u]) <= MaxWire
    BY <1>2, Zenon DEF Senders, LinkTyped
  <2>7. Head(q.enqueued) \in Outputs
    <3>1. PICK s : s = q.enqueued
      BY Zenon
    <3>2. s \in Seq(Outputs) /\ s # <<>>
      BY <2>3, <3>1, Zenon DEF PortTyped
    <3>3. Head(s) \in Outputs
      BY <3>2, SMT
    <3> QED BY <3>1, <3>3, Zenon
  <2>8. DOMAIN wire' = Senders /\ \A w \in Senders : LinkTyped(w)'
    BY <1>7, <1>8, <2>2, <2>6, <2>7, Zenon
  <2> QED BY <1>2, <1>3, <2>2, <2>5, <2>8, Zenon DEF TypeInv
<1>13. ASSUME NEW u \in Senders, Arrive(u)
       PROVE  TypeInv'
  <2>1. PICK i, o : i = Filled(ingress[u]) /\ o = Head(wire[u])
    BY Zenon
  <2>2. /\ wire[u] # <<>> /\ wire' = [wire EXCEPT ![u] = Tail(wire[u])]
        /\ ingress' = [ingress EXCEPT ![u] = i]
        /\ Tells(u, ingress[u], ingress'[u])
        /\ out' = [out EXCEPT ![o] = PortEnqueues(out[o], u)]
        /\ drained' = drained /\ expired' = expired
    BY <1>13, <2>1, Zenon DEF Arrive
  <2>3. wire[u] \in Seq(Outputs) /\ Len(wire[u]) <= MaxWire
    BY <1>2, Zenon DEF LinkTyped
  <2>4. o \in Outputs /\ Tail(wire[u]) \in Seq(Outputs) /\ Len(Tail(wire[u])) <= MaxWire
    BY <1>8, <2>1, <2>2, <2>3, Zenon
  <2>5. DOMAIN wire' = Senders /\ \A w \in Senders : LinkTyped(w)'
    BY <1>7, <2>2, <2>4, Zenon
  <2>6. \A w \in Senders : IngressTyped(w)'
    BY <2>1, <2>2, IngressStaysTyped, Zenon
  <2>7. /\ \A w \in Hosts : HostTyped(host'[w])
        /\ \A w \in Uplinks : UplinkTyped(w)'
    BY <2>2, TellsTyped, Zenon
  <2>8. PortTyped(PortEnqueues(out[o], u), Senders)
    <3>1. PICK q : q = out[o]
      BY Zenon
    <3>2. PortTyped(q, Senders)
      BY <1>2, <2>4, <3>1, Zenon
    <3>3. PortTyped(PortEnqueues(q, u), Senders)
      BY <3>2, PortEnqueueHolds, Zenon
    <3> QED BY <3>1, <3>3, Zenon
  <2>9. \A w \in Outputs : PortTyped(out'[w], Senders)
    BY <1>6, <2>2, <2>4, <2>8, Zenon
  <2> QED BY <1>3, <2>2, <2>5, <2>6, <2>7, <2>9, Zenon DEF TypeInv
<1>14. ASSUME NEW o \in Outputs, OutputSent(o)
       PROVE  TypeInv'
  <2>1. PICK q, u : q = out[o] /\ u = Head(out[o].vq)
    BY Zenon
  <2>2. wire' = wire
    BY <1>14, Zenon DEF OutputSent
  <2>3. PICK late \in SUBSET DOMAIN q.enqueued :
          /\ expired + Cardinality(late) <= MaxExpired
          /\ expired' = expired + Cardinality(late)
          /\ out' = [out EXCEPT ![o] = PortCompletes(q, late)]
          /\ IF Len(out'[o].vq) = Len(out[o].vq)
             THEN UNCHANGED <<host, uplink, ingress, drained>>
             ELSE /\ (u \in Hosts /\ host[u].timers > 0) => drained[u] < MaxDrain
                  /\ drained' = IF u \in Hosts /\ host[u].timers > 0
                                THEN [drained EXCEPT ![u] = drained[u] + 1] ELSE drained
                  /\ ingress' = [ingress EXCEPT ![u] = Drained(ingress[u])]
                  /\ Tells(u, ingress[u], ingress'[u])
    BY <1>14, <2>1, Zenon DEF OutputSent
  <2>4. PortTyped(q, Senders)
    BY <1>2, <2>1, Zenon
  <2>5. PortTyped(PortCompletes(q, late), Senders)
    BY <2>4, PortCompleteHolds, Zenon
  <2>6. \A w \in Outputs : PortTyped(out'[w], Senders)
    BY <1>6, <2>3, <2>5, Zenon
  <2>7. expired' \in 0 .. MaxExpired
    <3>1. IsFiniteSet(late)
      <4>1. PICK s : s = q.enqueued
        BY Zenon
      <4>2. DOMAIN s = 1 .. Len(s) /\ Len(s) \in Nat
        <5>1. s \in Seq(Senders)
          BY <2>4, <4>1, Zenon DEF PortTyped
        <5> QED BY <5>1, SMT
      <4>3. IsFiniteSet(1 .. Len(s))
        BY <4>2, FS_Interval, SMT
      <4> QED BY <4>1, <4>2, <4>3, FS_Subset, Zenon
    <3>2. Cardinality(late) \in Nat
      BY <3>1, FS_CardinalityType, Zenon
    <3>3. PICK c : c = Cardinality(late)
      BY Zenon
    <3> QED BY <1>2, <2>3, <3>2, <3>3, PortsAssumption, SMT
  <2>8. CASE UNCHANGED <<host, uplink, ingress, drained>>
    <3>1. host' = host /\ uplink' = uplink /\ ingress' = ingress /\ drained' = drained
      BY <2>8, Zenon
    <3> QED BY <1>3, <2>2, <2>6, <2>7, <3>1, Zenon DEF TypeInv
  <2>9. CASE ~UNCHANGED <<host, uplink, ingress, drained>>
    <3>1. /\ (u \in Hosts /\ host[u].timers > 0) => drained[u] < MaxDrain
          /\ drained' = IF u \in Hosts /\ host[u].timers > 0
                        THEN [drained EXCEPT ![u] = drained[u] + 1] ELSE drained
          /\ ingress' = [ingress EXCEPT ![u] = Drained(ingress[u])]
          /\ Tells(u, ingress[u], ingress'[u])
      BY <2>3, <2>9, Zenon
    <3>2. \A w \in Senders : IngressTyped(w)'
      <4>1. PICK i : i = Drained(ingress[u])
        BY Zenon
      <4> QED BY <3>1, <4>1, IngressStaysTyped, Zenon
    <3>3. /\ \A w \in Hosts : HostTyped(host'[w])
          /\ \A w \in Uplinks : UplinkTyped(w)'
      BY <3>1, TellsTyped, Zenon
    <3>4. DOMAIN drained' = Hosts /\ \A w \in Hosts : drained'[w] \in 0 .. MaxDrain
      <4>1. CASE u \in Hosts /\ host[u].timers > 0
        <5>1. drained' = [drained EXCEPT ![u] = drained[u] + 1] /\ drained[u] < MaxDrain
              /\ drained[u] \in 0 .. MaxDrain
          BY <1>2, <3>1, <4>1, Zenon
        <5>2. drained[u] + 1 \in 0 .. MaxDrain
          BY <5>1, PortsAssumption, SMT
        <5> QED BY <1>1, <1>2, <5>1, <5>2, Zenon
      <4>2. CASE ~(u \in Hosts /\ host[u].timers > 0)
        BY <1>3, <3>1, <4>2, Zenon
      <4> QED BY <4>1, <4>2, Zenon
    <3> QED BY <1>3, <2>2, <2>6, <2>7, <3>2, <3>3, <3>4, Zenon DEF TypeInv
  <2> QED BY <2>8, <2>9, Zenon
<1>15. ASSUME NEW o \in Outputs, PausedFromBelow(o) \/ ResumedFromBelow(o)
       PROVE  TypeInv'
  <2>1. PICK q : q = out[o]
    BY Zenon
  <2>2. /\ out' = [out EXCEPT ![o] = PortPauses(q)] \/ out' = [out EXCEPT ![o] = PortResumes(q)]
        /\ host' = host /\ uplink' = uplink /\ wire' = wire /\ ingress' = ingress
        /\ drained' = drained /\ expired' = expired
    BY <1>15, <2>1, Zenon DEF PausedFromBelow, ResumedFromBelow
  <2>3. PortTyped(q, Senders)
    BY <1>2, <2>1, Zenon
  <2>4. PortTyped(PortPauses(q), Senders) /\ PortTyped(PortResumes(q), Senders)
    BY <2>3, PortPauseHolds, PortResumeHolds, Zenon
  <2>5. \A w \in Outputs : PortTyped(out'[w], Senders)
    BY <1>6, <2>2, <2>4, Zenon
  <2> QED BY <1>2, <1>3, <2>2, <2>5, Zenon DEF TypeInv
<1>16. ASSUME UNCHANGED vars
       PROVE  TypeInv'
  BY <1>2, <1>3, <1>16, Zenon DEF vars, TypeInv
<1> QED
  BY <1>9, <1>10, <1>11, <1>12, <1>13, <1>14, <1>15, <1>16, Zenon DEF Next

-----------------------------------------------------------------------------
(* What an ingress counts *)

\* The packets of u, by the output they wait for.
Holds(u) == [o \in Outputs |-> Occurrences(out[o].enqueued, u)]
Counted(u) ==
  /\ IsFiniteSet(Cells(Outputs, Holds(u)))
  /\ ingress[u].bytes = PacketSize * Total(Outputs, Holds(u))

CountInv ==
  expired = 0 => /\ \A o \in Outputs : out[o].vq = out[o].enqueued
                 /\ \A u \in Senders : Counted(u)

LEMMA CountedTheSame ==
  ASSUME NEW u, Counted(u), ingress'[u].bytes = ingress[u].bytes,
         \A o \in Outputs : Occurrences(out'[o].enqueued, u) = Occurrences(out[o].enqueued, u)
  PROVE  Counted(u)'
<1>1. Holds(u)' = Holds(u)
  BY Zenon DEF Holds
<1> QED BY <1>1, Zenon DEF Counted

\* The number of each output's packets of u is a number.
LEMMA HoldsNumbers ==
  ASSUME TypeInv, NEW u
  PROVE  Holds(u) \in [Outputs -> Nat]
<1>1. ASSUME NEW o \in Outputs
      PROVE  Occurrences(out[o].enqueued, u) \in Nat
  <2>1. out[o].enqueued \in Seq(Senders)
    BY Zenon DEF TypeInv, PortTyped
  <2> QED BY <2>1, PlacesAreFinite, Zenon
<1> QED BY <1>1, Zenon DEF Holds

\* A packet that arrives is counted by the ingress it came through only.
LEMMA CountedOneMore ==
  ASSUME TypeInv, NEW u \in Senders, Counted(u), NEW o \in Outputs,
         ingress'[u].bytes = ingress[u].bytes + PacketSize,
         out'[o].enqueued = Append(out[o].enqueued, u),
         \A w \in Outputs \ {o} : out'[w].enqueued = out[w].enqueued
  PROVE  Counted(u)'
<1>1. PICK n : n = Holds(u)
  BY Zenon
<1> DEFINE m == [n EXCEPT ![o] = n[o] + 1]
<1>2. n \in [Outputs -> Nat] /\ IsFiniteSet(Cells(Outputs, n))
      /\ ingress[u].bytes = PacketSize * Total(Outputs, n)
  BY <1>1, HoldsNumbers, Zenon DEF Counted
<1>3. Occurrences(out'[o].enqueued, u) = Occurrences(out[o].enqueued, u) + 1
  <2>1. out[o].enqueued \in Seq(Senders)
    BY Zenon DEF TypeInv, PortTyped
  <2>2. Occurrences(Append(out[o].enqueued, u), u) = Occurrences(out[o].enqueued, u) + 1
    BY <2>1, OccurrencesAppend, Zenon
  <2> QED BY <2>2, Zenon
<1>4. Holds(u)' = m
  <2>1. \A w \in Outputs : Occurrences(out'[w].enqueued, u) = m[w]
    BY <1>1, <1>3, Zenon DEF Holds
  <2>2. DOMAIN m = Outputs
    BY <1>1, Zenon DEF Holds
  <2>3. m = [w \in Outputs |-> m[w]]
    BY <2>2, Zenon
  <2> HIDE DEF m
  <2> QED BY <2>1, <2>3, Zenon DEF Holds
<1>5. /\ IsFiniteSet(Cells(Outputs, m))
      /\ Total(Outputs, n) \in Nat /\ Total(Outputs, m) = Total(Outputs, n) + 1
  BY <1>2, OneMore, Zenon
<1> HIDE DEF m
<1>6. PacketSize * (Total(Outputs, n) + 1) = PacketSize * Total(Outputs, n) + PacketSize
  BY <1>5, Multiples, Zenon
<1>7. ingress'[u].bytes = PacketSize * Total(Outputs, m)
  BY <1>2, <1>5, <1>6, Zenon
<1> QED BY <1>4, <1>5, <1>7, Zenon DEF Counted

LEMMA CountedOneLess ==
  ASSUME TypeInv, NEW u \in Senders, Counted(u), NEW o \in Outputs,
         ingress'[u].bytes = ingress[u].bytes - PacketSize,
         out[o].enqueued # <<>>, Head(out[o].enqueued) = u,
         out'[o].enqueued = Tail(out[o].enqueued),
         \A w \in Outputs \ {o} : out'[w].enqueued = out[w].enqueued
  PROVE  Counted(u)'
<1>1. PICK n : n = Holds(u)
  BY Zenon
<1> DEFINE m == [n EXCEPT ![o] = n[o] - 1]
<1>2. n \in [Outputs -> Nat] /\ IsFiniteSet(Cells(Outputs, n))
      /\ ingress[u].bytes = PacketSize * Total(Outputs, n)
  BY <1>1, HoldsNumbers, Zenon DEF Counted
<1>3. PICK s : s = out[o].enqueued
  BY Zenon
<1>4. s \in Seq(Senders) /\ s # <<>> /\ Head(s) = u
  BY <1>3, Zenon DEF TypeInv, PortTyped
<1>5. Tail(s) \in Seq(Senders)
  BY <1>4, SMT
<1>6. /\ Occurrences(Tail(s), u) = Occurrences(s, u) - 1
      /\ Occurrences(Tail(s), u) \in Nat /\ Occurrences(s, u) \in Nat
  <2>1. Occurrences(Tail(s), u) = Occurrences(s, u) - 1
    BY <1>4, OccurrencesTail, Zenon
  <2>2. Occurrences(Tail(s), u) \in Nat /\ Occurrences(s, u) \in Nat
    BY <1>4, <1>5, PlacesAreFinite, Zenon
  <2> QED BY <1>4, <2>1, <2>2, Zenon
<1>7. Occurrences(s, u) > 0
  <2>1. ASSUME NEW a \in Nat, NEW b \in Nat, b = a - 1
        PROVE  a > 0
    BY <2>1, SMT
  <2> QED BY <1>6, <2>1, Zenon
<1>8. n[o] > 0 /\ n[o] = Occurrences(s, u)
  BY <1>1, <1>3, <1>7, Zenon DEF Holds
<1>9. Holds(u)' = m
  <2>1. \A w \in Outputs : Occurrences(out'[w].enqueued, u) = m[w]
    BY <1>1, <1>3, <1>6, Zenon DEF Holds
  <2>2. DOMAIN m = Outputs
    BY <1>1, Zenon DEF Holds
  <2>3. m = [w \in Outputs |-> m[w]]
    BY <2>2, Zenon
  <2> HIDE DEF m
  <2> QED BY <2>1, <2>3, Zenon DEF Holds
<1>10. /\ IsFiniteSet(Cells(Outputs, m)) /\ Total(Outputs, m) \in Nat
       /\ Total(Outputs, n) \in Nat /\ Total(Outputs, m) = Total(Outputs, n) - 1
  BY <1>2, <1>8, OneLess, Zenon
<1> HIDE DEF m
<1>11. PICK t : t = Total(Outputs, m)
  BY Zenon
<1>12. t \in Nat /\ Total(Outputs, n) = t + 1
  BY <1>10, <1>11, SMT
<1>13. PacketSize * (t + 1) = PacketSize * t + PacketSize /\ PacketSize * t \in Nat
  BY <1>12, Multiples, Zenon
<1>14. ingress'[u].bytes = PacketSize * t
  <2>1. PICK b : b = PacketSize * t
    BY Zenon
  <2>2. ingress[u].bytes = b + PacketSize /\ b \in Nat
    BY <1>2, <1>12, <1>13, <2>1, Zenon
  <2>3. ingress'[u].bytes = b
    BY <2>2, ThresholdAssumption, SMT
  <2> QED BY <2>1, <2>3, Zenon
<1> QED BY <1>9, <1>10, <1>11, <1>14, Zenon DEF Counted

\* The packets of another sender are not counted.
LEMMA OthersUncounted ==
  ASSUME NEW s \in Seq(Senders), NEW w
  PROVE  /\ \A u \in Senders : u # w => Occurrences(Append(s, u), w) = Occurrences(s, w)
         /\ s # <<>> /\ Head(s) # w => Occurrences(Tail(s), w) = Occurrences(s, w)
<1>1. ASSUME NEW u \in Senders, u # w
      PROVE  Occurrences(Append(s, u), w) = Occurrences(s, w)
  BY <1>1, OccurrencesAppend, Zenon
<1>2. ASSUME s # <<>>, Head(s) # w
      PROVE  Occurrences(Tail(s), w) = Occurrences(s, w)
  BY <1>2, OccurrencesTail, Zenon
<1> QED BY <1>1, <1>2, Zenon

LEMMA CountInvStep == Maps /\ TypeInv /\ CountInv /\ [Next]_vars => CountInv'
<1> SUFFICES ASSUME Maps, TypeInv, CountInv, [Next]_vars, expired' = 0
             PROVE  (\A o \in Outputs : out'[o].vq = out'[o].enqueued)
                    /\ \A u \in Senders : Counted(u)'
  BY Zenon DEF CountInv
<1>1. DOMAIN out = Outputs /\ DOMAIN ingress = Senders
      /\ \A o \in Outputs : PortTyped(out[o], Senders)
  BY Zenon DEF Maps, TypeInv
\* A step that leaves what waits and the counters alone.
<1>2. ASSUME expired' = expired, \A u \in Senders : ingress'[u] = ingress[u],
             \A o \in Outputs : /\ out'[o].enqueued = out[o].enqueued
                                /\ out'[o].vq = out[o].vq
      PROVE  (\A o \in Outputs : out'[o].vq = out'[o].enqueued)
             /\ \A u \in Senders : Counted(u)'
  <2>1. /\ \A o \in Outputs : out[o].vq = out[o].enqueued
        /\ \A u \in Senders : Counted(u)
    BY <1>2, Zenon DEF CountInv
  <2>2. ASSUME NEW u \in Senders
        PROVE  Counted(u)'
    <3>1. Counted(u) /\ ingress'[u].bytes = ingress[u].bytes
      BY <1>2, <2>1, Zenon
    <3>2. \A o \in Outputs : Occurrences(out'[o].enqueued, u) = Occurrences(out[o].enqueued, u)
      BY <1>2, Zenon
    <3> QED BY <3>1, <3>2, CountedTheSame, Zenon
  <2> QED BY <1>2, <2>1, <2>2, Zenon
<1>3. ASSUME UNCHANGED <<out, ingress, expired>>
      PROVE  (\A o \in Outputs : out'[o].vq = out'[o].enqueued)
             /\ \A u \in Senders : Counted(u)'
  <2>1. out' = out /\ ingress' = ingress /\ expired' = expired
    BY <1>3, Zenon
  <2> QED BY <1>2, <2>1, Zenon
<1>4. ASSUME NEW u \in Senders, Arrive(u)
      PROVE  (\A o \in Outputs : out'[o].vq = out'[o].enqueued)
             /\ \A w \in Senders : Counted(w)'
  <2>1. PICK i, o : i = Filled(ingress[u]) /\ o = Head(wire[u])
    BY Zenon
  <2>2. PICK q : q = out[o]
    BY Zenon
  <2>3. /\ wire[u] # <<>> /\ ingress' = [ingress EXCEPT ![u] = i]
        /\ out' = [out EXCEPT ![o] = PortEnqueues(q, u)]
        /\ expired' = expired
    BY <1>4, <2>1, <2>2, Zenon DEF Arrive
  <2>4. o \in Outputs
    <3>1. PICK s : s = wire[u]
      BY Zenon
    <3>2. s \in Seq(Outputs) /\ s # <<>>
      BY <2>3, <3>1, Zenon DEF TypeInv, LinkTyped
    <3>3. Head(s) \in Outputs
      BY <3>2, SMT
    <3> QED BY <2>1, <3>1, <3>3, Zenon
  <2>5. /\ \A w \in Outputs : out[w].vq = out[w].enqueued
        /\ \A w \in Senders : Counted(w)
    BY <2>3, Zenon DEF CountInv
  <2>6. PortTyped(q, Senders)
    BY <1>1, <2>2, <2>4, Zenon
  <2>7. /\ PortEnqueues(q, u).enqueued = Append(q.enqueued, u)
        /\ PortEnqueues(q, u).vq = Append(q.vq, u)
    BY <2>6, PortEnqueueHolds, Zenon
  <2>8. /\ out'[o].enqueued = Append(out[o].enqueued, u)
        /\ out'[o].vq = Append(out[o].vq, u)
        /\ \A w \in Outputs \ {o} : out'[w] = out[w]
    BY <1>1, <2>2, <2>3, <2>4, <2>7, Zenon
  <2>9. \A w \in Outputs : out'[w].vq = out'[w].enqueued
    BY <2>4, <2>5, <2>8, Zenon
  <2>10. /\ ingress'[u].bytes = ingress[u].bytes + PacketSize
         /\ \A w \in Senders \ {u} : ingress'[w] = ingress[w]
    BY <1>1, <2>1, <2>3, IngressCounts, Zenon
  <2>11. Counted(u)'
    BY <2>4, <2>5, <2>8, <2>10, CountedOneMore, Zenon
  <2>12. ASSUME NEW w \in Senders, w # u
         PROVE  Counted(w)'
    <3>1. Occurrences(out'[o].enqueued, w) = Occurrences(out[o].enqueued, w)
      <4>1. PICK s : s = q.enqueued
        BY Zenon
      <4>2. s \in Seq(Senders)
        BY <2>6, <4>1, Zenon DEF PortTyped
      <4>3. Occurrences(Append(s, u), w) = Occurrences(s, w)
        BY <2>12, <4>2, OthersUncounted, Zenon
      <4> QED BY <2>2, <2>8, <2>12, <4>1, <4>3, Zenon
    <3>2. \A v \in Outputs : Occurrences(out'[v].enqueued, w) = Occurrences(out[v].enqueued, w)
      BY <2>8, <3>1, Zenon
    <3> QED BY <2>5, <2>10, <2>12, <3>2, CountedTheSame, Zenon
  <2> QED BY <2>9, <2>11, <2>12, Zenon
<1>5. ASSUME NEW o \in Outputs, OutputSent(o)
      PROVE  (\A w \in Outputs : out'[w].vq = out'[w].enqueued)
             /\ \A w \in Senders : Counted(w)'
  <2>1. PICK q, u : q = out[o] /\ u = Head(out[o].vq)
    BY Zenon
  <2>2. PICK late \in SUBSET DOMAIN q.enqueued :
          /\ expired' = expired + Cardinality(late)
          /\ out' = [out EXCEPT ![o] = PortCompletes(q, late)]
          /\ IF Len(out'[o].vq) = Len(out[o].vq)
             THEN UNCHANGED <<host, uplink, ingress, drained>>
             ELSE ingress' = [ingress EXCEPT ![u] = Drained(ingress[u])]
    BY <1>5, <2>1, Zenon DEF OutputSent
  <2>3. PortTyped(q, Senders)
    BY <1>1, <2>1, Zenon
  <2>4. PICK s : s = q.enqueued
    BY Zenon
  <2>5. s \in Seq(Senders)
    BY <2>3, <2>4, Zenon DEF PortTyped
  <2>6. late = {} /\ expired = 0
    <3>1. IsFiniteSet(late)
      <4>1. DOMAIN s = 1 .. Len(s) /\ Len(s) \in Nat
        BY <2>5, SMT
      <4>2. IsFiniteSet(1 .. Len(s))
        BY <4>1, FS_Interval, SMT
      <4> QED BY <2>4, <4>1, <4>2, FS_Subset, Zenon
    <3>2. PICK c : c = Cardinality(late)
      BY Zenon
    <3>3. c \in Nat
      BY <3>1, <3>2, FS_CardinalityType, Zenon
    <3>4. expired \in 0 .. MaxExpired
      BY Zenon DEF TypeInv
    <3>5. c = 0 /\ expired = 0
      BY <2>2, <3>2, <3>3, <3>4, PortsAssumption, SMT
    <3> QED BY <3>1, <3>2, <3>5, FS_EmptySet, Zenon
  <2>7. PICK g, left : g = PortCompletes(q, late) /\ left = Kept(q, late).enqueued
    BY Zenon
  <2>8. /\ \/ left = <<>> /\ g.enqueued = <<>> /\ g.vq = q.vq
           \/ /\ left # <<>> /\ q.vq # <<>>
              /\ g.enqueued = Tail(left) /\ g.vq = Tail(q.vq)
              /\ Len(g.vq) # Len(q.vq)
        /\ left = s
    <3>1. LET h == PortCompletes(q, late)
              rest == Kept(q, late).enqueued
          IN  /\ PortTyped(h, Senders) /\ SendsSomething(h)
              /\ \/ rest = <<>> /\ h.enqueued = <<>> /\ h.vq = q.vq
                 \/ /\ rest # <<>> /\ q.vq # <<>>
                    /\ h.enqueued = Tail(rest) /\ h.vq = Tail(q.vq)
                    /\ Len(h.vq) # Len(q.vq)
              /\ rest \in Seq(Senders)
              /\ late = {} => rest = q.enqueued
      BY <2>3, PortCompleteHolds, Zenon
    <3> QED BY <2>4, <2>6, <2>7, <3>1, Zenon
  <2>9. /\ out'[o] = g /\ \A w \in Outputs \ {o} : out'[w] = out[w]
    BY <1>1, <2>2, <2>7, Zenon
  <2>10. /\ \A w \in Outputs : out[w].vq = out[w].enqueued
         /\ \A w \in Senders : Counted(w)
    BY <2>6, Zenon DEF CountInv
  <2>11. q.vq = s
    BY <2>1, <2>4, <2>10, Zenon
  <2>12. CASE s = <<>>
    <3>1. g.enqueued = q.enqueued /\ g.vq = q.vq
      BY <2>4, <2>8, <2>12, Zenon
    <3>2. ingress' = ingress
      BY <2>1, <2>2, <2>9, <3>1, Zenon
    <3>3. \A w \in Outputs : out'[w].enqueued = out[w].enqueued /\ out'[w].vq = out[w].vq
      BY <2>1, <2>9, <3>1, Zenon
    <3>4. expired' = expired
      BY <2>6, Zenon
    <3> QED BY <1>2, <3>2, <3>3, <3>4, Zenon
  <2>13. CASE s # <<>>
    <3>1. g.enqueued = Tail(s) /\ g.vq = Tail(s) /\ Len(g.vq) # Len(q.vq) /\ u = Head(s)
      BY <2>1, <2>8, <2>11, <2>13, Zenon
    <3>2. ingress' = [ingress EXCEPT ![u] = Drained(ingress[u])]
      BY <2>1, <2>2, <2>9, <3>1, Zenon
    <3>3. u \in Senders
      <4>1. Head(s) \in Senders
        BY <2>5, <2>13, SMT
      <4> QED BY <3>1, <4>1, Zenon
    <3>4. /\ ingress'[u].bytes = ingress[u].bytes - PacketSize
          /\ \A w \in Senders \ {u} : ingress'[w] = ingress[w]
      BY <1>1, <3>2, <3>3, IngressCounts, Zenon
    <3>5. /\ out'[o].enqueued = Tail(out[o].enqueued) /\ out[o].enqueued = s
          /\ \A w \in Outputs \ {o} : out'[w].enqueued = out[w].enqueued
      BY <2>1, <2>4, <2>9, <3>1, Zenon
    <3>6. Counted(u)'
      BY <2>10, <2>13, <3>1, <3>3, <3>4, <3>5, CountedOneLess, Zenon
    <3>7. ASSUME NEW w \in Senders, w # u
          PROVE  Counted(w)'
      <4>1. Occurrences(Tail(s), w) = Occurrences(s, w)
        BY <2>5, <2>13, <3>1, <3>7, OthersUncounted, Zenon
      <4>2. \A v \in Outputs : Occurrences(out'[v].enqueued, w) = Occurrences(out[v].enqueued, w)
        BY <3>1, <3>5, <3>7, <4>1, Zenon
      <4> QED BY <2>10, <3>4, <3>7, <4>2, CountedTheSame, Zenon
    <3>8. \A w \in Outputs : out'[w].vq = out'[w].enqueued
      BY <2>9, <2>10, <3>1, Zenon
    <3> QED BY <3>6, <3>7, <3>8, Zenon
  <2> QED BY <2>12, <2>13, Zenon
<1>6. ASSUME NEW o \in Outputs, PausedFromBelow(o) \/ ResumedFromBelow(o)
      PROVE  (\A w \in Outputs : out'[w].vq = out'[w].enqueued)
             /\ \A w \in Senders : Counted(w)'
  <2>1. PICK q : q = out[o]
    BY Zenon
  <2>2. /\ out' = [out EXCEPT ![o] = PortPauses(q)] \/ out' = [out EXCEPT ![o] = PortResumes(q)]
        /\ ingress' = ingress /\ expired' = expired
    BY <1>6, <2>1, Zenon DEF PausedFromBelow, ResumedFromBelow
  <2>3. PortTyped(q, Senders)
    BY <1>1, <2>1, Zenon
  <2>4. /\ PortPauses(q).enqueued = q.enqueued /\ PortPauses(q).vq = q.vq
        /\ PortResumes(q).enqueued = q.enqueued /\ PortResumes(q).vq = q.vq
    BY <2>3, PortPauseHolds, PortResumeHolds, Zenon
  <2>5. \A w \in Outputs : out'[w].enqueued = out[w].enqueued /\ out'[w].vq = out[w].vq
    BY <1>1, <2>1, <2>2, <2>4, Zenon
  <2> QED BY <1>2, <2>2, <2>5, Zenon
<1>7. ASSUME NEW u, HostSent(u) \/ UplinkSent(u)
      PROVE  UNCHANGED <<out, ingress, expired>>
  BY <1>7, Zenon DEF HostSent, UplinkSent
<1>8. ASSUME NEW u, NEW p, NEW o, HostSend(u, p, o) \/ UplinkSend(u, o)
      PROVE  UNCHANGED <<out, ingress, expired>>
  BY <1>8, Zenon DEF HostSend, UplinkSend
<1>9. ASSUME UNCHANGED vars
      PROVE  UNCHANGED <<out, ingress, expired>>
  BY <1>9, Zenon DEF vars
<1> QED
  BY <1>3, <1>4, <1>5, <1>6, <1>7, <1>8, <1>9, Zenon DEF Next

LEMMA CountInvInit == Init => CountInv
<1> SUFFICES ASSUME Init
             PROVE  CountInv
  OBVIOUS
<1>1. NewPort.enqueued = <<>> /\ NewPort.vq = <<>> /\ Ingress(0, "READY").bytes = 0
  BY Zenon DEF NewPort, Ingress
<1>2. \A o \in Outputs : out[o].enqueued = <<>> /\ out[o].vq = <<>>
  BY <1>1, Zenon DEF Init
<1>3. ASSUME NEW u \in Senders
      PROVE  Counted(u)
  <2>1. ingress[u].bytes = 0
    BY <1>1, Zenon DEF Init
  <2>2. \A o \in Outputs : Holds(u)[o] = 0
    BY <1>2, OccurrencesInNone, Zenon DEF Holds
  <2>3. IsFiniteSet(Cells(Outputs, Holds(u))) /\ Total(Outputs, Holds(u)) = 0
    BY <2>2, CellsNone, Zenon DEF Total
  <2>4. 0 = PacketSize * 0
    BY ThresholdAssumption, SMT
  <2> QED BY <2>1, <2>3, <2>4, Zenon DEF Counted
<1> QED BY <1>2, <1>3, Zenon DEF CountInv

\* An ingress counts the packets that came through it and still wait in an
\* output, for any thresholds, queues and orders of events, until a packet is
\* dropped for its timeout budget.
THEOREM IngressCountsQueues == Spec => []IngressCountsTheQueues
<1>1. WakeUpInv => Maps
  BY Zenon DEF WakeUpInv
<1>2. CountInv => IngressCountsTheQueues
  BY Zenon DEF CountInv, Counted, IngressCountsTheQueues, OutputsHold, Holds
<1> QED BY <1>1, <1>2, WakeUpInvInit, WakeUpInvStep, TypeInvInit, TypeInvStep,
           CountInvInit, CountInvStep, PTL DEF Spec

\* Every queue, link and counter has its type; the counter of an ingress is
\* never negative before a packet was dropped, so no assertion on it fails.
THEOREM PortTypes == Spec => []TypeOK
<1>1. WakeUpInv => Maps
  BY Zenon DEF WakeUpInv
<1>2. WakeUpInv /\ TypeInv /\ CountInv => TypeOK
  <2> SUFFICES ASSUME WakeUpInv, TypeInv, CountInv
               PROVE  TypeOK
    OBVIOUS
  <2>1. ASSUME NEW u \in Senders
        PROVE  /\ wire[u] \in Seq(Outputs) /\ Len(wire[u]) <= MaxWire
               /\ ingress[u] \in [bytes : Int, state : {"READY", "PAUSED"}]
               /\ expired = 0 => ingress[u].bytes \in Nat
    <3>1. LinkTyped(u) /\ IngressTyped(u)
      BY Zenon DEF TypeInv
    <3>2. expired = 0 => ingress[u].bytes \in Nat
      <4> SUFFICES ASSUME expired = 0
                   PROVE  ingress[u].bytes \in Nat
        OBVIOUS
      <4>1. Counted(u)
        BY Zenon DEF CountInv
      <4>2. Total(Outputs, Holds(u)) \in Nat
        BY <4>1, FS_CardinalityType, Zenon DEF Counted, Total
      <4> QED BY <4>1, <4>2, Multiples, Zenon DEF Counted
    <3> QED BY <3>1, <3>2, Zenon DEF LinkTyped, IngressTyped
  <2>2. /\ \A u \in Hosts :
             /\ host[u].queue \in [Prios -> [Outputs -> Nat]] /\ host[u].size \in [Prios -> Nat]
             /\ host[u].sending \in [prio : Prios, to : Outputs] \union {NoPacket}
             /\ host[u].state \in States /\ host[u].timers \in Nat /\ host[u].failed \in BOOLEAN
             /\ drained[u] \in 0 .. MaxDrain
        /\ expired \in 0 .. MaxExpired
    BY Zenon DEF TypeInv, HostTyped, Packets
  <2>3. /\ \A u \in Uplinks : uplink[u].enqueued \in Seq(Outputs) /\ uplink[u].state \in States
        /\ \A o \in Outputs : out[o].enqueued \in Seq(Senders) /\ out[o].state \in States
    BY Zenon DEF TypeInv, UplinkTyped, PortTyped
  <2> QED BY <2>1, <2>2, <2>3, Zenon DEF TypeOK
<1> QED BY <1>1, <1>2, WakeUpInvInit, WakeUpInvStep, TypeInvInit, TypeInvStep,
           CountInvInit, CountInvStep, PTL DEF Spec

-----------------------------------------------------------------------------
(* What a host keeps, when the thresholds are apart enough *)

\* What can leave the switch while a host serialises a packet does not bring its
\* ingress from above the one threshold to below the other.
Spaced == Low + PacketSize * MaxDrain <= High + 1

\* What may still come from a host: the packets on its link and one for each end
\* of service it has scheduled.
HostRoom(u) ==
  /\ ingress[u].state = "READY" => ingress[u].bytes <= High
  /\ ingress[u].bytes + PacketSize * (Len(wire[u]) + host[u].timers)
       <= High + PacketSize * (MaxWire + 1)

\* A host that was told to pause and still serialises was told since it began:
\* what left its ingress since then is in `drained'.
PauseIsRecent(u) ==
  host[u].state = "PAUSE_RECEIVED" =>
    /\ host[u].sending # NoPacket
    /\ ingress[u].bytes + PacketSize * drained[u] > High

HostKept(u) == HostExact(host[u]) /\ HostRoom(u) /\ PauseIsRecent(u)
HostInv == \A u \in Hosts : HostKept(u)

LEMMA HostKeptTheSame ==
  ASSUME NEW u, HostKept(u), host'[u] = host[u], ingress'[u] = ingress[u],
         wire'[u] = wire[u], drained'[u] = drained[u]
  PROVE  HostKept(u)'
BY Zenon DEF HostKept, HostRoom, PauseIsRecent

\* Below the threshold there is room for what a host that is in order may send.
LEMMA HostReadyAfter ==
  ASSUME TypeInv', NEW u \in Hosts, HostExact(host'[u]), host'[u].state # "PAUSE_RECEIVED",
         ingress'[u].bytes <= High
  PROVE  HostKept(u)'
<1>1. PICK l, t, b : l = Len(wire'[u]) /\ t = host'[u].timers /\ b = ingress'[u].bytes
  BY Zenon
<1>2. l \in Nat /\ l <= MaxWire /\ b \in Int
  <2>1. wire'[u] \in Seq(Outputs) /\ l <= MaxWire /\ ingress'[u].bytes \in Int
    BY <1>1, Zenon DEF TypeInv, LinkTyped, IngressTyped, Senders
  <2>2. PICK s : s = wire'[u]
    BY Zenon
  <2>3. Len(s) \in Nat
    <3>1. s \in Seq(Outputs)
      BY <2>1, <2>2, Zenon
    <3> QED BY <3>1, SMT
  <2> QED BY <1>1, <2>1, <2>2, <2>3, Zenon
<1>3. t = 0 \/ t = 1
  BY <1>1, Zenon DEF HostExact
<1>4. l + t \in Nat /\ l + t <= l + 1
  BY <1>2, <1>3, SMT
<1>5. b <= High
  BY <1>1, Zenon
<1>6. b + PacketSize * (l + t) <= High + PacketSize * (MaxWire + 1)
  BY <1>2, <1>4, <1>5, RoomWhenReady, Zenon
<1> QED BY <1>1, <1>5, <1>6, Zenon DEF HostKept, HostRoom, PauseIsRecent

\* A paused host begins nothing when a packet joins its queue.
LEMMA PausedHostWaits ==
  ASSUME NEW h, DOMAIN h = HostFields, h.state # "READY", NEW p, NEW o,
         NEW g \in HostEnqueues(h, p, o)
  PROVE  g.sending = h.sending /\ g.timers = h.timers /\ g.state = h.state
<1>1. g = [h EXCEPT !.queue[p][o] = @ + 1, !.size[p] = @ + 1]
  BY Zenon DEF HostEnqueues
<1> QED BY <1>1, Zenon DEF HostFields

LEMMA KeptHostSend ==
  ASSUME WakeUpInv, TypeInv, HostInv, TypeInv', NEW u \in Hosts, NEW p \in Prios,
         NEW o \in Outputs, HostSend(u, p, o)
  PROVE  HostKept(u)'
<1>1. PICK h : h = host[u]
  BY Zenon
<1>2. PICK g \in HostEnqueues(h, p, o) : host' = [host EXCEPT ![u] = g]
  BY <1>1, Zenon DEF HostSend
<1>3. wire' = wire /\ ingress' = ingress /\ drained' = drained
  BY Zenon DEF HostSend
<1>4. host'[u] = g
  BY <1>2, Zenon DEF WakeUpInv, Maps
<1>5. HostTyped(h) /\ HostExact(h) /\ HostServes(h) /\ Agree(h, ingress[u])
      /\ HostRoom(u) /\ PauseIsRecent(u)
  BY <1>1, Zenon DEF TypeInv, WakeUpInv, HostFits, HostInv, HostKept
<1>6. HostExact(g) /\ g.state = h.state
  BY <1>2, <1>5, HostEnqueueHolds, EnqueueServes, Zenon
<1>7. CASE h.state = "READY"
  <2>1. ingress'[u].bytes <= High
    BY <1>3, <1>5, <1>7, Zenon DEF Agree, HostRoom
  <2> QED BY <1>4, <1>6, <1>7, <2>1, HostReadyAfter, Zenon
<1>8. CASE h.state # "READY"
  <2>1. DOMAIN h = HostFields
    BY <1>5, Zenon DEF HostServes
  <2>2. g.sending = h.sending /\ g.timers = h.timers /\ g.state = h.state
    BY <1>2, <1>8, <2>1, PausedHostWaits, Zenon
  <2>3. HostRoom(u)'
    BY <1>1, <1>3, <1>4, <1>5, <2>2, Zenon DEF HostRoom
  <2>4. PauseIsRecent(u)'
    BY <1>1, <1>3, <1>4, <1>5, <2>2, Zenon DEF PauseIsRecent
  <2> QED BY <1>4, <1>6, <2>3, <2>4, Zenon DEF HostKept
<1> QED BY <1>7, <1>8, Zenon

\* The packet of a paused host moves from service to the link, and no other
\* begins.
LEMMA KeptHostSent ==
  ASSUME WakeUpInv, TypeInv, HostInv, TypeInv', WakeUpInv', NEW u \in Hosts, HostSent(u)
  PROVE  HostKept(u)'
<1>1. PICK h, x : h = host[u] /\ x = HostLeaves(h)
  BY Zenon
<1>2. /\ h.timers > 0
      /\ \E g \in HostCompletes(h) : host' = [host EXCEPT ![u] = g]
      /\ wire' = [wire EXCEPT ![u] = IF x = NoPacket THEN wire[u] ELSE Append(wire[u], x.to)]
      /\ ingress' = ingress
  BY <1>1, Zenon DEF HostSent
<1>3. PICK g \in HostCompletes(h) : host' = [host EXCEPT ![u] = g]
  BY <1>2, Zenon
<1>4. /\ host'[u] = g
      /\ wire'[u] = IF x = NoPacket THEN wire[u] ELSE Append(wire[u], x.to)
  BY <1>2, <1>3, Zenon DEF WakeUpInv, Maps, TypeInv, Senders
<1>5. HostTyped(h) /\ HostExact(h) /\ Agree(h, ingress[u])
      /\ HostRoom(u) /\ PauseIsRecent(u)
  BY <1>1, Zenon DEF TypeInv, WakeUpInv, HostFits, HostInv, HostKept
<1>6. HostExact(g) /\ g.state # "PAUSE_RECEIVED" /\ HostTyped(g)
  BY <1>2, <1>3, <1>5, HostCompleteHolds, Zenon
<1>7. Agree(g, ingress[u])
  BY <1>2, <1>4, Zenon DEF WakeUpInv, HostFits
<1>8. CASE ingress[u].state = "READY"
  <2>1. ingress'[u].bytes <= High
    BY <1>2, <1>5, <1>8, Zenon DEF HostRoom
  <2> QED BY <1>4, <1>6, <2>1, HostReadyAfter, Zenon
<1>9. CASE ingress[u].state # "READY"
  <2>1. h.sending # NoPacket /\ h.timers = 1
    <3>1. ~(0 > 0)
      BY SMT
    <3> QED BY <1>2, <1>5, <3>1, Zenon DEF HostExact
  <2>2. h.state # "PAUSED"
    BY <1>5, <2>1, Zenon DEF HostExact
  <2>3. x = h.sending /\ x # NoPacket
    BY <1>1, <2>1, <2>2, Zenon DEF HostLeaves
  <2>4. g.timers = 0
    <3>1. g.state = "PAUSED"
      BY <1>6, <1>7, <1>9, Zenon DEF HostTyped, States, Agree
    <3> QED BY <1>6, <3>1, Zenon DEF HostExact
  <2>5. x.to \in Outputs
    BY <1>1, <1>5, <2>3, HostLeavesFor, Zenon
  <2>6. PICK s, e : s = wire[u] /\ e = x.to
    BY Zenon
  <2>7. s \in Seq(Outputs)
    BY <2>6, Zenon DEF TypeInv, LinkTyped, Senders
  <2>8. Len(s) \in Nat /\ Len(Append(s, e)) = Len(s) + 1
    BY <2>5, <2>6, <2>7, SMT
  <2>9. Len(wire'[u]) + host'[u].timers = Len(wire[u]) + host[u].timers
    <3>1. Len(wire'[u]) = Len(s) + 1 /\ host'[u].timers = 0 /\ host[u].timers = 1
      BY <1>1, <1>4, <2>1, <2>3, <2>4, <2>6, <2>8, Zenon
    <3>2. Len(s) + 1 + 0 = Len(s) + 1
      BY <2>8, SMT
    <3> QED BY <2>6, <3>1, <3>2, Zenon
  <2>10. HostRoom(u)'
    BY <1>2, <1>5, <2>9, Zenon DEF HostRoom
  <2>11. PauseIsRecent(u)'
    BY <1>4, <1>6, Zenon DEF PauseIsRecent
  <2> QED BY <1>4, <1>6, <2>10, <2>11, Zenon DEF HostKept
<1> QED BY <1>8, <1>9, Zenon

\* A packet of a host arrives: what was coming is counted now, and a host that is
\* told to pause while it has bytes is serialising one.
LEMMA KeptArrive ==
  ASSUME WakeUpInv, TypeInv, HostInv, NEW u \in Hosts, Arrive(u)
  PROVE  HostKept(u)'
<1>1. PICK h, i : h = host[u] /\ i = Filled(ingress[u])
  BY Zenon
<1>2. u \in Senders /\ u \notin Uplinks
  BY PortsAssumption, Zenon DEF Senders
<1>3. /\ wire[u] # <<>> /\ wire'[u] = Tail(wire[u])
      /\ ingress'[u] = i /\ drained' = drained
      /\ Tells(u, ingress[u], ingress'[u])
  <2>1. /\ wire[u] # <<>> /\ wire' = [wire EXCEPT ![u] = Tail(wire[u])]
        /\ ingress' = [ingress EXCEPT ![u] = i] /\ drained' = drained
        /\ Tells(u, ingress[u], ingress'[u])
    BY <1>1, Zenon DEF Arrive
  <2> QED BY <1>2, <2>1, Zenon DEF WakeUpInv, Maps, TypeInv
<1>4. HostTyped(h) /\ HostExact(h) /\ Agree(h, ingress[u]) /\ TwoStates(ingress[u])
      /\ HostRoom(u) /\ PauseIsRecent(u)
  BY <1>1, Zenon DEF TypeInv, WakeUpInv, HostFits, HostInv, HostKept
<1>5. PICK b, c : b = ingress[u].bytes /\ c = ingress'[u].bytes
  BY Zenon
<1>6. /\ b \in Int /\ c = b + PacketSize
      /\ i.state = IF c > High THEN "PAUSED" ELSE ingress[u].state
  <2>1. i.bytes = b + PacketSize
        /\ i.state = IF b + PacketSize > High THEN "PAUSED" ELSE ingress[u].state
    BY <1>1, <1>5, IngressCounts, Zenon
  <2>2. b \in Int
    BY <1>2, <1>5, Zenon DEF TypeInv, IngressTyped
  <2> QED BY <1>3, <1>5, <2>1, <2>2, Zenon
<1>7. PacketSize \in Nat /\ PacketSize > 0 /\ High \in Nat /\ MaxWire + 1 \in Nat
  BY ThresholdAssumption, PortsAssumption, SMT
<1>8. PICK l, t, k : l = Len(wire[u]) /\ t = h.timers /\ k = Len(wire'[u]) + t
  BY Zenon
<1>9. k \in Nat /\ l + t = k + 1
  <2>1. PICK s : s = wire[u]
    BY Zenon
  <2>2. s \in Seq(Outputs) /\ s # <<>> /\ t \in Nat
    BY <1>2, <1>3, <1>4, <1>8, <2>1, Zenon DEF TypeInv, LinkTyped, HostTyped
  <2>3. Len(s) \in Nat /\ Len(s) > 0 /\ Len(Tail(s)) = Len(s) - 1
    BY <2>2, SMT
  <2>4. l = Len(s) /\ k = Len(Tail(s)) + t
    BY <1>3, <1>8, <2>1, Zenon
  <2> QED BY <2>2, <2>3, <2>4, SMT
<1>10. PICK a, e : a = PacketSize * k /\ e = PacketSize * (MaxWire + 1)
  BY Zenon
<1>11. a \in Nat /\ e \in Nat /\ PacketSize * (l + t) = a + PacketSize
  BY <1>7, <1>9, <1>10, Multiples, Zenon
<1>12. b + (a + PacketSize) <= High + e
  BY <1>1, <1>4, <1>5, <1>8, <1>10, <1>11, Zenon DEF HostRoom
<1>13. c + a <= High + e
  BY <1>6, <1>7, <1>11, <1>12, SMT
<1>14. c > High \/ c <= High
  BY <1>6, <1>7, SMT
<1>15. ingress'[u].state = "READY" => c <= High
  BY <1>3, <1>6, <1>14, Zenon
<1>16. PICK d : d = PacketSize * drained[u]
  BY Zenon
<1>17. d \in Nat
  <2>1. drained[u] \in Nat
    <3>1. drained[u] \in 0 .. MaxDrain
      BY Zenon DEF TypeInv
    <3> QED BY <3>1, PortsAssumption, SMT
  <2> QED BY <1>16, <2>1, Multiples, Zenon
<1>18. b + d > High => c + d > High
  BY <1>6, <1>7, <1>17, SMT
<1>19. c > High => c + d > High
  BY <1>6, <1>7, <1>17, SMT
<1>20. HostRoom(u)' <=> /\ ingress'[u].state = "READY" => c <= High
                        /\ c + PacketSize * (Len(wire'[u]) + host'[u].timers) <= High + e
  BY <1>5, <1>10, Zenon DEF HostRoom
<1>21. CASE ingress[u].state = "READY" /\ ingress'[u].state = "PAUSED"
  <2>1. host' = [host EXCEPT ![u] = HostPauses(h)]
    BY <1>1, <1>3, <1>21, Zenon DEF Tells
  <2>2. PICK g : g = HostPauses(h)
    BY Zenon
  <2>3. host'[u] = g
    BY <2>1, <2>2, Zenon DEF WakeUpInv, Maps
  <2>4. /\ HostExact(g) /\ g.timers = h.timers /\ g.sending = h.sending
        /\ g.state = IF Busy(h) THEN "PAUSE_RECEIVED" ELSE "PAUSED"
    BY <1>4, <2>2, HostPauseHolds, Zenon
  <2>5. HostRoom(u)'
    BY <1>8, <1>10, <1>13, <1>20, <1>21, <2>3, <2>4, Zenon
  <2>6. c > High
    BY <1>3, <1>6, <1>21, Zenon
  <2>7. Busy(h) => h.sending # NoPacket
    BY <1>4, <1>21, Zenon DEF HostExact, Agree
  <2>8. PauseIsRecent(u)'
    BY <1>3, <1>5, <1>16, <1>19, <2>3, <2>4, <2>6, <2>7, Zenon DEF PauseIsRecent
  <2> QED BY <2>3, <2>4, <2>5, <2>8, Zenon DEF HostKept
<1>22. CASE ~(ingress[u].state = "READY" /\ ingress'[u].state = "PAUSED")
  <2>1. ~(ingress[u].state = "PAUSED" /\ ingress'[u].state = "READY")
    BY <1>3, <1>6, Zenon
  <2>2. host' = host
    BY <1>3, <1>22, <2>1, Zenon DEF Tells
  <2>3. HostRoom(u)'
    BY <1>1, <1>8, <1>10, <1>13, <1>15, <1>20, <2>2, Zenon
  <2>4. PauseIsRecent(u)'
    BY <1>3, <1>4, <1>5, <1>16, <1>18, <2>2, Zenon DEF PauseIsRecent
  <2>5. HostExact(host'[u])
    BY <1>1, <1>4, <2>2, Zenon
  <2> QED BY <2>3, <2>4, <2>5, Zenon DEF HostKept
<1> QED BY <1>21, <1>22, Zenon

\* A packet of a host leaves an output.  The host that goes on has nothing in
\* service: one that still serialises was paused too recently.
LEMMA KeptDrained ==
  ASSUME Spaced, WakeUpInv, TypeInv, TypeInv', HostInv, NEW u \in Hosts,
         wire' = wire,
         host[u].timers > 0 => drained[u] < MaxDrain,
         drained' = IF host[u].timers > 0 THEN [drained EXCEPT ![u] = drained[u] + 1]
                    ELSE drained,
         ingress' = [ingress EXCEPT ![u] = Drained(ingress[u])],
         Tells(u, ingress[u], ingress'[u])
  PROVE  HostKept(u)'
<1>1. PICK h, i : h = host[u] /\ i = Drained(ingress[u])
  BY Zenon
<1>2. u \in Senders /\ u \notin Uplinks
  BY PortsAssumption, Zenon DEF Senders
<1>3. ingress'[u] = i
  BY <1>1, <1>2, Zenon DEF WakeUpInv, Maps
<1>4. HostTyped(h) /\ HostExact(h) /\ HostServes(h) /\ Agree(h, ingress[u])
      /\ TwoStates(ingress[u]) /\ HostRoom(u) /\ PauseIsRecent(u)
  BY <1>1, Zenon DEF TypeInv, WakeUpInv, HostFits, HostInv, HostKept
<1>5. PICK b, c : b = ingress[u].bytes /\ c = ingress'[u].bytes
  BY Zenon
<1>6. /\ b \in Int /\ c = b - PacketSize
      /\ i.state = IF c < Low THEN "READY" ELSE ingress[u].state
  <2>1. i.bytes = b - PacketSize
        /\ i.state = IF b - PacketSize < Low THEN "READY" ELSE ingress[u].state
    BY <1>1, <1>5, IngressCounts, Zenon
  <2>2. b \in Int
    BY <1>2, <1>5, Zenon DEF TypeInv, IngressTyped
  <2> QED BY <1>3, <1>5, <2>1, <2>2, Zenon
<1>7. /\ PacketSize \in Nat /\ PacketSize > 0 /\ High \in Nat /\ Low \in Nat /\ High > Low
      /\ MaxDrain \in Nat
  BY ThresholdAssumption, PortsAssumption, SMT
\* What left the ingress and what it counts still exceed the threshold.
<1>8. ASSUME h.state = "PAUSE_RECEIVED"
      PROVE  /\ h.sending # NoPacket
             /\ c + PacketSize * drained'[u] > High
             /\ ~(c < Low)
  <2>1. h.sending # NoPacket /\ b + PacketSize * drained[u] > High
    BY <1>1, <1>4, <1>5, <1>8, Zenon DEF PauseIsRecent
  <2>2. h.timers = 1
    BY <1>4, <2>1, Zenon DEF HostExact
  <2>3. 1 > 0
    BY SMT
  <2>4. drained'[u] = drained[u] + 1 /\ drained[u] < MaxDrain
    BY <1>1, <2>2, <2>3, Zenon DEF TypeInv
  <2>5. drained[u] \in Nat
    <3>1. drained[u] \in 0 .. MaxDrain
      BY Zenon DEF TypeInv
    <3> QED BY <3>1, PortsAssumption, SMT
  <2>6. PICK n, d, f : /\ n = drained[u] /\ d = PacketSize * n /\ f = PacketSize * MaxDrain
    BY Zenon
  <2>7. d \in Nat /\ PacketSize * (n + 1) = d + PacketSize
    BY <2>5, <2>6, Multiples, Zenon
  <2>8. n + 1 \in Nat /\ n + 1 <= MaxDrain
    BY <1>7, <2>4, <2>5, <2>6, SMT
  <2>9. PacketSize * (n + 1) <= f /\ f \in Nat
    BY <1>7, <2>6, <2>8, Multiples, Zenon
  <2>10. b + d > High
    BY <2>1, <2>6, Zenon
  <2>11. c + (d + PacketSize) > High
    BY <1>6, <1>7, <2>7, <2>10, SMT
  <2>12. c + PacketSize * drained'[u] > High
    BY <2>4, <2>6, <2>7, <2>11, Zenon
  <2>13. Low + f <= High + 1
    BY <2>6, Zenon DEF Spaced
  <2>14. d + PacketSize <= f
    BY <2>7, <2>9, Zenon
  <2>15. ~(c < Low)
    BY <1>6, <1>7, <2>7, <2>9, <2>11, <2>13, <2>14, SMT
  <2> QED BY <2>1, <2>12, <2>15, Zenon
<1>9. CASE ingress[u].state = "PAUSED" /\ ingress'[u].state = "READY"
  <2>1. PICK g \in HostResumes(h) : host' = [host EXCEPT ![u] = g]
    <3>1. ~(ingress[u].state = "READY" /\ ingress'[u].state = "PAUSED")
      BY <1>9, Zenon
    <3> QED BY <1>1, <1>9, <3>1, Zenon DEF Tells
  <2>2. host'[u] = g
    BY <2>1, Zenon DEF WakeUpInv, Maps
  <2>3. c < Low
    BY <1>3, <1>6, <1>9, Zenon
  <2>4. h.sending = NoPacket
    <3>1. h.state # "PAUSE_RECEIVED"
      BY <1>8, <2>3, Zenon
    <3>2. h.state = "PAUSED"
      BY <1>4, <1>9, <3>1, Zenon DEF HostTyped, States, Agree
    <3> QED BY <1>4, <3>2, Zenon DEF HostExact
  <2>5. HostExact(g)
    BY <1>4, <2>1, <2>4, HostResumeHolds, Zenon
  <2>6. g.state = "READY"
    BY <1>4, <2>1, ResumeServes, Zenon
  <2>7. c <= High
    BY <1>6, <1>7, <2>3, SMT
  <2> QED BY <1>5, <2>2, <2>5, <2>6, <2>7, HostReadyAfter, Zenon
<1>10. CASE ~(ingress[u].state = "PAUSED" /\ ingress'[u].state = "READY")
  <2>1. ingress'[u].state = ingress[u].state
    BY <1>3, <1>4, <1>6, <1>10, Zenon DEF TwoStates
  <2>2. host' = host
    BY <1>10, <2>1, Zenon DEF Tells
  <2>3. PICK a, e : /\ a = PacketSize * (Len(wire[u]) + h.timers)
                    /\ e = PacketSize * (MaxWire + 1)
    BY Zenon
  <2>4. a \in Nat /\ e \in Nat
    <3>1. Len(wire[u]) + h.timers \in Nat
      <4>1. PICK s, t : s = wire[u] /\ t = h.timers
        BY Zenon
      <4>2. s \in Seq(Outputs) /\ t \in Nat
        BY <1>2, <1>4, <4>1, Zenon DEF TypeInv, LinkTyped, HostTyped
      <4>3. Len(s) + t \in Nat
        BY <4>2, SMT
      <4> QED BY <4>1, <4>3, Zenon
    <3>2. MaxWire + 1 \in Nat
      BY PortsAssumption, SMT
    <3> QED BY <2>3, <3>1, <3>2, Multiples, Zenon
  <2>5. b + a <= High + e
    BY <1>1, <1>4, <1>5, <2>3, Zenon DEF HostRoom
  <2>6. c + a <= High + e /\ (b <= High => c <= High)
    BY <1>6, <1>7, <2>4, <2>5, SMT
  <2>7. ingress'[u].state = "READY" => c <= High
    BY <1>4, <1>5, <2>1, <2>6, Zenon DEF HostRoom
  <2>8. HostRoom(u)'
    BY <1>1, <1>5, <2>2, <2>3, <2>6, <2>7, Zenon DEF HostRoom
  <2>9. PauseIsRecent(u)'
    BY <1>1, <1>5, <1>8, <2>2, Zenon DEF PauseIsRecent
  <2>10. HostExact(host'[u])
    BY <1>1, <1>4, <2>2, Zenon
  <2> QED BY <2>8, <2>9, <2>10, Zenon DEF HostKept
<1> QED BY <1>9, <1>10, Zenon

LEMMA HostInvStep ==
  ASSUME Spaced
  PROVE  WakeUpInv /\ TypeInv /\ HostInv /\ [Next]_vars => HostInv'
<1> SUFFICES ASSUME WakeUpInv, TypeInv, HostInv, [Next]_vars
             PROVE  HostInv'
  OBVIOUS
<1>1. WakeUpInv' /\ TypeInv'
  BY WakeUpInvStep, TypeInvStep, Zenon DEF WakeUpInv
<1>2. /\ DOMAIN host = Hosts /\ DOMAIN ingress = Senders /\ DOMAIN wire = Senders
      /\ DOMAIN drained = Hosts /\ \A u \in Hosts : HostKept(u) /\ u \in Senders
  BY Zenon DEF WakeUpInv, Maps, TypeInv, HostInv, Senders
\* A step that leaves the other hosts and their links alone.
<1>3. ASSUME NEW v,
             \A u \in Hosts \ {v} : /\ host'[u] = host[u] /\ ingress'[u] = ingress[u]
                                    /\ wire'[u] = wire[u] /\ drained'[u] = drained[u],
             v \in Hosts => HostKept(v)'
      PROVE  HostInv'
  <2>1. \A u \in Hosts \ {v} : HostKept(u)'
    BY <1>2, <1>3, HostKeptTheSame, Zenon
  <2> QED BY <1>3, <2>1, Zenon DEF HostInv
<1>4. ASSUME UNCHANGED <<host, ingress, wire, drained>>
      PROVE  HostInv'
  <2>1. host' = host /\ ingress' = ingress /\ wire' = wire /\ drained' = drained
    BY <1>4, Zenon
  <2>2. \A u \in Hosts : HostKept(u)'
    BY <1>2, <2>1, HostKeptTheSame, Zenon
  <2> QED BY <2>2, Zenon DEF HostInv
<1>5. ASSUME NEW v, UNCHANGED <<host, ingress, drained>>, v \notin Hosts,
             NEW s, wire' = [wire EXCEPT ![v] = s]
      PROVE  HostInv'
  <2>1. host' = host /\ ingress' = ingress /\ drained' = drained
    BY <1>5, Zenon
  <2>2. \A u \in Hosts \ {v} : wire'[u] = wire[u]
    BY <1>2, <1>5, Zenon
  <2> QED BY <1>3, <1>5, <2>1, <2>2, Zenon
\* An ingress tells its sender: what the other hosts see.
<1>6. ASSUME NEW v, NEW a, ingress' = [ingress EXCEPT ![v] = a],
             Tells(v, ingress[v], ingress'[v])
      PROVE  \A u \in Hosts \ {v} : host'[u] = host[u] /\ ingress'[u] = ingress[u]
  <2>1. \/ host' = host
        \/ host' = [host EXCEPT ![v] = HostPauses(host[v])]
        \/ \E h \in HostResumes(host[v]) : host' = [host EXCEPT ![v] = h]
    BY <1>6, Zenon DEF Tells
  <2>2. \A u \in Hosts \ {v} : host'[u] = host[u]
    BY <1>2, <2>1, Zenon
  <2>3. \A u \in Hosts \ {v} : ingress'[u] = ingress[u]
    BY <1>2, <1>6, Zenon
  <2> QED BY <2>2, <2>3, Zenon
<1>7. ASSUME NEW v \in Hosts, NEW p \in Prios, NEW o \in Outputs, HostSend(v, p, o)
      PROVE  HostInv'
  <2>1. HostKept(v)'
    BY <1>1, <1>7, KeptHostSend, Zenon
  <2>2. PICK g : host' = [host EXCEPT ![v] = g]
    BY <1>7, Zenon DEF HostSend
  <2>3. ingress' = ingress /\ wire' = wire /\ drained' = drained
    BY <1>7, Zenon DEF HostSend
  <2>4. \A u \in Hosts \ {v} : host'[u] = host[u]
    BY <1>2, <2>2, Zenon
  <2> QED BY <1>3, <2>1, <2>3, <2>4, Zenon
<1>8. ASSUME NEW v \in Hosts, HostSent(v)
      PROVE  HostInv'
  <2>1. HostKept(v)'
    BY <1>1, <1>8, KeptHostSent, Zenon
  <2>2. PICK x : x = HostLeaves(host[v])
    BY Zenon
  <2>3. /\ \E g \in HostCompletes(host[v]) : host' = [host EXCEPT ![v] = g]
        /\ wire' = [wire EXCEPT ![v] = IF x = NoPacket THEN wire[v] ELSE Append(wire[v], x.to)]
        /\ drained' = [drained EXCEPT ![v] = 0]
        /\ ingress' = ingress
    BY <1>8, <2>2, Zenon DEF HostSent
  <2>4. \A u \in Hosts \ {v} : host'[u] = host[u] /\ drained'[u] = drained[u]
    BY <1>2, <2>3, Zenon
  <2>5. \A u \in Hosts \ {v} : wire'[u] = wire[u] /\ ingress'[u] = ingress[u]
    BY <1>2, <2>3, Zenon
  <2> QED BY <1>3, <2>1, <2>4, <2>5, Zenon
<1>9. ASSUME NEW v \in Uplinks, NEW o \in Outputs, UplinkSend(v, o)
      PROVE  HostInv'
  BY <1>4, <1>9, Zenon DEF UplinkSend
<1>10. ASSUME NEW v \in Uplinks, UplinkSent(v)
       PROVE  HostInv'
  <2>1. v \notin Hosts
    BY PortsAssumption, Zenon
  <2> QED BY <1>5, <1>10, <2>1, Zenon DEF UplinkSent
<1>11. ASSUME NEW v \in Senders, Arrive(v)
       PROVE  HostInv'
  <2>1. v \in Hosts => HostKept(v)'
    BY <1>11, KeptArrive, Zenon
  <2>2. /\ wire' = [wire EXCEPT ![v] = Tail(wire[v])] /\ drained' = drained
        /\ ingress' = [ingress EXCEPT ![v] = Filled(ingress[v])]
        /\ Tells(v, ingress[v], ingress'[v])
    BY <1>11, Zenon DEF Arrive
  <2>3. \A u \in Hosts \ {v} : host'[u] = host[u] /\ ingress'[u] = ingress[u]
    BY <1>6, <2>2, Zenon
  <2>4. \A u \in Hosts \ {v} : wire'[u] = wire[u] /\ drained'[u] = drained[u]
    BY <1>2, <2>2, Zenon
  <2> QED BY <1>3, <2>1, <2>3, <2>4, Zenon
<1>12. ASSUME NEW o \in Outputs, OutputSent(o)
       PROVE  HostInv'
  <2>1. wire' = wire
    BY <1>12, Zenon DEF OutputSent
  <2>2. CASE UNCHANGED <<host, uplink, ingress, drained>>
    BY <1>4, <2>1, <2>2, Zenon
  <2>3. CASE ~UNCHANGED <<host, uplink, ingress, drained>>
    <3>1. PICK v : v = Head(out[o].vq)
      BY Zenon
    <3>2. /\ (v \in Hosts /\ host[v].timers > 0) => drained[v] < MaxDrain
          /\ drained' = IF v \in Hosts /\ host[v].timers > 0
                        THEN [drained EXCEPT ![v] = drained[v] + 1] ELSE drained
          /\ ingress' = [ingress EXCEPT ![v] = Drained(ingress[v])]
          /\ Tells(v, ingress[v], ingress'[v])
      BY <1>12, <2>3, <3>1, Zenon DEF OutputSent
    <3>3. \A u \in Hosts \ {v} : host'[u] = host[u] /\ ingress'[u] = ingress[u]
      BY <1>6, <3>2, Zenon
    <3>4. \A u \in Hosts \ {v} : wire'[u] = wire[u] /\ drained'[u] = drained[u]
      BY <1>2, <2>1, <3>2, Zenon
    <3>5. ASSUME v \in Hosts
          PROVE  HostKept(v)'
      <4>1. /\ host[v].timers > 0 => drained[v] < MaxDrain
            /\ drained' = IF host[v].timers > 0 THEN [drained EXCEPT ![v] = drained[v] + 1]
                          ELSE drained
        BY <3>2, <3>5, Zenon
      <4> QED BY <1>1, <2>1, <3>2, <3>5, <4>1, KeptDrained, Zenon
    <3> QED BY <1>3, <3>3, <3>4, <3>5, Zenon
  <2> QED BY <2>2, <2>3, Zenon
<1>13. ASSUME NEW o \in Outputs, PausedFromBelow(o) \/ ResumedFromBelow(o)
       PROVE  HostInv'
  BY <1>4, <1>13, Zenon DEF PausedFromBelow, ResumedFromBelow
<1>14. ASSUME UNCHANGED vars
       PROVE  HostInv'
  BY <1>4, <1>14, Zenon DEF vars
<1> QED
  BY <1>7, <1>8, <1>9, <1>10, <1>11, <1>12, <1>13, <1>14, Zenon DEF Next

LEMMA HostInvInit == Init => HostInv
<1> SUFFICES ASSUME Init, NEW u \in Hosts
             PROVE  HostKept(u)
  BY Zenon DEF HostInv
<1> DEFINE h == NewHost
           none == [o \in Outputs |-> 0]
<1>1. /\ h.queue = [p \in Prios |-> none] /\ h.size = [p \in Prios |-> 0]
      /\ h.sending = NoPacket /\ h.state = "READY" /\ h.timers = 0 /\ h.failed = FALSE
  BY Zenon DEF NewHost
<1>2. /\ host[u] = h /\ ingress[u] = Ingress(0, "READY") /\ wire[u] = <<>>
  BY Zenon DEF Init, Senders
<1> HIDE DEF h
<1>3. \A p \in Prios : h.size[p] = Held(h, p)
  <2> SUFFICES ASSUME NEW p \in Prios
               PROVE  h.size[p] = Held(h, p)
    BY Zenon
  <2>1. Total(Outputs, none) = 0
    <3>1. \A o \in Outputs : none[o] = 0
      BY Zenon
    <3> HIDE DEF none
    <3> QED BY <3>1, CellsNone, Zenon DEF Total
  <2> HIDE DEF none
  <2>2. Held(h, p) = 0 + 0
    BY <1>1, <2>1, Zenon DEF Held, InHand
  <2>3. 0 + 0 = 0
    BY SMT
  <2> QED BY <1>1, <2>2, <2>3, Zenon
<1>4. ~Busy(h)
  <2>1. ~(0 > 0)
    BY SMT
  <2> QED BY <1>1, <2>1, Zenon DEF Busy
<1>5. HostExact(h)
  BY <1>1, <1>3, <1>4, Zenon DEF HostExact
<1>6. HostRoom(u)
  <2>1. ingress[u].bytes = 0
    <3>1. Ingress(0, "READY").bytes = 0
      BY Zenon DEF Ingress
    <3> QED BY <1>2, <3>1, Zenon
  <2>2. 0 <= High /\ 0 \in Int /\ 0 \in Nat /\ 0 <= MaxWire /\ 0 <= 0 + 1
    BY ThresholdAssumption, PortsAssumption, SMT
  <2>3. 0 + PacketSize * 0 <= High + PacketSize * (MaxWire + 1)
    BY <2>2, RoomWhenReady, Zenon
  <2>4. Len(wire[u]) + host[u].timers = 0
    <3>1. Len(<<>>) = 0 /\ 0 + 0 = 0
      BY SMT
    <3> QED BY <1>1, <1>2, <3>1, Zenon
  <2> QED BY <2>1, <2>2, <2>3, <2>4, Zenon DEF HostRoom
<1>7. PauseIsRecent(u)
  BY <1>1, <1>2, Zenon DEF PauseIsRecent
<1> QED BY <1>2, <1>5, <1>6, <1>7, Zenon DEF HostKept

\* A host keeps its packets: whatever the order of packets, pauses and resumes,
\* its counters are what waits and what is in service, the end of one service at
\* most is scheduled, and beginService() finds the packet it asserts.
THEOREM HostsKeepTheirPackets ==
  ASSUME Spaced
  PROVE  Spec => []HostKeepsItsPackets
<1>1. WakeUpInv => Maps
  BY Zenon DEF WakeUpInv
<1>2. HostInv => HostKeepsItsPackets
  <2> SUFFICES ASSUME HostInv, NEW u \in Hosts
               PROVE  LET h == host[u] IN
                        /\ ~h.failed
                        /\ h.timers = IF h.sending = NoPacket THEN 0 ELSE 1
                        /\ \A p \in Prios :
                             h.size[p] = Total(Outputs, h.queue[p])
                                         + (IF h.sending # NoPacket /\ h.sending.prio = p
                                            THEN 1 ELSE 0)
    BY Zenon DEF HostKeepsItsPackets
  <2>1. HostExact(host[u])
    BY Zenon DEF HostInv, HostKept
  <2> QED BY <2>1, Zenon DEF HostExact, Held, InHand
<1> QED BY <1>1, <1>2, WakeUpInvInit, WakeUpInvStep, TypeInvInit, TypeInvStep,
           HostInvInit, HostInvStep, PTL DEF Spec

\* What an ingress counts and what may still come to it fits the threshold, the
\* packets its link holds and one in service, for every host and other switch.
THEOREM HeadroomIsEnough ==
  ASSUME Spaced
  PROVE  Spec => []HeadroomSuffices
<1>1. WakeUpInv => Maps
  BY Zenon DEF WakeUpInv
<1>2. HostInv /\ (\A u \in Uplinks : Headroom(u)) => HeadroomSuffices
  <2> SUFFICES ASSUME HostInv, \A u \in Uplinks : Headroom(u), NEW u \in Hosts
               PROVE  Headroom(u)
    BY Zenon DEF HeadroomSuffices, Senders
  <2>1. HostRoom(u)
    BY Zenon DEF HostInv, HostKept
  <2> QED BY <2>1, Zenon DEF Headroom, InService, HostRoom
<1> QED BY <1>1, <1>2, UplinkHeadroom, WakeUpInvInit, WakeUpInvStep, TypeInvInit,
           TypeInvStep, HostInvInit, HostInvStep, PTL DEF Spec

=============================================================================
