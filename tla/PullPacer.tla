----------------------------- MODULE PullPacer ------------------------------
(***************************************************************************)
(* The pacer of a receiving host (NdpPullPacer, fattree/sim/ndp.cpp): all  *)
(* flows that end at the host share it, and it is to let one pull go every *)
(* DrainTime, the time the link needs for the packet the pull asks for.    *)
(*                                                                         *)
(* The sinks are abstracted to what the pacer sees of them: a packet that  *)
(* is answered, the packet that completes a flow, a request to send.       *)
(* Pulls are values of a small set.                                        *)
(***************************************************************************)
EXTENDS PrioPullQueue, Counting

CONSTANTS Pulls,
          DrainTime,   \* _packet_drain_time, in ticks
          MaxQueued    \* bound: pulls that wait at a time

ASSUME PacerAssumption == DrainTime \in Nat \ {0} /\ MaxQueued \in Nat /\ NoItem \notin Pulls

VARIABLES
  since,       \* now - _last_pull, at most DrainTime: more makes no difference
  never,       \* _last_pull = 0: no pull was sent yet
  timers,      \* timers[t]: events of the pacer the event list holds for t ticks from now
  closed,      \* the flows whose sink has seen everything
  overtaken    \* history: the flows served while a flow waits for its turn

vars == <<queueVars, since, never, timers, closed, overtaken>>

Arm(ts, t) == [ts EXCEPT ![t] = @ + 1]
Due == timers[0] > 0

Empty == pull_count = 0
Waits(f) == f \in DOMAIN queue_map /\ queue_map[f].count > 0
Rivals(f) == {g \in Flows \ {f} : Waits(g) /\ Priority[g] = Priority[f]}

-----------------------------------------------------------------------------
\* sendPacket(), the answer goes out at once and carries the pull.
SendsAtOnce == Empty /\ since >= DrainTime
JustSent == since' = 0 /\ never' = FALSE

\* sendPacket(), the pull has to wait: with nothing queued before it, it needs
\* a timer.
ArmedAlways == Arm(timers, DrainTime - since)
Armed == IF Empty THEN Arm(timers, DrainTime - since) ELSE timers

\* NdpSink::receivePacket() of a packet or a header that leaves the flow open.
Answer(f, p) ==
  /\ f \notin closed
  /\ \/ SendsAtOnce /\ JustSent /\ UNCHANGED <<queueVars, timers>>
     \/ /\ ~SendsAtOnce /\ pull_count < MaxQueued
        /\ enqueue(f, p)
        /\ timers' = Armed
        /\ UNCHANGED <<since, never>>
  /\ UNCHANGED <<closed, overtaken>>

\* NdpSink::receivePacket() of the packet that completes the flow: the answer
\* goes through sendPacket(), and release_pulls() drops all pulls of the flow,
\* the one just queued included.  The timer stays.
Complete(f) ==
  /\ f \notin closed
  /\ closed' = closed \union {f}
  /\ flush_flow(f)
  /\ IF SendsAtOnce THEN JustSent /\ UNCHANGED timers
     ELSE timers' = Armed /\ UNCHANGED <<since, never>>
  /\ overtaken' = [overtaken EXCEPT ![f] = {}]

\* process_request_to_send(): enqueue_pull() with one grant.
ShouldTx == Empty /\ (never \/ since >= DrainTime)
ShouldSchedule == Empty /\ since < DrainTime
RequestToSend(f, p) ==
  /\ f \notin closed /\ pull_count < MaxQueued
  /\ enqueue(f, p)
  /\ timers' = CASE ShouldTx -> Arm(timers, 0)
                 [] ~ShouldTx /\ ShouldSchedule -> Arm(timers, DrainTime - since)
                 [] OTHER -> timers
  /\ UNCHANGED <<since, never, closed, overtaken>>

\* doNextEvent(): one pull is sent, and the timer is set again when more wait.
Fired == [timers EXCEPT ![0] = @ - 1]
RearmedNever == Fired
Rearmed == IF pull_count > 1 THEN Arm(Fired, DrainTime) ELSE Fired

TimerOfNobody ==
  /\ Due /\ Empty
  /\ timers' = Fired
  /\ UNCHANGED <<queueVars, since, never, closed, overtaken>>

SendPull(f) ==
  /\ Due /\ ~Empty
  /\ dequeue(f)
  /\ JustSent
  /\ timers' = Rearmed
  /\ overtaken' = [g \in Flows |-> IF g = f THEN {}
                                   ELSE IF g \in Rivals(f) THEN overtaken[g] \union {f}
                                   ELSE overtaken[g]]
  /\ UNCHANGED closed

\* Time goes on when no event is due.
Tick ==
  /\ ~Due
  /\ timers' = [t \in 0..DrainTime |-> IF t = DrainTime THEN 0 ELSE timers[t + 1]]
  /\ since' = IF since < DrainTime THEN since + 1 ELSE since
  /\ UNCHANGED <<queueVars, never, closed, overtaken>>

Init ==
  /\ InitQueue
  /\ since \in 0..DrainTime /\ never = TRUE
  /\ timers = [t \in 0..DrainTime |-> 0]
  /\ closed = {}
  /\ overtaken = [f \in Flows |-> {}]

Next ==
  \/ \E f \in Flows, p \in Pulls : Answer(f, p) \/ RequestToSend(f, p)
  \/ \E f \in Flows : Complete(f) \/ SendPull(f)
  \/ TimerOfNobody
  \/ Tick

\* The event list runs every event that is due, and time goes on.
Spec == Init /\ [][Next]_vars /\ WF_vars(Tick) /\ WF_vars(TimerOfNobody)
             /\ WF_vars(\E f \in Flows : SendPull(f))

-----------------------------------------------------------------------------
(* Properties *)

\* The pacer's variables have their types.
TypeOK ==
  /\ \A f \in Flows : Waits(f) => Contents(queue_map[f]) \in Seq(Pulls)
  /\ prio_counts \in [Priorities -> Nat] /\ pull_count \in 0..MaxQueued
  /\ since \in 0..DrainTime /\ never \in BOOLEAN
  /\ timers \in [0..DrainTime -> Nat]
  /\ closed \subseteq Flows /\ overtaken \in [Flows -> SUBSET Flows]

\* self_check() (priopullqueue.cpp): the counters agree with the queues, and
\* an iterator is at the end or at a queue that is still in the map.  The loop
\* of dequeue() ends only because of it: it goes round until it meets a queue
\* that holds a pull.
Queued(fs) == UNION {{f} \X (1..queue_map[f].count) : f \in fs}
QueuesAgree ==
  /\ \A p \in Priorities : /\ prio_counts[p] = Cardinality(Queued(Keys(p)))
                           /\ current_queue[p] \in Keys(p) \union {End}
  /\ pull_count = Cardinality(Queued({f \in Flows : Waits(f)}))

\* Pulls that wait never wait for a timer nobody has set, nor for longer than
\* one DrainTime after the last pull.
SomeTimerIsSet ==
  ~Empty => \E t \in 0..DrainTime : timers[t] > 0 /\ t <= DrainTime - since

\* A flow that completes leaves at most one timer behind for the others, so no
\* more pulls than this go out at one instant.
TimersBounded == Total(0..DrainTime, timers) <= 1 + Cardinality(closed)

\* The timer sends two pulls at least DrainTime apart ("pace out it's PULL
\* packets", ndp.cpp:2144) as long as no flow has completed.
SendsPulls == \E f \in Flows : SendPull(f)
PacedUntilCompletion == [][SendsPulls /\ closed = {} => never \/ since = DrainTime]_vars

\* A receiver of the first priority is not starved: while its pulls wait, they
\* keep being sent.
PullsGetOut ==
  \A f \in Flows : (\A g \in Flows : Priority[f] <= Priority[g]) =>
    ([]<>~Waits(f) \/ []<><<SendPull(f)>>_vars)

\* The queue keeps the promise of FairPulls: each ring is the sequence of its
\* flow's pulls, across growth and wrap-around, and nobody of the same
\* priority is served twice while another one waits.
Abstract == INSTANCE FairPulls WITH
  waiting <- [f \in Flows |-> IF f \in DOMAIN queue_map THEN Contents(queue_map[f])
                              ELSE <<>>]
ImplementsFairPulls == Abstract!Spec
=============================================================================
