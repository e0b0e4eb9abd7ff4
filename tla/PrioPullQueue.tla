--------------------------- MODULE PrioPullQueue ----------------------------
(***************************************************************************)
(* The pulls a receiver still has to send, by priority and flow            *)
(* (fattree/sim/priopullqueue.cpp).  Within a priority the flows take      *)
(* turns: an iterator of the map of their queues remembers whose turn it   *)
(* is.  With a single priority this is FairPullQueue                       *)
(* (fattree/sim/fairpullqueue.cpp).                                        *)
(*                                                                         *)
(* Flows are numbered as std::map orders their ids, so an iterator is the  *)
(* number of a flow, or End.                                               *)
(***************************************************************************)
EXTENDS CircularBuffer, FiniteSetsExt

CONSTANTS NFlows,
          Priority    \* of the receiver of each flow; the lowest goes first

Flows == 1..NFlows
End   == NFlows + 1
Priorities == {Priority[f] : f \in Flows}

ASSUME FlowsAssumption == NFlows \in Nat \ {0} /\ Priority \in [Flows -> Nat]

VARIABLES
  queue_map,       \* _prio_queue_map: the ring of each flow that has one
  current_queue,   \* _current_queue_map: an iterator for each priority
  prio_counts,     \* _prio_counts: pulls of each priority
  pull_count       \* _pull_count

queueVars == <<queue_map, current_queue, prio_counts, pull_count>>

Keys(p)     == {f \in DOMAIN queue_map : Priority[f] = p}
NonEmpty(p) == {f \in Keys(p) : queue_map[f].count > 0}

\* Iterators: the first key that is not before i, and ++ from the key f.
Seek(keys, i) == Min({k \in keys : k >= i} \union {End})
After(p, f)   == Seek(Keys(p), f + 1)

InitQueue ==
  /\ queue_map = [f \in {} |-> NewBuffer]
  /\ current_queue = [p \in Priorities |-> End]
  /\ prio_counts = [p \in Priorities |-> 0]
  /\ pull_count = 0

enqueue(f, pull) ==
  LET ring == IF f \in DOMAIN queue_map THEN queue_map[f] ELSE NewBuffer
  IN  /\ queue_map' = [g \in DOMAIN queue_map \union {f} |->
                         IF g = f THEN push(ring, pull) ELSE queue_map[g]]
      /\ prio_counts' = [prio_counts EXCEPT ![Priority[f]] = @ + 1]
      /\ pull_count' = pull_count + 1
      /\ UNCHANGED current_queue

\* The flow dequeue() serves: the next one in the round that has a pull, from
\* the first priority that has one.
TopPriority == Min({p \in Priorities : prio_counts[p] > 0})
TurnFromBegin == Seek(NonEmpty(TopPriority), 1)
Turn ==
  LET ahead == Seek(NonEmpty(TopPriority), current_queue[TopPriority])
  IN  IF ahead = End THEN Seek(NonEmpty(TopPriority), 1) ELSE ahead

dequeue(f) ==
  /\ f = Turn
  /\ queue_map' = [queue_map EXCEPT ![f] = pop(@)]
  /\ current_queue' = [current_queue EXCEPT ![Priority[f]] = After(Priority[f], f)]
  /\ prio_counts' = [prio_counts EXCEPT ![Priority[f]] = @ - 1]
  /\ pull_count' = pull_count - 1

\* flush_flow(): the iterator moves on when its queue is erased.
MovedNowhere(f) == current_queue[Priority[f]]
MovedOn(f) == IF current_queue[Priority[f]] = f THEN After(Priority[f], f)
              ELSE current_queue[Priority[f]]
Flushed(f) == IF f \in DOMAIN queue_map THEN queue_map[f].count ELSE 0
flush_flow(f) ==
  /\ queue_map' = [g \in DOMAIN queue_map \ {f} |-> queue_map[g]]
  /\ current_queue' = [current_queue EXCEPT ![Priority[f]] = MovedOn(f)]
  /\ prio_counts' = [prio_counts EXCEPT ![Priority[f]] = @ - Flushed(f)]
  /\ pull_count' = pull_count - Flushed(f)
=============================================================================
