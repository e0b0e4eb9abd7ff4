--------------------------- MODULE CircularBuffer ---------------------------
(***************************************************************************)
(* The resizable ring the queues of the simulator keep their packets in    *)
(* (fattree/sim/circular_buffer.h).  It doubles when it would become full, *)
(* and never shrinks.                                                      *)
(***************************************************************************)
EXTENDS Integers, Sequences

CONSTANTS InitialSize,   \* 256 in the code
          NoItem         \* a slot nothing was stored in yet

ASSUME InitialSizeAssumption == InitialSize \in Nat \ {0}

NewBuffer ==
  [queue |-> [i \in 0 .. InitialSize - 1 |-> NoItem],
   next_push |-> 0, next_pop |-> 0, count |-> 0, size |-> InitialSize]

\* push(): the ring doubles before its last free slot is used.  Elements that
\* wrapped around, in the slots before next_push, move behind the old end.
PushMovesNothing(b, item) ==
  LET grows == b.count + 1 = b.size
      size  == IF grows THEN 2 * b.size ELSE b.size
      at    == IF grows /\ b.next_push < b.next_pop THEN b.next_push + b.size
               ELSE b.next_push
  IN  [queue |-> [i \in 0 .. size - 1 |->
                    IF i = at THEN item
                    ELSE IF i < b.size THEN b.queue[i] ELSE NoItem],
       next_push |-> (at + 1) % size,
       next_pop  |-> b.next_pop,
       count     |-> b.count + 1,
       size      |-> size]
push(b, item) ==
  LET grows   == b.count + 1 = b.size
      wrapped == grows /\ b.next_push < b.next_pop
      size    == IF grows THEN 2 * b.size ELSE b.size
      at      == IF wrapped THEN b.next_push + b.size ELSE b.next_push
  IN  [queue |-> [i \in 0 .. size - 1 |->
                    IF i = at THEN item
                    ELSE IF i < b.size THEN b.queue[i]
                    ELSE IF wrapped /\ i < at THEN b.queue[i - b.size]
                    ELSE NoItem],
       next_push |-> (at + 1) % size,
       next_pop  |-> b.next_pop,
       count     |-> b.count + 1,
       size      |-> size]

\* pop(), after assert(_count > 0).  The slot keeps its stale pointer in the
\* code; nothing reads it.
pop(b) == [queue     |-> [b.queue EXCEPT ![b.next_pop] = NoItem],
           next_push |-> b.next_push,
           next_pop  |-> (b.next_pop + 1) % b.size,
           count     |-> b.count - 1,
           size      |-> b.size]

\* back(): what pop() returns.
back(b) == b.queue[b.next_pop]

\* What the ring holds, the oldest first.
Contents(b) == [k \in 1 .. b.count |-> b.queue[(b.next_pop + k - 1) % b.size]]
=============================================================================
