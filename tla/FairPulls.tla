----------------------------- MODULE FairPulls ------------------------------
(***************************************************************************)
(* What the pull queue of a receiver promises the flows that share it:     *)
(* the pulls of a flow leave in the order they were asked for, those of a  *)
(* lower priority number before all others, and among flows of one         *)
(* priority nobody is served twice while another one waits.                *)
(***************************************************************************)
EXTENDS Naturals, Sequences

CONSTANTS Flows, Pulls, Priority

VARIABLES
  waiting,    \* waiting[f]: the pulls of flow f, the oldest first
  overtaken   \* overtaken[f]: who was served while f waits for its turn

Waits(f) == waiting[f] # <<>>
Rivals(f) == {g \in Flows \ {f} : Waits(g) /\ Priority[g] = Priority[f]}

Init == /\ waiting = [f \in Flows |-> <<>>]
        /\ overtaken = [f \in Flows |-> {}]

Ask(f, p) == /\ waiting' = [waiting EXCEPT ![f] = Append(@, p)]
             /\ UNCHANGED overtaken

Serve(f) ==
  /\ Waits(f)
  /\ \A g \in Flows : Waits(g) => Priority[f] <= Priority[g]
  /\ \A g \in Rivals(f) : f \notin overtaken[g]
  /\ waiting' = [waiting EXCEPT ![f] = Tail(@)]
  /\ overtaken' = [g \in Flows |-> IF g = f THEN {}
                                   ELSE IF g \in Rivals(f) THEN overtaken[g] \union {f}
                                   ELSE overtaken[g]]

\* The flow is complete: nobody needs its pulls.
Withdraw(f) == /\ waiting' = [waiting EXCEPT ![f] = <<>>]
               /\ overtaken' = [overtaken EXCEPT ![f] = {}]

Next == \E f \in Flows : (\E p \in Pulls : Ask(f, p)) \/ Serve(f) \/ Withdraw(f)
Spec == Init /\ [][Next]_<<waiting, overtaken>>
=============================================================================
