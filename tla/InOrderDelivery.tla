--------------------------- MODULE InOrderDelivery ---------------------------
(***************************************************************************)
(* What flowcut switching promises to a transport: "flowcut switching      *)
(* guarantees in-order delivery under any network conditions"              *)
(* (README.md).  Packets are numbered 1 .. NPackets.  The source hands     *)
(* them to the network in bursts, and the sink takes them one at a time,   *)
(* each one the successor of the last, so it never has to hold a packet    *)
(* back waiting for an earlier one.                                        *)
(***************************************************************************)
EXTENDS Integers

CONSTANT NPackets      \* packets in the flow

VARIABLES sent,        \* packets handed to the network so far
          delivered,   \* packets the sink took, always a prefix of the flow
          held         \* packets the sink holds behind a gap

abstractVars == <<sent, delivered, held>>

Init == sent = 0 /\ delivered = 0 /\ held = {}

\* A burst of one or more new packets.
Send ==
  /\ sent' \in sent + 1 .. NPackets
  /\ UNCHANGED <<delivered, held>>

\* The next packet of the flow, and no other, reaches the sink.
Deliver ==
  /\ delivered < sent
  /\ delivered' = delivered + 1
  /\ UNCHANGED <<sent, held>>

Next == Send \/ Deliver

Spec == Init /\ [][Next]_abstractVars

=============================================================================
