------------------------- MODULE MCDragonflyRouter -------------------------
(* A group of three routers.  The source at A sends two messages to the    *)
(* same host of F, one after the other, either straight to F or, as        *)
(* route_adaptive_local may choose within a group, over X, which reaches F *)
(* in another virtual channel.  ACKs of both messages are due at A at the  *)
(* same time and come back over two links.                                 *)
EXTENDS DragonflyRouter

MCRouters == {"A", "X", "F"}
MCHosts == {"a", "x", "f"}
MCRouter == [a |-> "A", x |-> "X", f |-> "F"]
MCPort0 == [A |-> "a", X |-> "x", F |-> "f"]
MCHops == [m \in {1, 2} |->
  [A |-> {Hop("F", 0), Hop("X", 0)}, X |-> {Hop("F", 2)}, F |-> {}]]
MCFrom == <<"a", "a">>
MCTo == <<"f", "f">>

\* Three packets may make the first message drain, which then is not over.
MCLength == <<4, 1>>
=============================================================================
