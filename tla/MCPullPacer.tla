---------------------------- MODULE MCPullPacer -----------------------------
(* Receivers that share a pacer, and their priorities. *)
EXTENDS PullPacer

\* Two flows that take turns before a third one.
TwoPriorities == <<1, 2, 1>>
=============================================================================
