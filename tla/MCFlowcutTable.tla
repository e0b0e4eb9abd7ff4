--------------------------- MODULE MCFlowcutTable ---------------------------
(* A three-tier fat tree between two pods for FlowcutTable: the two TORs,   *)
(* two aggregation switches in each pod and three core switches.            *)
EXTENDS FlowcutTable, TLC

CONSTANTS TorS, TorD, AggS1, AggS2, AggD1, AggD2, Core1, Core2, Core3

\* Entropies 1 and 2 share the aggregation switches, 3 shares only the TORs.
ThreeTierHops ==
  1 :> <<TorS, AggS1, Core1, AggD1, TorD>> @@
  2 :> <<TorS, AggS1, Core2, AggD1, TorD>> @@
  3 :> <<TorS, AggS2, Core3, AggD2, TorD>>

\* One flowcut that never changes its path.
OnePathHops == 1 :> <<TorS, AggS1, TorD>>
=============================================================================
