-------------------------------- MODULE MCFsm --------------------------------
(* Two known values and an unknown one; a single variable without declared   *)
(* transitions, one with, and a pair whose attribute excludes the FSM.       *)
EXTENDS FsmCov

CONSTANTS v0, v1, vx

MCValues  == {v0, v1, vx}
MCUnknown == {vx}
MCDesigns ==
  {[two |-> FALSE, arcs |-> <<>>, exclude |-> FALSE],
   [two |-> FALSE, arcs |-> <<<<v1, v0>>, <<v0, v1>>>>, exclude |-> FALSE],
   [two |-> TRUE,  arcs |-> <<<<v0, v1>>>>, exclude |-> TRUE]}

=============================================================================
