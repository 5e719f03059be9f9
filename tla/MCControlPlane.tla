--------------------------- MODULE MCControlPlane ---------------------------
(* Instances of ControlPlane for TLC. Either both nodes can run every agent,  *)
(* or n1 fails to start any ("missing workload, spawn error") and n2 can.     *)
EXTENDS ControlPlane, TLC

CONSTANTS n1, n2

AllPairs     == Node \X Agent
OnlyOnSecond == {n2} \X Agent

BothCan      == {AllPairs}
SecondCan    == {OnlyOnSecond}
BothOrSecond == {AllPairs, OnlyOnSecond}

Symmetry == Permutations(Agent)
=============================================================================
