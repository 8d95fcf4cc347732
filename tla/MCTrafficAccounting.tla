------------------------ MODULE MCTrafficAccounting ------------------------
(* Finite instances of TrafficAccounting for TLC.                          *)
EXTENDS TrafficAccounting, TLC

AllFaults == FaultKinds

Symmetry == Permutations(Users) \cup Permutations(Handlers)
=============================================================================
