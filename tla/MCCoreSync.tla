----------------------------- MODULE MCCoreSync -----------------------------
(* Finite instances of CoreSync for TLC.                                   *)
EXTENDS CoreSync, TLC

\* The template lists no user, as configs/singbox_template.json does.
EmptySeed == NoUsers

AllFaults == FaultKinds

Symmetry == Permutations(Users) \cup Permutations(Callers)
=============================================================================
