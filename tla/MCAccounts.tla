----------------------------- MODULE MCAccounts -----------------------------
(* Finite instances of Accounts for TLC.                                   *)
EXTENDS Accounts, TLC

AllFaults == FaultKinds

Symmetry == Permutations(Users)
=============================================================================
