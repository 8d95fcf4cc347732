----------------------------- MODULE MCStrikes ------------------------------
(* Finite instances of Strikes for TLC.                                    *)
EXTENDS Strikes, TLC

AllFaults == FaultKinds
=============================================================================
