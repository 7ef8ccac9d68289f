------------------------------ MODULE MCSweep ------------------------------
(* SweepController for TLC: invocations of the command are interchangeable, *)
(* which the safety properties do not tell apart.                           *)
EXTENDS SweepController, TLC

Interchangeable == Permutations(Controllers)
=============================================================================
