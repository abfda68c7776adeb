-------------------------- MODULE MCStartupRecovery --------------------------
(* Instances of StartupRecovery for TLC.                                   *)
EXTENDS StartupRecovery, TLC

CONSTANTS p1, p2

TwoProjects == <<p1, p2>>

Interchangeable == Permutations(Issues)
=============================================================================
