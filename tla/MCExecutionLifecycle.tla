------------------------ MODULE MCExecutionLifecycle ------------------------
(* Instances of ExecutionLifecycle for TLC.                                *)
EXTENDS ExecutionLifecycle, TLC

\* Issues are interchangeable, and so are execution IDs.
Interchangeable == Permutations(Issues) \cup Permutations(Executions)
=============================================================================
