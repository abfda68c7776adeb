--------------------------- MODULE MCCandidateScan ---------------------------
(* Instances of CandidateScan for TLC.                                     *)
EXTENDS CandidateScan

CONSTANTS p1, p2

TwoProjects == <<p1, p2>>
=============================================================================
