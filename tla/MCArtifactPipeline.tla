-------------------------- MODULE MCArtifactPipeline --------------------------
(* Instances of ArtifactPipeline for TLC.                                   *)
EXTENDS ArtifactPipeline

CONSTANTS p1, p2

TwoPaths == <<p1, p2>>

\* One byte, one character of two bytes, and what exceeds a limit of three within
\* a character and between two.
ValidDiffs == {<<"a">>, <<"h", "t">>, <<"a", "a", "h", "t">>}

\* A file in another encoding, which git prints as it is.
AnyDiffs == {<<"a">>, <<"a", "x">>}
===============================================================================
