----------------------- MODULE MCProjectReplacement -----------------------
(* Operators that come one after the other to one destination.             *)
EXTENDS ProjectReplacement

CONSTANTS p1, p2
=============================================================================
