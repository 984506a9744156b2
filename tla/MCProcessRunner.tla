-------------------------- MODULE MCProcessRunner --------------------------
(* A small instance of ProcessRunner: a root and at most one descendant.   *)
EXTENDS ProcessRunner

CONSTANTS root, descendant, parent
=============================================================================
