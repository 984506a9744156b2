-------------------------- MODULE MCValidationRun --------------------------
(* A small instance of ValidationRun: at most two sources.       *)
EXTENDS ValidationRun
=============================================================================
