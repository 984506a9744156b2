--------------------------- MODULE MCRunFinalization ---------------------------
(* One run directory and the calls of finalize_run on it.                  *)
EXTENDS RunFinalization
================================================================================
