-------------------------- MODULE MCStreamCapture --------------------------
(* A small instance of StreamCapture: one process holds the write ends. A   *)
(* pump cannot tell one holder from several: its pipe ends with the last.   *)
EXTENDS StreamCapture

CONSTANTS writer, parent
=============================================================================
