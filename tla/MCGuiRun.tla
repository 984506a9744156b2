----------------------------- MODULE MCGuiRun -----------------------------
(* A session of at most MaxRuns runs.                                      *)
EXTENDS GuiRun
=============================================================================
