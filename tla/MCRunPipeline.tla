----------------------------- MODULE MCRunPipeline -----------------------------
(* Requests of every mode, one of them refused by the planner.             *)
EXTENDS RunPipeline

Plain == [mode |-> "quick", target |-> "file", checkpoints |-> FALSE, entrypoints |-> FALSE,
          scenarios |-> FALSE, probe |-> FALSE, compile |-> TRUE, limited |-> FALSE,
          pgf |-> FALSE, previous |-> FALSE]

\* A file that is compiled, a diagnosis that compiles nothing but may want a PGF,
\* a release, and a checkpoint run without checkpoints.
MCRequests ==
    {Plain,
     [Plain EXCEPT !.mode = "diagnostic", !.target = "none", !.compile = FALSE,
                   !.entrypoints = TRUE, !.pgf = TRUE, !.previous = TRUE],
     [Plain EXCEPT !.mode = "release", !.target = "project", !.checkpoints = TRUE,
                   !.entrypoints = TRUE, !.scenarios = TRUE, !.probe = TRUE, !.pgf = TRUE],
     [Plain EXCEPT !.mode = "checkpoint", !.target = "none"]}
================================================================================
