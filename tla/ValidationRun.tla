--------------------------- MODULE ValidationRun ---------------------------
(***************************************************************************)
(* One Quick or Diagnostic run (runs/application.py): probe the version of *)
(* GF, scan, compile and fingerprint every selected source, play every     *)
(* scenario of the profile, and judge the run. The run is one thread; a    *)
(* second one may ask for its cancellation, and the user may edit a source *)
(* at any time. A process call is the promise of run_process               *)
(* (ProcessExecution), which ProcessRunner is shown to keep.               *)
(***************************************************************************)
EXTENDS Naturals, Sequences

CONSTANTS
    MaxFiles,      \* bound: selected sources of a run
    MaxScenarios,  \* bound: scenarios of a profile
    MaxEdits       \* bound: edits of one source while the run lasts

ASSUME RunAssumption ==
    MaxFiles \in Nat \ {0} /\ MaxScenarios \in Nat /\ MaxEdits \in Nat

VARIABLES
    request,                \* RunConfig, its selected files and scenarios
    source,                 \* version of each selected source on disk
    requested,              \* whether cancellation_check raises
    late,                   \* processes launched after the request (history)
    phase, cause, verdict,  \* the process call in progress
    step, work, items,      \* locals of execute_diagnostic_run
    scenarios, outcome

call == <<phase, cause, verdict>>
locals == <<step, work, items, scenarios, outcome>>
vars == <<request, source, requested, late, call, locals>>

Causes == {"completed", "timed_out", "cancelled", "output_limit"}
Process == INSTANCE ProcessExecution

Modes == {"quick", "diagnostic"}
Statuses == {"OK", "FAIL", "ERROR", "SKIPPED"}
Requests == [mode: Modes, noCompile: BOOLEAN, skipProbe: BOOLEAN,
             files: 1..MaxFiles,
             required: UNION {[1..n -> BOOLEAN] : n \in 0..MaxScenarios}]

Quick == request.mode = "quick"
File == Len(items) + 1           \* the source at hand
Scenario == Len(scenarios) + 1   \* the scenario at hand

NoCause == "none"
NotRead == MaxEdits + 1
NoWork == [scanned |-> NotRead, compiled |-> NotRead,
           status |-> "SKIPPED", cause |-> NoCause]
Running == [kind |-> "none", overall |-> "none"]

\* execute_quick_run takes one source, and ignores no_compile and scenarios.
Init ==
    /\ request \in Requests
    /\ Quick => /\ request.files = 1 /\ request.required = <<>>
                /\ ~request.noCompile
    /\ source = [i \in 1..request.files |-> 0]
    /\ requested = FALSE /\ late = 0
    /\ phase = "idle" /\ cause = NoCause /\ verdict = "none"
    /\ step = "begin" /\ work = NoWork /\ items = <<>>
    /\ scenarios = <<>> /\ outcome = Running

-----------------------------------------------------------------------------
(***************************************************************************)
(* How a run goes on and how it ends.                                      *)
(***************************************************************************)

EndAs(kind, overall) ==
    /\ outcome' = [kind |-> kind, overall |-> overall]
    /\ step' = "end"
    /\ UNCHANGED <<work, items, scenarios>>

Raise == EndAs("raised", "none")
Cancel == EndAs("cancelled", "none")

Goto(next) == step' = next /\ UNCHANGED <<work, items, scenarios, outcome>>

\* Mutant: the answer is taken once, when the run begins.
CancelledAtFirst == requested /\ step = "begin"

\* cancellation_check(), the one way the run learns of a request.
Cancelled == requested

-----------------------------------------------------------------------------
(***************************************************************************)
(* A call of run_process. It reads the token once before it launches, and  *)
(* while the process runs.                                                 *)
(***************************************************************************)

BeginCall ==
    /\ phase' = (IF Cancelled THEN "settled" ELSE "requested")
    /\ cause' = (IF Cancelled THEN "cancelled" ELSE NoCause)
    /\ verdict' = "none"

Launch ==
    /\ Process!Launch
    /\ late' = late + (IF requested THEN 1 ELSE 0)
    /\ UNCHANGED work

\* A process is cancelled because its token says so, or because it wrote too
\* much; gf reads the source at hand before it ends.
Settle ==
    /\ Process!Settle
    /\ cause' = "cancelled" => Cancelled
    /\ work' = [work EXCEPT !.compiled =
                   IF step = "compiling" THEN source[File] ELSE @]
    /\ UNCHANGED late

LaunchFails ==
    /\ Process!NotLaunched /\ cause' = "launch_failed"
    /\ UNCHANGED <<work, late>>

Answer == (Process!Deliver \/ Process!Abandon) /\ UNCHANGED <<work, late>>

CallStep ==
    /\ Launch \/ Settle \/ LaunchFails \/ Answer
    /\ UNCHANGED <<request, source, requested, step, items, scenarios, outcome>>

Call(next) == BeginCall /\ Goto(next)

\* The caller takes the verdict.
Returned == phase = "delivered" /\ phase' = "idle" /\ UNCHANGED <<cause, verdict>>

-----------------------------------------------------------------------------
(***************************************************************************)
(* The run.                                                                *)
(***************************************************************************)

\* The first check, and the allocation of the run directory.
Begin ==
    /\ step = "begin"
    /\ IF Cancelled THEN Cancel
       ELSE Raise \/ Goto(IF request.skipProbe THEN "scan" ELSE "probe")
    /\ UNCHANGED call

\* What comes before a process call raises: an event sink, a directory, a write.
RaiseBefore == Raise /\ UNCHANGED call

Probe ==
    /\ step = "probe" /\ phase = "idle"
    /\ RaiseBefore \/ Call("probing")

\* Mutant: a version that was not recognised is asked for again.
ProbeRetries ==
    /\ step = "probing" /\ Returned
    /\ IF verdict = "completed" THEN Goto("scan") ELSE Goto("probe")

\* Only a version that was recognised and accepted lets the run go on; a
\* cancelled probe is a failed one.
ProbeReturns ==
    /\ step = "probing" /\ Returned
    /\ Raise \/ (verdict = "completed" /\ Goto("scan"))

\* The check at the head of the loop, and the first read of the source.
Scan ==
    /\ step = "scan"
    /\ IF Cancelled THEN Cancel
       ELSE \/ Raise
            \/ /\ work' = [NoWork EXCEPT !.scanned = source[File]]
               /\ step' = "compile"
               /\ UNCHANGED <<items, scenarios, outcome>>
    /\ UNCHANGED call

Compile ==
    /\ step = "compile" /\ phase = "idle"
    /\ IF Cancelled THEN Cancel /\ UNCHANGED call
       ELSE IF request.noCompile THEN Goto("fingerprint") /\ UNCHANGED call
       ELSE RaiseBefore \/ Call("compiling")

\* Mutant: an exception leaves the loop.
ContainedNever == FALSE

\* A cancelled compilation is the cancellation of the run, and only a Diagnostic
\* run has an except clause for the exception of a compilation.
AbortsRun == verdict = "cancelled"
Contained == ~Quick

Evidence(status, how) ==
    /\ work' = [work EXCEPT !.status = status, !.cause = how]
    /\ step' = "fingerprint"
    /\ UNCHANGED <<items, scenarios, outcome>>

\* _compile_target_evidence: gf completed with or without the object file, was
\* stopped or did not start; or run_process raised, or what is done with its answer.
CompileReturns ==
    /\ step = "compiling" /\ Returned
    /\ \/ AbortsRun /\ Cancel
       \/ /\ ~AbortsRun /\ verdict # "raised"
          /\ \E s \in {"OK", "FAIL", "ERROR"} :
                (verdict # "completed" => s = "ERROR") /\ Evidence(s, verdict)
       \/ IF Contained THEN Goto("containing") ELSE Raise

\* _compile_exception_evidence, in the except clause: it writes the evidence of the
\* exception, which may raise in its turn, and nothing contains that.
ContainException ==
    /\ step = "containing"
    /\ Evidence("ERROR", "raised") \/ Raise
    /\ UNCHANGED call

\* _fingerprint reads the source again, and the evidence of the file is
\* complete; Quick checks once more before it.
Fingerprint ==
    /\ step = "fingerprint"
    /\ IF Quick /\ Cancelled THEN Cancel
       ELSE \/ Raise
            \/ /\ items' = Append(items, [scanned |-> work.scanned,
                       compiled |-> work.compiled, status |-> work.status,
                       cause |-> work.cause, fingerprint |-> source[File]])
               /\ step' = (IF File < request.files THEN "scan" ELSE "scenario")
               /\ work' = NoWork
               /\ UNCHANGED <<scenarios, outcome>>
    /\ UNCHANGED call

PlayScenario ==
    /\ step = "scenario" /\ phase = "idle"
    /\ Scenario <= Len(request.required)
    /\ IF Cancelled THEN Cancel /\ UNCHANGED call
       ELSE RaiseBefore \/ Call("playing")

\* _interpret_scenario: a scenario that was stopped is an error.
ScenarioStatus == IF verdict = "completed" THEN {"OK", "FAIL", "ERROR"} ELSE {"ERROR"}

\* run_scenario, whose exceptions nothing contains.
ScenarioReturns ==
    /\ step = "playing" /\ Returned
    /\ \/ Raise
       \/ verdict # "raised" /\ \E s \in ScenarioStatus :
              /\ scenarios' = Append(scenarios,
                     [required |-> request.required[Scenario], status |-> s, cause |-> cause])
              /\ step' = "scenario"
              /\ UNCHANGED <<work, items, outcome>>

\* Mutant: work that was skipped does not count.
OnlyErrors == {"ERROR"}

\* derive_overall_status
Unfinished == {"ERROR", "SKIPPED"}
Overall ==
    LET judged == {items[i].status : i \in DOMAIN items} \cup
                  {scenarios[j].status : j \in
                      {k \in DOMAIN scenarios : scenarios[k].required}}
    IN  IF judged \cap Unfinished # {} THEN "ERROR"
        ELSE IF "FAIL" \in judged THEN "FAIL" ELSE "OK"

\* build_run_result, which rejects a wall clock that stepped back; a report
\* that cannot be written only warns.
Finish ==
    /\ step = "scenario" /\ Scenario > Len(request.required)
    /\ Raise \/ EndAs("result", Overall)
    /\ UNCHANGED call

RunStep ==
    /\ \/ Begin \/ Probe \/ ProbeReturns \/ Scan \/ Compile \/ CompileReturns
       \/ ContainException \/ Fingerprint \/ PlayScenario \/ ScenarioReturns \/ Finish
    /\ UNCHANGED <<request, source, requested, late>>

\* The GUI's thread sets the request of the worker.
RequestCancellation ==
    /\ ~requested /\ step # "end" /\ requested' = TRUE
    /\ UNCHANGED <<request, source, late, call, locals>>

EditSource(i) ==
    /\ step # "end" /\ source[i] < MaxEdits
    /\ source' = [source EXCEPT ![i] = @ + 1]
    /\ UNCHANGED <<request, requested, late, call, locals>>

Done == step = "end" /\ UNCHANGED vars

Next ==
    \/ CallStep \/ RunStep \/ RequestCancellation
    \/ \E i \in DOMAIN source : EditSource(i)
    \/ Done

\* run_process always answers (ProcessRunner's RequestEnds), and the thread of
\* the run is scheduled until the run is over.
Spec == Init /\ [][Next]_vars /\ WF_vars(CallStep \/ RunStep)

-----------------------------------------------------------------------------
(***************************************************************************)
(* What a run promises.                                                    *)
(***************************************************************************)

Versions == 0..MaxEdits
MaybeRead == Versions \cup {NotRead}
CallCauses == Causes \cup {"launch_failed", NoCause}
Verdicts == {"none", "completed", "timed_out", "cancelled", "launch_failed", "raised"}

\* Every variable of the run keeps its type, one item per file and one result
\* per scenario at most.
ValidationTypeOK ==
    /\ request \in Requests
    /\ source \in [1..request.files -> Versions]
    /\ requested \in BOOLEAN /\ late \in Nat
    /\ phase \in {"idle", "requested", "running", "settled", "delivered"}
    /\ cause \in CallCauses /\ verdict \in Verdicts
    /\ step \in {"begin", "probe", "probing", "scan", "compile", "compiling",
                 "containing", "fingerprint", "scenario", "playing", "end"}
    /\ work \in [scanned: MaybeRead, compiled: MaybeRead, status: Statuses,
                  cause: Verdicts]
    /\ items \in Seq([scanned: Versions, compiled: MaybeRead, status: Statuses,
                      cause: Verdicts, fingerprint: Versions])
    /\ Len(items) <= request.files
    /\ scenarios \in Seq([required: BOOLEAN, status: Statuses, cause: CallCauses])
    /\ Len(scenarios) <= Len(request.required)
    /\ outcome \in [kind: {"none", "result", "cancelled", "raised"},
                    overall: {"none", "OK", "FAIL", "ERROR"}]

\* A result covers every selected source and every scenario, and it is OK only
\* if gf completed on each of them: nothing that was skipped, stopped, not
\* started or contained as an error is hidden by a success
\* (execute_diagnostic_run, derive_overall_status).
OkMeansVerified ==
    outcome.kind = "result" =>
        /\ Len(items) = request.files
        /\ Len(scenarios) = Len(request.required)
        /\ outcome.overall = "OK" =>
            /\ \A i \in DOMAIN items :
                   items[i].status = "OK" /\ items[i].cause = "completed"
                   /\ items[i].compiled \in items[i].scanned..items[i].fingerprint
            /\ \A j \in DOMAIN scenarios : scenarios[j].required =>
                   scenarios[j].status = "OK" /\ scenarios[j].cause = "completed"

\* Nobody is told of a cancellation unless one was requested or a process was
\* stopped for its output: a timeout, a failed launch or an exception is an
\* error (_compile_target_evidence).
CancelledHasCause ==
    outcome.kind = "cancelled" => requested \/ cause = "output_limit"

\* After a request at most the process that was about to be launched starts,
\* whatever the run has left to do (cancellation_check, run_process).
OneLaunchAfterRequest == late <= 1

\* In a Diagnostic run no compilation that raises, is stopped or does not start ends
\* the inventory: only a cancellation does, or the evidence of an exception that
\* cannot be written (execute_diagnostic_run, _compile_exception_evidence).
CompilationsAreContained ==
    [][step = "compiling" /\ ~Quick =>
           step' \in {"compiling", "containing", "fingerprint"} \/ outcome'.kind = "cancelled"]_vars

\* Every run comes to an end.
RunEnds == <>(step = "end")

-----------------------------------------------------------------------------
(***************************************************************************)
(* What the documentation says of a run and the code does not do.          *)
(***************************************************************************)

\* "Cancellation is not reported as success.": a run whose work was stopped by
\* a cancellation is not OK.
CancellationIsNotSuccess ==
    outcome.overall = "OK" =>
        \A j \in DOMAIN scenarios : scenarios[j].cause # "cancelled"

\* "A run must not combine pre-change and post-change source states silently."
OneSourceState ==
    outcome.overall = "OK" =>
        \A i \in DOMAIN items : items[i].compiled = items[i].fingerprint

=============================================================================
