------------------------------ MODULE RunPipeline ------------------------------
(***************************************************************************)
(* One run behind runs.public.execute_run: RunOrchestrator.run of          *)
(* runs/orchestrator.py around the plan of runs/planner.py, execute_plan   *)
(* of runs/stage_executor.py and the latch of runs/cancellation.py. The    *)
(* services and the stage handlers come from the caller and may answer     *)
(* anything the code accepts, or raise. A request is what the planner      *)
(* looks at. A record of a stage is its status and whether the stages that *)
(* depend on it may use it (prerequisite_available).                       *)
(***************************************************************************)
EXTENDS Naturals, FiniteSets, Sequences

CONSTANTS
    Requests,    \* the run configurations considered
    MaxMishaps,  \* bound: answers other than a plain OK, and exceptions
    Nothing      \* no plan, no record, no fatal stage, no result

StageOrder == <<"configuration", "environment", "version_probe", "selection", "static_scan",
                "fingerprint", "compile_sources", "compile_checkpoints",
                "compile_entrypoints", "classify_failures", "run_scenarios",
                "normalize_outputs", "evaluate_assertions", "compare_gold", "build_pgf",
                "compare_previous", "evaluate_release_gates", "write_reports",
                "write_manifest">>
Stages == {StageOrder[i] : i \in DOMAIN StageOrder}
Finalization == {"write_reports", "write_manifest"}
Normal == Stages \ Finalization
ScenarioStages == {"run_scenarios", "normalize_outputs", "evaluate_assertions", "compare_gold"}
CompileStages == {"compile_sources", "compile_checkpoints", "compile_entrypoints"}

Request == [mode : {"quick", "checkpoint", "release", "diagnostic"},
            target : {"none", "file", "module", "checkpoint", "project", "entrypoint",
                      "regression"},
            checkpoints : BOOLEAN, entrypoints : BOOLEAN, scenarios : BOOLEAN,
            probe : BOOLEAN, compile : BOOLEAN, limited : BOOLEAN,
            pgf : BOOLEAN, previous : BOOLEAN]

Record == {<<"ok", TRUE>>, <<"ok", FALSE>>, <<"fail", TRUE>>, <<"fail", FALSE>>,
           <<"error", FALSE>>, <<"skipped", FALSE>>}
Skipped == <<"skipped", FALSE>>
Error == <<"error", FALSE>>
Results == {"completed", "preflight_failure", "cancelled", "fatal"}

ASSUME PipelineAssumption ==
    /\ Requests \subseteq Request /\ MaxMishaps \in Nat
    /\ Nothing \notin Record
    /\ Nothing \notin Stages \cup Results \cup {"cancellation", "budget"}
    /\ Nothing \notin [selected : SUBSET Stages, required : SUBSET Stages]

\* _PREREQUISITES.
Needs(stage) ==
    CASE stage = "configuration" -> {}
      [] stage \in {"environment", "selection"} -> {"configuration"}
      [] stage = "version_probe" -> {"environment"}
      [] stage \in {"static_scan", "fingerprint", "classify_failures", "run_scenarios"} ->
             {"selection"}
      [] stage \in CompileStages -> {"selection", "fingerprint"}
      [] stage = "normalize_outputs" -> {"run_scenarios"}
      [] stage \in {"evaluate_assertions", "compare_gold"} -> {"normalize_outputs"}
      [] stage = "build_pgf" -> {"compile_entrypoints"}
      [] stage \in {"compare_previous", "write_reports"} -> {"classify_failures"}
      [] stage = "evaluate_release_gates" ->
             {"classify_failures", "evaluate_assertions", "compare_gold"}
      [] stage = "write_manifest" -> {"write_reports"}

\* _validate_mode_request.
Accepted(r) ==
    \/ /\ r.mode = "quick" /\ r.target \in {"file", "module"}
       /\ r.compile /\ ~r.checkpoints /\ ~r.limited
    \/ /\ r.mode = "checkpoint" /\ r.target \in {"none", "checkpoint"}
       /\ r.compile /\ r.checkpoints /\ ~r.limited
    \/ /\ r.mode = "release" /\ r.target \in {"none", "project", "entrypoint"}
       /\ r.compile /\ ~r.limited /\ r.probe /\ r.entrypoints /\ r.scenarios /\ r.pgf
    \/ r.mode = "diagnostic" /\ r.target # "regression"

OnlyWhen(condition, stages) == IF condition THEN stages ELSE {}
Always == {"configuration", "environment", "selection", "static_scan", "fingerprint",
           "classify_failures"} \cup Finalization

\* Mutant: a PGF is built without a look at whether anything is compiled.
BuildsPgfUncompiled(r) == r.entrypoints /\ r.pgf
\* Whether a PGF is built.
BuildsPgf(r) == r.pgf /\ r.entrypoints /\ r.compile

\* _enabled_stages.
Enabled(r) ==
    Always
    \cup OnlyWhen(r.probe, {"version_probe"})
    \cup OnlyWhen(r.compile, {"compile_sources"})
    \cup OnlyWhen(r.compile /\ r.checkpoints, {"compile_checkpoints"})
    \cup OnlyWhen(r.compile /\ r.entrypoints, {"compile_entrypoints"})
    \cup OnlyWhen(BuildsPgf(r), {"build_pgf"})
    \cup OnlyWhen(r.scenarios, ScenarioStages)
    \cup OnlyWhen(r.previous, {"compare_previous"})
    \cup OnlyWhen(r.mode = "release", {"evaluate_release_gates"})

\* _required_stages.
RequiredStages(r) ==
    Enabled(r) \cap
        (Always \cup {"version_probe", "compile_sources"}
         \cup OnlyWhen(r.mode \in {"checkpoint", "release"}, {"compile_checkpoints"})
         \cup OnlyWhen(r.mode \in {"checkpoint", "release"}, ScenarioStages)
         \cup OnlyWhen(r.mode = "release",
                       {"compile_entrypoints", "build_pgf", "evaluate_release_gates"}))

VARIABLES
    request, failFast, allowed,  \* the run's configuration, fail_fast, finalization_allowed
    phase, plan,                 \* the phase of the orchestrator, the plan once there is one
    next, place,                 \* the stage of the loop, and the place in its iteration
    record,                      \* the records by stage
    reason, fatal,               \* abort_reason (Nothing unless aborted), fatal_stage
    requested, exhausted,        \* the cancellation latch; the execution budget is spent
    result,                      \* the kind of result that was built
    started,                     \* stages whose handler was called
    lateStarts,                  \* those called once the run was to stop
    mishaps

config == <<request, failFast, allowed>>
loop == <<next, place, record, reason, fatal, started, lateStarts>>
outside == <<requested, exhausted>>
pipelineVars == <<config, phase, plan, loop, outside, result, mishaps>>

Phases == {"initializing", "planning", "planned", "preflight", "preflight_failed", "ready",
           "executing", "executed", "building_result", "cancelled", "failed", "finalizing",
           "returned", "raised"}
Ended == {"returned", "raised"}

PipelineInit ==
    /\ request \in Requests /\ failFast \in BOOLEAN /\ allowed \in BOOLEAN
    /\ phase = "initializing" /\ plan = Nothing
    /\ next = 1 /\ place = "head" /\ record = [s \in Stages |-> Nothing]
    /\ reason = Nothing /\ fatal = Nothing
    /\ requested = FALSE /\ exhausted = FALSE
    /\ result = Nothing /\ started = {} /\ lateStarts = {} /\ mishaps = 0

-----------------------------------------------------------------------------
\* The orchestrator.

Mishap == mishaps < MaxMishaps /\ mishaps' = mishaps + 1
Sound == UNCHANGED mishaps
During(p) == phase = p
Enter(p) == phase' = p

\* check_cancelled() raises.
Seen == requested

\* The looks at the latch, and the phase each of them comes before.
Check ==
    /\ \E c \in {<<"initializing", "planning">>, <<"planned", "preflight">>,
                 <<"ready", "executing">>, <<"executed", "building_result">>} :
          During(c[1]) /\ Enter(IF Seen THEN "cancelled" ELSE c[2])
    /\ UNCHANGED <<loop, result, mishaps>>

\* A service raises CancellationRequested.
ServiceCancelled ==
    /\ phase \in {"planning", "preflight", "preflight_failed", "building_result"}
    /\ requested /\ Enter("cancelled")
    /\ UNCHANGED <<loop, result, mishaps>>

\* An exception other than the cancellation leaves a phase.
Raises == Mishap /\ Enter("failed")

\* resolve_execution_plan refuses the request or makes its plan.
Plan ==
    /\ During("planning")
    /\ \/ /\ Accepted(request) /\ Sound /\ Enter("planned")
          /\ plan' = [selected |-> Enabled(request), required |-> RequiredStages(request)]
       \/ ~Accepted(request) /\ Sound /\ Enter("failed") /\ UNCHANGED plan
       \/ Raises /\ UNCHANGED plan
    /\ UNCHANGED <<loop, result>>

Preflight ==
    /\ During("preflight")
    /\ \/ Sound /\ Enter("ready")
       \/ Mishap /\ Enter("preflight_failed")
       \/ Raises
    /\ UNCHANGED <<loop, result>>

\* build_completed_result, build_preflight_failure_result: an exception makes
\* the run a fatal one.
BuildResult ==
    /\ phase \in {"building_result", "preflight_failed"}
    /\ \/ /\ Sound /\ Enter("finalizing")
          /\ result' = IF During("building_result") THEN "completed" ELSE "preflight_failure"
       \/ Raises /\ UNCHANGED result
    /\ UNCHANGED loop

\* _build_cancelled_result, _build_fatal_result: an exception leaves run.
BuildFailureResult ==
    /\ phase \in {"cancelled", "failed"}
    /\ \/ /\ Sound /\ Enter("finalizing")
          /\ result' = IF During("cancelled") THEN "cancelled" ELSE "fatal"
       \/ Mishap /\ Enter("raised") /\ UNCHANGED result
    /\ UNCHANGED loop

Finalize ==
    /\ During("finalizing")
    /\ (Sound /\ Enter("returned")) \/ (Mishap /\ Enter("raised"))
    /\ UNCHANGED <<loop, result>>

-----------------------------------------------------------------------------
\* execute_plan.

Stage == StageOrder[next]
In(p) == phase = "executing" /\ next <= Len(StageOrder) /\ place = p
Finalizing == Stage \in Finalization
Goes(p) == place' = p /\ UNCHANGED <<next, record, reason, fatal>>

\* _append_record: the next stage is considered.
Appends(r) ==
    /\ record' = [record EXCEPT ![Stage] = r]
    /\ next' = next + 1 /\ place' = "head"

Aborts(why) == reason' = why
Aborted == reason # Nothing

\* Mutant: a stage that is skipped leaves no record.
SkipsUnrecorded == Appends(Nothing) /\ UNCHANGED fatal
\* _skipped_record.
Skips == Appends(Skipped) /\ UNCHANGED fatal

\* The plan does not select the stage, the run was aborted, or the run may not
\* be finalized.
SkipStage ==
    /\ In("head")
    /\ \/ Stage \notin plan.selected
       \/ Aborted /\ ~Finalizing
       \/ Finalizing /\ ~allowed
    /\ Skips /\ UNCHANGED reason

Considered ==
    /\ Stage \in plan.selected
    /\ IF Finalizing THEN allowed ELSE ~Aborted

\* Mutant: the latch is read for the first stage only.
CancelSeenAtFirst == requested /\ next = 1
\* _call_cancellation_check.
CancelSeen == requested

LookAtCancellation ==
    /\ In("head") /\ Considered
    /\ IF CancelSeen /\ ~Finalizing THEN Aborts("cancellation") /\ Skips
       ELSE Goes(IF Finalizing THEN "prerequisites" ELSE "budget")

LookAtBudget ==
    /\ In("budget")
    /\ IF exhausted THEN Aborts("budget") /\ Skips ELSE Goes("prerequisites")

\* Mutant: a contained failure blocks what depends on it.
AvailableIfOk(stage) == record[stage] = <<"ok", TRUE>>
\* prerequisite_available.
Available(stage) == record[stage] # Nothing /\ record[stage][2]

\* _blocking_prerequisites.
Blockers ==
    IF Finalizing THEN {}
    ELSE {s \in Needs(Stage) \cap plan.selected : ~Available(s)}

Block ==
    /\ In("prerequisites") /\ Blockers # {}
    /\ Skips /\ UNCHANGED reason

\* No handler is registered for the stage.
Unhandled ==
    /\ In("prerequisites") /\ Blockers = {}
    /\ Appends(Error) /\ Aborts(Stage) /\ fatal' = Stage

Start ==
    /\ In("prerequisites") /\ Blockers = {}
    /\ Goes("running")

\* The fail-fast condition of the loop.
Stops(r) == failFast /\ Stage \in plan.required /\ r[1] \in {"fail", "error"}

\* The handler returns. A record that aborts the run is not available, whatever
\* its status; OK and an error stand for all of them.
Answer ==
    /\ In("running")
    /\ \E r \in Record, aborts \in BOOLEAN :
          /\ aborts => r \in {<<"ok", FALSE>>, Error}
          /\ IF r = <<"ok", TRUE>> THEN Sound ELSE Mishap
          /\ Appends(r)
          /\ IF aborts \/ Stops(r) THEN Aborts(Stage) ELSE UNCHANGED reason
    /\ UNCHANGED fatal

\* The handler raises CancellationRequested.
AnswerCancelled ==
    /\ In("running") /\ requested
    /\ Appends(Error) /\ Aborts("cancellation") /\ Sound /\ UNCHANGED fatal

\* The handler raises anything else, or returns what is not a stage result.
AnswerRaises ==
    /\ In("running") /\ Mishap
    /\ Appends(Error) /\ Aborts(Stage) /\ fatal' = Stage

\* The calls execute_plan makes outside its try, or within an except clause: the
\* record sink; the looks at the cancellation, at its reason and at the budget; the
\* timeout and the clock before a handler; the clock and the record of the error
\* after one that raised.
Uncontained ==
    \/ place = "head" /\ next > 1
    \/ In("head") /\ Considered /\ ~Finalizing
    \/ In("budget")
    \/ In("prerequisites") /\ Blockers = {}
    \/ In("running")

\* One of them raises, possibly CancellationRequested: the loop ends there.
LeavesLoop ==
    /\ During("executing") /\ Uncontained
    /\ \/ Raises
       \/ requested /\ Sound /\ Enter("cancelled")
    /\ place' = "escaped"
    /\ UNCHANGED <<next, record, reason, fatal, started, lateStarts, result>>

Iteration ==
    /\ \/ (SkipStage \/ LookAtCancellation \/ LookAtBudget \/ Block) /\ Sound
       \/ Unhandled /\ Mishap
       \/ Answer \/ AnswerCancelled \/ AnswerRaises
    /\ UNCHANGED <<phase, result, started, lateStarts>>

StartHandler ==
    /\ Start
    /\ started' = started \cup {Stage}
    /\ lateStarts' = IF (requested \/ exhausted) /\ ~Finalizing
                     THEN lateStarts \cup {Stage} ELSE lateStarts
    /\ UNCHANGED <<phase, result, mishaps>>

\* Mutant: the loop ends with the run's abortion.
LoopIsOverOnAbort == next > Len(StageOrder) \/ Aborted
\* The plan has no further stage.
LoopIsOver == next > Len(StageOrder)

\* The report is returned, or StageExecutionAborted is raised with it.
EndLoop ==
    /\ During("executing") /\ place = "head" /\ LoopIsOver
    /\ Enter(IF fatal = Nothing THEN "executed" ELSE "failed")
    /\ UNCHANGED <<loop, result, mishaps>>

-----------------------------------------------------------------------------

PipelineStep ==
    /\ \/ Plan
       \/ /\ \/ Check \/ ServiceCancelled \/ Preflight \/ BuildResult
             \/ BuildFailureResult \/ Finalize \/ Iteration \/ StartHandler \/ EndLoop
             \/ LeavesLoop
          /\ UNCHANGED plan
    /\ UNCHANGED <<config, outside>>

\* CancellationController.request, by whoever holds the controller.
RequestCancellation ==
    /\ phase \notin Ended /\ ~requested /\ requested' = TRUE
    /\ UNCHANGED <<config, phase, plan, loop, exhausted, result, mishaps>>

\* The usable execution budget runs out.
ExhaustBudget ==
    /\ During("executing") /\ ~exhausted /\ exhausted' = TRUE
    /\ UNCHANGED <<config, phase, plan, loop, requested, result, mishaps>>

PipelineNext == PipelineStep \/ RequestCancellation \/ ExhaustBudget

PipelineSpec == PipelineInit /\ [][PipelineNext]_pipelineVars

-----------------------------------------------------------------------------

\* Types; the records are those of the stages the loop has passed.
PipelineTypeOK ==
    /\ request \in Requests /\ {failFast, allowed, requested, exhausted} \subseteq BOOLEAN
    /\ phase \in Phases /\ (next > 1 => plan # Nothing)
    /\ place \in {"head", "budget", "prerequisites", "running", "escaped"}
    /\ next \in 1 .. Len(StageOrder) + 1
    /\ \A i \in DOMAIN StageOrder :
          record[StageOrder[i]] \in IF i < next THEN Record ELSE {Nothing}
    /\ fatal \in Stages \cup {Nothing} /\ (fatal # Nothing => Aborted)
    /\ reason \in Stages \cup {"cancellation", "budget", Nothing}
    /\ lateStarts \subseteq started /\ started \subseteq Stages
    /\ result \in Results \cup {Nothing}
    /\ mishaps \in 0 .. MaxMishaps

\* What a stage needs, directly or not: no chain of needs is longer than five.
Nearest == [s \in Stages |-> Needs(s)]
Farther(near) == [s \in Stages |-> Needs(s) \cup UNION {near[a] : a \in Needs(s)}]
Ancestors == Farther(Farther(Farther(Farther(Nearest))))

\* A stage is called only when every stage of the plan it rests on, at any
\* distance, was called and may be used: the plan cuts no chain when it leaves
\* a stage out, and the loop breaks none.
RanOnItsEvidence ==
    \A s \in started \cap Normal : \A a \in Ancestors[s] \cap plan.selected :
        a \in started /\ record[a] # Nothing /\ record[a][2]

\* While nothing aborts the run, a selected stage is left out only because a
\* stage it rests on was called and cannot be used; a contained failure, or one
\* elsewhere, costs nothing.
BlockedByAFailure ==
    plan # Nothing /\ ~Aborted => \A s \in plan.selected \cap Normal :
        record[s] = Skipped /\ s \notin started =>
            \E a \in Ancestors[s] \cap started : record[a] # Nothing /\ ~record[a][2]

\* After a request for cancellation, or once the budget is spent, at most the
\* one stage starts that had already been looked at.
OneStageAfterStop == Cardinality(lateStarts) <= 1

\* Whatever the handlers answered or raised, the reports and the manifest are
\* attempted before the loop is left, unless the run may not be finalized; without a
\* handler they are told as errors. Only an exception that execute_plan does not
\* contain prevents it, and then the run counts neither as completed nor as one
\* that failed its preflight.
ReportsAreAttempted ==
    /\ allowed /\ next > 1 /\ phase # "executing" /\ place # "escaped" =>
          \A s \in Finalization : s \in started \/ record[s] = Error
    /\ place = "escaped" => result \notin {"completed", "preflight_failure"}

\* docs/validation/VALIDATION_PIPELINE.md, 33.4: "Finalization must not hide the
\* original fatal error." A finalization stage that raises replaces it.
FatalIsKept == [][fatal # Nothing => fatal' = fatal]_fatal
=============================================================================
