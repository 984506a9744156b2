--------------------------- MODULE ProcessRunner ---------------------------
(***************************************************************************)
(* run_process (infrastructure/process/runner.py, termination.py,          *)
(* models.py): one request is captured, launched, monitored, terminated    *)
(* when its monitor says so, and turned into one ProcessResult. The        *)
(* capture is StreamCapture's; the owner of the capture is this runner.    *)
(* The root process and the descendants it spawns are external.            *)
(***************************************************************************)
EXTENDS StreamCapture

CONSTANTS
    Root,         \* the process Popen launches
    Containment,  \* ContainmentKind
    Reasons       \* cancellation reasons a caller's token may carry

ASSUME RunnerAssumption ==
    /\ Root \in Writers
    /\ Containment \in {"posix_process_group", "windows_process_group",
                        "root_process"}
    /\ Reasons \subseteq {"user", "application_shutdown", "controller_policy"}

VARIABLES
    proc,      \* each process: unborn, alive, escaped (left the group), dead
    killed,    \* processes a forced signal has reached
    token,     \* accepted reason of the cancellation token
    rpc,       \* where run_process is
    cause,     \* what _monitor_process returned
    facts,     \* _ExecutionFacts
    raising,   \* an exception is leaving _launch_and_monitor
    outcome    \* what the caller of run_process got

procVars == <<proc, killed>>
runVars == <<rpc, cause, facts, raising, outcome>>
runnerVars == <<captureVars, procVars, token, runVars>>

None == "none"
NoFacts == [state |-> None, pid |-> FALSE, exit |-> FALSE, reason |-> None,
            attempted |-> FALSE, succeeded |-> FALSE, overflow |-> FALSE]

Running(p) == proc[p] \in {"alive", "escaped"}
InGroup(p) == proc[p] = "alive"

Launched == proc[Root] # "unborn"

\* Mutant: only the root is asked.
RootStopped == ~Running(Root)

\* _is_stopped: the root was reaped and, on POSIX, its group is empty.
Stopped ==
    /\ ~Running(Root)
    /\ Containment = "posix_process_group" => \A p \in Writers : ~InGroup(p)

RunnerInit ==
    /\ CaptureInit
    /\ proc = [p \in Writers |-> "unborn"] /\ killed = {}
    /\ token = None /\ rpc = "open" /\ cause = None
    /\ facts = NoFacts /\ raising = FALSE /\ outcome = None

Goto(step) == rpc' = step /\ UNCHANGED <<cause, facts, raising, outcome>>

-----------------------------------------------------------------------------
(***************************************************************************)
(* run_process up to the monitor.                                          *)
(***************************************************************************)

OpenSession ==
    /\ rpc = "open"
    /\ \/ Open /\ Goto("check_token")
       \/ /\ OpenFails
          /\ rpc' = "end" /\ outcome' = "raised"
          /\ UNCHANGED <<cause, facts, raising>>
    /\ UNCHANGED <<procVars, token>>

CancelledBeforeLaunch ==
    /\ rpc = "check_token" /\ token # None
    /\ cause' = "cancelled"
    /\ facts' = [NoFacts EXCEPT !.state = "cancelled", !.reason = token]
    /\ rpc' = "finalize"
    /\ UNCHANGED <<raising, outcome, captureVars, procVars, token>>

TokenClear ==
    /\ rpc = "check_token" /\ token = None
    /\ Goto("launch")
    /\ UNCHANGED <<captureVars, procVars, token>>

\* Popen: the child holds copies of both write ends.
Launch ==
    /\ rpc = "launch" /\ Goto("start")
    /\ ChildInherits({Root})
    /\ proc' = [proc EXCEPT ![Root] = "alive"]
    /\ UNCHANGED <<killed, token>>

\* Mutants: the except clause also covers start(); the finally is skipped.
LaunchFailsLate ==
    /\ rpc \in {"launch", "start"}
    /\ cause' = "launch_failed"
    /\ facts' = [NoFacts EXCEPT !.state = "launch_failed"]
    /\ rpc' = "finalize"
    /\ UNCHANGED <<raising, outcome, captureVars, procVars, token>>
LaunchFailsUnfinalized ==
    /\ rpc = "launch"
    /\ cause' = "launch_failed"
    /\ facts' = [NoFacts EXCEPT !.state = "launch_failed"]
    /\ rpc' = "construct"
    /\ UNCHANGED <<raising, outcome, captureVars, procVars, token>>

LaunchFails ==
    /\ rpc = "launch"
    /\ cause' = "launch_failed"
    /\ facts' = [NoFacts EXCEPT !.state = "launch_failed"]
    /\ rpc' = "finalize"
    /\ UNCHANGED <<raising, outcome, captureVars, procVars, token>>

StartCapture ==
    /\ rpc = "start"
    /\ \/ Start /\ Goto("check_limit")
       \/ StartFails /\ Goto("start_failing")
    /\ UNCHANGED <<procVars, token>>

\* start() has summarised the capture it could not run, and raises.
StartRaises ==
    /\ rpc = "start_failing" /\ owner = "done"
    /\ rpc' = "contain" /\ raising' = TRUE
    /\ UNCHANGED <<cause, facts, outcome, captureVars, procVars, token>>

-----------------------------------------------------------------------------
(***************************************************************************)
(* _monitor_process: limit, cancellation, exit, deadline, sleep, again.    *)
(***************************************************************************)

TerminateFor(c) ==
    /\ cause' = c /\ rpc' = "terminate"
    /\ UNCHANGED <<facts, raising, outcome>>

CheckLimit ==
    /\ rpc = "check_limit"
    /\ IF budget.exceeded THEN TerminateFor("output_limit")
                          ELSE Goto("check_cancel")
    /\ UNCHANGED <<captureVars, procVars, token>>

CheckCancel ==
    /\ rpc = "check_cancel"
    /\ IF token # None THEN TerminateFor("cancelled") ELSE Goto("check_exit")
    /\ UNCHANGED <<captureVars, procVars, token>>

CheckExit ==
    /\ rpc = "check_exit"
    /\ IF Running(Root)
       THEN Goto("check_deadline")
       ELSE /\ cause' = "completed" /\ rpc' = "finalize"
            /\ facts' = [NoFacts EXCEPT !.state = "completed", !.pid = TRUE,
                                        !.exit = TRUE]
            /\ UNCHANGED <<raising, outcome>>
    /\ UNCHANGED <<captureVars, procVars, token>>

DeadlinePassed ==
    /\ rpc = "check_deadline" /\ TerminateFor("timed_out")
    /\ UNCHANGED <<captureVars, procVars, token>>

MonitorSleeps ==
    /\ rpc = "check_deadline" /\ Goto("check_limit")
    /\ UNCHANGED <<captureVars, procVars, token>>

-----------------------------------------------------------------------------
(***************************************************************************)
(* terminate_owned_processes, from _terminate_for_cause or, with the       *)
(* outcome dropped, from _contain_after_internal_failure.                  *)
(***************************************************************************)

\* _facts_from_termination for the cause at hand; the exit code is polled.
FactsOf(attempted, succeeded) ==
    [state |-> IF cause = "timed_out" THEN "timed_out" ELSE "cancelled",
     pid |-> TRUE, exit |-> ~Running(Root),
     reason |-> CASE cause = "timed_out" -> None
                  [] cause = "output_limit" -> "output_limit"
                  [] cause = "cancelled" -> token,
     attempted |-> attempted, succeeded |-> succeeded,
     overflow |-> cause = "output_limit"]

TerminationEnds(attempted, succeeded) ==
    /\ rpc' = "finalize"
    /\ facts' = IF raising THEN facts ELSE FactsOf(attempted, succeeded)
    /\ UNCHANGED <<cause, raising, outcome, captureVars, procVars, token>>

AlreadyStopped ==
    /\ rpc = "terminate" /\ Stopped
    /\ TerminationEnds(FALSE, TRUE)

\* The soft signal is only a request: a process may exit on it or ignore it.
RequestSoftTermination ==
    /\ rpc = "terminate" /\ ~Stopped
    /\ Goto("grace_wait")
    /\ UNCHANGED <<captureVars, procVars, token>>

StoppedInGrace ==
    /\ rpc = "grace_wait" /\ Stopped
    /\ TerminationEnds(TRUE, TRUE)

GraceExpires ==
    /\ rpc = "grace_wait" /\ ~Stopped
    /\ Goto("force")
    /\ UNCHANGED <<captureVars, procVars, token>>

\* Whom the forced signal is sent to.
ForceTargets ==
    IF Containment = "posix_process_group"
    THEN {p \in Writers : InGroup(p)}
    ELSE {Root} \cap {p \in Writers : Running(p)}

\* SIGKILL to the group (kill() of the root elsewhere), or an OSError.
RequestForcedTermination ==
    /\ rpc = "force" /\ Goto("force_wait")
    /\ \/ killed' = killed \cup ForceTargets
       \/ IOFaults /\ UNCHANGED killed
    /\ UNCHANGED <<captureVars, proc, token>>

StoppedByForce ==
    /\ rpc = "force_wait" /\ Stopped
    /\ TerminationEnds(TRUE, TRUE)

\* Mutant: a signal that was sent counts as a confirmed termination.
ForceWaitTrusts ==
    /\ rpc = "force_wait" /\ ~Stopped
    /\ TerminationEnds(TRUE, TRUE)

ForceWaitExpires ==
    /\ rpc = "force_wait" /\ ~Stopped
    /\ TerminationEnds(TRUE, FALSE)

\* KeyboardInterrupt in a wait or a check of _launch_and_monitor. The handler
\* contains the child; a second one leaves the handler at once.
Interrupted ==
    /\ Interrupts
    /\ rpc \in {"check_limit", "check_cancel", "check_exit", "check_deadline",
                "terminate", "grace_wait", "force", "force_wait", "contain"}
    /\ rpc' = IF raising THEN "finalize" ELSE "contain"
    /\ raising' = TRUE
    /\ UNCHANGED <<cause, facts, outcome, captureVars, procVars, token>>

\* One in the joins of start(), whose pumps did not run: the handler contains the child.
StartInterrupted ==
    /\ rpc = "start_failing" /\ FinalizeInterrupted
    /\ rpc' = "contain" /\ raising' = TRUE
    /\ UNCHANGED <<cause, facts, outcome, procVars, token>>

\* One before the child exists leaves through the finally clause of the session, one
\* after the finalization goes straight to the caller.
InterruptedOutside ==
    /\ Interrupts
    /\ \/ rpc \in {"check_token", "launch"} /\ rpc' = "finalize" /\ UNCHANGED outcome
       \/ rpc \in {"reconcile", "construct"} /\ rpc' = "end" /\ outcome' = "raised"
    /\ raising' = TRUE
    /\ UNCHANGED <<cause, facts, captureVars, procVars, token>>

\* One in capture.finalize: the finally clause of the session finalizes once more, and
\* one in that goes to the caller.
FinalizationInterrupted ==
    /\ rpc = "finalizing" /\ FinalizeInterrupted
    /\ IF raising THEN rpc' = "end" /\ outcome' = "raised"
                  ELSE rpc' = "finalize" /\ UNCHANGED outcome
    /\ raising' = TRUE
    /\ UNCHANGED <<cause, facts, procVars, token>>

\* Mutant: the exception leaves the child alone.
NotContained ==
    /\ rpc = "contain" /\ Goto("finalize")
    /\ UNCHANGED <<captureVars, procVars, token>>

\* _contain_after_internal_failure: nothing to do once the root is reaped.
Contain ==
    /\ rpc = "contain"
    /\ Goto(IF Running(Root) THEN "terminate" ELSE "finalize")
    /\ UNCHANGED <<captureVars, procVars, token>>

-----------------------------------------------------------------------------
(***************************************************************************)
(* Finalization and the result.                                            *)
(***************************************************************************)

FinalizeCapture ==
    /\ rpc = "finalize" /\ Goto("finalizing")
    /\ \/ FinalizeRunning
       \/ FinalizeUnstarted
       \/ lifecycle = "finalized" /\ UNCHANGED captureVars
    /\ UNCHANGED <<procVars, token>>

FinalizeCaptureStep ==
    /\ FinalizeStep
    /\ UNCHANGED <<procVars, token, runVars>>

CaptureFinalized ==
    /\ rpc = "finalizing" /\ owner \in {"done", "interrupted"}
    /\ IF raising
       THEN /\ rpc' = "end" /\ outcome' = "raised"
            /\ UNCHANGED <<cause, facts, raising>>
       ELSE Goto("reconcile")
    /\ UNCHANGED <<captureVars, procVars, token>>

\* Mutant: the late limit replaces every earlier cause.
ReconciledAlways(f) ==
    IF ~summary.exceeded THEN f
    ELSE [f EXCEPT !.overflow = TRUE, !.state = "cancelled", !.reason = "output_limit"]

\* _reconcile_capture_limit: the limit the monitor did not see in time.
Reconciled(f) ==
    IF ~summary.exceeded THEN f
    ELSE IF f.state = "completed"
         THEN [f EXCEPT !.overflow = TRUE, !.state = "cancelled",
                        !.reason = "output_limit"]
         ELSE [f EXCEPT !.overflow = TRUE]

Reconcile ==
    /\ rpc = "reconcile"
    /\ facts' = Reconciled(facts) /\ rpc' = "construct"
    /\ UNCHANGED <<cause, raising, outcome, captureVars, procVars, token>>

\* ProcessResult._validate_common_facts and _validate_terminal_state.
ValidFacts(f) ==
    /\ f.succeeded => f.attempted
    /\ f.attempted => f.pid
    /\ f.state = "launch_failed" => ~f.pid /\ ~f.exit /\ f.reason = None
    /\ f.state = "completed" => /\ f.pid /\ f.exit /\ f.reason = None
                                /\ ~f.attempted /\ ~f.overflow
    /\ f.state = "timed_out" => /\ f.pid /\ f.attempted /\ f.reason = None
                                /\ ~f.overflow
    /\ f.state = "cancelled" => /\ f.reason # None
                                /\ f.pid => f.attempted
                                /\ f.overflow <=> f.reason = "output_limit"

\* The constructor accepts the facts, or raises ValueError at the caller.
ConstructResult ==
    /\ rpc = "construct"
    /\ rpc' = "end"
    /\ outcome' = IF ValidFacts(facts) THEN "result" ELSE "raised"
    /\ UNCHANGED <<cause, facts, raising, captureVars, procVars, token>>

-----------------------------------------------------------------------------
(***************************************************************************)
(* The processes, and the thread that may cancel (external).               *)
(***************************************************************************)

Spawn(p, d) ==
    /\ Running(p) /\ p \notin killed /\ proc[d] = "unborn"
    /\ proc' = [proc EXCEPT ![d] = proc[p]]
    /\ holders' = [s \in Streams |-> IF p \in holders[s] THEN holders[s] \cup {d}
                                                         ELSE holders[s]]
    /\ UNCHANGED <<killed, token, runVars, produced, taken, pumpVars, closeVars,
                   ownerVars>>

\* setsid() in a descendant; the root leads its group and cannot leave it.
LeaveGroup(d) ==
    /\ d # Root /\ proc[d] = "alive" /\ d \notin killed
    /\ proc' = [proc EXCEPT ![d] = "escaped"]
    /\ UNCHANGED <<killed, token, runVars, captureVars>>

Exit(p) ==
    /\ Running(p)
    /\ proc' = [proc EXCEPT ![p] = "dead"]
    /\ holders' = [s \in Streams |-> holders[s] \ {p}]
    /\ UNCHANGED <<killed, token, runVars, produced, taken, pumpVars, closeVars,
                   ownerVars>>

ProcessStep ==
    \/ \E p, d \in Writers : Spawn(p, d)
    \/ \E d \in Writers : LeaveGroup(d)
    \/ \E p \in Writers : Exit(p)
    \/ /\ \E p \in Writers, s \in Streams : WriterEmits(p, s) \/ WriterCloses(p, s)
       /\ UNCHANGED <<procVars, token, runVars>>

RequestCancellation(reason) ==
    /\ token = None /\ outcome = None
    /\ token' = reason
    /\ UNCHANGED <<captureVars, procVars, runVars>>

PumpThread(s) == PumpStep(s) /\ UNCHANGED <<procVars, token, runVars>>

RunnerStep ==
    \/ OpenSession \/ CancelledBeforeLaunch \/ TokenClear
    \/ Launch \/ LaunchFails \/ StartCapture \/ StartRaises
    \/ CheckLimit \/ CheckCancel \/ CheckExit
    \/ DeadlinePassed \/ MonitorSleeps
    \/ AlreadyStopped \/ RequestSoftTermination \/ StoppedInGrace
    \/ GraceExpires \/ RequestForcedTermination \/ StoppedByForce
    \/ ForceWaitExpires \/ Contain
    \/ FinalizeCapture \/ FinalizeCaptureStep \/ CaptureFinalized
    \/ Reconcile \/ ConstructResult

RunnerFinished == rpc = "end" /\ UNCHANGED runnerVars

RunnerNext ==
    \/ RunnerStep
    \/ Interrupted \/ StartInterrupted \/ InterruptedOutside \/ FinalizationInterrupted
    \/ \E s \in Streams : PumpThread(s)
    \/ ProcessStep
    \/ \E reason \in Reasons : RequestCancellation(reason)
    \/ RunnerFinished

\* The runner's thread is scheduled, its deadline comes, and a process that
\* was sent SIGKILL dies. Nothing is assumed of the others.
RunnerFairness ==
    /\ WF_runnerVars(RunnerStep)
    /\ SF_runnerVars(DeadlinePassed)
    /\ \A p \in Writers : WF_runnerVars(p \in killed /\ Exit(p))

RunnerSpec == RunnerInit /\ [][RunnerNext]_runnerVars /\ RunnerFairness

-----------------------------------------------------------------------------
(***************************************************************************)
(* Properties.                                                             *)
(***************************************************************************)

RunnerStates == {"open", "check_token", "launch", "start", "start_failing",
                 "check_limit", "check_cancel", "check_exit", "check_deadline",
                 "terminate", "grace_wait", "force", "force_wait", "contain",
                 "finalize", "finalizing", "reconcile", "construct", "end"}
Causes == {"completed", "timed_out", "cancelled", "output_limit", "launch_failed"}
Facts == [state : {None, "completed", "timed_out", "cancelled", "launch_failed"},
          pid : BOOLEAN, exit : BOOLEAN,
          reason : Reasons \cup {None, "output_limit"},
          attempted : BOOLEAN, succeeded : BOOLEAN, overflow : BOOLEAN]

\* Every variable of the runner keeps its type.
RunnerTypeOK ==
    /\ CaptureTypeOK
    /\ proc \in [Writers -> {"unborn", "alive", "escaped", "dead"}]
    /\ killed \in SUBSET Writers
    /\ token \in Reasons \cup {None}
    /\ rpc \in RunnerStates
    /\ cause \in Causes \cup {None}
    /\ facts \in Facts
    /\ raising \in BOOLEAN
    /\ outcome \in {None, "result", "raised"}

\* A result that is returned tells the cause the monitor observed, whatever
\* cancellation, exit, deadline or output came later (run_process).
ResultTellsObservedCause ==
    outcome = "result" =>
        CASE cause = "output_limit" -> facts.state = "cancelled"
                                       /\ facts.reason = "output_limit"
          [] cause = "cancelled" -> facts.state = "cancelled"
                                    /\ facts.reason = token
          [] OTHER -> facts.state = cause /\ facts.reason = None

\* A process cannot race past its evidence budget and appear successful:
\* completed means that the limit was not crossed, and with capture_complete
\* that everything the process group wrote is in the evidence files.
CompletedWithinBudget ==
    outcome = "result" /\ facts.state = "completed" =>
        /\ Total(summary.observed) <= Limit
        /\ summary.complete => /\ \A s \in Streams : file[s] = produced[s]
                               /\ Total(produced) <= Limit

\* termination_succeeded is confirmed of the whole group where there is one,
\* and of the root elsewhere; nothing comes back to life after it.
ConfirmedTermination ==
    facts.succeeded =>
        /\ ~Running(Root)
        /\ Containment = "posix_process_group" => \A p \in Writers : ~InGroup(p)

\* However a request ends, both ends of both pipes are given back, and the path
\* reservation and the evidence files too, unless an interrupt fell into the release
\* of the paths or into the finalization of last resort (open_capture_session).
EverythingReleased ==
    rpc = "end" /\ lifecycle # "new" =>
        /\ \A s \in Streams : Parent \notin holders[s] /\ sourceClosed[s]
        /\ owner # "interrupted" =>
              ~reserved /\ summary.built /\ \A s \in Streams : sinkClosed[s]

\* Without interrupts and failing signals, no request ends with its root still
\* running: it has exited or SIGKILL has been sent to it, on the exception
\* paths too (_contain_after_internal_failure).
RootNotLeftRunning ==
    rpc = "end" /\ Running(Root) => Root \in killed

\* Every request ends, whatever the processes do with their pipes and signals.
RequestEnds == <>(rpc = "end")

-----------------------------------------------------------------------------
(***************************************************************************)
(* The runner implements the promise of ProcessExecution.                  *)
(***************************************************************************)

Phase ==
    CASE outcome # None -> "delivered"
      [] outcome = None /\ cause # None -> "settled"
      [] outcome = None /\ cause = None /\ Launched -> "running"
      [] OTHER -> "requested"

Promise == INSTANCE ProcessExecution
    WITH Causes <- Causes \ {"launch_failed"}, phase <- Phase,
         verdict <- IF outcome = "result" THEN facts.state ELSE outcome

\* One launch, the first cause wins, one verdict, and always a verdict.
ImplementsPromise == Promise!Spec

-----------------------------------------------------------------------------
(***************************************************************************)
(* What the documentation says of the runner and the code does not do.     *)
(***************************************************************************)

\* "When the limit is exceeded ... the result uses execution_state =
\* cancelled" (docs/architecture/PROCESS_EXECUTION_MODEL.md, 30).
OverflowBecomesResult ==
    outcome = "raised" /\ ~raising => ~(summary.built /\ summary.exceeded)

\* "The runner records whichever cause was observed first"
\* (docs/architecture/PROCESS_EXECUTION_MODEL.md, 39).
ObservedCauseBecomesResult ==
    outcome = "raised" /\ ~raising /\ ~(summary.built /\ summary.exceeded)
        => cause \notin {"timed_out", "cancelled"}

\* "The runner must avoid leaving owned child processes running after the
\* parent result is finalized" (PROCESS_EXECUTION_MODEL.md, 40).
NoOwnedProcessAfterResult ==
    outcome = "result" => \A p \in Writers : ~InGroup(p) \/ p \in killed

=============================================================================
