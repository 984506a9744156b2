--------------------------- MODULE RunFinalization ---------------------------
(***************************************************************************)
(* finalize_run of runs/finalizer.py on one run directory, with the        *)
(* lifecycle of runs/lifecycle.py. Its operations come from the caller;    *)
(* they are what the fakes of tests/unit/runs/test_finalizer.py and        *)
(* tests/integration/end_to_end/test_partial_run_finalization.py are.      *)
(* A result is what it tells: the failures it lists. The tree is the       *)
(* directory: what its reports tell and how often a late writer changed    *)
(* it. A manifest is the tree it was computed from.                        *)
(***************************************************************************)
EXTENDS Naturals

CONSTANTS
    MaxPasses,    \* max_consistency_passes
    MaxCalls,     \* bound: calls of finalize_run on the run
    MaxFaults,    \* bound: operations that raise or publish too little
    MaxWrites,    \* bound: writes of processes and writers still open
    None          \* no manifest, no report, no result, no last run

Terminal == {"finalized", "incomplete"}

ASSUME FinalizationAssumption ==
    /\ MaxPasses \in 1 .. 4
    /\ {MaxCalls, MaxFaults, MaxWrites} \subseteq Nat
    /\ None \notin Terminal

VARIABLES
    lifecycle,    \* the state of the run
    open,         \* owned processes and writers that may still write
    tree,         \* the run directory
    manifest,     \* the manifest in it
    pointer,      \* the last run of the application state
    pc,           \* the step of the call in progress
    late,         \* whether the deadline of the call has passed
    failures,     \* the failures recorded by the call
    current,      \* the prepared result
    pass,         \* consistency_passes
    verified,     \* manifest_verified
    disposition,  \* the disposition of the outcome
    verdicts,     \* every disposition returned for this run
    reopened,     \* history: whether finalize_run was called on the finalized run
    calls, faults

run == <<lifecycle, open, tree, manifest, pointer>>
call == <<pc, late, failures, current, pass, verified, disposition>>
vars == <<run, call, verdicts, reopened, calls, faults>>

Causes == {"error", "refused", "deadline", "unstable", "optional"}
Attempted == {"mark_finalizing", "stop_owned_processes", "close_stage_writers",
              "close_non_manifest_writers", "mark_finalized", "mark_incomplete",
              "update_last_run"}
Published == {"publish_artifacts", "publish_manifest", "verify_manifest"}
\* The calls of _prepare_result, by what follows them.
Prepared == {"prepare", "settle", "explain", "reconsider", "conclude", "tell"}
Resting == {"idle", "returned"}
Failure == (Attempted \cup Published \cup {"prepare_result"}) \X Causes
Required(failure) ==
    failure[1] \notin {"mark_incomplete", "update_last_run"} /\ failure[2] # "optional"

\* _ALLOWED_TRANSITIONS, without what an operator does to a terminated run.
Transitions(state) ==
    CASE state = "initialized" -> {"executing", "incomplete"}
      [] state = "executing"   -> {"finalizing", "incomplete"}
      [] state = "finalizing"  -> {"finalized", "incomplete"}
      [] state \in {"finalized", "incomplete"} -> {}

MayBecome(state) == state = lifecycle \/ state \in Transitions(lifecycle)

Init ==
    /\ lifecycle \in {"initialized", "executing"}
    /\ open \in SUBSET {"process", "stage_writer"}
    /\ tree = [told |-> None, edition |-> 0]
    /\ manifest = None /\ pointer = None
    /\ pc = "idle" /\ late = FALSE /\ failures = {} /\ current = None
    /\ pass = 0 /\ verified = FALSE /\ disposition = None
    /\ verdicts = {} /\ reopened = FALSE /\ calls = 0 /\ faults = 0

-----------------------------------------------------------------------------

Faulty == faults < MaxFaults /\ faults' = faults + 1
Records(step, cause) == failures' = failures \cup {<<step, cause>>}
Clean == UNCHANGED <<failures, faults>>

\* Mutant: only the deadline keeps a step from being done.
UnableInTime(step) ==
    \/ late /\ Records(step, "deadline") /\ UNCHANGED faults
    \/ ~late /\ Faulty /\ UNCHANGED failures

\* The ways _attempt does not do its operation, which changes nothing then.
Unable(step) ==
    \/ late /\ Records(step, "deadline") /\ UNCHANGED faults
    \/ ~late /\ Faulty /\ Records(step, "error")

\* _attempt of an operation that moves the run to another state.
Moves(step, state) ==
    \/ Unable(step) /\ UNCHANGED lifecycle
    \/ ~late /\ ~MayBecome(state) /\ Records(step, "refused") /\ UNCHANGED <<lifecycle, faults>>
    \/ ~late /\ MayBecome(state) /\ lifecycle' = state /\ Clean

\* _attempt of an operation that closes processes or writers.
Closes(step, writer) ==
    /\ \/ Unable(step) /\ UNCHANGED open
       \/ ~late /\ open' = open \ {writer} /\ Clean
    /\ UNCHANGED <<lifecycle, tree, manifest, pointer>>

\* _prepare_result: the result tells the failures, or the operation raises and
\* the result stays as it was.
PrepareTells == current' = failures /\ Clean
PrepareRaises == Faulty /\ Records("prepare_result", "error") /\ UNCHANGED current
Prepare == (PrepareTells \/ PrepareRaises) /\ UNCHANGED run

\* Mutant: one pass more than the request allows.
PassesLeftOneMore == pass <= MaxPasses
\* pass_index + 1 < max_consistency_passes.
PassesLeft == pass < MaxPasses

\* Mutant: the pass is not counted.
ThisPassUncounted == pass
\* consistency_passes = pass_index + 1.
ThisPass == pass + 1

At(step) == pc = step
GoTo(step) == pc' = step

\* finalize_run is called with a result of its own and a deadline ahead, whatever
\* became of the run before: that it is finalized is noticed by mark_finalizing.
Call ==
    /\ pc \in Resting /\ calls < MaxCalls
    /\ GoTo("mark_finalizing")
    /\ late' = FALSE /\ failures' = {} /\ current' = None
    /\ pass' = 0 /\ verified' = FALSE /\ disposition' = None
    /\ calls' = calls + 1 /\ reopened' = (reopened \/ lifecycle = "finalized")
    /\ UNCHANGED <<run, verdicts, faults>>

MarkFinalizing ==
    /\ At("mark_finalizing") /\ GoTo("stop_owned_processes")
    /\ Moves("mark_finalizing", "finalizing")
    /\ UNCHANGED <<open, tree, manifest, pointer, current, pass, verified, disposition>>

StopOwnedProcesses ==
    /\ At("stop_owned_processes") /\ GoTo("close_stage_writers")
    /\ Closes("stop_owned_processes", "process")
    /\ UNCHANGED <<current, pass, verified, disposition>>

CloseStageWriters ==
    /\ At("close_stage_writers") /\ GoTo("prepare")
    /\ Closes("close_stage_writers", "stage_writer")
    /\ UNCHANGED <<current, pass, verified, disposition>>

PrepareFirst ==
    /\ At("prepare") /\ GoTo("publish_artifacts")
    /\ Prepare
    /\ UNCHANGED <<pass, verified, disposition>>

\* Mutant: the writers of the reports stay open.
AfterReportsUnclosed == "settle"
\* What follows the publication of the reports.
AfterReports == "close_non_manifest_writers"

\* A pass starts: the deadline, then the reports, with those that are missing
\* recorded; the batch may also be refused, or not come at all.
PublishArtifacts ==
    /\ At("publish_artifacts") /\ pass' = ThisPass
    /\ \/ /\ late /\ GoTo("conclude")
          /\ Records("publish_artifacts", "deadline")
          /\ UNCHANGED <<open, tree, faults>>
       \/ /\ ~late /\ GoTo(AfterReports)
          /\ open' = open \cup {"report_writer"}
          /\ \/ Clean /\ tree' = [tree EXCEPT !.told = current]
             \/ /\ Faulty /\ Records("publish_artifacts", "optional")
                /\ tree' = [tree EXCEPT !.told = current]
             \/ /\ Faulty /\ Records("publish_artifacts", "error")
                /\ tree' \in {tree, [tree EXCEPT !.told = current]}
    /\ UNCHANGED <<lifecycle, manifest, pointer, current, verified, disposition>>

CloseNonManifestWriters ==
    /\ At("close_non_manifest_writers") /\ GoTo("settle")
    /\ Closes("close_non_manifest_writers", "report_writer")
    /\ UNCHANGED <<current, pass, verified, disposition>>

\* Mutant: the reports are left as they are.
PublishManifestAnyway == "publish_manifest"
\* Where a pass goes whose reports the result has outgrown.
PublishAgain == "publish_artifacts"

\* The result is prepared again and must not have changed since the reports: in
\* what it tells, or in what the caller compares besides (a time, a size).
Settle ==
    /\ At("settle")
    /\ \/ PrepareRaises /\ GoTo("publish_manifest")
       \/ failures = current /\ Clean /\ GoTo("publish_manifest") /\ UNCHANGED current
       \/ /\ current' = failures /\ UNCHANGED faults
          /\ IF PassesLeft THEN GoTo(PublishAgain) /\ UNCHANGED failures
             ELSE GoTo("conclude") /\ Records("prepare_result", "unstable")
    /\ UNCHANGED <<run, pass, verified, disposition>>

\* _publish_manifest and _validate_manifest_path.
PublishManifest ==
    /\ At("publish_manifest")
    /\ \/ /\ late /\ Records("publish_manifest", "deadline")
          /\ GoTo("conclude") /\ UNCHANGED <<manifest, faults>>
       \/ /\ ~late /\ Faulty /\ Records("publish_manifest", "error")
          /\ GoTo("explain") /\ manifest' \in {manifest, tree}
       \/ ~late /\ Clean /\ GoTo("verify_manifest") /\ manifest' = tree
    /\ UNCHANGED <<lifecycle, open, tree, pointer, current, pass, verified, disposition>>

Explain ==
    /\ At("explain") /\ GoTo("conclude")
    /\ Prepare
    /\ UNCHANGED <<pass, verified, disposition>>

\* _verify_manifest reads the tree again.
VerifyManifest ==
    /\ At("verify_manifest")
    /\ \/ /\ manifest = tree /\ Clean
          /\ verified' = TRUE /\ GoTo("conclude")
       \/ /\ IF manifest = tree THEN Faulty ELSE UNCHANGED faults
          /\ Records("verify_manifest", "error")
          /\ UNCHANGED verified /\ GoTo("reconsider")
    /\ UNCHANGED <<run, current, pass, disposition>>

Reconsider ==
    /\ At("reconsider")
    /\ \/ Prepare /\ current' = current /\ GoTo("conclude")
       \/ /\ PrepareTells /\ UNCHANGED run
          /\ GoTo(IF PassesLeft THEN "publish_artifacts" ELSE "conclude")
    /\ UNCHANGED <<pass, verified, disposition>>

\* The last preparation, and whether the run may be finalized.
Conclude ==
    /\ At("conclude")
    /\ Prepare
    /\ IF verified /\ ~\E f \in failures' : Required(f)
       THEN GoTo("mark_finalized") /\ UNCHANGED disposition
       ELSE GoTo("tell") /\ disposition' = "incomplete"
    /\ UNCHANGED <<pass, verified>>

\* Mutant: the run counts as finalized before it is marked.
DispositionAnyway == "finalized"
\* The disposition of a run that could not be marked.
DispositionUnmarked == "incomplete"

MarkFinalized ==
    /\ At("mark_finalized")
    /\ Moves("mark_finalized", "finalized")
    /\ IF failures' = failures
       THEN disposition' = "finalized" /\ GoTo("update_last_run") /\ UNCHANGED verified
       ELSE /\ disposition' = DispositionUnmarked
            /\ verified' = FALSE /\ GoTo("tell")
    /\ UNCHANGED <<open, tree, manifest, pointer, current, pass>>

Tell ==
    /\ At("tell") /\ GoTo("mark_incomplete")
    /\ Prepare
    /\ UNCHANGED <<pass, verified, disposition>>

MarkIncomplete ==
    /\ At("mark_incomplete") /\ GoTo("update_last_run")
    /\ Moves("mark_incomplete", "incomplete")
    /\ UNCHANGED <<open, tree, manifest, pointer, current, pass, verified, disposition>>

UpdateLastRun ==
    /\ At("update_last_run") /\ GoTo("returned")
    /\ \/ Unable("update_last_run") /\ UNCHANGED pointer
       \/ /\ ~late /\ Clean
          /\ pointer' = [disposition |-> disposition,
                         manifest |-> IF verified THEN manifest ELSE None]
    /\ verdicts' = verdicts \cup {disposition}
    /\ UNCHANGED <<lifecycle, open, tree, manifest, current, pass, verified, disposition>>

Step ==
    /\ \/ MarkFinalizing \/ StopOwnedProcesses \/ CloseStageWriters \/ PrepareFirst
       \/ PublishArtifacts \/ CloseNonManifestWriters \/ Settle
       \/ PublishManifest \/ Explain \/ VerifyManifest \/ Reconsider
       \/ Conclude \/ MarkFinalized \/ Tell \/ MarkIncomplete
    /\ UNCHANGED <<late, verdicts, reopened, calls>>

Return == UpdateLastRun /\ UNCHANGED <<late, reopened, calls>>

-----------------------------------------------------------------------------

\* The deadline of the call passes.
TimePasses ==
    /\ pc \notin Resting /\ ~late
    /\ late' = TRUE
    /\ UNCHANGED <<run, pc, failures, current, pass, verified, disposition,
                   verdicts, reopened, calls, faults>>

\* A process or a writer nobody stopped adds to the evidence.
LateWrite ==
    /\ open # {} /\ tree.edition < MaxWrites
    /\ tree' = [tree EXCEPT !.edition = @ + 1]
    /\ UNCHANGED <<lifecycle, open, manifest, pointer, call, verdicts, reopened, calls, faults>>

\* The program stops during a call; a process it started may live on.
Crash ==
    /\ pc \notin Resting
    /\ GoTo("idle")
    /\ open' \in {{}, open \cap {"process"}}
    /\ late' = FALSE /\ failures' = {} /\ current' = None
    /\ pass' = 0 /\ verified' = FALSE /\ disposition' = None
    /\ UNCHANGED <<lifecycle, tree, manifest, pointer, verdicts, reopened, calls, faults>>

Next == Call \/ Step \/ Return \/ TimePasses \/ LateWrite \/ Crash

Spec == Init /\ [][Next]_vars

\* The function is synchronous and its operations return.
FairSpec == Spec /\ WF_vars(Step) /\ WF_vars(Return)

-----------------------------------------------------------------------------

\* Types. The passes stay within max_consistency_passes, also when a failed
\* verification starts another one.
FinalizationTypeOK ==
    /\ lifecycle \in {"initialized", "executing", "finalizing"} \cup Terminal
    /\ open \subseteq {"process", "stage_writer", "report_writer"}
    /\ tree.edition \in 0 .. MaxWrites
    /\ \A told \in {tree.told, current} : told = None \/ told \subseteq Failure
    /\ manifest # None => manifest.edition \in 0 .. tree.edition
    /\ pc \in Attempted \cup Published \cup Prepared \cup Resting
    /\ failures \subseteq Failure /\ pass \in 0 .. MaxPasses
    /\ {late, verified, reopened} \subseteq BOOLEAN
    /\ {disposition} \cup verdicts \subseteq Terminal \cup {None}

\* Nothing but another call of finalize_run changes the directory of a finalized
\* run: no process or writer that could not be stopped touches its evidence or its
\* manifest. (Another call does change it: README, section 6.)
FinalizedIsSealed ==
    [][lifecycle = "finalized" /\ ~reopened' => UNCHANGED <<tree, manifest>>]_vars

\* The manifest of a finalized run is the one of its directory, whatever wrote to it
\* while the run was being finalized. Another call on the finalized run may spoil
\* the manifest, but never returns that it finalized the run.
FinalizedIsManifested ==
    /\ lifecycle = "finalized" /\ ~reopened => manifest = tree
    /\ disposition = "finalized" => ~reopened

\* The reports of a finalized run tell every failure the finalization met, the
\* optional artifacts it could not publish included; only the update of the
\* last run comes after them.
FinalizedTellsAll ==
    disposition = "finalized" =>
        tree.told = {f \in failures : f[1] # "update_last_run"}

\* When the application state says that the last run was finalized, the directory
\* says so too, and the manifest named is the one that was verified, until another
\* call of finalize_run on that run replaces it.
LastRunIsTrue ==
    pointer # None /\ pointer.disposition = "finalized" =>
        lifecycle = "finalized" /\ (reopened \/ pointer.manifest = manifest)

\* finalize_run returns, however often the result changes under it.
Returns == pc \notin Resting ~> pc \in Resting

\* ADR-0010: "Un timeout, une annulation ou un echec tardif conduit a un etat
\* terminal explicite." After the deadline nobody marks the run incomplete.
EndsInTerminalState ==
    pc = "returned" /\ <<"mark_incomplete", "error">> \notin failures =>
        lifecycle \in Terminal

\* ADR-0010: a new attempt must not turn an incomplete result into a success.
\* An outcome that was incomplete because of the deadline becomes a finalized one.
IncompleteNeverSucceeds ==
    ~({"incomplete", "finalized"} \subseteq verdicts)
=============================================================================
