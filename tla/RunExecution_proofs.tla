-------------------------- MODULE RunExecution_proofs --------------------------
(***************************************************************************)
(* Proofs about the two halves of a run: the pipeline of execute_run       *)
(* (RunPipeline), for every set of requests and every number of mishaps,   *)
(* and its finalization (RunFinalization), for every number of passes,     *)
(* calls, faults and late writes.                                          *)
(***************************************************************************)
EXTENDS RunPipeline, RunFinalization, FiniteSetTheorems, TLAPS

-----------------------------------------------------------------------------
\* The stages by name.
LEMMA StageNames ==
    /\ DOMAIN StageOrder = 1 .. 19 /\ Len(StageOrder) = 19
    /\ Stages = Normal \cup Finalization
    /\ Normal = {"configuration", "environment", "version_probe", "selection", "static_scan",
                "fingerprint", "compile_sources", "compile_checkpoints",
                "compile_entrypoints", "classify_failures", "run_scenarios",
                "normalize_outputs", "evaluate_assertions", "compare_gold", "build_pgf",
                "compare_previous", "evaluate_release_gates"}
<1>1. DOMAIN StageOrder = 1 .. 19 /\ Len(StageOrder) = 19
  BY DEF StageOrder
<1>2. Stages = {StageOrder[i] : i \in 1 .. 19}
  BY <1>1 DEF Stages
<1>3. Stages = {"configuration", "environment", "version_probe", "selection", "static_scan",
                "fingerprint", "compile_sources", "compile_checkpoints",
                "compile_entrypoints", "classify_failures", "run_scenarios",
                "normalize_outputs", "evaluate_assertions", "compare_gold", "build_pgf",
                "compare_previous", "evaluate_release_gates", "write_reports",
                "write_manifest"}
  BY <1>2 DEF StageOrder
<1> QED
  BY <1>1, <1>3 DEF Normal, Finalization

\* No stage is twice in the order.
LEMMA OncePerStage ==
    ASSUME NEW i \in DOMAIN StageOrder, NEW j \in DOMAIN StageOrder,
           StageOrder[i] = StageOrder[j]
    PROVE  i = j
<1>1. i \in 1 .. 19 /\ j \in 1 .. 19
  BY StageNames
<1> QED
  BY <1>1 DEF StageOrder

\* What a stage needs comes before it in the order (_STAGE_ORDER, _PREREQUISITES).
LEMMA NeedsComeFirst ==
    ASSUME NEW i \in DOMAIN StageOrder, NEW a \in Needs(StageOrder[i])
    PROVE  \E j \in DOMAIN StageOrder : j < i /\ StageOrder[j] = a
<1>1. i \in 1 .. 19 /\ DOMAIN StageOrder = 1 .. 19
  BY StageNames
<1> QED
  BY <1>1 DEF StageOrder, Needs, CompileStages

\* The plan of an accepted request selects what its normal stages need: dropping
\* unselected prerequisites drops none (resolve_execution_plan).
LEMMA PlanIsClosed ==
    ASSUME NEW r, Accepted(r), NEW s \in Enabled(r) \cap Normal
    PROVE  Needs(s) \subseteq Enabled(r) \cap Normal
<1>1. s \in {"configuration", "environment", "version_probe", "selection", "static_scan",
                "fingerprint", "compile_sources", "compile_checkpoints",
                "compile_entrypoints", "classify_failures", "run_scenarios",
                "normalize_outputs", "evaluate_assertions", "compare_gold", "build_pgf",
                "compare_previous", "evaluate_release_gates"}
  BY StageNames
<1> QED
  BY <1>1, StageNames DEF Needs, Enabled, Accepted, CompileStages, ScenarioStages, Always,
       Finalization, OnlyWhen, BuildsPgf

\* The phases that come after the plan.
PlanNeeded == {"planned", "preflight", "ready", "executing"}

\* PipelineTypes, and the plan is the one of the request.
PipelineTypes ==
    /\ PipelineTypeOK
    /\ record \in [Stages -> Record \cup {Nothing}]
    /\ plan # Nothing =>
          /\ plan = [selected |-> Enabled(request), required |-> RequiredStages(request)]
          /\ Accepted(request)
    /\ phase \in PlanNeeded => plan # Nothing

\* Between the looks and the handler the stage in hand is one of the plan; only
\* normal stages look at the budget; a stage that started has a record or runs.
InPlace ==
    /\ place \in {"budget", "prerequisites", "running"} =>
          phase = "executing" /\ next <= Len(StageOrder) /\ Stage \in plan.selected
    /\ place = "budget" => ~Finalizing
    /\ place = "running" => Stage \in started
    /\ started # {} => plan # Nothing /\ started \subseteq plan.selected
    /\ \A s \in started : record[s] # Nothing \/ (place \in {"running", "escaped"} /\ s = Stage)

\* A stage that may be used was called, and a normal stage was called only with
\* everything it needs directly at hand.
DirectEvidence ==
    \A s \in Stages :
        /\ Available(s) => s \in started
        /\ s \in started \cap Normal =>
              Needs(s) \subseteq Normal /\ \A a \in Needs(s) : Available(a)

\* A stage was passed without a call; a stage cannot be used.
LeftOut(s) == record[s] = Skipped /\ s \notin started
Failed(s) == record[s] # Nothing /\ ~record[s][2]

\* While nothing aborts the run, a stage without a call was skipped, and a selected
\* one because a stage it needs directly cannot be used.
DirectBlame ==
    ~Aborted =>
        /\ \A s \in Stages : record[s] # Nothing /\ s \notin started => record[s] = Skipped
        /\ plan # Nothing => \A s \in plan.selected \cap Normal :
               LeftOut(s) => \E a \in Needs(s) : Failed(a)

\* The one late start, and which looks rule out a second one.
LateStart ==
    /\ lateStarts = {} \/ \E s \in Stages : lateStarts = {s}
    /\ lateStarts # {} => requested \/ exhausted
    /\ place = "budget" /\ lateStarts # {} => exhausted
    /\ place = "prerequisites" /\ ~Finalizing => lateStarts = {}

\* The loop ends behind the last stage or with an exception it does not contain; no
\* finalization stage is passed over when the run may be finalized.
ReportsTried ==
    /\ next > 1 /\ phase # "executing" /\ place # "escaped" => next > Len(StageOrder)
    /\ allowed => \A s \in Finalization :
          record[s] # Nothing => s \in started \/ record[s] = Error

\* Nothing is no record, no stage, no reason and no plan.
LEMMA NothingElse ==
    /\ \A r \in Record : r # Nothing
    /\ \A s \in Stages \cup {"cancellation", "budget"} : s # Nothing
    /\ \A r : Accepted(r) => [selected |-> Enabled(r), required |-> RequiredStages(r)]
                                # Nothing
<1>1. \A r : Enabled(r) \subseteq Stages /\ RequiredStages(r) \subseteq Stages
  BY StageNames DEF Enabled, RequiredStages, OnlyWhen, Always, ScenarioStages, Finalization
<1>2. \A r : [selected |-> Enabled(r), required |-> RequiredStages(r)]
                 \in [selected : SUBSET Stages, required : SUBSET Stages]
  BY <1>1
<1> QED
  BY <1>2, PipelineAssumption

\* The stage in hand has no record yet.
LEMMA InHand ==
    ASSUME PipelineTypes, phase = "executing", next <= Len(StageOrder)
    PROVE  /\ next \in DOMAIN StageOrder /\ Stage \in Stages
           /\ record[Stage] = Nothing
           /\ plan # Nothing /\ plan.selected = Enabled(request)
<1>1. next \in DOMAIN StageOrder
  BY StageNames DEF PipelineTypes, PipelineTypeOK
<1> QED
  BY <1>1 DEF PipelineTypes, PipelineTypeOK, Stage, Stages, PlanNeeded

\* _append_record: one more stage has a record, and no other record changes.
LEMMA AppendsRecords ==
    ASSUME PipelineTypes, phase = "executing", next <= Len(StageOrder),
           NEW r \in Record, Appends(r)
    PROVE  /\ record' \in [Stages -> Record \cup {Nothing}]
           /\ next' = next + 1 /\ next' \in 1 .. Len(StageOrder) + 1 /\ place' = "head"
           /\ \A i \in DOMAIN StageOrder :
                 record'[StageOrder[i]] \in IF i < next' THEN Record ELSE {Nothing}
           /\ record'[Stage] = r
           /\ \A s \in Stages \ {Stage} : record'[s] = record[s]
           /\ \A s \in Stages : record[s] # Nothing => record'[s] = record[s]
<1>1. next \in DOMAIN StageOrder /\ Stage \in Stages /\ record[Stage] = Nothing
  BY InHand
<1>2. /\ record' = [record EXCEPT ![Stage] = r] /\ next' = next + 1 /\ place' = "head"
      /\ next \in 1 .. 20 /\ Len(StageOrder) = 19 /\ DOMAIN StageOrder = 1 .. 19
  BY StageNames DEF Appends, PipelineTypes, PipelineTypeOK
<1>3. record' \in [Stages -> Record \cup {Nothing}] /\ record'[Stage] = r
      /\ \A s \in Stages \ {Stage} : record'[s] = record[s]
  BY <1>1, <1>2 DEF PipelineTypes
<1>4. ASSUME NEW i \in DOMAIN StageOrder
      PROVE  record'[StageOrder[i]] \in IF i < next' THEN Record ELSE {Nothing}
  <2>1. StageOrder[i] \in Stages
    BY DEF Stages
  <2>2. CASE i = next
    BY <2>2, <1>2, <1>3 DEF Stage
  <2>3. CASE i # next
    <3>1. StageOrder[i] # Stage
      BY <2>3, <1>1, OncePerStage DEF Stage
    <3>2. record'[StageOrder[i]] = record[StageOrder[i]]
      BY <3>1, <2>1, <1>3
    <3>3. record[StageOrder[i]] \in IF i < next THEN Record ELSE {Nothing}
      BY DEF PipelineTypes, PipelineTypeOK
    <3> QED
      BY <3>2, <3>3, <2>3, <1>2
  <2> QED
    BY <2>2, <2>3
<1>5. next' \in 1 .. Len(StageOrder) + 1
  BY <1>1, <1>2
<1> QED
  BY <1>1, <1>2, <1>3, <1>4, <1>5

\* An iteration appends one record, with an abort or without, or goes on to the next
\* place of the stage in hand.
LEMMA IterationAppends ==
    ASSUME PipelineTypes, Iteration
    PROVE  /\ phase = "executing" /\ next <= Len(StageOrder)
           /\ UNCHANGED <<phase, result, started, lateStarts>>
           /\ mishaps' \in 0 .. MaxMishaps
           /\ \/ /\ \E r \in Record : Appends(r)
                 /\ reason' = reason \/ (reason' \in Stages \cup {"cancellation", "budget"})
                 /\ fatal' = fatal \/ (fatal' = Stage /\ reason' = Stage)
              \/ /\ UNCHANGED <<next, record, reason, fatal>>
                 /\ place' \in {"budget", "prerequisites"}
<1>1. /\ phase = "executing" /\ next <= Len(StageOrder)
      /\ UNCHANGED <<phase, result, started, lateStarts>>
  BY DEF Iteration, In, SkipStage, LookAtCancellation, LookAtBudget, Block, Unhandled,
     Answer,
         AnswerCancelled, AnswerRaises
<1>2. Stage \in Stages
  BY <1>1, InHand
<1>3. mishaps' \in 0 .. MaxMishaps
  <2>1. mishaps' = mishaps \/ Mishap
    BY DEF Iteration, Sound, Mishap, Answer, AnswerCancelled, AnswerRaises
  <2> QED
    BY <2>1, PipelineAssumption DEF Mishap, PipelineTypes, PipelineTypeOK
<1>4. Skipped \in Record /\ Error \in Record
  BY DEF Skipped, Error, Record
<1>5. CASE SkipStage \/ Block
  BY <1>1, <1>3, <1>4, <1>5 DEF SkipStage, Block, Skips
<1>6. CASE LookAtCancellation
  BY <1>1, <1>3, <1>4, <1>6 DEF LookAtCancellation, Skips, Goes, Aborts
<1>7. CASE LookAtBudget
  BY <1>1, <1>3, <1>4, <1>7 DEF LookAtBudget, Skips, Goes, Aborts
<1>8. CASE Unhandled \/ AnswerRaises \/ AnswerCancelled
  BY <1>1, <1>3, <1>2, <1>4, <1>8 DEF Unhandled, AnswerRaises, AnswerCancelled, Aborts
<1>9. CASE Answer
  BY <1>1, <1>3, <1>2, <1>9 DEF Answer, Aborts
<1> QED
  BY <1>1, <1>3, <1>5, <1>6, <1>7, <1>8, <1>9 DEF Iteration

\* Iterations keep the types.
LEMMA IterationKeepsTypes ==
    ASSUME PipelineTypes, Iteration, UNCHANGED <<config, outside, plan>>
    PROVE  PipelineTypes'
<1>1. CASE \E r \in Record : Appends(r)
  BY <1>1, IterationAppends, AppendsRecords, NothingElse, InHand
     DEF PipelineTypes, PipelineTypeOK, config, outside, Aborted
<1>2. CASE UNCHANGED <<next, record, reason, fatal>> /\ place' \in {"budget", "prerequisites"}
  BY <1>2, IterationAppends DEF PipelineTypes, PipelineTypeOK, config, outside, Aborted
<1> QED
  BY <1>1, <1>2, IterationAppends

\* A mishap stays within the bound.
LEMMA MishapsBounded ==
    ASSUME PipelineTypes, Mishap \/ Sound
    PROVE  mishaps' \in 0 .. MaxMishaps
BY PipelineAssumption DEF Mishap, Sound, PipelineTypes, PipelineTypeOK

\* The phases outside the loop.
LEMMA OuterKeepsTypes ==
    ASSUME PipelineTypes, UNCHANGED <<config, outside>>,
           \/ Plan
           \/ /\ UNCHANGED plan
              /\ \/ Check \/ ServiceCancelled \/ Preflight \/ BuildResult \/ BuildFailureResult
                 \/ Finalize \/ EndLoop \/ LeavesLoop
    PROVE  PipelineTypes'
<1> USE DEF PipelineTypes, PipelineTypeOK, config, outside, loop, Aborted, Phases, During,
       Enter, PlanNeeded, Results
<1>1. CASE Plan
  <2> DEFINE made == [selected |-> Enabled(request), required |-> RequiredStages(request)]
  <2>1. /\ plan' = plan \/ (Accepted(request) /\ plan' = made)
        /\ phase' = "planned" => Accepted(request) /\ plan' = made
        /\ phase' \in {"planned", "failed"}
        /\ (Mishap \/ Sound) /\ UNCHANGED <<loop, result>>
    BY <1>1 DEF Plan, Raises
  <2> QED
    BY <1>1, <2>1, NothingElse, MishapsBounded DEF Plan, Raises
<1>2. CASE Check /\ UNCHANGED plan
  BY <1>2 DEF Check
<1>3. CASE ServiceCancelled /\ UNCHANGED plan
  BY <1>3 DEF ServiceCancelled
<1>4. CASE Preflight /\ UNCHANGED plan
  BY <1>4, MishapsBounded DEF Preflight, Raises
<1>5. CASE BuildResult /\ UNCHANGED plan
  BY <1>5, MishapsBounded DEF BuildResult, Raises
<1>6. CASE BuildFailureResult /\ UNCHANGED plan
  BY <1>6, MishapsBounded DEF BuildFailureResult
<1>7. CASE Finalize /\ UNCHANGED plan
  BY <1>7, MishapsBounded DEF Finalize
<1>8. CASE EndLoop /\ UNCHANGED plan
  BY <1>8 DEF EndLoop
<1>9. CASE LeavesLoop /\ UNCHANGED plan
  BY <1>9, MishapsBounded DEF LeavesLoop, Raises
<1> QED
  BY <1>1, <1>2, <1>3, <1>4, <1>5, <1>6, <1>7, <1>8, <1>9

\* The start of a handler keeps the types.
LEMMA StartKeepsTypes ==
    ASSUME PipelineTypes, StartHandler, UNCHANGED <<config, outside, plan>>
    PROVE  PipelineTypes'
<1>1. phase = "executing" /\ next <= Len(StageOrder)
  BY DEF StartHandler, Start, In
<1>2. Stage \in Stages
  BY <1>1, InHand
<1> QED
  BY <1>1, <1>2 DEF StartHandler, Start, Goes, PipelineTypes, PipelineTypeOK, config,
     outside, Aborted

\* The types hold in the beginning.
LEMMA TypesInitially == ASSUME PipelineInit PROVE PipelineTypes
<1>1. 0 \in 0 .. MaxMishaps /\ 1 \in 1 .. Len(StageOrder) + 1
  BY PipelineAssumption, StageNames
<1>2. \A i \in DOMAIN StageOrder : StageOrder[i] \in Stages /\ ~(i < 1)
  BY StageNames DEF Stages
<1>3. \A i \in DOMAIN StageOrder : record[StageOrder[i]] = Nothing
  BY <1>2 DEF PipelineInit
<1>4. record \in [Stages -> Record \cup {Nothing}]
  BY DEF PipelineInit
<1>5. PipelineTypeOK
  <2>1. {failFast, allowed, requested, exhausted} \subseteq BOOLEAN
    BY DEF PipelineInit
  <2>2. \A i \in DOMAIN StageOrder :
            record[StageOrder[i]] \in IF i < next THEN Record ELSE {Nothing}
    BY <1>2, <1>3 DEF PipelineInit
  <2> QED
    BY <1>1, <2>1, <2>2 DEF PipelineInit, PipelineTypeOK, Phases
<1> QED
  BY <1>4, <1>5 DEF PipelineInit, PipelineTypes, PlanNeeded

\* The steps of the orchestrator, the end of the loop included.
OuterStep ==
    /\ \/ Plan
       \/ /\ UNCHANGED plan
          /\ \/ Check \/ ServiceCancelled \/ Preflight \/ BuildResult \/ BuildFailureResult
             \/ Finalize \/ EndLoop \/ LeavesLoop
    /\ UNCHANGED <<config, outside>>
\* A plan that was made stays.
PlanKept == plan # Nothing => plan' = plan

\* Outside an iteration no stage is passed, and the loop is left past its end or
\* with an exception.
LEMMA OuterDoes ==
    ASSUME PipelineTypes, OuterStep
    PROVE  /\ UNCHANGED <<next, record, reason, fatal, started, lateStarts, config, outside>>
           /\ place' = place \/ place' = "escaped"
           /\ PlanKept
           /\ phase = "executing" /\ phase' # "executing" =>
                 place' = "escaped" \/ (place = "head" /\ next > Len(StageOrder))
<1>1. CASE Plan
  BY <1>1 DEF OuterStep, Plan, Raises, loop, PipelineTypes, During, Enter, PlanKept
<1>2. CASE UNCHANGED plan
  BY <1>2 DEF OuterStep, Plan, Check, ServiceCancelled, Preflight, BuildResult,
     BuildFailureResult,
       Finalize, EndLoop, LeavesLoop, LoopIsOver, loop, During, Enter, Raises, PlanKept
<1> QED
  BY <1>1, <1>2 DEF OuterStep

\* Why an iteration goes on with a stage, skips it, or ends it with an error.
LEMMA IterationDoes ==
    ASSUME PipelineTypes, InPlace, Iteration
    PROVE  \/ /\ place = "head" /\ Stage \in plan.selected
              /\ UNCHANGED <<next, record, reason>>
              /\ \/ place' = "budget" /\ ~Finalizing /\ ~requested
                 \/ place' = "prerequisites" /\ Finalizing /\ allowed
           \/ /\ place = "budget" /\ place' = "prerequisites" /\ ~exhausted
              /\ UNCHANGED <<next, record, reason>>
           \/ /\ Appends(Skipped)
              /\ \/ reason' = reason /\ Stage \notin plan.selected
                 \/ reason' # Nothing /\ ~Finalizing
                 \/ reason' = reason /\ Finalizing /\ ~allowed
                 \/ reason' = reason /\ \E a \in Blockers : TRUE
           \/ Appends(Error) /\ reason' # Nothing
           \/ /\ place = "running" /\ \E r \in Record : Appends(r)
              /\ reason' = reason \/ reason' # Nothing
<1> USE DEF In, Aborts, Goes
<1>1. Stage # Nothing /\ "cancellation" # Nothing /\ "budget" # Nothing
  <2>1. phase = "executing" /\ next <= Len(StageOrder)
    BY IterationAppends
  <2> QED
    BY <2>1, InHand, NothingElse
<1>2. CASE SkipStage
  BY <1>2 DEF SkipStage, Skips, Aborted
<1>3. CASE LookAtCancellation
  BY <1>1, <1>3 DEF LookAtCancellation, Considered, CancelSeen, Skips
<1>4. CASE LookAtBudget
  BY <1>1, <1>4 DEF LookAtBudget, Skips, InPlace
<1>5. CASE Block
  BY <1>5 DEF Block, Skips
<1>6. CASE Unhandled \/ AnswerCancelled \/ AnswerRaises
  BY <1>1, <1>6 DEF Unhandled, AnswerCancelled, AnswerRaises
<1>7. CASE Answer
  BY <1>1, <1>7 DEF Answer
<1> QED
  BY <1>2, <1>3, <1>4, <1>5, <1>6, <1>7 DEF Iteration

\* A run without a plan has no records.
LEMMA NoPlanNoRecord ==
    ASSUME PipelineTypes, plan = Nothing
    PROVE  next = 1 /\ \A s \in Stages : record[s] = Nothing
<1>1. next = 1
  BY StageNames DEF PipelineTypes, PipelineTypeOK
<1>2. ASSUME NEW i \in DOMAIN StageOrder PROVE record[StageOrder[i]] = Nothing
  BY <1>1, StageNames DEF PipelineTypes, PipelineTypeOK
<1> QED
  BY <1>1, <1>2 DEF Stages

\* What a plan selects and requires are stages.
LEMMA RequiredAreStages ==
    \A r : RequiredStages(r) \subseteq Enabled(r) /\ Enabled(r) \subseteq Stages
BY StageNames DEF Enabled, RequiredStages, OnlyWhen, Always, ScenarioStages, Finalization

\* A plain OK is available, aborts nothing, and is none of the other records.
LEMMA PlainOk ==
    /\ <<"ok", TRUE>>[1] = "ok" /\ <<"ok", TRUE>>[2]
    /\ <<"ok", TRUE>> \notin {<<"ok", FALSE>>, Error, Skipped}
    /\ <<"ok", TRUE>> \in Record /\ Skipped \in Record
<1>1. <<"ok", TRUE>>[2] = TRUE /\ <<"ok", FALSE>>[2] = FALSE
  OBVIOUS
<1>2. <<"ok", TRUE>>[1] = "ok" /\ Error[1] = "error" /\ Skipped[1] = "skipped"
  BY DEF Error, Skipped
<1>3. <<"ok", TRUE>> # <<"ok", FALSE>>
  BY <1>1, Zenon
<1> QED
  BY <1>1, <1>2, <1>3 DEF Record, Skipped

\* Every step keeps InPlace.
LEMMA InPlaceKept ==
    ASSUME PipelineTypes, InPlace, PipelineStep
    PROVE  InPlace'
<1>1. CASE OuterStep
  BY <1>1, OuterDoes DEF InPlace, PipelineTypes, PlanNeeded, PlanKept, Finalizing, Stage,
     config
<1>2. CASE StartHandler /\ UNCHANGED plan
  BY <1>2, InHand DEF StartHandler, Start, In, Goes, InPlace, Finalizing, Stage
<1>3. CASE Iteration /\ UNCHANGED plan
  <2>1. UNCHANGED <<phase, started, plan>> /\ phase = "executing" /\ next <= Len(StageOrder)
    BY <1>3, IterationAppends
  <2>2. CASE place' = "head"
    <3>1. \E r \in Record : Appends(r)
      BY <1>3, <2>2, IterationAppends
    <3>2. /\ record'[Stage] # Nothing
          /\ \A s \in Stages : record[s] # Nothing => record'[s] # Nothing
      BY <2>1, <3>1, AppendsRecords, NothingElse
    <3>3. \A s \in started : record'[s] # Nothing
      BY <3>2 DEF InPlace, PipelineTypes, PipelineTypeOK
    <3> QED
      BY <2>1, <2>2, <3>3 DEF InPlace
  <2>3. CASE place' # "head"
    <3>1. /\ UNCHANGED <<next, record>> /\ place \notin {"running", "escaped"}
          /\ Stage \in plan.selected /\ place' \in {"budget", "prerequisites"}
          /\ place' = "budget" => ~Finalizing
      BY <1>3, <2>3, IterationDoes DEF InPlace, Appends
    <3> QED
      BY <2>1, <3>1 DEF InPlace, Finalizing, Stage
  <2> QED
    BY <2>2, <2>3
<1> QED
  BY <1>1, <1>2, <1>3 DEF PipelineStep, OuterStep

\* Every step keeps DirectEvidence: records do not change any more once appended.
LEMMA DirectEvidenceKept ==
    ASSUME PipelineTypes, InPlace, DirectEvidence, PipelineStep
    PROVE  DirectEvidence'
<1>1. CASE OuterStep
  BY <1>1, OuterDoes DEF DirectEvidence, Available
<1>2. CASE StartHandler
  <2>1. /\ phase = "executing" /\ next <= Len(StageOrder)
        /\ Blockers = {} /\ Stage \in plan.selected
        /\ UNCHANGED <<next, record>> /\ started' = started \cup {Stage}
    BY <1>2 DEF StartHandler, Start, In, Goes, InPlace
  <2>2. Stage \in Stages /\ plan.selected = Enabled(request) /\ Accepted(request)
    BY <2>1, InHand DEF PipelineTypes
  <2>3. ASSUME Stage \in Normal
        PROVE  Needs(Stage) \subseteq Normal /\ \A a \in Needs(Stage) : Available(a)
    <3>1. Needs(Stage) \subseteq Enabled(request) \cap Normal
      BY <2>1, <2>2, <2>3, PlanIsClosed
    <3>2. ~Finalizing
      BY <2>3 DEF Finalizing, Normal
    <3> QED
      BY <2>1, <2>2, <3>1, <3>2 DEF Blockers
  <2> QED
    BY <2>1, <2>2, <2>3 DEF DirectEvidence, Available
<1>3. CASE Iteration
  <2>1. started' = started /\ phase = "executing" /\ next <= Len(StageOrder)
    BY <1>3, IterationAppends
  <2>2. CASE record' = record
    BY <2>1, <2>2 DEF DirectEvidence, Available
  <2>3. ASSUME NEW r \in Record, Appends(r), r[2] => Stage \in started
        PROVE  DirectEvidence'
    <3>1. /\ record'[Stage] = r /\ \A s \in Stages \ {Stage} : record'[s] = record[s]
          /\ \A s \in Stages : record[s] # Nothing => record'[s] = record[s]
      BY <2>1, <2>3, AppendsRecords
    <3>2. \A s \in Stages : Available(s)' => s \in started
      BY <2>3, <3>1 DEF DirectEvidence, Available
    <3>3. \A s \in Stages : Available(s) => Available(s)'
      BY <3>1 DEF Available
    <3> QED
      BY <2>1, <3>2, <3>3, StageNames DEF DirectEvidence
  <2>4. Skipped \in Record /\ ~Skipped[2] /\ Error \in Record /\ ~Error[2]
    BY DEF Skipped, Error, Record
  <2> QED
    BY <1>3, <2>2, <2>3, <2>4, IterationDoes DEF InPlace
<1> QED
  BY <1>1, <1>2, <1>3 DEF PipelineStep, OuterStep

\* Every step keeps DirectBlame: what blocks a stage comes before it, so it has a
\* record that cannot be used.
LEMMA DirectBlameKept ==
    ASSUME PipelineTypes, InPlace, DirectBlame, PipelineStep
    PROVE  DirectBlame'
<1>1. CASE OuterStep
  <2>1. CASE plan # Nothing
    BY <1>1, <2>1, OuterDoes DEF DirectBlame, LeftOut, Failed, Aborted, PlanKept
  <2>2. CASE plan = Nothing
    <3>1. Skipped # Nothing
      BY NothingElse, PlainOk
    <3>2. \A s \in Stages : record[s] = Nothing
      BY <2>2, NoPlanNoRecord
    <3>3. \A s \in Stages : record'[s] = Nothing
      BY <1>1, <3>2, OuterDoes
    <3>4. Normal \subseteq Stages
      BY DEF Normal
    <3> QED
      BY <3>1, <3>3, <3>4 DEF DirectBlame, LeftOut
  <2> QED
    BY <2>1, <2>2
<1>2. CASE StartHandler /\ UNCHANGED plan
  <2>1. UNCHANGED <<record, reason>> /\ started \subseteq started'
    BY <1>2 DEF StartHandler, Start, Goes
  <2> QED
    BY <1>2, <2>1 DEF DirectBlame, LeftOut, Failed, Aborted
<1>3. CASE Iteration /\ UNCHANGED plan
  <2>1. started' = started /\ plan' = plan /\ phase = "executing" /\ next <= Len(StageOrder)
    BY <1>3, IterationAppends
  <2>2. /\ Stage \in Stages /\ record[Stage] = Nothing
        /\ plan # Nothing /\ next \in DOMAIN StageOrder
        /\ Normal \subseteq Stages
    BY <2>1, InHand DEF Normal
  <2>3. ASSUME NEW r \in Record, Appends(r), reason' = reason,
               Stage \notin started => r = Skipped,
               Stage \in (plan.selected \cap Normal) \ started =>
                   \E a \in Needs(Stage) : Failed(a)
        PROVE  DirectBlame'
    <3>1. /\ record'[Stage] = r /\ \A s \in Stages \ {Stage} : record'[s] = record[s]
      BY <2>1, <2>3, AppendsRecords
    <3>2. \A s \in Stages : Failed(s) => Failed(s)'
      BY <2>2, <3>1 DEF Failed
    <3>3. ASSUME NEW s \in plan.selected \cap Normal, ~Aborted, LeftOut(s)'
          PROVE  \E a \in Needs(s) : Failed(a)
      BY <2>1, <2>2, <2>3, <3>1, <3>3 DEF DirectBlame, LeftOut
    <3>4. \A s \in Normal : Needs(s) \subseteq Stages
      BY StageNames DEF Needs, CompileStages
    <3> QED
      BY <2>1, <2>2, <2>3, <3>1, <3>2, <3>3, <3>4 DEF DirectBlame, Aborted
  <2>4. CASE UNCHANGED <<next, record, reason>>
    BY <2>1, <2>4 DEF DirectBlame, Aborted, LeftOut, Failed
  <2>5. CASE reason' # Nothing
    BY <2>5 DEF DirectBlame, Aborted
  <2>6. Skipped \in Record
    BY DEF Skipped, Record
  <2>7. ASSUME NEW a \in Blockers PROVE a \in Needs(Stage) /\ Failed(a)
    <3>1. a \in Needs(Stage) /\ ~Available(a)
      BY <2>7 DEF Blockers
    <3>2. PICK j \in DOMAIN StageOrder : j < next /\ StageOrder[j] = a
      BY <2>2, <3>1, NeedsComeFirst DEF Stage
    <3>3. record[a] # Nothing
      BY <3>2, NothingElse DEF PipelineTypes, PipelineTypeOK
    <3> QED
      BY <3>1, <3>3 DEF Available, Failed
  <2>8. CASE Appends(Skipped) /\ reason' = reason /\ Finalizing
    BY <2>3, <2>6, <2>8 DEF Finalizing, Normal
  <2>9. CASE Appends(Skipped) /\ reason' = reason /\ \E a \in Blockers : TRUE
    BY <2>3, <2>6, <2>7, <2>9
  <2>10. CASE Appends(Skipped) /\ reason' = reason /\ Stage \notin plan.selected
    BY <2>3, <2>6, <2>10
  <2>11. CASE place = "running" /\ reason' = reason /\ \E r \in Record : Appends(r)
    BY <2>3, <2>11 DEF InPlace
  <2> QED
    BY <1>3, <2>4, <2>5, <2>8, <2>9, <2>10, <2>11, IterationDoes
<1> QED
  BY <1>1, <1>2, <1>3 DEF PipelineStep, OuterStep

\* Every step keeps LateStart: after a late start the next look aborts the run.
LEMMA LateStartKept ==
    ASSUME PipelineTypes, InPlace, LateStart, PipelineStep
    PROVE  LateStart'
<1>1. CASE OuterStep
  BY <1>1, OuterDoes DEF LateStart, Finalizing, Stage, outside
<1>2. CASE StartHandler /\ UNCHANGED outside
  <2>1. /\ phase = "executing" /\ next <= Len(StageOrder)
        /\ place = "prerequisites" /\ place' = "running"
    BY <1>2 DEF StartHandler, Start, In, Goes
  <2>2. Stage \in Stages
    BY <2>1, InHand
  <2>3. \/ lateStarts' = lateStarts
        \/ lateStarts = {} /\ lateStarts' = {Stage} /\ (requested \/ exhausted)
    BY <1>2, <2>1 DEF StartHandler, LateStart
  <2> QED
    BY <1>2, <2>1, <2>2, <2>3 DEF LateStart, outside
<1>3. CASE Iteration /\ UNCHANGED outside
  <2>1. lateStarts' = lateStarts /\ phase = "executing" /\ next <= Len(StageOrder)
    BY <1>3, IterationAppends
  <2>2. CASE place' \notin {"budget", "prerequisites"}
    BY <1>3, <2>1, <2>2 DEF LateStart, outside
  <2>3. CASE place' \in {"budget", "prerequisites"}
    <3>1. \A r \in Record \cup {Skipped, Error} : ~Appends(r)
      BY <2>3 DEF Appends
    <3> QED
      BY <1>3, <2>1, <3>1, IterationDoes DEF LateStart, Finalizing, Stage, outside
  <2> QED
    BY <2>2, <2>3
<1> QED
  BY <1>1, <1>2, <1>3 DEF PipelineStep, OuterStep

\* Every step keeps ReportsTried.
LEMMA ReportsTriedKept ==
    ASSUME PipelineTypes, InPlace, ReportsTried, PipelineStep
    PROVE  ReportsTried'
<1>1. CASE OuterStep
  BY <1>1, OuterDoes DEF ReportsTried, config
<1>2. CASE StartHandler /\ UNCHANGED config
  BY <1>2 DEF StartHandler, Start, In, Goes, ReportsTried, config
<1>3. CASE Iteration /\ UNCHANGED config
  <2>1. started' = started /\ phase = "executing" /\ next <= Len(StageOrder) /\ phase' = phase
    BY <1>3, IterationAppends
  <2>2. ASSUME NEW r \in Record, Appends(r),
               allowed /\ Finalizing => Stage \in started \/ r = Error
        PROVE  ReportsTried'
    <3>1. /\ record'[Stage] = r /\ \A s \in Stages \ {Stage} : record'[s] = record[s]
      BY <2>1, <2>2, AppendsRecords
    <3> QED
      BY <1>3, <2>1, <2>2, <3>1, StageNames DEF ReportsTried, Finalizing, config, Appends
  <2>3. CASE UNCHANGED <<next, record, reason>>
    <3>1. place' # "escaped"
      BY <1>3, IterationAppends DEF Appends
    <3> QED
      BY <1>3, <2>1, <2>3, <3>1 DEF ReportsTried, config
  <2>4. Skipped \in Record /\ Error \in Record
    BY DEF Skipped, Error, Record
  <2>5. Finalizing => Stage \in plan.selected /\ Blockers = {}
    <3>1. plan.selected = Enabled(request)
      BY <2>1, InHand
    <3> QED
      BY <3>1 DEF Finalizing, Enabled, Always, Blockers
  <2> QED
    BY <1>3, <2>2, <2>3, <2>4, <2>5, IterationDoes DEF InPlace
<1> QED
  BY <1>1, <1>2, <1>3 DEF PipelineStep, OuterStep

\* The invariant of the pipeline.
PipelineInv ==
    PipelineTypes /\ InPlace /\ DirectEvidence /\ DirectBlame /\ LateStart /\ ReportsTried

\* It holds in the beginning.
LEMMA PipelineInitially == PipelineInit => PipelineInv
<1> SUFFICES ASSUME PipelineInit PROVE PipelineInv
  OBVIOUS
<1>1. PipelineTypes
  BY TypesInitially
<1>2. \A s \in Stages : record[s] = Nothing
  BY DEF PipelineInit
<1>3. Normal \subseteq Stages /\ Finalization \subseteq Stages /\ Skipped # Nothing
  BY StageNames, NothingElse DEF Skipped, Record
<1>4. InPlace /\ DirectEvidence /\ LateStart
  BY <1>2 DEF PipelineInit, InPlace, DirectEvidence, LateStart, Available
<1>5. DirectBlame /\ ReportsTried
  BY <1>2, <1>3 DEF PipelineInit, DirectBlame, ReportsTried, LeftOut
<1> QED
  BY <1>1, <1>4, <1>5 DEF PipelineInv

\* A request for cancellation and the end of the budget keep it.
LEMMA OutsideKeeps ==
    ASSUME PipelineInv, RequestCancellation \/ ExhaustBudget \/ UNCHANGED pipelineVars
    PROVE  PipelineInv'
<1>1. /\ UNCHANGED <<config, phase, plan, loop, result, mishaps>>
      /\ {requested', exhausted'} \subseteq BOOLEAN
      /\ (requested => requested') /\ (exhausted => exhausted')
  <2>1. requested \in BOOLEAN /\ exhausted \in BOOLEAN
    BY DEF PipelineInv, PipelineTypes, PipelineTypeOK
  <2>2. CASE RequestCancellation
    BY <2>1, <2>2 DEF RequestCancellation
  <2>3. CASE ExhaustBudget
    BY <2>1, <2>3 DEF ExhaustBudget
  <2>4. CASE UNCHANGED pipelineVars
    BY <2>1, <2>4 DEF pipelineVars, outside
  <2> QED
    BY <2>2, <2>3, <2>4
<1> USE <1>1 DEF PipelineInv, config, loop
<1>2. PipelineTypes'
  BY DEF PipelineTypes, PipelineTypeOK, Aborted
<1>3. InPlace'
  BY DEF InPlace, Finalizing, Stage
<1>4. DirectEvidence' /\ DirectBlame'
  BY DEF DirectEvidence, DirectBlame, Available, LeftOut, Failed, Aborted
<1>5. LateStart' /\ ReportsTried'
  BY DEF LateStart, ReportsTried, Finalizing, Stage
<1> QED
  BY <1>2, <1>3, <1>4, <1>5

\* Every step keeps it.
LEMMA PipelineInvInductive == PipelineInv /\ [PipelineNext]_pipelineVars => PipelineInv'
<1> SUFFICES ASSUME PipelineInv, [PipelineNext]_pipelineVars PROVE PipelineInv'
  OBVIOUS
<1>1. CASE PipelineStep
  <2>1. PipelineTypes'
    BY <1>1, IterationKeepsTypes, OuterKeepsTypes, StartKeepsTypes DEF PipelineInv,
       PipelineStep
  <2> QED
    BY <1>1, <2>1, InPlaceKept, DirectEvidenceKept, DirectBlameKept, LateStartKept,
       ReportsTriedKept DEF PipelineInv
<1> QED
  BY <1>1, OutsideKeeps DEF PipelineNext

\* The pipeline, its plan and its records stay in step, for every set of requests
\* (RunOrchestrator.run, execute_plan).
THEOREM PipelineInvariant == PipelineSpec => []PipelineInv
  BY PipelineInitially, PipelineInvInductive, PTL DEF PipelineSpec

\* Every variable of the pipeline keeps its type; the records are those of the stages
\* the loop has passed (execute_plan).
THEOREM PipelineTypeCorrect == PipelineSpec => []PipelineTypeOK
<1>1. PipelineInv => PipelineTypeOK
  BY DEF PipelineInv, PipelineTypes
<1> QED
  BY <1>1, PipelineInvariant, PTL

\* Everything near a stage was called and may be used.
Rests(s, near) == \A a \in near[s] : a \in Normal \cap started /\ Available(a)
OnEvidence(near) == \A s \in started \cap Normal : Rests(s, near)

\* What holds of the stages near holds of those farther.
LEMMA EvidenceReachesFarther ==
    ASSUME DirectEvidence, NEW near, OnEvidence(near), started \subseteq Stages
    PROVE  OnEvidence(Farther(near))
<1> SUFFICES ASSUME NEW s \in started \cap Normal, NEW a \in Farther(near)[s]
             PROVE  a \in Normal \cap started /\ Available(a)
  BY DEF OnEvidence, Rests
<1>1. \A b \in Needs(s) : b \in Normal \cap started /\ Available(b)
  BY StageNames DEF DirectEvidence
<1>2. a \in Needs(s) \/ \E b \in Needs(s) : a \in near[b]
  BY DEF Farther
<1> QED
  BY <1>1, <1>2 DEF OnEvidence, Rests

\* A stage is called only when every stage of the plan it rests on, at any distance,
\* was called and may be used (_blocking_prerequisites).
THEOREM StagesRunOnEvidence == PipelineSpec => []RanOnItsEvidence
<1>1. PipelineInv => RanOnItsEvidence
  <2> SUFFICES ASSUME PipelineInv PROVE RanOnItsEvidence
    OBVIOUS
  <2>1. DirectEvidence /\ started \subseteq Stages
    BY DEF PipelineInv, PipelineTypes, PipelineTypeOK
  <2>2. OnEvidence(Nearest)
    BY <2>1, StageNames DEF OnEvidence, Rests, Nearest, DirectEvidence
  <2>3. OnEvidence(Ancestors)
    BY <2>1, <2>2, EvidenceReachesFarther DEF Ancestors
  <2> QED
    BY <2>3 DEF OnEvidence, Rests, RanOnItsEvidence, Available
<1> QED
  BY <1>1, PipelineInvariant, PTL

\* How far a stage is from the configuration.
Rank(s) ==
    CASE s = "configuration" -> 0
      [] s \in {"environment", "selection"} -> 1
      [] s \in {"version_probe", "static_scan", "fingerprint", "classify_failures",
                "run_scenarios"} -> 2
      [] s \in CompileStages \cup {"normalize_outputs", "compare_previous"} -> 3
      [] s \in {"evaluate_assertions", "compare_gold", "build_pgf"} -> 4
      [] OTHER -> 5

\* What a normal stage needs is normal and of a lower rank.
LEMMA NeedsRankLower ==
    ASSUME NEW s \in Normal
    PROVE  /\ Rank(s) \in 0 .. 5
           /\ \A a \in Needs(s) : a \in Normal /\ Rank(a) < Rank(s)
BY StageNames DEF Rank, Needs, CompileStages

\* Up to a rank, a stage that was left out has a failed stage near that was called.
Explained(rank, near) ==
    \A s \in plan.selected \cap Normal :
        Rank(s) <= rank /\ LeftOut(s) => \E a \in near[s] \cap started : Failed(a)

\* One rank more is explained one step farther.
LEMMA BlamesFarther ==
    ASSUME PipelineTypes, DirectBlame, ~Aborted, plan # Nothing,
           NEW rank \in Nat, NEW near, Explained(rank, near)
    PROVE  Explained(rank + 1, Farther(near))
<1> SUFFICES ASSUME NEW s \in plan.selected \cap Normal, Rank(s) <= rank + 1, LeftOut(s)
             PROVE  \E a \in Farther(near)[s] \cap started : Failed(a)
  BY DEF Explained
<1>1. PICK b \in Needs(s) : Failed(b)
  BY DEF DirectBlame
<1>2. b \in plan.selected \cap Normal /\ Rank(b) <= rank
  <2>1. b \in plan.selected \cap Normal
    BY PlanIsClosed DEF PipelineTypes
  <2>2. Rank(b) < Rank(s) /\ Rank(s) \in 0 .. 5 /\ Rank(b) \in 0 .. 5
    BY <2>1, NeedsRankLower
  <2> QED
    BY <2>1, <2>2
<1>3. b \in Farther(near)[s] /\ near[b] \subseteq Farther(near)[s]
  BY StageNames DEF Farther
<1>4. CASE b \in started
  BY <1>1, <1>3, <1>4
<1>5. CASE b \notin started
  <2>1. b \in Stages
    BY <1>2 DEF Normal
  <2>2. LeftOut(b)
    BY <1>1, <1>5, <2>1 DEF DirectBlame, Failed, LeftOut
  <2> QED
    BY <1>2, <1>3, <2>2 DEF Explained
<1> QED
  BY <1>4, <1>5

\* Without an abort, a selected stage is left out only because of a stage it rests on
\* that was called and cannot be used (_blocking_prerequisites).
THEOREM BlockedOnlyByFailures == PipelineSpec => []BlockedByAFailure
<1>1. PipelineInv => BlockedByAFailure
  <2> SUFFICES ASSUME PipelineInv, plan # Nothing, ~Aborted
               PROVE  \A s \in plan.selected \cap Normal :
                          LeftOut(s) => \E a \in Ancestors[s] \cap started : Failed(a)
    BY DEF BlockedByAFailure, LeftOut, Failed
  <2>1. PipelineTypes /\ DirectBlame
    BY DEF PipelineInv
  <2>2. Explained(1, Nearest)
    <3> SUFFICES ASSUME NEW s \in plan.selected \cap Normal, Rank(s) <= 1, LeftOut(s)
                 PROVE  \E a \in Nearest[s] \cap started : Failed(a)
      BY DEF Explained
    <3>1. PICK b \in Needs(s) : Failed(b)
      BY <2>1 DEF DirectBlame
    <3>2. b \in Normal /\ Rank(b) = 0 /\ b \in plan.selected
      BY <2>1, NeedsRankLower, PlanIsClosed DEF PipelineTypes
    <3>3. b = "configuration"
      BY <3>2 DEF Rank
    <3>4. ~LeftOut(b)
      BY <2>1, <3>2, <3>3 DEF DirectBlame, Needs, CompileStages
    <3>5. b \in started
      BY <2>1, <3>1, <3>2, <3>4 DEF DirectBlame, LeftOut, Failed, Normal
    <3> QED
      BY <3>1, <3>5, StageNames DEF Nearest
  <2>3. Explained(2, Farther(Nearest))
    BY <2>1, <2>2, BlamesFarther
  <2>4. Explained(3, Farther(Farther(Nearest)))
    BY <2>1, <2>3, BlamesFarther
  <2>5. Explained(4, Farther(Farther(Farther(Nearest))))
    BY <2>1, <2>4, BlamesFarther
  <2>6. Explained(5, Ancestors)
    BY <2>1, <2>5, BlamesFarther DEF Ancestors
  <2> QED
    BY <2>6, NeedsRankLower DEF Explained
<1> QED
  BY <1>1, PipelineInvariant, PTL

\* After a request for cancellation, or once the budget is spent, at most one normal
\* stage starts (execute_plan).
THEOREM AtMostOneLateStart == PipelineSpec => []OneStageAfterStop
<1>1. PipelineInv => OneStageAfterStop
  <2> SUFFICES ASSUME PipelineInv PROVE OneStageAfterStop
    OBVIOUS
  <2>1. lateStarts = {} \/ \E s \in Stages : lateStarts = {s}
    BY DEF PipelineInv, LateStart
  <2>2. Cardinality(lateStarts) \in {0, 1}
    BY <2>1, FS_EmptySet, FS_Singleton
  <2> QED
    BY <2>2 DEF OneStageAfterStop
<1> QED
  BY <1>1, PipelineInvariant, PTL

\* A stage is called at most once (execute_plan).
THEOREM CalledOnce == PipelineSpec => [][StartHandler => Stage \notin started]_pipelineVars
<1>1. PipelineInv /\ StartHandler => Stage \notin started
  <2> SUFFICES ASSUME PipelineInv, StartHandler PROVE Stage \notin started
    OBVIOUS
  <2>1. phase = "executing" /\ next <= Len(StageOrder) /\ place = "prerequisites"
    BY DEF StartHandler, Start, In
  <2>2. record[Stage] = Nothing
    BY <2>1, InHand DEF PipelineInv
  <2> QED
    BY <2>1, <2>2 DEF PipelineInv, InPlace
<1> QED
  BY <1>1, PipelineInvariant, PTL DEF PipelineSpec

\* The steps a run still has, at most.
PlacesLeft ==
    CASE place = "head" -> 3
      [] place = "budget" -> 2
      [] place = "prerequisites" -> 1
      [] OTHER -> 0
RunStepsLeft ==
    CASE phase \in Ended -> 0
      [] phase = "finalizing" -> 1
      [] phase \in {"cancelled", "failed"} -> 2
      [] phase \in {"building_result", "preflight_failed"} -> 3
      [] phase = "executed" -> 4
      [] phase = "executing" -> 5 + 4 * (20 - next) + PlacesLeft
      [] phase = "ready" -> 85
      [] phase = "preflight" -> 86
      [] phase = "planned" -> 87
      [] phase = "planning" -> 88
      [] phase = "initializing" -> 89

\* Each step of execute_run leaves fewer steps, whatever its services and handlers
\* answer: a run makes at most 89 of them.
THEOREM RunIsBounded ==
    PipelineSpec => /\ [](RunStepsLeft \in 0 .. 89)
                    /\ [][PipelineStep => RunStepsLeft' < RunStepsLeft]_pipelineVars
<1>1. PipelineInv => RunStepsLeft \in 0 .. 89 /\ next \in 1 .. 20
  BY StageNames
     DEF PipelineInv, PipelineTypes, PipelineTypeOK, Phases, Ended, RunStepsLeft, PlacesLeft
<1>2. PipelineInv /\ PipelineStep => RunStepsLeft' < RunStepsLeft
  <2> SUFFICES ASSUME PipelineInv, PipelineStep PROVE RunStepsLeft' < RunStepsLeft
    OBVIOUS
  <2>1. next \in 1 .. 20 /\ PipelineTypes /\ InPlace
    BY <1>1 DEF PipelineInv
  <2> USE <2>1 DEF RunStepsLeft, PlacesLeft, Ended, During, Enter
  <2>2. CASE \/ Plan \/ ServiceCancelled \/ Preflight \/ BuildResult
             \/ BuildFailureResult \/ Finalize
    BY <2>2 DEF Plan, ServiceCancelled, Preflight, BuildResult, BuildFailureResult,
       Finalize, Raises
  <2>3. CASE Check
    BY <2>3 DEF Check, loop
  <2>4. CASE EndLoop \/ LeavesLoop
    BY <2>4 DEF EndLoop, LeavesLoop, Raises, loop
  <2>5. CASE StartHandler
    <3>1. /\ phase = "executing" /\ phase' = phase /\ next' = next
          /\ place = "prerequisites" /\ place' = "running"
      BY <2>5 DEF StartHandler, Start, In, Goes
    <3> QED
      BY <3>1
  <2>6. CASE Iteration
    <3>1. phase = "executing" /\ next <= 19 /\ phase' = phase
      BY <2>6, IterationAppends, StageNames
    <3>2. CASE next' = next + 1
      BY <3>1, <3>2
    <3>3. CASE next' = next /\ place = "head" /\ place' \in {"budget", "prerequisites"}
      BY <3>1, <3>3
    <3>4. CASE next' = next /\ place = "budget" /\ place' = "prerequisites"
      BY <3>1, <3>4
    <3> QED
      BY <2>6, <3>2, <3>3, <3>4, IterationDoes DEF Appends
  <2> QED
    BY <2>2, <2>3, <2>4, <2>5, <2>6 DEF PipelineStep
<1> QED
  BY <1>1, <1>2, PipelineInvariant, PTL DEF PipelineSpec

-----------------------------------------------------------------------------
(***************************************************************************)
(* What ends a run, and what its result tells.                             *)
(***************************************************************************)

\* A record that stops the loop under fail_fast.
Wrong(s) == record[s] # Nothing /\ record[s][1] \in {"fail", "error"}

\* A normal stage in hand is one of a run that is not aborted, and a required stage
\* that went wrong aborts it under fail_fast.
AbortStops ==
    /\ place \in {"budget", "prerequisites", "running"} /\ ~Finalizing => ~Aborted
    /\ failFast /\ plan # Nothing => \A s \in plan.required : Wrong(s) => Aborted

\* The phases before execute_plan, and those with a result or without one for good.
BeforeLoop == {"initializing", "planning", "planned", "preflight", "preflight_failed", "ready"}
Concluded == {"finalizing", "returned", "raised"}

\* What the phase of the run, its abortion and its fatal stage tell of each other.
PhaseTells ==
    /\ phase \in BeforeLoop => next = 1 /\ started = {} /\ reason = Nothing
    /\ phase \in {"executed", "building_result"} =>
          fatal = Nothing /\ next > Len(StageOrder) /\ plan # Nothing
    /\ phase = "building_result" => reason # "cancellation"
    /\ reason = "cancellation" \/ phase = "cancelled" => requested
    /\ fatal # Nothing \/ phase \in {"preflight_failed", "raised"} => mishaps > 0
    /\ phase = "failed" => ~Accepted(request) \/ mishaps > 0
    /\ phase \in {"finalizing", "returned"} => result # Nothing
    /\ result # Nothing => phase \in Concluded
    /\ place = "escaped" => /\ phase \in {"cancelled", "failed"} \cup Concluded
                            /\ result \notin {"completed", "preflight_failure"}

\* The result of a run tells how it went: completed, when every stage was decided, no
\* handler raised and no cancellation ended the loop; cancelled, when that was requested;
\* failed in the preflight, when nothing was called; fatal, when the plan was refused or
\* something else went wrong (RunOrchestrator.run).
ResultTells ==
    /\ result = "completed" =>
          /\ plan # Nothing /\ fatal = Nothing /\ reason # "cancellation"
          /\ \A s \in Stages : record[s] # Nothing
    /\ result = "preflight_failure" => started = {} /\ mishaps > 0
    /\ result = "cancelled" => requested
    /\ result = "fatal" => ~Accepted(request) \/ mishaps > 0

\* Nothing went wrong, was cancelled or took too long.
Undisturbed == mishaps = 0 /\ ~requested /\ ~exhausted
\* Then each stage was called and answered OK, unless the plan or the run's
\* configuration leaves it out.
WorkDone ==
    Undisturbed =>
        /\ ~Aborted
        /\ \A s \in Stages : record[s] \in {Nothing, <<"ok", TRUE>>, Skipped}
        /\ plan # Nothing => \A s \in Stages : record[s] = Skipped =>
              s \notin plan.selected \/ (s \in Finalization /\ ~allowed)

\* Every step keeps AbortStops.
LEMMA AbortStopsKept ==
    ASSUME PipelineTypes, InPlace, PhaseTells, AbortStops, PipelineStep
    PROVE  AbortStops'
<1>1. CASE OuterStep
  <2>1. CASE plan # Nothing
    BY <1>1, <2>1, OuterDoes DEF AbortStops, Finalizing, Stage, Aborted, Wrong, PlanKept,
       config
  <2>2. CASE plan = Nothing
    <3>1. \A s \in Stages : record[s] = Nothing
      BY <2>2, NoPlanNoRecord
    <3>2. plan' # Nothing => plan'.required \subseteq Stages
      BY <1>1, <2>2, RequiredAreStages DEF OuterStep, Plan, Raises
    <3> QED
      BY <1>1, <3>1, <3>2, OuterDoes DEF AbortStops, Finalizing, Stage, Aborted, Wrong
  <2> QED
    BY <2>1, <2>2
<1>2. CASE StartHandler /\ UNCHANGED <<config, plan>>
  BY <1>2 DEF StartHandler, Start, In, Goes, AbortStops, Finalizing, Stage, Aborted,
     Wrong, config
<1>3. CASE Iteration /\ UNCHANGED <<config, plan>>
  <2>1. phase = "executing" /\ next <= Len(StageOrder)
    BY <1>3, IterationAppends
  <2>2. plan # Nothing /\ plan.required \subseteq Stages
    BY <2>1, InHand, RequiredAreStages DEF PipelineTypes
  <2>3. ASSUME NEW r \in Record, Appends(r),
               reason' # Nothing
                 \/ (reason' = reason /\ ~(Stops(r) /\ Stage \in plan.required))
        PROVE  AbortStops'
    <3>1. /\ record'[Stage] = r /\ \A s \in Stages \ {Stage} : record'[s] = record[s]
          /\ place' = "head"
      BY <2>1, <2>3, AppendsRecords
    <3> QED
      BY <1>3, <2>2, <2>3, <3>1 DEF AbortStops, Aborted, Wrong, Stops, config
  <2>4. Skipped \in Record /\ Error \in Record /\ ~Stops(Skipped)
    BY DEF Skipped, Error, Record, Stops
  <2>5. CASE Answer
    <3>1. PICK r \in Record : Appends(r) /\ (Aborts(Stage) \/ (~Stops(r) /\ UNCHANGED reason))
      BY <2>5 DEF Answer
    <3>2. Stage # Nothing
      BY <2>1, InHand, NothingElse
    <3> QED
      BY <2>3, <3>1, <3>2 DEF Aborts
  <2>6. CASE Appends(Error) /\ reason' # Nothing
    BY <2>3, <2>4, <2>6
  <2>7. CASE Appends(Skipped) /\ (reason' = reason \/ reason' # Nothing)
    BY <2>3, <2>4, <2>7
  <2>8. CASE place \in {"head", "budget"} /\ UNCHANGED <<next, record, reason>>
    <3>1. \A r : ~Appends(r)
      BY <2>1, <2>8, InHand, StageNames DEF Appends
    <3>2. ~Finalizing => ~Aborted
      <4>1. CASE place = "budget"
        BY <4>1 DEF AbortStops
      <4>2. CASE place = "head"
        <5>1. LookAtCancellation
          BY <1>3, <3>1, <4>2 DEF Iteration, SkipStage, LookAtBudget, Block, Unhandled,
             Answer,
             AnswerCancelled, AnswerRaises, In, Skips
        <5> QED
          BY <5>1 DEF LookAtCancellation, Considered
      <4> QED
        BY <2>8, <4>1, <4>2
    <3> QED
      BY <1>3, <2>8, <3>2 DEF AbortStops, Finalizing, Stage, Aborted, Wrong, config
  <2>9. CASE place = "running" /\ ~Answer
    <3>1. AnswerCancelled \/ AnswerRaises
      BY <1>3, <2>9 DEF Iteration, SkipStage, LookAtCancellation, LookAtBudget, Block,
         Unhandled, In
    <3>2. Appends(Error) /\ reason' # Nothing
      BY <2>1, <3>1, InHand, NothingElse DEF AnswerCancelled, AnswerRaises, Aborts
    <3> QED
      BY <2>6, <3>2
  <2> QED
    BY <1>3, <2>5, <2>6, <2>7, <2>8, <2>9, IterationDoes
<1> QED
  BY <1>1, <1>2, <1>3 DEF PipelineStep, OuterStep

\* Every step keeps PhaseTells.
LEMMA PhaseTellsKept ==
    ASSUME PipelineTypes, InPlace, PhaseTells, PipelineStep
    PROVE  PhaseTells'
<1>0. \A r \in Results : r # Nothing
  BY PipelineAssumption
<1> USE DEF Results
<1>1. mishaps \in Nat /\ (Mishap => mishaps' > 0) /\ (Sound => mishaps' = mishaps)
  BY PipelineAssumption DEF PipelineTypes, PipelineTypeOK, Mishap, Sound
<1>2. CASE Plan /\ UNCHANGED <<config, outside>>
  <2>1. Accepted(request) =>
            [selected |-> Enabled(request), required |-> RequiredStages(request)] # Nothing
    BY NothingElse
  <2> QED
    BY <1>1, <1>2, <2>1 DEF Plan, Raises, During, Enter, loop, config, outside, PhaseTells,
       BeforeLoop, Concluded
<1> USE DEF PhaseTells, BeforeLoop, Concluded, During, Enter, loop, config, outside
<1>3. CASE Check /\ UNCHANGED <<config, outside, plan>>
  BY <1>3 DEF Check, Seen, PipelineTypes, PlanNeeded
<1>4. CASE ServiceCancelled /\ UNCHANGED <<config, outside, plan>>
  BY <1>4 DEF ServiceCancelled
<1>5. CASE Preflight /\ UNCHANGED <<config, outside, plan>>
  BY <1>1, <1>5 DEF Preflight, Raises
<1>6. CASE BuildResult /\ UNCHANGED <<config, outside, plan>>
  BY <1>0, <1>1, <1>6 DEF BuildResult, Raises
<1>7. CASE BuildFailureResult /\ UNCHANGED <<config, outside, plan>>
  BY <1>0, <1>1, <1>7 DEF BuildFailureResult
<1>8. CASE Finalize /\ UNCHANGED <<config, outside, plan>>
  BY <1>1, <1>8 DEF Finalize
<1>9. CASE (EndLoop \/ LeavesLoop) /\ UNCHANGED <<config, outside, plan>>
  BY <1>0, <1>1, <1>9 DEF EndLoop, LoopIsOver, LeavesLoop, Raises, PipelineTypes, PlanNeeded
<1>10. CASE StartHandler /\ UNCHANGED <<config, outside, plan>>
  BY <1>10 DEF StartHandler, Start, In, Goes
<1>11. CASE Iteration /\ UNCHANGED <<config, outside, plan>>
  <2>1. UNCHANGED <<phase, result, started>> /\ phase = "executing" /\ next <= Len(StageOrder)
    BY <1>11, IterationAppends
  <2>2. Stage # "cancellation"
    BY <2>1, InHand, StageNames DEF Finalization
  <2>3. reason' = "cancellation" => reason = "cancellation" \/ requested
    BY <1>11, <2>2 DEF Iteration, SkipStage, LookAtCancellation, LookAtBudget, Block,
       Unhandled,
       Answer, AnswerCancelled, AnswerRaises, Aborts, CancelSeen, Goes
  <2>4. Mishap \/ (Sound /\ fatal' = fatal)
    BY <1>11 DEF Iteration, SkipStage, LookAtCancellation, LookAtBudget, Block, Unhandled,
       Answer, AnswerCancelled, AnswerRaises, Skips, Goes
  <2>5. place' # "escaped"
    BY <1>11, IterationAppends DEF Appends
  <2> QED
    BY <1>1, <1>11, <2>1, <2>3, <2>4, <2>5
<1> QED
  BY <1>2, <1>3, <1>4, <1>5, <1>6, <1>7, <1>8, <1>9, <1>10, <1>11 DEF PipelineStep

\* Every step keeps ResultTells: the result is built from what the phase tells, and
\* nothing it speaks of changes any more.
LEMMA ResultTellsKept ==
    ASSUME PipelineTypes, PhaseTells, ResultTells, PipelineStep
    PROVE  ResultTells'
<1>0. \A r \in Results : r # Nothing
  BY PipelineAssumption
<1>1. mishaps \in Nat /\ (Mishap => mishaps' > 0) /\ (Sound => mishaps' = mishaps)
  BY PipelineAssumption DEF PipelineTypes, PipelineTypeOK, Mishap, Sound
<1>2. CASE result # Nothing
  <2>1. phase \in Concluded
    BY <1>2 DEF PhaseTells
  <2>2. Finalize /\ UNCHANGED <<plan, config, outside>>
    <3>1. ~Iteration
      BY <2>1, IterationAppends DEF Concluded
    <3>2. ~Plan /\ ~ServiceCancelled /\ ~Preflight /\ ~BuildResult /\ ~BuildFailureResult
      BY <2>1 DEF Concluded, Plan, ServiceCancelled, Preflight, BuildResult,
         BuildFailureResult, During
    <3>3. ~Check /\ ~StartHandler /\ ~EndLoop /\ ~LeavesLoop
      BY <2>1 DEF Concluded, Check, StartHandler, Start, In, EndLoop, LeavesLoop, During
    <3> QED
      BY <3>1, <3>2, <3>3 DEF PipelineStep
  <2> QED
    BY <1>1, <2>2 DEF Finalize, ResultTells, loop, config, outside
<1>3. CASE result = Nothing /\ result' # Nothing
  <2>1. BuildResult \/ BuildFailureResult
    BY <1>3 DEF PipelineStep, Plan, Check, ServiceCancelled, Preflight, Finalize, Iteration,
       StartHandler, EndLoop, LeavesLoop
  <2>2. Sound /\ UNCHANGED <<loop, plan, config, outside>>
    BY <1>3, <2>1 DEF BuildResult, BuildFailureResult, PipelineStep, Plan, During
  <2>3. CASE result' = "completed"
    <3>1. phase = "building_result"
      BY <1>3, <2>1, <2>3 DEF BuildResult, BuildFailureResult, During
    <3>2. ASSUME NEW i \in DOMAIN StageOrder PROVE record[StageOrder[i]] # Nothing
      BY <3>1, StageNames, NothingElse DEF PhaseTells, PipelineTypes, PipelineTypeOK
    <3>3. \A s \in Stages : record[s] # Nothing
      BY <3>2 DEF Stages
    <3> QED
      BY <2>2, <2>3, <3>1, <3>3 DEF PhaseTells, ResultTells, loop
  <2>4. CASE result' # "completed"
    BY <1>1, <2>1, <2>2, <2>4 DEF BuildResult, BuildFailureResult, During, PhaseTells,
       BeforeLoop,
       ResultTells, loop, config, outside
  <2> QED
    BY <2>3, <2>4
<1>4. CASE result' = Nothing
  BY <1>0, <1>4 DEF ResultTells, Results
<1> QED
  BY <1>2, <1>3, <1>4

\* Every step keeps WorkDone: a stage is blocked by nothing that was called and is OK.
LEMMA WorkDoneKept ==
    ASSUME PipelineTypes, InPlace, PhaseTells, WorkDone, PipelineStep
    PROVE  WorkDone'
<1> SUFFICES ASSUME Undisturbed' PROVE WorkDone'
  BY DEF WorkDone
<1>0. <<"ok", TRUE>> \in Record /\ Skipped \in Record
  BY PlainOk
<1>1. Sound /\ Undisturbed
  <2>1. mishaps \in Nat /\ UNCHANGED outside
    BY PipelineAssumption DEF PipelineTypes, PipelineTypeOK, PipelineStep
  <2>2. Mishap \/ Sound
    BY DEF PipelineStep, Plan, Check, ServiceCancelled, Preflight, BuildResult, Raises,
       BuildFailureResult, Finalize, Iteration, StartHandler, EndLoop, LeavesLoop, Answer,
       AnswerCancelled, AnswerRaises, Sound
  <2> QED
    BY <2>1, <2>2 DEF Mishap, Sound, Undisturbed, outside
<1>2. CASE OuterStep
  <2>1. CASE plan # Nothing
    BY <1>1, <1>2, <2>1, OuterDoes DEF WorkDone, Aborted, PlanKept, config
  <2>2. CASE plan = Nothing
    <3>1. \A s \in Stages : record[s] = Nothing /\ record[s] # Skipped
      BY <1>0, <2>2, NoPlanNoRecord, NothingElse
    <3> QED
      BY <1>1, <1>2, <3>1, OuterDoes DEF WorkDone, Aborted
  <2> QED
    BY <2>1, <2>2
<1>3. CASE StartHandler /\ UNCHANGED <<config, plan>>
  BY <1>1, <1>3 DEF StartHandler, Start, Goes, WorkDone, Aborted, config
<1>4. CASE Iteration /\ UNCHANGED <<config, plan>>
  <2>1. phase = "executing" /\ next <= Len(StageOrder)
    BY <1>4, IterationAppends
  <2>2. /\ next \in DOMAIN StageOrder /\ Stage \in Stages
        /\ plan # Nothing /\ plan.selected = Enabled(request) /\ Accepted(request)
    BY <2>1, InHand DEF PipelineTypes
  <2>3. ~requested /\ ~exhausted /\ mishaps = 0 /\ ~Aborted /\ ~Mishap
    BY <1>1, PipelineAssumption DEF Undisturbed, WorkDone, Mishap, Sound
  <2>4. ASSUME NEW r \in {<<"ok", TRUE>>, Skipped}, Appends(r), reason' = reason,
               r = Skipped => Stage \notin plan.selected \/ (Finalizing /\ ~allowed)
        PROVE  WorkDone'
    <3>1. record'[Stage] = r /\ \A s \in Stages \ {Stage} : record'[s] = record[s]
      BY <1>0, <2>1, <2>4, AppendsRecords
    <3> QED
      BY <1>0, <1>1, <1>4, <2>2, <2>4, <3>1 DEF WorkDone, Aborted, Finalizing, config,
         Skipped
  <2>5. CASE UNCHANGED <<record, reason>>
    BY <1>1, <1>4, <2>5 DEF WorkDone, Aborted, config
  <2>6. CASE SkipStage
    BY <2>3, <2>4, <2>6 DEF SkipStage, Skips
  <2>7. CASE LookAtCancellation \/ LookAtBudget
    BY <2>3, <2>5, <2>7 DEF LookAtCancellation, LookAtBudget, CancelSeen, Goes
  <2>8. CASE Block
    <3>1. PICK a \in Needs(Stage) \cap plan.selected : ~Available(a) /\ ~Finalizing
      BY <2>8 DEF Block, Blockers
    <3>2. PICK j \in DOMAIN StageOrder : j < next /\ StageOrder[j] = a
      BY <2>2, <3>1, NeedsComeFirst DEF Stage
    <3>3. record[a] # Nothing /\ a \in Stages
      BY <3>2, NothingElse DEF PipelineTypes, PipelineTypeOK, Stages
    <3>4. record[a] = Skipped
      BY <1>1, <3>1, <3>3, PlainOk DEF WorkDone, Available
    <3>5. Stage \in Enabled(request) \cap Normal
      BY <2>2, <2>8, <3>1 DEF Block, In, InPlace, Normal, Finalizing
    <3>6. a \in Normal
      BY <2>2, <3>1, <3>5, PlanIsClosed
    <3> QED
      BY <1>1, <2>2, <3>1, <3>3, <3>4, <3>6 DEF WorkDone, Normal
  <2>9. CASE Unhandled /\ Mishap
    BY <2>3, <2>9
  <2>10. CASE Answer
    <3>1. /\ Appends(<<"ok", TRUE>>) /\ ~Stops(<<"ok", TRUE>>)
          /\ reason' = reason
      BY <2>3, <2>10, PlainOk DEF Answer, Stops
    <3> QED
      BY <2>4, <3>1 DEF Skipped
  <2>11. CASE AnswerCancelled \/ AnswerRaises
    BY <2>3, <2>11 DEF AnswerCancelled, AnswerRaises
  <2> QED
    BY <1>4, <2>6, <2>7, <2>8, <2>9, <2>10, <2>11 DEF Iteration
<1> QED
  BY <1>2, <1>3, <1>4 DEF PipelineStep, OuterStep

\* AbortStops, PhaseTells, ResultTells and WorkDone together.
EndInv == AbortStops /\ PhaseTells /\ ResultTells /\ WorkDone

\* They hold of every run.
LEMMA EndInvariant == PipelineSpec => []EndInv
<1>1. PipelineInit => EndInv
  <2> SUFFICES ASSUME PipelineInit PROVE EndInv
    OBVIOUS
  <2>1. \A s \in Stages : record[s] = Nothing
    BY DEF PipelineInit
  <2>2. \A r \in Results : r # Nothing
    BY PipelineAssumption
  <2>3. Nothing # "cancellation" /\ Nothing # Skipped
    BY NothingElse DEF Skipped, Record
  <2> QED
    BY <2>1, <2>2, <2>3 DEF PipelineInit, EndInv, AbortStops, PhaseTells, ResultTells,
       WorkDone,
       Aborted, Wrong, BeforeLoop, Concluded, Results
<1>2. PipelineInv /\ EndInv /\ [PipelineNext]_pipelineVars => EndInv'
  <2> SUFFICES ASSUME PipelineInv, EndInv, [PipelineNext]_pipelineVars PROVE EndInv'
    OBVIOUS
  <2>1. CASE PipelineStep
    BY <2>1, AbortStopsKept, PhaseTellsKept, ResultTellsKept, WorkDoneKept
       DEF PipelineInv, EndInv
  <2>2. CASE RequestCancellation \/ ExhaustBudget \/ UNCHANGED pipelineVars
    <3>1. /\ UNCHANGED <<config, phase, plan, loop, result, mishaps>>
          /\ (requested => requested') /\ (exhausted => exhausted')
      BY <2>2 DEF RequestCancellation, ExhaustBudget, pipelineVars, outside
    <3>2. AbortStops'
      BY <3>1 DEF EndInv, AbortStops, Finalizing, Stage, Aborted, Wrong, config, loop
    <3>3. PhaseTells' /\ ResultTells'
      BY <3>1 DEF EndInv, PhaseTells, ResultTells, config, loop
    <3>4. WorkDone'
      BY <3>1 DEF EndInv, WorkDone, Undisturbed, Aborted, config, loop
    <3> QED
      BY <3>2, <3>3, <3>4 DEF EndInv
  <2> QED
    BY <2>1, <2>2 DEF PipelineNext
<1> QED
  BY <1>1, <1>2, PipelineInvariant, PTL DEF PipelineSpec

\* The reports and the manifest are attempted before the loop is left, unless the run
\* may not be finalized or an exception that execute_plan does not contain ended it; then
\* the run does not count as completed.
THEOREM ReportsComeLast == PipelineSpec => []ReportsAreAttempted
<1>1. PipelineInv /\ EndInv => ReportsAreAttempted
  <2> SUFFICES ASSUME PipelineInv, EndInv, allowed, next > 1, phase # "executing",
                      place # "escaped", NEW s \in Finalization
               PROVE  s \in started \/ record[s] = Error
    BY DEF ReportsAreAttempted, EndInv, PhaseTells
  <2>1. Len(StageOrder) = 19 /\ DOMAIN StageOrder = 1 .. 19
    BY StageNames
  <2>2. next > 19
    BY <2>1 DEF PipelineInv, ReportsTried
  <2>3. PICK i \in 1 .. 19 : s = StageOrder[i]
    BY <2>1, StageNames DEF Stages
  <2>4. record[s] # Nothing
    BY <2>1, <2>2, <2>3, NothingElse DEF PipelineInv, PipelineTypes, PipelineTypeOK
  <2> QED
    BY <2>4 DEF PipelineInv, ReportsTried
<1> QED
  BY <1>1, PipelineInvariant, EndInvariant, PTL

\* Once the run is aborted, or a required stage went wrong under fail_fast, no normal
\* stage starts any more (execute_plan).
THEOREM FailFastStops ==
    PipelineSpec =>
        [][StartHandler /\ ~Finalizing =>
               ~Aborted /\ (failFast => \A s \in plan.required : ~Wrong(s))]_pipelineVars
<1>1. PipelineInv /\ EndInv /\ StartHandler /\ ~Finalizing =>
          ~Aborted /\ (failFast => \A s \in plan.required : ~Wrong(s))
  <2> SUFFICES ASSUME PipelineInv, EndInv, StartHandler, ~Finalizing
               PROVE  ~Aborted /\ (failFast => \A s \in plan.required : ~Wrong(s))
    OBVIOUS
  <2>1. phase = "executing" /\ place = "prerequisites" /\ next <= Len(StageOrder)
    BY DEF StartHandler, Start, In
  <2>2. plan # Nothing
    BY <2>1, InHand DEF PipelineInv
  <2> QED
    BY <2>1, <2>2 DEF EndInv, AbortStops
<1> QED
  BY <1>1, PipelineInvariant, EndInvariant, PTL

\* The kind of a result tells what happened, whatever else failed
\* (RunOrchestrator.run).
THEOREM ResultIsTrue == PipelineSpec => []ResultTells
<1>1. EndInv => ResultTells
  BY DEF EndInv
<1> QED
  BY <1>1, EndInvariant, PTL

\* A run of an accepted request that nothing disturbs ends with a completed result, and
\* with every selected stage called and OK, but the reports of a run that may not write
\* them.
UndisturbedCompletes ==
    Undisturbed /\ Accepted(request) /\ phase \in Ended =>
        /\ phase = "returned" /\ result = "completed"
        /\ \A s \in plan.selected : s \in Normal \/ allowed =>
              s \in started /\ record[s] = <<"ok", TRUE>>

\* No request that the planner accepts loses a stage without a reason (execute_run).
THEOREM UndisturbedRunsAreWhole == PipelineSpec => []UndisturbedCompletes
<1>1. PipelineInv /\ EndInv => UndisturbedCompletes
  <2> SUFFICES ASSUME PipelineInv, EndInv, Undisturbed, Accepted(request), phase \in Ended
               PROVE  /\ phase = "returned" /\ result = "completed"
                      /\ \A s \in plan.selected : s \in Normal \/ allowed =>
                            s \in started /\ record[s] = <<"ok", TRUE>>
    BY DEF UndisturbedCompletes
  <2>1. phase = "returned" /\ result = "completed"
    BY DEF EndInv, PhaseTells, ResultTells, Undisturbed, Ended, PipelineInv, PipelineTypes,
       PipelineTypeOK, Results
  <2>2. plan # Nothing /\ \A s \in Stages : record[s] # Nothing
    BY <2>1 DEF EndInv, ResultTells
  <2>3. plan.selected \subseteq Stages
    BY <2>2, RequiredAreStages DEF PipelineInv, PipelineTypes
  <2>4. ASSUME NEW s \in plan.selected, s \in Normal \/ allowed
        PROVE  s \in started /\ record[s] = <<"ok", TRUE>>
    <3>1. record[s] # Skipped
      BY <2>2, <2>3, <2>4 DEF EndInv, WorkDone, Normal
    <3>2. record[s] = <<"ok", TRUE>>
      BY <2>2, <2>3, <3>1 DEF EndInv, WorkDone
    <3> QED
      BY <2>3, <3>2, NothingElse, PlainOk DEF PipelineInv, DirectEvidence, Available
  <2> QED
    BY <2>1, <2>4
<1> QED
  BY <1>1, PipelineInvariant, EndInvariant, PTL

-----------------------------------------------------------------------------
(***************************************************************************)
(* The finalization.                                                       *)
(***************************************************************************)

\* The steps before the first pass.
Opening == {"mark_finalizing", "stop_owned_processes", "close_stage_writers", "prepare"}
\* A failure that keeps the run from being finalized.
Blamed == \E f \in failures : Required(f)

\* Types, the directory as a record, and the passes where they count.
FinalizationTypes ==
    /\ FinalizationTypeOK
    /\ tree \in [told : {None} \cup SUBSET Failure, edition : 0 .. MaxWrites]
    /\ pc = "publish_artifacts" => pass < MaxPasses
    /\ pc \in Opening => pass = 0

\* A process or writer that is still open after its step was told as a required
\* failure.
WritersTold ==
    ~Blamed =>
        /\ "process" \in open =>
              pc \in Resting \cup {"mark_finalizing", "stop_owned_processes"}
        /\ "stage_writer" \in open =>
              pc \in Resting \cup (Opening \ {"prepare"})
        /\ "report_writer" \in open =>
              pc \in Resting \cup Opening \cup {"publish_artifacts", "close_non_manifest_writers"}

\* What the reports and the result tell at each step, as long as no required failure
\* was met: then the manifest is the one of the directory as well.
ReportsTold ==
    /\ pc \in {"close_non_manifest_writers", "settle"} /\ ~Blamed => tree.told = current
    /\ pc \in {"publish_manifest", "verify_manifest", "conclude", "mark_finalized"} /\ ~Blamed =>
          tree.told = failures
    /\ pc \in {"explain", "reconsider"} => Blamed
    /\ pc \in {"conclude", "mark_finalized"} /\ verified /\ ~Blamed => manifest = tree
    /\ pc = "mark_finalized" => verified /\ ~Blamed
    /\ pc = "conclude" /\ ~Blamed => verified
    /\ disposition = "incomplete" => Blamed
    /\ pc # "returned" => \A f \in failures : f[1] # "update_last_run"
    /\ verified => pc \in {"conclude", "mark_finalized", "tell", "mark_incomplete",
                           "update_last_run", "returned"}
    /\ disposition = "finalized" =>
          /\ pc \in {"update_last_run", "returned"}
          /\ verified /\ ~Blamed /\ lifecycle = "finalized"
    /\ FinalizedTellsAll

\* A finalized run is at rest, has no writer, and its manifest is true. Another call
\* on it is refused by mark_finalizing, which it tells to its end.
SealedOnce ==
    /\ lifecycle = "finalized" /\ ~reopened =>
          /\ pc \in {"update_last_run", "idle", "returned"}
          /\ open = {} /\ manifest = tree
    /\ reopened => lifecycle = "finalized" /\ (pc \in {"idle", "mark_finalizing"} \/ Blamed)
    /\ LastRunIsTrue

\* A step adds failures of its own to the list and takes none away.
Grows(step) ==
    /\ failures' \subseteq Failure /\ failures \subseteq failures'
    /\ \A f \in failures' \ failures : f[1] = step
    /\ Blamed => Blamed'

\* A list that stays as it is.
LEMMA StandsStill ==
    ASSUME failures \subseteq Failure, failures' = failures, NEW step
    PROVE  Grows(step)
BY DEF Grows, Blamed

\* _append_failure: one failure more, which keeps the run from being finalized unless
\* it is optional.
LEMMA RecordsOne ==
    ASSUME failures \subseteq Failure,
           NEW step \in Attempted \cup Published \cup {"prepare_result"}, NEW cause \in Causes,
           Records(step, cause)
    PROVE  /\ Grows(step)
           /\ step \notin {"mark_incomplete", "update_last_run"} /\ cause # "optional" => Blamed'
<1>1. <<step, cause>> \in Failure
  BY DEF Failure
<1>2. /\ failures' = failures \cup {<<step, cause>>}
      /\ <<step, cause>>[1] = step /\ <<step, cause>>[2] = cause
  BY DEF Records
<1> QED
  BY <1>1, <1>2 DEF Grows, Blamed, Required

\* An operation that is not done leaves a failure.
LEMMA UnableSays ==
    ASSUME failures \subseteq Failure, NEW step \in Attempted, Unable(step)
    PROVE  Grows(step) /\ (step \notin {"mark_incomplete", "update_last_run"} => Blamed')
<1>1. {"deadline", "error"} \subseteq Causes
  BY DEF Causes
<1> QED
  BY <1>1, RecordsOne DEF Unable

\* The run is moved to the state, or a failure is recorded.
LEMMA MovesSays ==
    ASSUME failures \subseteq Failure, NEW step \in Attempted, NEW state, Moves(step, state)
    PROVE  /\ Grows(step)
           /\ \/ MayBecome(state) /\ lifecycle' = state /\ failures' = failures
              \/ /\ lifecycle' = lifecycle
                 /\ step \notin {"mark_incomplete", "update_last_run"} => Blamed'
<1>1. "refused" \in Causes
  BY DEF Causes
<1> QED
  BY <1>1, RecordsOne, UnableSays, StandsStill DEF Moves, Clean

\* The writer is closed, or a required failure is recorded.
LEMMA ClosesSays ==
    ASSUME failures \subseteq Failure, NEW step \in Attempted, NEW writer,
           step \notin {"mark_incomplete", "update_last_run"}, Closes(step, writer)
    PROVE  /\ Grows(step)
           /\ open' = open \ {writer} \/ (open' = open /\ Blamed')
           /\ UNCHANGED <<lifecycle, tree, manifest, pointer>>
BY UnableSays, StandsStill DEF Closes, Clean

\* The result tells the failures, or a required failure is recorded.
LEMMA PrepareSays ==
    ASSUME failures \subseteq Failure
    PROVE  /\ PrepareRaises => Grows("prepare_result") /\ Blamed' /\ current' = current
           /\ PrepareTells => current' = failures /\ failures' = failures /\ Grows("prepare_result")
<1>1. "prepare_result" \in Attempted \cup Published \cup {"prepare_result"} /\ "error" \in Causes
  BY DEF Causes
<1> QED
  BY <1>1, RecordsOne, StandsStill DEF PrepareRaises, PrepareTells, Clean

\* The steps of the call keep the types; a pass starts only where one is left.
LEMMA StepKeepsTypes ==
    ASSUME FinalizationTypes, Step \/ Return
    PROVE  FinalizationTypes'
<1> USE DEF FinalizationTypes, FinalizationTypeOK, Attempted, Published, Prepared,
       Resting, Terminal, Opening, Grows, run, Clean, Causes
<1>0. /\ late' = late /\ reopened' = reopened
      /\ verdicts' \in {verdicts, verdicts \cup {disposition}}
  BY DEF Step, Return, UpdateLastRun
<1>1. CASE MarkFinalizing
  <2>1. "mark_finalizing" \in Attempted
    BY DEF Attempted
  <2> QED
    BY <1>0, <2>1, <1>1, MovesSays DEF MarkFinalizing, At, GoTo
<1>2. CASE StopOwnedProcesses
  <2>1. "stop_owned_processes" \in Attempted
    BY DEF Attempted
  <2> QED
    BY <1>0, <2>1, <1>2, ClosesSays, ZenonT(30)
       DEF StopOwnedProcesses, At, GoTo
<1>3. CASE CloseStageWriters
  <2>1. "close_stage_writers" \in Attempted
    BY DEF Attempted
  <2> QED
    BY <1>0, <2>1, <1>3, ClosesSays, ZenonT(30)
       DEF CloseStageWriters, At, GoTo
<1>4. CASE PrepareFirst
  BY <1>0, <1>4, PrepareSays, FinalizationAssumption DEF PrepareFirst, At, GoTo, Prepare
<1>5. CASE PublishArtifacts
  <2>1. pass' = pass + 1 /\ pass' \in 0 .. MaxPasses
    BY <1>5, FinalizationAssumption DEF PublishArtifacts, At, ThisPass
  <2>2. tree.edition \in 0 .. MaxWrites /\ tree' \in {tree, [tree EXCEPT !.told = current]}
    BY <1>5 DEF PublishArtifacts
  <2>3. /\ tree' \in [told : {None} \cup SUBSET Failure, edition : 0 .. MaxWrites]
        /\ tree'.edition = tree.edition
    BY <2>2
  <2>4. failures' \subseteq Failure
    BY <1>5, RecordsOne DEF PublishArtifacts
  <2>5. tree'.told = None \/ tree'.told \subseteq Failure
    BY <2>3
  <2> QED
    BY <1>0, <1>5, <2>1, <2>3, <2>4, <2>5 DEF PublishArtifacts, At, GoTo, AfterReports
<1>6. CASE CloseNonManifestWriters
  <2>1. "close_non_manifest_writers" \in Attempted
    BY DEF Attempted
  <2> QED
    BY <1>0, <2>1, <1>6, ClosesSays, ZenonT(30)
       DEF CloseNonManifestWriters, At, GoTo
<1>7. CASE Settle
  BY <1>0, <1>7, RecordsOne, StandsStill, PrepareSays DEF Settle, At, GoTo, PassesLeft,
     PublishAgain
<1>8. CASE PublishManifest
  BY <1>0, <1>8, RecordsOne, StandsStill DEF PublishManifest, At, GoTo
<1>9. CASE Explain
  BY <1>0, <1>9, PrepareSays DEF Explain, At, GoTo, Prepare
<1>10. CASE VerifyManifest
  BY <1>0, <1>10, RecordsOne, StandsStill DEF VerifyManifest, At, GoTo
<1>11. CASE Reconsider
  BY <1>0, <1>11, PrepareSays DEF Reconsider, At, GoTo, Prepare, PassesLeft
<1>12. CASE Conclude
  BY <1>0, <1>12, PrepareSays DEF Conclude, At, GoTo, Prepare
<1>13. CASE MarkFinalized
  <2>1. "mark_finalized" \in Attempted
    BY DEF Attempted
  <2> QED
    BY <1>0, <2>1, <1>13, MovesSays DEF MarkFinalized, At, GoTo, DispositionUnmarked
<1>14. CASE Tell
  BY <1>0, <1>14, PrepareSays DEF Tell, At, GoTo, Prepare
<1>15. CASE MarkIncomplete
  <2>1. "mark_incomplete" \in Attempted
    BY DEF Attempted
  <2> QED
    BY <1>0, <2>1, <1>15, MovesSays DEF MarkIncomplete, At, GoTo
<1>16. CASE UpdateLastRun
  <2>1. "update_last_run" \in Attempted
    BY DEF Attempted
  <2> QED
    BY <1>0, <2>1, <1>16, UnableSays, StandsStill DEF UpdateLastRun, At, GoTo
<1> QED
  BY <1>1, <1>2, <1>3, <1>4, <1>5, <1>6, <1>7, <1>8, <1>9, <1>10, <1>11, <1>12, <1>13,
     <1>14, <1>15, <1>16 DEF Step, Return

\* The steps of the call keep WritersTold.
LEMMA StepKeepsWriters ==
    ASSUME FinalizationTypes, WritersTold, Step \/ Return
    PROVE  WritersTold'
<1> USE DEF FinalizationTypes, FinalizationTypeOK, Attempted, Published, Prepared,
       Resting, Opening, Grows, run, Clean, Causes, WritersTold
<1>0. late' = late /\ verdicts' \in {verdicts, verdicts \cup {disposition}}
  BY DEF Step, Return, UpdateLastRun
<1>1. CASE MarkFinalizing
  <2>1. "mark_finalizing" \in Attempted
    BY DEF Attempted
  <2> QED
    BY <1>0, <2>1, <1>1, MovesSays DEF MarkFinalizing, At, GoTo
<1>2. CASE StopOwnedProcesses
  <2>1. "stop_owned_processes" \in Attempted
    BY DEF Attempted
  <2> QED
    BY <1>0, <2>1, <1>2, ClosesSays DEF StopOwnedProcesses, At, GoTo
<1>3. CASE CloseStageWriters
  <2>1. "close_stage_writers" \in Attempted
    BY DEF Attempted
  <2> QED
    BY <1>0, <2>1, <1>3, ClosesSays DEF CloseStageWriters, At, GoTo
<1>4. CASE PrepareFirst
  BY <1>0, <1>4, PrepareSays DEF PrepareFirst, At, GoTo, Prepare
<1>5. CASE PublishArtifacts
  BY <1>0, <1>5, RecordsOne, StandsStill DEF PublishArtifacts, At, GoTo, AfterReports,
     ThisPass
<1>6. CASE CloseNonManifestWriters
  <2>1. "close_non_manifest_writers" \in Attempted
    BY DEF Attempted
  <2> QED
    BY <1>0, <2>1, <1>6, ClosesSays DEF CloseNonManifestWriters, At, GoTo
<1>7. CASE Settle
  BY <1>0, <1>7, RecordsOne, StandsStill, PrepareSays DEF Settle, At, GoTo, PassesLeft,
     PublishAgain
<1>8. CASE PublishManifest
  BY <1>0, <1>8, RecordsOne, StandsStill DEF PublishManifest, At, GoTo
<1>9. CASE Explain
  BY <1>0, <1>9, PrepareSays DEF Explain, At, GoTo, Prepare
<1>10. CASE VerifyManifest
  BY <1>0, <1>10, RecordsOne, StandsStill DEF VerifyManifest, At, GoTo
<1>11. CASE Reconsider
  BY <1>0, <1>11, PrepareSays DEF Reconsider, At, GoTo, Prepare, PassesLeft
<1>12. CASE Conclude
  BY <1>0, <1>12, PrepareSays DEF Conclude, At, GoTo, Prepare
<1>13. CASE MarkFinalized
  <2>1. "mark_finalized" \in Attempted
    BY DEF Attempted
  <2> QED
    BY <1>0, <2>1, <1>13, MovesSays DEF MarkFinalized, At, GoTo, DispositionUnmarked
<1>14. CASE Tell
  BY <1>0, <1>14, PrepareSays DEF Tell, At, GoTo, Prepare
<1>15. CASE MarkIncomplete
  <2>1. "mark_incomplete" \in Attempted
    BY DEF Attempted
  <2> QED
    BY <1>0, <2>1, <1>15, MovesSays DEF MarkIncomplete, At, GoTo
<1>16. CASE UpdateLastRun
  <2>1. "update_last_run" \in Attempted
    BY DEF Attempted
  <2> QED
    BY <1>0, <2>1, <1>16, UnableSays, StandsStill DEF UpdateLastRun, At, GoTo
<1> QED
  BY <1>1, <1>2, <1>3, <1>4, <1>5, <1>6, <1>7, <1>8, <1>9, <1>10, <1>11, <1>12, <1>13,
     <1>14, <1>15, <1>16 DEF Step, Return

\* The steps of the call keep ReportsTold.
LEMMA StepKeepsReports ==
    ASSUME FinalizationTypes, WritersTold, ReportsTold, Step \/ Return
    PROVE  ReportsTold'
<1> USE DEF FinalizationTypes, FinalizationTypeOK, Attempted, Published, Prepared,
       Resting, Opening, Grows, run, Clean, Causes, ReportsTold, FinalizedTellsAll
<1>0. late' = late /\ verdicts' \in {verdicts, verdicts \cup {disposition}}
  BY DEF Step, Return, UpdateLastRun
<1>1. CASE MarkFinalizing
  <2>1. "mark_finalizing" \in Attempted
    BY DEF Attempted
  <2> QED
    BY <1>0, <2>1, <1>1, MovesSays DEF MarkFinalizing, At, GoTo
<1>2. CASE StopOwnedProcesses
  <2>1. "stop_owned_processes" \in Attempted
    BY DEF Attempted
  <2> QED
    BY <1>0, <2>1, <1>2, ClosesSays DEF StopOwnedProcesses, At, GoTo
<1>3. CASE CloseStageWriters
  <2>1. "close_stage_writers" \in Attempted
    BY DEF Attempted
  <2> QED
    BY <1>0, <2>1, <1>3, ClosesSays DEF CloseStageWriters, At, GoTo
<1>4. CASE PrepareFirst
  BY <1>0, <1>4, PrepareSays DEF PrepareFirst, At, GoTo, Prepare
<1>5. CASE PublishArtifacts
  BY <1>0, <1>5, RecordsOne, StandsStill DEF PublishArtifacts, At, GoTo, AfterReports,
     ThisPass
<1>6. CASE CloseNonManifestWriters
  <2>1. "close_non_manifest_writers" \in Attempted
    BY DEF Attempted
  <2> QED
    BY <1>0, <2>1, <1>6, ClosesSays DEF CloseNonManifestWriters, At, GoTo
<1>7. CASE Settle
  BY <1>0, <1>7, RecordsOne, StandsStill, PrepareSays DEF Settle, At, GoTo, PassesLeft,
     PublishAgain
<1>8. CASE PublishManifest
  BY <1>0, <1>8, RecordsOne, StandsStill DEF PublishManifest, At, GoTo
<1>9. CASE Explain
  BY <1>0, <1>9, PrepareSays DEF Explain, At, GoTo, Prepare
<1>10. CASE VerifyManifest
  BY <1>0, <1>10, RecordsOne, StandsStill DEF VerifyManifest, At, GoTo
<1>11. CASE Reconsider
  BY <1>0, <1>11, PrepareSays DEF Reconsider, At, GoTo, Prepare, PassesLeft
<1>12. CASE Conclude
  <2>1. (\E f \in failures' : Required(f)) <=> Blamed'
    BY DEF Blamed
  <2> QED
    BY <1>0, <1>12, <2>1, PrepareSays DEF Conclude, At, GoTo, Prepare
<1>13. CASE MarkFinalized
  <2>1. "mark_finalized" \in Attempted
    BY DEF Attempted
  <2>2. ~Blamed /\ verified /\ tree.told = failures /\ \A f \in failures : f[1] # "update_last_run"
    BY <1>13 DEF MarkFinalized, At
  <2>3. failures' = failures => ~Blamed' /\ lifecycle' = "finalized"
    BY <1>13, <2>1, <2>2, MovesSays DEF MarkFinalized, Blamed
  <2>4. \A f \in failures' : f[1] # "update_last_run"
    BY <1>13, <2>1, <2>2, MovesSays DEF MarkFinalized
  <2>5. failures' # failures => Blamed'
    BY <1>13, <2>1, <2>2, MovesSays DEF MarkFinalized
  <2> QED
    BY <1>0, <1>13, <2>2, <2>3, <2>4, <2>5 DEF MarkFinalized, At, GoTo, DispositionUnmarked
<1>14. CASE Tell
  BY <1>0, <1>14, PrepareSays DEF Tell, At, GoTo, Prepare
<1>15. CASE MarkIncomplete
  <2>1. "mark_incomplete" \in Attempted
    BY DEF Attempted
  <2> QED
    BY <1>0, <2>1, <1>15, MovesSays DEF MarkIncomplete, At, GoTo
<1>16. CASE UpdateLastRun
  <2>1. "update_last_run" \in Attempted
    BY DEF Attempted
  <2>2. Grows("update_last_run")
    BY <1>16, <2>1, UnableSays, StandsStill DEF UpdateLastRun
  <2>3. ~Blamed => ~Blamed'
    BY <2>2 DEF Blamed, Required
  <2> QED
    BY <1>0, <1>16, <2>2, <2>3 DEF UpdateLastRun, At, GoTo
<1> QED
  BY <1>1, <1>2, <1>3, <1>4, <1>5, <1>6, <1>7, <1>8, <1>9, <1>10, <1>11, <1>12, <1>13,
     <1>14, <1>15, <1>16 DEF Step, Return

\* The steps of the call keep SealedOnce.
LEMMA StepKeepsSeal ==
    ASSUME FinalizationTypes, WritersTold, ReportsTold, SealedOnce, Step \/ Return
    PROVE  SealedOnce'
<1> USE DEF FinalizationTypes, FinalizationTypeOK, Attempted, Published, Prepared,
       Resting, Opening, Grows, run, Clean, Causes, WritersTold, ReportsTold, SealedOnce,
       LastRunIsTrue, Transitions, MayBecome
<1>0. reopened' = reopened /\ (pc = "mark_finalizing" \/ ~reopened \/ Blamed)
  BY DEF Step, Return, At, MarkFinalizing, StopOwnedProcesses, CloseStageWriters,
     PrepareFirst, PublishArtifacts, CloseNonManifestWriters, Settle, PublishManifest,
     Explain, VerifyManifest, Reconsider, Conclude, MarkFinalized, Tell, MarkIncomplete,
     UpdateLastRun
<1>1. CASE MarkFinalizing
  <2>1. "mark_finalizing" \in Attempted
    BY DEF Attempted
  <2> QED
    BY <1>0, <2>1, <1>1, MovesSays DEF MarkFinalizing, At, GoTo
<1>2. CASE StopOwnedProcesses
  <2>1. "stop_owned_processes" \in Attempted
    BY DEF Attempted
  <2> QED
    BY <1>0, <2>1, <1>2, ClosesSays DEF StopOwnedProcesses, At, GoTo
<1>3. CASE CloseStageWriters
  <2>1. "close_stage_writers" \in Attempted
    BY DEF Attempted
  <2> QED
    BY <1>0, <2>1, <1>3, ClosesSays DEF CloseStageWriters, At, GoTo
<1>4. CASE PrepareFirst
  BY <1>0, <1>4, PrepareSays DEF PrepareFirst, At, GoTo, Prepare
<1>5. CASE PublishArtifacts
  BY <1>0, <1>5, RecordsOne, StandsStill DEF PublishArtifacts, At, GoTo, AfterReports,
     ThisPass
<1>6. CASE CloseNonManifestWriters
  <2>1. "close_non_manifest_writers" \in Attempted
    BY DEF Attempted
  <2> QED
    BY <1>0, <2>1, <1>6, ClosesSays DEF CloseNonManifestWriters, At, GoTo
<1>7. CASE Settle
  BY <1>0, <1>7, RecordsOne, StandsStill, PrepareSays DEF Settle, At, GoTo, PassesLeft,
     PublishAgain
<1>8. CASE PublishManifest
  BY <1>0, <1>8, RecordsOne, StandsStill DEF PublishManifest, At, GoTo
<1>9. CASE Explain
  BY <1>0, <1>9, PrepareSays DEF Explain, At, GoTo, Prepare
<1>10. CASE VerifyManifest
  BY <1>0, <1>10, RecordsOne, StandsStill DEF VerifyManifest, At, GoTo
<1>11. CASE Reconsider
  BY <1>0, <1>11, PrepareSays DEF Reconsider, At, GoTo, Prepare, PassesLeft
<1>12. CASE Conclude
  BY <1>0, <1>12, PrepareSays DEF Conclude, At, GoTo, Prepare
<1>13. CASE MarkFinalized
  <2>1. "mark_finalized" \in Attempted
    BY DEF Attempted
  <2>2. ~Blamed /\ verified /\ manifest = tree /\ lifecycle # "finalized"
    BY <1>13 DEF MarkFinalized, At
  <2>3. open = {}
    BY <1>13, <2>2 DEF MarkFinalized, At
  <2>4. \/ lifecycle' = "finalized" /\ failures' = failures
        \/ lifecycle' = lifecycle /\ Blamed'
    BY <1>13, <2>1, MovesSays DEF MarkFinalized
  <2>5. failures' = failures => ~Blamed'
    BY <2>2 DEF Blamed
  <2> QED
    BY <1>0, <1>13, <2>2, <2>3, <2>4, <2>5 DEF MarkFinalized, At, GoTo, DispositionUnmarked
<1>14. CASE Tell
  BY <1>0, <1>14, PrepareSays DEF Tell, At, GoTo, Prepare
<1>15. CASE MarkIncomplete
  <2>1. "mark_incomplete" \in Attempted
    BY DEF Attempted
  <2> QED
    BY <1>0, <2>1, <1>15, MovesSays DEF MarkIncomplete, At, GoTo
<1>16. CASE UpdateLastRun
  <2>1. "update_last_run" \in Attempted
    BY DEF Attempted
  <2> QED
    BY <1>0, <2>1, <1>16, UnableSays, StandsStill DEF UpdateLastRun, At, GoTo
<1> QED
  BY <1>1, <1>2, <1>3, <1>4, <1>5, <1>6, <1>7, <1>8, <1>9, <1>10, <1>11, <1>12, <1>13,
     <1>14, <1>15, <1>16 DEF Step, Return

\* The invariants hold in the beginning.
LEMMA FinalizationInitially ==
    ASSUME Init
    PROVE  FinalizationTypes /\ WritersTold /\ ReportsTold /\ SealedOnce
<1>1. None \notin {"finalized", "incomplete"}
  BY FinalizationAssumption DEF Terminal
<1>2. FinalizationTypes
  <2>1. MaxPasses \in 1 .. 4 /\ MaxWrites \in Nat
    BY FinalizationAssumption
  <2>2. pass < MaxPasses /\ pass \in 0 .. MaxPasses /\ 0 \in 0 .. MaxWrites
    BY <2>1 DEF Init
  <2>3. {} \subseteq Failure
    OBVIOUS
  <2> QED
    BY <2>2, <2>3 DEF Init, FinalizationTypes, FinalizationTypeOK, Resting, Terminal,
       Opening
<1>3. WritersTold
  BY DEF Init, WritersTold, Resting
<1>4. ReportsTold
  BY <1>1 DEF Init, ReportsTold, FinalizedTellsAll
<1>5. SealedOnce
  BY DEF Init, SealedOnce, LastRunIsTrue
<1> QED
  BY <1>2, <1>3, <1>4, <1>5

\* A new call keeps them; one on a finalized run opens it again.
LEMMA CallKeepsAll ==
    ASSUME FinalizationTypes, WritersTold, ReportsTold, Call
    PROVE  /\ FinalizationTypes' /\ WritersTold' /\ ReportsTold'
           /\ SealedOnce => SealedOnce'
<1>1. None \notin {"finalized", "incomplete"}
  BY FinalizationAssumption DEF Terminal
<1>2. FinalizationTypes'
  <2>1. 0 < MaxPasses /\ 0 \in 0 .. MaxPasses
    BY FinalizationAssumption
  <2>2. {} \subseteq Failure
    OBVIOUS
  <2> QED
    BY <2>1, <2>2 DEF Call, GoTo, run, FinalizationTypes, FinalizationTypeOK, Resting,
       Terminal, Opening, Attempted
<1>3. WritersTold'
  BY DEF Call, GoTo, run, WritersTold, Opening
<1>4. ReportsTold'
  BY <1>1 DEF Call, GoTo, run, ReportsTold, FinalizedTellsAll
<1>5. ASSUME SealedOnce PROVE SealedOnce'
  BY <1>5 DEF Call, GoTo, run, SealedOnce, LastRunIsTrue
<1> QED
  BY <1>2, <1>3, <1>4, <1>5

\* The end of the program keeps them.
LEMMA CrashKeepsAll ==
    ASSUME FinalizationTypes, WritersTold, ReportsTold, Crash
    PROVE  /\ FinalizationTypes' /\ WritersTold' /\ ReportsTold'
           /\ SealedOnce => SealedOnce'
<1>1. None \notin {"finalized", "incomplete"}
  BY FinalizationAssumption DEF Terminal
<1>2. FinalizationTypes'
  <2>1. 0 < MaxPasses /\ 0 \in 0 .. MaxPasses
    BY FinalizationAssumption
  <2>2. {} \subseteq Failure
    OBVIOUS
  <2> QED
    BY <2>1, <2>2 DEF Crash, GoTo, FinalizationTypes, FinalizationTypeOK, Resting,
       Terminal, Opening
<1>3. WritersTold'
  BY DEF Crash, GoTo, WritersTold, Resting
<1>4. ReportsTold'
  BY <1>1 DEF Crash, GoTo, ReportsTold, FinalizedTellsAll
<1>5. ASSUME SealedOnce PROVE SealedOnce'
  BY <1>5 DEF Crash, GoTo, SealedOnce, LastRunIsTrue
<1> QED
  BY <1>2, <1>3, <1>4, <1>5

\* The deadline keeps them.
LEMMA TimeKeepsAll ==
    ASSUME FinalizationTypes, WritersTold, ReportsTold, TimePasses
    PROVE  /\ FinalizationTypes' /\ WritersTold' /\ ReportsTold'
           /\ SealedOnce => SealedOnce'
BY DEF TimePasses, run, FinalizationTypes, FinalizationTypeOK, WritersTold, ReportsTold,
       FinalizedTellsAll, SealedOnce, LastRunIsTrue, Blamed

\* A late write keeps them: whoever is still open was told.
LEMMA LateWriteKeepsAll ==
    ASSUME FinalizationTypes, WritersTold, ReportsTold, LateWrite
    PROVE  /\ FinalizationTypes' /\ WritersTold' /\ ReportsTold'
           /\ SealedOnce => SealedOnce'
<1> USE DEF LateWrite, call
<1>1. /\ tree'.told = tree.told /\ tree'.edition = tree.edition + 1
      /\ tree.edition \in 0 .. MaxWrites /\ tree.edition < MaxWrites /\ MaxWrites \in Nat
      /\ tree' \in [told : {None} \cup SUBSET Failure, edition : 0 .. MaxWrites]
  BY FinalizationAssumption DEF FinalizationTypes
<1>2. FinalizationTypes'
  BY <1>1 DEF FinalizationTypes, FinalizationTypeOK
<1>3. WritersTold'
  BY DEF WritersTold, Blamed
<1>4. pc \in {"conclude", "mark_finalized"} => Blamed
  BY DEF WritersTold, FinalizationTypes, FinalizationTypeOK, Resting, Opening
<1>5. ReportsTold'
  BY <1>1, <1>4 DEF ReportsTold, FinalizedTellsAll, Blamed
<1>6. ASSUME SealedOnce PROVE SealedOnce'
  BY <1>6 DEF SealedOnce, LastRunIsTrue, Blamed
<1> QED
  BY <1>2, <1>3, <1>5, <1>6

\* The invariant of the finalization.
FinalizationInv == FinalizationTypes /\ WritersTold /\ ReportsTold

\* Every step keeps it, and the seal.
LEMMA FinalizationInvInductive ==
    ASSUME FinalizationInv, [Next]_vars
    PROVE  /\ FinalizationInv'
           /\ SealedOnce => SealedOnce'
<1> USE DEF FinalizationInv
<1>1. CASE Step \/ Return
  BY <1>1, StepKeepsTypes, StepKeepsWriters, StepKeepsReports, StepKeepsSeal
<1>2. CASE UNCHANGED vars
  BY <1>2 DEF vars, run, call, FinalizationTypes, FinalizationTypeOK, WritersTold,
     ReportsTold,
              FinalizedTellsAll, SealedOnce, LastRunIsTrue, Blamed
<1> QED
  BY <1>1, <1>2, CallKeepsAll, CrashKeepsAll, TimeKeepsAll, LateWriteKeepsAll DEF Next

\* Writers, reports and failures stay in step, with any number of calls, crashes and
\* late writes (finalize_run).
THEOREM FinalizationInvariant == Spec => []FinalizationInv
<1>1. Init => FinalizationInv
  BY FinalizationInitially DEF FinalizationInv
<1>2. FinalizationInv /\ [Next]_vars => FinalizationInv'
  BY FinalizationInvInductive
<1> QED
  BY <1>1, <1>2, PTL DEF Spec

\* Every variable of the finalization keeps its type, and the passes stay within
\* max_consistency_passes (finalize_run).
THEOREM FinalizationTypeCorrect == Spec => []FinalizationTypeOK
<1>1. FinalizationInv => FinalizationTypeOK
  BY DEF FinalizationInv, FinalizationTypes
<1> QED
  BY <1>1, FinalizationInvariant, PTL

\* The reports of a finalized run tell every failure its finalization met but one of
\* the last step (finalize_run).
THEOREM ReportsTellAll == Spec => []FinalizedTellsAll
<1>1. FinalizationInv => FinalizedTellsAll
  BY DEF FinalizationInv, ReportsTold
<1> QED
  BY <1>1, FinalizationInvariant, PTL

\* A finalized run stays sealed as long as finalize_run is not called on it again.
THEOREM SealedInvariant == Spec => []SealedOnce
<1>1. Init => SealedOnce
  BY FinalizationInitially
<1>2. FinalizationInv /\ SealedOnce /\ [Next]_vars => SealedOnce'
  BY FinalizationInvInductive
<1> QED
  BY <1>1, <1>2, FinalizationInvariant, PTL DEF Spec

\* The manifest of a finalized run is the one of its directory, whatever wrote to it
\* before, until another call of finalize_run on it; and no such call returns that it
\* finalized the run (_verify_manifest, mark_finalizing).
THEOREM ManifestIsTrue == Spec => []FinalizedIsManifested
<1>1. FinalizationInv /\ SealedOnce => FinalizedIsManifested
  BY DEF FinalizationInv, ReportsTold, SealedOnce, FinalizedIsManifested
<1> QED
  BY <1>1, SealedInvariant, FinalizationInvariant, PTL

\* When the last run is told as finalized, the run is, and the manifest named is the
\* verified one, until another call of finalize_run on it (update_last_run).
THEOREM LastRunIsTold == Spec => []LastRunIsTrue
<1>1. SealedOnce => LastRunIsTrue
  BY DEF SealedOnce
<1> QED
  BY <1>1, SealedInvariant, PTL

\* Nothing but another call of finalize_run changes the directory of a finalized run:
\* no process or writer that could not be stopped, no crash, no late step.
THEOREM NothingWritesLater == Spec => FinalizedIsSealed
<1>1. FinalizationInv /\ SealedOnce /\ [Next]_vars
        => [lifecycle = "finalized" /\ ~reopened' => UNCHANGED <<tree, manifest>>]_vars
  <2> SUFFICES ASSUME FinalizationInv, SealedOnce, Next, lifecycle = "finalized", ~reopened'
               PROVE  UNCHANGED <<tree, manifest>>
    OBVIOUS
  <2>0. ~reopened
    BY DEF Next, Call, Step, Return, TimePasses, LateWrite, Crash
  <2>1. pc \in {"update_last_run", "idle", "returned"} /\ open = {}
    BY <2>0 DEF SealedOnce
  <2>2. CASE Step
    BY <2>1, <2>2 DEF Step, At, MarkFinalizing, StopOwnedProcesses, CloseStageWriters,
         PrepareFirst, PublishArtifacts, CloseNonManifestWriters, Settle, PublishManifest,
         Explain, VerifyManifest, Reconsider, Conclude, MarkFinalized, Tell, MarkIncomplete
  <2>3. CASE Call \/ Return \/ TimePasses \/ LateWrite \/ Crash
    BY <2>1, <2>3 DEF Call, Return, UpdateLastRun, TimePasses, LateWrite, Crash, run
  <2> QED
    BY <2>2, <2>3 DEF Next
<1> QED
  BY <1>1, SealedInvariant, FinalizationInvariant, PTL DEF Spec, FinalizedIsSealed

\* FinalizationOutcome.__post_init__: a finalized outcome has a verified manifest and
\* no required failure.
OutcomeStands ==
    disposition = "finalized" => verified /\ ~\E f \in failures : Required(f)

\* finalize_run always returns an outcome that its constructor accepts.
THEOREM OutcomeIsAccepted == Spec => []OutcomeStands
<1>1. FinalizationInv => OutcomeStands
  BY DEF FinalizationInv, ReportsTold, Blamed, OutcomeStands
<1> QED
  BY <1>1, FinalizationInvariant, PTL

\* A run that is told as incomplete is told with the required failure it is incomplete
\* for: no preparation, pass or verification ends without its reason (finalize_run).
IncompleteIsTold == disposition = "incomplete" => \E f \in failures : Required(f)

\* No outcome is incomplete without a required failure, though the constructor of the
\* outcome does not ask for one.
THEOREM IncompleteIsExplained == Spec => []IncompleteIsTold
<1>1. FinalizationInv => IncompleteIsTold
  BY DEF FinalizationInv, ReportsTold, Blamed, IncompleteIsTold
<1> QED
  BY <1>1, FinalizationInvariant, PTL

-----------------------------------------------------------------------------
(***************************************************************************)
(* How long a call lasts.                                                  *)
(***************************************************************************)

\* The steps a call still has within its pass, and those of the passes that are left.
StepsInPass ==
    CASE pc \in Resting -> 0
      [] pc = "update_last_run" -> 1
      [] pc = "mark_incomplete" -> 2
      [] pc = "tell" -> 3
      [] pc = "mark_finalized" -> 4
      [] pc = "conclude" -> 5
      [] pc \in {"explain", "reconsider"} -> 6
      [] pc = "verify_manifest" -> 7
      [] pc = "publish_manifest" -> 8
      [] pc = "settle" -> 9
      [] pc = "close_non_manifest_writers" -> 10
      [] pc = "publish_artifacts" -> 1
      [] pc = "prepare" -> 2
      [] pc = "close_stage_writers" -> 3
      [] pc = "stop_owned_processes" -> 4
      [] pc = "mark_finalizing" -> 5
StepsLeft == 10 * (MaxPasses - pass) + StepsInPass

\* Each step of a call leaves fewer steps: whatever raises, changes or comes too late,
\* finalize_run makes at most 10 * max_consistency_passes + 5 steps.
THEOREM CallIsBounded ==
    Spec => /\ [](/\ StepsLeft \in 0 .. 10 * MaxPasses + 10
                  /\ pc = "mark_finalizing" => StepsLeft = 10 * MaxPasses + 5)
            /\ [][Step \/ Return => StepsLeft' < StepsLeft]_vars
<1>1. FinalizationInv => /\ StepsLeft \in 0 .. 10 * MaxPasses + 10
                         /\ pc = "mark_finalizing" => StepsLeft = 10 * MaxPasses + 5
  BY FinalizationAssumption
     DEF FinalizationInv, FinalizationTypes, FinalizationTypeOK, StepsLeft, StepsInPass,
         Attempted, Published, Prepared, Resting, Opening
<1>2. FinalizationInv /\ (Step \/ Return) => StepsLeft' < StepsLeft
  <2> SUFFICES ASSUME FinalizationInv, Step \/ Return PROVE StepsLeft' < StepsLeft
    OBVIOUS
  <2>1. /\ pass \in 0 .. MaxPasses /\ MaxPasses \in Nat
        /\ pc = "publish_artifacts" => pass < MaxPasses
    BY FinalizationAssumption DEF FinalizationInv, FinalizationTypes, FinalizationTypeOK
  <2> USE <2>1 DEF StepsLeft, StepsInPass, Resting, At, GoTo
  <2>2. CASE MarkFinalizing \/ StopOwnedProcesses \/ CloseStageWriters \/ PrepareFirst
    BY <2>2 DEF MarkFinalizing, StopOwnedProcesses, CloseStageWriters, PrepareFirst
  <2>3. CASE PublishArtifacts
    BY <2>3 DEF PublishArtifacts, ThisPass, AfterReports
  <2>4. CASE CloseNonManifestWriters \/ Settle
    BY <2>4 DEF CloseNonManifestWriters, Settle, PublishAgain
  <2>5. CASE PublishManifest \/ Explain \/ VerifyManifest \/ Reconsider
    BY <2>5 DEF PublishManifest, Explain, VerifyManifest, Reconsider
  <2>6. CASE Conclude \/ MarkFinalized \/ Tell \/ MarkIncomplete \/ UpdateLastRun
    BY <2>6 DEF Conclude, MarkFinalized, Tell, MarkIncomplete, UpdateLastRun
  <2> QED
    BY <2>2, <2>3, <2>4, <2>5, <2>6 DEF Step, Return
<1> QED
  BY <1>1, <1>2, FinalizationInvariant, PTL DEF Spec

=============================================================================
