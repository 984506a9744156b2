------------------------ MODULE ValidationRun_proofs ------------------------
(***************************************************************************)
(* Proofs about ValidationRun: the types, that OK is earned, that a        *)
(* cancellation has a cause, and that a request lets at most one more      *)
(* process start.                                                          *)
(***************************************************************************)
EXTENDS ValidationRun, Integers, TLAPS

-----------------------------------------------------------------------------
(***************************************************************************)
(* The inductive invariant.                                                *)
(***************************************************************************)

Calling == {"probing", "compiling", "playing"}
BeforeScenarios == {"begin", "probe", "probing", "scan", "compile", "compiling",
                    "containing", "fingerprint"}

\* The process call belongs to the step that waits for it, and its verdict to
\* its cause.
CallInv ==
    /\ phase # "idle" <=> step \in Calling
    /\ phase \in {"requested", "running"} => cause = NoCause
    /\ phase = "settled" => cause # NoCause
    /\ phase = "delivered" =>
          \/ verdict = "raised"
          \/ cause # NoCause /\ verdict = Process!StateOf(cause)
    /\ cause = "cancelled" => requested

\* What is about to be launched is the first launch after the request.
LateInv == late <= 1 /\ (~requested \/ phase = "requested" => late = 0)

\* How far the run is.
ProgressInv ==
    /\ step \in BeforeScenarios => Len(items) < request.files
    /\ step \in {"scenario", "playing"} => Len(items) = request.files
    /\ step = "playing" => Len(scenarios) < Len(request.required)

Read == work.compiled \in work.scanned..source[File]

\* What is known of the source at hand.
WorkInv ==
    /\ step \in {"compile", "compiling", "containing", "fingerprint"} =>
          work.scanned \in Versions /\ work.scanned <= source[File]
    /\ step \in {"compile", "compiling", "containing"} => work.status = "SKIPPED"
    /\ step = "compiling" /\ phase \in {"settled", "delivered"}
          /\ cause = "completed" => Read
    /\ step = "fingerprint" /\ work.status = "OK" => work.cause = "completed" /\ Read

\* A success is the success of a process that completed.
EvidenceInv ==
    /\ \A i \in DOMAIN items : items[i].status = "OK" =>
          /\ items[i].cause = "completed"
          /\ items[i].compiled \in items[i].scanned..items[i].fingerprint
    /\ \A j \in DOMAIN scenarios :
          scenarios[j].status = "OK" => scenarios[j].cause = "completed"

\* What the run has said is what its evidence says.
OutcomeInv ==
    /\ outcome.kind # "none" <=> step = "end"
    /\ outcome.kind = "cancelled" => requested \/ cause = "output_limit"
    /\ outcome.kind = "result" =>
          /\ Len(items) = request.files
          /\ Len(scenarios) = Len(request.required)
          /\ outcome.overall = Overall

RunInv ==
    /\ ValidationTypeOK
    /\ CallInv
    /\ LateInv
    /\ ProgressInv
    /\ WorkInv
    /\ EvidenceInv
    /\ OutcomeInv

-----------------------------------------------------------------------------
(***************************************************************************)
(* Types.                                                                  *)
(***************************************************************************)

LEMMA RequestTypes ==
    ASSUME NEW r \in Requests
    PROVE  r.required \in Seq(BOOLEAN) /\ r.files \in Nat \ {0}
  BY RunAssumption DEF Requests

LEMMA VersionsAreNumbers == Versions \subseteq Nat
  BY RunAssumption DEF Versions

LEMMA ElementsAreTyped ==
    ASSUME NEW S, NEW s \in Seq(S), NEW i \in DOMAIN s
    PROVE  s[i] \in S
  OBVIOUS

LEMMA SourceAtHand ==
    ASSUME ValidationTypeOK, Len(items) < request.files
    PROVE  File \in 1..request.files /\ source[File] \in Versions
<1>1. File \in 1..request.files
  BY RequestTypes DEF ValidationTypeOK, File
<1>2. QED
  BY <1>1 DEF ValidationTypeOK

LEMMA InitialTypes == Init => ValidationTypeOK
<1> SUFFICES ASSUME Init PROVE ValidationTypeOK
  OBVIOUS
<1>1. request.required \in Seq(BOOLEAN) /\ request.files \in Nat \ {0}
  BY RequestTypes DEF Init
<1>2. source \in [1..request.files -> Versions]
  BY RunAssumption, <1>1 DEF Init, Versions
<1>3. work \in [scanned: MaybeRead, compiled: MaybeRead, status: Statuses, cause: Verdicts]
  BY DEF Init, NoWork, MaybeRead, Statuses, Verdicts, NoCause
<1>4. /\ outcome \in [kind: {"none", "result", "cancelled", "raised"},
                       overall: {"none", "OK", "FAIL", "ERROR"}]
      /\ cause \in CallCauses /\ verdict \in Verdicts
  BY DEF Init, Running, NoCause, CallCauses, Verdicts
<1>5. /\ Len(items) = 0 /\ Len(scenarios) = 0 /\ Len(request.required) \in Nat
      /\ items \in Seq([scanned: Versions, compiled: MaybeRead, status: Statuses,
                        cause: Verdicts, fingerprint: Versions])
      /\ scenarios \in Seq([required: BOOLEAN, status: Statuses, cause: CallCauses])
  BY <1>1 DEF Init
<1>6. /\ request \in Requests /\ requested \in BOOLEAN /\ late \in Nat
      /\ phase = "idle" /\ step = "begin"
  BY DEF Init
<1>7. Len(items) <= request.files /\ Len(scenarios) <= Len(request.required)
  BY <1>1, <1>5
<1>8. QED
  BY <1>2, <1>3, <1>4, <1>5, <1>6, <1>7 DEF ValidationTypeOK

LEMMA InitialInv == Init => RunInv
<1> SUFFICES ASSUME Init PROVE RunInv
  OBVIOUS
<1>1. ValidationTypeOK
  BY InitialTypes
<1>2. request.files \in Nat \ {0}
  BY RequestTypes DEF Init
<1>3. CallInv /\ LateInv
  BY DEF Init, CallInv, LateInv, Calling, NoCause
<1>4. ProgressInv /\ WorkInv
  BY <1>2 DEF Init, ProgressInv, WorkInv, NoWork, BeforeScenarios
<1>5. EvidenceInv /\ OutcomeInv
  BY DEF Init, EvidenceInv, OutcomeInv, Running
<1>6. QED
  BY <1>1, <1>3, <1>4, <1>5 DEF RunInv

-----------------------------------------------------------------------------
(***************************************************************************)
(* A step of a process call.                                               *)
(***************************************************************************)

LEMMA CallStepKeepsInv == RunInv /\ CallStep => RunInv'
<1> SUFFICES ASSUME RunInv, CallStep PROVE RunInv'
  OBVIOUS
<1> USE DEF RunInv
<1>1. step \in Calling /\ step # "end" /\ step # "fingerprint"
  BY DEF CallInv, CallStep, Launch, Settle, LaunchFails, Answer, Process!Launch,
         Process!Settle, Process!NotLaunched, Process!Deliver, Process!Abandon, Calling
<1>2. /\ work.scanned' = work.scanned /\ work.status' = work.status
      /\ work' \in [scanned: MaybeRead, compiled: MaybeRead, status: Statuses, cause: Verdicts]
  <2>1. CASE Settle
    <3>1. step = "compiling" => source[File] \in Versions
      BY SourceAtHand DEF ProgressInv, BeforeScenarios
    <3>2. QED
      BY <2>1, <3>1 DEF Settle, ValidationTypeOK, MaybeRead
  <2>2. CASE UNCHANGED work
    BY <2>2 DEF ValidationTypeOK
  <2>3. QED
    BY <2>1, <2>2 DEF CallStep, Launch, LaunchFails, Answer
<1>3. /\ phase' \in {"idle", "requested", "running", "settled", "delivered"}
      /\ cause' \in CallCauses /\ verdict' \in Verdicts /\ late' \in Nat
  BY DEF ValidationTypeOK, CallStep, Launch, Settle, LaunchFails, Answer, Process!Launch,
         Process!Settle, Process!NotLaunched, Process!Deliver, Process!Abandon,
         Process!StateOf, CallInv, Causes, CallCauses, Verdicts, NoCause
<1>4. ValidationTypeOK'
  BY <1>2, <1>3 DEF ValidationTypeOK, CallStep
<1>5. CallInv'
  BY DEF ValidationTypeOK, CallInv, CallStep, Launch, Settle, LaunchFails, Answer,
         Process!Launch, Process!Settle, Process!NotLaunched, Process!Deliver,
         Process!Abandon, Process!StateOf, Causes, CallCauses, NoCause, Calling, Cancelled
<1>6. LateInv'
  BY DEF ValidationTypeOK, LateInv, CallStep, Launch, Settle, LaunchFails, Answer,
         Process!Launch, Process!Settle, Process!NotLaunched, Process!Deliver, Process!Abandon
<1>7. ProgressInv'
  BY DEF ProgressInv, CallStep
<1>8. WorkInv'
  <2>1. UNCHANGED <<step, source, items>> /\ File' = File
    BY DEF CallStep, File
  <2>2. step = "compiling" /\ phase' \in {"settled", "delivered"} /\ cause' = "completed" => Read'
    <3>1. CASE Settle
      <4> SUFFICES ASSUME step = "compiling" PROVE Read'
        OBVIOUS
      <4>1. work'.compiled = source[File]
        BY <3>1 DEF Settle, ValidationTypeOK
      <4>2. work.scanned \in Nat /\ work.scanned <= source[File]
        BY DEF WorkInv, Versions
      <4>3. source[File] \in Nat
        BY SourceAtHand, VersionsAreNumbers DEF ProgressInv, BeforeScenarios
      <4>4. source'[File'] = source[File] /\ work'.scanned = work.scanned
        BY <1>2, <2>1
      <4>5. QED
        BY <4>1, <4>2, <4>3, <4>4 DEF Read
    <3>2. CASE Launch
      BY <3>2 DEF Launch, Process!Launch
    <3>3. CASE LaunchFails
      BY <3>3 DEF LaunchFails
    <3>4. CASE Answer
      BY <2>1, <3>4 DEF Answer, Process!Deliver, Process!Abandon, WorkInv, Read, CallInv, NoCause
    <3>5. QED
      BY <3>1, <3>2, <3>3, <3>4 DEF CallStep
  <2>3. QED
    BY <1>1, <1>2, <2>1, <2>2 DEF WorkInv
<1>9. EvidenceInv' /\ OutcomeInv'
  BY <1>1 DEF EvidenceInv, OutcomeInv, CallStep, Overall, Unfinished
<1>10. QED
  BY <1>4, <1>5, <1>6, <1>7, <1>8, <1>9

-----------------------------------------------------------------------------
(***************************************************************************)
(* The steps of the run: how it ends, how it calls, how it goes on.        *)
(***************************************************************************)

Frame == UNCHANGED <<request, source, requested, late>>

\* The run ends without a result.
LEMMA EndKeepsInv ==
    ASSUME RunInv, Frame, NEW kind \in {"raised", "cancelled"}, EndAs(kind, "none"),
           phase' = "idle", UNCHANGED <<cause, verdict>>,
           kind = "cancelled" => requested \/ cause = "output_limit"
    PROVE  RunInv'
<1> USE DEF RunInv, Frame, EndAs
<1>1. ValidationTypeOK'
  BY DEF ValidationTypeOK
<1>2. CallInv' /\ LateInv'
  BY DEF CallInv, LateInv, Calling
<1>3. ProgressInv' /\ WorkInv'
  BY DEF ProgressInv, WorkInv, BeforeScenarios
<1>4. EvidenceInv'
  BY DEF EvidenceInv
<1>5. OutcomeInv'
  BY DEF OutcomeInv
<1>6. QED
  BY <1>1, <1>2, <1>3, <1>4, <1>5

\* The run calls run_process and waits.
LEMMA CallKeepsInv ==
    ASSUME RunInv, Frame, NEW next \in Calling, Call(next),
           <<step, next>> \in {<<"probe", "probing">>, <<"compile", "compiling">>,
                               <<"scenario", "playing">>},
           next = "playing" => Len(scenarios) < Len(request.required)
    PROVE  RunInv'
<1> USE DEF RunInv, Frame, Call, Goto, BeginCall, Cancelled
<1>1. ValidationTypeOK'
  BY DEF ValidationTypeOK, Calling, CallCauses, Causes, Verdicts, NoCause
<1>2. CallInv'
  BY DEF CallInv, Calling, NoCause
<1>3. LateInv'
  BY DEF LateInv, ValidationTypeOK
<1>4. ProgressInv'
  BY DEF ProgressInv, BeforeScenarios
<1>5. WorkInv'
  BY DEF WorkInv, Read, File, NoCause
<1>6. EvidenceInv'
  BY DEF EvidenceInv
<1>7. OutcomeInv'
  BY DEF OutcomeInv, Overall, Unfinished
<1>8. QED
  BY <1>1, <1>2, <1>3, <1>4, <1>5, <1>6, <1>7

\* The run goes on to a step that reads the source or the token.
LEMMA GotoKeepsInv ==
    ASSUME RunInv, Frame, NEW next \in {"scan", "probe"}, Goto(next),
           step \in {"begin", "probing"}, phase' = "idle", UNCHANGED <<cause, verdict>>
    PROVE  RunInv'
<1> USE DEF RunInv, Frame, Goto
<1>1. ValidationTypeOK'
  BY DEF ValidationTypeOK
<1>2. CallInv' /\ LateInv'
  BY DEF CallInv, LateInv, Calling
<1>3. ProgressInv' /\ WorkInv'
  BY DEF ProgressInv, WorkInv, BeforeScenarios
<1>4. EvidenceInv'
  BY DEF EvidenceInv
<1>5. OutcomeInv'
  BY DEF OutcomeInv
<1>6. QED
  BY <1>1, <1>2, <1>3, <1>4, <1>5

-----------------------------------------------------------------------------
(***************************************************************************)
(* One lemma for each step of the run.                                     *)
(***************************************************************************)

LEMMA BeginKeepsInv == RunInv /\ Frame /\ Begin => RunInv'
<1> SUFFICES ASSUME RunInv, Frame, Begin PROVE RunInv'
  OBVIOUS
<1>1. phase' = "idle" /\ UNCHANGED <<cause, verdict>>
  BY DEF Begin, RunInv, CallInv, Calling, call
<1>2. CASE Cancel
  BY <1>1, <1>2, EndKeepsInv DEF Begin, Cancel, Cancelled, Goto, Raise, EndAs
<1>3. CASE Raise
  BY <1>1, <1>3, EndKeepsInv DEF Raise
<1>4. CASE Goto(IF request.skipProbe THEN "scan" ELSE "probe")
  BY <1>1, <1>4, GotoKeepsInv DEF Begin
<1>5. QED
  BY <1>2, <1>3, <1>4 DEF Begin

LEMMA ProbeKeepsInv == RunInv /\ Frame /\ (Probe \/ ProbeReturns) => RunInv'
<1> SUFFICES ASSUME RunInv, Frame, Probe \/ ProbeReturns PROVE RunInv'
  OBVIOUS
<1>1. CASE Probe
  <2>1. CASE RaiseBefore
    BY <1>1, <2>1, EndKeepsInv DEF Probe, RaiseBefore, Raise, call
  <2>2. CASE Call("probing")
    BY <1>1, <2>2, CallKeepsInv DEF Probe, Calling
  <2> QED
    BY <1>1, <2>1, <2>2 DEF Probe
<1>2. CASE ProbeReturns
  <2>1. phase' = "idle" /\ UNCHANGED <<cause, verdict>>
    BY <1>2 DEF ProbeReturns, Returned
  <2>2. CASE Raise
    BY <2>1, <2>2, EndKeepsInv DEF Raise
  <2>3. CASE Goto("scan")
    BY <1>2, <2>1, <2>3, GotoKeepsInv DEF ProbeReturns
  <2>4. QED
    BY <1>2, <2>2, <2>3 DEF ProbeReturns
<1>3. QED
  BY <1>1, <1>2

LEMMA ScanKeepsInv == RunInv /\ Frame /\ Scan => RunInv'
<1> SUFFICES ASSUME RunInv, Frame, Scan PROVE RunInv'
  OBVIOUS
<1>1. phase' = "idle" /\ UNCHANGED <<cause, verdict>>
  BY DEF Scan, RunInv, CallInv, Calling, call
<1>2. CASE Cancelled
  BY <1>1, <1>2, EndKeepsInv DEF Scan, Cancel, Cancelled
<1>3. CASE Raise
  BY <1>1, <1>3, EndKeepsInv DEF Raise
<1>4. CASE /\ work' = [NoWork EXCEPT !.scanned = source[File]]
           /\ step' = "compile" /\ UNCHANGED <<items, scenarios, outcome>>
  <2> USE DEF RunInv, Frame
  <2>1. source[File] \in Versions /\ step = "scan"
    BY SourceAtHand DEF ProgressInv, BeforeScenarios, Scan
  <2>2. /\ work'.scanned = source[File] /\ work'.scanned \in Versions
        /\ work'.status = "SKIPPED"
        /\ work' \in [scanned: MaybeRead, compiled: MaybeRead, status: Statuses, cause: Verdicts]
    BY <1>4, <2>1 DEF NoWork, MaybeRead, Statuses, Verdicts, NoCause
  <2>3. ValidationTypeOK'
    BY <1>1, <1>4, <2>2 DEF ValidationTypeOK
  <2>4. CallInv' /\ LateInv'
    BY <1>1, <1>4, <2>1 DEF CallInv, LateInv, Calling
  <2>5. ProgressInv'
    BY <1>4, <2>1 DEF ProgressInv, BeforeScenarios
  <2>6. WorkInv'
    <3>1. File' = File /\ source' = source
      BY <1>4 DEF File
    <3>2. source[File] \in Nat
      BY <2>1, VersionsAreNumbers
    <3>3. QED
      BY <1>4, <2>2, <3>1, <3>2 DEF WorkInv
  <2>7. EvidenceInv' /\ OutcomeInv'
    BY <1>4, <2>1 DEF EvidenceInv, OutcomeInv
  <2>8. QED
    BY <2>3, <2>4, <2>5, <2>6, <2>7
<1>5. QED
  BY <1>2, <1>3, <1>4 DEF Scan

\* A step that takes what is known of the source at hand on.
LEMMA WorkKeepsInv ==
    ASSUME RunInv, Frame, step \in {"compile", "compiling", "containing"},
           step' \in {"containing", "fingerprint"}, step' = "containing" => work' = work,
           phase' = "idle", UNCHANGED <<cause, verdict, items, scenarios, outcome>>,
           work' \in [scanned: MaybeRead, compiled: MaybeRead, status: Statuses, cause: Verdicts],
           work'.scanned = work.scanned,
           work'.status = "OK" => work'.cause = "completed" /\ Read /\ work'.compiled = work.compiled
    PROVE  RunInv'
<1> USE DEF RunInv, Frame
<1>1. ValidationTypeOK'
  BY DEF ValidationTypeOK
<1>2. CallInv' /\ LateInv'
  BY DEF CallInv, LateInv, Calling
<1>3. ProgressInv'
  BY DEF ProgressInv, BeforeScenarios
<1>4. WorkInv'
  <2>1. File' = File
    BY DEF File
  <2>2. QED
    BY <2>1 DEF WorkInv, Read
<1>5. EvidenceInv' /\ OutcomeInv'
  BY DEF EvidenceInv, OutcomeInv
<1>6. QED
  BY <1>1, <1>2, <1>3, <1>4, <1>5

LEMMA CompileKeepsInv == RunInv /\ Frame /\ Compile => RunInv'
<1> SUFFICES ASSUME RunInv, Frame, Compile PROVE RunInv'
  OBVIOUS
<1>1. CASE Cancelled
  BY <1>1, EndKeepsInv DEF Compile, Cancel, Cancelled, call
<1>2. CASE ~Cancelled /\ request.noCompile
  <2>1. /\ step = "compile" /\ step' = "fingerprint" /\ phase' = "idle"
        /\ UNCHANGED <<cause, verdict, work, items, scenarios, outcome>>
    BY <1>2 DEF Compile, Goto, call
  <2>2. QED
    BY <2>1, WorkKeepsInv DEF RunInv, ValidationTypeOK, WorkInv
<1>3. CASE ~Cancelled /\ ~request.noCompile
  <2>1. CASE RaiseBefore
    BY <2>1, EndKeepsInv DEF Compile, RaiseBefore, Raise, call
  <2>2. CASE Call("compiling")
    BY <2>2, CallKeepsInv DEF Compile, Calling
  <2> QED
    BY <1>3, <2>1, <2>2 DEF Compile
<1>4. QED
  BY <1>1, <1>2, <1>3

\* The evidence of the compilation at hand is settled.
LEMMA EvidenceKeepsInv ==
    ASSUME RunInv, Frame, step \in {"compiling", "containing"},
           NEW status \in Statuses, NEW how \in Verdicts, Evidence(status, how),
           phase' = "idle", UNCHANGED <<cause, verdict>>,
           status = "OK" => how = "completed" /\ Read
    PROVE  RunInv'
<1>1. work \in [scanned: MaybeRead, compiled: MaybeRead, status: Statuses, cause: Verdicts]
  BY DEF RunInv, ValidationTypeOK
<1>2. /\ work' \in [scanned: MaybeRead, compiled: MaybeRead, status: Statuses, cause: Verdicts]
      /\ work'.scanned = work.scanned /\ work'.compiled = work.compiled
      /\ work'.status = status /\ work'.cause = how
  BY <1>1 DEF Evidence
<1> QED
  BY <1>2, WorkKeepsInv DEF Evidence

LEMMA CompileReturnsKeepsInv == RunInv /\ Frame /\ CompileReturns => RunInv'
<1> SUFFICES ASSUME RunInv, Frame, CompileReturns PROVE RunInv'
  OBVIOUS
<1>1. step = "compiling" /\ phase = "delivered" /\ phase' = "idle" /\ UNCHANGED <<cause, verdict>>
  BY DEF CompileReturns, Returned
<1>2. CASE AbortsRun /\ Cancel
  <2>1. requested \/ cause = "output_limit"
    BY <1>1, <1>2 DEF RunInv, CallInv, AbortsRun, Process!StateOf, ValidationTypeOK,
       CallCauses, Causes, NoCause
  <2>2. QED
    BY <1>1, <1>2, <2>1, EndKeepsInv DEF Cancel
<1>3. CASE Raise
  BY <1>1, <1>3, EndKeepsInv DEF Raise
<1>4. ASSUME NEW s \in {"OK", "FAIL", "ERROR"}, verdict # "completed" => s = "ERROR",
             Evidence(s, verdict)
      PROVE  RunInv'
  <2>1. verdict \in Verdicts
    BY DEF RunInv, ValidationTypeOK
  <2>2. verdict = "completed" => Read
    BY <1>1 DEF RunInv, CallInv, WorkInv, Process!StateOf, ValidationTypeOK,
       CallCauses, Causes, NoCause
  <2>3. s = "OK" => verdict = "completed" /\ Read
    BY <1>4, <2>2
  <2> QED
    BY <1>1, <1>4, <2>1, <2>3, EvidenceKeepsInv DEF Statuses
<1>5. CASE Goto("containing")
  BY <1>1, <1>5, WorkKeepsInv DEF Goto, RunInv, ValidationTypeOK, WorkInv
<1>6. QED
  BY <1>2, <1>3, <1>4, <1>5 DEF CompileReturns

LEMMA ContainKeepsInv == RunInv /\ Frame /\ ContainException => RunInv'
<1> SUFFICES ASSUME RunInv, Frame, ContainException PROVE RunInv'
  OBVIOUS
<1>1. step = "containing" /\ phase' = "idle" /\ UNCHANGED <<cause, verdict>>
  BY DEF ContainException, RunInv, CallInv, Calling, call
<1>2. CASE Raise
  BY <1>1, <1>2, EndKeepsInv DEF Raise
<1>3. CASE Evidence("ERROR", "raised")
  BY <1>1, <1>3, EvidenceKeepsInv DEF Statuses, Verdicts
<1> QED
  BY <1>2, <1>3 DEF ContainException

LEMMA FingerprintKeepsInv == RunInv /\ Frame /\ Fingerprint => RunInv'
<1> SUFFICES ASSUME RunInv, Frame, Fingerprint PROVE RunInv'
  OBVIOUS
<1>1. step = "fingerprint" /\ phase = "idle" /\ phase' = "idle" /\ UNCHANGED <<cause, verdict>>
  BY DEF Fingerprint, RunInv, CallInv, Calling, call
<1>2. CASE Cancel /\ requested
  BY <1>1, <1>2, EndKeepsInv DEF Cancel
<1>3. CASE Raise
  BY <1>1, <1>3, EndKeepsInv DEF Raise
<1>4. CASE /\ items' = Append(items, [scanned |-> work.scanned,
                   compiled |-> work.compiled, status |-> work.status,
                   cause |-> work.cause, fingerprint |-> source[File]])
           /\ step' = (IF File < request.files THEN "scan" ELSE "scenario")
           /\ work' = NoWork /\ UNCHANGED <<scenarios, outcome>>
  <2> DEFINE item == [scanned |-> work.scanned, compiled |-> work.compiled,
                      status |-> work.status, cause |-> work.cause,
                      fingerprint |-> source[File]]
             Items == [scanned: Versions, compiled: MaybeRead, status: Statuses,
                       cause: Verdicts, fingerprint: Versions]
  <2>1. request.files \in Nat /\ Len(items) < request.files /\ source[File] \in Versions
    BY <1>1, RequestTypes, SourceAtHand DEF RunInv, ValidationTypeOK, ProgressInv, BeforeScenarios
  <2>2. item \in Items
    BY <1>1, <2>1 DEF RunInv, ValidationTypeOK, WorkInv
  <2>3. items \in Seq(Items)
    BY DEF RunInv, ValidationTypeOK
  <2>4. /\ items' \in Seq(Items) /\ Len(items') = Len(items) + 1
        /\ DOMAIN items' = 1..Len(items) + 1 /\ DOMAIN items = 1..Len(items)
        /\ \A i \in DOMAIN items : items'[i] = items[i]
        /\ items'[Len(items) + 1] = item
    BY <1>4, <2>2, <2>3
  <2>5. work' \in [scanned: MaybeRead, compiled: MaybeRead, status: Statuses, cause: Verdicts]
    BY <1>4 DEF NoWork, MaybeRead, Statuses, Verdicts, NoCause
  <2>6. step' \in {"scan", "scenario"}
    BY <1>4
  <2>7. ValidationTypeOK'
    BY <1>1, <1>4, <2>1, <2>4, <2>5, <2>6 DEF RunInv, ValidationTypeOK, Frame
  <2>8. CallInv' /\ LateInv'
    BY <1>1, <2>6 DEF RunInv, CallInv, LateInv, Calling, Frame
  <2>9. ProgressInv' /\ WorkInv'
    BY <1>4, <2>1, <2>3, <2>4, <2>6 DEF ProgressInv, WorkInv, BeforeScenarios, File, Frame
  <2>10. EvidenceInv'
    <3>1. item.status = "OK" => item.cause = "completed" /\ item.compiled \in item.scanned..item.fingerprint
      BY <1>1 DEF RunInv, WorkInv, Read
    <3>2. \A i \in DOMAIN items' : i \in DOMAIN items \/ i = Len(items) + 1
      BY <2>3, <2>4
    <3>3. QED
      BY <1>4, <2>4, <3>1, <3>2 DEF RunInv, EvidenceInv
  <2>11. OutcomeInv'
    BY <1>1, <1>4, <2>6 DEF RunInv, OutcomeInv, ValidationTypeOK
  <2>12. QED
    BY <2>7, <2>8, <2>9, <2>10, <2>11 DEF RunInv
<1>5. QED
  BY <1>2, <1>3, <1>4 DEF Fingerprint, Cancelled

LEMMA PlayScenarioKeepsInv == RunInv /\ Frame /\ PlayScenario => RunInv'
<1> SUFFICES ASSUME RunInv, Frame, PlayScenario PROVE RunInv'
  OBVIOUS
<1>1. CASE Cancelled
  BY <1>1, EndKeepsInv DEF PlayScenario, Cancel, Cancelled, call
<1>2. CASE ~Cancelled
  <2>1. Len(scenarios) < Len(request.required)
    <3>1. Len(scenarios) \in Nat /\ Len(request.required) \in Nat
      BY RequestTypes DEF RunInv, ValidationTypeOK
    <3>2. QED
      BY <3>1 DEF PlayScenario, Scenario
  <2>2. CASE RaiseBefore
    BY <2>2, EndKeepsInv DEF PlayScenario, RaiseBefore, Raise, call
  <2>3. CASE Call("playing")
    BY <2>1, <2>3, CallKeepsInv DEF PlayScenario, Calling
  <2> QED
    BY <1>2, <2>2, <2>3 DEF PlayScenario
<1>3. QED
  BY <1>1, <1>2

LEMMA ScenarioReturnsKeepsInv == RunInv /\ Frame /\ ScenarioReturns => RunInv'
<1> SUFFICES ASSUME RunInv, Frame, ScenarioReturns PROVE RunInv'
  OBVIOUS
<1>1. /\ step = "playing" /\ phase = "delivered" /\ phase' = "idle"
      /\ UNCHANGED <<cause, verdict>>
  BY DEF ScenarioReturns, Returned
<1>2. CASE Raise
  BY <1>1, <1>2, EndKeepsInv DEF Raise
<1>3. CASE ~Raise
  <2>1. PICK s \in ScenarioStatus :
            /\ verdict # "raised"
            /\ scenarios' = Append(scenarios,
                   [required |-> request.required[Scenario], status |-> s, cause |-> cause])
            /\ step' = "scenario"
            /\ UNCHANGED <<work, items, outcome>>
    BY <1>3 DEF ScenarioReturns
  <2> DEFINE result == [required |-> request.required[Scenario], status |-> s, cause |-> cause]
             Results == [required: BOOLEAN, status: Statuses, cause: CallCauses]
  <2>2. /\ request.required \in Seq(BOOLEAN) /\ scenarios \in Seq(Results)
        /\ Len(scenarios) < Len(request.required)
    BY <1>1, RequestTypes DEF RunInv, ValidationTypeOK, ProgressInv
  <2>3. result \in Results
    <3>1. request.required[Scenario] \in BOOLEAN
      BY <2>2 DEF Scenario
    <3>2. s \in Statuses
      BY <2>1 DEF ScenarioStatus, Statuses
    <3>3. QED
      BY <3>1, <3>2 DEF RunInv, ValidationTypeOK
  <2>4. /\ scenarios' \in Seq(Results) /\ Len(scenarios') = Len(scenarios) + 1
        /\ DOMAIN scenarios' = 1..Len(scenarios) + 1 /\ DOMAIN scenarios = 1..Len(scenarios)
        /\ \A j \in DOMAIN scenarios : scenarios'[j] = scenarios[j]
        /\ scenarios'[Len(scenarios) + 1] = result
    BY <2>1, <2>2, <2>3
  <2>5. ValidationTypeOK'
    BY <1>1, <2>1, <2>2, <2>4 DEF RunInv, ValidationTypeOK, Frame
  <2>6. CallInv' /\ LateInv'
    BY <1>1, <2>1 DEF RunInv, CallInv, LateInv, Calling, Frame
  <2>7. ProgressInv' /\ WorkInv'
    BY <1>1, <2>1 DEF RunInv, ProgressInv, WorkInv, BeforeScenarios, Frame
  <2>8. EvidenceInv'
    <3>1. s = "OK" => cause = "completed"
      BY <1>1, <2>1 DEF RunInv, CallInv, ScenarioStatus, Process!StateOf, ValidationTypeOK,
         CallCauses, Causes, NoCause
    <3>2. \A j \in DOMAIN scenarios' : j \in DOMAIN scenarios \/ j = Len(scenarios) + 1
      BY <2>2, <2>4
    <3>3. QED
      BY <2>1, <2>4, <3>1, <3>2 DEF RunInv, EvidenceInv
  <2>9. OutcomeInv'
    BY <1>1, <2>1 DEF RunInv, OutcomeInv, ValidationTypeOK
  <2>10. QED
    BY <2>5, <2>6, <2>7, <2>8, <2>9 DEF RunInv
<1>4. QED
  BY <1>2, <1>3

LEMMA FinishKeepsInv == RunInv /\ Frame /\ Finish => RunInv'
<1> SUFFICES ASSUME RunInv, Frame, Finish PROVE RunInv'
  OBVIOUS
<1>1. /\ step = "scenario" /\ phase = "idle" /\ phase' = "idle"
      /\ UNCHANGED <<cause, verdict>>
  BY DEF Finish, RunInv, CallInv, Calling, call
<1>2. CASE Raise
  BY <1>1, <1>2, EndKeepsInv DEF Raise
<1>3. CASE EndAs("result", Overall)
  <2> USE DEF RunInv, Frame, EndAs
  <2>1. Overall \in {"OK", "FAIL", "ERROR"}
    BY DEF Overall
  <2>2. ValidationTypeOK'
    BY <1>1, <1>3, <2>1 DEF ValidationTypeOK
  <2>3. CallInv' /\ LateInv'
    BY <1>1, <1>3 DEF CallInv, LateInv, Calling
  <2>4. ProgressInv' /\ WorkInv'
    BY <1>3 DEF ProgressInv, WorkInv, BeforeScenarios
  <2>5. EvidenceInv'
    BY <1>3 DEF EvidenceInv
  <2>6. OutcomeInv'
    <3>1. Len(items) = request.files
      BY <1>1 DEF ProgressInv
    <3>2. Len(scenarios) = Len(request.required)
      <4>1. /\ Len(scenarios) \in Nat /\ Len(request.required) \in Nat
            /\ Len(scenarios) <= Len(request.required)
        BY RequestTypes DEF ValidationTypeOK
      <4>2. QED
        BY <4>1 DEF Finish, Scenario
    <3>3. Overall' = Overall
      BY <1>3 DEF Overall, Unfinished
    <3>4. QED
      BY <1>3, <3>1, <3>2, <3>3 DEF OutcomeInv
  <2>7. QED
    BY <2>2, <2>3, <2>4, <2>5, <2>6
<1>4. QED
  BY <1>2, <1>3 DEF Finish

-----------------------------------------------------------------------------
(***************************************************************************)
(* The other actors.                                                       *)
(***************************************************************************)

LEMMA RequestKeepsInv == RunInv /\ RequestCancellation => RunInv'
<1> SUFFICES ASSUME RunInv, RequestCancellation PROVE RunInv'
  OBVIOUS
<1> USE DEF RunInv, RequestCancellation, call, locals
<1>1. ValidationTypeOK'
  BY DEF ValidationTypeOK
<1>2. CallInv' /\ LateInv'
  BY DEF CallInv, LateInv
<1>3. ProgressInv' /\ WorkInv'
  BY DEF ProgressInv, WorkInv, Read, File
<1>4. EvidenceInv' /\ OutcomeInv'
  BY DEF EvidenceInv, OutcomeInv, Overall, Unfinished
<1>5. QED
  BY <1>1, <1>2, <1>3, <1>4

LEMMA EditKeepsInv ==
    ASSUME RunInv, NEW i \in DOMAIN source, EditSource(i)
    PROVE  RunInv'
<1> USE DEF RunInv, EditSource, call, locals
<1>1. /\ source' \in [1..request.files -> Versions]
      /\ \A j \in DOMAIN source : source[j] <= source'[j] /\ source[j] \in Nat /\ source'[j] \in Nat
  <2>1. source \in [1..request.files -> Versions] /\ i \in 1..request.files
    BY DEF ValidationTypeOK
  <2>2. source[i] \in Nat /\ source[i] + 1 \in Versions
    BY <2>1, RunAssumption DEF Versions
  <2>3. source' \in [1..request.files -> Versions]
    BY <2>1, <2>2
  <2>4. source'[i] = source[i] + 1 /\ \A j \in DOMAIN source \ {i} : source'[j] = source[j]
    BY <2>1
  <2>5. ASSUME NEW j \in DOMAIN source
        PROVE  source[j] <= source'[j] /\ source[j] \in Nat /\ source'[j] \in Nat
    <3>1. source[j] \in Nat
      BY <2>1, VersionsAreNumbers
    <3>2. source'[j] = source[j] \/ source'[j] = source[j] + 1
      BY <2>4
    <3>3. QED
      BY <3>1, <3>2
  <2>6. QED
    BY <2>3, <2>5
<1>2. ValidationTypeOK'
  BY <1>1 DEF ValidationTypeOK
<1>3. CallInv' /\ LateInv' /\ ProgressInv'
  BY DEF CallInv, LateInv, ProgressInv
<1>4. WorkInv'
  <2>1. File' = File /\ UNCHANGED <<step, work, phase, cause>>
    BY DEF File
  <2>2. CASE step \in {"compile", "compiling", "containing", "fingerprint"}
    <3>1. File \in DOMAIN source
      BY <2>2, SourceAtHand DEF ValidationTypeOK, ProgressInv, BeforeScenarios
    <3>2. /\ work.scanned \in Nat /\ work.scanned <= source[File]
          /\ source[File] <= source'[File] /\ source[File] \in Nat /\ source'[File] \in Nat
      BY <1>1, <2>2, <3>1, VersionsAreNumbers DEF WorkInv
    <3>3. Read => Read'
      BY <2>1, <3>2 DEF Read
    <3>4. QED
      BY <2>1, <3>2, <3>3 DEF WorkInv
  <2>3. CASE step \notin {"compile", "compiling", "containing", "fingerprint"}
    BY <2>1, <2>3 DEF WorkInv
  <2>4. QED
    BY <2>2, <2>3
<1>5. EvidenceInv' /\ OutcomeInv'
  BY DEF EvidenceInv, OutcomeInv, Overall, Unfinished
<1>6. QED
  BY <1>2, <1>3, <1>4, <1>5

LEMMA StutterKeepsInv == RunInv /\ UNCHANGED vars => RunInv'
<1> SUFFICES ASSUME RunInv, UNCHANGED vars PROVE RunInv'
  OBVIOUS
<1> USE DEF RunInv, vars, call, locals
<1>1. ValidationTypeOK' /\ CallInv' /\ LateInv'
  BY DEF ValidationTypeOK, CallInv, LateInv
<1>2. ProgressInv' /\ WorkInv'
  BY DEF ProgressInv, WorkInv, Read, File
<1>3. EvidenceInv'
  BY DEF EvidenceInv
<1>4. OutcomeInv'
  BY DEF OutcomeInv, Overall, Unfinished
<1> QED
  BY <1>1, <1>2, <1>3, <1>4

-----------------------------------------------------------------------------
(***************************************************************************)
(* The theorems.                                                           *)
(***************************************************************************)

\* Whatever the run, the user and the processes do, RunInv is kept: the
\* inductive invariant the other theorems follow from.
THEOREM RunInvariant == Spec => []RunInv
<1>1. Init => RunInv
  BY InitialInv
<1>2. RunInv /\ [Next]_vars => RunInv'
  <2> SUFFICES ASSUME RunInv, [Next]_vars PROVE RunInv'
    OBVIOUS
  <2>1. CASE CallStep
    BY <2>1, CallStepKeepsInv
  <2>2. CASE RunStep
    BY <2>2, BeginKeepsInv, ProbeKeepsInv, ScanKeepsInv, CompileKeepsInv, CompileReturnsKeepsInv,
       ContainKeepsInv, FingerprintKeepsInv, PlayScenarioKeepsInv, ScenarioReturnsKeepsInv, FinishKeepsInv
       DEF RunStep, Frame
  <2>3. CASE RequestCancellation
    BY <2>3, RequestKeepsInv
  <2>4. CASE \E i \in DOMAIN source : EditSource(i)
    BY <2>4, EditKeepsInv
  <2>5. CASE Done \/ UNCHANGED vars
    BY <2>5, StutterKeepsInv DEF Done
  <2>6. QED
    BY <2>1, <2>2, <2>3, <2>4, <2>5 DEF Next
<1>3. QED
  BY <1>1, <1>2, PTL DEF Spec

\* The variables of a run keep their types, with at most one item per selected
\* file and one result per scenario (execute_quick_run, execute_diagnostic_run).
THEOREM RunTypeCorrect == Spec => []ValidationTypeOK
<1>1. RunInv => ValidationTypeOK
  BY DEF RunInv
<1>2. QED
  BY <1>1, RunInvariant, PTL

\* A result covers all the work of the run, and it is OK only if gf completed
\* on every file and on every required scenario (derive_overall_status).
THEOREM OkIsVerified == Spec => []OkMeansVerified
<1>1. RunInv => OkMeansVerified
  <2> SUFFICES ASSUME RunInv, outcome.kind = "result"
               PROVE  /\ Len(items) = request.files
                      /\ Len(scenarios) = Len(request.required)
                      /\ outcome.overall = "OK" =>
                          /\ \A i \in DOMAIN items :
                                 items[i].status = "OK" /\ items[i].cause = "completed"
                                 /\ items[i].compiled \in items[i].scanned..items[i].fingerprint
                          /\ \A j \in DOMAIN scenarios : scenarios[j].required =>
                                 scenarios[j].status = "OK" /\ scenarios[j].cause = "completed"
    BY DEF OkMeansVerified
  <2>1. outcome.overall = Overall /\ Len(items) = request.files
        /\ Len(scenarios) = Len(request.required)
    BY DEF RunInv, OutcomeInv
  <2>2. ASSUME Overall = "OK", NEW i \in DOMAIN items PROVE items[i].status = "OK"
    <3>1. items[i].status \in Statuses
      <4>1. items \in Seq([scanned: Versions, compiled: MaybeRead, status: Statuses,
                           cause: Verdicts, fingerprint: Versions])
        BY DEF RunInv, ValidationTypeOK
      <4>2. items[i] \in [scanned: Versions, compiled: MaybeRead, status: Statuses,
                          cause: Verdicts, fingerprint: Versions]
        BY <4>1, ElementsAreTyped
      <4>3. QED
        BY <4>2
    <3>2. items[i].status \notin Unfinished /\ items[i].status # "FAIL"
      BY <2>2 DEF Overall
    <3>3. QED
      BY <3>1, <3>2 DEF Statuses, Unfinished
  <2>3. ASSUME Overall = "OK", NEW j \in DOMAIN scenarios, scenarios[j].required
        PROVE  scenarios[j].status = "OK"
    <3>1. scenarios[j].status \in Statuses
      <4>1. scenarios \in Seq([required: BOOLEAN, status: Statuses, cause: CallCauses])
        BY DEF RunInv, ValidationTypeOK
      <4>2. scenarios[j] \in [required: BOOLEAN, status: Statuses, cause: CallCauses]
        BY <4>1, ElementsAreTyped
      <4>3. QED
        BY <4>2
    <3>2. scenarios[j].status \notin Unfinished /\ scenarios[j].status # "FAIL"
      BY <2>3 DEF Overall
    <3>3. QED
      BY <3>1, <3>2 DEF Statuses, Unfinished
  <2>4. QED
    BY <2>1, <2>2, <2>3 DEF RunInv, EvidenceInv
<1>2. QED
  BY <1>1, RunInvariant, PTL

\* A run ends as cancelled only if a cancellation was requested or a process
\* was stopped for its output (_compile_target_evidence).
THEOREM CancellationHasCause == Spec => []CancelledHasCause
<1>1. RunInv => CancelledHasCause
  BY DEF RunInv, OutcomeInv, CancelledHasCause
<1>2. QED
  BY <1>1, RunInvariant, PTL

\* However long the run, a request for its cancellation lets at most the
\* process that was about to be launched start (cancellation_check, run_process).
THEOREM OneLateLaunch == Spec => []OneLaunchAfterRequest
<1>1. RunInv => OneLaunchAfterRequest
  BY DEF RunInv, LateInv, OneLaunchAfterRequest
<1>2. QED
  BY <1>1, RunInvariant, PTL

\* In a Diagnostic run, whatever its size, no compilation that raises, is stopped or does
\* not start ends the inventory: only a cancellation does, or the evidence of an exception
\* that cannot be written (execute_diagnostic_run, _compile_exception_evidence).
THEOREM CompilationsContained == Spec => CompilationsAreContained
<1> DEFINE GoesOn == step = "compiling" /\ ~Quick =>
                         \/ step' \in {"compiling", "containing", "fingerprint"}
                         \/ outcome'.kind = "cancelled"
<1>1. Next => GoesOn
  <2> SUFFICES ASSUME Next, step = "compiling", ~Quick
               PROVE  \/ step' \in {"compiling", "containing", "fingerprint"}
                      \/ outcome'.kind = "cancelled"
    OBVIOUS
  <2>1. CASE CompileReturns
    BY <2>1 DEF CompileReturns, Contained, Cancel, EndAs, Evidence, Goto
  <2>2. CASE ~CompileReturns
    BY <2>2 DEF Next, CallStep, RunStep, RequestCancellation, EditSource, Done, vars, locals,
       Begin, Probe, ProbeReturns, Scan, Compile, ContainException, Fingerprint, PlayScenario,
       ScenarioReturns, Finish
  <2> QED
    BY <2>1, <2>2
<1>2. [Next]_vars => [GoesOn]_vars
  BY <1>1
<1> QED
  BY <1>2, PTL DEF Spec, CompilationsAreContained

-----------------------------------------------------------------------------
(***************************************************************************)
(* How long a run lasts.                                                   *)
(***************************************************************************)

FilesLeft == request.files - Len(items)
ScenariosLeft == Len(request.required) - Len(scenarios)

\* The steps a process call still has until it is answered.
AnswerLeft ==
    CASE phase = "requested" -> 3
      [] phase = "running" -> 2
      [] phase = "settled" -> 1
      [] OTHER -> 0

\* The steps the run still has with the source or the scenario at hand, on a scale that
\* begins where the evidence of a source is about to be completed.
Ahead ==
    CASE step = "begin" -> 13
      [] step = "probe" -> 12
      [] step = "probing" -> 8 + AnswerLeft
      [] step \in {"scan", "scenario"} -> 7
      [] step = "compile" -> 6
      [] step = "compiling" -> 2 + AnswerLeft
      [] step = "containing" -> 1
      [] step = "fingerprint" -> 0
      [] step = "playing" -> 3 + AnswerLeft

StepsLeft == IF step = "end" THEN 0 ELSE 8 * FilesLeft + 5 * ScenariosLeft + Ahead - 6

\* What is left of a run, in numbers.
LEMMA LeftAreNumbers ==
    ASSUME RunInv
    PROVE  /\ request.files \in Nat /\ Len(request.required) \in Nat
           /\ Len(items) \in Nat /\ Len(scenarios) \in Nat
           /\ FilesLeft \in 0 .. request.files /\ ScenariosLeft \in 0 .. Len(request.required)
           /\ step \in BeforeScenarios => FilesLeft > 0
           /\ step \in {"scenario", "playing"} => FilesLeft = 0
           /\ step = "playing" => ScenariosLeft > 0
           /\ AnswerLeft \in 0 .. 3
<1>1. /\ request.files \in Nat /\ Len(request.required) \in Nat
      /\ Len(items) \in Nat /\ Len(scenarios) \in Nat
  BY RequestTypes DEF RunInv, ValidationTypeOK
<1> QED
  BY <1>1 DEF RunInv, ValidationTypeOK, ProgressInv, FilesLeft, ScenariosLeft, BeforeScenarios,
     AnswerLeft

\* How far ahead the end is of a run that goes on.
LEMMA AheadIsBounded ==
    ASSUME RunInv, step # "end"
    PROVE  /\ Ahead \in 0 .. 13 /\ StepsLeft \in Nat /\ StepsLeft > 0
           /\ StepsLeft = 8 * FilesLeft + 5 * ScenariosLeft + Ahead - 6
<1>1. /\ FilesLeft \in Nat /\ ScenariosLeft \in Nat /\ AnswerLeft \in 0 .. 3
      /\ step \in BeforeScenarios \/ step = "scenario" \/ (step = "playing" /\ ScenariosLeft > 0)
      /\ step \in BeforeScenarios => FilesLeft > 0
  BY LeftAreNumbers DEF RunInv, ValidationTypeOK, BeforeScenarios
<1>2. Ahead \in 0 .. 13 /\ (step \in {"scenario", "playing"} => Ahead \in 3 .. 7)
      /\ (step = "scenario" => Ahead = 7)
  BY <1>1 DEF Ahead, BeforeScenarios
<1>3. StepsLeft = 8 * FilesLeft + 5 * ScenariosLeft + Ahead - 6
  BY DEF StepsLeft
<1> QED
  BY <1>1, <1>2, <1>3

\* Of two sums that differ in one term, the one with the smaller term is the smaller.
LEMMA FewerLeft ==
    ASSUME NEW f \in Nat, NEW s \in Nat, NEW a \in Nat, NEW b \in Nat, b < a
    PROVE  8 * f + 5 * s + b - 6 < 8 * f + 5 * s + a - 6
<1>1. 8 * f + 5 * s \in Int
  OBVIOUS
<1>2. ASSUME NEW r \in Int PROVE r + b - 6 < r + a - 6
  OBVIOUS
<1> QED
  BY <1>1, <1>2

\* A sum is at most that of the bounds of its terms.
LEMMA NoMoreLeft ==
    ASSUME NEW n \in Nat, NEW m \in Nat, NEW f \in 0 .. n, NEW s \in 0 .. m, NEW a \in 0 .. 13
    PROVE  8 * f + 5 * s + a - 6 <= 8 * n + 5 * m + 7
  OBVIOUS

\* What a step does to what is left.
LEMMA RunStepAdvances ==
    ASSUME RunInv, RunStep
    PROVE  /\ step # "end" /\ request' = request
           /\ \/ step' = "end"
              \/ /\ UNCHANGED <<items, scenarios>>
                 /\ \/ step = "begin" /\ step' \in {"probe", "scan"}
                    \/ step = "probe" /\ step' = "probing"
                    \/ step = "probing" /\ step' = "scan"
                    \/ step = "scan" /\ step' = "compile"
                    \/ step = "compile" /\ step' \in {"compiling", "fingerprint"}
                    \/ step = "compiling" /\ step' \in {"containing", "fingerprint"}
                    \/ step = "containing" /\ step' = "fingerprint"
                    \/ step = "scenario" /\ step' = "playing"
              \/ /\ step = "fingerprint" /\ step' \in {"scan", "scenario"}
                 /\ Len(items') = Len(items) + 1 /\ scenarios' = scenarios
              \/ /\ step = "playing" /\ step' = "scenario"
                 /\ items' = items /\ Len(scenarios') = Len(scenarios) + 1
<1>1. request' = request
  BY DEF RunStep
<1>2. items \in Seq([scanned: Versions, compiled: MaybeRead, status: Statuses,
                     cause: Verdicts, fingerprint: Versions])
      /\ scenarios \in Seq([required: BOOLEAN, status: Statuses, cause: CallCauses])
  BY DEF RunInv, ValidationTypeOK
<1> USE DEF Goto, Cancel, Raise, RaiseBefore, EndAs, Call
<1>3. CASE Begin \/ Probe \/ ProbeReturns
  BY <1>1, <1>3 DEF Begin, Probe, ProbeReturns
<1>4. CASE Scan \/ Compile \/ CompileReturns \/ ContainException
  BY <1>1, <1>4 DEF Scan, Compile, CompileReturns, ContainException, Evidence
<1>5. CASE Fingerprint
  BY <1>1, <1>2, <1>5 DEF Fingerprint
<1>6. CASE PlayScenario \/ Finish
  BY <1>1, <1>6 DEF PlayScenario, Finish
<1>7. CASE ScenarioReturns
  <2>1. /\ step = "playing" /\ items' = items
        /\ step' = "end" \/ (step' = "scenario" /\ \E r : scenarios' = Append(scenarios, r))
    BY <1>7 DEF ScenarioReturns
  <2>2. ASSUME NEW r, scenarios' = Append(scenarios, r) PROVE Len(scenarios') = Len(scenarios) + 1
    BY <1>2, <2>2
  <2> QED
    BY <1>1, <2>1, <2>2
<1> QED
  BY <1>3, <1>4, <1>5, <1>6, <1>7 DEF RunStep

\* Each step of the run and of its process calls leaves fewer steps: a run makes at most
\* eight for each source, five for each scenario and seven more, whatever its processes
\* answer and whenever it is cancelled (execute_quick_run, execute_diagnostic_run).
THEOREM RunIsFinite ==
    Spec => /\ [](StepsLeft \in 0 .. 8 * request.files + 5 * Len(request.required) + 7)
            /\ [][CallStep \/ RunStep => StepsLeft' < StepsLeft]_vars
<1>1. RunInv => StepsLeft \in 0 .. 8 * request.files + 5 * Len(request.required) + 7
  <2> SUFFICES ASSUME RunInv
               PROVE  StepsLeft \in 0 .. 8 * request.files + 5 * Len(request.required) + 7
    OBVIOUS
  <2>1. CASE step = "end"
    <3>1. StepsLeft = 0
      BY <2>1 DEF StepsLeft
    <3>2. request.files \in Nat /\ Len(request.required) \in Nat
      BY LeftAreNumbers
    <3> QED
      BY <3>1, <3>2
  <2>2. CASE step # "end"
    <3>1. /\ FilesLeft \in 0 .. request.files /\ request.files \in Nat
          /\ ScenariosLeft \in 0 .. Len(request.required) /\ Len(request.required) \in Nat
      BY LeftAreNumbers
    <3>2. Ahead \in 0 .. 13 /\ StepsLeft \in Nat
          /\ StepsLeft = 8 * FilesLeft + 5 * ScenariosLeft + Ahead - 6
      BY <2>2, AheadIsBounded
    <3>3. 8 * FilesLeft + 5 * ScenariosLeft + Ahead - 6
            <= 8 * request.files + 5 * Len(request.required) + 7
      BY <3>1, <3>2, NoMoreLeft
    <3> QED
      BY <3>1, <3>2, <3>3
  <2> QED
    BY <2>1, <2>2
<1>2. RunInv /\ RunInv' /\ CallStep => StepsLeft' < StepsLeft
  <2> SUFFICES ASSUME RunInv, RunInv', CallStep PROVE StepsLeft' < StepsLeft
    OBVIOUS
  <2>1. UNCHANGED <<request, step, items, scenarios>> /\ AnswerLeft' < AnswerLeft
    BY DEF CallStep, Launch, Settle, LaunchFails, Answer, Process!Launch, Process!Settle,
       Process!NotLaunched, Process!Deliver, Process!Abandon, AnswerLeft
  <2>2. step \in Calling
    BY <2>1 DEF RunInv, ValidationTypeOK, CallInv, AnswerLeft
  <2>3. AnswerLeft \in 0 .. 3 /\ AnswerLeft' \in 0 .. 3
    BY DEF AnswerLeft
  <2>4. FilesLeft' = FilesLeft /\ ScenariosLeft' = ScenariosLeft /\ Ahead' < Ahead
    BY <2>1, <2>2, <2>3 DEF FilesLeft, ScenariosLeft, Ahead, Calling
  <2>5. Ahead \in 0 .. 13 /\ Ahead' \in 0 .. 13 /\ step # "end"
    <3>1. CASE step = "probing"
      BY <2>1, <2>3, <3>1 DEF Ahead
    <3>2. CASE step = "compiling"
      BY <2>1, <2>3, <3>2 DEF Ahead
    <3>3. CASE step = "playing"
      BY <2>1, <2>3, <3>3 DEF Ahead
    <3> QED
      BY <2>2, <3>1, <3>2, <3>3 DEF Calling
  <2> QED
    BY <2>1, <2>4, <2>5, LeftAreNumbers DEF StepsLeft
<1>3. RunInv /\ RunInv' /\ RunStep => StepsLeft' < StepsLeft
  <2> SUFFICES ASSUME RunInv, RunInv', RunStep PROVE StepsLeft' < StepsLeft
    OBVIOUS
  <2>1. AnswerLeft \in 0 .. 3 /\ AnswerLeft' \in 0 .. 3
    BY DEF AnswerLeft
  <2>2. step # "end" /\ FilesLeft \in Nat /\ ScenariosLeft \in Nat /\ Ahead \in 0 .. 13
    BY RunStepAdvances, LeftAreNumbers, AheadIsBounded
  <2>3. CASE step' = "end"
    BY <2>2, <2>3, AheadIsBounded DEF StepsLeft
  <2>4. CASE step' # "end" /\ UNCHANGED <<items, scenarios>>
    <3>1. FilesLeft' = FilesLeft /\ ScenariosLeft' = ScenariosLeft
      BY <2>4, RunStepAdvances DEF FilesLeft, ScenariosLeft
    <3>2. Ahead' \in Nat /\ Ahead' < Ahead
      <4>1. Len(items) \in Nat /\ Len(scenarios) \in Nat
        BY LeftAreNumbers
      <4>2. \/ step = "begin" /\ step' \in {"probe", "scan"}
            \/ step = "probe" /\ step' = "probing"
            \/ step = "probing" /\ step' = "scan"
            \/ step = "scan" /\ step' = "compile"
            \/ step = "compile" /\ step' \in {"compiling", "fingerprint"}
            \/ step = "compiling" /\ step' \in {"containing", "fingerprint"}
            \/ step = "containing" /\ step' = "fingerprint"
            \/ step = "scenario" /\ step' = "playing"
        BY <2>4, <4>1, RunStepAdvances
      <4> QED
        BY <2>1, <4>2 DEF Ahead
    <3>3. /\ StepsLeft = 8 * FilesLeft + 5 * ScenariosLeft + Ahead - 6
          /\ StepsLeft' = 8 * FilesLeft + 5 * ScenariosLeft + Ahead' - 6
      BY <2>2, <2>4, <3>1 DEF StepsLeft
    <3>4. FilesLeft \in Nat /\ ScenariosLeft \in Nat /\ Ahead \in Nat /\ Ahead' \in Nat
      BY <2>2, <3>2
    <3>5. 8 * FilesLeft + 5 * ScenariosLeft + Ahead' - 6
            < 8 * FilesLeft + 5 * ScenariosLeft + Ahead - 6
      BY <3>2, <3>4, FewerLeft
    <3> QED
      BY <3>3, <3>5
  <2>5. CASE /\ step = "fingerprint" /\ step' \in {"scan", "scenario"}
             /\ Len(items') = Len(items) + 1 /\ scenarios' = scenarios
    <3>1. FilesLeft' = FilesLeft - 1 /\ ScenariosLeft' = ScenariosLeft
      BY <2>5, RunStepAdvances, LeftAreNumbers DEF FilesLeft, ScenariosLeft
    <3>2. Ahead = 0 /\ Ahead' = 7
      BY <2>5 DEF Ahead
    <3> QED
      BY <2>2, <2>5, <3>1, <3>2 DEF StepsLeft
  <2>6. CASE /\ step = "playing" /\ step' = "scenario"
             /\ items' = items /\ Len(scenarios') = Len(scenarios) + 1
    <3>1. FilesLeft' = FilesLeft /\ ScenariosLeft' = ScenariosLeft - 1
      BY <2>6, RunStepAdvances, LeftAreNumbers DEF FilesLeft, ScenariosLeft
    <3>2. Ahead \in 3 .. 6 /\ Ahead' = 7
      BY <2>1, <2>6 DEF Ahead
    <3> QED
      BY <2>2, <2>6, <3>1, <3>2 DEF StepsLeft
  <2> QED
    BY <2>3, <2>4, <2>5, <2>6, RunStepAdvances
<1> QED
  BY <1>1, <1>2, <1>3, RunInvariant, PTL DEF Spec

=============================================================================
