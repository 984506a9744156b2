---------------------- MODULE ProjectReplacement_proofs ----------------------
(***************************************************************************)
(* Proofs about ProjectReplacement, for any number of operators: the types *)
(* and the exclusion of the lock, that a reset never loses the tree it     *)
(* replaces, and that a result tells the project it leaves.                *)
(***************************************************************************)
EXTENDS ProjectReplacement, TLAPS

-----------------------------------------------------------------------------
(***************************************************************************)
(* What the operations on trees do.                                        *)
(***************************************************************************)

LEMMA TornIsTree == \A tree \in Trees : Torn(tree) \in Trees
  BY DEF Torn, Trees

LEMMA RenameDoes ==
    ASSUME fs \in [Places -> Trees], NEW a \in Places, NEW b \in Places, a # b, Rename(a, b)
    PROVE  /\ fs' \in [Places -> Trees] /\ fs'[a] = "absent" /\ fs'[b] = fs[a]
           /\ \A x \in Places : x # a /\ x # b => fs'[x] = fs[x]
           /\ fs[b] \in {"absent", "empty"}
<1>1. fs' = [fs EXCEPT ![a] = "absent", ![b] = fs[a]] /\ fs[b] \in {"absent", "empty"}
  BY DEF Rename
<1>2. fs[a] \in Trees /\ "absent" \in Trees
  BY DEF Trees
<1> HIDE DEF Places, Trees
<1>3. QED
  BY <1>1, <1>2

LEMMA RemoveDoes ==
    ASSUME fs \in [Places -> Trees], NEW a \in Places, Remove(a)
    PROVE  /\ fs' \in [Places -> Trees] /\ fs'[a] = "absent"
           /\ \A x \in Places : x # a => fs'[x] = fs[x]
  BY DEF Remove, Trees

LEMMA RemoveFailsDoes ==
    ASSUME fs \in [Places -> Trees], NEW a \in Places, RemoveFails(a)
    PROVE  /\ fs' \in [Places -> Trees]
           /\ \A x \in Places : x # a => fs'[x] = fs[x]
  BY TornIsTree DEF RemoveFails

LEMMA ThreePlaces == "project" \in Places /\ "stage" \in Places /\ "rollback" \in Places
  BY DEF Places

LEMMA RetainDoes ==
    ASSUME fs \in [Places -> Trees], ~Exists("rollback"), RetainPrevious
    PROVE  /\ fs' \in [Places -> Trees] /\ fs'["project"] = "absent"
           /\ fs'["rollback"] = fs["project"] /\ fs'["stage"] = fs["stage"]
<1>1. CASE Exists("project")
  BY <1>1, RenameDoes, ThreePlaces DEF RetainPrevious
<1>2. CASE ~Exists("project")
  BY <1>2 DEF RetainPrevious, Exists
<1>3. QED
  BY <1>1, <1>2

-----------------------------------------------------------------------------
(***************************************************************************)
(* Types and the lock.                                                     *)
(***************************************************************************)

LEMMA GotoTypes ==
    ASSUME ReplacementTypeOK, NEW p \in Operators, NEW step \in Steps, Goto(p, step)
    PROVE  /\ kind' = kind /\ locking' = locking /\ lock' = lock /\ verdict' = verdict
           /\ pc' \in [Operators -> Steps] /\ pc'[p] = step
           /\ \A q \in Operators : q # p => pc'[q] = pc[q]
  BY DEF Goto, given, ReplacementTypeOK

LEMMA EndsTypes ==
    ASSUME ReplacementTypeOK, NEW p \in Operators, NEW v \in Verdicts, Ends(p, v)
    PROVE  /\ kind' = kind /\ locking' = locking /\ lock' = lock
           /\ pc' \in [Operators -> Steps] /\ pc'[p] = "release"
           /\ \A q \in Operators : q # p => pc'[q] = pc[q]
           /\ verdict' \in [Operators -> Verdicts] /\ verdict'[p] = v
  BY DEF Ends, given, ReplacementTypeOK, Steps

\* What every step of p between taking the lock and releasing it does.
Works(p) ==
    /\ kind' = kind /\ locking' = locking /\ lock' = lock
    /\ pc[p] \notin {"start", "end"} /\ pc'[p] \notin {"start", "end"}
    /\ pc' \in [Operators -> Steps] /\ verdict' \in [Operators -> Verdicts]
    /\ \A q \in Operators : q # p => pc'[q] = pc[q]

Working(p) ==
    \/ Check(p) \/ Stage(p) \/ ValidateStage(p) \/ Discard(p)
    \/ SwapOut(p) \/ SwapIn(p) \/ SwapUndo(p)
    \/ ValidateActive(p) \/ Clean(p) \/ Complete(p) \/ Restore(p) \/ RestoreIn(p)

LEMMA Moves ==
    ASSUME ReplacementTypeOK, NEW p \in Operators, pc[p] \notin {"start", "end"},
           \/ \E step \in Steps \ {"start", "end"} : Goto(p, step)
           \/ \E v \in Verdicts : Ends(p, v)
    PROVE  Works(p)
<1>1. ASSUME NEW step \in Steps \ {"start", "end"}, Goto(p, step) PROVE Works(p)
  BY <1>1, GotoTypes DEF Works, ReplacementTypeOK
<1>2. ASSUME NEW v \in Verdicts, Ends(p, v) PROVE Works(p)
  BY <1>2, EndsTypes DEF Works
<1>3. QED
  BY <1>1, <1>2

LEMMA WorkingWorks ==
    ASSUME ReplacementTypeOK, NEW p \in Operators, Working(p)
    PROVE  Works(p)
<1>1. pc[p] \notin {"start", "end"}
  BY DEF Working, Check, Stage, ValidateStage, Discard, SwapOut, SwapIn, SwapUndo,
         ValidateActive, Clean, Complete, Restore, RestoreIn
<1>2. \/ \E step \in Steps \ {"start", "end"} : Goto(p, step)
      \/ \E v \in Verdicts : Ends(p, v)
  <2>1. CASE Check(p) \/ Stage(p) \/ ValidateStage(p) \/ Discard(p)
    BY <2>1 DEF Check, Stage, ValidateStage, Discard, Steps, Verdicts
  <2>2. CASE SwapOut(p) \/ SwapIn(p) \/ SwapUndo(p)
    BY <2>2 DEF SwapOut, SwapIn, SwapUndo, SwapRaises, Steps, Verdicts
  <2>3. CASE ValidateActive(p) \/ Clean(p) \/ Complete(p)
    BY <2>3 DEF ValidateActive, Clean, Complete, CompleteFails, Steps, Verdicts
  <2>4. CASE Restore(p) \/ RestoreIn(p)
    BY <2>4 DEF Restore, RestoreIn, RollbackFails, Steps, Verdicts
  <2>5. QED
    BY <2>1, <2>2, <2>3, <2>4 DEF Working
<1>3. QED
  BY <1>1, <1>2, Moves

LEMMA WorkingTrees ==
    ASSUME ReplacementTypeOK, NEW p \in Operators, Working(p)
    PROVE  fs' \in [Places -> Trees]
<1>1. fs \in [Places -> Trees]
  BY DEF ReplacementTypeOK
<1>2. CASE Check(p) \/ ValidateStage(p) \/ ValidateActive(p) \/ Clean(p)
  BY <1>1, <1>2 DEF Check, ValidateStage, ValidateActive, Clean
<1>3. CASE Stage(p)
  BY <1>1, <1>3 DEF Stage, Trees
<1>4. CASE Discard(p)
  BY <1>1, <1>4, RemoveDoes, RemoveFailsDoes, ThreePlaces DEF Discard
<1>5. CASE SwapOut(p)
  BY <1>1, <1>5, RetainDoes DEF SwapOut
<1>6. CASE SwapIn(p) \/ SwapUndo(p) \/ RestoreIn(p)
  BY <1>1, <1>6, RenameDoes, ThreePlaces DEF SwapIn, SwapUndo, RestoreIn
<1>7. CASE Complete(p)
  BY <1>1, <1>7, RemoveDoes, RemoveFailsDoes, ThreePlaces DEF Complete
<1>8. CASE Restore(p)
  BY <1>1, <1>8, RemoveDoes, RemoveFailsDoes, ThreePlaces DEF Restore
<1>9. QED
  BY <1>2, <1>3, <1>4, <1>5, <1>6, <1>7, <1>8 DEF Working

LEMMA WorkingTypes ==
    ASSUME ReplacementTypeOK, NEW p \in Operators, Working(p)
    PROVE  ReplacementTypeOK'
<1>1. Works(p) /\ fs' \in [Places -> Trees]
  BY WorkingWorks, WorkingTrees
<1>2. before' = before
  BY DEF Working, Check, Stage, ValidateStage, Discard, SwapOut, SwapIn, SwapUndo,
         ValidateActive, Clean, Complete, Restore, RestoreIn, locals
<1>3. existed' \in [Operators -> BOOLEAN]
  <2>1. CASE SwapOut(p)
    BY <2>1 DEF SwapOut, Exists, ReplacementTypeOK
  <2>2. CASE ~SwapOut(p)
    BY <2>2 DEF Working, Check, Stage, ValidateStage, Discard, SwapIn, SwapUndo,
         ValidateActive, Clean, Complete, Restore, RestoreIn, locals, ReplacementTypeOK
  <2>3. QED
    BY <2>1, <2>2
<1>4. validated' \in [Operators -> BOOLEAN]
  <2>1. CASE ValidateActive(p)
    BY <2>1 DEF ValidateActive, ReplacementTypeOK
  <2>2. CASE ~ValidateActive(p)
    BY <2>2 DEF Working, Check, Stage, ValidateStage, Discard, SwapOut, SwapIn, SwapUndo,
         Clean, Complete, Restore, RestoreIn, locals, ReplacementTypeOK
  <2>3. QED
    BY <2>1, <2>2
<1>5. QED
  BY <1>1, <1>2, <1>3, <1>4 DEF Works, ReplacementTypeOK

LEMMA AcquireTypes ==
    ASSUME ReplacementTypeOK, NEW p \in Operators, Acquire(p) PROVE ReplacementTypeOK'
<1> USE DEF ReplacementTypeOK, given, Steps, Verdicts
<1>1. /\ kind' = kind /\ locking' = locking /\ fs' = fs
      /\ existed' = existed /\ validated' = validated
  BY DEF Acquire
<1>2. CASE /\ LockFree /\ lock' = (IF locking THEN p ELSE NoOne)
           /\ pc' = [pc EXCEPT ![p] = "check"]
           /\ before' = [before EXCEPT ![p] = fs["project"]]
           /\ UNCHANGED verdict
  <2>1. before' \in [Operators -> Trees]
    BY <1>2, ThreePlaces
  <2>2. \A q \in Operators : locking /\ pc'[q] \notin {"start", "end"} => lock' = q
    BY <1>2, ReplacementAssumption DEF LockFree
  <2>3. QED
    BY <1>1, <1>2, <2>1, <2>2
<1>3. CASE /\ pc' = [pc EXCEPT ![p] = "end"]
           /\ verdict' = [verdict EXCEPT ![p] = "concurrency"]
           /\ UNCHANGED <<lock, before>>
  BY <1>1, <1>3
<1>4. QED
  BY <1>2, <1>3 DEF Acquire

LEMMA LeaveTypes ==
    ASSUME ReplacementTypeOK, NEW p \in Operators, Release(p) \/ Crash(p)
    PROVE  ReplacementTypeOK'
<1> USE DEF ReplacementTypeOK, given, locals, Steps, Verdicts
<1>1. /\ kind' = kind /\ locking' = locking /\ fs' = fs /\ lock' = NoOne
      /\ existed' = existed /\ validated' = validated /\ before' = before
      /\ pc' = [pc EXCEPT ![p] = "end"] /\ pc[p] \notin {"start", "end"}
  BY DEF Release, Crash
<1>2. verdict' \in [Operators -> Verdicts]
  BY DEF Release, Crash
<1>3. \A q \in Operators : locking /\ pc'[q] \notin {"start", "end"} => lock' = q
  BY <1>1
<1>4. QED
  BY <1>1, <1>2, <1>3

LEMMA UserTypes == ASSUME ReplacementTypeOK, UserWorks PROVE ReplacementTypeOK'
  BY DEF ReplacementTypeOK, UserWorks, given, locals, Trees

LEMMA InitialTypes == Init => ReplacementTypeOK
<1> SUFFICES ASSUME Init PROVE ReplacementTypeOK
  OBVIOUS
<1>1. fs \in [Places -> Trees]
  BY DEF Init, Trees
<1>2. QED
  BY <1>1 DEF Init, ReplacementTypeOK, Steps, Verdicts, Trees

LEMMA TypesStep == ReplacementTypeOK /\ [Next]_vars => ReplacementTypeOK'
<1> SUFFICES ASSUME ReplacementTypeOK, [Next]_vars PROVE ReplacementTypeOK'
  OBVIOUS
<1>1. CASE UNCHANGED vars
  BY <1>1 DEF vars, given, ReplacementTypeOK
<1>2. CASE Next
  BY <1>1, <1>2, WorkingTypes, AcquireTypes, LeaveTypes, UserTypes
     DEF Next, Operate, Working, Finished
<1>3. QED
  BY <1>1, <1>2

\* Every variable keeps its type, and under a lifecycle lock the operator at
\* work is the one that holds it.
THEOREM ReplacementTypeCorrect == Spec => []ReplacementTypeOK
  BY InitialTypes, TypesStep, PTL DEF Spec

-----------------------------------------------------------------------------
(***************************************************************************)
(* The tree that a reset replaces.                                         *)
(***************************************************************************)

NotYetReplaced == kind = "reset" /\ \A p \in Operators : ~validated[p]

\* Until a new tree is validated in place, the rollback place holds nothing
\* but the user's tree, and the project is that tree when it holds nothing.
Retained == NotYetReplaced =>
    /\ fs["rollback"] \in {"absent", "work"}
    /\ fs["rollback"] = "absent" => fs["project"] = "work"

\* A reset only cleans and completes after the validation.
CompletesValidated ==
    kind = "reset" => \A p \in Operators : pc[p] \in {"clean", "complete"} => validated[p]

RetainedInv == ReplacementTypeOK /\ Retained /\ CompletesValidated

LEMMA ValidatedStays ==
    ASSUME ReplacementTypeOK, NEW p \in Operators, Working(p)
    PROVE  NotYetReplaced' => NotYetReplaced
<1>1. kind' = kind
  BY WorkingWorks DEF Works
<1>2. \A q \in Operators : validated[q] => validated'[q]
  <2>1. CASE ValidateActive(p)
    BY <2>1 DEF ValidateActive, ReplacementTypeOK
  <2>2. CASE ~ValidateActive(p)
    BY <2>2 DEF Working, Check, Stage, ValidateStage, Discard, SwapOut, SwapIn, SwapUndo,
         Clean, Complete, Restore, RestoreIn, locals
  <2>3. QED
    BY <2>1, <2>2
<1>3. QED
  BY <1>1, <1>2 DEF NotYetReplaced

LEMMA WorkingRetains ==
    ASSUME RetainedInv, NEW p \in Operators, Working(p), NotYetReplaced
    PROVE  /\ fs'["rollback"] \in {"absent", "work"}
           /\ fs'["rollback"] = "absent" => fs'["project"] = "work"
<1> USE ThreePlaces
<1>1. /\ fs \in [Places -> Trees] /\ kind = "reset" /\ ~validated[p]
      /\ fs["rollback"] \in {"absent", "work"}
      /\ fs["rollback"] = "absent" => fs["project"] = "work"
      /\ pc[p] \notin {"clean", "complete"}
  BY DEF RetainedInv, ReplacementTypeOK, Retained, NotYetReplaced, CompletesValidated
<1>2. CASE Check(p) \/ ValidateStage(p) \/ ValidateActive(p) \/ Clean(p) \/ Complete(p)
  BY <1>1, <1>2 DEF Check, ValidateStage, ValidateActive, Clean, Complete
<1>3. CASE Stage(p)
  BY <1>1, <1>3 DEF Stage
<1>4. CASE Discard(p)
  <2>1. \A x \in Places : x # "stage" => fs'[x] = fs[x]
    BY <1>1, <1>4, RemoveDoes, RemoveFailsDoes DEF Discard
  <2>2. QED
    BY <1>1, <2>1
<1>5. CASE SwapOut(p)
  BY <1>1, <1>5, RetainDoes DEF SwapOut, Exists
<1>6. CASE SwapIn(p)
  <2>1. CASE Rename("stage", "project")
    BY <1>1, <2>1, RenameDoes
  <2>2. CASE UNCHANGED fs
    BY <1>1, <2>2
  <2>3. QED
    BY <1>6, <2>1, <2>2 DEF SwapIn
<1>7. CASE SwapUndo(p) \/ RestoreIn(p)
  <2>1. CASE Rename("rollback", "project")
    BY <1>1, <2>1, RenameDoes DEF Rename, Exists
  <2>2. CASE UNCHANGED fs
    BY <1>1, <2>2
  <2>3. QED
    BY <1>7, <2>1, <2>2 DEF SwapUndo, RestoreIn
<1>8. CASE Restore(p)
  <2>1. CASE Exists("rollback")
    BY <1>1, <1>8, <2>1, RemoveDoes, RemoveFailsDoes DEF Restore, Exists
  <2>2. CASE ~Exists("rollback")
    BY <1>1, <1>8, <2>2 DEF Restore
  <2>3. QED
    BY <2>1, <2>2
<1>9. QED
  BY <1>2, <1>3, <1>4, <1>5, <1>6, <1>7, <1>8 DEF Working

LEMMA WorkingCompletes ==
    ASSUME RetainedInv, NEW p \in Operators, Working(p) PROVE CompletesValidated'
<1> SUFFICES ASSUME kind' = "reset", NEW q \in Operators, pc'[q] \in {"clean", "complete"}
             PROVE  validated'[q]
  BY DEF CompletesValidated
<1>1. Works(p) /\ ReplacementTypeOK /\ kind = "reset"
  BY WorkingWorks DEF Works, RetainedInv
<1>2. CASE ValidateActive(p)
  BY <1>1, <1>2 DEF ValidateActive, Goto, Works, RetainedInv, CompletesValidated, ReplacementTypeOK
<1>3. CASE ~ValidateActive(p)
  <2>1. validated' = validated
    BY <1>3 DEF Working, Check, Stage, ValidateStage, Discard, SwapOut, SwapIn, SwapUndo,
         Clean, Complete, Restore, RestoreIn, locals
  <2>2. CASE q # p
    BY <1>1, <2>1, <2>2 DEF Works, RetainedInv, CompletesValidated
  <2>3. CASE q = p
    <3>1. pc[p] \in {"clean", "complete"}
      <4> USE DEF Goto, Ends, ReplacementTypeOK
      <4>1. CASE Check(p) \/ Stage(p) \/ ValidateStage(p) \/ Discard(p)
        BY <1>1, <2>3, <4>1 DEF Check, Stage, ValidateStage, Discard
      <4>2. CASE SwapOut(p) \/ SwapIn(p) \/ SwapUndo(p)
        BY <1>1, <2>3, <4>2 DEF SwapOut, SwapIn, SwapUndo, SwapRaises
      <4>3. CASE Clean(p) \/ Complete(p)
        BY <4>3 DEF Clean, Complete
      <4>4. CASE Restore(p) \/ RestoreIn(p)
        BY <1>1, <2>3, <4>4 DEF Restore, RestoreIn, RollbackFails
      <4>5. QED
        BY <1>3, <4>1, <4>2, <4>3, <4>4 DEF Working
    <3>2. QED
      BY <1>1, <2>1, <2>3, <3>1 DEF RetainedInv, CompletesValidated
  <2>4. QED
    BY <2>2, <2>3
<1>4. QED
  BY <1>2, <1>3

LEMMA OthersRetain ==
    ASSUME RetainedInv,
           \/ \E p \in Operators : Acquire(p) \/ Release(p) \/ Crash(p)
           \/ UserWorks \/ UNCHANGED vars
    PROVE  Retained' /\ CompletesValidated'
<1>1. ASSUME NEW p \in Operators, Acquire(p) \/ Release(p) \/ Crash(p)
      PROVE  Retained' /\ CompletesValidated'
  <2>1. fs' = fs /\ kind' = kind /\ validated' = validated
    BY <1>1 DEF Acquire, Release, Crash, given, locals
  <2>2. \A q \in Operators : pc'[q] \in {"clean", "complete"} => pc'[q] = pc[q]
    BY <1>1 DEF Acquire, Release, Crash, RetainedInv, ReplacementTypeOK
  <2>3. QED
    BY <2>1, <2>2 DEF RetainedInv, Retained, NotYetReplaced, CompletesValidated
<1>2. CASE UserWorks
  BY <1>2 DEF UserWorks, given, locals, RetainedInv, Retained, NotYetReplaced, CompletesValidated
<1>3. CASE UNCHANGED vars
  BY <1>3 DEF vars, given, locals, RetainedInv, Retained, NotYetReplaced, CompletesValidated
<1>4. QED
  BY <1>1, <1>2, <1>3

LEMMA InitiallyRetained == Init => Retained /\ CompletesValidated
  BY DEF Init, Retained, NotYetReplaced, CompletesValidated

\* The tree that a reset replaces is whole at one of its two places until the
\* new one was validated, whatever fails and wherever a process stops
\* (atomic_replace_directory, restore_directory, _recover).
THEOREM ResetKeepsPrevious == Spec => []PreviousSurvives
<1>1. Init => RetainedInv
  BY InitialTypes, InitiallyRetained DEF RetainedInv
<1>2. RetainedInv /\ [Next]_vars => RetainedInv'
  <2> SUFFICES ASSUME RetainedInv, [Next]_vars PROVE RetainedInv'
    OBVIOUS
  <2>1. ReplacementTypeOK'
    BY TypesStep DEF RetainedInv
  <2>2. ASSUME NEW p \in Operators, Working(p) PROVE Retained' /\ CompletesValidated'
    <3>1. NotYetReplaced' => NotYetReplaced
      BY <2>2, ValidatedStays DEF RetainedInv
    <3>2. Retained'
      BY <2>2, <3>1, WorkingRetains DEF Retained
    <3>3. QED
      BY <2>2, <3>2, WorkingCompletes
  <2>3. Retained' /\ CompletesValidated'
    BY <2>2, OthersRetain DEF Next, Operate, Working, Finished
  <2>4. QED
    BY <2>1, <2>3 DEF RetainedInv
<1>3. RetainedInv => PreviousSurvives
  BY DEF RetainedInv, Retained, NotYetReplaced, PreviousSurvives
<1>4. QED
  BY <1>1, <1>2, <1>3, PTL DEF Spec

-----------------------------------------------------------------------------
(***************************************************************************)
(* The trees while an operator holds the lock.                             *)
(***************************************************************************)

\* Trees that no operation published.
Theirs == {"absent", "empty", "work", "torn_work"}

ResetShape(p) ==
    /\ pc[p] \in {"check", "stage", "validate_stage", "swap_out", "discard"} =>
          fs["project"] = before[p]
    /\ pc[p] \in {"stage", "validate_stage", "swap_out"} => fs["rollback"] = "absent"
    /\ pc[p] \in {"swap_in", "swap_undo"} =>
          fs["project"] = "absent" /\ fs["rollback"] = before[p]
    /\ pc[p] \in {"validate_active", "clean", "complete"} =>
          fs["rollback"] = before[p] /\ fs["stage"] = "absent"
    /\ pc[p] \in {"clean", "complete"} => fs["project"] = "fresh"
    /\ pc[p] = "restore" =>
          \/ fs["rollback"] = before[p]
          \/ fs["rollback"] = "absent" /\ fs["project"] = before[p]
    /\ pc[p] = "restore_in" => fs["rollback"] = before[p]

InitializeShape(p) ==
    /\ pc[p] = "check" => fs["project"] \in Theirs \cup {before[p]}
    /\ pc[p] \in {"stage", "validate_stage", "swap_out", "discard", "swap_in", "swap_undo",
                  "restore_in"} => fs["project"] \in Theirs
    /\ pc[p] \in {"stage", "validate_stage", "swap_out"} => fs["rollback"] = "absent"
    /\ pc[p] \in {"swap_in", "swap_undo", "validate_active", "complete", "restore",
                  "restore_in"} => fs["rollback"] \in Theirs
    /\ pc[p] \in {"validate_active", "complete"} => fs["stage"] = "absent"
    /\ pc[p] = "complete" => fs["project"] = "fresh"
    /\ pc[p] # "clean"
    /\ pc[p] = "release" => verdict[p] # "critical"

\* The trees at each step of p, and what its verdict tells of them.
Shape(p) ==
    /\ kind = "reset" => ResetShape(p)
    /\ kind = "initialize" => InitializeShape(p)
    /\ pc[p] = "release" => Tells(p, verdict[p])

ShapeInv == ReplacementTypeOK /\ (locking => \A p \in Operators : Shape(p))

LEMMA IdleShape ==
    ASSUME NEW p \in Operators, pc[p] \in {"start", "end"} PROVE Shape(p)
  BY DEF Shape, ResetShape, InitializeShape

\* What an action of p may use, and what it has to show.
LEMMA HolderStep ==
    ASSUME ShapeInv, locking, NEW p \in Operators, Working(p)
    PROVE  /\ Shape(p) /\ ReplacementTypeOK /\ fs \in [Places -> Trees]
           /\ kind \in {"initialize", "reset"} /\ kind' = kind
           /\ before' = before /\ before[p] \in Trees
           /\ \A q \in Operators : q # p => Shape(q)'
<1>1. ReplacementTypeOK /\ Works(p)
  BY WorkingWorks DEF ShapeInv
<1>2. before' = before
  BY DEF Working, Check, Stage, ValidateStage, Discard, SwapOut, SwapIn, SwapUndo,
         ValidateActive, Clean, Complete, Restore, RestoreIn, locals
<1>3. \A q \in Operators : q # p => pc'[q] \in {"start", "end"}
  BY <1>1 DEF Works, ReplacementTypeOK
<1>4. \A q \in Operators : q # p => Shape(q)'
  BY <1>3 DEF Shape, ResetShape, InitializeShape
<1>5. QED
  BY <1>1, <1>2, <1>4 DEF ShapeInv, ReplacementTypeOK, Works

\* The verdicts that claim nothing of the trees.
LEMMA SilentVerdicts ==
    ASSUME NEW p \in Operators, NEW v \in {"rollback_failed", "concurrency", "crashed"}
    PROVE  Tells(p, v)
  BY DEF Tells

LEMMA PrepareShape ==
    ASSUME ShapeInv, locking, NEW p \in Operators,
           Check(p) \/ Stage(p) \/ ValidateStage(p) \/ Discard(p)
    PROVE  Shape(p)'
<1>1. Working(p)
  BY DEF Working
<1> USE ThreePlaces, HolderStep DEF Exists
<1>2. CASE Check(p)
  <2>1. fs' = fs /\ pc[p] = "check"
    BY <1>2 DEF Check
  <2>2. CASE Goto(p, "stage") /\ NoLeftovers /\ (kind = "initialize" => DestinationAvailable)
    BY <1>1, <2>1, <2>2, GotoTypes
       DEF NoLeftovers, DestinationAvailable, Shape, ResetShape, InitializeShape, Theirs, Steps
  <2>3. CASE Ends(p, "failed")
    BY <1>1, <2>1, <2>3, EndsTypes
       DEF Shape, ResetShape, InitializeShape, Theirs, Tells, Verdicts
  <2>4. QED
    BY <1>2, <2>2, <2>3 DEF Check
<1>3. CASE Stage(p)
  <2>1. pc[p] = "stage" /\ fs'["project"] = fs["project"] /\ fs'["rollback"] = fs["rollback"]
    BY <1>1, <1>3 DEF Stage
  <2>2. CASE Goto(p, "validate_stage") \/ Goto(p, "discard")
    BY <1>1, <2>1, <2>2, GotoTypes DEF Shape, ResetShape, InitializeShape, Steps
  <2>3. CASE Ends(p, "failed")
    BY <1>1, <2>1, <2>3, EndsTypes
       DEF Shape, ResetShape, InitializeShape, Theirs, Tells, Verdicts
  <2>4. QED
    BY <1>3, <2>2, <2>3 DEF Stage
<1>4. CASE ValidateStage(p)
  <2>1. fs' = fs /\ pc[p] = "validate_stage"
    BY <1>4 DEF ValidateStage
  <2>2. Goto(p, "swap_out") \/ Goto(p, "discard")
    BY <1>4 DEF ValidateStage
  <2>3. QED
    BY <1>1, <2>1, <2>2, GotoTypes DEF Shape, ResetShape, InitializeShape, Steps
<1>5. CASE Discard(p)
  <2>1. pc[p] = "discard" /\ Ends(p, "failed") /\ fs'["project"] = fs["project"]
    BY <1>1, <1>5, RemoveDoes, RemoveFailsDoes DEF Discard
  <2>2. QED
    BY <1>1, <2>1, EndsTypes
       DEF Shape, ResetShape, InitializeShape, Theirs, Tells, Verdicts
<1>6. QED
  BY <1>2, <1>3, <1>4, <1>5

LEMMA SwapShape ==
    ASSUME ShapeInv, locking, NEW p \in Operators, SwapOut(p) \/ SwapIn(p) \/ SwapUndo(p)
    PROVE  Shape(p)'
<1>1. Working(p)
  BY DEF Working
<1> USE ThreePlaces, HolderStep
<1>2. CASE SwapOut(p)
  <2>1. pc[p] = "swap_out"
    BY <1>2 DEF SwapOut
  <2>2. CASE ~Exists("rollback") /\ RetainPrevious /\ Goto(p, "swap_in")
    BY <1>1, <2>1, <2>2, GotoTypes, RetainDoes
       DEF Shape, ResetShape, InitializeShape, Theirs, Steps
  <2>3. CASE fs' = fs /\ SwapRaises(p)
    BY <1>1, <2>1, <2>3, GotoTypes DEF SwapRaises, Shape, ResetShape, InitializeShape, Steps
  <2>4. QED
    BY <1>2, <2>2, <2>3 DEF SwapOut
<1>3. CASE SwapIn(p)
  <2>1. pc[p] = "swap_in"
    BY <1>3 DEF SwapIn
  <2>2. CASE Rename("stage", "project") /\ Goto(p, "validate_active")
    <3>1. fs'["stage"] = "absent" /\ fs'["rollback"] = fs["rollback"]
      BY <1>1, <2>2, RenameDoes
    <3>2. pc'[p] = "validate_active"
      BY <1>1, <2>2, GotoTypes DEF Steps
    <3>3. QED
      BY <1>1, <2>1, <3>1, <3>2 DEF Shape, ResetShape, InitializeShape
  <2>3. CASE fs' = fs /\ (Goto(p, "swap_undo") \/ SwapRaises(p))
    BY <1>1, <2>1, <2>3, GotoTypes DEF SwapRaises, Shape, ResetShape, InitializeShape, Steps
  <2>4. QED
    BY <1>3, <2>2, <2>3 DEF SwapIn
<1>4. CASE SwapUndo(p)
  <2>1. pc[p] = "swap_undo" /\ SwapRaises(p)
    BY <1>4 DEF SwapUndo
  <2>2. CASE Rename("rollback", "project")
    <3>1. fs'["project"] = fs["rollback"] /\ fs'["rollback"] = "absent"
      BY <1>1, <2>2, RenameDoes
    <3>2. \/ pc'[p] = "discard" /\ kind = "initialize"
          \/ pc'[p] = "restore" /\ kind = "reset"
      BY <1>1, <2>1, GotoTypes DEF SwapRaises, Steps
    <3>3. QED
      BY <1>1, <2>1, <3>1, <3>2 DEF Shape, ResetShape, InitializeShape, Theirs
  <2>3. CASE fs' = fs
    BY <1>1, <2>1, <2>3, GotoTypes DEF SwapRaises, Shape, ResetShape, InitializeShape, Steps
  <2>4. QED
    BY <1>4, <2>2, <2>3 DEF SwapUndo
<1>5. QED
  BY <1>2, <1>3, <1>4

LEMMA FinishShape ==
    ASSUME ShapeInv, locking, NEW p \in Operators,
           ValidateActive(p) \/ Clean(p) \/ Complete(p)
    PROVE  Shape(p)'
<1>1. Working(p)
  BY DEF Working
<1> USE ThreePlaces, HolderStep
<1>2. CASE ValidateActive(p)
  <2>1. pc[p] = "validate_active" /\ fs' = fs
    BY <1>2 DEF ValidateActive
  <2>2. \/ fs["project"] = "fresh" /\ kind = "initialize" /\ Goto(p, "complete")
        \/ fs["project"] = "fresh" /\ kind = "reset" /\ Goto(p, "clean")
        \/ Goto(p, "restore")
    BY <1>1, <1>2 DEF ValidateActive
  <2>3. QED
    BY <1>1, <2>1, <2>2, GotoTypes DEF Shape, ResetShape, InitializeShape, Steps
<1>3. CASE Clean(p)
  <2>1. pc[p] = "clean" /\ fs' = fs
    BY <1>3 DEF Clean
  <2>2. CASE Goto(p, "complete")
    BY <1>1, <2>1, <2>2, GotoTypes DEF Shape, ResetShape, InitializeShape, Steps
  <2>3. CASE Ends(p, "partial")
    BY <1>1, <2>1, <2>3, EndsTypes
       DEF Shape, ResetShape, InitializeShape, Tells, Verdicts
  <2>4. QED
    BY <1>3, <2>2, <2>3 DEF Clean
<1>4. CASE Complete(p)
  <2>1. pc[p] = "complete"
    BY <1>4 DEF Complete
  <2>2. CASE Remove("rollback") /\ Ends(p, "done")
    <3>1. /\ fs'["rollback"] = "absent" /\ fs'["stage"] = fs["stage"]
          /\ fs'["project"] = fs["project"]
      BY <1>1, <2>2, RemoveDoes
    <3>2. pc'[p] = "release" /\ verdict'[p] = "done"
      BY <1>1, <2>2, EndsTypes DEF Verdicts
    <3>3. fs["project"] = "fresh" /\ fs["stage"] = "absent"
      BY <1>1, <2>1 DEF Shape, ResetShape, InitializeShape
    <3>4. Tells(p, verdict[p])'
      BY <3>1, <3>2, <3>3 DEF Tells, NoLeftovers, Exists
    <3>5. QED
      BY <1>1, <3>2, <3>4 DEF Shape, ResetShape, InitializeShape
  <2>3. CASE RemoveFails("rollback") /\ CompleteFails(p)
    <3>1. /\ fs'["project"] = fs["project"]
          /\ fs'["rollback"] \in {fs["rollback"], Torn(fs["rollback"])}
      BY <1>1, <2>3, RemoveFailsDoes DEF RemoveFails
    <3>2. CASE kind = "initialize"
      BY <1>1, <2>1, <2>3, <3>1, <3>2, GotoTypes
         DEF CompleteFails, Shape, InitializeShape, Theirs, Torn, Steps
    <3>3. CASE kind = "reset"
      BY <1>1, <2>1, <2>3, <3>1, <3>3, EndsTypes
         DEF CompleteFails, Shape, ResetShape, Tells, Verdicts
    <3>4. QED
      BY <1>1, <3>2, <3>3
  <2>4. QED
    BY <1>4, <2>2, <2>3 DEF Complete
<1>5. QED
  BY <1>2, <1>3, <1>4

LEMMA RestoreShape ==
    ASSUME ShapeInv, locking, NEW p \in Operators, Restore(p) \/ RestoreIn(p)
    PROVE  Shape(p)'
<1>1. Working(p)
  BY DEF Working
<1> USE ThreePlaces, HolderStep
<1>2. CASE Restore(p)
  <2>1. pc[p] = "restore"
    BY <1>2 DEF Restore
  <2>2. CASE Exists("rollback") /\ Remove("project") /\ Goto(p, "restore_in")
    <3>1. fs'["project"] = "absent" /\ fs'["rollback"] = fs["rollback"]
      BY <1>1, <2>2, RemoveDoes
    <3>2. pc'[p] = "restore_in"
      BY <1>1, <2>2, GotoTypes DEF Steps
    <3>3. QED
      BY <1>1, <2>1, <2>2, <3>1, <3>2
         DEF Exists, Shape, ResetShape, InitializeShape, Theirs
  <2>3. CASE kind = "initialize" /\ Remove("project") /\ Ends(p, "failed")
    BY <1>1, <2>1, <2>3, EndsTypes, RemoveDoes
       DEF Shape, InitializeShape, Theirs, Tells, Verdicts
  <2>4. CASE RemoveFails("project") /\ RollbackFails(p)
             /\ (Exists("rollback") \/ kind = "initialize")
    <3>1. fs'["rollback"] = fs["rollback"]
      BY <1>1, <2>4, RemoveFailsDoes
    <3>2. /\ pc'[p] = "release"
          /\ verdict'[p] = IF kind = "initialize" THEN "rollback_failed" ELSE "critical"
      BY <1>1, <2>4, EndsTypes DEF RollbackFails, Verdicts
    <3>3. kind = "reset" => fs["rollback"] = before[p]
      BY <1>1, <2>1, <2>4 DEF Exists, Shape, ResetShape
    <3>4. Tells(p, verdict[p])'
      BY <1>1, <3>1, <3>2, <3>3 DEF Tells
    <3>5. QED
      BY <1>1, <3>2, <3>4 DEF Shape, ResetShape, InitializeShape
  <2>5. CASE kind = "initialize" /\ fs' = fs /\ ~Exists("project") /\ Ends(p, "failed")
    BY <1>1, <2>1, <2>5, EndsTypes
       DEF Exists, Shape, InitializeShape, Theirs, Tells, Verdicts
  <2>6. CASE kind = "reset" /\ fs' = fs /\ ~Exists("rollback") /\ RollbackFails(p)
    BY <1>1, <2>1, <2>6, EndsTypes
       DEF Exists, RollbackFails, Shape, ResetShape, Tells, Verdicts
  <2>7. QED
    BY <1>1, <1>2, <2>2, <2>3, <2>4, <2>5, <2>6 DEF Restore
<1>3. CASE RestoreIn(p)
  <2>1. pc[p] = "restore_in"
    BY <1>3 DEF RestoreIn
  <2>2. CASE Rename("rollback", "project") /\ Ends(p, "failed")
    <3>1. fs'["project"] = fs["rollback"]
      BY <1>1, <2>2, RenameDoes
    <3>2. pc'[p] = "release" /\ verdict'[p] = "failed"
      BY <1>1, <2>2, EndsTypes DEF Verdicts
    <3>3. /\ kind = "reset" => fs["rollback"] = before[p]
          /\ kind = "initialize" => fs["rollback"] \in Theirs
      BY <1>1, <2>1 DEF Shape, ResetShape, InitializeShape
    <3>4. Tells(p, verdict[p])'
      BY <1>1, <3>1, <3>2, <3>3 DEF Tells, Theirs
    <3>5. QED
      BY <1>1, <3>2, <3>4 DEF Shape, ResetShape, InitializeShape
  <2>3. CASE fs' = fs /\ RollbackFails(p)
    BY <1>1, <2>1, <2>3, EndsTypes
       DEF RollbackFails, Shape, ResetShape, InitializeShape, Tells, Verdicts
  <2>4. QED
    BY <1>3, <2>2, <2>3 DEF RestoreIn
<1>4. QED
  BY <1>2, <1>3

LEMMA OthersShape ==
    ASSUME ShapeInv, locking',
           \/ \E p \in Operators : Acquire(p) \/ Release(p) \/ Crash(p)
           \/ UserWorks \/ UNCHANGED vars
    PROVE  \A q \in Operators : Shape(q)'
<1> SUFFICES ASSUME NEW q \in Operators PROVE Shape(q)'
  OBVIOUS
<1>1. /\ locking /\ kind' = kind /\ kind \in {"initialize", "reset"}
      /\ ReplacementTypeOK /\ Shape(q)
  BY DEF ShapeInv, ReplacementTypeOK, Acquire, Release, Crash, UserWorks, vars, given
<1>2. ASSUME NEW p \in Operators, Acquire(p) PROVE Shape(q)'
  <2>1. fs' = fs
    BY <1>2 DEF Acquire
  <2>2. CASE q # p
    BY <1>1, <1>2, <2>1, <2>2
       DEF Acquire, ReplacementTypeOK, Shape, ResetShape, InitializeShape, Tells, NoLeftovers,
           Exists
  <2>3. CASE q = p
    BY <1>1, <1>2, <2>1, <2>3
       DEF Acquire, ReplacementTypeOK, Shape, ResetShape, InitializeShape
  <2>4. QED
    BY <2>2, <2>3
<1>3. ASSUME NEW p \in Operators, Release(p) \/ Crash(p) PROVE Shape(q)'
  <2>1. /\ pc' = [pc EXCEPT ![p] = "end"] /\ pc[p] \notin {"start", "end"}
        /\ fs' = fs /\ before' = before
    BY <1>3 DEF Release, Crash, locals
  <2>2. pc'[q] \in {"start", "end"}
    BY <1>1, <2>1 DEF ReplacementTypeOK
  <2>3. QED
    BY <2>2 DEF Shape, ResetShape, InitializeShape
<1>4. CASE UserWorks
  <2>1. /\ kind = "initialize" /\ fs["project"] \in {"absent", "empty"}
        /\ fs'["project"] = "work" /\ fs'["stage"] = fs["stage"]
        /\ fs'["rollback"] = fs["rollback"]
        /\ pc' = pc /\ verdict' = verdict /\ before' = before
    BY <1>1, <1>4, ThreePlaces DEF UserWorks, locals, ReplacementTypeOK
  <2>2. InitializeShape(q)'
    BY <1>1, <2>1 DEF Shape, InitializeShape, Theirs
  <2>3. pc[q] = "release" => Tells(q, verdict[q])'
    <3> SUFFICES ASSUME pc[q] = "release" PROVE Tells(q, verdict[q])'
      OBVIOUS
    <3>1. Tells(q, verdict[q])
      BY <1>1 DEF Shape
    <3>2. verdict[q] \notin {"done", "partial"}
      BY <2>1, <3>1 DEF Tells
    <3>3. verdict[q] # "critical"
      BY <1>1, <2>1 DEF Shape, InitializeShape
    <3>4. kind' = "initialize" /\ fs'["project"] = "work" /\ verdict'[q] = verdict[q]
      BY <1>1, <2>1
    <3>5. CASE verdict[q] = "failed"
      BY <3>4, <3>5 DEF Tells
    <3>6. CASE verdict[q] # "failed"
      BY <3>2, <3>3, <3>4, <3>6 DEF Tells
    <3>7. QED
      BY <3>5, <3>6
  <2>4. QED
    BY <1>1, <2>1, <2>2, <2>3 DEF Shape
<1>5. CASE UNCHANGED vars
  BY <1>1, <1>5
     DEF vars, given, locals, Shape, ResetShape, InitializeShape, Tells, NoLeftovers, Exists
<1>6. QED
  BY <1>2, <1>3, <1>4, <1>5

\* Under a lifecycle lock the result of an operation tells the project that
\* it leaves, whatever failed on the way (_result, _recover, initialize).
THEOREM OutcomeIsTrue == Spec => []OutcomeTellsProject
<1>1. Init => ShapeInv
  <2>1. Init => \A p \in Operators : Shape(p)
    BY DEF Init, Shape, ResetShape, InitializeShape
  <2>2. QED
    BY <2>1, InitialTypes DEF ShapeInv
<1>2. ShapeInv /\ [Next]_vars => ShapeInv'
  <2> SUFFICES ASSUME ShapeInv, [Next]_vars PROVE ShapeInv'
    OBVIOUS
  <2>1. ReplacementTypeOK'
    BY TypesStep DEF ShapeInv
  <2>2. ASSUME NEW p \in Operators, Working(p), locking' PROVE \A q \in Operators : Shape(q)'
    <3>1. locking
      BY <2>2, WorkingWorks DEF Works, ShapeInv
    <3>2. Shape(p)'
      BY <2>2, <3>1, PrepareShape, SwapShape, FinishShape, RestoreShape DEF Working
    <3>3. QED
      BY <2>2, <3>1, <3>2, HolderStep
  <2>3. locking' => \A q \in Operators : Shape(q)'
    BY <2>2, OthersShape DEF Next, Operate, Working, Finished
  <2>4. QED
    BY <2>1, <2>3 DEF ShapeInv
<1>3. ShapeInv => OutcomeTellsProject
  BY DEF ShapeInv, Shape, OutcomeTellsProject
<1>4. QED
  BY <1>1, <1>2, <1>3, PTL DEF Spec

=============================================================================
