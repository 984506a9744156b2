------------------------ MODULE ProjectReplacement ------------------------
(***************************************************************************)
(* Replacing the project directory: ProjectInitializer (initializer.py)    *)
(* and ProjectResetter (resetter.py) over the rename operations of         *)
(* ProjectFilesystemAdapter (filesystem_adapter.py). Every rename, copy    *)
(* and removal may fail, a process may stop anywhere, and the user may put *)
(* work into an empty destination at any time. The operations object of    *)
(* the resetter and the lifecycle lock are external.                       *)
(***************************************************************************)
CONSTANTS
    Operators,  \* processes, each with one initialization or reset
    NoOne

ASSUME ReplacementAssumption == NoOne \notin Operators

VARIABLES
    kind,       \* what the operators do: "initialize" or "reset"
    locking,    \* they have a lifecycle lock: an initialization may have none
    fs,         \* the tree at each place
    lock,       \* holder of the lifecycle lock
    pc,         \* each operator's next step
    verdict,    \* what its operation comes to
    existed,    \* active_existed of its atomic_replace_directory
    validated,  \* it has validated the tree it published
    before      \* the project it found when it got the lock

given == <<kind, locking>>
vars == <<given, fs, lock, pc, verdict, existed, validated, before>>
locals == <<existed, validated, before>>

\* "work" is the user's tree, "fresh" a whole template tree.
Trees == {"absent", "empty", "work", "fresh", "torn_work", "partial"}
Places == {"project", "stage", "rollback"}

Exists(place) == fs[place] # "absent"
Torn(tree) == CASE tree = "work" -> "torn_work"
                [] tree = "fresh" -> "partial"
                [] OTHER -> tree

Init ==
    /\ kind \in {"initialize", "reset"} /\ locking \in BOOLEAN
    /\ kind = "reset" => locking
    /\ fs \in [Places -> {"absent", "empty", "work"}]
    /\ fs["stage"] = "absent" /\ fs["rollback"] = "absent"
    /\ kind = "reset" => fs["project"] = "work"
    /\ lock = NoOne
    /\ pc = [p \in Operators |-> "start"]
    /\ verdict = [p \in Operators |-> "none"]
    /\ existed = [p \in Operators |-> FALSE]
    /\ validated = [p \in Operators |-> FALSE]
    /\ before = [p \in Operators |-> "absent"]

Goto(p, step) == pc' = [pc EXCEPT ![p] = step] /\ UNCHANGED <<given, lock, verdict>>
Ends(p, v) ==
    /\ pc' = [pc EXCEPT ![p] = "release"] /\ verdict' = [verdict EXCEPT ![p] = v]
    /\ UNCHANGED <<given, lock>>

\* A rename onto a directory that holds something fails.
Rename(from, to) ==
    /\ Exists(from) /\ fs[to] \in {"absent", "empty"}
    /\ fs' = [fs EXCEPT ![from] = "absent", ![to] = fs[from]]
\* A recursive removal, or the part of it that came before its error.
Remove(place) == fs' = [fs EXCEPT ![place] = "absent"]
RemoveFails(place) ==
    \/ UNCHANGED fs
    \/ fs' = [fs EXCEPT ![place] = Torn(fs[place])]

-----------------------------------------------------------------------------
(***************************************************************************)
(* The lock and the steps before anything is replaced.                     *)
(***************************************************************************)

LockFree == lock = NoOne

Acquire(p) ==
    /\ pc[p] = "start"
    /\ \/ /\ LockFree /\ lock' = IF locking THEN p ELSE NoOne
          /\ pc' = [pc EXCEPT ![p] = "check"]
          /\ before' = [before EXCEPT ![p] = fs["project"]]
          /\ UNCHANGED verdict
       \/ /\ locking
          /\ pc' = [pc EXCEPT ![p] = "end"]
          /\ verdict' = [verdict EXCEPT ![p] = "concurrency"]
          /\ UNCHANGED <<lock, before>>
    /\ UNCHANGED <<given, fs, existed, validated>>

\* No stage and no rollback tree of an earlier operation is left.
NoLeftovers == ~Exists("stage") /\ ~Exists("rollback")

\* _require_available_lifecycle_paths: an existing destination must be empty.
DestinationAvailable == fs["project"] \in {"absent", "empty"}

\* _require_available_lifecycle_paths of an initialization; preflight of a
\* reset, which is external and may refuse for more than is named here.
Check(p) ==
    /\ pc[p] = "check"
    /\ \/ /\ NoLeftovers
          /\ IF kind = "initialize" THEN DestinationAvailable ELSE Exists("project")
          /\ Goto(p, "stage")
       \/ Ends(p, "failed")
    /\ UNCHANGED <<fs, locals>>

\* materialize and the configuration, or archive and stage_template: when it
\* fails, the initializer discards the stage and the resetter leaves it.
Stage(p) ==
    /\ pc[p] = "stage" /\ UNCHANGED locals
    /\ \/ /\ ~Exists("stage") /\ fs' = [fs EXCEPT !["stage"] = "fresh"]
          /\ Goto(p, "validate_stage")
       \/ /\ \/ UNCHANGED fs
             \/ ~Exists("stage") /\ fs' = [fs EXCEPT !["stage"] = "partial"]
          /\ IF kind = "initialize" THEN Goto(p, "discard") ELSE Ends(p, "failed")

ValidateStage(p) ==
    /\ pc[p] = "validate_stage"
    /\ \/ fs["stage"] = "fresh" /\ Goto(p, "swap_out")
       \/ Goto(p, "discard")
    /\ UNCHANGED <<fs, locals>>

\* _discard_if_present and discard_stage: an error is swallowed.
Discard(p) ==
    /\ pc[p] = "discard" /\ Ends(p, "failed")
    /\ IF Exists("stage") THEN Remove("stage") \/ RemoveFails("stage")
                          ELSE UNCHANGED fs
    /\ UNCHANGED locals

-----------------------------------------------------------------------------
(***************************************************************************)
(* atomic_replace_directory.                                               *)
(***************************************************************************)

\* Whom an error of the swap is handed to: unpublished in the initializer,
\* always rolled back by the resetter (failure.phase is SWAP).
SwapRaises(p) == Goto(p, IF kind = "initialize" THEN "discard" ELSE "restore")

\* Mutant: the previous tree is removed instead of retained.
RemovePrevious == Remove("project")
RetainPrevious == IF Exists("project") THEN Rename("project", "rollback")
                                       ELSE UNCHANGED fs

\* The tree at the destination is moved to the rollback place.
SwapOut(p) ==
    /\ pc[p] = "swap_out"
    /\ \/ /\ Exists("stage") /\ ~Exists("rollback")
          /\ existed' = [existed EXCEPT ![p] = Exists("project")]
          /\ RetainPrevious
          /\ Goto(p, "swap_in")
       \/ UNCHANGED <<fs, existed>> /\ SwapRaises(p)
    /\ UNCHANGED <<validated, before>>

\* The previous tree is put back only where it is missing.
MustUndo(p) == existed[p] /\ Exists("rollback") /\ ~Exists("project")

\* The staged tree is moved to the destination.
SwapIn(p) ==
    /\ pc[p] = "swap_in"
    /\ \/ Rename("stage", "project") /\ Goto(p, "validate_active")
       \/ /\ UNCHANGED fs
          /\ IF MustUndo(p) THEN Goto(p, "swap_undo") ELSE SwapRaises(p)
    /\ UNCHANGED locals

SwapUndo(p) ==
    /\ pc[p] = "swap_undo" /\ SwapRaises(p)
    /\ Rename("rollback", "project") \/ UNCHANGED fs
    /\ UNCHANGED locals

-----------------------------------------------------------------------------
(***************************************************************************)
(* After the swap.                                                         *)
(***************************************************************************)

ValidateActive(p) ==
    /\ pc[p] = "validate_active"
    /\ \/ /\ fs["project"] = "fresh"
          /\ validated' = [validated EXCEPT ![p] = TRUE]
          /\ Goto(p, IF kind = "initialize" THEN "complete" ELSE "clean")
       \/ UNCHANGED validated /\ Goto(p, "restore")
    /\ UNCHANGED <<fs, existed, before>>

\* _clean: runs and state are each tried; PROJECT_ONLY skips both.
Clean(p) ==
    /\ pc[p] = "clean"
    /\ Goto(p, "complete") \/ Ends(p, "partial")
    /\ UNCHANGED <<fs, locals>>

\* Mutant: a reset that cannot complete is rolled back like an initialization.
CompleteRollsBack(p) == Goto(p, "restore")
\* What a removal that fails leads to: the initializer takes its publication
\* back, the resetter keeps the validated project.
CompleteFails(p) == IF kind = "initialize" THEN Goto(p, "restore") ELSE Ends(p, "partial")

\* The retained tree is removed: the end of initialize, and complete.
Complete(p) ==
    /\ pc[p] = "complete"
    /\ \/ Remove("rollback") /\ Ends(p, "done")
       \/ Exists("rollback") /\ RemoveFails("rollback") /\ CompleteFails(p)
    /\ UNCHANGED locals

RollbackFails(p) == Ends(p, IF kind = "initialize" THEN "rollback_failed" ELSE "critical")

\* restore_directory removes the active tree first; _rollback_publication has
\* a removal of its own where there was no tree to go back to.
Restore(p) ==
    /\ pc[p] = "restore" /\ UNCHANGED locals
    /\ IF Exists("rollback") \/ (kind = "initialize" /\ Exists("project"))
       THEN \/ /\ Remove("project")
               /\ IF Exists("rollback") THEN Goto(p, "restore_in") ELSE Ends(p, "failed")
            \/ Exists("project") /\ RemoveFails("project") /\ RollbackFails(p)
       ELSE /\ UNCHANGED fs
            /\ IF kind = "initialize" THEN Ends(p, "failed") ELSE RollbackFails(p)

RestoreIn(p) ==
    /\ pc[p] = "restore_in"
    /\ \/ Rename("rollback", "project") /\ Ends(p, "failed")
       \/ UNCHANGED fs /\ RollbackFails(p)
    /\ UNCHANGED locals

\* The lock is released; an error of its release replaces the result.
Release(p) ==
    /\ pc[p] = "release"
    /\ pc' = [pc EXCEPT ![p] = "end"] /\ lock' = NoOne
    /\ \/ UNCHANGED verdict
       \/ locking /\ verdict' = [verdict EXCEPT ![p] = "concurrency"]
    /\ UNCHANGED <<given, fs, locals>>

-----------------------------------------------------------------------------

\* The process stops, or an interrupt leaves the resetter, which catches none.
Crash(p) ==
    /\ pc[p] \notin {"start", "end"}
    /\ pc' = [pc EXCEPT ![p] = "end"] /\ lock' = NoOne
    /\ verdict' = [verdict EXCEPT ![p] = "crashed"]
    /\ UNCHANGED <<given, fs, locals>>

\* The user puts files into a destination that has none.
UserWorks ==
    /\ kind = "initialize" /\ fs["project"] \in {"absent", "empty"}
    /\ fs' = [fs EXCEPT !["project"] = "work"]
    /\ UNCHANGED <<given, lock, pc, verdict, locals>>

Operate(p) ==
    \/ Acquire(p) \/ Check(p) \/ Stage(p) \/ ValidateStage(p) \/ Discard(p)
    \/ SwapOut(p) \/ SwapIn(p) \/ SwapUndo(p)
    \/ ValidateActive(p) \/ Clean(p) \/ Complete(p)
    \/ Restore(p) \/ RestoreIn(p) \/ Release(p)

Finished == (\A p \in Operators : pc[p] = "end") /\ UNCHANGED vars

Next ==
    \/ \E p \in Operators : Operate(p) \/ Crash(p)
    \/ UserWorks
    \/ Finished

Spec == Init /\ [][Next]_vars

-----------------------------------------------------------------------------
(***************************************************************************)
(* Properties.                                                             *)
(***************************************************************************)

Steps == {"start", "check", "stage", "validate_stage", "discard", "swap_out",
          "swap_in", "swap_undo", "validate_active", "clean", "complete",
          "restore", "restore_in", "release", "end"}
Verdicts == {"none", "done", "failed", "partial", "critical", "rollback_failed",
             "concurrency", "crashed"}

\* Every variable keeps its type, and the holder of the lock is at work.
ReplacementTypeOK ==
    /\ kind \in {"initialize", "reset"} /\ locking \in BOOLEAN
    /\ fs \in [Places -> Trees]
    /\ lock \in Operators \cup {NoOne}
    /\ pc \in [Operators -> Steps] /\ verdict \in [Operators -> Verdicts]
    /\ existed \in [Operators -> BOOLEAN] /\ validated \in [Operators -> BOOLEAN]
    /\ before \in [Operators -> Trees]
    /\ \A p \in Operators : locking /\ pc[p] \notin {"start", "end"} => lock = p

\* The tree that a reset replaces is whole, at its place or at the rollback
\* place, until the tree that replaces it was validated in place: whatever
\* rename or removal fails, and wherever the process stops
\* (atomic_replace_directory, restore_directory, _recover).
PreviousSurvives ==
    kind = "reset" =>
        \/ "work" \in {fs["project"], fs["rollback"]}
        \/ \E p \in Operators : validated[p]

\* What the project is when an operation comes to its verdict v.
Tells(p, v) ==
    CASE v = "done" -> fs["project"] = "fresh" /\ NoLeftovers
      [] v = "partial" -> fs["project"] = "fresh"
      [] v = "critical" -> before[p] \in {fs["project"], fs["rollback"]}
      [] v = "failed" /\ kind = "reset" -> fs["project"] = before[p]
      [] v = "failed" /\ kind = "initialize" ->
            fs["project"] \in {"fresh", "partial"} => fs["project"] = before[p]
      [] OTHER -> TRUE

\* The result of an operation tells the project it leaves: done and partial
\* the new one, failed the one it found, critical the one it found at one of
\* two places; a failed initialization leaves no profile of its own (_result,
\* _recover, initialize). Only the release of the lock may still change the result.
OutcomeTellsProject ==
    locking => \A p \in Operators : pc[p] = "release" => Tells(p, verdict[p])

-----------------------------------------------------------------------------
(***************************************************************************)
(* What the documentation says of the code and the code does not do.       *)
(***************************************************************************)

\* "Permit publication only when an existing destination directory is empty."
\* (scripts/init_project.py, --allow-existing-empty-profile): the tree that an
\* initialization moved out of the way and then gives up is an empty one, not
\* the user's work or a profile that another initialization published.
OnlyEmptyIsReplaced ==
    [][kind = "initialize" /\ fs["rollback"] \in {"work", "fresh"} =>
           fs["rollback"] \in {fs'["rollback"], fs'["project"]}]_fs

=============================================================================
