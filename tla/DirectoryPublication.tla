------------------------ MODULE DirectoryPublication ------------------------
(***************************************************************************)
(* _publish (reporting/publisher.py): the artifact tree of a finalized run *)
(* is copied into a private staging directory, verified, and renamed onto  *)
(* a destination; a tree that was there is refused, reused or moved to a   *)
(* private backup and removed once the new tree is verified.               *)
(*                                                                         *)
(* Several publishers may share one destination. A call of the operating   *)
(* system may fail, and a publisher may stop for good between any two      *)
(* calls. A tree is known by the run whose artifacts it holds and by       *)
(* whether it is whole.                                                    *)
(***************************************************************************)

CONSTANTS
    Publishers,   \* calls of _publish that share the destination
    Published,    \* runs they publish
    NoRun,        \* the run of no publisher
    Earlier,      \* runs of which a tree may be there before
    Policies,     \* conflict policies a request may carry
    FaultyCalls   \* kinds of calls that may fail

ASSUME PublicationAssumption ==
    /\ NoRun \notin Earlier \cup Published
    /\ Policies \subseteq {"fail", "reuse_identical", "replace"}
    /\ FaultyCalls \subseteq {"source", "copy", "rename", "verify", "remove", "clock"}

VARIABLES
    destination,   \* the tree at request.destination
    staging,       \* the staging tree of each publisher
    backup,        \* the backup tree of each publisher
    pc,            \* where each publisher is in _publish
    request,       \* [run, policy, verify]: conflict_policy, verify_destination
    committed,     \* local committed
    preexisted,    \* local destination_preexisted
    status,        \* PublicationStatus of the result
    failed,        \* history: the kinds of calls that have failed
    previous       \* history: the tree at the destination at the beginning

trees == <<destination, staging, backup>>
locals == <<request, committed, preexisted>>
vars == <<trees, pc, locals, status, failed, previous>>

Absent == [run |-> NoRun, whole |-> FALSE]
Whole(run) == [run |-> run, whole |-> TRUE]
Broken(tree) == [tree EXCEPT !.whole = FALSE]
Exists(tree) == tree # Absent

\* What a removal that fails leaves of a tree that is there.
Leftovers(tree) == {left \in {tree, Broken(tree)} : Exists(tree)}

Requests == [run : Published, policy : Policies, verify : BOOLEAN]

Init ==
    /\ previous \in {Absent} \cup [run : Earlier, whole : BOOLEAN]
    /\ destination = previous
    /\ staging = [p \in Publishers |-> Absent]
    /\ backup = [p \in Publishers |-> Absent]
    /\ pc = [p \in Publishers |-> "start"]
    /\ request \in [Publishers -> Requests]
    /\ committed = [p \in Publishers |-> FALSE]
    /\ preexisted = [p \in Publishers |-> FALSE]
    /\ status = [p \in Publishers |-> "none"]
    /\ failed = {}

At(p, step) == pc[p] = step
Goto(p, step) == pc' = [pc EXCEPT ![p] = step]

\* A call of this kind raises OSError, or finds bytes it did not expect.
Fault(call) ==
    call \in FaultyCalls /\ failed' = failed \cup {call}

\* The except clause: _cleanup_failed_publication begins with the staging tree.
Raise(p) == Goto(p, "drop_staging")

Finish(p, result) ==
    /\ Goto(p, "done")
    /\ status' = [status EXCEPT ![p] = result]

-----------------------------------------------------------------------------
(***************************************************************************)
(* Up to a verified staging tree.                                          *)
(***************************************************************************)

Begin(p) ==
    /\ At(p, "start") /\ Goto(p, "verify_sources")
    /\ preexisted' = [preexisted EXCEPT ![p] = Exists(destination)]
    /\ UNCHANGED <<trees, request, committed, status, failed>>

VerifySources(p) ==
    /\ At(p, "verify_sources")
    /\ \/ Goto(p, "stage") /\ UNCHANGED failed
       \/ Raise(p) /\ Fault("source")
    /\ UNCHANGED <<trees, locals, status>>

\* Copy, hash and compare every entry.
Stage(p) ==
    /\ At(p, "stage")
    /\ \/ /\ staging' = [staging EXCEPT ![p] = Whole(request[p].run)]
          /\ Goto(p, "check_conflict") /\ UNCHANGED failed
       \/ /\ staging' = [staging EXCEPT ![p] = Broken(Whole(request[p].run))]
          /\ Raise(p) /\ Fault("copy")
    /\ UNCHANGED <<destination, backup, locals, status>>

-----------------------------------------------------------------------------
(***************************************************************************)
(* The conflict policy.                                                    *)
(***************************************************************************)

ConflictStep(p) ==
    CASE request[p].policy = "fail" -> "drop_staging"
      [] request[p].policy = "reuse_identical" -> "verify_reused"
      [] request[p].policy = "replace" -> "move_to_backup"

CheckConflict(p) ==
    /\ At(p, "check_conflict")
    /\ Goto(p, IF Exists(destination) THEN ConflictStep(p) ELSE "commit")
    /\ UNCHANGED <<trees, locals, status, failed>>

\* _verify_existing_destination: the requested set of files, with these hashes.
Identical(p) == destination = Whole(request[p].run)

VerifyReused(p) ==
    /\ At(p, "verify_reused")
    /\ \/ Identical(p) /\ Goto(p, "drop_reused_staging") /\ UNCHANGED failed
       \/ ~Identical(p) /\ Raise(p) /\ UNCHANGED failed
       \/ Raise(p) /\ Fault("verify")
    /\ UNCHANGED <<trees, locals, status>>

DropReusedStaging(p) ==
    /\ At(p, "drop_reused_staging")
    /\ \/ /\ staging' = [staging EXCEPT ![p] = Absent]
          /\ Goto(p, "result") /\ UNCHANGED failed
       \/ /\ \E left \in Leftovers(staging[p]) : staging' = [staging EXCEPT ![p] = left]
          /\ Raise(p) /\ Fault("remove")
    /\ UNCHANGED <<destination, backup, locals, status>>

\* os.replace(destination, backup); the destination may be gone by now.
MoveToBackup(p) ==
    /\ At(p, "move_to_backup")
    /\ \/ /\ Exists(destination)
          /\ backup' = [backup EXCEPT ![p] = destination]
          /\ destination' = Absent
          /\ Goto(p, "commit") /\ UNCHANGED failed
       \/ ~Exists(destination) /\ Raise(p) /\ UNCHANGED <<trees, failed>>
       \/ Raise(p) /\ Fault("rename") /\ UNCHANGED trees
    /\ UNCHANGED <<staging, locals, status>>

-----------------------------------------------------------------------------
(***************************************************************************)
(* The commit, and what is done after it.                                  *)
(***************************************************************************)

\* Mutant: the rename replaces a tree that has appeared since the check.
CommitOverwrites(p) ==
    /\ At(p, "commit")
    /\ destination' = staging[p]
    /\ staging' = [staging EXCEPT ![p] = Absent]
    /\ committed' = [committed EXCEPT ![p] = TRUE]
    /\ Goto(p, "verify")
    /\ UNCHANGED <<backup, request, preexisted, status, failed>>

\* os.replace(staging, destination) does not replace a tree that holds files.
Commit(p) ==
    /\ At(p, "commit")
    /\ \/ /\ ~Exists(destination)
          /\ destination' = staging[p]
          /\ staging' = [staging EXCEPT ![p] = Absent]
          /\ committed' = [committed EXCEPT ![p] = TRUE]
          /\ Goto(p, "verify") /\ UNCHANGED failed
       \/ /\ Exists(destination) /\ Raise(p)
          /\ UNCHANGED <<destination, staging, committed, failed>>
       \/ /\ Raise(p) /\ Fault("rename")
          /\ UNCHANGED <<destination, staging, committed>>
    /\ UNCHANGED <<backup, request, preexisted, status>>

VerifyDestination(p) ==
    /\ At(p, "verify")
    /\ \/ /\ request[p].verify => Identical(p)
          /\ Goto(p, "drop_backup") /\ UNCHANGED failed
       \/ request[p].verify /\ ~Identical(p) /\ Raise(p) /\ UNCHANGED failed
       \/ request[p].verify /\ Raise(p) /\ Fault("verify")
    /\ UNCHANGED <<trees, locals, status>>

DropBackup(p) ==
    /\ At(p, "drop_backup")
    /\ \/ /\ backup' = [backup EXCEPT ![p] = Absent]
          /\ Goto(p, "result") /\ UNCHANGED failed
       \/ /\ \E left \in Leftovers(backup[p]) : backup' = [backup EXCEPT ![p] = left]
          /\ Raise(p) /\ Fault("remove")
    /\ UNCHANGED <<destination, staging, locals, status>>

\* The result refuses a finished_at that precedes started_at.
BuildResult(p) ==
    /\ At(p, "result")
    /\ \/ /\ Finish(p, IF committed[p] THEN "published" ELSE "already_present")
          /\ UNCHANGED failed
       \/ Raise(p) /\ UNCHANGED status /\ Fault("clock")
    /\ UNCHANGED <<trees, locals>>

-----------------------------------------------------------------------------
(***************************************************************************)
(* _cleanup_failed_publication; its own failures are passed over.          *)
(***************************************************************************)

\* Mutants: a failure restores nothing, or takes back whatever is there.
AfterStagingKeeps(p) == IF Exists(backup[p]) THEN "failed" ELSE "take_back"
AfterStagingTakesBack(p) == IF Exists(backup[p]) THEN "clear" ELSE "take_back"

AfterStaging(p) ==
    IF Exists(backup[p])
    THEN IF Exists(destination) THEN "clear" ELSE "restore"
    ELSE IF committed[p] /\ ~preexisted[p] THEN "take_back" ELSE "failed"

DropStaging(p) ==
    /\ At(p, "drop_staging")
    /\ \/ staging' = [staging EXCEPT ![p] = Absent] /\ UNCHANGED failed
       \/ /\ \E left \in Leftovers(staging[p]) : staging' = [staging EXCEPT ![p] = left]
          /\ Fault("remove")
    /\ Goto(p, "look")
    /\ UNCHANGED <<destination, backup, locals, status>>

\* backup.exists(), destination.exists(), committed, destination_preexisted.
Look(p) ==
    /\ At(p, "look") /\ Goto(p, AfterStaging(p))
    /\ UNCHANGED <<trees, locals, status, failed>>

\* Before the backup is put back the destination is removed, file by file.
ClearDestination(p) ==
    /\ At(p, "clear")
    /\ \/ destination' = Absent /\ Goto(p, "restore") /\ UNCHANGED failed
       \/ /\ destination' \in Leftovers(destination)
          /\ Goto(p, "failed") /\ Fault("remove")
    /\ UNCHANGED <<staging, backup, locals, status>>

RestoreBackup(p) ==
    /\ At(p, "restore") /\ Goto(p, "failed")
    /\ \/ /\ ~Exists(destination)
          /\ destination' = backup[p]
          /\ backup' = [backup EXCEPT ![p] = Absent] /\ UNCHANGED failed
       \/ Exists(destination) /\ UNCHANGED <<destination, backup, failed>>
       \/ Fault("rename") /\ UNCHANGED <<destination, backup>>
    /\ UNCHANGED <<staging, locals, status>>

TakeBackDestination(p) ==
    /\ At(p, "take_back") /\ Goto(p, "failed")
    /\ \/ destination' = Absent /\ UNCHANGED failed
       \/ destination' \in Leftovers(destination) /\ Fault("remove")
    /\ UNCHANGED <<staging, backup, locals, status>>

ReportFailure(p) ==
    /\ At(p, "failed") /\ Finish(p, "failed")
    /\ UNCHANGED <<trees, locals, failed>>

-----------------------------------------------------------------------------

Publish(p) ==
    \/ Begin(p) \/ VerifySources(p) \/ Stage(p) \/ CheckConflict(p)
    \/ VerifyReused(p) \/ DropReusedStaging(p) \/ MoveToBackup(p)
    \/ Commit(p) \/ VerifyDestination(p) \/ DropBackup(p) \/ BuildResult(p)
    \/ DropStaging(p) \/ Look(p) \/ ClearDestination(p) \/ RestoreBackup(p)
    \/ TakeBackDestination(p) \/ ReportFailure(p)

\* The process of a publisher ends for good, perhaps in the middle of a removal.
\* Nobody looks at its staging tree again.
Crash(p) ==
    /\ pc[p] \notin {"done", "crashed"} /\ Goto(p, "crashed")
    /\ \/ UNCHANGED <<destination, backup>>
       \/ /\ pc[p] \in {"clear", "take_back"}
          /\ destination' \in Leftovers(destination) /\ UNCHANGED backup
       \/ /\ At(p, "drop_backup") /\ UNCHANGED destination
          /\ \E left \in Leftovers(backup[p]) : backup' = [backup EXCEPT ![p] = left]
    /\ UNCHANGED <<staging, locals, status, failed>>

Next == (\E p \in Publishers : Publish(p) \/ Crash(p)) /\ UNCHANGED previous

Spec == Init /\ [][Next]_vars

-----------------------------------------------------------------------------
(***************************************************************************)
(* Properties.                                                             *)
(***************************************************************************)

Runs == Published \cup Earlier \cup {NoRun}
Trees == [run : Runs, whole : BOOLEAN]
Steps == {"start", "verify_sources", "stage", "check_conflict", "verify_reused",
          "drop_reused_staging", "move_to_backup", "commit", "verify",
          "drop_backup", "result", "drop_staging", "look", "clear", "restore",
          "take_back", "failed", "done", "crashed"}
Successes == {"published", "already_present"}

\* Every variable keeps its type, a publisher that is done has a status, and a
\* success leaves neither staging nor backup behind.
PublicationTypeOK ==
    /\ previous \in Trees /\ destination \in Trees
    /\ staging \in [Publishers -> Trees] /\ backup \in [Publishers -> Trees]
    /\ pc \in [Publishers -> Steps]
    /\ request \in [Publishers -> Requests]
    /\ committed \in [Publishers -> BOOLEAN]
    /\ preexisted \in [Publishers -> BOOLEAN]
    /\ status \in [Publishers -> Successes \cup {"none", "failed"}]
    /\ failed \subseteq FaultyCalls
    /\ \A p \in Publishers :
        /\ At(p, "done") <=> status[p] # "none"
        /\ status[p] \in Successes => staging[p] = Absent /\ backup[p] = Absent

\* p has the destination to itself: no other publisher has begun.
Alone(p) == \A q \in Publishers \ {p} : At(q, "start")

\* A publication that fails, with the destination to itself and no removal
\* failing, loses nothing and adds nothing: the tree that was there is there
\* again or is kept whole in the backup, and where there was none there is none
\* (_cleanup_failed_publication). A clock that steps back fails too late.
FailedLosesNothing ==
    \A p \in Publishers :
        status[p] = "failed" /\ Alone(p) /\ failed \cap {"remove", "clock"} = {} =>
            \/ destination = previous
            \/ Exists(previous) /\ backup[p] = previous

\* Among publishers that refuse or reuse, a published tree stays at the
\* destination, whole, whatever the others do afterwards, fail at, or leave
\* half done (os.replace does not replace a tree).
PublishedStays ==
    (\A p \in Publishers : request[p].policy # "replace") =>
        \A p \in Publishers :
            status[p] = "published" => destination = Whole(request[p].run)

\* Some whole tree is at the destination or in a backup, if there was one at
\* the beginning: at every instant, so wherever a publisher may stop.
SomeWholeCopy ==
    previous.whole =>
        destination.whole \/ \E p \in Publishers : backup[p].whole

\* SomeWholeCopy for one publisher whose removals do not fail.
SomeWholeCopyAlone ==
    (\E p \in Publishers : Alone(p)) /\ "remove" \notin failed => SomeWholeCopy

=============================================================================
