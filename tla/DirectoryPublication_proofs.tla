--------------------- MODULE DirectoryPublication_proofs ---------------------
(***************************************************************************)
(* Proofs about DirectoryPublication, for every set of publishers, runs,   *)
(* earlier trees, policies and failing calls.                              *)
(***************************************************************************)
EXTENDS DirectoryPublication, TLAPS

-----------------------------------------------------------------------------
(***************************************************************************)
(* The inductive invariant.                                                *)
(***************************************************************************)

Types ==
    /\ previous \in Trees /\ destination \in Trees
    /\ staging \in [Publishers -> Trees] /\ backup \in [Publishers -> Trees]
    /\ pc \in [Publishers -> Steps]
    /\ request \in [Publishers -> Requests]
    /\ committed \in [Publishers -> BOOLEAN]
    /\ preexisted \in [Publishers -> BOOLEAN]
    /\ status \in [Publishers -> Successes \cup {"none", "failed"}]
    /\ failed \subseteq FaultyCalls

BeforeBackup == {"start", "verify_sources", "stage", "check_conflict",
                 "verify_reused", "drop_reused_staging", "move_to_backup"}
BeforeCommit == BeforeBackup \cup {"commit"}
AfterCommit == {"verify", "drop_backup", "take_back"}

\* What a publisher knows of its own trees at each of its steps.
Local(p) ==
    /\ At(p, "done") <=> status[p] # "none"
    /\ pc[p] \in BeforeBackup => backup[p] = Absent
    /\ pc[p] \in BeforeCommit => ~committed[p]
    /\ pc[p] \in {"check_conflict", "move_to_backup", "commit"}
        => staging[p] = Whole(request[p].run)
    /\ pc[p] \in AfterCommit => committed[p]
    /\ pc[p] \in {"verify", "drop_backup", "result"} => staging[p] = Absent
    /\ pc[p] = "result" => backup[p] = Absent
    /\ status[p] = "published" => committed[p]
    /\ status[p] \in Successes => staging[p] = Absent /\ backup[p] = Absent

\* p has put its tree at the destination and has not given it up.
Holds(p) ==
    /\ committed[p]
    /\ \/ pc[p] \in {"verify", "drop_backup", "result", "drop_staging", "look", "take_back"}
       \/ status[p] = "published"

NoReplace == \A p \in Publishers : request[p].policy # "replace"

\* Without a policy of replace nothing is ever moved to a backup.
NoBackups ==
    \A p \in Publishers :
        /\ backup[p] = Absent
        /\ pc[p] \notin {"move_to_backup", "clear", "restore"}

\* The destination belongs to one publisher at most, and holds its tree.
OneOwner ==
    /\ \A p \in Publishers : Holds(p) => destination = Whole(request[p].run)
    /\ \A p, q \in Publishers : Holds(p) /\ Holds(q) => p = q

PublicationInv ==
    /\ Types
    /\ \A p \in Publishers : Local(p)
    /\ NoReplace => NoBackups /\ OneOwner

-----------------------------------------------------------------------------

\* A removal leaves a tree.
LEMMA LeftoversAreTrees ==
    ASSUME NEW tree \in Trees, NEW left \in Leftovers(tree)
    PROVE  left \in Trees
BY DEF Leftovers, Broken, Trees

\* So are the trees that the program makes.
LEMMA MadeTrees ==
    /\ Absent \in Trees
    /\ \A run \in Published : Whole(run) \in Trees /\ Broken(Whole(run)) \in Trees
    /\ \A run \in Published : Whole(run) # Absent
BY PublicationAssumption DEF Absent, Whole, Broken, Trees, Runs

\* Every step keeps the types.
LEMMA TypesStep ==
    ASSUME Types, \A p \in Publishers : Local(p), Next
    PROVE  Types'
<1> PICK p \in Publishers : Publish(p) \/ Crash(p)
  BY DEF Next
<1>0. previous' = previous /\ request[p] \in Requests /\ request[p].run \in Published
  BY DEF Next, Types, Requests
<1> USE <1>0, MadeTrees, LeftoversAreTrees DEF Types, At, Goto, Raise, Fault, Finish, trees, locals, Steps
<1>1. CASE Begin(p)
  BY <1>1 DEF Begin, Exists
<1>2. CASE VerifySources(p)
  BY <1>2 DEF VerifySources
<1>3. CASE Stage(p)
  BY <1>3 DEF Stage
<1>4. CASE CheckConflict(p)
  <2>1. ConflictStep(p) \in Steps
    BY PublicationAssumption DEF ConflictStep, Requests
  <2> QED
    BY <1>4, <2>1 DEF CheckConflict
<1>5. CASE VerifyReused(p)
  BY <1>5 DEF VerifyReused
<1>6. CASE DropReusedStaging(p)
  BY <1>6 DEF DropReusedStaging
<1>7. CASE MoveToBackup(p)
  BY <1>7 DEF MoveToBackup
<1>8. CASE Commit(p)
  <2>1. destination' \in Trees /\ staging' \in [Publishers -> Trees]
    BY <1>8 DEF Commit
  <2>2. committed' \in [Publishers -> BOOLEAN] /\ pc' \in [Publishers -> Steps]
    BY <1>8 DEF Commit
  <2>3. failed' \subseteq FaultyCalls
    BY <1>8 DEF Commit
  <2> QED
    BY <1>8, <2>1, <2>2, <2>3 DEF Commit
<1>9. CASE VerifyDestination(p)
  BY <1>9 DEF VerifyDestination
<1>10. CASE DropBackup(p)
  BY <1>10 DEF DropBackup
<1>11. CASE BuildResult(p)
  BY <1>11 DEF BuildResult, Successes
<1>12. CASE DropStaging(p)
  BY <1>12 DEF DropStaging
<1>13. CASE Look(p)
  <2>1. AfterStaging(p) \in Steps
    BY DEF AfterStaging
  <2> QED
    BY <1>13, <2>1 DEF Look
<1>14. CASE ClearDestination(p)
  BY <1>14 DEF ClearDestination
<1>15. CASE RestoreBackup(p)
  BY <1>15 DEF RestoreBackup
<1>16. CASE TakeBackDestination(p)
  BY <1>16 DEF TakeBackDestination
<1>17. CASE ReportFailure(p)
  BY <1>17 DEF ReportFailure, Successes
<1>18. CASE Crash(p)
  BY <1>18 DEF Crash
<1> QED
  BY <1>1, <1>2, <1>3, <1>4, <1>5, <1>6, <1>7, <1>8, <1>9, <1>10, <1>11, <1>12,
     <1>13, <1>14, <1>15, <1>16, <1>17, <1>18 DEF Publish

-----------------------------------------------------------------------------

\* No step changes a request.
LEMMA RequestFixed ==
    ASSUME NEW p \in Publishers, Publish(p) \/ Crash(p)
    PROVE  request' = request
BY DEF Publish, Crash, Begin, VerifySources, Stage, CheckConflict, VerifyReused,
       DropReusedStaging, MoveToBackup, Commit, VerifyDestination, DropBackup,
       BuildResult, DropStaging, Look, ClearDestination, RestoreBackup,
       TakeBackDestination, ReportFailure, locals

\* A publisher does not touch what is private to another one.
LEMMA OthersUntouched ==
    ASSUME Types, NEW p \in Publishers, Publish(p) \/ Crash(p),
           NEW q \in Publishers, q # p
    PROVE  /\ pc'[q] = pc[q] /\ status'[q] = status[q]
           /\ staging'[q] = staging[q] /\ backup'[q] = backup[q]
           /\ committed'[q] = committed[q]
<1> USE DEF Types, At, Goto, Raise, Fault, Finish, trees, locals
<1>1. CASE Crash(p)
  BY <1>1 DEF Crash
<1>2. CASE Begin(p) \/ VerifySources(p) \/ Stage(p) \/ CheckConflict(p) \/ VerifyReused(p)
  BY <1>2 DEF Begin, VerifySources, Stage, CheckConflict, VerifyReused
<1>3. CASE DropReusedStaging(p)
  BY <1>3 DEF DropReusedStaging
<1>4. CASE MoveToBackup(p)
  BY <1>4 DEF MoveToBackup
<1>5. CASE Commit(p)
  BY <1>5 DEF Commit
<1>6. CASE VerifyDestination(p) \/ DropBackup(p) \/ BuildResult(p)
  BY <1>6 DEF VerifyDestination, DropBackup, BuildResult
<1>7. CASE DropStaging(p) \/ Look(p) \/ ClearDestination(p)
  BY <1>7 DEF DropStaging, Look, ClearDestination
<1>8. CASE RestoreBackup(p) \/ TakeBackDestination(p) \/ ReportFailure(p)
  BY <1>8 DEF RestoreBackup, TakeBackDestination, ReportFailure
<1> QED
  BY <1>1, <1>2, <1>3, <1>4, <1>5, <1>6, <1>7, <1>8 DEF Publish

\* Every step keeps what its own publisher knows.
LEMMA LocalStep ==
    ASSUME Types, NEW p \in Publishers, Local(p), Publish(p) \/ Crash(p)
    PROVE  Local(p)'
<1>0. request[p] \in Requests
  BY DEF Types
<1> USE <1>0 DEF Types, Local, At, Goto, Raise, Fault, Finish, trees, locals,
              BeforeBackup, BeforeCommit, AfterCommit, Successes
<1>1. CASE Crash(p)
  BY <1>1 DEF Crash
<1>2. CASE Begin(p)
  BY <1>2 DEF Begin
<1>3. CASE VerifySources(p)
  BY <1>3 DEF VerifySources
<1>4. CASE Stage(p)
  BY <1>4 DEF Stage
<1>5. CASE CheckConflict(p)
  <2>1. ConflictStep(p) \in {"drop_staging", "verify_reused", "move_to_backup"}
    BY PublicationAssumption DEF ConflictStep, Requests
  <2> QED
    BY <1>5, <2>1 DEF CheckConflict
<1>6. CASE VerifyReused(p)
  BY <1>6 DEF VerifyReused
<1>7. CASE DropReusedStaging(p)
  BY <1>7 DEF DropReusedStaging
<1>8. CASE MoveToBackup(p)
  BY <1>8 DEF MoveToBackup
<1>9. CASE Commit(p)
  BY <1>9 DEF Commit
<1>10. CASE VerifyDestination(p)
  BY <1>10 DEF VerifyDestination
<1>11. CASE DropBackup(p)
  BY <1>11 DEF DropBackup
<1>12. CASE BuildResult(p)
  BY <1>12 DEF BuildResult
<1>13. CASE DropStaging(p)
  BY <1>13 DEF DropStaging
<1>14. CASE Look(p)
  BY <1>14 DEF Look, AfterStaging
<1>15. CASE ClearDestination(p)
  BY <1>15 DEF ClearDestination
<1>16. CASE RestoreBackup(p)
  BY <1>16 DEF RestoreBackup
<1>17. CASE TakeBackDestination(p)
  BY <1>17 DEF TakeBackDestination
<1>18. CASE ReportFailure(p)
  BY <1>18 DEF ReportFailure
<1> QED
  BY <1>1, <1>2, <1>3, <1>4, <1>5, <1>6, <1>7, <1>8, <1>9, <1>10, <1>11, <1>12,
     <1>13, <1>14, <1>15, <1>16, <1>17, <1>18 DEF Publish

-----------------------------------------------------------------------------

\* Without replace, no step makes a backup or a step that deals with one.
LEMMA NoBackupsStep ==
    ASSUME Types, NoReplace, NoBackups,
           NEW p \in Publishers, Local(p), Publish(p) \/ Crash(p)
    PROVE  backup'[p] = Absent /\ pc'[p] \notin {"move_to_backup", "clear", "restore"}
<1>0. /\ request[p] \in Requests /\ request[p].policy # "replace"
      /\ backup[p] = Absent /\ pc[p] \notin {"move_to_backup", "clear", "restore"}
  BY DEF Types, NoReplace, NoBackups
<1> USE <1>0 DEF Types, At, Goto, Raise, Fault, Finish, trees, locals, Leftovers, Exists
<1>1. CASE Crash(p)
  BY <1>1 DEF Crash
<1>2. CASE Begin(p)
  BY <1>2 DEF Begin
<1>3. CASE VerifySources(p)
  BY <1>3 DEF VerifySources
<1>4. CASE Stage(p)
  BY <1>4 DEF Stage
<1>5. CASE CheckConflict(p)
  <2>1. ConflictStep(p) \in {"drop_staging", "verify_reused"}
    BY PublicationAssumption DEF ConflictStep, Requests
  <2> QED
    BY <1>5, <2>1 DEF CheckConflict
<1>6. CASE VerifyReused(p)
  BY <1>6 DEF VerifyReused
<1>7. CASE DropReusedStaging(p)
  BY <1>7 DEF DropReusedStaging
<1>8. CASE MoveToBackup(p)
  BY <1>8 DEF MoveToBackup
<1>9. CASE Commit(p)
  BY <1>9 DEF Commit
<1>10. CASE VerifyDestination(p)
  BY <1>10 DEF VerifyDestination
<1>11. CASE DropBackup(p)
  BY <1>11 DEF DropBackup
<1>12. CASE BuildResult(p)
  BY <1>12 DEF BuildResult
<1>13. CASE DropStaging(p)
  BY <1>13 DEF DropStaging
<1>14. CASE Look(p)
  BY <1>14 DEF Look, AfterStaging
<1>15. CASE ClearDestination(p)
  BY <1>15 DEF ClearDestination
<1>16. CASE RestoreBackup(p)
  BY <1>16 DEF RestoreBackup
<1>17. CASE TakeBackDestination(p)
  BY <1>17 DEF TakeBackDestination
<1>18. CASE ReportFailure(p)
  BY <1>18 DEF ReportFailure
<1> QED
  BY <1>1, <1>2, <1>3, <1>4, <1>5, <1>6, <1>7, <1>8, <1>9, <1>10, <1>11, <1>12,
     <1>13, <1>14, <1>15, <1>16, <1>17, <1>18 DEF Publish

\* Without replace, only a commit gives the destination an owner, and only the
\* owner takes anything away from it.
LEMMA DestinationStep ==
    ASSUME Types, NoBackups, NEW p \in Publishers, Local(p), Publish(p) \/ Crash(p)
    PROVE  \/ /\ Commit(p) /\ ~Exists(destination)
              /\ destination' = Whole(request[p].run)
           \/ pc[p] = "take_back" /\ pc'[p] \in {"failed", "crashed"}
           \/ destination' = destination /\ (Holds(p)' => Holds(p))
<1>0. pc[p] \notin {"move_to_backup", "clear", "restore"}
  BY DEF NoBackups
<1> USE <1>0 DEF Types, At, Goto, Raise, Fault, Finish, trees, locals, Holds
<1>1. CASE Crash(p)
  BY <1>1 DEF Crash, Local
<1>2. CASE Begin(p) \/ VerifySources(p) \/ Stage(p) \/ VerifyReused(p)
  BY <1>2 DEF Begin, VerifySources, Stage, VerifyReused, Local, BeforeCommit, BeforeBackup
<1>3. CASE CheckConflict(p)
  BY <1>3 DEF CheckConflict, Local, BeforeCommit, BeforeBackup
<1>4. CASE DropReusedStaging(p)
  BY <1>4 DEF DropReusedStaging, Local, BeforeCommit, BeforeBackup
<1>5. CASE MoveToBackup(p)
  BY <1>5 DEF MoveToBackup
<1>6. CASE Commit(p)
  BY <1>6 DEF Commit, Local, BeforeCommit
<1>7. CASE VerifyDestination(p) \/ DropBackup(p)
  BY <1>7 DEF VerifyDestination, DropBackup
<1>8. CASE BuildResult(p)
  BY <1>8 DEF BuildResult
<1>9. CASE DropStaging(p) \/ Look(p)
  BY <1>9 DEF DropStaging, Look
<1>10. CASE ClearDestination(p) \/ RestoreBackup(p)
  BY <1>10 DEF ClearDestination, RestoreBackup
<1>11. CASE TakeBackDestination(p)
  BY <1>11 DEF TakeBackDestination
<1>12. CASE ReportFailure(p)
  BY <1>12 DEF ReportFailure
<1> QED
  BY <1>1, <1>2, <1>3, <1>4, <1>5, <1>6, <1>7, <1>8, <1>9, <1>10, <1>11, <1>12 DEF Publish

-----------------------------------------------------------------------------

\* Without replace, a step leaves the destination to one owner at most.
LEMMA OneOwnerStep ==
    ASSUME PublicationInv, NoBackups, OneOwner,
           NEW p \in Publishers, Publish(p) \/ Crash(p)
    PROVE  OneOwner'
<1>1. \A q \in Publishers \ {p} : Holds(q)' = Holds(q)
  BY OthersUntouched DEF PublicationInv, Holds
<1>2. request' = request
  BY RequestFixed
<1>3. CASE Commit(p) /\ ~Exists(destination) /\ destination' = Whole(request[p].run)
  <2>1. \A q \in Publishers : ~Holds(q)
    <3>1. \A q \in Publishers : request[q].run \in Published
      BY DEF PublicationInv, Types, Requests
    <3> QED
      BY <1>3, <3>1, MadeTrees DEF OneOwner, Exists
  <2> QED
    BY <1>1, <1>2, <1>3, <2>1 DEF OneOwner
<1>4. CASE pc[p] = "take_back" /\ pc'[p] \in {"failed", "crashed"}
  <2>1. Holds(p)
    BY <1>4 DEF PublicationInv, Local, AfterCommit, Holds
  <2>2. \A q \in Publishers \ {p} : ~Holds(q)
    BY <2>1 DEF OneOwner
  <2>3. ~Holds(p)'
    <3>1. status[p] = "none"
      BY <1>4 DEF PublicationInv, Local, At
    <3>2. status' = status
      BY <1>4 DEF Publish, Crash, At, Begin, VerifySources, Stage, CheckConflict, VerifyReused,
           DropReusedStaging, MoveToBackup, Commit, VerifyDestination, DropBackup,
           BuildResult, DropStaging, Look, ClearDestination, RestoreBackup,
           TakeBackDestination, ReportFailure
    <3> QED
      BY <1>4, <3>1, <3>2 DEF Holds
  <2> QED
    BY <1>1, <2>2, <2>3 DEF OneOwner
<1>5. CASE destination' = destination /\ (Holds(p)' => Holds(p))
  BY <1>1, <1>2, <1>5 DEF OneOwner
<1> QED
  BY <1>3, <1>4, <1>5, DestinationStep DEF PublicationInv

\* PublicationInv is inductive.
THEOREM PublicationInvariant == Spec => []PublicationInv
<1>1. Init => PublicationInv
  <2> SUFFICES ASSUME Init PROVE PublicationInv
    OBVIOUS
  <2>1. Types
    BY MadeTrees DEF Init, Types, Trees, Runs, Steps
  <2>2. \A p \in Publishers : Local(p)
    BY DEF Init, Local, At, BeforeBackup, BeforeCommit, AfterCommit, Successes
  <2>3. NoBackups /\ OneOwner
    BY DEF Init, NoBackups, OneOwner, Holds
  <2> QED
    BY <2>1, <2>2, <2>3 DEF PublicationInv
<1>2. PublicationInv /\ [Next]_vars => PublicationInv'
  <2> SUFFICES ASSUME PublicationInv, [Next]_vars PROVE PublicationInv'
    OBVIOUS
  <2>1. CASE UNCHANGED vars
    BY <2>1 DEF PublicationInv, vars, trees, locals, Types, Local, At, NoReplace, NoBackups,
                OneOwner, Holds
  <2>2. CASE Next
    <3>0. Types /\ \A p \in Publishers : Local(p)
      BY DEF PublicationInv
    <3>1. PICK p \in Publishers : Publish(p) \/ Crash(p)
      BY <2>2 DEF Next
    <3>2. Types'
      BY <2>2, <3>0, TypesStep
    <3>3. ASSUME NEW q \in Publishers PROVE Local(q)'
      <4>1. CASE q = p
        BY <3>0, <3>1, <4>1, LocalStep
      <4>2. CASE q # p
        BY <3>0, <3>1, <4>2, OthersUntouched, RequestFixed DEF Local, At
      <4> QED
        BY <4>1, <4>2
    <3>4. ASSUME NoReplace' PROVE NoBackups' /\ OneOwner'
      <4>1. request' = request
        BY <3>1, RequestFixed
      <4>2. NoReplace /\ NoBackups /\ OneOwner
        BY <3>4, <4>1 DEF NoReplace, PublicationInv
      <4>3. NoBackups'
        BY <3>0, <3>1, <4>2, NoBackupsStep, OthersUntouched DEF NoBackups
      <4>4. OneOwner'
        BY <3>1, <4>2, OneOwnerStep
      <4> QED
        BY <4>3, <4>4
    <3> QED
      BY <3>2, <3>3, <3>4 DEF PublicationInv
  <2> QED
    BY <2>1, <2>2 DEF vars
<1> QED
  BY <1>1, <1>2, PTL DEF Spec

-----------------------------------------------------------------------------

\* Every variable keeps its type, a publisher that is done has a status, and a
\* success leaves neither staging nor backup behind (_publish).
THEOREM PublicationTypeCorrect == Spec => []PublicationTypeOK
<1>1. PublicationInv => PublicationTypeOK
  BY DEF PublicationInv, Types, Local, PublicationTypeOK
<1> QED
  BY <1>1, PublicationInvariant, PTL

\* However many publishers that refuse or reuse share a destination, a tree that
\* one of them has published stays there, whole (_publish, os.replace).
THEOREM PublishedIsKept == Spec => []PublishedStays
<1>1. PublicationInv => PublishedStays
  <2> SUFFICES ASSUME PublicationInv, NoReplace, NEW p \in Publishers,
                      status[p] = "published"
               PROVE  destination = Whole(request[p].run)
    BY DEF PublishedStays, NoReplace
  <2>1. committed[p] /\ OneOwner
    BY DEF PublicationInv, Local
  <2> QED
    BY <2>1 DEF OneOwner, Holds
<1> QED
  BY <1>1, PublicationInvariant, PTL

-----------------------------------------------------------------------------
(***************************************************************************)
(* A publisher that has the destination to itself and whose removals do    *)
(* not fail.                                                               *)
(***************************************************************************)

Undisturbed(p) == Alone(p) /\ "remove" \notin failed

\* Some whole tree is there, if there was one at the beginning.
Kept(p) == previous.whole => destination.whole \/ backup[p].whole

\* The tree that was there is there again, or it is retained; only a clock that
\* steps back leaves the new one.
Restored(p) ==
    \/ destination = previous
    \/ Exists(previous) /\ backup[p] = previous
    \/ "clock" \in failed /\ destination = Whole(request[p].run)

\* Where the previous tree is at each step.
Lone(p) ==
    /\ pc[p] \in BeforeBackup => destination = previous
    /\ pc[p] \notin {"start", "crashed"} => (preexisted[p] <=> Exists(previous))
    /\ pc[p] = "commit" => destination = Absent /\ backup[p] = previous
    /\ pc[p] \in {"verify", "drop_backup"} =>
          destination = Whole(request[p].run) /\ backup[p] = previous
    /\ pc[p] = "result" =>
          destination = IF committed[p] THEN Whole(request[p].run) ELSE previous
    /\ pc[p] \in {"drop_staging", "look"} =>
          \/ ~committed[p] /\ destination = previous /\ backup[p] = Absent
          \/ ~committed[p] /\ destination = Absent /\ backup[p] = previous
          \/ /\ committed[p] /\ destination = Whole(request[p].run)
             /\ backup[p] = previous \/ ("clock" \in failed /\ backup[p] = Absent)
    /\ pc[p] \in {"clear", "restore"} => Exists(previous) /\ backup[p] = previous
    /\ pc[p] = "restore" => destination = Absent
    /\ pc[p] = "take_back" => previous = Absent
    /\ pc[p] = "failed" \/ status[p] = "failed" => Restored(p)
    /\ status[p] = "published" => destination = Whole(request[p].run)
    /\ status[p] = "already_present" => destination = previous
    /\ pc[p] = "crashed" => Kept(p)

LoneInv == \A p \in Publishers : Undisturbed(p) => Lone(p)

\* A publisher that begins never begins again, and what has failed has failed.
LEMMA NeverBack ==
    ASSUME Types, NEW p \in Publishers, Publish(p) \/ Crash(p)
    PROVE  pc'[p] # "start" /\ failed \subseteq failed'
<1>0. request[p] \in Requests
  BY DEF Types
<1> USE <1>0 DEF Types, At, Goto, Raise, Fault, Finish
<1>1. CASE Crash(p)
  BY <1>1 DEF Crash
<1>2. CASE Begin(p) \/ VerifySources(p) \/ Stage(p) \/ VerifyReused(p) \/ DropReusedStaging(p)
  BY <1>2 DEF Begin, VerifySources, Stage, VerifyReused, DropReusedStaging
<1>3. CASE CheckConflict(p)
  <2>1. ConflictStep(p) # "start"
    BY PublicationAssumption DEF ConflictStep, Requests
  <2> QED
    BY <1>3, <2>1 DEF CheckConflict
<1>4. CASE MoveToBackup(p) \/ Commit(p) \/ VerifyDestination(p) \/ DropBackup(p)
  BY <1>4 DEF MoveToBackup, Commit, VerifyDestination, DropBackup
<1>5. CASE BuildResult(p) \/ DropStaging(p) \/ Look(p) \/ ClearDestination(p)
  BY <1>5 DEF BuildResult, DropStaging, Look, AfterStaging, ClearDestination
<1>6. CASE RestoreBackup(p) \/ TakeBackDestination(p) \/ ReportFailure(p)
  BY <1>6 DEF RestoreBackup, TakeBackDestination, ReportFailure
<1> QED
  BY <1>1, <1>2, <1>3, <1>4, <1>5, <1>6 DEF Publish

\* At every step some whole tree is there, if there was one at the beginning.
LEMMA LoneKeeps ==
    ASSUME Types, NEW p \in Publishers, Local(p), Lone(p)
    PROVE  Kept(p)
<1>0. pc[p] \in Steps /\ status[p] \in Successes \cup {"none", "failed"}
  BY DEF Types
<1>1. \A run : Whole(run).whole
  BY DEF Whole
<1>2. ~Absent.whole
  BY DEF Absent
<1>3. pc[p] = "done" => status[p] \in {"published", "already_present", "failed"}
  BY <1>0 DEF Local, At, Successes
<1>4. CASE pc[p] \in BeforeCommit \cup {"verify", "drop_backup", "result", "crashed"}
  BY <1>1, <1>4 DEF Lone, Kept, BeforeCommit
<1>5. CASE pc[p] \in {"drop_staging", "look", "clear", "restore", "take_back"}
  BY <1>1, <1>2, <1>5 DEF Lone, Kept
<1>6. CASE pc[p] \in {"failed", "done"}
  BY <1>1, <1>3, <1>6 DEF Lone, Kept, Restored
<1> QED
  BY <1>0, <1>4, <1>5, <1>6 DEF Steps, BeforeCommit, BeforeBackup

\* Every step of a lone publisher keeps what is known of the previous tree.
LEMMA LoneStep ==
    ASSUME Types, NEW p \in Publishers, Local(p), Lone(p), Publish(p) \/ Crash(p),
           previous' = previous, "remove" \notin failed'
    PROVE  Lone(p)'
<1>0. request[p] \in Requests /\ request' = request
  BY RequestFixed DEF Types
<1>1. pc[p] # "done" => status[p] = "none"
  BY DEF Types, Local, At, Successes
<1>2. Whole(request[p].run) # Absent
  BY <1>0, MadeTrees DEF Requests
<1> USE <1>0, <1>1, <1>2 DEF Types, At, Goto, Raise, Fault, Finish, trees, locals,
              Lone, Restored, Exists
<1>3. CASE Crash(p)
  <2>1. Kept(p)
    BY LoneKeeps
  <2>2. pc'[p] = "crashed" /\ status'[p] = "none"
    BY <1>3 DEF Crash
  <2>3. Kept(p)'
    <3>1. CASE UNCHANGED <<destination, backup>>
      BY <2>1, <3>1 DEF Kept
    <3>2. CASE pc[p] = "clear" /\ UNCHANGED backup
      BY <3>2 DEF Kept
    <3>3. CASE pc[p] = "take_back"
      BY <3>3 DEF Kept, Absent
    <3>4. CASE pc[p] = "drop_backup" /\ UNCHANGED destination
      BY <3>4 DEF Kept, Whole
    <3> QED
      BY <1>3, <3>1, <3>2, <3>3, <3>4 DEF Crash
  <2> QED
    BY <2>2, <2>3 DEF BeforeBackup
<1>4. CASE Begin(p)
  BY <1>4 DEF Begin, BeforeBackup
<1>5. CASE VerifySources(p)
  BY <1>5 DEF VerifySources, BeforeBackup, Local, BeforeCommit
<1>6. CASE Stage(p)
  BY <1>6 DEF Stage, BeforeBackup, Local, BeforeCommit
<1>7. CASE CheckConflict(p)
  <2>1. ConflictStep(p) \in {"drop_staging", "verify_reused", "move_to_backup"}
    BY PublicationAssumption DEF ConflictStep, Requests
  <2> QED
    BY <1>7, <2>1 DEF CheckConflict, BeforeBackup, Local, BeforeCommit
<1>8. CASE VerifyReused(p)
  BY <1>8 DEF VerifyReused, BeforeBackup, Local, BeforeCommit
<1>9. CASE DropReusedStaging(p)
  BY <1>9 DEF DropReusedStaging, BeforeBackup, Local, BeforeCommit
<1>10. CASE MoveToBackup(p)
  BY <1>10 DEF MoveToBackup, BeforeBackup, Local, BeforeCommit
<1>11. CASE Commit(p)
  BY <1>11 DEF Commit, BeforeBackup, Local, BeforeCommit
<1>12. CASE VerifyDestination(p)
  BY <1>12 DEF VerifyDestination, BeforeBackup, Local, AfterCommit
<1>13. CASE DropBackup(p)
  BY <1>13 DEF DropBackup, BeforeBackup, Local, AfterCommit
<1>14. CASE BuildResult(p)
  BY <1>14 DEF BuildResult, BeforeBackup, Local
<1>15. CASE DropStaging(p)
  BY <1>15 DEF DropStaging, BeforeBackup
<1>16. CASE Look(p)
  BY <1>16 DEF Look, AfterStaging, BeforeBackup
<1>17. CASE ClearDestination(p)
  BY <1>17 DEF ClearDestination, BeforeBackup
<1>18. CASE RestoreBackup(p)
  BY <1>18 DEF RestoreBackup, BeforeBackup
<1>19. CASE TakeBackDestination(p)
  BY <1>19 DEF TakeBackDestination, BeforeBackup
<1>20. CASE ReportFailure(p)
  BY <1>20 DEF ReportFailure, BeforeBackup
<1> QED
  BY <1>3, <1>4, <1>5, <1>6, <1>7, <1>8, <1>9, <1>10, <1>11, <1>12, <1>13, <1>14,
     <1>15, <1>16, <1>17, <1>18, <1>19, <1>20 DEF Publish

\* LoneInv is inductive, given PublicationInv.
THEOREM LoneInvariant == Spec => []LoneInv
<1>1. Init => LoneInv
  BY DEF Init, LoneInv, Lone, BeforeBackup, Restored
<1>2. PublicationInv /\ LoneInv /\ [Next]_vars => LoneInv'
  <2> SUFFICES ASSUME PublicationInv, LoneInv, [Next]_vars,
                      NEW p \in Publishers, Undisturbed(p)'
               PROVE  Lone(p)'
    BY DEF LoneInv
  <2>0. Types /\ \A q \in Publishers : Local(q)
    BY DEF PublicationInv
  <2>1. CASE UNCHANGED vars
    BY <2>1 DEF LoneInv, Undisturbed, Alone, At, Lone, Kept, Restored, vars, trees, locals
  <2>2. CASE Next
    <3>1. PICK q \in Publishers : Publish(q) \/ Crash(q)
      BY <2>2 DEF Next
    <3>2. q = p
      BY <2>0, <3>1, NeverBack DEF Undisturbed, Alone, At
    <3>3. Undisturbed(p)
      <4>1. \A r \in Publishers \ {p} : pc'[r] = pc[r]
        BY <2>0, <3>1, <3>2, OthersUntouched
      <4> QED
        BY <2>0, <3>1, <4>1, NeverBack DEF Undisturbed, Alone, At
    <3>4. Lone(p) /\ Local(p) /\ Types
      BY <2>0, <3>3 DEF LoneInv
    <3>5. previous' = previous /\ "remove" \notin failed'
      BY <2>2 DEF Next, Undisturbed
    <3> QED
      BY <3>1, <3>2, <3>4, <3>5, LoneStep
  <2> QED
    BY <2>1, <2>2
<1> QED
  BY <1>1, <1>2, PublicationInvariant, PTL DEF Spec

\* A failed publication of a lone publisher, no removal failing and no clock
\* stepping back, loses and adds nothing (_cleanup_failed_publication).
THEOREM FailureLosesNothing == Spec => []FailedLosesNothing
<1>1. LoneInv => FailedLosesNothing
  BY DEF LoneInv, Undisturbed, Lone, Restored, FailedLosesNothing
<1> QED
  BY <1>1, LoneInvariant, PTL

\* Wherever a lone publisher stops, a whole tree is at the destination or in its
\* backup, as long as its removals do not fail (_publish).
THEOREM WholeCopyAlone == Spec => []SomeWholeCopyAlone
<1>1. PublicationInv /\ LoneInv => SomeWholeCopyAlone
  <2> SUFFICES ASSUME PublicationInv, LoneInv, NEW p \in Publishers, Undisturbed(p)
               PROVE  SomeWholeCopy
    BY DEF SomeWholeCopyAlone, Undisturbed
  <2>1. Types /\ Local(p) /\ Lone(p)
    BY DEF PublicationInv, LoneInv
  <2>2. Kept(p)
    BY <2>1, LoneKeeps
  <2> QED
    BY <2>2 DEF Kept, SomeWholeCopy
<1> QED
  BY <1>1, PublicationInvariant, LoneInvariant, PTL
=============================================================================
